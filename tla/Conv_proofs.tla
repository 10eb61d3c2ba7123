------------------------------ MODULE Conv_proofs ------------------------------
(***************************************************************************)
(* Proofs about conversion, for every environment, every session, every    *)
(* number of probe steps and every evaluator.                              *)
(*                                                                         *)
(* Two arguments, both about the stack of callers.  The first one is about *)
(* the flags of the probe; it assumes nothing.  The second one is that an  *)
(* answer TRUE is a derivation: it takes the rules of definitional         *)
(* equality for hypotheses and says that no cache, remembered step, probe  *)
(* or abandoned declaration lets conversion go beyond them.                *)
(***************************************************************************)
EXTENDS Conv, TLAPS

CONSTANTS
  Equal(_, _),  \* two values are definitionally equal
  Within(_, _)  \* Within(d, v): v is a value at depth d, its variables stand below

\* A sequence, of whatever it holds.
Listed(s) == s \in Seq({s[i] : i \in DOMAIN s})

LEMMA SeqListed ==
  ASSUME NEW S, NEW s \in Seq(S)
  PROVE  Listed(s)
<1> DEFINE R == {s[i] : i \in DOMAIN s}
<1>1. Len(s) \in Nat /\ DOMAIN s = 1..Len(s) /\ s = [i \in 1..Len(s) |-> s[i]]
  OBVIOUS
<1>2. \A i \in 1..Len(s) : s[i] \in R
  BY <1>1
<1> HIDE DEF R
<1>3. [i \in 1..Len(s) |-> s[i]] \in Seq(R)
  BY <1>1, <1>2
<1>4. s \in Seq(R)
  BY <1>1, <1>3
<1> QED BY <1>4 DEF R, Listed

LEMMA ListedIs ==
  ASSUME NEW s, Listed(s)
  PROVE  /\ Len(s) \in Nat /\ DOMAIN s = 1..Len(s)
         /\ s # <<>> => Len(s) >= 1
BY DEF Listed

LEMMA Pushed ==
  ASSUME NEW s, Listed(s), NEW f
  PROVE  LET t == <<f>> \o s
         IN /\ Listed(t) /\ t # <<>> /\ Len(t) = Len(s) + 1
            /\ t[1] = f /\ Tail(t) = s
            /\ \A i \in 1..Len(s) : t[i + 1] = s[i]
<1> DEFINE t == <<f>> \o s
           S == {s[i] : i \in DOMAIN s} \cup {f}
<1>1. s \in Seq(S)
  BY DEF Listed
<1>2. <<f>> \in Seq(S)
  OBVIOUS
<1> HIDE DEF S
<1>3. t \in Seq(S) /\ Len(t) = Len(s) + 1 /\ t[1] = f /\ t # <<>> /\ \A i \in 1..Len(s) : t[i + 1] = s[i]
  BY <1>1, <1>2
<1>4. Listed(t)
  BY <1>3, SeqListed
<1>5. Tail(t) = s
  BY <1>1, <1>2, <1>3
<1> QED BY <1>3, <1>4, <1>5

LEMMA Popped ==
  ASSUME NEW s, Listed(s), s # <<>>
  PROVE  /\ Listed(Tail(s)) /\ Len(Tail(s)) = Len(s) - 1
         /\ \A i \in 1..(Len(s) - 1) : Tail(s)[i] = s[i + 1]
         /\ s = <<s[1]>> \o Tail(s)
<1> DEFINE S == {s[i] : i \in DOMAIN s}
<1>1. s \in Seq(S)
  BY DEF Listed
<1> HIDE DEF S
<1>2. /\ Tail(s) \in Seq(S) /\ Len(Tail(s)) = Len(s) - 1
      /\ \A i \in 1..(Len(s) - 1) : Tail(s)[i] = s[i + 1]
  BY <1>1
<1>3. Listed(Tail(s))
  BY <1>2, SeqListed
<1>4. s[1] \in S
  BY <1>1
<1>5. s = <<s[1]>> \o Tail(s)
  BY <1>1, <1>2, <1>4
<1> QED BY <1>2, <1>3, <1>5
-------------------------------------------------------------------------------
(* The flags of the probe.                                                   *)

\* A probe is on above position j: one was begun since the last comparison of types.
On(s, j) == \E i \in (j + 1)..Len(s) : s[i].k = "probe" /\ \A m \in (j + 1)..i : s[m].k # "types"

\* The flags are those of the callers, those a comparison of types saved are those of
\* the callers above it, and between two comparisons of types one probe is begun.
Scoped(s, p, e) ==
  /\ Listed(s)
  /\ p \in BOOLEAN /\ e \in BOOLEAN
  /\ p = On(s, 0) /\ (e => p)
  /\ \A j \in 1..Len(s) : s[j].k = "types" =>
       /\ s[j].probing \in BOOLEAN /\ s[j].exhausted \in BOOLEAN
       /\ s[j].probing = On(s, j) /\ (s[j].exhausted => s[j].probing)
  /\ \A j \in 1..Len(s) : s[j].k = "probe" => ~On(s, j)

ProbeInv == Scoped(stack, probing, exhausted) /\ (pc = "idle" => stack = <<>>)

LEMMA OnPushed ==
  ASSUME NEW s, Listed(s), NEW f
  PROVE  /\ \A j \in 0..Len(s) : On(<<f>> \o s, j + 1) = On(s, j)
         /\ f.k = "types" => ~On(<<f>> \o s, 0)
         /\ f.k = "probe" => On(<<f>> \o s, 0)
         /\ f.k \notin {"types", "probe"} => On(<<f>> \o s, 0) = On(s, 0)
<1> DEFINE t == <<f>> \o s
<1>1. /\ Len(t) = Len(s) + 1 /\ t[1] = f /\ Len(s) \in Nat
      /\ \A i \in 1..Len(s) : t[i + 1] = s[i]
  BY Pushed, ListedIs
<1>2. \A i \in 2..Len(t) : i - 1 \in 1..Len(s) /\ t[i] = s[i - 1]
  BY <1>1
<1> HIDE DEF t
<1>3. ASSUME NEW j \in 0..Len(s) PROVE On(t, j + 1) = On(s, j)
  <2>1. ASSUME On(t, j + 1) PROVE On(s, j)
    <3>1. PICK i \in (j + 2)..Len(t) : t[i].k = "probe" /\ \A m \in (j + 2)..i : t[m].k # "types"
      BY <2>1, <1>1 DEF On
    <3>2. i - 1 \in (j + 1)..Len(s) /\ s[i - 1].k = "probe"
      BY <3>1, <1>1, <1>2
    <3>3. ASSUME NEW m \in (j + 1)..(i - 1) PROVE s[m].k # "types"
      BY <3>1, <1>1, m + 1 \in (j + 2)..i
    <3> QED BY <3>2, <3>3 DEF On
  <2>2. ASSUME On(s, j) PROVE On(t, j + 1)
    <3>1. PICK i \in (j + 1)..Len(s) : s[i].k = "probe" /\ \A m \in (j + 1)..i : s[m].k # "types"
      BY <2>2 DEF On
    <3>2. i + 1 \in (j + 2)..Len(t) /\ t[i + 1].k = "probe"
      BY <3>1, <1>1
    <3>3. ASSUME NEW m \in (j + 2)..(i + 1) PROVE t[m].k # "types"
      <4>1. m - 1 \in (j + 1)..i /\ m \in 2..Len(t)
        BY <3>1, <1>1
      <4> QED BY <4>1, <3>1, <1>2
    <3> QED BY <3>2, <3>3 DEF On
  <2> QED BY <2>1, <2>2 DEF On
<1>4. ASSUME f.k = "types" PROVE ~On(t, 0)
  BY <1>4, <1>1 DEF On
<1>5. ASSUME f.k = "probe" PROVE On(t, 0)
  <2>1. 1 \in (0 + 1)..Len(t) /\ t[1].k = "probe" /\ \A m \in (0 + 1)..1 : t[m].k # "types"
    BY <1>5, <1>1
  <2> QED BY <2>1 DEF On
<1>6. ASSUME f.k \notin {"types", "probe"} PROVE On(t, 0) = On(t, 1)
  <2>1. ASSUME On(t, 0) PROVE On(t, 1)
    <3>1. PICK i \in (0 + 1)..Len(t) : t[i].k = "probe" /\ \A m \in (0 + 1)..i : t[m].k # "types"
      BY <2>1 DEF On
    <3>2. i # 1
      BY <3>1, <1>1, <1>6
    <3>3. i \in (1 + 1)..Len(t) /\ \A m \in (1 + 1)..i : t[m].k # "types"
      BY <3>1, <3>2, <1>1
    <3> QED BY <3>1, <3>3 DEF On
  <2>2. ASSUME On(t, 1) PROVE On(t, 0)
    <3>1. PICK i \in (1 + 1)..Len(t) : t[i].k = "probe" /\ \A m \in (1 + 1)..i : t[m].k # "types"
      BY <2>2 DEF On
    <3>2. i \in (0 + 1)..Len(t) /\ \A m \in (0 + 1)..i : t[m].k # "types"
      BY <3>1, <1>1, <1>6
    <3> QED BY <3>1, <3>2 DEF On
  <2> QED BY <2>1, <2>2 DEF On
<1>7. On(t, 1) = On(s, 0)
  BY <1>1, <1>3, 0 \in 0..Len(s)
<1> QED BY <1>3, <1>4, <1>5, <1>6, <1>7 DEF t

\* A caller that neither begins a probe nor compares types leaves the flags.
LEMMA ScopedPush ==
  ASSUME NEW s, NEW p, NEW e, Scoped(s, p, e), NEW f,
         f.k \notin {"types", "probe"}
  PROVE  Scoped(<<f>> \o s, p, e)
<1> DEFINE t == <<f>> \o s
<1>1. /\ Listed(s) /\ Listed(t) /\ Len(t) = Len(s) + 1 /\ t[1] = f /\ Len(s) \in Nat
      /\ \A i \in 1..Len(s) : t[i + 1] = s[i]
  BY Pushed, ListedIs DEF Scoped
<1>2. /\ \A j \in 0..Len(s) : On(t, j + 1) = On(s, j)
      /\ On(t, 0) = On(s, 0)
  BY <1>1, OnPushed
<1> HIDE DEF t
<1>3. \A j \in 1..Len(t) : j = 1 \/ (j - 1 \in 1..Len(s) /\ t[j] = s[j - 1] /\ On(t, j) = On(s, j - 1))
  <2> SUFFICES ASSUME NEW j \in 1..Len(t), j # 1
               PROVE  j - 1 \in 1..Len(s) /\ t[j] = s[j - 1] /\ On(t, j) = On(s, j - 1)
    OBVIOUS
  <2>1. j - 1 \in 1..Len(s) /\ j - 1 \in 0..Len(s) /\ (j - 1) + 1 = j
    BY <1>1
  <2> QED BY <2>1, <1>1, <1>2
<1> QED BY <1>1, <1>2, <1>3 DEF Scoped, t

\* A probe begins where none is on.
LEMMA ScopedProbe ==
  ASSUME NEW s, NEW e, Scoped(s, FALSE, e), NEW f, f.k = "probe"
  PROVE  Scoped(<<f>> \o s, TRUE, FALSE)
<1> DEFINE t == <<f>> \o s
<1>1. /\ Listed(s) /\ Listed(t) /\ Len(t) = Len(s) + 1 /\ t[1] = f /\ Len(s) \in Nat
      /\ \A i \in 1..Len(s) : t[i + 1] = s[i]
  BY Pushed, ListedIs DEF Scoped
<1>2. /\ \A j \in 0..Len(s) : On(t, j + 1) = On(s, j)
      /\ On(t, 0)
  BY <1>1, OnPushed
<1>4. ~On(t, 1)
  BY <1>1, <1>2, 0 \in 0..Len(s) DEF Scoped
<1> HIDE DEF t
<1>3. \A j \in 1..Len(t) : j = 1 \/ (j - 1 \in 1..Len(s) /\ t[j] = s[j - 1] /\ On(t, j) = On(s, j - 1))
  <2> SUFFICES ASSUME NEW j \in 1..Len(t), j # 1
               PROVE  j - 1 \in 1..Len(s) /\ t[j] = s[j - 1] /\ On(t, j) = On(s, j - 1)
    OBVIOUS
  <2>1. j - 1 \in 1..Len(s) /\ j - 1 \in 0..Len(s) /\ (j - 1) + 1 = j
    BY <1>1
  <2> QED BY <2>1, <1>1, <1>2
<1>5. (On(t, 0)) = TRUE
  BY <1>2 DEF On
<1> QED BY <1>1, <1>3, <1>4, <1>5 DEF Scoped, t

\* A comparison of types saves the flags.
LEMMA ScopedTypes ==
  ASSUME NEW s, NEW p, NEW e, Scoped(s, p, e), NEW f,
         f.k = "types", f.probing = p, f.exhausted = e
  PROVE  Scoped(<<f>> \o s, FALSE, FALSE)
<1> DEFINE t == <<f>> \o s
<1>1. /\ Listed(s) /\ Listed(t) /\ Len(t) = Len(s) + 1 /\ t[1] = f /\ Len(s) \in Nat
      /\ \A i \in 1..Len(s) : t[i + 1] = s[i]
  BY Pushed, ListedIs DEF Scoped
<1>2. /\ \A j \in 0..Len(s) : On(t, j + 1) = On(s, j)
      /\ ~On(t, 0)
  BY <1>1, OnPushed
<1>4. On(t, 1) = On(s, 0)
  BY <1>1, <1>2, 0 \in 0..Len(s)
<1> HIDE DEF t
<1>3. \A j \in 1..Len(t) : j = 1 \/ (j - 1 \in 1..Len(s) /\ t[j] = s[j - 1] /\ On(t, j) = On(s, j - 1))
  <2> SUFFICES ASSUME NEW j \in 1..Len(t), j # 1
               PROVE  j - 1 \in 1..Len(s) /\ t[j] = s[j - 1] /\ On(t, j) = On(s, j - 1)
    OBVIOUS
  <2>1. j - 1 \in 1..Len(s) /\ j - 1 \in 0..Len(s) /\ (j - 1) + 1 = j
    BY <1>1
  <2> QED BY <2>1, <1>1, <1>2
<1>5. (On(t, 0)) = FALSE
  BY <1>2 DEF On
<1> QED BY <1>1, <1>3, <1>4, <1>5 DEF Scoped, t

\* On the way back, each kind of caller leaves the flags as they were above it.
LEMMA ScopedPop ==
  ASSUME NEW s, NEW p, NEW e, Scoped(s, p, e), s # <<>>
  PROVE  /\ s[1].k \notin {"types", "probe"} => Scoped(Tail(s), p, e)
         /\ s[1].k = "probe" => Scoped(Tail(s), FALSE, FALSE)
         /\ s[1].k = "types" => Scoped(Tail(s), s[1].probing, s[1].exhausted)
<1> DEFINE f == s[1]
           r == Tail(s)
<1>1. /\ Listed(s) /\ Listed(r) /\ s = <<f>> \o r
      /\ Len(r) \in Nat /\ Len(s) = Len(r) + 1
      /\ \A i \in 1..Len(r) : s[i + 1] = r[i]
  BY Popped, ListedIs DEF Scoped
<1>2. /\ \A j \in 0..Len(r) : On(s, j + 1) = On(r, j)
      /\ f.k \notin {"types", "probe"} => On(s, 0) = On(r, 0)
  <2> HIDE DEF f, r
  <2> QED BY <1>1, OnPushed
<1>3. 1 \in 1..Len(s) /\ On(s, 1) = On(r, 0)
  BY <1>1, <1>2, 0 \in 0..Len(r)
<1>4. /\ \A j \in 1..Len(r) : r[j].k = "types" =>
           /\ r[j].probing \in BOOLEAN /\ r[j].exhausted \in BOOLEAN
           /\ r[j].probing = On(r, j) /\ (r[j].exhausted => r[j].probing)
      /\ \A j \in 1..Len(r) : r[j].k = "probe" => ~On(r, j)
  <2> SUFFICES ASSUME NEW j \in 1..Len(r)
               PROVE  /\ r[j].k = "types" =>
                           /\ r[j].probing \in BOOLEAN /\ r[j].exhausted \in BOOLEAN
                           /\ r[j].probing = On(r, j) /\ (r[j].exhausted => r[j].probing)
                      /\ r[j].k = "probe" => ~On(r, j)
    OBVIOUS
  <2> HIDE DEF f, r
  <2>1. j + 1 \in 1..Len(s) /\ s[j + 1] = r[j] /\ On(s, j + 1) = On(r, j)
    BY <1>1, <1>2
  <2> QED BY <2>1 DEF Scoped
<1>5. ASSUME f.k \notin {"types", "probe"} PROVE Scoped(r, p, e)
  <2> HIDE DEF f, r
  <2> QED BY <1>5, <1>1, <1>2, <1>4 DEF Scoped
<1>6. ASSUME f.k = "probe" PROVE Scoped(r, FALSE, FALSE)
  <2>1. ~On(r, 0)
    BY <1>6, <1>3 DEF Scoped
  <2>2. (On(r, 0)) = FALSE
    BY <2>1 DEF On
  <2> HIDE DEF f, r
  <2> QED BY <2>2, <1>1, <1>4 DEF Scoped
<1>7. ASSUME f.k = "types" PROVE Scoped(r, f.probing, f.exhausted)
  <2>1. /\ f.probing \in BOOLEAN /\ f.exhausted \in BOOLEAN
        /\ f.probing = On(r, 0) /\ (f.exhausted => f.probing)
    BY <1>7, <1>3 DEF Scoped
  <2> HIDE DEF f, r
  <2> QED BY <2>1, <1>1, <1>4 DEF Scoped
<1> QED BY <1>5, <1>6, <1>7

LEMMA ScopedEmpty == Scoped(<<>>, FALSE, FALSE)
<1>1. Listed(<<>>) /\ Len(<<>>) = 0
  BY DEF Listed
<1>2. (On(<<>>, 0)) = FALSE
  BY <1>1 DEF On
<1> QED BY <1>1, <1>2 DEF Scoped

\* The flags are saved around a comparison of types, and cleared for it.
LEMMA ScopedAsking ==
  ASSUME ProbeInv, NEW d, NEW t, NEW u, NEW frame, frame.k \notin {"types", "probe"},
         conv_types(d, t, u, frame)
  PROVE  Scoped(stack', probing', exhausted') /\ pc' = "conv"
<1> DEFINE saved == [k |-> "types", probing |-> probing, exhausted |-> exhausted, probe_left |-> probe_left]
           s == <<frame>> \o stack
<1>1. Scoped(s, probing, exhausted)
  BY ScopedPush DEF ProbeInv
<1>2. saved.k = "types" /\ saved.probing = probing /\ saved.exhausted = exhausted
  OBVIOUS
<1> HIDE DEF saved, s
<1>3. Scoped(<<saved>> \o s, FALSE, FALSE)
  BY <1>1, <1>2, ScopedTypes
<1>4. stack' = <<saved>> \o s
  <2>1. stack' = <<saved, frame>> \o stack
    BY DEF conv_types, saved
  <2>2. Listed(stack)
    BY DEF ProbeInv, Scoped
  <2>3. <<saved, frame>> \o stack = <<saved>> \o (<<frame>> \o stack)
    <3> DEFINE S == {stack[i] : i \in DOMAIN stack} \cup {saved, frame}
    <3>1. stack \in Seq(S) /\ <<saved>> \in Seq(S) /\ <<frame>> \in Seq(S)
      BY <2>2 DEF Listed
    <3>2. <<saved, frame>> = <<saved>> \o <<frame>>
      OBVIOUS
    <3> HIDE DEF S
    <3> QED BY <3>1, <3>2
  <2> QED BY <2>1, <2>3 DEF s
<1> QED BY <1>3, <1>4 DEF conv_types, Call

LEMMA ProbeStep == ProbeInv /\ [Next]_vars => ProbeInv'
<1> SUFFICES ASSUME ProbeInv, [Next]_vars PROVE ProbeInv'
  OBVIOUS
<1>0. Scoped(stack, probing, exhausted) /\ Listed(stack)
  BY DEF ProbeInv, Scoped
<1> DEFINE Kept == UNCHANGED <<stack, probing, exhausted>> /\ pc' # "idle"
           Begun == /\ \E f : f.k \notin {"types", "probe"} /\ stack' = <<f>> \o stack
                    /\ UNCHANGED <<probing, exhausted>> /\ pc' # "idle"
           Ended == /\ stack # <<>> /\ stack[1].k \notin {"types", "probe"} /\ stack' = Tail(stack)
                    /\ UNCHANGED <<probing, exhausted>> /\ pc' # "idle"
<1>1. ASSUME Kept PROVE ProbeInv'
  BY <1>1, <1>0 DEF ProbeInv
<1>2. ASSUME Begun PROVE ProbeInv'
  <2>1. PICK f : f.k \notin {"types", "probe"} /\ stack' = <<f>> \o stack
    BY <1>2
  <2>2. Scoped(<<f>> \o stack, probing, exhausted)
    BY <1>0, <2>1, ScopedPush
  <2> QED BY <1>2, <2>1, <2>2 DEF ProbeInv
<1>3. ASSUME Ended PROVE ProbeInv'
  BY <1>0, <1>3, ScopedPop DEF ProbeInv
<1>4. ASSUME stack' = <<>>, probing' = FALSE, exhausted' = FALSE PROVE ProbeInv'
  BY <1>4, ScopedEmpty DEF ProbeInv
<1>5. ASSUME NEW v, End(v) PROVE ProbeInv'
  BY <1>4, <1>5 DEF End
<1>11. CASE ConvSame
  BY <1>11, <1>1 DEF ConvSame, Same, Goto, Return, Call, Push, Frame, Returns, Caller, Resumes, probe, control
<1>12. CASE ConvKnown
  BY <1>12, <1>1 DEF ConvKnown, Same, Goto, Return, Call, Push, Frame, Returns, Caller, Resumes, probe, control
<1>13. CASE NcDecided
  BY <1>13, <1>1 DEF NcDecided, Same, Goto, Return, Call, Push, Frame, Returns, Caller, Resumes, probe, control
<1>14. CASE NcSucc
  BY <1>14, <1>1 DEF NcSucc, Same, Goto, Return, Call, Push, Frame, Returns, Caller, Resumes, probe, control
<1>15. CASE NcOther
  BY <1>15, <1>1 DEF NcOther, Same, Goto, Return, Call, Push, Frame, Returns, Caller, Resumes, probe, control
<1>16. CASE SpineDone
  BY <1>16, <1>1 DEF SpineDone, Same, Goto, Return, Call, Push, Frame, Returns, Caller, Resumes, probe, control
<1>17. CASE SpineProjection
  BY <1>17, <1>1 DEF SpineProjection, Same, Goto, Return, Call, Push, Frame, Returns, Caller, Resumes, probe, control
<1>18. CASE SpineSkip
  BY <1>18, <1>1 DEF SpineSkip, Same, Goto, Return, Call, Push, Frame, Returns, Caller, Resumes, probe, control
<1>19. CASE NoProbe
  BY <1>19, <1>1 DEF NoProbe, Same, Goto, Return, Call, Push, Frame, Returns, Caller, Resumes, probe, control
<1>20. CASE Unfold
  BY <1>20, <1>1 DEF Unfold, Same, Goto, Return, Call, Push, Frame, Returns, Caller, Resumes, probe, control
<1>21. CASE NextTry
  BY <1>21, <1>1 DEF NextTry, Unfolding, Same, Goto, Return, Call, Push, Frame, Returns, Caller, Resumes, probe, control
<1>22. CASE StuckOther
  BY <1>22, <1>1 DEF StuckOther, Same, Goto, Return, Call, Push, Frame, Returns, Caller, Resumes, probe, control
<1>23. CASE EtaFun
  BY <1>23, <1>1 DEF EtaFun, Same, Goto, Return, Call, Push, Frame, Returns, Caller, Resumes, probe, control
<1>24. CASE EtaNext
  BY <1>24, <1>1 DEF EtaNext, Same, Goto, Return, Call, Push, Frame, Returns, Caller, Resumes, probe, control
<1>25. CASE NoStruct
  BY <1>25, <1>1 DEF NoStruct, Same, Goto, Return, Call, Push, Frame, Returns, Caller, Resumes, probe, control
<1>26. CASE ConvMiss
  BY <1>26, <1>2 DEF ConvMiss, Same, Goto, Return, Call, Push, Frame, Returns, Caller, Resumes, probe, control
<1>27. CASE NcBinder
  BY <1>27, <1>2 DEF NcBinder, Same, Goto, Return, Call, Push, Frame, Returns, Caller, Resumes, probe, control
<1>28. CASE NcSpine
  BY <1>28, <1>2 DEF NcSpine, Same, Goto, Return, Call, Push, Frame, Returns, Caller, Resumes, probe, control
<1>29. CASE SpineArg
  BY <1>29, <1>2 DEF SpineArg, Same, Goto, Return, Call, Push, Frame, Returns, Caller, Resumes, probe, control
<1>30. CASE StuckSame
  BY <1>30, <1>2 DEF StuckSame, Same, Goto, Return, Call, Push, Frame, Returns, Caller, Resumes, probe, control
<1>31. CASE RetIrreducible
  BY <1>31, <1>3 DEF RetIrreducible, Same, Goto, Return, Call, Push, Frame, Returns, Caller, Resumes, probe, control
<1>32. CASE RetBinder
  BY <1>32, <1>3 DEF RetBinder, Same, Goto, Return, Call, Push, Frame, Returns, Caller, Resumes, probe, control
<1>33. CASE RetSpine
  BY <1>33, <1>3 DEF RetSpine, Same, Goto, Return, Call, Push, Frame, Returns, Caller, Resumes, probe, control
<1>34. CASE RetNested
  BY <1>34, <1>3 DEF RetNested, Same, Goto, Return, Call, Push, Frame, Returns, Caller, Resumes, probe, control, AfterProbe
<1>35. CASE RetAnswer
  BY <1>35, <1>3 DEF RetAnswer, Same, Goto, Return, Call, Push, Frame, Returns, Caller, Resumes, probe, control
<1>36. CASE RetK
  BY <1>36, <1>3 DEF RetK, Same, Goto, Return, Call, Push, Frame, Returns, Caller, Resumes, probe, control
<1>37. CASE RetMemo
  BY <1>37, <1>3 DEF RetMemo, Same, Goto, Return, Call, Push, Frame, Returns, Caller, Resumes, probe, control
<1>40. CASE ConvExhausted
  <2>1. probing /\ exhausted' = TRUE /\ UNCHANGED <<stack, probing>> /\ pc' # "idle"
    BY <1>40 DEF ConvExhausted, OutOfProbe, Return
  <2> QED BY <2>1, <1>0 DEF ProbeInv, Scoped
<1>41. CASE RetTypes
  <2>1. /\ stack # <<>> /\ stack[1].k = "types" /\ stack' = Tail(stack)
        /\ probing' = stack[1].probing /\ exhausted' = stack[1].exhausted /\ pc' # "idle"
    BY <1>41 DEF RetTypes, Returns, Same, Caller
  <2> QED BY <2>1, <1>0, ScopedPop DEF ProbeInv
<1>42. CASE RetProbe
  <2>1. /\ stack # <<>> /\ stack[1].k = "probe" /\ stack' = Tail(stack)
        /\ probing' = FALSE /\ exhausted' = FALSE /\ pc' # "idle"
    BY <1>42 DEF RetProbe, Returns, Same, Caller, EndsProbe, AfterProbe
  <2> QED BY <2>1, <1>0, ScopedPop DEF ProbeInv
<1>43. CASE Probes
  <2>1. CASE probing
    BY <2>1, <1>43, <1>2 DEF Probes, Same, Push, Frame, probe
  <2>2. CASE ~probing
    <3>1. PICK f : f.k = "probe" /\ stack' = <<f>> \o stack
      BY <2>2, <1>43 DEF Probes, Push, Frame
    <3>2. probing' = TRUE /\ exhausted' = FALSE /\ pc' # "idle" /\ probing = FALSE
      BY <2>2, <1>43, <1>0 DEF Probes, Scoped
    <3> QED BY <1>0, <3>1, <3>2, ScopedProbe DEF ProbeInv
  <2> QED BY <2>1, <2>2
<1>44. CASE ProofIrrel
  <2>1. CASE AreProofs
    <3>1. conv_types(at.d, value_type(at.d, at.x), value_type(at.d, at.y), Frame("answer"))
      BY <2>1, <1>44 DEF ProofIrrel
    <3>2. Frame("answer").k \notin {"types", "probe"}
      BY DEF Frame
    <3> QED BY <3>1, <3>2, ScopedAsking DEF ProbeInv
  <2>2. CASE ~AreProofs
    BY <2>2, <1>44, <1>1 DEF ProofIrrel, probe
  <2> QED BY <2>1, <2>2
<1>45. CASE StepValue
  <2>1. PICK v : IF asks_k(at.d, v)
                   THEN conv_types(at.d, k_type(at.d, v), value_type(at.d, k_ctor(RecOf(v), k_type(at.d, v))),
                                   [k |-> "k", at |-> at, v |-> v])
                   ELSE UNCHANGED <<control, probe>>
    BY <1>45 DEF StepValue
  <2>2. CASE asks_k(at.d, v)
    <3>1. [k |-> "k", at |-> at, v |-> v].k \notin {"types", "probe"}
      OBVIOUS
    <3> QED BY <2>1, <2>2, <3>1, ScopedAsking DEF ProbeInv
  <2>3. CASE ~asks_k(at.d, v)
    BY <2>1, <2>3, <1>45, <1>1 DEF StepValue, Unfolding, Same, control, probe
  <2> QED BY <2>2, <2>3
<1>46. CASE EtaStruct
  <2>1. [k |-> "field", at |-> at, n |-> 0].k \notin {"types", "probe"}
    OBVIOUS
  <2> QED BY <2>1, <1>46, ScopedAsking DEF EtaStruct, ProbeInv
<1>47. CASE UnitLike
  <2>1. CASE IsUnit
    <3>1. Frame("answer").k \notin {"types", "probe"}
      BY DEF Frame
    <3> QED BY <2>1, <3>1, <1>47, ScopedAsking DEF UnitLike, ProbeInv
  <2>2. CASE ~IsUnit
    BY <2>2, <1>47, <1>1 DEF UnitLike, Return, probe
  <2> QED BY <2>1, <2>2
<1>48. CASE RetField
  <2> DEFINE n == stack[1].n
             a == stack[1].at
  <2>1. stack # <<>> /\ stack[1].k = "field" /\ pc = "ret" /\ UNCHANGED <<probing, exhausted>>
    BY <1>48 DEF RetField, Caller, probe
  <2>2. CASE ~res
    BY <2>1, <2>2, <1>48, <1>3 DEF RetField, Caller
  <2>3. CASE res /\ n < Consts[Made(a).a].nfields
    <3>1. PICK f : stack' = <<f>> \o Tail(stack) /\ f.k = "field" /\ pc' = "conv"
      <4>1. stack' = <<[k |-> "field", at |-> a, n |-> n + 1]>> \o Tail(stack) /\ pc' = "conv"
        BY <2>3, <1>48, <2>1 DEF RetField, Caller, Call
      <4> QED BY <4>1
    <3>2. Scoped(Tail(stack), probing, exhausted)
      BY <2>1, <1>0, ScopedPop
    <3>3. Scoped(<<f>> \o Tail(stack), probing, exhausted)
      BY <3>1, <3>2, ScopedPush
    <3> QED BY <3>1, <3>3, <2>1 DEF ProbeInv
  <2>4. CASE res /\ ~(n < Consts[Made(a).a].nfields)
    BY <2>1, <2>4, <1>48, <1>3 DEF RetField, Caller
  <2> QED BY <2>2, <2>3, <2>4
<1>49. CASE Begin
  <2>1. stack = <<>>
    BY <1>49 DEF Begin, ProbeInv
  <2> QED BY <1>49, <2>1, <1>4 DEF Begin, control
<1>50. CASE Ask
  BY <1>50, <1>1 DEF Ask, Call, probe
<1>51. CASE AskFact
  <2>1. CASE todo[1].ok
    BY <2>1, <1>51, <1>0 DEF AskFact, control, probe, ProbeInv
  <2>2. CASE ~todo[1].ok
    BY <2>2, <1>51, <1>5 DEF AskFact
  <2> QED BY <2>1, <2>2
<1>52. CASE Answered
  <2>1. CASE res
    BY <2>1, <1>52, <1>0 DEF Answered, probe, ProbeInv
  <2>2. CASE ~res
    BY <2>2, <1>52, <1>5 DEF Answered
  <2> QED BY <2>1, <2>2
<1>53. CASE Accepts
  BY <1>53, <1>5 DEF Accepts
<1>54. CASE Fail
  BY <1>54, <1>5 DEF Fail
<1>55. CASE UNCHANGED vars
  BY <1>55, <1>0 DEF vars, control, probe, ProbeInv
<1> QED
  BY <1>11, <1>12, <1>13, <1>14, <1>15, <1>16, <1>17, <1>18, <1>19, <1>20, <1>21, <1>22, <1>23, <1>24,
     <1>25, <1>26, <1>27, <1>28, <1>29, <1>30, <1>31, <1>32, <1>33, <1>34, <1>35, <1>36, <1>37,
     <1>40, <1>41, <1>42, <1>43, <1>44, <1>45, <1>46, <1>47, <1>48, <1>49, <1>50, <1>51, <1>52, <1>53,
     <1>54, <1>55
  DEF Next, Compares, Reduces, Unwinds, Checks, Over

\* The probe flags belong to the innermost caller that sets them (nbe.cpp:1176-1185, 1332-1339).
THEOREM ProbesScoped == Spec => []ProbeScoped
<1>1. Init => ProbeInv
  BY ScopedEmpty DEF Init, ProbeInv
<1>2. ProbeInv /\ [Next]_vars => ProbeInv'
  BY ProbeStep
<1>3. ProbeInv => ProbeScoped
  <2> SUFFICES ASSUME ProbeInv PROVE ProbeScoped
    OBVIOUS
  <2>1. Scoped(stack, probing, exhausted) /\ Len(stack) \in Nat /\ DOMAIN stack = 1..Len(stack)
    BY ListedIs DEF ProbeInv, Scoped
  <2>2. On(stack, 0) <=> \E i \in DOMAIN stack : stack[i].k = "probe" /\ \A j \in 1..i : stack[j].k # "types"
    BY <2>1 DEF On
  <2>3. probing <=> On(stack, 0)
    BY <2>1 DEF Scoped
  <2>4. exhausted => probing
    BY <2>1 DEF Scoped
  <2> QED BY <2>2, <2>3, <2>4 DEF ProbeScoped
<1> QED BY <1>1, <1>2, <1>3, PTL DEF Spec
-------------------------------------------------------------------------------
(* What an answer TRUE derives.                                              *)

\* Argument positions of the head whose domain is a proposition.
Irrelevant(x) ==
  IF x.k # "neu" \/ x.hk = "bvar" THEN {} ELSE PropDomains(telescope(0, const_type(x.a)))

\* Elimination i of two applications of one head, arguments up to equality or irrelevance.
Agree(x, y, i) ==
  IF x.sp[i].p \/ y.sp[i].p THEN x.sp[i] = y.sp[i]
  ELSE \/ Equal(x.sp[i].v, y.sp[i].v)
       \/ i \in Irrelevant(x) /\ \A j \in 1..i : ~x.sp[j].p

\* The types a K-like recursor compares, and the steps it may take.
Fits(d, v) == Equal(k_type(d, v), value_type(d, k_ctor(RecOf(v), k_type(d, v))))
Steps(d, v, w) ==
  IF asks_k(d, v) THEN \E fits \in BOOLEAN : (fits => Fits(d, v)) /\ w = iota_with(d, v, k_major(d, v, fits))
                 ELSE w = step(d, v)

\* Field n of a structure made by its constructor c, and of another value x of its type.
MadeField(c, n) == c.sp[Consts[c.a].nparams + n + 1].v
FieldIn(x, c, n) == do_proj(x, Consts[c.a].induct, n)
MadeNeutral(c) == c.k = "neu" /\ MadeCtor(c)

\* A hypothesis: Equal holds of what the rules of definitional equality derive.
Reflexive == \A x : Equal(x, x)
Symmetric == \A x, y : Equal(x, y) => Equal(y, x)
Zeros == \A x, y : BothZero(x, y) => Equal(x, y)
Successors ==
  \A x, y : BothSucc(x, y) /\ (\E m \in nat_pred(x), n \in nat_pred(y) : Equal(m, n)) => Equal(x, y)
UnderBinders ==
  \A d, x, y :
    /\ Within(d, x) /\ Within(d, y) /\ Binders(x, y) /\ Equal(DomOf(x), DomOf(y))
    /\ Equal(BodyAt(d, x, fresh(d, DomOf(x))), BodyAt(d, y, fresh(d, DomOf(x))))
    => Equal(x, y)
Applications ==
  \A x, y : same_head(x, y) /\ Len(x.sp) = Len(y.sp) /\ (\A i \in 1..Len(x.sp) : Agree(x, y, i)) => Equal(x, y)
Proofs ==
  \A d, x, y :
    /\ Within(d, x) /\ Within(d, y) /\ x.k \in {"lam", "neu"} /\ y.k \in {"lam", "neu"}
    /\ is_prop_type(d, value_type(d, x)) /\ Equal(value_type(d, x), value_type(d, y))
    => Equal(x, y)
Reduction ==
  \A d, v, w, z : Within(d, v) /\ reducible(v) /\ Steps(d, v, w) /\ w # NoStep /\ Equal(w, z) => Equal(v, z)
EtaFunctions ==
  \A d, x, y :
    /\ Within(d, x) /\ Within(d, y) /\ x.k = "lam" /\ y.k = "neu"
    /\ Equal(apply(x, fresh(d, lam_dom(x))), apply(y, fresh(d, lam_dom(x))))
    => Equal(x, y)
EtaStructures ==
  \A d, x, y :
    /\ Within(d, x) /\ Within(d, y) /\ x.k \notin {"sort", "pi"} /\ MadeNeutral(y)
    /\ Equal(value_type(d, x), value_type(d, y))
    /\ \A n \in Nat : n < Consts[y.a].nfields => Equal(FieldIn(x, y, n), MadeField(y, n))
    => Equal(x, y)
Units ==
  \A d, x, y :
    /\ Within(d, x) /\ Within(d, y) /\ x.k \notin {"sort", "pi"} /\ y.k \notin {"sort", "pi"}
    /\ has_unit_type(d, x) /\ Equal(whnf(d, value_type(d, x)), value_type(d, y))
    => Equal(x, y)

Equality ==
  /\ Reflexive /\ Symmetric /\ Zeros /\ Successors /\ UnderBinders /\ Applications /\ Proofs
  /\ Reduction /\ EtaFunctions /\ EtaStructures /\ Units

\* A hypothesis: what is computed from values at a depth is a value at that depth.
Parts ==
  \A d, v : Within(d, v) =>
    /\ v.k = "neu" => Len(v.sp) \in Nat /\ \A i \in 1..Len(v.sp) : ~v.sp[i].p => Within(d, v.sp[i].v)
    /\ v.k \in {"pi", "lam"} => Within(d, DomOf(v))
    /\ \A m \in nat_pred(v) : Within(d, m)
    /\ \A s : \A n \in Nat : Within(d, do_proj(v, s, n))
    /\ MadeNeutral(v) => /\ Consts[v.a].nfields \in Nat
                         /\ \A n \in Nat : n < Consts[v.a].nfields => Within(d, MadeField(v, n))
Opened ==
  \A d, v, t : Within(d, v) /\ Within(d, t) =>
    /\ v.k \in {"lam", "neu"} => Within(d + 1, apply(v, fresh(d, t)))
    /\ v.k = "pi" => Within(d + 1, inst_pi(d + 1, v, fresh(d, t)))
Typed ==
  \A d, v : Within(d, v) =>
    /\ Within(d, value_type(d, v)) /\ Within(d, whnf(d, v))
    /\ asks_k(d, v) => Within(d, k_type(d, v)) /\ Within(d, value_type(d, k_ctor(RecOf(v), k_type(d, v))))
Stepped ==
  \A d, e, v, w : Within(d, v) /\ Within(e, v) /\ reducible(v) /\ Steps(d, v, w) /\ w # NoStep => Within(e, w)
\* The questions of a declaration.
Posed(q) == q.ask => Within(q.d, q.x) /\ Within(q.d, q.y)
Declared ==
  \A s \in Scripts : /\ Listed(s)
                     /\ \A i \in 1..Len(s) : /\ Listed(check_const(s[i]))
                                             /\ \A j \in 1..Len(check_const(s[i])) : Posed(check_const(s[i])[j])

Scoping == Parts /\ Opened /\ Typed /\ Stepped /\ Declared
-------------------------------------------------------------------------------
(* Callers.                                                                  *)

\* A comparison: a record, of values at its depth.
AtOK(a) ==
  /\ a = [d |-> a.d, x |-> a.x, y |-> a.y, i |-> a.i, skip |-> a.skip]
  /\ a.i \in Nat \ {0} /\ Within(a.d, a.x) /\ Within(a.d, a.y)

\* The eliminations before a.i agree, and those of a.skip are irrelevant.
Walked(a) ==
  /\ same_head(a.x, a.y) /\ a.skip \subseteq Irrelevant(a.x)
  /\ \A j \in 1..(a.i - 1) : Agree(a.x, a.y, j)
  /\ a.skip = {} \/ \A j \in 1..(a.i - 1) : ~a.x.sp[j].p

SameTypes(a) == Equal(value_type(a.d, Other(a)), value_type(a.d, Made(a)))
SameField(a, n) == Equal(FieldElim(a, n)[1], FieldElim(a, n)[2])

\* What the answer TRUE tells a caller.
Owes(f) ==
  CASE f.k = "binder" -> Equal(DomOf(f.at.x), DomOf(f.at.y))
    [] f.k = "spine" -> Equal(f.at.x.sp[f.at.i].v, f.at.y.sp[f.at.i].v)
    [] f.k = "k" -> Fits(f.at.d, f.v)
    [] f.k = "field" -> IF f.n = 0 THEN SameTypes(f.at) ELSE SameField(f.at, f.n - 1)
    [] OTHER -> Equal(f.at.x, f.at.y)

\* What is known where a caller waits.
FrameOK(f) ==
  /\ AtOK(f.at)
  /\ f.k = "binder" => Binders(f.at.x, f.at.y)
  /\ f.k = "spine" => Walked(f.at) /\ ~f.at.x.sp[f.at.i].p /\ ~f.at.y.sp[f.at.i].p
  /\ f.k = "k" => Within(f.at.d, f.v) /\ reducible(f.v) /\ asks_k(f.at.d, f.v)
  /\ f.k = "field" =>
       /\ f.n \in Nat /\ MadeNeutral(Made(f.at)) /\ Other(f.at).k \notin {"sort", "pi"}
       /\ f.n > 0 => SameTypes(f.at) /\ \A m \in Nat : m < f.n - 1 => SameField(f.at, m)

\* What TRUE tells the caller at position j; below the last one, it answers the question.
Owed(s, j, answer) ==
  IF j > Len(s) THEN answer ELSE IF s[j].k = "types" THEN Owes(s[j + 1]) ELSE Owes(s[j])

\* Each caller's own comparison is enough for the caller below.
Chain(s, answer) ==
  /\ Listed(s)
  /\ \A j \in 1..Len(s) :
       IF s[j].k = "types" THEN j < Len(s) /\ s[j + 1].k \in {"answer", "k", "field"}
       ELSE FrameOK(s[j]) /\ (Equal(s[j].at.x, s[j].at.y) => Owed(s, j + 1, answer))

\* The position of a caller moves by one under a push.
LEMMA OwedPushed ==
  ASSUME NEW s, NEW answer, Chain(s, answer), NEW f
  PROVE  LET t == <<f>> \o s
         IN \A j \in 1..(Len(s) + 1) : Owed(t, j + 1, answer) <=> Owed(s, j, answer)
<1> DEFINE t == <<f>> \o s
<1>1. /\ Listed(s) /\ Len(t) = Len(s) + 1 /\ t[1] = f /\ Len(s) \in Nat
      /\ \A i \in 1..Len(s) : t[i + 1] = s[i]
  BY Pushed, ListedIs DEF Chain
<1> HIDE DEF t
<1>2. ASSUME NEW j \in 1..(Len(s) + 1) PROVE Owed(t, j + 1, answer) <=> Owed(s, j, answer)
  <2>1. CASE j = Len(s) + 1
    BY <2>1, <1>1 DEF Owed
  <2>2. CASE j \in 1..Len(s) /\ s[j].k # "types"
    <3>1. ~(j > Len(s)) /\ ~(j + 1 > Len(t)) /\ t[j + 1] = s[j]
      BY <2>2, <1>1
    <3> QED BY <3>1, <2>2 DEF Owed
  <2>3. CASE j \in 1..Len(s) /\ s[j].k = "types"
    <3>1. j < Len(s)
      BY <2>3 DEF Chain
    <3>2. j + 1 \in 1..Len(s) /\ ~(j > Len(s)) /\ ~(j + 1 > Len(t))
      BY <3>1, <2>3, <1>1
    <3>3. t[j + 1] = s[j] /\ t[(j + 1) + 1] = s[j + 1]
      BY <3>2, <2>3, <1>1
    <3> QED BY <3>2, <3>3, <2>3 DEF Owed
  <2> QED BY <2>1, <2>2, <2>3, <1>1
<1> QED BY <1>2 DEF t

LEMMA ChainPush ==
  ASSUME NEW s, NEW answer, Chain(s, answer),
         NEW f, f.k # "types", FrameOK(f), Equal(f.at.x, f.at.y) => Owed(s, 1, answer)
  PROVE  Chain(<<f>> \o s, answer) /\ (Owed(<<f>> \o s, 1, answer) <=> Owes(f))
<1> DEFINE t == <<f>> \o s
<1>1. /\ Listed(t) /\ Len(t) = Len(s) + 1 /\ t[1] = f /\ Len(s) \in Nat
      /\ \A i \in 1..Len(s) : t[i + 1] = s[i]
  BY Pushed, ListedIs DEF Chain
<1>2. \A j \in 1..(Len(s) + 1) : Owed(t, j + 1, answer) <=> Owed(s, j, answer)
  BY OwedPushed
<1> HIDE DEF t
<1>3. Owed(t, 1, answer) <=> Owes(f)
  <2>1. ~(1 > Len(t))
    BY <1>1
  <2> QED BY <1>1, <2>1 DEF Owed
<1>4. ASSUME NEW j \in 1..Len(t)
      PROVE  IF t[j].k = "types" THEN j < Len(t) /\ t[j + 1].k \in {"answer", "k", "field"}
             ELSE FrameOK(t[j]) /\ (Equal(t[j].at.x, t[j].at.y) => Owed(t, j + 1, answer))
  <2>1. CASE j = 1
    <3>1. Owed(t, 1 + 1, answer) <=> Owed(s, 1, answer)
      BY <1>1, <1>2
    <3> QED BY <2>1, <3>1, <1>1
  <2>2. CASE j # 1
    <3>1. j - 1 \in 1..Len(s) /\ (j - 1) + 1 = j
      BY <2>2, <1>1
    <3>2. t[j] = s[j - 1]
      BY <3>1, <1>1
    <3>3. CASE s[j - 1].k = "types"
      <4>1. j - 1 < Len(s) /\ s[(j - 1) + 1].k \in {"answer", "k", "field"}
        BY <3>1, <3>3 DEF Chain
      <4>2. j \in 1..Len(s) /\ j < Len(t) /\ s[j].k \in {"answer", "k", "field"}
        BY <4>1, <3>1, <1>1
      <4> QED BY <4>2, <3>2, <3>3, <1>1
    <3>4. CASE s[j - 1].k # "types"
      <4>1. FrameOK(s[j - 1]) /\ (Equal(s[j - 1].at.x, s[j - 1].at.y) => Owed(s, (j - 1) + 1, answer))
        BY <3>1, <3>4 DEF Chain
      <4>2. Owed(t, j + 1, answer) <=> Owed(s, j, answer)
        BY <3>1, <1>1, <1>2
      <4> QED BY <4>1, <4>2, <3>1, <3>2, <3>4
    <3> QED BY <3>3, <3>4
  <2> QED BY <2>1, <2>2
<1>5. Chain(t, answer)
  BY <1>1, <1>4 DEF Chain
<1> QED BY <1>3, <1>5 DEF t

LEMMA ChainTypes ==
  ASSUME NEW s, NEW answer, Chain(s, answer), s # <<>>, s[1].k \in {"answer", "k", "field"},
         NEW f, f.k = "types"
  PROVE  Chain(<<f>> \o s, answer) /\ (Owed(<<f>> \o s, 1, answer) <=> Owes(s[1]))
<1> DEFINE t == <<f>> \o s
<1>1. /\ Listed(t) /\ Len(t) = Len(s) + 1 /\ t[1] = f /\ Len(s) \in Nat /\ Len(s) >= 1
      /\ \A i \in 1..Len(s) : t[i + 1] = s[i]
  BY Pushed, ListedIs DEF Chain
<1>2. \A j \in 1..(Len(s) + 1) : Owed(t, j + 1, answer) <=> Owed(s, j, answer)
  BY OwedPushed
<1> HIDE DEF t
<1>3. Owed(t, 1, answer) <=> Owes(s[1])
  <2>1. ~(1 > Len(t)) /\ t[1 + 1] = s[1]
    BY <1>1
  <2> QED BY <1>1, <2>1 DEF Owed
<1>4. ASSUME NEW j \in 1..Len(t)
      PROVE  IF t[j].k = "types" THEN j < Len(t) /\ t[j + 1].k \in {"answer", "k", "field"}
             ELSE FrameOK(t[j]) /\ (Equal(t[j].at.x, t[j].at.y) => Owed(t, j + 1, answer))
  <2>1. CASE j = 1
    <3>1. t[1 + 1] = s[1] /\ 1 < Len(t)
      BY <1>1
    <3> QED BY <2>1, <3>1, <1>1
  <2>2. CASE j # 1
    <3>1. j - 1 \in 1..Len(s) /\ (j - 1) + 1 = j
      BY <2>2, <1>1
    <3>2. t[j] = s[j - 1]
      BY <3>1, <1>1
    <3>3. CASE s[j - 1].k = "types"
      <4>1. j - 1 < Len(s) /\ s[(j - 1) + 1].k \in {"answer", "k", "field"}
        BY <3>1, <3>3 DEF Chain
      <4>2. j \in 1..Len(s) /\ j < Len(t) /\ s[j].k \in {"answer", "k", "field"}
        BY <4>1, <3>1, <1>1
      <4> QED BY <4>2, <3>2, <3>3, <1>1
    <3>4. CASE s[j - 1].k # "types"
      <4>1. FrameOK(s[j - 1]) /\ (Equal(s[j - 1].at.x, s[j - 1].at.y) => Owed(s, (j - 1) + 1, answer))
        BY <3>1, <3>4 DEF Chain
      <4>2. Owed(t, j + 1, answer) <=> Owed(s, j, answer)
        BY <3>1, <1>1, <1>2
      <4> QED BY <4>1, <4>2, <3>1, <3>2, <3>4
    <3> QED BY <3>3, <3>4
  <2> QED BY <2>1, <2>2
<1>5. Chain(t, answer)
  BY <1>1, <1>4 DEF Chain
<1> QED BY <1>3, <1>5 DEF t

LEMMA ChainPop ==
  ASSUME NEW s, NEW answer, Chain(s, answer), s # <<>>
  PROVE  /\ Chain(Tail(s), answer)
         /\ s[1].k = "types" => /\ Tail(s) # <<>> /\ Tail(s)[1].k \in {"answer", "k", "field"}
                                /\ Owed(s, 1, answer) <=> Owed(Tail(s), 1, answer)
         /\ s[1].k # "types" => /\ FrameOK(s[1]) /\ (Owed(s, 1, answer) <=> Owes(s[1]))
                                /\ Equal(s[1].at.x, s[1].at.y) => Owed(Tail(s), 1, answer)
<1> DEFINE r == Tail(s)
<1>1. /\ Listed(s) /\ Listed(r) /\ Len(r) \in Nat /\ Len(s) = Len(r) + 1
      /\ \A i \in 1..Len(r) : r[i] = s[i + 1]
  <2>1. Listed(s)
    BY DEF Chain
  <2>2. /\ Listed(r) /\ Len(r) = Len(s) - 1
        /\ \A i \in 1..(Len(s) - 1) : r[i] = s[i + 1]
    BY <2>1, Popped
  <2>3. Len(r) \in Nat /\ Len(s) \in Nat
    BY <2>1, <2>2, ListedIs
  <2> HIDE DEF r
  <2> QED BY <2>1, <2>2, <2>3
<1> HIDE DEF r
<1>2. ASSUME NEW j \in 1..(Len(r) + 1) PROVE Owed(r, j, answer) <=> Owed(s, j + 1, answer)
  <2>1. CASE j = Len(r) + 1
    BY <2>1, <1>1 DEF Owed
  <2>2. CASE j \in 1..Len(r) /\ s[j + 1].k # "types"
    <3>1. ~(j > Len(r)) /\ ~(j + 1 > Len(s)) /\ r[j] = s[j + 1]
      BY <2>2, <1>1
    <3> QED BY <3>1, <2>2 DEF Owed
  <2>3. CASE j \in 1..Len(r) /\ s[j + 1].k = "types"
    <3>1. j + 1 \in 1..Len(s) /\ j + 1 < Len(s)
      <4>1. j + 1 \in 1..Len(s)
        BY <2>3, <1>1
      <4> QED BY <4>1, <2>3 DEF Chain
    <3>2. j + 1 \in 1..Len(r) /\ ~(j > Len(r)) /\ ~(j + 1 > Len(s))
      BY <3>1, <2>3, <1>1
    <3>3. r[j] = s[j + 1] /\ r[j + 1] = s[(j + 1) + 1]
      BY <3>2, <2>3, <1>1
    <3> QED BY <3>2, <3>3, <2>3 DEF Owed
  <2> QED BY <2>1, <2>2, <2>3, <1>1
<1>3. ASSUME NEW j \in 1..Len(r)
      PROVE  IF r[j].k = "types" THEN j < Len(r) /\ r[j + 1].k \in {"answer", "k", "field"}
             ELSE FrameOK(r[j]) /\ (Equal(r[j].at.x, r[j].at.y) => Owed(r, j + 1, answer))
  <2>1. j + 1 \in 1..Len(s) /\ r[j] = s[j + 1]
    BY <1>1
  <2>2. CASE s[j + 1].k = "types"
    <3>1. j + 1 < Len(s) /\ s[(j + 1) + 1].k \in {"answer", "k", "field"}
      BY <2>1, <2>2 DEF Chain
    <3>2. j + 1 \in 1..Len(r) /\ j < Len(r)
      BY <3>1, <2>1, <1>1
    <3>3. r[j + 1] = s[(j + 1) + 1]
      BY <3>2, <1>1
    <3> QED BY <3>1, <3>2, <3>3, <2>1, <2>2
  <2>3. CASE s[j + 1].k # "types"
    <3>1. FrameOK(s[j + 1]) /\ (Equal(s[j + 1].at.x, s[j + 1].at.y) => Owed(s, (j + 1) + 1, answer))
      BY <2>1, <2>3 DEF Chain
    <3>2. j + 1 \in 1..(Len(r) + 1)
      BY <1>1
    <3>3. Owed(r, j + 1, answer) <=> Owed(s, (j + 1) + 1, answer)
      BY <3>2, <1>2
    <3> QED BY <3>1, <3>3, <2>1, <2>3
  <2> QED BY <2>2, <2>3
<1>4. Chain(r, answer)
  BY <1>1, <1>3 DEF Chain
<1>5. 1 \in 1..Len(s) /\ 1 \in 1..(Len(r) + 1) /\ ~(1 > Len(s))
  BY <1>1
<1>6. Owed(r, 1, answer) <=> Owed(s, 1 + 1, answer)
  BY <1>2, <1>5
<1>7. ASSUME s[1].k = "types"
      PROVE  /\ r # <<>> /\ r[1].k \in {"answer", "k", "field"}
             /\ Owed(s, 1, answer) <=> Owed(r, 1, answer)
  <2>1. 1 < Len(s) /\ s[1 + 1].k \in {"answer", "k", "field"}
    BY <1>7, <1>5 DEF Chain
  <2>2. 1 \in 1..Len(r) /\ r[1] = s[1 + 1] /\ ~(1 > Len(r)) /\ r # <<>>
    BY <2>1, <1>1
  <2>3. (Owed(s, 1, answer) <=> Owes(s[1 + 1])) /\ (Owed(r, 1, answer) <=> Owes(r[1]))
    BY <2>1, <2>2, <1>7, <1>5 DEF Owed
  <2> QED BY <2>1, <2>2, <2>3
<1>8. ASSUME s[1].k # "types"
      PROVE  /\ FrameOK(s[1]) /\ (Owed(s, 1, answer) <=> Owes(s[1]))
             /\ Equal(s[1].at.x, s[1].at.y) => Owed(r, 1, answer)
  <2>1. FrameOK(s[1]) /\ (Equal(s[1].at.x, s[1].at.y) => Owed(s, 1 + 1, answer))
    BY <1>8, <1>5 DEF Chain
  <2> QED BY <2>1, <1>5, <1>6, <1>8 DEF Owed
<1> QED BY <1>4, <1>7, <1>8 DEF r

LEMMA ChainEmpty == \A answer : Chain(<<>>, answer) /\ (Owed(<<>>, 1, answer) <=> answer)
<1>1. Listed(<<>>) /\ Len(<<>>) = 0 /\ 1 > Len(<<>>)
  BY DEF Listed
<1> QED BY <1>1 DEF Chain, Owed
-------------------------------------------------------------------------------
(* What is kept: answers, callers, remembered pairs and steps, questions.     *)

\* The comparison under way answers the first question of todo.
Bottom == Equal(todo[1].x, todo[1].y)

\* Where the conversion is: what it compares is enough for its callers, a TRUE on its way back holds.
Control ==
  /\ Chain(stack, Bottom)
  /\ res \in BOOLEAN
  /\ pc = "idle" => stack = <<>>
  /\ pc # "idle" => Checking /\ todo # <<>> /\ todo[1].ask
  /\ pc = "ret" /\ res => Owed(stack, 1, Bottom)
  /\ pc \notin {"idle", "ret"} => AtOK(at) /\ (Equal(at.x, at.y) => Owed(stack, 1, Bottom))
  /\ pc = "spine" => Walked(at)

\* Every pair remembered as equal is equal.
PositivesEqual == \A p \in pos : \A x, y \in p : Equal(x, y)

\* A value and the value it steps to are equal to the same values, at any depth.
Reduced(v, w) == (\A z : Equal(w, z) => Equal(v, z)) /\ (\A d : Within(d, v) => Within(d, w))
StepsReduce == \A v \in DOMAIN red : red[v] # NoStep => Reduced(v, red[v])

\* Every question of an accepted declaration holds.
Holds(q) == IF q.ask THEN Equal(q.x, q.y) ELSE q.ok
AllHold(c) == \A j \in DOMAIN check_const(c) : Holds(check_const(c)[j])
AcceptedHolds == \A i \in DOMAIN verdicts : verdicts[i] = "accepted" => AllHold(script[i])

\* The questions not in todo any more hold.
Questions ==
  /\ script \in Scripts /\ decl \in Nat /\ decl <= Len(script)
  /\ Listed(verdicts) /\ Len(verdicts) <= decl /\ decl <= Len(verdicts) + 1
  /\ Checking =>
       LET Q == check_const(script[decl])
           n == Len(Q) - Len(todo)
       IN /\ Listed(todo) /\ n \in Nat
          /\ \A i \in 1..Len(todo) : todo[i] = Q[n + i]
          /\ \A i \in 1..n : Holds(Q[i])

DerivInv == Control /\ PositivesEqual /\ StepsReduce /\ Questions /\ AcceptedHolds

Held == UNCHANGED <<script, decl, todo, verdicts>>

\* A step to another comparison, or to an answer.
LEMMA Goes ==
  ASSUME Control, Held, pc # "idle", pc' \notin {"idle", "ret"}, res' = res,
         Chain(stack', Bottom), AtOK(at'), Equal(at'.x, at'.y) => Owed(stack', 1, Bottom),
         pc' = "spine" => Walked(at')
  PROVE  Control'
BY DEF Control, Held, Bottom, Checking

LEMMA Answers ==
  ASSUME Control, Held, pc # "idle", pc' = "ret", res' \in BOOLEAN,
         Chain(stack', Bottom), res' => Owed(stack', 1, Bottom)
  PROVE  Control'
BY DEF Control, Held, Bottom, Checking

\* A step that calls.
LEMMA Calls ==
  ASSUME Control, Held, pc # "idle", pc' \notin {"idle", "ret"}, res' = res,
         NEW f, f.k # "types", FrameOK(f), Equal(f.at.x, f.at.y) => Owed(stack, 1, Bottom),
         stack' = <<f>> \o stack, AtOK(at'), Equal(at'.x, at'.y) => Owes(f),
         pc' = "spine" => Walked(at')
  PROVE  Control'
<1>1. Chain(stack', Bottom) /\ (Owed(stack', 1, Bottom) <=> Owes(f))
  BY ChainPush DEF Control
<1> QED BY <1>1, Goes

LEMMA AtCompared ==
  ASSUME NEW d, NEW x, NEW y, Within(d, x), Within(d, y)
  PROVE  LET a == Comparing(d, x, y) IN AtOK(a) /\ a.x = x /\ a.y = y /\ a.d = d
BY DEF Comparing, AtOK

\* A comparison at another elimination, with another mask.
At(a, i) == [a EXCEPT !.i = i]
Masked(a, i, s) == [a EXCEPT !.i = i, !.skip = s]

LEMMA AtMoved ==
  ASSUME NEW a, AtOK(a), NEW i, i \in Nat \ {0}
  PROVE  LET b == At(a, i)
         IN AtOK(b) /\ b.x = a.x /\ b.y = a.y /\ b.d = a.d /\ b.i = i /\ b.skip = a.skip
<1> DEFINE b == At(a, i)
<1>1. PICK d, x, y, n, q : a = [d |-> d, x |-> x, y |-> y, i |-> n, skip |-> q]
  BY DEF AtOK
<1>2. Within(d, x) /\ Within(d, y)
  BY <1>1 DEF AtOK
<1>3. b = [d |-> d, x |-> x, y |-> y, i |-> i, skip |-> q]
  BY <1>1 DEF At
<1> HIDE DEF b
<1>4. AtOK(b) /\ b.x = a.x /\ b.y = a.y /\ b.d = a.d /\ b.i = i /\ b.skip = a.skip
  BY <1>1, <1>2, <1>3 DEF AtOK
<1> QED BY <1>4 DEF b

LEMMA AtMasked ==
  ASSUME NEW a, AtOK(a), NEW i, i \in Nat \ {0}, NEW s
  PROVE  LET b == Masked(a, i, s)
         IN AtOK(b) /\ b.x = a.x /\ b.y = a.y /\ b.d = a.d /\ b.i = i /\ b.skip = s
<1> DEFINE b == Masked(a, i, s)
<1>1. PICK d, x, y, n, q : a = [d |-> d, x |-> x, y |-> y, i |-> n, skip |-> q]
  BY DEF AtOK
<1>2. Within(d, x) /\ Within(d, y)
  BY <1>1 DEF AtOK
<1>3. [a EXCEPT !.i = i] = [d |-> d, x |-> x, y |-> y, i |-> i, skip |-> q]
  BY <1>1
<1>4. [a EXCEPT !.i = i, !.skip = s] = [[a EXCEPT !.i = i] EXCEPT !.skip = s]
  OBVIOUS
<1>5. [[d |-> d, x |-> x, y |-> y, i |-> i, skip |-> q] EXCEPT !.skip = s]
        = [d |-> d, x |-> x, y |-> y, i |-> i, skip |-> s]
  OBVIOUS
<1>6. b = [d |-> d, x |-> x, y |-> y, i |-> i, skip |-> s]
  BY <1>3, <1>4, <1>5 DEF Masked
<1> HIDE DEF b
<1>7. AtOK(b) /\ b.x = a.x /\ b.y = a.y /\ b.d = a.d /\ b.i = i /\ b.skip = s
  BY <1>1, <1>2, <1>6 DEF AtOK
<1> QED BY <1>7 DEF b

\* A step that compares types.
LEMMA Asks ==
  ASSUME Control, Held, pc # "idle", NEW d, NEW t, NEW u, Within(d, t), Within(d, u),
         NEW f, f.k \in {"answer", "k", "field"}, FrameOK(f),
         Equal(f.at.x, f.at.y) => Owed(stack, 1, Bottom), Equal(t, u) => Owes(f),
         conv_types(d, t, u, f)
  PROVE  Control'
<1> DEFINE saved == [k |-> "types", probing |-> probing, exhausted |-> exhausted, probe_left |-> probe_left]
           s == <<f>> \o stack
<1>1. Listed(stack) /\ Listed(s) /\ s # <<>> /\ s[1] = f
  BY Pushed DEF Control, Chain
<1>2. Chain(s, Bottom) /\ f.k # "types"
  BY ChainPush DEF Control
<1>3. saved.k = "types"
  OBVIOUS
<1>4. stack' = <<saved>> \o s
  <2>1. stack' = <<saved, f>> \o stack
    BY DEF conv_types
  <2> DEFINE S == {stack[i] : i \in DOMAIN stack} \cup {saved, f}
  <2>2. stack \in Seq(S) /\ <<saved>> \in Seq(S) /\ <<f>> \in Seq(S)
    BY <1>1 DEF Listed
  <2>3. <<saved, f>> = <<saved>> \o <<f>>
    OBVIOUS
  <2> HIDE DEF S, saved
  <2> QED BY <2>1, <2>2, <2>3
<1> HIDE DEF saved, s
<1>5. Chain(stack', Bottom) /\ (Owed(stack', 1, Bottom) <=> Owes(f))
  BY <1>1, <1>2, <1>3, <1>4, ChainTypes
<1>6. pc' = "conv" /\ res' = res /\ at' = Comparing(d, t, u)
  BY DEF conv_types, Call
<1>7. AtOK(at') /\ at'.x = t /\ at'.y = u
  BY <1>6, AtCompared
<1> QED BY <1>5, <1>6, <1>7, Goes
-------------------------------------------------------------------------------
(* The steps of conversion keep the control.                                  *)

\* Where a comparison is under way.
LEMMA AtWork ==
  ASSUME Control, pc \notin {"idle", "ret"}
  PROVE  /\ pc # "idle" /\ AtOK(at) /\ Within(at.d, at.x) /\ Within(at.d, at.y) /\ at.i \in Nat \ {0}
         /\ Equal(at.x, at.y) => Owed(stack, 1, Bottom)
         /\ Chain(stack, Bottom) /\ res \in BOOLEAN
BY DEF Control, AtOK

\* The mask of a constant without signature is empty.
LEMMA MaskIrrelevant == \A x : skip_mask(x) \subseteq Irrelevant(x)
<1>1. PropDomains(<<>>) = {}
  BY DEF PropDomains
<1> QED BY <1>1 DEF skip_mask, Irrelevant, ArgProp, Levels

\* The eliminations of two applications of one head, compared from the first one on.
LEMMA SpineBegins ==
  ASSUME NEW a, AtOK(a), same_head(a.x, a.y),
         NEW b, b = Masked(a, 1, skip_mask(a.x))
  PROVE  AtOK(b) /\ b.x = a.x /\ b.y = a.y /\ Walked(b)
<1>1. AtOK(b) /\ b.x = a.x /\ b.y = a.y /\ b.i = 1 /\ b.skip = skip_mask(a.x)
  BY AtMasked, 1 \in Nat \ {0}
<1>2. 1..(b.i - 1) = {}
  BY <1>1
<1> QED BY <1>1, <1>2, MaskIrrelevant DEF Walked

\* One elimination further.
LEMMA SpineAdvances ==
  ASSUME NEW a, AtOK(a), Walked(a), Agree(a.x, a.y, a.i),
         NEW b, \/ b = Masked(a, a.i + 1, {})
                \/ b = At(a, a.i + 1) /\ ~a.x.sp[a.i].p
  PROVE  AtOK(b) /\ b.x = a.x /\ b.y = a.y /\ Walked(b)
<1>1. a.i \in Nat \ {0} /\ a.i + 1 \in Nat \ {0}
  BY DEF AtOK
<1>2. /\ AtOK(b) /\ b.x = a.x /\ b.y = a.y /\ b.i = a.i + 1
      /\ b.skip = {} \/ (b.skip = a.skip /\ ~a.x.sp[a.i].p)
  BY <1>1, AtMoved, AtMasked
<1>3. \A j \in 1..(b.i - 1) : j = a.i \/ j \in 1..(a.i - 1)
  BY <1>1, <1>2
<1>4. \A j \in 1..(b.i - 1) : Agree(b.x, b.y, j)
  BY <1>2, <1>3 DEF Walked
<1>5. b.skip \subseteq Irrelevant(b.x) /\ same_head(b.x, b.y)
  BY <1>2 DEF Walked
<1>6. b.skip = {} \/ \A j \in 1..(b.i - 1) : ~b.x.sp[j].p
  BY <1>2, <1>3 DEF Walked
<1> QED BY <1>2, <1>4, <1>5, <1>6 DEF Walked

\* All eliminations agree.
LEMMA SpineAgrees ==
  ASSUME Equality, NEW a, AtOK(a), Walked(a), Parts, Len(a.x.sp) = Len(a.y.sp),
         a.i > Len(a.x.sp) \/ a.x.sp = a.y.sp
  PROVE  Equal(a.x, a.y)
<1>1. same_head(a.x, a.y) /\ a.x.k = "neu" /\ Len(a.x.sp) \in Nat /\ a.i \in Nat
  BY DEF Walked, same_head, AtOK, Parts
<1>2. ASSUME NEW j \in 1..Len(a.x.sp) PROVE Agree(a.x, a.y, j)
  <2>1. CASE a.x.sp = a.y.sp
    <3>1. Equal(a.x.sp[j].v, a.x.sp[j].v)
      BY DEF Equality, Reflexive
    <3> QED BY <2>1, <3>1 DEF Agree
  <2>2. CASE a.i > Len(a.x.sp)
    <3>1. j \in 1..(a.i - 1)
      BY <1>1, <2>2
    <3> QED BY <3>1 DEF Walked
  <2> QED BY <2>1, <2>2
<1> QED BY <1>1, <1>2 DEF Equality, Applications

LEMMA ComparesControl ==
  ASSUME Equality, Scoping, Control, PositivesEqual, Compares
  PROVE  Control' /\ pc # "idle" /\ Held /\ UNCHANGED <<pos, red>>
<1>1. pc \notin {"idle", "ret"} /\ Held /\ UNCHANGED <<pos, red>>
  BY DEF Compares, ConvSame, ConvExhausted, ConvKnown, ConvMiss, NcDecided, NcBinder, NcSucc, NcSpine, NcOther,
         SpineDone, SpineProjection, SpineSkip, SpineArg, Same, Held, chosen, caches
<1> SUFFICES Control'
  BY <1>1
<1>2. /\ pc # "idle" /\ AtOK(at) /\ Within(at.d, at.x) /\ Within(at.d, at.y) /\ at.i \in Nat \ {0}
      /\ Equal(at.x, at.y) => Owed(stack, 1, Bottom)
      /\ Chain(stack, Bottom) /\ res \in BOOLEAN
  BY <1>1, AtWork
<1>3. /\ \A x : Equal(x, x)
      /\ Parts
  BY DEF Equality, Reflexive, Scoping
<1>4. ASSUME pc' = "ret", res' \in BOOLEAN, stack' = stack, res' => Equal(at.x, at.y) PROVE Control'
  BY <1>1, <1>2, <1>4, Answers
<1>5. ASSUME pc' \notin {"idle", "ret", "spine"}, UNCHANGED <<at, res, stack>> PROVE Control'
  BY <1>1, <1>2, <1>5, Goes
<1>11. CASE ConvSame
  BY <1>11, <1>3, <1>4 DEF ConvSame, Return
<1>12. CASE ConvExhausted
  BY <1>12, <1>4 DEF ConvExhausted, Return
<1>13. CASE ConvKnown
  <2> DEFINE b == Pair(at.x, at.y) \in pos
  <2>1. pc' = "ret" /\ res' = b /\ stack' = stack
    BY <1>13 DEF ConvKnown, Return
  <2>2. b => Equal(at.x, at.y)
    BY DEF PositivesEqual, Pair
  <2>3. b \in BOOLEAN
    OBVIOUS
  <2> HIDE DEF b
  <2> QED BY <2>1, <2>2, <2>3, <1>4
<1>14. CASE ConvMiss
  <2> DEFINE f == [k |-> "memo", at |-> at]
  <2>1. stack' = <<f>> \o stack /\ pc' = "nc" /\ UNCHANGED <<at, res>>
    BY <1>14 DEF ConvMiss, Goto, Push, Frame
  <2>2. f.k = "memo" /\ f.at = at
    OBVIOUS
  <2> HIDE DEF f
  <2>3. FrameOK(f) /\ (Owes(f) <=> Equal(at.x, at.y)) /\ f.k # "types"
    BY <2>2, <1>2 DEF FrameOK, Owes
  <2> QED BY <2>1, <2>2, <2>3, <1>1, <1>2, Calls
<1>15. CASE NcDecided
  <2>1. BothZero(at.x, at.y) => Equal(at.x, at.y)
    BY DEF Equality, Zeros
  <2>2. BothZero(at.x, at.y) \in BOOLEAN
    BY DEF BothZero
  <2> QED BY <2>1, <2>2, <1>15, <1>4 DEF NcDecided, Return
<1>16. CASE NcBinder
  <2> DEFINE f == [k |-> "binder", at |-> at]
             x == DomOf(at.x)
             y == DomOf(at.y)
  <2>1. /\ stack' = <<f>> \o stack /\ pc' = "conv" /\ res' = res /\ at' = Comparing(at.d, x, y)
        /\ Binders(at.x, at.y)
    BY <1>16 DEF NcBinder, Call, Push, Frame
  <2>2. f.k = "binder" /\ f.at = at
    OBVIOUS
  <2>3. Within(at.d, x) /\ Within(at.d, y)
    BY <1>2, <1>3, <2>1 DEF Parts, Binders
  <2> HIDE DEF f
  <2>4. FrameOK(f) /\ (Owes(f) <=> Equal(x, y)) /\ f.k # "types"
    BY <2>1, <2>2, <1>2 DEF FrameOK, Owes
  <2> HIDE DEF x, y
  <2>5. AtOK(at') /\ at'.x = x /\ at'.y = y
    BY <2>1, <2>3, AtCompared
  <2> QED BY <2>1, <2>2, <2>4, <2>5, <1>1, <1>2, Calls
<1>17. CASE NcSucc
  <2>1. PICK m \in nat_pred(at.x), n \in nat_pred(at.y) :
          /\ pc' = "conv" /\ res' = res /\ at' = Comparing(at.d, m, n) /\ stack' = stack
          /\ BothSucc(at.x, at.y)
    BY <1>17 DEF NcSucc, Call
  <2>2. Within(at.d, m) /\ Within(at.d, n)
    BY <1>2, <1>3 DEF Parts
  <2>3. AtOK(at') /\ at'.x = m /\ at'.y = n
    BY <2>1, <2>2, AtCompared
  <2>4. Equal(m, n) => Equal(at.x, at.y)
    BY <2>1 DEF Equality, Successors
  <2> QED BY <2>1, <2>3, <2>4, <1>1, <1>2, Goes
<1>18. CASE NcSpine
  <2> DEFINE f == [k |-> "irreducible", at |-> at]
  <2>1. /\ stack' = <<f>> \o stack /\ pc' = "spine" /\ res' = res /\ same_head(at.x, at.y)
        /\ at' = Masked(at, 1, skip_mask(at.x))
    BY <1>18 DEF NcSpine, Push, Frame, Masked
  <2>2. f.k = "irreducible" /\ f.at = at
    OBVIOUS
  <2> HIDE DEF f
  <2>3. FrameOK(f) /\ (Owes(f) <=> Equal(at.x, at.y)) /\ f.k # "types"
    BY <2>2, <1>2 DEF FrameOK, Owes
  <2>4. AtOK(at') /\ at'.x = at.x /\ at'.y = at.y /\ Walked(at')
    BY <2>1, <1>2, SpineBegins
  <2> QED BY <2>1, <2>2, <2>3, <2>4, <1>1, <1>2, Calls
<1>19. CASE NcOther
  BY <1>19, <1>5 DEF NcOther, Goto
<1>20. CASE SpineDone
  <2> DEFINE b == Len(at.x.sp) = Len(at.y.sp)
  <2>1. pc' = "ret" /\ res' = b /\ stack' = stack /\ pc = "spine" /\ SpineEnds
    BY <1>20 DEF SpineDone, Return, Same, Xs, Ys
  <2>2. b => Equal(at.x, at.y)
    <3> SUFFICES ASSUME b PROVE Equal(at.x, at.y)
      OBVIOUS
    <3>1. at.i > Len(at.x.sp) \/ at.x.sp = at.y.sp
      BY <2>1 DEF SpineEnds, Xs, Ys
    <3>2. Walked(at)
      BY <2>1 DEF Control
    <3> QED BY <3>1, <3>2, <1>2, <1>3, SpineAgrees
  <2>3. b \in BOOLEAN
    OBVIOUS
  <2> HIDE DEF b
  <2> QED BY <2>1, <2>2, <2>3, <1>4
<1>21. CASE SpineProjection
  <2>1. SpineProj /\ pc = "spine" /\ stack' = stack
    BY <1>21 DEF SpineProjection, Same
  <2>2. CASE Xs[at.i] = Ys[at.i]
    <3>1. at' = Masked(at, at.i + 1, {}) /\ UNCHANGED <<pc, res>>
      BY <1>21, <2>2 DEF SpineProjection, Masked
    <3>2. Agree(at.x, at.y, at.i)
      BY <2>1, <2>2 DEF SpineProj, Agree, Xs, Ys
    <3>3. Walked(at)
      BY <2>1 DEF Control
    <3>4. AtOK(at') /\ at'.x = at.x /\ at'.y = at.y /\ Walked(at')
      BY <3>1, <3>2, <3>3, <1>2, SpineAdvances
    <3> QED BY <3>1, <3>4, <2>1, <1>1, <1>2, Goes
  <2>3. CASE Xs[at.i] # Ys[at.i]
    BY <1>21, <2>1, <2>3, <1>4 DEF SpineProjection, Return
  <2> QED BY <2>2, <2>3
<1>22. CASE SpineSkip
  <2>1. /\ SpineSkips /\ pc = "spine" /\ stack' = stack /\ at' = At(at, at.i + 1) /\ UNCHANGED <<pc, res>>
    BY <1>22 DEF SpineSkip, Same, At
  <2>2. /\ Walked(at)
        /\ at.i \in at.skip /\ ~at.x.sp[at.i].p /\ ~at.y.sp[at.i].p
    BY <2>1 DEF Control, SpineSkips, SpineProj, Xs, Ys
  <2>3. at.i \in Irrelevant(at.x) /\ \A j \in 1..(at.i - 1) : ~at.x.sp[j].p
    BY <2>2 DEF Walked
  <2>4. \A j \in 1..at.i : ~at.x.sp[j].p
    <3>1. \A j \in 1..at.i : j = at.i \/ j \in 1..(at.i - 1)
      BY <1>2
    <3> QED BY <3>1, <2>2, <2>3
  <2>5. Agree(at.x, at.y, at.i)
    BY <2>3, <2>4, <2>2 DEF Agree
  <2>6. AtOK(at') /\ at'.x = at.x /\ at'.y = at.y /\ Walked(at')
    BY <2>1, <2>2, <2>5, <1>2, SpineAdvances
  <2> QED BY <2>1, <2>6, <1>1, <1>2, Goes
<1>23. CASE SpineArg
  <2> DEFINE f == [k |-> "spine", at |-> at]
             x == at.x.sp[at.i].v
             y == at.y.sp[at.i].v
  <2>1. /\ stack' = <<f>> \o stack /\ pc' = "conv" /\ res' = res /\ at' = Comparing(at.d, x, y)
        /\ pc = "spine" /\ ~SpineEnds /\ ~SpineProj
    BY <1>23 DEF SpineArg, Call, Push, Frame, Same, Xs, Ys
  <2>2. f.k = "spine" /\ f.at = at
    OBVIOUS
  <2>3. /\ Walked(at) /\ ~at.x.sp[at.i].p /\ ~at.y.sp[at.i].p
        /\ Len(at.x.sp) = Len(at.y.sp) /\ ~(at.i > Len(at.x.sp))
    BY <2>1 DEF Control, SpineEnds, SpineProj, Xs, Ys
  <2>4. at.x.k = "neu" /\ at.y.k = "neu"
    BY <2>3 DEF Walked, same_head
  <2>5. Len(at.x.sp) \in Nat
    BY <1>2, <1>3, <2>4 DEF Parts
  <2>6. at.i \in 1..Len(at.x.sp) /\ at.i \in 1..Len(at.y.sp)
    BY <1>2, <2>3, <2>5
  <2>7. Within(at.d, x) /\ Within(at.d, y)
    BY <1>2, <1>3, <2>3, <2>4, <2>6 DEF Parts
  <2> HIDE DEF f
  <2>8. FrameOK(f) /\ (Owes(f) <=> Equal(x, y)) /\ f.k # "types"
    BY <2>2, <2>3, <1>2 DEF FrameOK, Owes
  <2> HIDE DEF x, y
  <2>9. AtOK(at') /\ at'.x = x /\ at'.y = y
    BY <2>1, <2>7, AtCompared
  <2> QED BY <2>1, <2>2, <2>8, <2>9, <1>1, <1>2, Calls
<1> QED
  BY <1>1, <1>11, <1>12, <1>13, <1>14, <1>15, <1>16, <1>17, <1>18, <1>19, <1>20, <1>21, <1>22, <1>23
  DEF Compares

\* The sides an attempt unfolds are applications that reduce.
LEMMA OrderReducible ==
  ASSUME NEW i, i \in Nat \ {0}, i <= Len(Order)
  PROVE  /\ Order[i] \subseteq {"x", "y"}
         /\ \A s \in Order[i] : reducible(Side(s)) /\ Side(s) \in {at.x, at.y}
<1> DEFINE T == {t \in SUBSET {"x", "y"} : \A s \in t : reducible(Side(s))}
<1>1. /\ Side("x") = at.x /\ Side("y") = at.y
  BY DEF Side
<1>2. /\ IsRec(at.x) \/ IsDef(at.x) => reducible(at.x)
      /\ IsRec(at.y) \/ IsDef(at.y) => reducible(at.y)
  BY DEF IsRec, IsDef, IsHead, reducible
<1>3. /\ reducible(at.x) => {"x"} \in T
      /\ reducible(at.y) => {"y"} \in T
      /\ reducible(at.x) /\ reducible(at.y) => {"x", "y"} \in T
  BY <1>1
<1> HIDE DEF T
<1>4. /\ \A a \in T : <<a>> \in Seq(T)
      /\ \A a, b \in T : <<a, b>> \in Seq(T)
      /\ <<>> \in Seq(T)
  OBVIOUS
<1>5. DefTries(at.x, at.y) \in Seq(T)
  <2>1. CASE ~IsDef(at.x) /\ ~IsDef(at.y)
    BY <2>1, <1>4 DEF DefTries
  <2>2. CASE IsDef(at.x) /\ ~IsDef(at.y)
    <3>1. DefTries(at.x, at.y) = <<{"x"}>>
      BY <2>2 DEF DefTries
    <3> QED BY <3>1, <2>2, <1>2, <1>3, <1>4
  <2>3. CASE ~IsDef(at.x) /\ IsDef(at.y)
    <3>1. DefTries(at.x, at.y) = <<{"y"}>>
      BY <2>3 DEF DefTries
    <3> QED BY <3>1, <2>3, <1>2, <1>3, <1>4
  <2>4. CASE IsDef(at.x) /\ IsDef(at.y)
    <3>1. {"x"} \in T /\ {"y"} \in T /\ {"x", "y"} \in T
      BY <2>4, <1>2, <1>3
    <3>2. DefTries(at.x, at.y) \in {<<{"x", "y"}>>, <<{"x"}, {"y"}>>, <<{"y"}, {"x"}>>}
      BY <2>4 DEF DefTries
    <3> QED BY <3>1, <3>2, <1>4
  <2> QED BY <2>1, <2>2, <2>3, <2>4
<1>6. /\ (IF IsRec(at.x) THEN <<{"x"}>> ELSE <<>>) \in Seq(T)
      /\ (IF IsRec(at.y) THEN <<{"y"}>> ELSE <<>>) \in Seq(T)
  BY <1>2, <1>3, <1>4
<1>7. Order \in Seq(T)
  BY <1>5, <1>6 DEF Order, Tries
<1>8. Order[i] \in T
  BY <1>7
<1> QED BY <1>1, <1>8 DEF T

\* A step that is remembered is a step the value takes.
LEMMA StepRemembered ==
  ASSUME Equality, Scoping, StepsReduce, NEW d, NEW v, NEW w,
         Within(d, v), reducible(v), Steps(d, v, w), Memo(v, w)
  PROVE  StepsReduce'
<1>1. w # NoStep => Reduced(v, w)
  BY DEF Equality, Reduction, Scoping, Stepped, Reduced
<1>2. \A u \in DOMAIN red' : (u = v /\ red'[u] = w) \/ (u \in DOMAIN red /\ red'[u] = red[u])
  BY DEF Memo
<1> QED BY <1>1, <1>2 DEF StepsReduce

LEMMA ReducesControl ==
  ASSUME Equality, Scoping, Control, StepsReduce, Reduces
  PROVE  Control' /\ StepsReduce' /\ Held /\ UNCHANGED pos
<1>1. pc \notin {"idle", "ret"} /\ Held /\ UNCHANGED pos
  BY DEF Reduces, Probes, NoProbe, ProofIrrel, StepValue, Unfolding, Memo, Unfold, NextTry, StuckSame, StuckOther,
         EtaFun, EtaNext, EtaStruct, NoStruct, UnitLike, Same, Held, chosen, caches
<1>2. /\ pc # "idle" /\ AtOK(at) /\ Within(at.d, at.x) /\ Within(at.d, at.y) /\ at.i \in Nat \ {0}
      /\ Equal(at.x, at.y) => Owed(stack, 1, Bottom)
      /\ Chain(stack, Bottom) /\ res \in BOOLEAN
  BY <1>1, AtWork
<1>3. /\ \A x : Equal(x, x)
      /\ \A x, y : Equal(x, y) => Equal(y, x)
      /\ Parts /\ Opened /\ Typed
  BY DEF Equality, Reflexive, Symmetric, Scoping
<1>4. ~StepValue => UNCHANGED red
  BY DEF Reduces, Probes, NoProbe, ProofIrrel, Unfold, NextTry, StuckSame, StuckOther,
         EtaFun, EtaNext, EtaStruct, NoStruct, UnitLike, caches
<1>5. ASSUME StepValue PROVE Control' /\ StepsReduce'
  <2> DEFINE v == Side(NextSide)
             w == step(at.d, v)
             f == [k |-> "k", at |-> at, v |-> v]
             t == k_type(at.d, v)
             u == value_type(at.d, k_ctor(RecOf(v), k_type(at.d, v)))
  <2>1. /\ at.i <= Len(Order) /\ Unknown # {}
        /\ IF asks_k(at.d, v) THEN conv_types(at.d, t, u, f) /\ UNCHANGED caches
                             ELSE Memo(v, w) /\ UNCHANGED <<control, pos, neg, probe>>
    BY <1>5 DEF StepValue, Unfolding
  <2>2. NextSide \in Order[at.i]
    <3>1. PICK s : s \in Unknown
      BY <2>1
    <3>2. Unknown \subseteq Order[at.i]
      BY DEF Unknown
    <3>3. CASE "x" \in Unknown
      BY <3>2, <3>3 DEF NextSide
    <3>4. CASE "x" \notin Unknown
      <4>1. Order[at.i] \subseteq {"x", "y"}
        BY <1>2, <2>1, OrderReducible
      <4>2. s = "y"
        BY <3>1, <3>2, <3>4, <4>1
      <4> QED BY <3>1, <3>2, <3>4, <4>2 DEF NextSide
    <3> QED BY <3>3, <3>4
  <2>3. reducible(v) /\ v \in {at.x, at.y}
    BY <1>2, <2>1, <2>2, OrderReducible
  <2>4. Within(at.d, v)
    BY <1>2, <2>3
  <2>5. CASE asks_k(at.d, v)
    <3>1. conv_types(at.d, t, u, f) /\ UNCHANGED red
      BY <2>1, <2>5 DEF caches
    <3>2. Within(at.d, t) /\ Within(at.d, u)
      BY <1>3, <2>4, <2>5 DEF Typed
    <3>3. f.k = "k" /\ f.at = at /\ f.v = v
      OBVIOUS
    <3> HIDE DEF f
    <3>4. FrameOK(f) /\ (Owes(f) <=> Fits(at.d, v))
      BY <1>2, <2>3, <2>4, <2>5, <3>3 DEF FrameOK, Owes
    <3>5. Fits(at.d, v) <=> Equal(t, u)
      BY DEF Fits
    <3> HIDE DEF t, u
    <3>6. Control'
      BY <1>1, <1>2, <3>1, <3>2, <3>3, <3>4, <3>5, Asks
    <3> QED BY <3>1, <3>6 DEF StepsReduce
  <2>6. CASE ~asks_k(at.d, v)
    <3>1. Memo(v, w) /\ UNCHANGED control
      BY <2>1, <2>6
    <3>2. Steps(at.d, v, w)
      BY <2>6 DEF Steps
    <3> HIDE DEF v, w
    <3>3. StepsReduce'
      BY <2>3, <2>4, <3>1, <3>2, StepRemembered
    <3>4. Control'
      BY <3>1, <1>1 DEF control, Control, Held, Bottom, Checking
    <3> QED BY <3>3, <3>4
  <2> QED BY <2>5, <2>6
<1>6. StepsReduce'
  BY <1>4, <1>5 DEF StepsReduce
<1> SUFFICES Control'
  BY <1>1, <1>6
<1>7. ASSUME pc' = "ret", res' = FALSE, stack' = stack PROVE Control'
  BY <1>1, <1>2, <1>7, Answers
<1>8. ASSUME pc' \notin {"idle", "ret", "spine"}, UNCHANGED <<res, stack>>,
             AtOK(at'), Equal(at'.x, at'.y) => Equal(at.x, at.y)
      PROVE Control'
  BY <1>1, <1>2, <1>8, Goes
<1>9. ASSUME NEW f, f.k \in {"irreducible", "probe", "nested"}, f.at = at, stack' = <<f>> \o stack,
             pc' = "spine", res' = res, same_head(at.x, at.y), at' = Masked(at, 1, skip_mask(at.x))
      PROVE Control'
  <2>1. FrameOK(f) /\ (Owes(f) <=> Equal(at.x, at.y)) /\ f.k # "types"
    BY <1>9, <1>2 DEF FrameOK, Owes
  <2>2. AtOK(at') /\ at'.x = at.x /\ at'.y = at.y /\ Walked(at')
    BY <1>9, <1>2, SpineBegins
  <2> QED BY <1>9, <2>1, <2>2, <1>1, <1>2, Calls
<1>10. ASSUME NEW t, NEW u, Within(at.d, t), Within(at.d, u), Equal(t, u) => Equal(at.x, at.y),
              conv_types(at.d, t, u, Frame("answer"))
       PROVE Control'
  <2> DEFINE f == Frame("answer")
  <2>1. f.k = "answer" /\ f.at = at
    BY DEF Frame
  <2> HIDE DEF f
  <2>2. FrameOK(f) /\ (Owes(f) <=> Equal(at.x, at.y))
    BY <2>1, <1>2 DEF FrameOK, Owes
  <2>3. conv_types(at.d, t, u, f)
    BY <1>10 DEF f
  <2> QED BY <1>10, <2>1, <2>2, <2>3, <1>1, <1>2, Asks
<1>11. CASE Probes
  <2> DEFINE f == [k |-> IF probing THEN "nested" ELSE "probe", at |-> at]
  <2>1. f.k \in {"probe", "nested"} /\ f.at = at
    OBVIOUS
  <2>2. /\ stack' = <<f>> \o stack /\ pc' = "spine" /\ res' = res /\ same_head(at.x, at.y)
        /\ at' = Masked(at, 1, skip_mask(at.x))
    BY <1>11 DEF Probes, Push, Frame, Masked
  <2> HIDE DEF f
  <2> QED BY <2>1, <2>2, <1>9
<1>12. CASE NoProbe
  BY <1>12, <1>2, <1>8 DEF NoProbe, Goto
<1>13. CASE ProofIrrel
  <2> DEFINE t == value_type(at.d, at.x)
             u == value_type(at.d, at.y)
  <2>1. CASE AreProofs
    <3>1. conv_types(at.d, t, u, Frame("answer"))
      BY <1>13, <2>1 DEF ProofIrrel
    <3>2. Within(at.d, t) /\ Within(at.d, u)
      BY <1>2, <1>3 DEF Typed
    <3>3. Equal(t, u) => Equal(at.x, at.y)
      BY <2>1, <1>2 DEF AreProofs, MayBeProof, Equality, Proofs
    <3> HIDE DEF t, u
    <3> QED BY <3>1, <3>2, <3>3, <1>10
  <2>2. CASE ~AreProofs
    <3>1. pc' \in {"unfold", "eta"} /\ at' = At(at, 1) /\ UNCHANGED <<res, stack>>
      BY <1>13, <2>2 DEF ProofIrrel, At
    <3>2. AtOK(at') /\ at'.x = at.x /\ at'.y = at.y
      BY <3>1, <1>2, AtMoved, 1 \in Nat \ {0}
    <3> QED BY <3>1, <3>2, <1>8
  <2> QED BY <2>1, <2>2
<1>14. CASE Unfold
  <2>1. Unknown = {} /\ at.i <= Len(Order)
    BY <1>14 DEF Unfold, Unfolding
  <2>2. ASSUME NEW s, s \in Moves
        PROVE  Reduced(Side(s), red[Side(s)]) /\ Side(s) \in {at.x, at.y}
    <3>1. s \in Order[at.i] /\ red[Side(s)] # NoStep /\ Side(s) \in DOMAIN red
      BY <2>1, <2>2 DEF Moves, Unknown
    <3> QED BY <3>1, <2>1, <1>2, OrderReducible DEF StepsReduce
  <2> DEFINE x == IF "x" \in Moves THEN Moved("x") ELSE at.x
             y == IF "y" \in Moves THEN Moved("y") ELSE at.y
  <2>3. Within(at.d, x) /\ \A z : Equal(x, z) => Equal(at.x, z)
    <3>1. CASE "x" \in Moves
      <4>1. Side("x") = at.x /\ x = red[at.x]
        BY <3>1 DEF Side, Moved
      <4> QED BY <4>1, <3>1, <2>2, <1>2 DEF Reduced
    <3>2. CASE "x" \notin Moves
      BY <3>2, <1>2
    <3> QED BY <3>1, <3>2
  <2>4. Within(at.d, y) /\ \A z : Equal(y, z) => Equal(at.y, z)
    <3>1. CASE "y" \in Moves
      <4>1. Side("y") = at.y /\ y = red[at.y]
        BY <3>1 DEF Side, Moved
      <4> QED BY <4>1, <3>1, <2>2, <1>2 DEF Reduced
    <3>2. CASE "y" \notin Moves
      BY <3>2, <1>2
    <3> QED BY <3>1, <3>2
  <2>5. pc' = "conv" /\ at' = Comparing(at.d, x, y) /\ UNCHANGED <<res, stack>>
    BY <1>14 DEF Unfold, Call
  <2> HIDE DEF x, y
  <2>6. Equal(x, y) => Equal(at.x, at.y)
    <3> SUFFICES ASSUME Equal(x, y) PROVE Equal(at.x, at.y)
      OBVIOUS
    <3>1. Equal(at.x, y)
      BY <2>3
    <3>2. Equal(at.y, at.x)
      BY <3>1, <2>4, <1>3
    <3> QED BY <3>2, <1>3
  <2>7. AtOK(at') /\ at'.x = x /\ at'.y = y
    BY <2>3, <2>4, <2>5, AtCompared
  <2> QED BY <2>5, <2>6, <2>7, <1>8
<1>15. CASE NextTry
  <2>1. at' = At(at, at.i + 1) /\ UNCHANGED <<pc, res, stack>> /\ pc = "unfold"
    BY <1>15 DEF NextTry, Unfolding, Same, At
  <2>2. at.i + 1 \in Nat \ {0}
    BY <1>2
  <2>3. AtOK(at') /\ at'.x = at.x /\ at'.y = at.y
    BY <2>1, <2>2, <1>2, AtMoved
  <2> QED BY <2>1, <2>3, <1>8
<1>16. CASE StuckSame
  <2> DEFINE f == [k |-> "irreducible", at |-> at]
  <2>1. f.k = "irreducible" /\ f.at = at
    OBVIOUS
  <2>2. /\ stack' = <<f>> \o stack /\ pc' = "spine" /\ res' = res /\ same_head(at.x, at.y)
        /\ at' = Masked(at, 1, skip_mask(at.x))
    BY <1>16 DEF StuckSame, Push, Frame, Masked
  <2> HIDE DEF f
  <2> QED BY <2>1, <2>2, <1>9
<1>17. CASE StuckOther
  BY <1>17, <1>2, <1>8 DEF StuckOther, Goto
<1>18. CASE EtaFun
  <2> DEFINE f == EtaSide[1]
             g == EtaSide[2]
             v == fresh(at.d, lam_dom(f))
  <2>1. OneLam /\ pc = "eta" /\ stack' = stack
    BY <1>18 DEF EtaFun, Same
  <2>2. /\ f.k = "lam" /\ Within(at.d, f) /\ Within(at.d, g)
        /\ Equal(f, g) => Equal(at.x, at.y)
    BY <2>1, <1>2, <1>3 DEF EtaSide, OneLam
  <2>3. CASE g.k = "neu"
    <3>1. pc' = "conv" /\ res' = res /\ at' = Comparing(at.d + 1, apply(f, v), apply(g, v))
      BY <1>18, <2>3 DEF EtaFun, Call
    <3>2. Within(at.d, lam_dom(f))
      BY <2>2, <1>3 DEF Parts, DomOf
    <3>3. Within(at.d + 1, apply(f, v)) /\ Within(at.d + 1, apply(g, v))
      BY <2>2, <2>3, <3>2, <1>3 DEF Opened
    <3>4. Equal(apply(f, v), apply(g, v)) => Equal(f, g)
      BY <2>2, <2>3 DEF Equality, EtaFunctions
    <3> HIDE DEF f, g, v
    <3>5. AtOK(at') /\ at'.x = apply(f, v) /\ at'.y = apply(g, v)
      BY <3>1, <3>3, AtCompared
    <3> QED BY <2>1, <2>2, <3>1, <3>4, <3>5, <1>8
  <2>4. CASE g.k # "neu"
    BY <1>18, <2>1, <2>4, <1>7 DEF EtaFun, Return
  <2> QED BY <2>3, <2>4
<1>19. CASE EtaNext
  BY <1>19, <1>2, <1>8 DEF EtaNext, Goto
<1>20. CASE EtaStruct
  <2> DEFINE f == [k |-> "field", at |-> at, n |-> 0]
             t == value_type(at.d, Other(at))
             u == value_type(at.d, Made(at))
  <2>1. StructApplies /\ conv_types(at.d, t, u, f)
    BY <1>20 DEF EtaStruct
  <2>2. MadeNeutral(Made(at)) /\ Other(at).k \notin {"sort", "pi"}
    BY <2>1 DEF StructApplies, MadeNeutral
  <2>3. Other(at) \in {at.x, at.y} /\ Made(at) \in {at.x, at.y}
    BY DEF Other, Made
  <2>4. Within(at.d, t) /\ Within(at.d, u)
    BY <2>3, <1>2, <1>3 DEF Typed
  <2>5. f.k = "field" /\ f.at = at /\ f.n = 0
    OBVIOUS
  <2> HIDE DEF f
  <2>6. FrameOK(f) /\ (Owes(f) <=> SameTypes(at))
    BY <2>2, <2>5, <1>2 DEF FrameOK, Owes
  <2>7. SameTypes(at) <=> Equal(t, u)
    BY DEF SameTypes
  <2> HIDE DEF t, u
  <2> QED BY <2>1, <2>4, <2>5, <2>6, <2>7, <1>1, <1>2, Asks
<1>21. CASE NoStruct
  <2>1. pc = "struct" /\ UNCHANGED <<res, stack>>
    BY <1>21 DEF NoStruct, Same, Goto
  <2>2. CASE at.i < 2
    <3>1. at' = At(at, 2) /\ pc' = pc
      BY <1>21, <2>2 DEF NoStruct, At
    <3>2. AtOK(at') /\ at'.x = at.x /\ at'.y = at.y
      BY <3>1, <1>2, AtMoved, 2 \in Nat \ {0}
    <3> QED BY <2>1, <3>1, <3>2, <1>8
  <2>3. CASE ~(at.i < 2)
    BY <1>21, <2>1, <2>3, <1>2, <1>8 DEF NoStruct, Goto
  <2> QED BY <2>2, <2>3
<1>22. CASE UnitLike
  <2> DEFINE t == whnf(at.d, value_type(at.d, at.x))
             u == value_type(at.d, at.y)
  <2>1. CASE IsUnit
    <3>1. conv_types(at.d, t, u, Frame("answer"))
      BY <1>22, <2>1 DEF UnitLike
    <3>2. Within(at.d, t) /\ Within(at.d, u)
      BY <1>2, <1>3 DEF Typed
    <3>3. Equal(t, u) => Equal(at.x, at.y)
      BY <2>1, <1>2 DEF IsUnit, Equality, Units
    <3> HIDE DEF t, u
    <3> QED BY <3>1, <3>2, <3>3, <1>10
  <2>2. CASE ~IsUnit
    BY <1>22, <2>2, <1>7 DEF UnitLike, Return
  <2> QED BY <2>1, <2>2
<1>23. CASE StepValue
  BY <1>5, <1>23
<1> QED
  BY <1>11, <1>12, <1>13, <1>14, <1>15, <1>16, <1>17, <1>18, <1>19, <1>20, <1>21, <1>22, <1>23 DEF Reduces

\* What is known of the nearest caller when an answer comes back.
LEMMA CallerKnows ==
  ASSUME Control, pc = "ret", stack # <<>>, Caller.k # "types"
  PROVE  /\ FrameOK(Caller) /\ AtOK(Caller.at) /\ Within(Caller.at.d, Caller.at.x) /\ Within(Caller.at.d, Caller.at.y)
         /\ res => Owes(Caller)
         /\ Chain(Tail(stack), Bottom)
         /\ Equal(Caller.at.x, Caller.at.y) => Owed(Tail(stack), 1, Bottom)
<1>1. Chain(stack, Bottom) /\ (res => Owed(stack, 1, Bottom))
  BY DEF Control
<1>2. /\ FrameOK(Caller) /\ (Owed(stack, 1, Bottom) <=> Owes(Caller))
      /\ Chain(Tail(stack), Bottom)
      /\ Equal(Caller.at.x, Caller.at.y) => Owed(Tail(stack), 1, Bottom)
  BY <1>1, ChainPop DEF Caller
<1> QED BY <1>1, <1>2 DEF FrameOK, AtOK

LEMMA UnwindsControl ==
  ASSUME Equality, Scoping, Control, PositivesEqual, StepsReduce, Unwinds
  PROVE  Control' /\ PositivesEqual' /\ StepsReduce' /\ Held
<1>1. pc = "ret" /\ stack # <<>> /\ Held /\ pc # "idle"
  BY DEF Unwinds, RetMemo, RetTypes, RetIrreducible, RetBinder, RetSpine, RetProbe, RetNested, RetAnswer, RetK, RetField,
         Returns, Same, Held, chosen
<1>2. Caller.k # "types" =>
        /\ FrameOK(Caller) /\ AtOK(Caller.at) /\ Within(Caller.at.d, Caller.at.x) /\ Within(Caller.at.d, Caller.at.y)
        /\ res => Owes(Caller)
        /\ Chain(Tail(stack), Bottom)
        /\ Equal(Caller.at.x, Caller.at.y) => Owed(Tail(stack), 1, Bottom)
  BY <1>1, CallerKnows
<1>3. /\ \A x : Equal(x, x)
      /\ \A x, y : Equal(x, y) => Equal(y, x)
      /\ Parts /\ Opened
  BY DEF Equality, Reflexive, Symmetric, Scoping
<1>4. PositivesEqual'
  <2>1. CASE RetMemo
    <3>1. Caller.k = "memo" /\ (pos' = pos \/ (res /\ pos' = pos \cup {Pair(Caller.at.x, Caller.at.y)}))
      BY <2>1 DEF RetMemo, Returns, Remember
    <3>2. res => Equal(Caller.at.x, Caller.at.y)
      BY <3>1, <1>2 DEF Owes
    <3>3. res => \A x, y \in Pair(Caller.at.x, Caller.at.y) : Equal(x, y)
      BY <3>2, <1>3 DEF Pair
    <3> QED BY <3>1, <3>3 DEF PositivesEqual
  <2>2. CASE ~RetMemo
    <3>1. UNCHANGED pos
      BY <2>2 DEF Unwinds, RetTypes, RetIrreducible, RetBinder, RetSpine, RetProbe, RetNested, RetAnswer, RetK, RetField, caches
    <3> QED BY <3>1 DEF PositivesEqual
  <2> QED BY <2>1, <2>2
<1>5. StepsReduce'
  <2>1. CASE RetK
    <3> DEFINE d == Caller.at.d
               v == Caller.v
               w == iota_with(d, v, k_major(d, v, res))
    <3>1. Caller.k = "k" /\ Memo(v, w)
      BY <2>1 DEF RetK, Returns
    <3>2. /\ Within(d, v) /\ reducible(v) /\ asks_k(d, v)
          /\ res => Fits(d, v)
      BY <3>1, <1>2 DEF FrameOK, Owes
    <3>3. Steps(d, v, w)
      BY <3>2 DEF Steps, Control
    <3> HIDE DEF d, v, w
    <3> QED BY <3>1, <3>2, <3>3, StepRemembered
  <2>2. CASE ~RetK
    <3>1. UNCHANGED red
      BY <2>2 DEF Unwinds, RetMemo, RetTypes, RetIrreducible, RetBinder, RetSpine, RetProbe, RetNested, RetAnswer, RetField, caches
    <3> QED BY <3>1 DEF StepsReduce
  <2> QED BY <2>1, <2>2
<1> SUFFICES Control'
  BY <1>1, <1>4, <1>5
<1>6. ASSUME pc' = "ret", res' = res, stack' = Tail(stack), Caller.k # "types", res => Equal(Caller.at.x, Caller.at.y)
      PROVE  Control'
  <2>1. res' \in BOOLEAN
    BY <1>6 DEF Control
  <2> QED BY <1>1, <1>2, <1>6, <2>1, Answers
<1>7. ASSUME pc' \notin {"idle", "ret"}, res' = res, stack' = Tail(stack), Caller.k # "types",
             AtOK(at'), Equal(at'.x, at'.y) => Equal(Caller.at.x, Caller.at.y), pc' = "spine" => Walked(at')
      PROVE  Control'
  BY <1>1, <1>2, <1>7, Goes
<1>8. ASSUME Caller.k \in {"memo", "irreducible", "probe", "nested", "answer"}
      PROVE  res => Equal(Caller.at.x, Caller.at.y)
  BY <1>2, <1>8 DEF Owes
<1>11. CASE RetMemo
  BY <1>1, <1>6, <1>8, <1>11 DEF RetMemo, Returns
<1>12. CASE RetTypes
  <2>1. Caller.k = "types" /\ stack' = Tail(stack) /\ UNCHANGED <<pc, res>>
    BY <1>12 DEF RetTypes, Returns
  <2>2. Chain(Tail(stack), Bottom) /\ (Owed(stack, 1, Bottom) <=> Owed(Tail(stack), 1, Bottom))
    BY <2>1, <1>1, ChainPop DEF Control, Caller
  <2>3. res' \in BOOLEAN /\ (res' => Owed(stack', 1, Bottom))
    BY <2>1, <2>2, <1>1 DEF Control
  <2> QED BY <2>1, <2>2, <2>3, <1>1, Answers
<1>13. CASE RetIrreducible
  <2>1. Caller.k = "irreducible" /\ stack' = Tail(stack)
    BY <1>13 DEF RetIrreducible, Returns
  <2>2. CASE res
    BY <1>13, <2>1, <2>2, <1>1, <1>6, <1>8 DEF RetIrreducible
  <2>3. CASE ~res
    BY <1>13, <2>1, <2>3, <1>2, <1>7 DEF RetIrreducible, Resumes
  <2> QED BY <2>2, <2>3
<1>14. CASE RetBinder
  <2> DEFINE a == Caller.at
             t == DomOf(a.x)
             v == fresh(a.d, t)
             x == BodyAt(a.d, a.x, v)
             y == BodyAt(a.d, a.y, v)
  <2>1. Caller.k = "binder" /\ stack' = Tail(stack)
    BY <1>14 DEF RetBinder, Returns
  <2>2. CASE res
    <3>1. pc' = "conv" /\ res' = res /\ at' = Comparing(a.d + 1, x, y)
      BY <1>14, <2>2 DEF RetBinder, Call
    <3>2. Binders(a.x, a.y) /\ Equal(DomOf(a.x), DomOf(a.y)) /\ Within(a.d, a.x) /\ Within(a.d, a.y)
      BY <2>1, <2>2, <1>2 DEF FrameOK, Owes
    <3>3. Within(a.d, t)
      BY <3>2, <1>3 DEF Parts, Binders
    <3>4. Within(a.d + 1, x) /\ Within(a.d + 1, y)
      BY <3>2, <3>3, <1>3 DEF Opened, Binders, BodyAt
    <3>5. Equal(x, y) => Equal(a.x, a.y)
      BY <3>2 DEF Equality, UnderBinders
    <3> HIDE DEF a, t, v, x, y
    <3>6. AtOK(at') /\ at'.x = x /\ at'.y = y
      BY <3>1, <3>4, AtCompared
    <3> QED BY <2>1, <3>1, <3>5, <3>6, <1>7 DEF a
  <2>3. CASE ~res
    BY <1>14, <2>1, <2>3, <1>1, <1>6 DEF RetBinder
  <2> QED BY <2>2, <2>3
<1>15. CASE RetSpine
  <2> DEFINE a == Caller.at
  <2>1. Caller.k = "spine" /\ stack' = Tail(stack)
    BY <1>15 DEF RetSpine, Returns
  <2>2. CASE res
    <3>1. pc' = "spine" /\ res' = res /\ at' = At(a, a.i + 1)
      BY <1>15, <2>2 DEF RetSpine, At
    <3>2. AtOK(a) /\ Walked(a) /\ ~a.x.sp[a.i].p /\ ~a.y.sp[a.i].p /\ Equal(a.x.sp[a.i].v, a.y.sp[a.i].v)
      BY <2>1, <2>2, <1>2 DEF FrameOK, Owes
    <3>3. Agree(a.x, a.y, a.i)
      BY <3>2 DEF Agree
    <3> HIDE DEF a
    <3>4. AtOK(at') /\ at'.x = a.x /\ at'.y = a.y /\ Walked(at')
      BY <3>1, <3>2, <3>3, SpineAdvances
    <3> QED BY <2>1, <3>1, <3>4, <1>7 DEF a
  <2>3. CASE ~res
    BY <1>15, <2>1, <2>3, <1>1, <1>6 DEF RetSpine
  <2> QED BY <2>2, <2>3
<1>16. ASSUME Caller.k \in {"probe", "nested"}, stack' = Tail(stack), AfterProbe PROVE Control'
  <2>1. CASE res
    BY <1>16, <2>1, <1>1, <1>6, <1>8 DEF AfterProbe
  <2>2. CASE ~res
    BY <1>16, <2>2, <1>2, <1>7 DEF AfterProbe, Resumes
  <2> QED BY <2>1, <2>2
<1>17. CASE RetProbe
  BY <1>16, <1>17 DEF RetProbe, Returns
<1>18. CASE RetNested
  BY <1>16, <1>18 DEF RetNested, Returns
<1>19. CASE RetAnswer
  BY <1>1, <1>6, <1>8, <1>19 DEF RetAnswer, Returns
<1>20. CASE RetK
  <2>1. Caller.k = "k" /\ stack' = Tail(stack) /\ pc' = "unfold" /\ at' = Caller.at /\ res' = res
    BY <1>20 DEF RetK, Returns, Resumes
  <2> QED BY <2>1, <1>2, <1>7
<1>21. CASE RetField
  <2> DEFINE a == Caller.at
             n == Caller.n
             c == Made(a)
             o == Other(a)
             x == FieldElim(a, n)[1]
             y == FieldElim(a, n)[2]
  <2>1. Caller.k = "field"
    BY <1>21 DEF RetField
  <2>2. /\ n \in Nat /\ MadeNeutral(c) /\ o.k \notin {"sort", "pi"}
        /\ n > 0 => SameTypes(a) /\ \A m \in Nat : m < n - 1 => SameField(a, m)
        /\ AtOK(a) /\ Within(a.d, a.x) /\ Within(a.d, a.y) /\ a.i \in Nat \ {0}
    BY <2>1, <1>2 DEF FrameOK, AtOK
  <2>3. res => IF n = 0 THEN SameTypes(a) ELSE SameField(a, n - 1)
    BY <2>1, <1>2 DEF Owes
  <2>4. res => SameTypes(a) /\ \A m \in Nat : m < n => SameField(a, m)
    <3> HIDE DEF a, n, c, o
    <3> SUFFICES ASSUME res, NEW m \in Nat, m < n PROVE SameTypes(a) /\ SameField(a, m)
      BY <2>2, <2>3
    <3>1. n > 0 /\ n # 0 /\ (m = n - 1 \/ m < n - 1)
      BY <2>2
    <3> QED BY <3>1, <2>2, <2>3
  <2>5. Within(a.d, o) /\ Within(a.d, c) /\ {o, c} = {a.x, a.y}
    BY <2>2 DEF Other, Made
  <2>6. \A m : /\ FieldElim(a, m)[1] = FieldIn(o, c, m) /\ FieldElim(a, m)[2] = MadeField(c, m)
    BY DEF FieldElim, FieldIn, MadeField
  <2>7. CASE ~res
    <3>1. pc' = "struct" /\ at' = At(a, a.i + 1) /\ res' = res /\ stack' = Tail(stack)
      BY <1>21, <2>7 DEF RetField, At
    <3>2. a.i + 1 \in Nat \ {0}
      BY <2>2
    <3> HIDE DEF a
    <3>3. AtOK(at') /\ at'.x = a.x /\ at'.y = a.y
      BY <3>1, <3>2, <2>2, AtMoved
    <3> QED BY <2>1, <3>1, <3>3, <1>7 DEF a
  <2>8. CASE res /\ n < Consts[c.a].nfields
    <3> DEFINE f == [k |-> "field", at |-> a, n |-> n + 1]
    <3>1. pc' = "conv" /\ at' = Comparing(a.d, x, y) /\ res' = res /\ stack' = <<f>> \o Tail(stack)
      BY <1>21, <2>8 DEF RetField, Call
    <3>2. f.k = "field" /\ f.at = a /\ f.n = n + 1
      OBVIOUS
    <3>3. Within(a.d, x) /\ Within(a.d, y)
      <4>1. Within(a.d, FieldIn(o, c, n))
        BY <2>2, <2>5, <1>3 DEF Parts, FieldIn
      <4>2. Within(a.d, MadeField(c, n))
        BY <2>2, <2>5, <2>8, <1>3 DEF Parts
      <4> QED BY <4>1, <4>2, <2>6
    <3>4. Equal(x, y) <=> SameField(a, n)
      BY DEF SameField
    <3>5. /\ Chain(Tail(stack), Bottom)
          /\ Equal(a.x, a.y) => Owed(Tail(stack), 1, Bottom)
      BY <2>1, <1>2
    <3>6. n + 1 \in Nat /\ n + 1 > 0 /\ (n + 1) - 1 = n /\ n + 1 # 0
      BY <2>2
    <3> HIDE DEF f, x, y, a, n
    <3>7. FrameOK(f)
      BY <2>2, <2>4, <2>8, <3>2, <3>6 DEF FrameOK
    <3>8. Owes(f) <=> SameField(a, n)
      BY <3>2, <3>6 DEF Owes
    <3>9. Chain(stack', Bottom) /\ (Owed(stack', 1, Bottom) <=> Owes(f))
      BY <3>1, <3>2, <3>5, <3>7, ChainPush
    <3>10. AtOK(at') /\ at'.x = x /\ at'.y = y
      BY <3>1, <3>3, AtCompared
    <3> QED BY <3>1, <3>4, <3>8, <3>9, <3>10, <1>1, Goes
  <2>9. CASE res /\ ~(n < Consts[c.a].nfields)
    <3>1. stack' = Tail(stack) /\ UNCHANGED <<pc, res>>
      BY <1>21, <2>9 DEF RetField
    <3>2. Consts[c.a].nfields \in Nat
      BY <2>2, <2>5, <1>3 DEF Parts
    <3>3. \A m \in Nat : m < Consts[c.a].nfields => Equal(FieldIn(o, c, m), MadeField(c, m))
      <4> SUFFICES ASSUME NEW m \in Nat, m < Consts[c.a].nfields PROVE Equal(FieldIn(o, c, m), MadeField(c, m))
        OBVIOUS
      <4>1. m < n
        <5> HIDE DEF n, c
        <5> QED BY <2>2, <2>9, <3>2
      <4>2. SameField(a, m)
        BY <4>1, <2>4, <2>9
      <4> QED BY <4>2, <2>6 DEF SameField
    <3>4. Equal(value_type(a.d, o), value_type(a.d, c))
      BY <2>4, <2>9 DEF SameTypes
    <3> HIDE DEF o, c
    <3>5. Equal(o, c)
      BY <2>2, <2>5, <3>3, <3>4 DEF Equality, EtaStructures
    <3>6. Equal(a.x, a.y)
      BY <3>5, <2>5, <1>3
    <3> QED BY <2>1, <3>1, <3>6, <1>1, <1>6
  <2> QED BY <2>7, <2>8, <2>9
<1> QED
  BY <1>11, <1>12, <1>13, <1>14, <1>15, <1>17, <1>18, <1>19, <1>20, <1>21 DEF Unwinds
-------------------------------------------------------------------------------
(* The steps from one question to the next.                                   *)

LEMMA Appended ==
  ASSUME NEW s, Listed(s), NEW v
  PROVE  LET t == Append(s, v)
         IN /\ Listed(t) /\ Len(t) = Len(s) + 1 /\ DOMAIN t = 1..(Len(s) + 1) /\ t[Len(s) + 1] = v
            /\ \A i \in 1..Len(s) : t[i] = s[i]
<1> DEFINE S == {s[i] : i \in DOMAIN s} \cup {v}
           t == Append(s, v)
<1>1. s \in Seq(S) /\ v \in S
  BY DEF Listed
<1> HIDE DEF S
<1>2. /\ t \in Seq(S) /\ Len(t) = Len(s) + 1 /\ DOMAIN t = 1..(Len(s) + 1) /\ t[Len(s) + 1] = v
      /\ \A i \in 1..Len(s) : t[i] = s[i]
  BY <1>1
<1>3. Listed(t)
  BY <1>2, SeqListed
<1> QED BY <1>2, <1>3

LEMMA IdleControl ==
  ASSUME Control, stack' = <<>>, pc' = "idle", res' = res
  PROVE  Control'
BY ChainEmpty DEF Control

\* The declaration under way, and its first question.
LEMMA Underway ==
  ASSUME Scoping, Questions, Checking
  PROVE  /\ decl \in 1..Len(script) /\ decl = Len(verdicts) + 1 /\ Len(verdicts) \in Nat
         /\ Listed(check_const(script[decl])) /\ Listed(todo)
         /\ todo # <<>> => Posed(todo[1])
<1> DEFINE Q == check_const(script[decl])
           n == Len(Q) - Len(todo)
<1>1. Listed(script) /\ Len(script) \in Nat /\ Listed(verdicts) /\ Len(verdicts) \in Nat
  BY ListedIs DEF Questions, Scoping, Declared
<1>2. decl \in 1..Len(script) /\ decl = Len(verdicts) + 1
  BY <1>1 DEF Questions, Checking
<1>3. Listed(Q) /\ \A j \in 1..Len(Q) : Posed(Q[j])
  BY <1>2 DEF Questions, Scoping, Declared
<1>4. Listed(todo) /\ n \in Nat /\ \A i \in 1..Len(todo) : todo[i] = Q[n + i]
  BY DEF Questions
<1>5. ASSUME todo # <<>> PROVE Posed(todo[1])
  <2>1. Len(todo) \in Nat /\ Len(todo) >= 1 /\ Len(Q) \in Nat
    BY <1>3, <1>4, <1>5, ListedIs
  <2>2. n + 1 \in 1..Len(Q) /\ 1 \in 1..Len(todo)
    BY <2>1, <1>4
  <2> QED BY <2>2, <1>3, <1>4
<1> QED BY <1>1, <1>2, <1>3, <1>4, <1>5

LEMMA NextQuestion ==
  ASSUME Scoping, Questions, Checking, todo # <<>>, Holds(todo[1]),
         todo' = Tail(todo), UNCHANGED <<script, decl, verdicts>>
  PROVE  Questions'
<1> DEFINE Q == check_const(script[decl])
           n == Len(Q) - Len(todo)
           m == Len(Q) - Len(todo')
<1>1. Listed(Q) /\ Listed(todo)
  BY Underway
<1>2. /\ Listed(todo') /\ Len(todo') = Len(todo) - 1
      /\ \A i \in 1..(Len(todo) - 1) : todo'[i] = todo[i + 1]
  BY <1>1, Popped
<1>3. n \in Nat /\ (\A i \in 1..Len(todo) : todo[i] = Q[n + i]) /\ (\A i \in 1..n : Holds(Q[i]))
  BY DEF Questions
<1>4. Len(Q) \in Nat /\ Len(todo) \in Nat /\ Len(todo) >= 1
  BY <1>1, ListedIs
<1> HIDE DEF Q
<1>5. m = n + 1 /\ m \in Nat
  BY <1>2, <1>3, <1>4
<1>6. ASSUME NEW i \in 1..Len(todo') PROVE todo'[i] = Q[m + i]
  <2>1. i + 1 \in 1..Len(todo) /\ i \in 1..(Len(todo) - 1) /\ n + (i + 1) = m + i
    BY <1>2, <1>3, <1>4, <1>5
  <2>2. todo[i + 1] = Q[n + (i + 1)]
    BY <2>1, <1>3
  <2> QED BY <2>1, <2>2, <1>2
<1>7. Holds(Q[m])
  <2>1. 1 \in 1..Len(todo)
    BY <1>4
  <2>2. todo[1] = Q[m]
    BY <2>1, <1>3, <1>5
  <2> QED BY <2>2
<1>8. ASSUME NEW i \in 1..m PROVE Holds(Q[i])
  <2>1. i = m \/ i \in 1..n
    BY <1>3, <1>5
  <2> QED BY <2>1, <1>3, <1>7
<1>9. /\ script \in Scripts /\ decl \in Nat /\ decl <= Len(script)
      /\ Listed(verdicts) /\ Len(verdicts) <= decl /\ decl <= Len(verdicts) + 1
  BY DEF Questions
<1> HIDE DEF m
<1>10. /\ Listed(todo') /\ m \in Nat
       /\ \A i \in 1..Len(todo') : todo'[i] = Q[m + i]
       /\ \A i \in 1..m : Holds(Q[i])
  BY <1>2, <1>5, <1>6, <1>8
<1>11. Questions'
  <2>1. check_const(script[decl])' = Q
    BY DEF Q
  <2>2. m = Len(Q) - Len(todo')
    BY DEF m
  <2> QED BY <1>9, <1>10, <2>1, <2>2 DEF Questions
<1> QED BY <1>11

LEMMA VerdictGiven ==
  ASSUME Scoping, Questions, AcceptedHolds, Checking, NEW v, End(v), v = "accepted" => AllHold(script[decl])
  PROVE  Questions' /\ AcceptedHolds'
<1>1. /\ verdicts' = Append(verdicts, v) /\ UNCHANGED <<script, decl>>
  BY DEF End, chosen
<1>2. /\ Listed(verdicts) /\ Len(verdicts) \in Nat /\ decl = Len(verdicts) + 1
      /\ script \in Scripts /\ decl \in Nat /\ decl <= Len(script) /\ DOMAIN verdicts = 1..Len(verdicts)
  BY Underway, ListedIs DEF Questions
<1>3. /\ Listed(verdicts') /\ Len(verdicts') = Len(verdicts) + 1 /\ DOMAIN verdicts' = 1..(Len(verdicts) + 1)
      /\ verdicts'[Len(verdicts) + 1] = v
      /\ \A i \in 1..Len(verdicts) : verdicts'[i] = verdicts[i]
  BY <1>1, <1>2, Appended
<1>4. ~Checking'
  BY <1>1, <1>2, <1>3 DEF Checking
<1>5. Questions'
  BY <1>1, <1>2, <1>3, <1>4 DEF Questions
<1>6. ASSUME NEW i \in DOMAIN verdicts', verdicts'[i] = "accepted" PROVE AllHold(script[i])
  <2>1. i = decl \/ i \in 1..Len(verdicts)
    BY <1>2, <1>3
  <2> QED BY <2>1, <1>2, <1>3, <1>6 DEF AcceptedHolds
<1> QED BY <1>1, <1>5, <1>6 DEF AcceptedHolds

LEMMA ChecksDerived ==
  ASSUME Scoping, Control, Questions, AcceptedHolds, Checks \/ Fail
  PROVE  Control' /\ Questions' /\ AcceptedHolds' /\ UNCHANGED <<pos, red>>
<1>1. UNCHANGED <<pos, red>>
  BY DEF Checks, Begin, Ask, AskFact, Answered, Accepts, Fail, End, caches
<1> SUFFICES Control' /\ Questions' /\ AcceptedHolds'
  BY <1>1
<1>2. res \in BOOLEAN /\ (pc = "idle" => stack = <<>>) /\ (pc # "idle" => Checking /\ todo # <<>> /\ todo[1].ask)
  BY DEF Control
<1>3. ASSUME NEW v, End(v), Checking, v = "accepted" => AllHold(script[decl])
      PROVE  Control' /\ Questions' /\ AcceptedHolds'
  <2>1. stack' = <<>> /\ pc' = "idle" /\ res' = res
    BY <1>3 DEF End
  <2> QED BY <2>1, <1>3, IdleControl, VerdictGiven
<1>4. ASSUME Checking, todo # <<>>, Holds(todo[1]), todo' = Tail(todo), UNCHANGED <<script, decl, verdicts, res, stack>>,
             pc' = "idle", stack = <<>>
      PROVE  Control' /\ Questions' /\ AcceptedHolds'
  <2>1. Control' /\ Questions'
    BY <1>4, IdleControl, NextQuestion
  <2> QED BY <2>1, <1>4 DEF AcceptedHolds
<1>11. CASE Begin
  <2> DEFINE Q == check_const(script[decl + 1])
  <2>1. /\ pc = "idle" /\ ~Checking /\ decl < Len(script) /\ decl' = decl + 1 /\ todo' = Q
        /\ UNCHANGED <<script, verdicts, pc, res, stack>>
    BY <1>11 DEF Begin, chosen, control
  <2>2. Control'
    BY <2>1, <1>2, IdleControl
  <2>3. AcceptedHolds'
    BY <2>1 DEF AcceptedHolds
  <2>4. /\ Listed(script) /\ Len(script) \in Nat /\ Listed(verdicts) /\ Len(verdicts) \in Nat /\ decl \in Nat
        /\ script \in Scripts /\ Len(verdicts) <= decl
    BY ListedIs DEF Questions, Scoping, Declared
  <2>5. decl + 1 \in 1..Len(script) /\ decl + 1 \in Nat /\ Len(verdicts) = decl
    BY <2>1, <2>4 DEF Checking
  <2>6. Listed(Q) /\ Len(Q) \in Nat
    BY <2>4, <2>5, ListedIs DEF Scoping, Declared
  <2> HIDE DEF Q
  <2>7. /\ Len(Q) - Len(Q) = 0 /\ 1..(Len(Q) - Len(Q)) = {}
        /\ \A i \in 1..Len(Q) : (Len(Q) - Len(Q)) + i = i
    BY <2>6
  <2>8. check_const(script'[decl']) = Q
    BY <2>1 DEF Q
  <2>9. Questions'
    BY <2>1, <2>4, <2>5, <2>6, <2>7, <2>8 DEF Questions
  <2> QED BY <2>2, <2>3, <2>9
<1>12. CASE Ask
  <2>1. /\ pc = "idle" /\ Checking /\ todo # <<>> /\ todo[1].ask /\ stack' = stack /\ stack = <<>>
        /\ pc' = "conv" /\ res' = res /\ at' = Comparing(todo[1].d, todo[1].x, todo[1].y)
        /\ UNCHANGED <<script, decl, todo, verdicts>>
    BY <1>12, <1>2 DEF Ask, Call, chosen
  <2>2. Within(todo[1].d, todo[1].x) /\ Within(todo[1].d, todo[1].y)
    BY <2>1, Underway DEF Posed
  <2>3. AtOK(at') /\ at'.x = todo[1].x /\ at'.y = todo[1].y
    BY <2>1, <2>2, AtCompared
  <2>4. Chain(<<>>, Bottom) /\ (Owed(<<>>, 1, Bottom) <=> Bottom)
    BY ChainEmpty
  <2>5. Control'
    BY <2>1, <2>3, <2>4, <1>2 DEF Control, Bottom, Checking
  <2> QED BY <2>1, <2>5 DEF Questions, AcceptedHolds, Checking
<1>13. CASE AskFact
  <2>1. pc = "idle" /\ stack = <<>> /\ Checking /\ todo # <<>> /\ ~todo[1].ask
    BY <1>13, <1>2 DEF AskFact
  <2>2. CASE todo[1].ok
    <3>1. Holds(todo[1])
      BY <2>1, <2>2 DEF Holds
    <3>2. todo' = Tail(todo) /\ UNCHANGED <<script, decl, verdicts, pc, res, stack>>
      BY <1>13, <2>2 DEF AskFact, chosen, control
    <3> QED BY <2>1, <3>1, <3>2, <1>4
  <2>3. CASE ~todo[1].ok
    BY <1>13, <2>1, <2>3, <1>3 DEF AskFact
  <2> QED BY <2>2, <2>3
<1>14. CASE Answered
  <2>1. pc = "ret" /\ stack = <<>> /\ Checking /\ todo # <<>> /\ todo[1].ask
    BY <1>14, <1>2 DEF Answered
  <2>2. CASE res
    <3>1. Owed(stack, 1, Bottom)
      BY <2>1, <2>2 DEF Control
    <3>2. Bottom
      BY <2>1, <3>1, ChainEmpty
    <3>3. Holds(todo[1])
      BY <2>1, <3>2 DEF Holds, Bottom
    <3>4. todo' = Tail(todo) /\ pc' = "idle" /\ UNCHANGED <<script, decl, verdicts, res, stack>>
      BY <1>14, <2>2 DEF Answered, chosen
    <3> QED BY <2>1, <3>3, <3>4, <1>4
  <2>3. CASE ~res
    BY <1>14, <2>1, <2>3, <1>3 DEF Answered
  <2> QED BY <2>2, <2>3
<1>15. CASE Accepts
  <2> DEFINE Q == check_const(script[decl])
  <2>1. Checking /\ todo = <<>> /\ End("accepted")
    BY <1>15 DEF Accepts
  <2>2. Listed(Q) /\ Len(Q) \in Nat /\ DOMAIN Q = 1..Len(Q)
    BY <2>1, Underway, ListedIs
  <2>3. \A i \in 1..(Len(Q) - Len(todo)) : Holds(Q[i])
    BY <2>1 DEF Questions
  <2>4. Len(todo) = 0
    BY <2>1
  <2>5. AllHold(script[decl])
    <3> HIDE DEF Q
    <3>1. Len(Q) - Len(todo) = Len(Q)
      BY <2>2, <2>4
    <3>2. \A i \in DOMAIN Q : Holds(Q[i])
      BY <3>1, <2>2, <2>3
    <3> QED BY <3>2 DEF AllHold, Q
  <2> QED BY <2>1, <2>5, <1>3
<1>16. CASE Fail
  <2>1. End("given up") /\ Checking /\ "given up" # "accepted"
    BY <1>16, <1>2 DEF Fail
  <2> QED BY <2>1, <1>3
<1> QED BY <1>1, <1>11, <1>12, <1>13, <1>14, <1>15, <1>16 DEF Checks

LEMMA DerivInit == Scoping /\ Init => DerivInv
<1> SUFFICES ASSUME Scoping, Init PROVE DerivInv
  OBVIOUS
<1>1. Control
  BY ChainEmpty DEF Init, Control
<1>2. PositivesEqual /\ StepsReduce
  BY DEF Init, PositivesEqual, StepsReduce
<1>3. AcceptedHolds
  BY DEF Init, AcceptedHolds
<1>4. Listed(script) /\ Len(script) \in Nat
  BY ListedIs DEF Init, Scoping, Declared
<1>5. Listed(<<>>) /\ Len(<<>>) = 0
  BY DEF Listed
<1>6. Questions
  BY <1>4, <1>5 DEF Init, Questions, Checking
<1> QED BY <1>1, <1>2, <1>3, <1>6 DEF DerivInv

LEMMA DerivStep == Equality /\ Scoping /\ DerivInv /\ [Next]_vars => DerivInv'
<1> SUFFICES ASSUME Equality, Scoping, DerivInv, [Next]_vars PROVE DerivInv'
  OBVIOUS
<1>1. ASSUME Held PROVE Questions' /\ AcceptedHolds'
  BY <1>1 DEF Held, DerivInv, Questions, AcceptedHolds, Checking
<1>2. CASE Compares
  <2>1. Control' /\ Held /\ UNCHANGED <<pos, red>>
    BY <1>2, ComparesControl DEF DerivInv
  <2> QED BY <2>1, <1>1 DEF DerivInv, PositivesEqual, StepsReduce
<1>3. CASE Reduces
  <2>1. Control' /\ StepsReduce' /\ Held /\ UNCHANGED pos
    BY <1>3, ReducesControl DEF DerivInv
  <2> QED BY <2>1, <1>1 DEF DerivInv, PositivesEqual
<1>4. CASE Unwinds
  <2>1. Control' /\ PositivesEqual' /\ StepsReduce' /\ Held
    BY <1>4, UnwindsControl DEF DerivInv
  <2> QED BY <2>1, <1>1 DEF DerivInv
<1>5. CASE Checks \/ Fail
  <2>1. Control' /\ Questions' /\ AcceptedHolds' /\ UNCHANGED <<pos, red>>
    BY <1>5, ChecksDerived DEF DerivInv
  <2> QED BY <2>1 DEF DerivInv, PositivesEqual, StepsReduce
<1>6. CASE UNCHANGED vars
  <2>1. UNCHANGED <<script, decl, todo, verdicts, pc, at, res, stack, pos, red>>
    BY <1>6 DEF vars, chosen, control, caches
  <2>2. Control'
    BY <2>1 DEF DerivInv, Control, Bottom, Checking
  <2> QED BY <2>1, <2>2, <1>1 DEF Held, DerivInv, PositivesEqual, StepsReduce
<1> QED BY <1>2, <1>3, <1>4, <1>5, <1>6 DEF Next, Over

LEMMA DerivAlways ==
  ASSUME Equality, Scoping
  PROVE  Spec => []DerivInv
<1>1. Init => DerivInv
  BY DerivInit
<1>2. DerivInv /\ [Next]_vars => DerivInv'
  BY DerivStep
<1> QED BY <1>1, <1>2, PTL DEF Spec

\* Every pair remembered as equal is derived by the rules, whichever declaration asked for it and
\* whether it was accepted, rejected or given up (c_pos, nbe.cpp:1213-1241).
THEOREM PositivesDerived ==
  ASSUME Equality, Scoping
  PROVE  Spec => []PositivesEqual
<1>1. DerivInv => PositivesEqual
  BY DEF DerivInv
<1> QED BY <1>1, DerivAlways, PTL

\* Every question check_const asks of an accepted declaration is derived by the rules (nbe.cpp, check_const).
THEOREM AcceptedDerived ==
  ASSUME Equality, Scoping
  PROVE  Spec => []AcceptedHolds
<1>1. DerivInv => AcceptedHolds
  BY DEF DerivInv
<1> QED BY <1>1, DerivAlways, PTL
===============================================================================
