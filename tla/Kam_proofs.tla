------------------------------- MODULE Kam_proofs -------------------------------
(***************************************************************************)
(* Proofs about the lazy machine, for every environment, every program and *)
(* every function of terms that obeys the laws of module KamLaws.          *)
(*                                                                         *)
(* A thunk is read as the term it was written as, which never changes.     *)
(* The stack is read as a chain of promises: what stands for the machine's *)
(* head is equal to the term of every mark above the next argument, and    *)
(* the frames below build from it a term equal to the one that is reduced. *)
(* Every step keeps the promises, of the run and of the suspended ones, so *)
(* that a mark which is assigned gets a value of its own term, and since   *)
(* a marked thunk is marked once and is no value, a full value stays.      *)
(***************************************************************************)
EXTENDS KamLaws, NaturalOrder, FiniteSetTheorems

CONSTANT Term   \* all terms

(***************************************************************************)
(* Definitions.                                                            *)
(***************************************************************************)

Cl == Closed(Term)

\* A closure (t, e) over the first n thunks.
Scoped(t, e, n) == t \in Term /\ e \in Seq(0..n) /\ loose_bvar_range(t) <= Len(e)

Thunks == [state : 0..3, term : Term, env : Seq(Nat), vterm : Term \cup {Nil}, venv : Seq(Nat), args : Seq(Nat)]

\* Thunks written over earlier ones.
Written(th) ==
  /\ th \in Seq(Thunks)
  /\ \A k \in 1..Len(th) : Scoped(th[k].term, th[k].env, k - 1)

\* The terms of an environment or of arguments.
Reads(th, e) == [i \in 1..Len(e) |-> readback(th, e[i])]

\* The same thunks and more, as they were or evaluated further.
Extends(th, th2) ==
  /\ Written(th) /\ Written(th2) /\ Len(th) <= Len(th2)
  /\ \A k \in 1..Len(th) : th2[k].term = th[k].term /\ th2[k].env = th[k].env

\* lit_value goes through thunk t on to thunk u.
Through(th, t, u) ==
  LET c == Cell(th, t) IN c.state = 3 /\ c.vterm = Const("succ") /\ Len(c.args) = 1 /\ u = c.args[1]

\* A sequence, of whatever it holds.
Listed(s) == s \in Seq({s[i] : i \in DOMAIN s})

\* The frames of a stack over n thunks.
FrameOK(f, n) ==
  \/ f.k = "arg" /\ f.th \in 0..n
  \/ f.k = "upd" /\ f.th \in 1..n
  \/ f.k = "cont" /\ Scoped(f.h, f.env, n) /\ f.args \in Seq(0..n)
  \/ f.k = "proj" /\ Scoped(f.h, f.env, n) /\ f.h.k = "proj"
Stack(s, n) == Listed(s) /\ \A i \in 1..Len(s) : FrameOK(s[i], n)
-------------------------------------------------------------------------------
(* Hypotheses.                                                               *)

\* Term has the terms the machine builds.
Complete ==
  /\ \A n \in Nat : LitNat(n) \in Term
  /\ \A c \in {"zero", "succ", "unused_hypothesis"} : Const(c) \in Term
  /\ \A t \in Term, s \in Seq(Cl) : loose_bvar_range(t) <= Len(s) => Inst(t, s) \in Term
  /\ \A f \in Cl, s \in Seq(Cl) : mk_apps(f, s) \in Term
  /\ \A e \in Cl, i \in Nat : Proj(i, e) \in Term
  /\ \A c \in DOMAIN Decls, m \in Cl : Decls[c].kind = "rec" =>
       /\ Decls[c].k => to_ctor_when_K(Decls[c], m) \in Term
       /\ to_ctor_when_struct(Decls[c], m) \in Term

TermHyp ==
  /\ Grammar(Term) /\ Spines(Term) /\ Binders(Term, Nat)
  /\ Applications(Cl, Seq(Cl)) /\ Substitution(Term, Seq(Cl)) /\ Complete

ReductionHyp ==
  /\ Congruence(Cl, Seq(Cl), Nat) /\ BetaLaw(Term, Seq(Cl)) /\ ZetaLaw(Term, Seq(Cl))
  /\ DeltaLaw /\ NumeralLaws(Nat) /\ RecursorLaws(Cl, Seq(Cl))
  /\ FieldLaw(Seq(Cl), Nat) /\ LiftLaw(Seq(Cl)) /\ Environment(Cl)

FusionHyp ==
  \A L \in Limits : \A cache :
    /\ \A e : Fuses(Term, Seq(Cl), L, cache, e)
    /\ \A c \in Defs : Arms(Term, Seq(Cl), c, L, cache)

\* The functions of Kam that call themselves compute what their definitions say; lit_value
\* reads a numeral, or finds a thunk to force, only at the end of its calls.
Recursion ==
  /\ \A th, t : Written(th) /\ t \in 0..Len(th) => readback(th, t) = Readback(th, t)
  /\ \A S, ts, e : \A n \in Nat : mk_thunks(S, ts, n, e) = MkThunks(S, ts, n, e)
  /\ \A S, body, ihs, e : \A n \in Nat : mk_hyps(S, body, ihs, n, e) = MkHyps(S, body, ihs, n, e)
  /\ \A n \in Nat : \A s : Listed(s) => (can_take(n, s) <=> CanTake(n, s))
  /\ \A m, n, R : take_args(m, n, R) = TakeArgs(m, n, R)
  /\ \A th, t : lit_value(th, t) = LitValue(th, t)
  /\ \A th, t : Written(th) /\ lit_value(th, t).k \in {"lit", "unforced"} =>
       \E s \in Seq(Nat) :
         /\ s # <<>> /\ s[1] = t
         /\ \A i \in 1..(Len(s) - 1) : Through(th, s[i], s[i + 1])
         /\ ~\E u : Through(th, s[Len(s)], u)
-------------------------------------------------------------------------------
(***************************************************************************)
(* Sequences.                                                              *)
(***************************************************************************)

LEMMA SeqListed ==
  ASSUME NEW S, NEW s \in Seq(S)
  PROVE  Listed(s)
<1> DEFINE R == {s[i] : i \in DOMAIN s}
<1>1. Len(s) \in Nat /\ DOMAIN s = 1..Len(s) /\ s = [i \in 1..Len(s) |-> s[i]]
  OBVIOUS
<1>2. \A i \in 1..Len(s) : s[i] \in R
  BY <1>1
<1> HIDE DEF R
<1>3. [i \in 1..Len(s) |-> s[i]] \in Seq(R)
  BY <1>1, <1>2
<1>4. s \in Seq(R)
  BY <1>1, <1>3
<1> QED BY <1>4 DEF R, Listed

LEMMA ListedIs ==
  ASSUME NEW s, Listed(s)
  PROVE  /\ Len(s) \in Nat /\ DOMAIN s = 1..Len(s)
         /\ s = <<>> <=> Len(s) = 0
         /\ s = [i \in 1..Len(s) |-> s[i]]
BY DEF Listed

LEMMA ListedFun ==
  ASSUME NEW n \in Nat, NEW s, s = [i \in 1..n |-> s[i]]
  PROVE  Listed(s) /\ Len(s) = n /\ DOMAIN s = 1..n
<1> DEFINE S == {s[i] : i \in 1..n}
<1>1. \A i \in 1..n : s[i] \in S
  OBVIOUS
<1> HIDE DEF S
<1>2. [i \in 1..n |-> s[i]] \in Seq(S) /\ Len([i \in 1..n |-> s[i]]) = n
  BY <1>1
<1>3. s \in Seq(S) /\ Len(s) = n /\ DOMAIN s = 1..n
  BY <1>2
<1> QED BY <1>3, SeqListed

\* Two sequences of one length with the same elements.
LEMMA SameSeq ==
  ASSUME NEW s, Listed(s), NEW t, Listed(t), Len(s) = Len(t), \A i \in 1..Len(s) : s[i] = t[i]
  PROVE  s = t
<1>1. s = [i \in 1..Len(s) |-> s[i]] /\ t = [i \in 1..Len(s) |-> t[i]]
  BY ListedIs
<1> QED BY <1>1

\* t is r and then s.
Joins(t, r, s) ==
  /\ Listed(t) /\ Len(t) = Len(r) + Len(s)
  /\ \A i \in 1..Len(r) : t[i] = r[i]
  /\ \A i \in 1..Len(s) : t[Len(r) + i] = s[i]
  /\ \A i \in 1..Len(t) : t[i] = IF i <= Len(r) THEN r[i] ELSE s[i - Len(r)]

LEMMA Joined ==
  ASSUME NEW r, Listed(r), NEW s, Listed(s)
  PROVE  Joins(r \o s, r, s)
<1> DEFINE S == {s[i] : i \in DOMAIN s} \cup {r[i] : i \in DOMAIN r}
           t == r \o s
<1>1. s \in Seq(S) /\ r \in Seq(S)
  BY DEF Listed
<1> HIDE DEF S
<1>2. t \in Seq(S) /\ Len(t) = Len(r) + Len(s) /\ Len(r) \in Nat /\ Len(s) \in Nat
  BY <1>1
<1>3. \A i \in 1..Len(t) : t[i] = IF i <= Len(r) THEN r[i] ELSE s[i - Len(r)]
  BY <1>1
<1>4. Listed(t)
  BY <1>2, SeqListed
<1> HIDE DEF t
<1>a. ASSUME NEW i \in 1..Len(r) PROVE t[i] = r[i]
  BY <1>2, <1>3
<1>b. ASSUME NEW i \in 1..Len(s) PROVE t[Len(r) + i] = s[i]
  <2>1. Len(r) + i \in 1..Len(t) /\ ~(Len(r) + i <= Len(r)) /\ (Len(r) + i) - Len(r) = i
    BY <1>2
  <2> QED BY <1>3, <2>1
<1>5. Joins(t, r, s)
  BY <1>2, <1>3, <1>4, <1>a, <1>b DEF Joins
<1> QED BY <1>5 DEF t

LEMMA Popped ==
  ASSUME NEW s, Listed(s), s # <<>>
  PROVE  /\ Listed(Tail(s)) /\ Len(Tail(s)) = Len(s) - 1 /\ Len(s) >= 1
         /\ \A i \in 1..(Len(s) - 1) : Tail(s)[i] = s[i + 1]
         /\ s = <<s[1]>> \o Tail(s) /\ Head(s) = s[1]
<1> DEFINE S == {s[i] : i \in DOMAIN s}
<1>1. s \in Seq(S)
  BY DEF Listed
<1> HIDE DEF S
<1>2. /\ Tail(s) \in Seq(S) /\ Len(Tail(s)) = Len(s) - 1 /\ Len(s) >= 1 /\ Head(s) = s[1]
      /\ \A i \in 1..(Len(s) - 1) : Tail(s)[i] = s[i + 1]
  BY <1>1
<1>3. Listed(Tail(s))
  BY <1>2, SeqListed
<1>4. s[1] \in S
  BY <1>1
<1>5. s = <<s[1]>> \o Tail(s)
  BY <1>1, <1>2, <1>4
<1> QED BY <1>2, <1>3, <1>5

LEMMA Pushed ==
  ASSUME NEW s, Listed(s), NEW f
  PROVE  LET t == <<f>> \o s
         IN /\ Listed(t) /\ t # <<>> /\ Len(t) = Len(s) + 1
            /\ t[1] = f /\ Tail(t) = s /\ Head(t) = f
            /\ \A i \in 1..Len(s) : t[i + 1] = s[i]
<1> DEFINE t == <<f>> \o s
           S == {s[i] : i \in DOMAIN s} \cup {f}
<1>1. s \in Seq(S)
  BY DEF Listed
<1>2. <<f>> \in Seq(S)
  OBVIOUS
<1> HIDE DEF S
<1>3. t \in Seq(S) /\ Len(t) = Len(s) + 1 /\ t[1] = f /\ Head(t) = f /\ t # <<>> /\ \A i \in 1..Len(s) : t[i + 1] = s[i]
  BY <1>1, <1>2
<1>4. Listed(t)
  BY <1>3, SeqListed
<1>5. Tail(t) = s
  BY <1>1, <1>2, <1>3
<1> QED BY <1>3, <1>4, <1>5

LEMMA Reversed ==
  ASSUME NEW S, NEW s \in Seq(S)
  PROVE  /\ Reverse(s) \in Seq(S) /\ Len(Reverse(s)) = Len(s)
         /\ \A i \in 1..Len(s) : Reverse(s)[i] = s[Len(s) - i + 1]
BY DEF Reverse
-------------------------------------------------------------------------------
(***************************************************************************)
(* Reading.                                                                *)
(***************************************************************************)

LEMMA SeqMono ==
  ASSUME NEW n \in Nat, NEW m \in Nat, n <= m, NEW e \in Seq(0..n)
  PROVE  e \in Seq(0..m)
<1>1. (0..n) \subseteq (0..m)
  OBVIOUS
<1> QED BY <1>1

LEMMA ScopedMono ==
  ASSUME NEW n \in Nat, NEW m \in Nat, n <= m, NEW t, NEW e, Scoped(t, e, n)
  PROVE  Scoped(t, e, m)
<1>1. e \in Seq(0..n) /\ (0..n) \subseteq (0..m)
  BY DEF Scoped
<1>2. e \in Seq(0..m)
  BY <1>1
<1> QED BY <1>2 DEF Scoped

LEMMA ClosedScoped ==
  ASSUME NEW t \in Cl, NEW n \in Nat
  PROVE  Scoped(t, <<>>, n)
<1>1. <<>> \in Seq(0..n) /\ Len(<<>>) = 0
  OBVIOUS
<1> QED BY <1>1 DEF Scoped, Cl, Closed

LEMMA WrittenIs ==
  ASSUME NEW th, Written(th)
  PROVE  /\ Len(th) \in Nat /\ DOMAIN th = 1..Len(th)
         /\ \A k \in 1..Len(th) : th[k] \in Thunks /\ Scoped(th[k].term, th[k].env, k - 1)
BY DEF Written

\* The placeholder.
LEMMA PlaceholderIs ==
  ASSUME NEW th
  PROVE  /\ Cell(th, 0).term = Const("unused_hypothesis") /\ Cell(th, 0).env = <<>>
         /\ Cell(th, 0).state = 0
         /\ \A k : k # 0 => Cell(th, k) = th[k]
BY DEF Cell, unused_cell, Thunk

\* A closure is read as its term under the terms of its environment.
LEMMA ClosureInst ==
  ASSUME NEW th, NEW t, NEW e, NEW n \in Nat, Scoped(t, e, n), Grammar(Term)
  PROVE  readback_closure(th, t, e) = Inst(t, Reads(th, e))
<1>1. loose_bvar_range(t) \in Nat /\ Len(e) \in Nat /\ loose_bvar_range(t) <= Len(e)
  BY DEF Scoped, Grammar
<1>2. \A i \in 1..loose_bvar_range(t) : i \in 1..Len(e)
  BY <1>1
<1>3. \A i \in 1..loose_bvar_range(t) : Reads(th, e)[i] = readback(th, e[i])
  BY <1>2 DEF Reads
<1>4. [i \in 1..loose_bvar_range(t) |-> Reads(th, e)[i]] = [i \in 1..loose_bvar_range(t) |-> readback(th, e[i])]
  BY <1>3
<1> QED BY <1>4 DEF readback_closure, Inst

\* What is said of a function that reads each of the thunks e.
LEMMA ReadsOf ==
  ASSUME NEW th, NEW n \in Nat, NEW e \in Seq(0..n), \A a \in 0..n : readback(th, a) \in Cl
  PROVE  /\ Reads(th, e) \in Seq(Cl) /\ Len(Reads(th, e)) = Len(e)
         /\ \A i \in 1..Len(e) : Reads(th, e)[i] = readback(th, e[i])
<1>1. Len(e) \in Nat /\ \A i \in 1..Len(e) : e[i] \in 0..n
  OBVIOUS
<1>2. \A i \in 1..Len(e) : readback(th, e[i]) \in Cl
  BY <1>1
<1>3. [i \in 1..Len(e) |-> readback(th, e[i])] \in Seq(Cl)
  BY <1>1, <1>2
<1>4. Len([i \in 1..Len(e) |-> readback(th, e[i])]) = Len(e)
  BY <1>1
<1> QED BY <1>1, <1>3, <1>4 DEF Reads

\* A term under closed terms is closed.
LEMMA InstClosed ==
  ASSUME TermHyp, NEW t \in Term, NEW s \in Seq(Cl), loose_bvar_range(t) <= Len(s)
  PROVE  Inst(t, s) \in Cl
<1>1. Inst(t, s) \in Term
  BY DEF TermHyp, Complete
<1>2. loose_bvar_range(Inst(t, s)) = 0
  BY DEF TermHyp, Substitution
<1> QED BY <1>1, <1>2 DEF Cl, Closed

LEMMA ReadClosed ==
  ASSUME TermHyp, Recursion, NEW th, Written(th)
  PROVE  \A a \in 0..Len(th) : readback(th, a) \in Cl
<1> DEFINE T == {n \in Nat : n <= Len(th) => \A a \in 0..n : readback(th, a) \in Cl}
<1> USE Grammar(Term) DEF TermHyp
<1>0. Len(th) \in Nat
  BY WrittenIs
<1>1. 0 \in T
  <2>1. readback(th, 0) = readback_closure(th, Const("unused_hypothesis"), <<>>)
    BY <1>0, PlaceholderIs DEF Recursion, Readback
  <2>2. Const("unused_hypothesis") \in Term /\ Const("unused_hypothesis").k = "const"
    BY DEF Complete, Const
  <2>3. Const("unused_hypothesis") \in Cl
    BY <2>2 DEF Grammar, Cl, Closed
  <2>4. Scoped(Const("unused_hypothesis"), <<>>, 0)
    BY <2>3, ClosedScoped
  <2>5. readback(th, 0) = Inst(Const("unused_hypothesis"), Reads(th, <<>>))
    BY <2>1, <2>4, ClosureInst
  <2>6. Reads(th, <<>>) = <<>>
    BY DEF Reads
  <2>7. Inst(Const("unused_hypothesis"), <<>>) \in Cl
    <3>1. <<>> \in Seq(Cl) /\ loose_bvar_range(Const("unused_hypothesis")) <= Len(<<>>)
      BY <2>4 DEF Scoped
    <3> QED BY <2>2, <3>1, InstClosed
  <2> QED BY <2>5, <2>6, <2>7
<1>2. ASSUME NEW n \in T PROVE n + 1 \in T
  <2> SUFFICES ASSUME n + 1 <= Len(th), NEW a \in 0..(n + 1) PROVE readback(th, a) \in Cl
    OBVIOUS
  <2>1. \A b \in 0..n : readback(th, b) \in Cl
    BY <1>0
  <2>2. CASE a \in 0..n
    BY <2>1, <2>2
  <2>3. CASE a = n + 1
    <3>1. a \in 0..Len(th) /\ a \in 1..Len(th) /\ a # 0
      BY <1>0, <2>3
    <3>2. readback(th, a) = readback_closure(th, th[a].term, th[a].env)
      BY <3>1, PlaceholderIs DEF Recursion, Readback
    <3>3. Scoped(th[a].term, th[a].env, n)
      BY <3>1, <2>3, WrittenIs
    <3>4. readback(th, a) = Inst(th[a].term, Reads(th, th[a].env))
      BY <3>2, <3>3, ClosureInst
    <3>5. Reads(th, th[a].env) \in Seq(Cl) /\ Len(Reads(th, th[a].env)) = Len(th[a].env)
      BY <3>3, <2>1, ReadsOf DEF Scoped
    <3> QED BY <3>3, <3>4, <3>5, InstClosed DEF Scoped
  <2> QED BY <2>2, <2>3
<1> HIDE DEF T
<1>3. T \in SUBSET Nat
  BY DEF T
<1>4. T = Nat
  BY <1>1, <1>2, <1>3, Induction
<1> QED BY <1>0, <1>4 DEF T

\* A closure under thunks that have been read.
LEMMA ClosureRead ==
  ASSUME TermHyp, Recursion, NEW th, Written(th), NEW t, NEW e, Scoped(t, e, Len(th))
  PROVE  /\ Reads(th, e) \in Seq(Cl) /\ Len(Reads(th, e)) = Len(e)
         /\ \A i \in 1..Len(e) : Reads(th, e)[i] = readback(th, e[i])
         /\ loose_bvar_range(t) <= Len(Reads(th, e))
         /\ readback_closure(th, t, e) = Inst(t, Reads(th, e))
         /\ readback_closure(th, t, e) \in Cl
<1>1. Len(th) \in Nat
  BY WrittenIs
<1>2. \A a \in 0..Len(th) : readback(th, a) \in Cl
  BY ReadClosed
<1>3. /\ Reads(th, e) \in Seq(Cl) /\ Len(Reads(th, e)) = Len(e)
      /\ \A i \in 1..Len(e) : Reads(th, e)[i] = readback(th, e[i])
  BY <1>1, <1>2, ReadsOf DEF Scoped
<1>4. readback_closure(th, t, e) = Inst(t, Reads(th, e))
  BY <1>1, ClosureInst DEF TermHyp
<1>5. Inst(t, Reads(th, e)) \in Cl
  BY <1>3, InstClosed DEF Scoped
<1> QED BY <1>3, <1>4, <1>5 DEF Scoped

\* A thunk that is no placeholder is read as its closure.
LEMMA ReadIs ==
  ASSUME TermHyp, Recursion, NEW th, Written(th), NEW a \in 1..Len(th)
  PROVE  /\ readback(th, a) = readback_closure(th, th[a].term, th[a].env)
         /\ Scoped(th[a].term, th[a].env, Len(th))
<1>1. Len(th) \in Nat /\ a # 0 /\ a \in 0..Len(th) /\ a - 1 \in Nat /\ a - 1 <= Len(th)
  BY WrittenIs
<1>2. Cell(th, a) = th[a]
  BY <1>1, PlaceholderIs
<1>3. Scoped(th[a].term, th[a].env, a - 1)
  BY WrittenIs
<1>4. Scoped(th[a].term, th[a].env, Len(th))
  BY <1>1, <1>3, ScopedMono
<1> QED BY <1>1, <1>2, <1>4 DEF Recursion, Readback

\* The arguments of a value, read.
LEMMA ArgsRead ==
  ASSUME TermHyp, Recursion, NEW th, Written(th), NEW e \in Seq(0..Len(th))
  PROVE  /\ Reads(th, e) \in Seq(Cl) /\ Len(Reads(th, e)) = Len(e) /\ DOMAIN e = 1..Len(e) /\ Len(e) \in Nat
         /\ \A i \in 1..Len(e) : Reads(th, e)[i] = readback(th, e[i]) /\ e[i] \in 0..Len(th)
<1>1. Len(th) \in Nat
  BY WrittenIs
<1>2. \A a \in 0..Len(th) : readback(th, a) \in Cl
  BY ReadClosed
<1>3. DOMAIN e = 1..Len(e) /\ Len(e) \in Nat /\ \A i \in 1..Len(e) : e[i] \in 0..Len(th)
  OBVIOUS
<1> QED BY <1>1, <1>2, <1>3, ReadsOf

\* Reading does not see how far a thunk has been evaluated, nor the thunks after it.
LEMMA ReadExtends ==
  ASSUME TermHyp, Recursion, NEW th, NEW th2, Extends(th, th2)
  PROVE  \A a \in 0..Len(th) : readback(th2, a) = readback(th, a)
<1> DEFINE T == {n \in Nat : n <= Len(th) => \A a \in 0..n : readback(th2, a) = readback(th, a)}
<1>0. Written(th) /\ Written(th2) /\ Len(th) \in Nat /\ Len(th2) \in Nat /\ Len(th) <= Len(th2)
  BY WrittenIs DEF Extends
<1>1. 0 \in T
  <2>1. readback(th, 0) = readback_closure(th, Const("unused_hypothesis"), <<>>)
    BY <1>0, PlaceholderIs DEF Recursion, Readback
  <2>2. readback(th2, 0) = readback_closure(th2, Const("unused_hypothesis"), <<>>)
    BY <1>0, PlaceholderIs DEF Recursion, Readback
  <2>3. Const("unused_hypothesis") \in Term /\ Const("unused_hypothesis").k = "const"
    BY DEF TermHyp, Complete, Const
  <2>4. Const("unused_hypothesis") \in Cl
    BY <2>3 DEF TermHyp, Grammar, Cl, Closed
  <2>5. Scoped(Const("unused_hypothesis"), <<>>, 0)
    BY <2>4, ClosedScoped
  <2>6. Reads(th, <<>>) = <<>> /\ Reads(th2, <<>>) = <<>>
    BY DEF Reads
  <2>7. readback_closure(th, Const("unused_hypothesis"), <<>>) = Inst(Const("unused_hypothesis"), <<>>)
    BY <2>5, <2>6, ClosureInst DEF TermHyp
  <2>8. readback_closure(th2, Const("unused_hypothesis"), <<>>) = Inst(Const("unused_hypothesis"), <<>>)
    BY <2>5, <2>6, ClosureInst DEF TermHyp
  <2> QED BY <2>1, <2>2, <2>7, <2>8
<1>2. ASSUME NEW n \in T PROVE n + 1 \in T
  <2> SUFFICES ASSUME n + 1 <= Len(th), NEW a \in 0..(n + 1) PROVE readback(th2, a) = readback(th, a)
    OBVIOUS
  <2>1. \A b \in 0..n : readback(th2, b) = readback(th, b)
    BY <1>0
  <2>2. CASE a \in 0..n
    BY <2>1, <2>2
  <2>3. CASE a = n + 1
    <3>1. a \in 1..Len(th) /\ a \in 1..Len(th2)
      BY <1>0, <2>3
    <3>2. readback(th, a) = readback_closure(th, th[a].term, th[a].env)
      BY <1>0, <3>1, ReadIs
    <3>3. readback(th2, a) = readback_closure(th2, th[a].term, th[a].env)
      BY <1>0, <3>1, ReadIs DEF Extends
    <3>4. Scoped(th[a].term, th[a].env, n)
      BY <1>0, <3>1, <2>3, WrittenIs
    <3>5. readback_closure(th, th[a].term, th[a].env) = Inst(th[a].term, Reads(th, th[a].env))
      BY <3>4, ClosureInst DEF TermHyp
    <3>6. readback_closure(th2, th[a].term, th[a].env) = Inst(th[a].term, Reads(th2, th[a].env))
      BY <3>4, ClosureInst DEF TermHyp
    <3>7. \A i \in 1..Len(th[a].env) : th[a].env[i] \in 0..n
      BY <3>4 DEF Scoped
    <3>8. Reads(th2, th[a].env) = Reads(th, th[a].env)
      BY <3>7, <2>1 DEF Reads
    <3> QED BY <3>2, <3>3, <3>5, <3>6, <3>8
  <2> QED BY <2>2, <2>3
<1> HIDE DEF T
<1>3. T \in SUBSET Nat
  BY DEF T
<1>4. T = Nat
  BY <1>1, <1>2, <1>3, Induction
<1> QED BY <1>0, <1>4 DEF T

LEMMA ReadsExtends ==
  ASSUME TermHyp, Recursion, NEW th, NEW th2, Extends(th, th2), NEW e \in Seq(0..Len(th))
  PROVE  Reads(th2, e) = Reads(th, e) /\ e \in Seq(0..Len(th2))
<1>1. Len(th) \in Nat /\ Len(th2) \in Nat /\ Len(th) <= Len(th2)
  BY WrittenIs DEF Extends
<1>2. \A i \in 1..Len(e) : e[i] \in 0..Len(th)
  OBVIOUS
<1>3. \A i \in 1..Len(e) : readback(th2, e[i]) = readback(th, e[i])
  BY <1>2, ReadExtends
<1>4. Reads(th2, e) = Reads(th, e)
  BY <1>3 DEF Reads
<1>6. e \in Seq(0..Len(th2))
  BY <1>1, SeqMono
<1> QED BY <1>4, <1>6

LEMMA ClosureExtends ==
  ASSUME TermHyp, Recursion, NEW th, NEW th2, Extends(th, th2), NEW t, NEW e, Scoped(t, e, Len(th))
  PROVE  /\ readback_closure(th2, t, e) = readback_closure(th, t, e)
         /\ Scoped(t, e, Len(th2))
<1>1. Written(th) /\ Written(th2) /\ Len(th) \in Nat /\ Len(th2) \in Nat /\ Len(th) <= Len(th2)
  BY WrittenIs DEF Extends
<1>2. Scoped(t, e, Len(th2))
  BY <1>1, ScopedMono
<1>3. Reads(th2, e) = Reads(th, e)
  BY ReadsExtends DEF Scoped
<1> QED BY <1>1, <1>2, <1>3, ClosureRead
-------------------------------------------------------------------------------
(***************************************************************************)
(* Applications of closed terms.                                           *)
(***************************************************************************)

\* The term of a head (t, e) and arguments a.
Val(th, t, e, a) == mk_apps(readback_closure(th, t, e), Reads(th, a))

LEMMA AppsClosed ==
  ASSUME TermHyp, NEW f \in Cl
  PROVE  /\ \A s \in Seq(Cl) : mk_apps(f, s) \in Cl
         /\ mk_apps(f, <<>>) = f
         /\ \A s \in Seq(Cl), x \in Cl : mk_apps(f, Append(s, x)) = mk_apps(mk_apps(f, s), <<x>>)
<1>1. ASSUME NEW s \in Seq(Cl) PROVE mk_apps(f, s) \in Cl
  <2>1. mk_apps(f, s) \in Term
    BY DEF TermHyp, Complete
  <2>2. loose_bvar_range(mk_apps(f, s)) = 0
    BY DEF TermHyp, Applications
  <2> QED BY <2>1, <2>2 DEF Cl, Closed
<1> QED BY <1>1 DEF TermHyp, Applications

LEMMA AppsSame ==
  ASSUME ReductionHyp, NEW f \in Cl, NEW g \in Cl, normal(f) = normal(g),
         NEW r \in Seq(Cl), NEW s \in Seq(Cl), Len(r) = Len(s),
         \A i \in 1..Len(s) : normal(r[i]) = normal(s[i])
  PROVE  normal(mk_apps(f, r)) = normal(mk_apps(g, s))
BY DEF ReductionHyp, Congruence

\* One more argument.
LEMMA AppOne ==
  ASSUME TermHyp, ReductionHyp, NEW f \in Cl, NEW g \in Cl, normal(f) = normal(g), NEW x \in Cl
  PROVE  normal(mk_apps(f, <<x>>)) = normal(mk_apps(g, <<x>>)) /\ mk_apps(f, <<x>>) \in Cl
<1>1. <<x>> \in Seq(Cl)
  OBVIOUS
<1>2. normal(mk_apps(f, <<x>>)) = normal(mk_apps(g, <<x>>))
  BY <1>1, AppsSame
<1>3. mk_apps(f, <<x>>) \in Cl
  BY <1>1, AppsClosed
<1> QED BY <1>2, <1>3

LEMMA ValIs ==
  ASSUME TermHyp, Recursion, NEW th, Written(th), NEW t, NEW e, Scoped(t, e, Len(th)), NEW a \in Seq(0..Len(th))
  PROVE  /\ Val(th, t, e, a) \in Cl
         /\ a = <<>> => Val(th, t, e, a) = readback_closure(th, t, e)
         /\ \A b \in 0..Len(th) : /\ Val(th, t, e, Append(a, b)) = mk_apps(Val(th, t, e, a), <<readback(th, b)>>)
                                  /\ Append(a, b) \in Seq(0..Len(th))
<1>1. readback_closure(th, t, e) \in Cl
  BY ClosureRead
<1>2. Reads(th, a) \in Seq(Cl) /\ Len(a) \in Nat
  BY ArgsRead
<1>3. ASSUME NEW b \in 0..Len(th)
      PROVE /\ Val(th, t, e, Append(a, b)) = mk_apps(Val(th, t, e, a), <<readback(th, b)>>)
            /\ Append(a, b) \in Seq(0..Len(th))
  <2>1. /\ Append(a, b) \in Seq(0..Len(th)) /\ Len(Append(a, b)) = Len(a) + 1
        /\ \A i \in 1..Len(Append(a, b)) : Append(a, b)[i] = IF i = Len(a) + 1 THEN b ELSE a[i]
    OBVIOUS
  <2>2. /\ Reads(th, Append(a, b)) \in Seq(Cl) /\ Len(Reads(th, Append(a, b))) = Len(a) + 1
        /\ \A i \in 1..(Len(a) + 1) : Reads(th, Append(a, b))[i] = readback(th, Append(a, b)[i])
    BY <2>1, ArgsRead
  <2>3. /\ Len(Reads(th, a)) = Len(a)
        /\ \A i \in 1..Len(a) : Reads(th, a)[i] = readback(th, a[i])
    BY ArgsRead
  <2>4. readback(th, b) \in Cl
    BY ReadClosed
  <2>5. /\ Append(Reads(th, a), readback(th, b)) \in Seq(Cl)
        /\ Len(Append(Reads(th, a), readback(th, b))) = Len(a) + 1
        /\ \A i \in 1..(Len(a) + 1) :
             Append(Reads(th, a), readback(th, b))[i] = IF i = Len(a) + 1 THEN readback(th, b) ELSE Reads(th, a)[i]
    BY <1>2, <2>3, <2>4
  <2>6. \A i \in 1..(Len(a) + 1) : Reads(th, Append(a, b))[i] = Append(Reads(th, a), readback(th, b))[i]
    BY <1>2, <2>1, <2>2, <2>3, <2>5
  <2>7. Reads(th, Append(a, b)) = Append(Reads(th, a), readback(th, b))
    BY <2>2, <2>5, <2>6, SameSeq, SeqListed
  <2> QED BY <1>1, <1>2, <2>1, <2>4, <2>7, AppsClosed DEF Val
<1>4. a = <<>> => Reads(th, a) = <<>>
  BY DEF Reads
<1> QED BY <1>1, <1>2, <1>3, <1>4, AppsClosed DEF Val

\* Values of equal parts are equal.
LEMMA ValSame ==
  ASSUME TermHyp, ReductionHyp, Recursion, NEW th, Written(th),
         NEW t, NEW e, Scoped(t, e, Len(th)), NEW t2, NEW e2, Scoped(t2, e2, Len(th)),
         normal(readback_closure(th, t, e)) = normal(readback_closure(th, t2, e2)),
         NEW a \in Seq(0..Len(th)), NEW b \in Seq(0..Len(th)), Len(a) = Len(b),
         \A i \in 1..Len(a) : normal(readback(th, a[i])) = normal(readback(th, b[i]))
  PROVE  normal(Val(th, t, e, a)) = normal(Val(th, t2, e2, b))
<1>1. readback_closure(th, t, e) \in Cl /\ readback_closure(th, t2, e2) \in Cl
  BY ClosureRead
<1>2. Reads(th, a) \in Seq(Cl) /\ Len(Reads(th, a)) = Len(a) /\ \A i \in 1..Len(a) : Reads(th, a)[i] = readback(th, a[i])
  BY ArgsRead
<1>3. Reads(th, b) \in Seq(Cl) /\ Len(Reads(th, b)) = Len(b) /\ \A i \in 1..Len(b) : Reads(th, b)[i] = readback(th, b[i])
  BY ArgsRead
<1> QED BY <1>1, <1>2, <1>3, AppsSame DEF Val

LEMMA ValExtends ==
  ASSUME TermHyp, Recursion, NEW th, NEW th2, Extends(th, th2),
         NEW t, NEW e, Scoped(t, e, Len(th)), NEW a \in Seq(0..Len(th))
  PROVE  Val(th2, t, e, a) = Val(th, t, e, a)
BY ClosureExtends, ReadsExtends DEF Val
-------------------------------------------------------------------------------
(***************************************************************************)
(* Stores: a value means what its thunk was written as, the map has the    *)
(* terms its thunks are read as, and X are thunks other runs have marked.  *)
(***************************************************************************)

ValueOK(th, k) ==
  /\ Scoped(th[k].vterm, th[k].venv, Len(th)) /\ th[k].args \in Seq(0..Len(th))
  /\ normal(Val(th, th[k].vterm, th[k].venv, th[k].args)) = normal(readback(th, k))
HeapOK(th) == Written(th) /\ \A k \in 1..Len(th) : th[k].state >= 2 => ValueOK(th, k)
SharedOK(th, cl) == \A t \in DOMAIN cl : t \in Cl /\ cl[t] \in 1..Len(th) /\ readback(th, cl[t]) = t
Marked(th, X) == X \subseteq 1..Len(th) /\ \A x \in X : th[x].state = 1
StoreOK(th, cl, X) == HeapOK(th) /\ SharedOK(th, cl) /\ Marked(th, X)

\* A step of the machine: thunks stay or are evaluated further, a full value stays.
Moves(th, th2) == Extends(th, th2) /\ \A k \in 1..Len(th) : th[k].state = 3 => th2[k] = th[k]
\* Thunks are made, and no other is touched.
Grows(th, th2) == Extends(th, th2) /\ \A k \in 1..Len(th) : th2[k] = th[k]

LEMMA ExtendsTrans ==
  ASSUME NEW th, NEW th2, NEW th3
  PROVE  /\ Extends(th, th2) /\ Extends(th2, th3) => Extends(th, th3)
         /\ Moves(th, th2) /\ Moves(th2, th3) => Moves(th, th3)
         /\ Grows(th, th2) /\ Grows(th2, th3) => Grows(th, th3)
         /\ Grows(th, th2) => Moves(th, th2)
         /\ Written(th) => Grows(th, th)
<1>1. ASSUME Extends(th, th2), Extends(th2, th3) PROVE Extends(th, th3) /\ (1..Len(th)) \subseteq (1..Len(th2))
  <2>1. /\ Len(th) \in Nat /\ Len(th2) \in Nat /\ Len(th3) \in Nat
        /\ Len(th) <= Len(th2) /\ Len(th2) <= Len(th3)
    BY <1>1, WrittenIs DEF Extends
  <2>2. \A k \in 1..Len(th) : k \in 1..Len(th2)
    BY <2>1
  <2>3. Len(th) <= Len(th3)
    BY <2>1
  <2> QED BY <1>1, <2>2, <2>3 DEF Extends
<1>2. Written(th) => Len(th) <= Len(th)
  BY WrittenIs
<1> QED BY <1>1, <1>2 DEF Moves, Grows, Extends

LEMMA ReadbackValue ==
  ASSUME NEW th, NEW k, NEW n, th[k].args \in Seq(0..n)
  PROVE  readback_value(th, th[k]) = Val(th, th[k].vterm, th[k].venv, th[k].args)
<1>1. DOMAIN th[k].args = 1..Len(th[k].args)
  OBVIOUS
<1> QED BY <1>1 DEF readback_value, Val, Reads

\* Values stay what they are when thunks are evaluated further.
LEMMA ValueExtends ==
  ASSUME TermHyp, Recursion, NEW th, NEW th2, Extends(th, th2),
         NEW k \in 1..Len(th), ValueOK(th, k), NEW m \in 1..Len(th2),
         th2[m].vterm = th[k].vterm, th2[m].venv = th[k].venv, th2[m].args = th[k].args,
         readback(th2, m) = readback(th, k)
  PROVE  ValueOK(th2, m)
<1>1. Scoped(th[k].vterm, th[k].venv, Len(th2))
  BY ClosureExtends DEF ValueOK
<1>2. th[k].args \in Seq(0..Len(th2))
  BY ReadsExtends DEF ValueOK
<1>3. Val(th2, th[k].vterm, th[k].venv, th[k].args) = Val(th, th[k].vterm, th[k].venv, th[k].args)
  BY ValExtends DEF ValueOK
<1> QED BY <1>1, <1>2, <1>3 DEF ValueOK

LEMMA HeapKept ==
  ASSUME TermHyp, Recursion, NEW th, NEW th2, HeapOK(th), Extends(th, th2),
         \A k \in 1..Len(th2) : th2[k].state >= 2 => \/ k \in 1..Len(th) /\ th2[k] = th[k]
                                                     \/ ValueOK(th2, k)
  PROVE  HeapOK(th2)
<1>1. Written(th2) /\ Len(th) \in Nat
  BY WrittenIs DEF Extends
<1>2. ASSUME NEW k \in 1..Len(th2), th2[k].state >= 2, k \in 1..Len(th), th2[k] = th[k]
      PROVE  ValueOK(th2, k)
  <2>1. ValueOK(th, k)
    BY <1>2 DEF HeapOK
  <2>2. readback(th2, k) = readback(th, k)
    BY <1>1, <1>2, ReadExtends
  <2> QED BY <1>2, <2>1, <2>2, ValueExtends
<1> QED BY <1>1, <1>2 DEF HeapOK

LEMMA SharedKept ==
  ASSUME TermHyp, Recursion, NEW th, NEW th2, NEW cl, SharedOK(th, cl), Extends(th, th2)
  PROVE  SharedOK(th2, cl)
<1>1. Len(th) \in Nat /\ Len(th2) \in Nat /\ Len(th) <= Len(th2)
  BY WrittenIs DEF Extends
<1>2. ASSUME NEW t \in DOMAIN cl PROVE t \in Cl /\ cl[t] \in 1..Len(th2) /\ readback(th2, cl[t]) = t
  <2>1. t \in Cl /\ cl[t] \in 1..Len(th) /\ readback(th, cl[t]) = t
    BY DEF SharedOK
  <2> QED BY <1>1, <2>1, ReadExtends
<1> QED BY <1>2 DEF SharedOK

LEMMA SharedMore ==
  ASSUME NEW th, NEW cl, SharedOK(th, cl), NEW k \in 1..Len(th), readback(th, k) \in Cl
  PROVE  SharedOK(th, emplace(cl, readback(th, k), k))
BY DEF SharedOK, emplace

\* Thunk t is evaluated further: u is what becomes of it.
Put(th, t, u) == [th EXCEPT ![t] = u]

LEMMA SetThunk ==
  ASSUME TermHyp, Recursion, NEW th, HeapOK(th), NEW t \in 1..Len(th), NEW u \in Thunks,
         u.term = th[t].term, u.env = th[t].env,
         u.state >= 2 => /\ Scoped(u.vterm, u.venv, Len(th)) /\ u.args \in Seq(0..Len(th))
                         /\ normal(Val(th, u.vterm, u.venv, u.args)) = normal(readback(th, t))
  PROVE  LET th2 == Put(th, t, u)
         IN /\ Extends(th, th2) /\ HeapOK(th2) /\ Len(th2) = Len(th)
            /\ th2[t] = u /\ \A k \in 1..Len(th) : k # t => th2[k] = th[k]
<1> DEFINE th2 == Put(th, t, u)
<1>0. Written(th) /\ Len(th) \in Nat
  BY WrittenIs DEF HeapOK
<1>1. /\ th2 \in Seq(Thunks) /\ Len(th2) = Len(th)
      /\ th2[t] = u /\ \A k \in 1..Len(th) : k # t => th2[k] = th[k]
  BY <1>0 DEF Written, Put
<1> HIDE DEF th2
<1>2. \A k \in 1..Len(th) : th2[k].term = th[k].term /\ th2[k].env = th[k].env
  BY <1>1
<1>3. Written(th2)
  BY <1>0, <1>1, <1>2 DEF Written
<1>4. Extends(th, th2)
  BY <1>0, <1>1, <1>2, <1>3 DEF Extends
<1>5. ASSUME th2[t].state >= 2 PROVE ValueOK(th2, t)
  <2>1. /\ Scoped(u.vterm, u.venv, Len(th2)) /\ u.args \in Seq(0..Len(th2))
        /\ normal(Val(th, u.vterm, u.venv, u.args)) = normal(readback(th, t))
    BY <1>1, <1>5
  <2>2. Val(th2, u.vterm, u.venv, u.args) = Val(th, u.vterm, u.venv, u.args)
    BY <1>1, <1>4, <2>1, ValExtends
  <2>3. readback(th2, t) = readback(th, t)
    BY <1>0, <1>4, ReadExtends
  <2> QED BY <1>1, <2>1, <2>2, <2>3 DEF ValueOK
<1>6. HeapOK(th2)
  BY <1>1, <1>4, <1>5, HeapKept
<1> QED BY <1>1, <1>4, <1>6 DEF th2
-------------------------------------------------------------------------------
(***************************************************************************)
(* Stacks: what frame f makes, from a head that stands for x, is y, and    *)
(* the frames of s make g.                                                 *)
(***************************************************************************)

Link(th, f, x, y) ==
  \/ f.k = "arg" /\ normal(y) = normal(mk_apps(x, <<readback(th, f.th)>>))
  \/ f.k = "upd" /\ normal(y) = normal(x) /\ normal(x) = normal(readback(th, f.th))
  \/ f.k = "cont" /\ normal(y) = normal(Val(th, f.h, f.env, f.args))
  \/ /\ f.k = "proj" /\ normal(x) = normal(readback_closure(th, f.h.e, f.env))
     /\ normal(y) = normal(readback_closure(th, f.h, f.env))
Chain(th, x, s, g) ==
  \E ts \in [1..(Len(s) + 1) -> Cl] :
    /\ normal(ts[1]) = normal(x) /\ normal(ts[Len(s) + 1]) = normal(g)
    /\ \A i \in 1..Len(s) : Link(th, s[i], ts[i], ts[i + 1])

LEMMA FrameKinds ==
  /\ "arg" # "upd" /\ "arg" # "cont" /\ "arg" # "proj"
  /\ "upd" # "cont" /\ "upd" # "proj" /\ "cont" # "proj"
OBVIOUS

LEMMA LinkSame ==
  ASSUME TermHyp, ReductionHyp, Recursion, NEW th, Written(th), NEW f, FrameOK(f, Len(th)),
         NEW x \in Cl, NEW x2 \in Cl, normal(x) = normal(x2), NEW y, NEW y2, normal(y) = normal(y2),
         Link(th, f, x, y)
  PROVE  Link(th, f, x2, y2)
<1>1. CASE f.k = "arg"
  <2>1. f.th \in 0..Len(th)
    BY <1>1, FrameKinds DEF FrameOK
  <2>2. readback(th, f.th) \in Cl
    BY <2>1, ReadClosed
  <2>3. normal(mk_apps(x, <<readback(th, f.th)>>)) = normal(mk_apps(x2, <<readback(th, f.th)>>))
    BY <2>2, AppOne
  <2> QED BY <1>1, <2>3, FrameKinds DEF Link
<1>2. CASE f.k # "arg"
  BY <1>2 DEF Link
<1> QED BY <1>1, <1>2

LEMMA ChainNil ==
  ASSUME NEW th, NEW x \in Cl, NEW g
  PROVE  Chain(th, x, <<>>, g) <=> normal(x) = normal(g)
<1>1. Len(<<>>) = 0 /\ 1..(0 + 1) = {1} /\ 1..0 = {}
  OBVIOUS
<1>2. ASSUME Chain(th, x, <<>>, g) PROVE normal(x) = normal(g)
  BY <1>1, <1>2 DEF Chain
<1>3. ASSUME normal(x) = normal(g) PROVE Chain(th, x, <<>>, g)
  <2> DEFINE ts == [i \in 1..(Len(<<>>) + 1) |-> x]
  <2>1. ts \in [1..(Len(<<>>) + 1) -> Cl] /\ ts[1] = x /\ ts[Len(<<>>) + 1] = x
    BY <1>1
  <2> QED BY <1>1, <1>3, <2>1 DEF Chain
<1> QED BY <1>2, <1>3

LEMMA ChainSame ==
  ASSUME NEW th, NEW x, NEW x2, normal(x) = normal(x2), NEW s, NEW g, Chain(th, x, s, g)
  PROVE  Chain(th, x2, s, g)
BY DEF Chain

LEMMA ChainPush ==
  ASSUME NEW th, NEW s, Listed(s), NEW x \in Cl, NEW y, NEW g, NEW f,
         Link(th, f, x, y), Chain(th, y, s, g)
  PROVE  Chain(th, x, <<f>> \o s, g)
<1> DEFINE t == <<f>> \o s
<1>1. Len(s) \in Nat /\ Len(t) = Len(s) + 1 /\ t[1] = f /\ \A i \in 1..Len(s) : t[i + 1] = s[i]
  BY ListedIs, Pushed
<1> HIDE DEF t
<1>2. PICK ts \in [1..(Len(s) + 1) -> Cl] :
        /\ normal(ts[1]) = normal(y) /\ normal(ts[Len(s) + 1]) = normal(g)
        /\ \A i \in 1..Len(s) : Link(th, s[i], ts[i], ts[i + 1])
  BY DEF Chain
<1> DEFINE us == [i \in 1..(Len(t) + 1) |-> IF i = 1 THEN x ELSE ts[i - 1]]
<1>3. us \in [1..(Len(t) + 1) -> Cl]
  BY <1>1, <1>2
<1>4. us[1] = x /\ \A i \in 1..(Len(s) + 1) : us[i + 1] = ts[i]
  BY <1>1
<1> HIDE DEF us
<1>5. Link(th, t[1], us[1], us[1 + 1])
  <2>1. us[1 + 1] = ts[1]
    BY <1>1, <1>4
  <2> QED BY <1>1, <1>2, <1>4, <2>1 DEF Link
<1>6. ASSUME NEW i \in 1..Len(t) PROVE Link(th, t[i], us[i], us[i + 1])
  <2>1. CASE i = 1
    BY <2>1, <1>5
  <2>2. CASE i # 1
    <3>1. i - 1 \in 1..Len(s) /\ (i - 1) + 1 = i /\ i - 1 \in 1..(Len(s) + 1) /\ i \in 1..(Len(s) + 1)
      BY <1>1, <2>2
    <3>2. t[i] = s[i - 1] /\ us[i] = ts[i - 1] /\ us[i + 1] = ts[i]
      BY <1>1, <1>4, <3>1
    <3> QED BY <1>2, <3>1, <3>2
  <2> QED BY <2>1, <2>2
<1>7. us[Len(t) + 1] = ts[Len(s) + 1]
  BY <1>1, <1>4
<1>8. Chain(th, x, t, g)
  BY <1>2, <1>3, <1>4, <1>6, <1>7 DEF Chain
<1> QED BY <1>8 DEF t

LEMMA ChainPop ==
  ASSUME TermHyp, ReductionHyp, Recursion, NEW th, Written(th), NEW s, Listed(s), s # <<>>,
         FrameOK(s[1], Len(th)), NEW x \in Cl, NEW g, Chain(th, x, s, g)
  PROVE  \E y \in Cl : Link(th, s[1], x, y) /\ Chain(th, y, Tail(s), g)
<1> DEFINE t == Tail(s)
<1>1. /\ Len(s) \in Nat /\ Len(s) >= 1 /\ Len(t) = Len(s) - 1 /\ Len(t) \in Nat
      /\ \A i \in 1..Len(t) : t[i] = s[i + 1]
  BY ListedIs, Popped
<1> HIDE DEF t
<1>2. PICK ts \in [1..(Len(s) + 1) -> Cl] :
        /\ normal(ts[1]) = normal(x) /\ normal(ts[Len(s) + 1]) = normal(g)
        /\ \A i \in 1..Len(s) : Link(th, s[i], ts[i], ts[i + 1])
  BY DEF Chain
<1> DEFINE us == [i \in 1..(Len(t) + 1) |-> ts[i + 1]]
<1>3. us \in [1..(Len(t) + 1) -> Cl]
  BY <1>1, <1>2
<1>4. \A i \in 1..(Len(t) + 1) : us[i] = ts[i + 1]
  OBVIOUS
<1> HIDE DEF us
<1>5. ts[1] \in Cl /\ ts[1 + 1] \in Cl /\ us[1] = ts[1 + 1] /\ us[Len(t) + 1] = ts[Len(s) + 1]
  BY <1>1, <1>2, <1>4
<1>6. Link(th, s[1], ts[1], ts[1 + 1])
  BY <1>1, <1>2
<1>7. Link(th, s[1], x, ts[1 + 1])
  BY <1>2, <1>5, <1>6, LinkSame
<1>8. ASSUME NEW i \in 1..Len(t) PROVE Link(th, t[i], us[i], us[i + 1])
  <2>1. i + 1 \in 1..Len(s) /\ i \in 1..(Len(t) + 1) /\ i + 1 \in 1..(Len(t) + 1)
    BY <1>1
  <2> QED BY <1>1, <1>2, <1>4, <2>1
<1>9. Chain(th, ts[1 + 1], t, g)
  BY <1>2, <1>3, <1>5, <1>8 DEF Chain
<1> QED BY <1>5, <1>7, <1>9 DEF t

LEMMA FrameExtends ==
  ASSUME TermHyp, Recursion, NEW th, NEW th2, Extends(th, th2), NEW f, FrameOK(f, Len(th))
  PROVE  FrameOK(f, Len(th2)) /\ \A x, y : Link(th, f, x, y) => Link(th2, f, x, y)
<1>1. Written(th) /\ Written(th2) /\ Len(th) \in Nat /\ Len(th2) \in Nat /\ Len(th) <= Len(th2)
  BY WrittenIs DEF Extends
<1>2. CASE f.k = "arg" /\ f.th \in 0..Len(th)
  <2>1. readback(th2, f.th) = readback(th, f.th) /\ f.th \in 0..Len(th2)
    BY <1>1, <1>2, ReadExtends
  <2> QED BY <1>2, <2>1, FrameKinds DEF FrameOK, Link
<1>3. CASE f.k = "upd" /\ f.th \in 1..Len(th)
  <2>1. readback(th2, f.th) = readback(th, f.th) /\ f.th \in 1..Len(th2)
    BY <1>1, <1>3, ReadExtends
  <2> QED BY <1>3, <2>1, FrameKinds DEF FrameOK, Link
<1>4. CASE f.k = "cont" /\ Scoped(f.h, f.env, Len(th)) /\ f.args \in Seq(0..Len(th))
  <2>1. Val(th2, f.h, f.env, f.args) = Val(th, f.h, f.env, f.args)
    BY <1>4, ValExtends
  <2>2. Scoped(f.h, f.env, Len(th2)) /\ f.args \in Seq(0..Len(th2))
    BY <1>4, ClosureExtends, ReadsExtends
  <2> QED BY <1>4, <2>1, <2>2, FrameKinds DEF FrameOK, Link
<1>5. CASE f.k = "proj" /\ Scoped(f.h, f.env, Len(th)) /\ f.h.k = "proj"
  <2>1. Scoped(f.h.e, f.env, Len(th))
    BY <1>5 DEF Scoped, TermHyp, Grammar
  <2>2. /\ readback_closure(th2, f.h, f.env) = readback_closure(th, f.h, f.env)
        /\ readback_closure(th2, f.h.e, f.env) = readback_closure(th, f.h.e, f.env)
        /\ Scoped(f.h, f.env, Len(th2))
    BY <1>5, <2>1, ClosureExtends
  <2> QED BY <1>5, <2>2, FrameKinds DEF FrameOK, Link
<1> QED BY <1>2, <1>3, <1>4, <1>5 DEF FrameOK

LEMMA ChainExtends ==
  ASSUME TermHyp, Recursion, NEW th, NEW th2, Extends(th, th2), NEW s, Stack(s, Len(th)),
         NEW x, NEW g, Chain(th, x, s, g)
  PROVE  Chain(th2, x, s, g) /\ Stack(s, Len(th2))
<1>1. \A i \in 1..Len(s) : FrameOK(s[i], Len(th2)) /\ \A y, z : Link(th, s[i], y, z) => Link(th2, s[i], y, z)
  BY FrameExtends DEF Stack
<1> QED BY <1>1 DEF Stack, Chain
-------------------------------------------------------------------------------
(***************************************************************************)
(* Marks: the thunks a stack will assign are marked, each once, and are no *)
(* marks X of another run.                                                 *)
(***************************************************************************)

Marks(s) == {s[i].th : i \in {j \in 1..Len(s) : s[j].k = "upd"}}
Distinct(s) ==
  \A i, j \in 1..Len(s) : i # j /\ s[i].k = "upd" /\ s[j].k = "upd" => s[i].th # s[j].th
StackOK(th, s, X) ==
  /\ Stack(s, Len(th)) /\ Distinct(s) /\ Marked(th, Marks(s)) /\ \A x \in X : x \notin Marks(s)

LEMMA InMarks ==
  ASSUME NEW s, NEW x
  PROVE  x \in Marks(s) <=> \E i \in 1..Len(s) : s[i].k = "upd" /\ x = s[i].th
BY DEF Marks

LEMMA MarksPush ==
  ASSUME NEW s, Listed(s), NEW f
  PROVE  LET t == <<f>> \o s
         IN /\ Marks(t) = Marks(s) \cup (IF f.k = "upd" THEN {f.th} ELSE {})
            /\ Distinct(t) <=> Distinct(s) /\ (f.k = "upd" => f.th \notin Marks(s))
            /\ \A n : Stack(t, n) <=> Stack(s, n) /\ FrameOK(f, n)
<1> DEFINE t == <<f>> \o s
<1>1. Listed(t) /\ Len(s) \in Nat /\ Len(t) = Len(s) + 1 /\ t[1] = f /\ \A i \in 1..Len(s) : t[i + 1] = s[i]
  BY ListedIs, Pushed
<1> HIDE DEF t
<1>2. \A i \in 1..Len(t) : i = 1 \/ (i - 1 \in 1..Len(s) /\ t[i] = s[i - 1])
  <2> TAKE i \in 1..Len(t)
  <2> SUFFICES ASSUME i # 1 PROVE i - 1 \in 1..Len(s) /\ t[i] = s[i - 1]
    OBVIOUS
  <2>1. i - 1 \in 1..Len(s) /\ (i - 1) + 1 = i
    BY <1>1
  <2> QED BY <1>1, <2>1
<1>3. 1 \in 1..Len(t) /\ \A i \in 1..Len(s) : i + 1 \in 1..Len(t) /\ i + 1 # 1
  BY <1>1
<1>4. Marks(t) = Marks(s) \cup (IF f.k = "upd" THEN {f.th} ELSE {})
  <2>1. ASSUME NEW x \in Marks(t) PROVE x \in Marks(s) \/ (f.k = "upd" /\ x = f.th)
    <3>1. PICK i \in 1..Len(t) : t[i].k = "upd" /\ x = t[i].th
      BY InMarks
    <3> QED BY <1>1, <1>2, <3>1, InMarks
  <2>2. ASSUME NEW x \in Marks(s) PROVE x \in Marks(t)
    <3>1. PICK i \in 1..Len(s) : s[i].k = "upd" /\ x = s[i].th
      BY InMarks
    <3> QED BY <1>1, <1>3, <3>1, InMarks
  <2>3. f.k = "upd" => f.th \in Marks(t)
    BY <1>1, <1>3, InMarks
  <2> QED BY <2>1, <2>2, <2>3
<1>5. ASSUME Distinct(s), f.k = "upd" => f.th \notin Marks(s) PROVE Distinct(t)
  <2> SUFFICES ASSUME NEW i \in 1..Len(t), NEW j \in 1..Len(t), i # j, t[i].k = "upd", t[j].k = "upd"
               PROVE  t[i].th # t[j].th
    BY DEF Distinct
  <2>1. CASE i = 1
    <3>1. j - 1 \in 1..Len(s) /\ t[j] = s[j - 1]
      BY <1>2, <2>1
    <3> QED BY <1>1, <1>5, <2>1, <3>1 DEF Marks
  <2>2. CASE j = 1
    <3>1. i - 1 \in 1..Len(s) /\ t[i] = s[i - 1]
      BY <1>2, <2>2
    <3> QED BY <1>1, <1>5, <2>2, <3>1 DEF Marks
  <2>3. CASE i # 1 /\ j # 1
    <3>1. i - 1 \in 1..Len(s) /\ t[i] = s[i - 1] /\ j - 1 \in 1..Len(s) /\ t[j] = s[j - 1] /\ i - 1 # j - 1
      BY <1>2, <2>3
    <3> QED BY <1>5, <3>1 DEF Distinct
  <2> QED BY <2>1, <2>2, <2>3
<1>6. ASSUME Distinct(t) PROVE Distinct(s) /\ (f.k = "upd" => f.th \notin Marks(s))
  <2>1. ASSUME NEW i \in 1..Len(s), NEW j \in 1..Len(s), i # j, s[i].k = "upd", s[j].k = "upd"
        PROVE  s[i].th # s[j].th
    <3>1. i + 1 \in 1..Len(t) /\ j + 1 \in 1..Len(t) /\ i + 1 # j + 1 /\ t[i + 1] = s[i] /\ t[j + 1] = s[j]
      BY <1>1, <2>1
    <3> QED BY <1>6, <2>1, <3>1 DEF Distinct
  <2>2. ASSUME f.k = "upd", NEW j \in 1..Len(s), s[j].k = "upd" PROVE s[j].th # f.th
    <3>1. 1 \in 1..Len(t) /\ j + 1 \in 1..Len(t) /\ 1 # j + 1 /\ t[j + 1] = s[j] /\ t[1] = f
      BY <1>1
    <3> QED BY <1>6, <2>2, <3>1 DEF Distinct
  <2> QED BY <2>1, <2>2 DEF Distinct, Marks
<1>7. \A n : Stack(t, n) <=> Stack(s, n) /\ FrameOK(f, n)
  BY <1>1, <1>2, <1>3 DEF Stack
<1> QED BY <1>4, <1>5, <1>6, <1>7 DEF t

LEMMA StackPush ==
  ASSUME NEW th, NEW X, NEW s, StackOK(th, s, X), NEW f, FrameOK(f, Len(th)), f.k # "upd"
  PROVE  StackOK(th, <<f>> \o s, X)
<1>1. Listed(s)
  BY DEF StackOK, Stack
<1>2. Marks(<<f>> \o s) = Marks(s) /\ Distinct(<<f>> \o s) /\ Stack(<<f>> \o s, Len(th))
  BY <1>1, MarksPush DEF StackOK
<1> QED BY <1>2 DEF StackOK

LEMMA StackPop ==
  ASSUME NEW th, NEW X, NEW s, StackOK(th, s, X), s # <<>>
  PROVE  /\ StackOK(th, Tail(s), X) /\ FrameOK(s[1], Len(th)) /\ Head(s) = s[1]
         /\ s[1].k = "upd" => /\ s[1].th \in 1..Len(th) /\ th[s[1].th].state = 1
                              /\ s[1].th \notin X /\ s[1].th \notin Marks(Tail(s))
<1>1. Listed(s)
  BY DEF StackOK, Stack
<1>2. Listed(Tail(s)) /\ s = <<s[1]>> \o Tail(s) /\ Head(s) = s[1]
  BY <1>1, Popped
<1>3. /\ Marks(s) = Marks(Tail(s)) \cup (IF s[1].k = "upd" THEN {s[1].th} ELSE {})
      /\ Distinct(s) <=> Distinct(Tail(s)) /\ (s[1].k = "upd" => s[1].th \notin Marks(Tail(s)))
      /\ Stack(s, Len(th)) <=> Stack(Tail(s), Len(th)) /\ FrameOK(s[1], Len(th))
  <2> DEFINE r == Tail(s)
             f == s[1]
  <2>1. Listed(r)
    BY <1>2
  <2> HIDE DEF r, f
  <2>2. /\ Marks(<<f>> \o r) = Marks(r) \cup (IF f.k = "upd" THEN {f.th} ELSE {})
        /\ Distinct(<<f>> \o r) <=> Distinct(r) /\ (f.k = "upd" => f.th \notin Marks(r))
        /\ Stack(<<f>> \o r, Len(th)) <=> Stack(r, Len(th)) /\ FrameOK(f, Len(th))
    BY <2>1, MarksPush
  <2>3. s = <<f>> \o r
    BY <1>2 DEF r, f
  <2> QED BY <2>2, <2>3 DEF r, f
<1> QED BY <1>2, <1>3 DEF StackOK, Marked

LEMMA ArgFramesAre ==
  ASSUME NEW n \in Nat, NEW a \in Seq(0..n)
  PROVE  /\ Listed(ArgFrames(a)) /\ Len(ArgFrames(a)) = Len(a) /\ Len(a) \in Nat
         /\ \A i \in 1..Len(a) : ArgFrames(a)[i] = Arg(a[i]) /\ a[i] \in 0..n
<1>1. DOMAIN a = 1..Len(a) /\ Len(a) \in Nat /\ \A i \in 1..Len(a) : a[i] \in 0..n
  OBVIOUS
<1>2. /\ ArgFrames(a) = [i \in 1..Len(a) |-> ArgFrames(a)[i]]
      /\ \A i \in 1..Len(a) : ArgFrames(a)[i] = Arg(a[i])
  BY <1>1 DEF ArgFrames
<1> QED BY <1>1, <1>2, ListedFun

LEMMA StackArgs ==
  ASSUME NEW th, NEW X, NEW s, StackOK(th, s, X), Len(th) \in Nat, NEW a \in Seq(0..Len(th))
  PROVE  StackOK(th, ArgFrames(a) \o s, X)
<1> DEFINE n == Len(a)
           t == ArgFrames(a) \o s
<1>1. /\ Listed(ArgFrames(a)) /\ Len(ArgFrames(a)) = n /\ n \in Nat
      /\ \A i \in 1..n : ArgFrames(a)[i] = Arg(a[i]) /\ a[i] \in 0..Len(th)
  BY ArgFramesAre
<1>2. Listed(s) /\ Len(s) \in Nat
  BY ListedIs DEF StackOK, Stack
<1>3. /\ Listed(t) /\ Len(t) = n + Len(s)
      /\ \A i \in 1..n : t[i] = Arg(a[i])
      /\ \A i \in 1..Len(s) : t[n + i] = s[i]
  <2> DEFINE r == ArgFrames(a)
  <2>1. Listed(r) /\ Len(r) = n /\ \A i \in 1..n : r[i] = Arg(a[i])
    BY <1>1
  <2> HIDE DEF r
  <2>2. Joins(r \o s, r, s)
    BY <1>2, <2>1, Joined
  <2>3. Joins(t, r, s)
    BY <2>2 DEF r
  <2> HIDE DEF t, n
  <2> QED BY <2>1, <2>3 DEF Joins
<1> HIDE DEF t, n
<1>4. \A i \in 1..Len(t) : \/ i \in 1..n /\ t[i].k = "arg" /\ t[i].th \in 0..Len(th)
                           \/ i - n \in 1..Len(s) /\ t[i] = s[i - n]
  <2> TAKE i \in 1..Len(t)
  <2>1. CASE i <= n
    <3>1. i \in 1..n
      BY <1>1, <1>2, <1>3, <2>1
    <3>2. t[i] = Arg(a[i]) /\ a[i] \in 0..Len(th)
      BY <1>1, <1>3, <3>1 DEF n
    <3> QED BY <3>1, <3>2 DEF Arg
  <2>2. CASE ~(i <= n)
    <3>1. i - n \in 1..Len(s) /\ n + (i - n) = i
      BY <1>1, <1>2, <1>3, <2>2
    <3> QED BY <1>3, <3>1
  <2> QED BY <2>1, <2>2
<1>5. \A i \in 1..Len(s) : n + i \in 1..Len(t) /\ t[n + i] = s[i] /\ (n + i) - n = i
  BY <1>1, <1>2, <1>3
<1>6. Marks(t) = Marks(s)
  <2>1. ASSUME NEW x \in Marks(t) PROVE x \in Marks(s)
    <3>1. PICK i \in 1..Len(t) : t[i].k = "upd" /\ x = t[i].th
      BY InMarks
    <3> QED BY <1>4, <3>1, InMarks, FrameKinds
  <2>2. ASSUME NEW x \in Marks(s) PROVE x \in Marks(t)
    <3>1. PICK i \in 1..Len(s) : s[i].k = "upd" /\ x = s[i].th
      BY InMarks
    <3>2. n + i \in 1..Len(t) /\ t[n + i].k = "upd" /\ x = t[n + i].th
      BY <1>5, <3>1
    <3> QED BY <3>2, InMarks
  <2> QED BY <2>1, <2>2
<1>7. Distinct(t)
  <2> SUFFICES ASSUME NEW i \in 1..Len(t), NEW j \in 1..Len(t), i # j, t[i].k = "upd", t[j].k = "upd"
               PROVE  t[i].th # t[j].th
    BY DEF Distinct
  <2>1. i - n \in 1..Len(s) /\ t[i] = s[i - n] /\ j - n \in 1..Len(s) /\ t[j] = s[j - n]
    BY <1>4, FrameKinds
  <2>2. i - n # j - n
    BY <1>1, <1>2, <1>3
  <2> QED BY <2>1, <2>2 DEF Distinct, StackOK
<1>8. Stack(t, Len(th))
  <2>1. \A i \in 1..Len(t) : FrameOK(t[i], Len(th))
    BY <1>4 DEF StackOK, Stack, FrameOK
  <2> QED BY <1>3, <2>1 DEF Stack
<1>9. StackOK(th, t, X)
  BY <1>6, <1>7, <1>8 DEF StackOK
<1> QED BY <1>9 DEF t

\* The stack is not concerned by thunks that are no marks of it.
LEMMA StackExtends ==
  ASSUME TermHyp, Recursion, NEW th, NEW th2, Extends(th, th2), NEW X, NEW s, StackOK(th, s, X),
         \A k \in Marks(s) : th2[k].state = 1
  PROVE  StackOK(th2, s, X)
<1>1. Stack(s, Len(th2))
  BY FrameExtends DEF StackOK, Stack
<1>2. Len(th) \in Nat /\ Len(th2) \in Nat /\ Len(th) <= Len(th2)
  BY WrittenIs DEF Extends
<1>3. 1..Len(th) \subseteq 1..Len(th2)
  BY <1>2
<1> QED BY <1>1, <1>3 DEF StackOK, Marked

\* Arguments pushed, or taken.
LEMMA ChainArgs ==
  ASSUME TermHyp, Recursion, NEW th, Written(th), NEW s, Listed(s), NEW x \in Cl, NEW g,
         NEW a \in Seq(0..Len(th)), Chain(th, mk_apps(x, Reads(th, a)), s, g)
  PROVE  Chain(th, x, ArgFrames(a) \o s, g)
<1> DEFINE n == Len(a)
           r == Reads(th, a)
           q == ArgFrames(a)
           t == q \o s
           P(i) == mk_apps(x, SubSeq(r, 1, i))
<1>1. r \in Seq(Cl) /\ Len(r) = n /\ n \in Nat /\ \A i \in 1..n : r[i] = readback(th, a[i]) /\ r[i] \in Cl
  <2>1. r \in Seq(Cl) /\ Len(r) = n /\ n \in Nat /\ \A i \in 1..n : r[i] = readback(th, a[i])
    BY ArgsRead
  <2> QED BY <2>1
<1>2. Listed(q) /\ Len(q) = n /\ \A i \in 1..n : q[i] = Arg(a[i])
  <2>1. Len(th) \in Nat
    BY WrittenIs
  <2> QED BY <2>1, ArgFramesAre
<1>3. Joins(t, q, s)
  BY <1>2, Joined
<1>4. Len(s) \in Nat
  BY ListedIs
<1>5. PICK ts \in [1..(Len(s) + 1) -> Cl] :
        /\ normal(ts[1]) = normal(mk_apps(x, r)) /\ normal(ts[Len(s) + 1]) = normal(g)
        /\ \A i \in 1..Len(s) : Link(th, s[i], ts[i], ts[i + 1])
  BY DEF Chain
<1> HIDE DEF n, r, q, t
<1>6. \A i \in 0..n : SubSeq(r, 1, i) \in Seq(Cl)
  BY <1>1
<1>7. \A i \in 0..n : P(i) \in Cl
  BY <1>6, AppsClosed
<1>8. ASSUME NEW i \in 1..n PROVE P(i) = mk_apps(P(i - 1), <<r[i]>>)
  <2>1. SubSeq(r, 1, i) = Append(SubSeq(r, 1, i - 1), r[i])
    BY <1>1
  <2>2. i - 1 \in 0..n
    BY <1>1
  <2>3. SubSeq(r, 1, i - 1) \in Seq(Cl) /\ r[i] \in Cl
    BY <1>1, <1>6, <2>2
  <2>4. mk_apps(x, Append(SubSeq(r, 1, i - 1), r[i])) = mk_apps(mk_apps(x, SubSeq(r, 1, i - 1)), <<r[i]>>)
    <3> HIDE DEF P
    <3> QED BY <2>3, AppsClosed
  <2> QED BY <2>1, <2>4
<1>9. SubSeq(r, 1, n) = r /\ SubSeq(r, 1, 0) = <<>>
  BY <1>1
<1>10. P(n) = mk_apps(x, r) /\ P(0) = x
  BY <1>9, AppsClosed
<1> HIDE DEF P
<1> DEFINE us == [i \in 1..(n + Len(s) + 1) |-> IF i <= n THEN P(i - 1) ELSE ts[i - n]]
<1>11. us \in [1..(n + Len(s) + 1) -> Cl]
  <2>1. ASSUME NEW i \in 1..(n + Len(s) + 1), i <= n PROVE P(i - 1) \in Cl
    <3>1. i - 1 \in 0..n
      BY <1>1, <2>1
    <3> QED BY <1>7, <3>1
  <2>2. ASSUME NEW i \in 1..(n + Len(s) + 1), ~(i <= n) PROVE ts[i - n] \in Cl
    <3>1. i - n \in 1..(Len(s) + 1)
      BY <1>1, <1>4, <2>2
    <3> QED BY <1>5, <3>1
  <2> QED BY <2>1, <2>2
<1>12. \A i \in 1..n : us[i] = P(i - 1)
  BY <1>1, <1>4
<1>13. \A i \in 1..(Len(s) + 1) : us[n + i] = ts[i]
  <2> TAKE i \in 1..(Len(s) + 1)
  <2>1. n + i \in 1..(n + Len(s) + 1) /\ ~(n + i <= n) /\ (n + i) - n = i
    BY <1>1, <1>4
  <2> QED BY <2>1
<1> HIDE DEF us
<1>14. normal(us[1]) = normal(x)
  <2>1. CASE n = 0
    <3>1. us[n + 1] = ts[1]
      BY <1>4, <1>13
    <3> QED BY <1>5, <1>10, <2>1, <3>1
  <2>2. CASE n # 0
    <3>1. 1 \in 1..n /\ 1 - 1 = 0
      BY <1>1, <2>2
    <3> QED BY <1>10, <1>12, <3>1
  <2> QED BY <2>1, <2>2
<1>15. Len(t) = n + Len(s)
  BY <1>2, <1>3 DEF Joins
<1>16. ASSUME NEW i \in 1..Len(t) PROVE Link(th, t[i], us[i], us[i + 1])
  <2>1. CASE i \in 1..n
    <3>1. t[i] = Arg(a[i])
      BY <1>2, <1>3, <2>1 DEF Joins
    <3>2. normal(us[i + 1]) = normal(P(i))
      <4>1. CASE i = n
        <5>1. us[n + 1] = ts[1]
          BY <1>4, <1>13
        <5> QED BY <1>5, <1>10, <4>1, <5>1
      <4>2. CASE i # n
        <5>1. i + 1 \in 1..n /\ (i + 1) - 1 = i
          BY <1>1, <2>1, <4>2
        <5> QED BY <1>12, <5>1
      <4> QED BY <4>1, <4>2
    <3>3. us[i] = P(i - 1) /\ P(i) = mk_apps(P(i - 1), <<readback(th, a[i])>>)
      BY <1>1, <1>8, <1>12, <2>1
    <3> QED BY <3>1, <3>2, <3>3 DEF Link, Arg
  <2>2. CASE i \notin 1..n
    <3>1. i - n \in 1..Len(s) /\ n + (i - n) = i /\ i - n \in 1..(Len(s) + 1)
          /\ (i - n) + 1 \in 1..(Len(s) + 1) /\ n + ((i - n) + 1) = i + 1
      BY <1>1, <1>4, <1>15, <2>2
    <3>2. t[n + (i - n)] = s[i - n]
      BY <1>2, <1>3, <3>1 DEF Joins
    <3>3. us[n + (i - n)] = ts[i - n] /\ us[n + ((i - n) + 1)] = ts[(i - n) + 1]
      BY <1>13, <3>1
    <3> QED BY <1>5, <3>1, <3>2, <3>3
  <2> QED BY <2>1, <2>2
<1>17. us[Len(t) + 1] = ts[Len(s) + 1]
  <2>1. Len(t) + 1 = n + (Len(s) + 1) /\ Len(s) + 1 \in 1..(Len(s) + 1)
    BY <1>1, <1>4, <1>15
  <2> QED BY <1>13, <2>1
<1>18. Chain(th, x, t, g)
  <2>1. us \in [1..(Len(t) + 1) -> Cl]
    BY <1>11, <1>15
  <2> QED BY <1>5, <1>14, <1>16, <1>17, <2>1 DEF Chain
<1> QED BY <1>18 DEF t, q
-------------------------------------------------------------------------------
(***************************************************************************)
(* A run: head (t, e), arguments o unwound, stack s, and what it reduces.  *)
(***************************************************************************)

Run(th, t, e, o, s, g, X) ==
  /\ Scoped(t, e, Len(th)) /\ o \in Seq(0..Len(th)) /\ g \in Cl
  /\ StackOK(th, s, X) /\ Chain(th, Val(th, t, e, o), s, g)

Hyp == TermHyp /\ ReductionHyp /\ FusionHyp /\ Recursion

LEMMA StoreIs ==
  ASSUME NEW th, NEW cl, NEW X, StoreOK(th, cl, X)
  PROVE  Written(th) /\ HeapOK(th) /\ SharedOK(th, cl) /\ Marked(th, X) /\ Len(th) \in Nat
BY WrittenIs DEF StoreOK, HeapOK

LEMMA SetStore ==
  ASSUME TermHyp, Recursion, NEW th, NEW cl, NEW X, StoreOK(th, cl, X),
         NEW t \in 1..Len(th), t \notin X, th[t].state # 3,
         NEW u \in Thunks, u.term = th[t].term, u.env = th[t].env,
         u.state >= 2 => /\ Scoped(u.vterm, u.venv, Len(th)) /\ u.args \in Seq(0..Len(th))
                         /\ normal(Val(th, u.vterm, u.venv, u.args)) = normal(readback(th, t))
  PROVE  LET th2 == Put(th, t, u)
         IN /\ StoreOK(th2, cl, X) /\ Moves(th, th2) /\ Len(th2) = Len(th)
            /\ th2[t] = u /\ \A k \in 1..Len(th) : k # t => th2[k] = th[k]
<1> DEFINE th2 == Put(th, t, u)
<1>1. /\ Extends(th, th2) /\ HeapOK(th2) /\ Len(th2) = Len(th)
      /\ th2[t] = u /\ \A k \in 1..Len(th) : k # t => th2[k] = th[k]
  BY StoreIs, SetThunk
<1> HIDE DEF th2
<1>2. SharedOK(th2, cl)
  BY <1>1, SharedKept DEF StoreOK
<1>3. Marked(th2, X)
  BY <1>1 DEF StoreOK, Marked
<1>4. StoreOK(th2, cl, X) /\ Moves(th, th2)
  BY <1>1, <1>2, <1>3 DEF StoreOK, Moves
<1> QED BY <1>1, <1>4 DEF th2

\* The chain below an argument or a mark.
LEMMA PopArg ==
  ASSUME Hyp, NEW th, Written(th), NEW t, NEW e, NEW o, NEW s, NEW g, NEW X,
         Run(th, t, e, o, s, g, X), s # <<>>, Head(s).k = "arg"
  PROVE  /\ Run(th, t, e, Append(o, Head(s).th), Tail(s), g, X) /\ Head(s).th \in 0..Len(th)
         /\ Chain(th, mk_apps(Val(th, t, e, o), <<readback(th, Head(s).th)>>), Tail(s), g)
<1> USE DEF Hyp
<1>1. StackOK(th, Tail(s), X) /\ FrameOK(s[1], Len(th)) /\ Head(s) = s[1]
  BY StackPop DEF Run
<1>2. Head(s).th \in 0..Len(th)
  BY <1>1, FrameKinds DEF FrameOK
<1>3. Val(th, t, e, o) \in Cl
  BY ValIs DEF Run
<1>4. PICK y \in Cl : Link(th, s[1], Val(th, t, e, o), y) /\ Chain(th, y, Tail(s), g)
  <2>1. Listed(s)
    BY DEF Run, StackOK, Stack
  <2> QED BY <1>1, <1>3, <2>1, ChainPop DEF Run
<1>5. normal(y) = normal(mk_apps(Val(th, t, e, o), <<readback(th, Head(s).th)>>))
  BY <1>1, <1>4, FrameKinds DEF Link
<1>6. Chain(th, mk_apps(Val(th, t, e, o), <<readback(th, Head(s).th)>>), Tail(s), g)
  BY <1>4, <1>5, ChainSame
<1>7. /\ Val(th, t, e, Append(o, Head(s).th)) = mk_apps(Val(th, t, e, o), <<readback(th, Head(s).th)>>)
      /\ Append(o, Head(s).th) \in Seq(0..Len(th))
  BY <1>2, ValIs DEF Run
<1> QED BY <1>1, <1>2, <1>6, <1>7 DEF Run

\* What a mark is assigned is a value of it.
LEMMA Assigned ==
  ASSUME Hyp, NEW th, Written(th), NEW m, Scoped(m.h, m.env, Len(th)),
         NEW o \in Seq(0..Len(th)), NEW u \in Thunks
  PROVE  LET v == assign(m, u, o)
         IN /\ v \in Thunks /\ v.term = u.term /\ v.env = u.env /\ v.args = o
            /\ Scoped(v.vterm, v.venv, Len(th))
            /\ Val(th, v.vterm, v.venv, v.args) = Val(th, m.h, m.env, o)
<1> USE DEF Hyp
<1> DEFINE v == assign(m, u, o)
           ve == IF has_loose_bvars(m.h) THEN m.env ELSE <<>>
<1>1. Len(th) \in Nat /\ m.h \in Term /\ m.env \in Seq(0..Len(th)) /\ loose_bvar_range(m.h) \in Nat
  BY WrittenIs DEF Scoped, TermHyp, Grammar
<1>2. m.env \in Seq(Nat) /\ o \in Seq(Nat) /\ ve \in Seq(Nat)
  <2>1. \A i \in 0..Len(th) : i \in Nat
    OBVIOUS
  <2>2. m.env \in Seq(Nat) /\ o \in Seq(Nat)
    BY <1>1, <2>1
  <2> QED BY <2>2
<1>3. v.term = u.term /\ v.env = u.env /\ v.args = o /\ v.vterm = m.h /\ v.venv = ve /\ v.state \in {2, 3}
  BY DEF assign, Thunks
<1>4. v \in Thunks
  <2> DEFINE n == IF m.delta THEN 3 ELSE 2
  <2>1. v = [u EXCEPT !.vterm = m.h, !.venv = ve, !.args = o, !.state = n] /\ n \in 0..3
    BY DEF assign
  <2> HIDE DEF n, ve, v
  <2> QED BY <1>1, <1>2, <2>1 DEF Thunks
<1>5. CASE has_loose_bvars(m.h)
  BY <1>3, <1>4, <1>5
<1>6. CASE ~has_loose_bvars(m.h)
  <2>1. loose_bvar_range(m.h) = 0
    BY <1>1, <1>6 DEF has_loose_bvars
  <2>2. m.h \in Cl
    BY <1>1, <2>1 DEF Cl, Closed
  <2>3. Scoped(m.h, <<>>, Len(th))
    BY <1>1, <2>2, ClosedScoped
  <2>4. readback_closure(th, m.h, <<>>) = Inst(m.h, Reads(th, <<>>)) /\ Reads(th, <<>>) \in Seq(Cl)
    BY <2>3, ClosureRead
  <2>5. readback_closure(th, m.h, m.env) = Inst(m.h, Reads(th, m.env)) /\ Reads(th, m.env) \in Seq(Cl)
        /\ loose_bvar_range(m.h) <= Len(Reads(th, m.env))
    BY ClosureRead
  <2>6. Inst(m.h, Reads(th, <<>>)) = m.h /\ Inst(m.h, Reads(th, m.env)) = m.h
    <3>1. loose_bvar_range(m.h) <= Len(Reads(th, <<>>))
      BY <2>3, ClosureRead
    <3> QED BY <1>1, <2>1, <2>4, <2>5, <3>1 DEF TermHyp, Substitution
  <2>7. readback_closure(th, m.h, ve) = readback_closure(th, m.h, m.env)
    BY <1>6, <2>4, <2>5, <2>6
  <2> QED BY <1>3, <1>4, <1>6, <2>3, <2>7 DEF Val
<1> QED BY <1>5, <1>6

LEMMA PopUpd ==
  ASSUME Hyp, NEW th, NEW cl, NEW t, NEW e, NEW o, NEW s, NEW g, NEW X, StoreOK(th, cl, X),
         Run(th, t, e, o, s, g, X), s # <<>>, Head(s).k = "upd",
         NEW m, m.h = t, m.env = e, NEW th2, th2 = [th EXCEPT ![Head(s).th] = assign(m, @, o)]
  PROVE  StoreOK(th2, cl, X) /\ Moves(th, th2) /\ Run(th2, t, e, o, Tail(s), g, X)
<1> USE DEF Hyp
<1> DEFINE k == Head(s).th
           v == assign(m, th[k], o)
<1>0. Written(th) /\ Len(th) \in Nat
  BY StoreIs
<1>1. /\ StackOK(th, Tail(s), X) /\ FrameOK(s[1], Len(th)) /\ Head(s) = s[1]
      /\ k \in 1..Len(th) /\ th[k].state = 1 /\ k \notin X /\ k \notin Marks(Tail(s))
  <2>1. StackOK(th, s, X)
    BY DEF Run
  <2>2. /\ StackOK(th, Tail(s), X) /\ FrameOK(s[1], Len(th)) /\ Head(s) = s[1]
        /\ s[1].k = "upd" => /\ s[1].th \in 1..Len(th) /\ th[s[1].th].state = 1
                             /\ s[1].th \notin X /\ s[1].th \notin Marks(Tail(s))
    BY <2>1, StackPop
  <2> QED BY <2>2
<1>2. Val(th, t, e, o) \in Cl
  BY <1>0, ValIs DEF Run
<1>3. PICK y \in Cl : Link(th, s[1], Val(th, t, e, o), y) /\ Chain(th, y, Tail(s), g)
  <2>1. Listed(s)
    BY DEF Run, StackOK, Stack
  <2> QED BY <1>0, <1>1, <1>2, <2>1, ChainPop DEF Run
<1>4. normal(y) = normal(Val(th, t, e, o)) /\ normal(Val(th, t, e, o)) = normal(readback(th, k))
  BY <1>1, <1>3, FrameKinds DEF Link
<1>5. Chain(th, Val(th, t, e, o), Tail(s), g)
  BY <1>3, <1>4, ChainSame
<1>6. /\ v \in Thunks /\ v.term = th[k].term /\ v.env = th[k].env /\ v.args = o
      /\ Scoped(v.vterm, v.venv, Len(th)) /\ Val(th, v.vterm, v.venv, v.args) = Val(th, t, e, o)
  <2>1. th[k] \in Thunks
    BY <1>0, <1>1, WrittenIs
  <2> QED BY <1>0, <2>1, Assigned DEF Run
<1>7. th2 = Put(th, k, v)
  BY <1>0, <1>1, WrittenIs DEF Put
<1> HIDE DEF k, v
<1>8. /\ StoreOK(th2, cl, X) /\ Moves(th, th2) /\ Len(th2) = Len(th)
      /\ \A j \in 1..Len(th) : j # k => th2[j] = th[j]
  <2>1. v.state >= 2 => /\ Scoped(v.vterm, v.venv, Len(th)) /\ v.args \in Seq(0..Len(th))
                        /\ normal(Val(th, v.vterm, v.venv, v.args)) = normal(readback(th, k))
    BY <1>4, <1>6 DEF Run
  <2>2. k \in 1..Len(th) /\ k \notin X /\ th[k].state # 3 /\ v \in Thunks /\ v.term = th[k].term /\ v.env = th[k].env
    BY <1>1, <1>6
  <2>3. /\ StoreOK(Put(th, k, v), cl, X) /\ Moves(th, Put(th, k, v)) /\ Len(Put(th, k, v)) = Len(th)
        /\ \A j \in 1..Len(th) : j # k => Put(th, k, v)[j] = th[j]
    BY <2>1, <2>2, SetStore
  <2> QED BY <1>7, <2>3
<1>9. Extends(th, th2)
  BY <1>8 DEF Moves
<1>10. StackOK(th2, Tail(s), X)
  <2>1. \A j \in Marks(Tail(s)) : th2[j].state = 1
    BY <1>1, <1>8 DEF StackOK, Marked
  <2> QED BY <1>1, <1>9, <2>1, StackExtends
<1>11. Chain(th2, Val(th, t, e, o), Tail(s), g)
  BY <1>1, <1>5, <1>9, ChainExtends DEF StackOK
<1>12. Val(th2, t, e, o) = Val(th, t, e, o)
  BY <1>9, ValExtends DEF Run
<1> QED BY <1>8, <1>10, <1>11, <1>12 DEF Run

LEMMA PushArgs ==
  ASSUME Hyp, NEW th, Written(th), NEW t, NEW e, NEW a, NEW s, NEW g, NEW X, Run(th, t, e, a, s, g, X)
  PROVE  Run(th, t, e, <<>>, ArgFrames(a) \o s, g, X)
<1> USE DEF Hyp
<1>1. readback_closure(th, t, e) \in Cl
  BY ClosureRead DEF Run
<1>2. Chain(th, readback_closure(th, t, e), ArgFrames(a) \o s, g)
  BY <1>1, ChainArgs DEF Run, Val, StackOK, Stack
<1>3. <<>> \in Seq(0..Len(th))
  OBVIOUS
<1>4. Val(th, t, e, <<>>) = readback_closure(th, t, e)
  BY <1>3, ValIs DEF Run
<1>5. StackOK(th, ArgFrames(a) \o s, X)
  BY StackArgs, WrittenIs DEF Run
<1> QED BY <1>2, <1>3, <1>4, <1>5 DEF Run

\* Another head and arguments with the same meaning.
LEMMA NewHead ==
  ASSUME Hyp, NEW th, NEW t, NEW e, NEW o, NEW s, NEW g, NEW X, Run(th, t, e, o, s, g, X),
         NEW t2, NEW e2, Scoped(t2, e2, Len(th)), NEW o2 \in Seq(0..Len(th)),
         normal(Val(th, t2, e2, o2)) = normal(Val(th, t, e, o))
  PROVE  Run(th, t2, e2, o2, s, g, X)
BY ChainSame DEF Run

\* A run is not concerned by thunks that are made.
LEMMA RunGrows ==
  ASSUME Hyp, NEW th, NEW th2, Grows(th, th2), NEW t, NEW e, NEW o, NEW s, NEW g, NEW X,
         Run(th, t, e, o, s, g, X)
  PROVE  Run(th2, t, e, o, s, g, X) /\ Val(th2, t, e, o) = Val(th, t, e, o)
<1> USE DEF Hyp
<1>1. Extends(th, th2)
  BY DEF Grows
<1>2. StackOK(th2, s, X)
  <2>1. \A k \in Marks(s) : th2[k].state = 1
    BY DEF Grows, Run, StackOK, Marked
  <2> QED BY <1>1, <2>1, StackExtends DEF Run
<1>3. Val(th2, t, e, o) = Val(th, t, e, o)
  BY <1>1, ValExtends DEF Run
<1>4. Chain(th2, Val(th, t, e, o), s, g)
  BY <1>1, ChainExtends DEF Run, StackOK
<1>5. Scoped(t, e, Len(th2)) /\ o \in Seq(0..Len(th2))
  BY <1>1, ClosureExtends, ReadsExtends DEF Run
<1> QED BY <1>2, <1>3, <1>4, <1>5 DEF Run
-------------------------------------------------------------------------------
(***************************************************************************)
(* Making thunks.                                                          *)
(***************************************************************************)

\* A record of a store, with the thunks made so far.
Made_OK(S, X) ==
  /\ S = [th |-> S.th, cl |-> S.cl, ids |-> S.ids]
  /\ StoreOK(S.th, S.cl, X) /\ S.ids \in Seq(0..Len(S.th))

Fresh(t, e) == Thunk(0, t, e, Nil, <<>>, <<>>)
Add(th, t, e) == Append(th, Fresh(t, e))

LEMMA AddThunk ==
  ASSUME Hyp, NEW th, NEW cl, NEW X, StoreOK(th, cl, X), NEW t, NEW e, Scoped(t, e, Len(th))
  PROVE  LET th2 == Add(th, t, e)
         IN /\ Grows(th, th2) /\ StoreOK(th2, cl, X) /\ Len(th2) = Len(th) + 1
            /\ readback(th2, Len(th) + 1) = readback_closure(th, t, e)
<1> USE DEF Hyp
<1> DEFINE th2 == Add(th, t, e)
           u == Fresh(t, e)
<1>0. Written(th) /\ HeapOK(th) /\ Len(th) \in Nat
  BY StoreIs
<1>1. u \in Thunks /\ u.term = t /\ u.env = e /\ u.state = 0
  <2>1. \A i \in 0..Len(th) : i \in Nat
    OBVIOUS
  <2>2. e \in Seq(Nat) /\ t \in Term
    BY <2>1 DEF Scoped
  <2> QED BY <2>2 DEF Fresh, Thunk, Thunks
<1> HIDE DEF u
<1>2. /\ th2 \in Seq(Thunks) /\ Len(th2) = Len(th) + 1 /\ th2[Len(th) + 1] = u
      /\ \A k \in 1..Len(th) : th2[k] = th[k]
  BY <1>0, <1>1 DEF Written, Add, u
<1> HIDE DEF th2
<1>3. Written(th2)
  <2> SUFFICES ASSUME NEW k \in 1..Len(th2) PROVE Scoped(th2[k].term, th2[k].env, k - 1)
    BY <1>2 DEF Written
  <2>1. CASE k = Len(th) + 1
    <3>1. k - 1 = Len(th)
      BY <1>0, <2>1
    <3> QED BY <1>1, <1>2, <2>1, <3>1
  <2>2. CASE k # Len(th) + 1
    <3>1. k \in 1..Len(th)
      BY <1>0, <1>2, <2>2
    <3> QED BY <1>0, <1>2, <3>1 DEF Written
  <2> QED BY <2>1, <2>2
<1>4. Grows(th, th2)
  BY <1>0, <1>2, <1>3 DEF Grows, Extends
<1>5. Extends(th, th2)
  BY <1>4 DEF Grows
<1>6. HeapOK(th2)
  <2>1. \A k \in 1..Len(th2) : k \in 1..Len(th) \/ k = Len(th) + 1
    BY <1>0, <1>2
  <2>2. \A k \in 1..Len(th2) : th2[k].state >= 2 => k \in 1..Len(th) /\ th2[k] = th[k]
    BY <1>1, <1>2, <2>1
  <2> QED BY <1>0, <1>5, <2>2, HeapKept
<1>7. StoreOK(th2, cl, X)
  <2>1. SharedOK(th2, cl)
    BY <1>5, SharedKept DEF StoreOK
  <2>2. 1..Len(th) \subseteq 1..Len(th2)
    BY <1>0, <1>2
  <2>3. Marked(th2, X)
    BY <1>2, <2>2 DEF StoreOK, Marked
  <2> QED BY <1>6, <2>1, <2>3 DEF StoreOK
<1>8. readback(th2, Len(th) + 1) = readback_closure(th, t, e)
  <2>1. Len(th) + 1 \in 1..Len(th2)
    BY <1>0, <1>2
  <2>2. readback(th2, Len(th) + 1) = readback_closure(th2, t, e)
    BY <1>1, <1>2, <1>3, <2>1, ReadIs
  <2> QED BY <1>5, <2>2, ClosureExtends
<1> QED BY <1>2, <1>4, <1>7, <1>8 DEF th2

\* Thunk a of S2 has been made for the closure (t, e) of S.
Makes(S, S2, X, t, e, a) ==
  /\ Made_OK(S2, X) /\ Grows(S.th, S2.th) /\ a \in 0..Len(S2.th)
  /\ S2.ids = Append(S.ids, a) /\ Made(S2) = a
  /\ readback(S2.th, a) = Inst(t, Reads(S.th, e))
  /\ readback(S2.th, a) = readback_closure(S.th, t, e)

LEMMA IdsAppend ==
  ASSUME NEW n \in Nat, NEW m \in Nat, n <= m, NEW s \in Seq(0..n), NEW a \in 0..m
  PROVE  Append(s, a) \in Seq(0..m) /\ Append(s, a)[Len(Append(s, a))] = a
<1>1. s \in Seq(0..m)
  BY SeqMono
<1> QED BY <1>1

LEMMA MkThunk ==
  ASSUME Hyp, NEW S, NEW X, Made_OK(S, X), NEW t, NEW e, Scoped(t, e, Len(S.th))
  PROVE  \E a : Makes(S, mk_thunk(S, t, e), X, t, e, a)
<1> USE DEF Hyp
<1> DEFINE n == Len(S.th)
           r == Reads(S.th, e)
           shared == t.k \in {"app", "proj", "let", "const"}
<1>0. /\ Written(S.th) /\ n \in Nat /\ S.ids \in Seq(0..n) /\ StoreOK(S.th, S.cl, X)
      /\ S = [th |-> S.th, cl |-> S.cl, ids |-> S.ids]
  BY StoreIs DEF Made_OK
<1>1. /\ r \in Seq(Cl) /\ loose_bvar_range(t) <= Len(r) /\ t \in Term /\ e \in Seq(0..n) /\ loose_bvar_range(t) \in Nat
      /\ readback_closure(S.th, t, e) = Inst(t, r)
      /\ \A i \in 1..Len(e) : r[i] = readback(S.th, e[i])
  BY <1>0, ClosureRead DEF Scoped, TermHyp, Grammar
<1>2. ASSUME NEW a \in 0..n, readback(S.th, a) = Inst(t, r), mk_thunk(S, t, e) = [S EXCEPT !.ids = Append(@, a)]
      PROVE  Makes(S, mk_thunk(S, t, e), X, t, e, a)
  <2> DEFINE S2 == mk_thunk(S, t, e)
  <2>1. S2 = [th |-> S.th, cl |-> S.cl, ids |-> Append(S.ids, a)]
    BY <1>0, <1>2
  <2>2. S2.th = S.th /\ S2.cl = S.cl /\ S2.ids = Append(S.ids, a) /\ S2 = [th |-> S2.th, cl |-> S2.cl, ids |-> S2.ids]
    BY <2>1
  <2> HIDE DEF S2
  <2>3. S2.ids \in Seq(0..n) /\ Made(S2) = a
    BY <1>0, <2>2, IdsAppend DEF Made
  <2>4. Grows(S.th, S2.th)
    BY <1>0, <2>2, ExtendsTrans
  <2>5. Makes(S, S2, X, t, e, a)
    BY <1>0, <1>1, <1>2, <2>2, <2>3, <2>4 DEF Makes, Made_OK
  <2> QED BY <2>5 DEF S2
<1>3. CASE t.k = "bvar"
  <2>1. t.i \in Nat /\ loose_bvar_range(t) = t.i + 1
    BY <1>1, <1>3 DEF TermHyp, Grammar
  <2>2. t.i + 1 \in 1..Len(e) /\ Len(e) \in Nat
    BY <1>1, <2>1 DEF Scoped
  <2>3. e[t.i + 1] \in 0..n /\ r[t.i + 1] = readback(S.th, e[t.i + 1])
    BY <1>1, <2>2
  <2>4. Inst(t, r) = r[t.i + 1]
    BY <1>1, <1>3 DEF TermHyp, Substitution
  <2>5. mk_thunk(S, t, e) = [S EXCEPT !.ids = Append(@, e[t.i + 1])]
    BY <1>3 DEF mk_thunk
  <2> QED BY <1>2, <2>3, <2>4, <2>5
<1>4. CASE t.k # "bvar" /\ ~has_loose_bvars(t) /\ shared /\ t \in DOMAIN S.cl
  <2>1. S.cl[t] \in 0..n /\ readback(S.th, S.cl[t]) = t
    BY <1>0, <1>4 DEF StoreOK, SharedOK
  <2>2. loose_bvar_range(t) = 0
    BY <1>1, <1>4 DEF has_loose_bvars
  <2>3. Inst(t, r) = t
    BY <1>1, <2>2 DEF TermHyp, Substitution
  <2>4. mk_thunk(S, t, e) = [S EXCEPT !.ids = Append(@, S.cl[t])]
    BY <1>4 DEF mk_thunk
  <2> QED BY <1>2, <2>1, <2>3, <2>4
<1>5. CASE t.k # "bvar" /\ ~(~has_loose_bvars(t) /\ shared /\ t \in DOMAIN S.cl)
  <2> DEFINE S2 == mk_thunk(S, t, e)
             e2 == IF has_loose_bvars(t) THEN e ELSE <<>>
             th2 == Add(S.th, t, e2)
             cl2 == IF ~has_loose_bvars(t) /\ shared THEN emplace(S.cl, t, n + 1) ELSE S.cl
  <2>1. S2 = [th |-> th2, cl |-> cl2, ids |-> Append(S.ids, n + 1)]
    BY <1>5, Zenon DEF mk_thunk, Add, Fresh
  <2>2. Scoped(t, e2, n) /\ readback_closure(S.th, t, e2) = Inst(t, r) /\ (~has_loose_bvars(t) => t \in Cl /\ Inst(t, r) = t)
    <3>1. CASE has_loose_bvars(t)
      BY <1>1, <3>1
    <3>2. CASE ~has_loose_bvars(t)
      <4>1. loose_bvar_range(t) = 0 /\ t \in Cl
        BY <1>1, <3>2 DEF has_loose_bvars, Cl, Closed
      <4>2. Scoped(t, <<>>, n)
        BY <1>0, <4>1, ClosedScoped
      <4>3. /\ readback_closure(S.th, t, <<>>) = Inst(t, Reads(S.th, <<>>)) /\ Reads(S.th, <<>>) \in Seq(Cl)
            /\ loose_bvar_range(t) <= Len(Reads(S.th, <<>>))
        BY <1>0, <4>2, ClosureRead
      <4>4. Inst(t, Reads(S.th, <<>>)) = t /\ Inst(t, r) = t
        BY <1>1, <4>1, <4>3 DEF TermHyp, Substitution
      <4> QED BY <3>2, <4>1, <4>2, <4>3, <4>4
    <3> QED BY <3>1, <3>2
  <2> HIDE DEF e2
  <2>3. /\ Grows(S.th, th2) /\ StoreOK(th2, S.cl, X) /\ Len(th2) = n + 1
        /\ readback(th2, n + 1) = Inst(t, r)
    BY <1>0, <2>2, AddThunk
  <2> HIDE DEF th2
  <2>4. SharedOK(th2, cl2)
    <3>1. SharedOK(th2, S.cl) /\ n + 1 \in 1..Len(th2)
      BY <1>0, <2>3 DEF StoreOK
    <3>2. CASE ~has_loose_bvars(t) /\ shared
      <4>1. readback(th2, n + 1) = t /\ t \in Cl
        BY <2>2, <2>3, <3>2
      <4>2. SharedOK(th2, emplace(S.cl, t, n + 1))
        BY <3>1, <4>1, SharedMore
      <4> QED BY <3>2, <4>2
    <3>3. CASE ~(~has_loose_bvars(t) /\ shared)
      BY <3>1, <3>3
    <3> QED BY <3>2, <3>3
  <2> HIDE DEF cl2, S2
  <2>5. /\ S2.th = th2 /\ S2.cl = cl2 /\ S2.ids = Append(S.ids, n + 1)
        /\ S2 = [th |-> S2.th, cl |-> S2.cl, ids |-> S2.ids]
    BY <2>1
  <2>6. n + 1 \in 0..Len(th2) /\ n <= Len(th2) /\ Len(th2) \in Nat
    BY <1>0, <2>3
  <2>7. S2.ids \in Seq(0..Len(th2)) /\ Made(S2) = n + 1
    BY <1>0, <2>5, <2>6, IdsAppend DEF Made
  <2>8. StoreOK(th2, cl2, X)
    BY <2>3, <2>4 DEF StoreOK
  <2>9. Makes(S, S2, X, t, e, n + 1)
    BY <1>1, <2>3, <2>5, <2>6, <2>7, <2>8 DEF Makes, Made_OK
  <2> QED BY <2>9 DEF S2
<1> QED BY <1>3, <1>4, <1>5
-------------------------------------------------------------------------------
(***************************************************************************)
(* Entering a thunk.                                                       *)
(***************************************************************************)

LEMMA JoinAssoc ==
  ASSUME NEW r, Listed(r), NEW s, Listed(s), NEW t, Listed(t)
  PROVE  (r \o s) \o t = r \o (s \o t)
<1> DEFINE S == {s[i] : i \in DOMAIN s} \cup {r[i] : i \in DOMAIN r} \cup {t[i] : i \in DOMAIN t}
<1>1. s \in Seq(S) /\ r \in Seq(S) /\ t \in Seq(S)
  BY DEF Listed
<1> HIDE DEF S
<1> QED BY <1>1

\* The mark of a thunk that has just been marked.
LEMMA StackMark ==
  ASSUME Hyp, NEW th, Written(th), NEW X, NEW s, StackOK(th, s, X), NEW t \in 1..Len(th), th[t].state = 1,
         t \notin X, t \notin Marks(s), NEW g, NEW x \in Cl, normal(x) = normal(readback(th, t)),
         Chain(th, x, s, g)
  PROVE  StackOK(th, <<Upd(t)>> \o s, X) /\ Chain(th, x, <<Upd(t)>> \o s, g) /\ Listed(<<Upd(t)>> \o s)
<1>1. Listed(s)
  BY DEF StackOK, Stack
<1>2. Upd(t).k = "upd" /\ Upd(t).th = t
  BY DEF Upd
<1> DEFINE f == Upd(t)
<1> HIDE DEF f
<1>3. /\ Marks(<<f>> \o s) = Marks(s) \cup (IF f.k = "upd" THEN {f.th} ELSE {})
      /\ Distinct(<<f>> \o s) <=> Distinct(s) /\ (f.k = "upd" => f.th \notin Marks(s))
      /\ Stack(<<f>> \o s, Len(th)) <=> Stack(s, Len(th)) /\ FrameOK(f, Len(th))
  BY <1>1, MarksPush
<1>4. FrameOK(f, Len(th)) /\ f.k = "upd" /\ f.th = t
  BY <1>2 DEF f, FrameOK
<1>5. StackOK(th, <<f>> \o s, X)
  BY <1>3, <1>4 DEF StackOK, Marked
<1>6. Link(th, f, x, x)
  BY <1>4 DEF Link
<1>7. Chain(th, x, <<f>> \o s, g)
  BY <1>1, <1>6, ChainPush
<1>8. Listed(<<f>> \o s)
  BY <1>1, Pushed
<1> QED BY <1>5, <1>7, <1>8 DEF f

\* What a step of the machine does, from the thunks th on: it fails, or goes on with what
\* it reduces.
GoesOn(th, X, g) ==
  /\ StoreOK(heap', closed', X) /\ Moves(th, heap')
  /\ pc' = "error" \/ (pc' = "step" /\ Run(heap', h', env', <<>>, st', g, X))

LEMMA ReadHead ==
  ASSUME Hyp, NEW th, Written(th), NEW t, NEW e, Scoped(t, e, Len(th)), NEW s, NEW g \in Cl, NEW X,
         StackOK(th, s, X), Chain(th, readback_closure(th, t, e), s, g)
  PROVE  Run(th, t, e, <<>>, s, g, X)
<1>1. <<>> \in Seq(0..Len(th))
  OBVIOUS
<1>2. Val(th, t, e, <<>>) = readback_closure(th, t, e)
  BY <1>1, ValIs DEF Hyp
<1> QED BY <1>1, <1>2 DEF Run

LEMMA EnterEvaluates ==
  ASSUME Hyp, NEW S, NEW X, StoreOK(S.th, S.cl, X), NEW s, StackOK(S.th, s, X),
         NEW t \in 1..Len(S.th), NEW g \in Cl, Chain(S.th, readback(S.th, t), s, g),
         NEW dl, Evaluates(t, s, dl, S)
  PROVE  GoesOn(S.th, X, g)
<1> USE DEF Hyp
<1> DEFINE th == S.th
           u == th[t]
           w == [u EXCEPT !.state = 1, !.venv = <<>>, !.args = <<>>]
           key == readback(th, t)
<1>0. /\ Written(th) /\ HeapOK(th) /\ SharedOK(th, S.cl) /\ Len(th) \in Nat
      /\ u \in Thunks /\ key \in Cl /\ u.state # 1
  <2>1. Written(th) /\ HeapOK(th) /\ SharedOK(th, S.cl) /\ Len(th) \in Nat
    BY StoreIs
  <2>2. u \in Thunks /\ t \in 0..Len(th)
    BY <2>1, WrittenIs
  <2>3. u.state # 1
    BY DEF Evaluates
  <2> QED BY <2>1, <2>2, <2>3, ReadClosed
<1>1. w \in Thunks /\ w.term = u.term /\ w.env = u.env /\ w.state = 1
  <2>1. u \in Thunks
    BY <1>0
  <2>2. <<>> \in Seq(Nat) /\ 1 \in 0..3
    OBVIOUS
  <2> HIDE DEF u
  <2> QED BY <2>1, <2>2 DEF Thunks
<1>2. heap' = Put(th, t, w)
  <2>1. heap' = [S.th EXCEPT ![t] = [@ EXCEPT !.state = 1, !.venv = <<>>, !.args = <<>>]]
    BY DEF Evaluates
  <2>2. t \in DOMAIN th
    BY <1>0, WrittenIs
  <2> QED BY <2>1, <2>2 DEF Put
<1>3. t \notin X /\ t \notin Marks(s) /\ u.state # 3
  BY <1>0 DEF StoreOK, Marked, StackOK, Evaluates
<1> HIDE DEF w, u
<1>4. /\ StoreOK(heap', S.cl, X) /\ Moves(th, heap') /\ Len(heap') = Len(th)
      /\ heap'[t] = w /\ \A k \in 1..Len(th) : k # t => heap'[k] = th[k]
  <2>1. ~(w.state >= 2)
    BY <1>1
  <2>2. /\ StoreOK(Put(th, t, w), S.cl, X) /\ Moves(th, Put(th, t, w)) /\ Len(Put(th, t, w)) = Len(th)
        /\ Put(th, t, w)[t] = w /\ \A k \in 1..Len(th) : k # t => Put(th, t, w)[k] = th[k]
    BY <1>1, <1>3, <2>1, SetStore DEF u
  <2> QED BY <1>2, <2>2
<1>5. Extends(th, heap') /\ Written(heap')
  BY <1>4, StoreIs DEF Moves
<1>6. readback(heap', t) = key
  <2>1. t \in 0..Len(th)
    BY <1>0
  <2> QED BY <1>5, <2>1, ReadExtends
<1>7. StoreOK(heap', closed', X)
  <2>1. closed' = S.cl \/ closed' = emplace(S.cl, key, t)
    BY DEF Evaluates, MemoKey
  <2>2. SharedOK(heap', S.cl)
    BY <1>4 DEF StoreOK
  <2>3. SharedOK(heap', emplace(S.cl, key, t))
    BY <1>0, <1>4, <1>6, <2>2, SharedMore
  <2> QED BY <1>4, <2>1, <2>2, <2>3 DEF StoreOK
<1>8. StackOK(heap', s, X) /\ Chain(heap', key, s, g)
  <2>1. \A k \in Marks(s) : heap'[k].state = 1
    BY <1>3, <1>4 DEF StackOK, Marked
  <2>2. Chain(heap', key, s, g)
    BY <1>5, ChainExtends DEF StackOK
  <2> QED BY <1>5, <2>1, <2>2, StackExtends
<1>9. /\ StackOK(heap', <<Upd(t)>> \o s, X) /\ Listed(<<Upd(t)>> \o s)
      /\ \A x \in Cl : normal(x) = normal(key) => Chain(heap', x, <<Upd(t)>> \o s, g)
  <2>1. t \in 1..Len(heap') /\ heap'[t].state = 1
    BY <1>1, <1>4
  <2>2. ASSUME NEW x \in Cl, normal(x) = normal(key)
        PROVE  /\ StackOK(heap', <<Upd(t)>> \o s, X) /\ Listed(<<Upd(t)>> \o s)
               /\ Chain(heap', x, <<Upd(t)>> \o s, g)
    <3>1. Chain(heap', x, s, g)
      BY <1>8, <2>2, ChainSame
    <3>2. normal(x) = normal(readback(heap', t))
      BY <1>6, <2>2
    <3> QED BY <1>3, <1>5, <1>8, <2>1, <3>1, <3>2, StackMark
  <2> QED BY <1>0, <2>2
<1>10. CASE u.state = 2
  <2>1. ValueOK(th, t)
    BY <1>0, <1>10 DEF HeapOK, u
  <2>2. Resume(u.vterm, u.venv, ArgFrames(u.args) \o <<Upd(t)>> \o s)
    BY <1>10 DEF Evaluates, u
  <2>3. /\ Scoped(u.vterm, u.venv, Len(th)) /\ u.args \in Seq(0..Len(th))
        /\ normal(Val(th, u.vterm, u.venv, u.args)) = normal(key)
    BY <2>1 DEF ValueOK, u
  <2>4. /\ Scoped(u.vterm, u.venv, Len(heap')) /\ u.args \in Seq(0..Len(heap'))
        /\ Val(heap', u.vterm, u.venv, u.args) = Val(th, u.vterm, u.venv, u.args)
    BY <1>5, <2>3, ClosureExtends, ReadsExtends, ValExtends
  <2>5. Val(heap', u.vterm, u.venv, u.args) \in Cl
    BY <1>5, <2>4, ValIs
  <2>6. Run(heap', u.vterm, u.venv, u.args, <<Upd(t)>> \o s, g, X)
    <3>1. Chain(heap', Val(heap', u.vterm, u.venv, u.args), <<Upd(t)>> \o s, g)
      BY <1>9, <2>3, <2>4, <2>5
    <3> QED BY <1>9, <2>4, <3>1 DEF Run
  <2>7. Run(heap', u.vterm, u.venv, <<>>, ArgFrames(u.args) \o (<<Upd(t)>> \o s), g, X)
    BY <1>5, <2>6, PushArgs
  <2>8. (ArgFrames(u.args) \o <<Upd(t)>>) \o s = ArgFrames(u.args) \o (<<Upd(t)>> \o s)
    <3>1. Listed(ArgFrames(u.args))
      BY <1>0, <2>3, ArgFramesAre
    <3>2. Listed(s)
      BY DEF StackOK, Stack
    <3>3. Listed(<<Upd(t)>>)
      <4>1. <<Upd(t)>> \in Seq({Upd(t)})
        OBVIOUS
      <4> QED BY <4>1, SeqListed
    <3> QED BY <3>1, <3>2, <3>3, JoinAssoc
  <2> QED BY <1>4, <1>7, <2>2, <2>7, <2>8 DEF GoesOn, Resume
<1>11. CASE u.state # 2
  <2>1. Resume(u.term, u.env, <<Upd(t)>> \o s)
    BY <1>11 DEF Evaluates, u
  <2>2. key = readback_closure(th, u.term, u.env) /\ Scoped(u.term, u.env, Len(th))
    BY <1>0, ReadIs DEF u
  <2>3. key = readback_closure(heap', u.term, u.env) /\ Scoped(u.term, u.env, Len(heap'))
    BY <1>5, <2>2, ClosureExtends
  <2>4. Chain(heap', key, <<Upd(t)>> \o s, g)
    BY <1>0, <1>9
  <2>5. Run(heap', u.term, u.env, <<>>, <<Upd(t)>> \o s, g, X)
    BY <1>5, <1>9, <2>3, <2>4, ReadHead
  <2> QED BY <1>4, <1>7, <2>1, <2>5 DEF GoesOn, Resume
<1> QED BY <1>10, <1>11

LEMMA EnterShares ==
  ASSUME Hyp, NEW S, NEW X, StoreOK(S.th, S.cl, X), NEW s, StackOK(S.th, s, X),
         NEW t \in 1..Len(S.th), NEW g \in Cl, Chain(S.th, readback(S.th, t), s, g),
         NEW dl, SharesValue(t, s, dl, S)
  PROVE  GoesOn(S.th, X, g)
<1> USE DEF Hyp
<1> DEFINE th == S.th
           key == readback(th, t)
           j == S.cl[key]
           u == th[j]
           w == [th[t] EXCEPT !.state = 3, !.vterm = u.vterm, !.venv = u.venv, !.args = u.args]
<1>0. /\ Written(th) /\ HeapOK(th) /\ SharedOK(th, S.cl) /\ Len(th) \in Nat
      /\ th[t] \in Thunks /\ th[t].state = 0
  <2>1. Written(th) /\ HeapOK(th) /\ SharedOK(th, S.cl) /\ Len(th) \in Nat
    BY StoreIs
  <2>2. th[t].state = 0
    BY DEF SharesValue, Known, Memoised
  <2> QED BY <2>1, <2>2, WrittenIs
<1>1. j \in 1..Len(th) /\ j # t /\ u.state = 3 /\ readback(th, j) = key /\ u \in Thunks
  <2>1. key \in DOMAIN S.cl /\ j # t /\ u.state = 3
    BY DEF SharesValue, Known, MemoKey
  <2>2. j \in 1..Len(th) /\ readback(th, j) = key
    BY <1>0, <2>1 DEF SharedOK
  <2> QED BY <1>0, <2>1, <2>2, WrittenIs
<1>2. /\ Scoped(u.vterm, u.venv, Len(th)) /\ u.args \in Seq(0..Len(th))
      /\ normal(Val(th, u.vterm, u.venv, u.args)) = normal(key)
  <2>1. ValueOK(th, j)
    BY <1>0, <1>1 DEF HeapOK
  <2> QED BY <1>1, <2>1 DEF ValueOK
<1>3. /\ Resume(u.vterm, u.venv, ArgFrames(u.args) \o s) /\ closed' = S.cl
      /\ heap' = Put(th, t, w)
  <2>1. t \in DOMAIN th
    BY <1>0, WrittenIs
  <2> QED BY <2>1 DEF SharesValue, MemoKey, Put
<1>4. /\ w \in Thunks /\ w.term = th[t].term /\ w.env = th[t].env
      /\ w.vterm = u.vterm /\ w.venv = u.venv /\ w.args = u.args
  <2> DEFINE v == th[t]
  <2>1. v \in Thunks /\ u \in Thunks /\ 3 \in 0..3 /\ v = th[t]
    BY <1>0, <1>1
  <2>2. w = [v EXCEPT !.state = 3, !.vterm = u.vterm, !.venv = u.venv, !.args = u.args]
    OBVIOUS
  <2> HIDE DEF v, u, w
  <2> QED BY <2>1, <2>2 DEF Thunks
<1>5. t \notin X /\ t \notin Marks(s) /\ th[t].state # 3
  BY <1>0 DEF StoreOK, Marked, StackOK
<1> HIDE DEF w, u, j
<1>6. /\ StoreOK(heap', closed', X) /\ Moves(th, heap')
      /\ \A k \in 1..Len(th) : k # t => heap'[k] = th[k]
  <2>1. w.state >= 2 => /\ Scoped(w.vterm, w.venv, Len(th)) /\ w.args \in Seq(0..Len(th))
                        /\ normal(Val(th, w.vterm, w.venv, w.args)) = normal(readback(th, t))
    BY <1>2, <1>4
  <2>2. /\ StoreOK(Put(th, t, w), S.cl, X) /\ Moves(th, Put(th, t, w)) /\ Len(Put(th, t, w)) = Len(th)
        /\ \A k \in 1..Len(th) : k # t => Put(th, t, w)[k] = th[k]
    BY <1>4, <1>5, <2>1, SetStore
  <2> QED BY <1>3, <2>2
<1>7. Extends(th, heap') /\ Written(heap')
  BY <1>6, StoreIs DEF Moves
<1>8. StackOK(heap', s, X) /\ Chain(heap', key, s, g)
  <2>1. \A k \in Marks(s) : heap'[k].state = 1
    BY <1>5, <1>6 DEF StackOK, Marked
  <2>2. Chain(heap', key, s, g)
    BY <1>7, ChainExtends DEF StackOK
  <2> QED BY <1>7, <2>1, <2>2, StackExtends
<1>9. /\ Scoped(u.vterm, u.venv, Len(heap')) /\ u.args \in Seq(0..Len(heap'))
      /\ Val(heap', u.vterm, u.venv, u.args) = Val(th, u.vterm, u.venv, u.args)
  BY <1>2, <1>7, ClosureExtends, ReadsExtends, ValExtends
<1>10. Run(heap', u.vterm, u.venv, u.args, s, g, X)
  <2>1. Chain(heap', Val(heap', u.vterm, u.venv, u.args), s, g)
    BY <1>2, <1>8, <1>9, ChainSame
  <2> QED BY <1>8, <1>9, <2>1 DEF Run
<1>11. Run(heap', u.vterm, u.venv, <<>>, ArgFrames(u.args) \o s, g, X)
  BY <1>7, <1>10, PushArgs
<1> QED BY <1>3, <1>6, <1>11 DEF GoesOn, Resume

\* To enter t is to go on with what t was written as.
LEMMA Enter ==
  ASSUME Hyp, NEW S, NEW X, StoreOK(S.th, S.cl, X), NEW s, StackOK(S.th, s, X),
         NEW t \in 0..Len(S.th), NEW g \in Cl, Chain(S.th, readback(S.th, t), s, g),
         NEW dl, enter(t, s, dl, S)
  PROVE  GoesOn(S.th, X, g)
<1> USE DEF Hyp
<1> DEFINE th == S.th
           u == th[t]
<1>0. Written(th) /\ HeapOK(th) /\ Len(th) \in Nat
  BY StoreIs
<1>1. Moves(th, th)
  BY <1>0, ExtendsTrans
<1>2. CASE Breaks(t, S)
  BY <1>1, <1>2 DEF Breaks, GoesOn, Keep
<1>3. ASSUME t # unused_cell PROVE t \in 1..Len(th)
  BY <1>0, <1>3 DEF unused_cell
<1>4. CASE t # unused_cell /\ Reevaluates(t, s, dl, S)
  <2>1. t \in 1..Len(th)
    BY <1>3, <1>4
  <2>2. readback(th, t) = readback_closure(th, u.term, u.env) /\ Scoped(u.term, u.env, Len(th))
    BY <1>0, <2>1, ReadIs
  <2>3. Run(th, u.term, u.env, <<>>, s, g, X)
    BY <1>0, <2>2, ReadHead
  <2> QED BY <1>1, <1>4, <2>3 DEF Reevaluates, GoesOn, Resume, Keep
<1>5. CASE t # unused_cell /\ UsesValue(t, s, dl, S)
  <2>1. t \in 1..Len(th) /\ u.state >= 2
    BY <1>3, <1>5 DEF UsesValue, HasValue
  <2>2. ValueOK(th, t)
    BY <1>0, <2>1 DEF HeapOK
  <2>3. Chain(th, Val(th, u.vterm, u.venv, u.args), s, g)
    BY <2>2, ChainSame DEF ValueOK
  <2>4. Run(th, u.vterm, u.venv, u.args, s, g, X)
    BY <2>2, <2>3 DEF Run, ValueOK
  <2>5. Run(th, u.vterm, u.venv, <<>>, ArgFrames(u.args) \o s, g, X)
    BY <1>0, <2>4, PushArgs
  <2> QED BY <1>1, <1>5, <2>5 DEF UsesValue, GoesOn, Resume, Keep
<1>6. CASE t # unused_cell /\ SharesValue(t, s, dl, S)
  BY <1>3, <1>6, EnterShares
<1>7. CASE t # unused_cell /\ Evaluates(t, s, dl, S)
  BY <1>3, <1>7, EnterEvaluates
<1> QED BY <1>2, <1>4, <1>5, <1>6, <1>7 DEF enter
-------------------------------------------------------------------------------
(***************************************************************************)
(* Taking arguments.                                                       *)
(***************************************************************************)

\* Some of n arguments have been taken, and the others are there; all have been taken.
Takeable(R, m, n, cl, g, X) ==
  /\ StoreOK(R.th, cl, X) /\ Run(R.th, m.h, m.env, R.args, R.rest, g, X)
  /\ n - Len(R.args) \in Nat /\ can_take(n - Len(R.args), R.rest)
TakenFrom(R, T, m, n, cl, g, X) ==
  /\ StoreOK(T.th, cl, X) /\ Run(T.th, m.h, m.env, T.args, T.rest, g, X)
  /\ Moves(R.th, T.th) /\ Len(T.args) = n

LEMMA NextTaken ==
  ASSUME Hyp, NEW R, NEW m, NEW n \in Nat, NEW cl, NEW g, NEW X, Takeable(R, m, n, cl, g, X), Len(R.args) # n
  PROVE  LET Q == NextFrame(m, R)
         IN /\ Takeable(Q, m, n, cl, g, X) /\ Moves(R.th, Q.th)
            /\ R.rest # <<>> /\ Q.rest = Tail(R.rest)
<1> USE DEF Hyp
<1> DEFINE Q == NextFrame(m, R)
           s == R.rest
           f == Head(s)
           j == n - Len(R.args)
<1>0. /\ Written(R.th) /\ StoreOK(R.th, cl, X) /\ Listed(s) /\ j \in Nat /\ can_take(j, s) /\ j # 0
      /\ R.args \in Seq(0..Len(R.th)) /\ Len(R.args) \in Nat /\ Run(R.th, m.h, m.env, R.args, s, g, X)
  <2>1. /\ StoreOK(R.th, cl, X) /\ Run(R.th, m.h, m.env, R.args, s, g, X) /\ j \in Nat /\ can_take(j, s)
    BY DEF Takeable
  <2>2. R.args \in Seq(0..Len(R.th)) /\ Listed(s)
    BY <2>1 DEF Run, StackOK, Stack
  <2>3. Len(R.args) \in Nat
    BY <2>2
  <2> QED BY <2>1, <2>2, <2>3, StoreIs
<1>1. /\ s # <<>> /\ f.k \in {"arg", "upd"} /\ can_take(IF f.k = "arg" THEN j - 1 ELSE j, Tail(s))
  <2>1. CanTake(j, s)
    BY <1>0 DEF Recursion
  <2> QED BY <1>0, <2>1 DEF CanTake
<1>2. Q.rest = Tail(s)
  BY DEF NextFrame
<1>3. CASE f.k = "arg"
  <2>1. Q.args = Append(R.args, f.th) /\ Q.th = R.th
    BY <1>3 DEF NextFrame
  <2>2. Run(R.th, m.h, m.env, Append(R.args, f.th), Tail(s), g, X) /\ f.th \in 0..Len(R.th)
    BY <1>0, <1>1, <1>3, PopArg
  <2>3. Len(Append(R.args, f.th)) = Len(R.args) + 1
    BY <1>0, <2>2
  <2> HIDE DEF Q
  <2>4. Len(Q.args) = Len(R.args) + 1
    BY <2>1, <2>3
  <2>5. n - Len(Q.args) = j - 1 /\ j - 1 \in Nat
    <3> DEFINE L == Len(R.args)
    <3>1. L \in Nat /\ n - L \in Nat /\ n - L # 0 /\ Len(Q.args) = L + 1
      BY <1>0, <2>4
    <3> HIDE DEF L
    <3>2. n - (L + 1) = (n - L) - 1 /\ (n - L) - 1 \in Nat
      BY <3>1
    <3> QED BY <3>1, <3>2 DEF L
  <2>6. can_take(n - Len(Q.args), Q.rest)
    BY <1>1, <1>2, <1>3, <2>5
  <2>7. Moves(R.th, Q.th)
    BY <1>0, <2>1, ExtendsTrans
  <2>8. n - Len(Q.args) \in Nat
    BY <2>5
  <2>9. StoreOK(Q.th, cl, X) /\ Run(Q.th, m.h, m.env, Q.args, Q.rest, g, X)
    BY <1>0, <1>2, <2>1, <2>2
  <2> HIDE DEF j, s, f
  <2>10. Takeable(Q, m, n, cl, g, X)
    BY <2>6, <2>8, <2>9 DEF Takeable
  <2>11. s # <<>> /\ Q.rest = Tail(s)
    BY <1>1, <1>2
  <2> QED BY <2>7, <2>10, <2>11 DEF Q, s
<1>4. CASE f.k # "arg"
  <2>1. Q.args = R.args /\ Q.th = [R.th EXCEPT ![f.th] = assign(m, @, R.args)]
    BY <1>4 DEF NextFrame
  <2>2. f.k = "upd"
    BY <1>1, <1>4
  <2>3. StoreOK(Q.th, cl, X) /\ Moves(R.th, Q.th) /\ Run(Q.th, m.h, m.env, R.args, Tail(s), g, X)
    <3> DEFINE th2 == [R.th EXCEPT ![f.th] = assign(m, @, R.args)]
    <3>1. StoreOK(th2, cl, X) /\ Moves(R.th, th2) /\ Run(th2, m.h, m.env, R.args, Tail(s), g, X)
      BY <1>0, <1>1, <2>2, PopUpd
    <3> QED BY <2>1, <3>1
  <2> HIDE DEF Q
  <2>4. can_take(j, Q.rest) /\ n - Len(Q.args) = j
    BY <1>1, <1>2, <1>4, <2>1
  <2>5. Takeable(Q, m, n, cl, g, X)
    BY <1>0, <1>2, <2>1, <2>3, <2>4 DEF Takeable
  <2>6. s # <<>> /\ Q.rest = Tail(s)
    BY <1>1, <1>2
  <2> HIDE DEF s, f
  <2> QED BY <2>3, <2>5, <2>6 DEF Q, s
<1> QED BY <1>3, <1>4

LEMMA TakesArgs ==
  ASSUME Hyp, NEW m, NEW n \in Nat, NEW cl, NEW g, NEW X, NEW R0, Takeable(R0, m, n, cl, g, X)
  PROVE  TakenFrom(R0, take_args(m, n, R0), m, n, cl, g, X)
<1> USE DEF Hyp
<1> DEFINE K == {k \in Nat : \A R : Takeable(R, m, n, cl, g, X) /\ Len(R.rest) = k
                                     => TakenFrom(R, take_args(m, n, R), m, n, cl, g, X)}
<1>1. ASSUME NEW R, Takeable(R, m, n, cl, g, X)
      PROVE  /\ Listed(R.rest) /\ Len(R.rest) \in Nat
             /\ take_args(m, n, R) = IF Len(R.args) = n THEN R ELSE take_args(m, n, NextFrame(m, R))
             /\ Len(R.args) = n => TakenFrom(R, take_args(m, n, R), m, n, cl, g, X)
  <2>1. Listed(R.rest) /\ Written(R.th)
    BY <1>1, StoreIs DEF Takeable, Run, StackOK, Stack
  <2>2. take_args(m, n, R) = IF Len(R.args) = n THEN R ELSE take_args(m, n, NextFrame(m, R))
    BY DEF Recursion, TakeArgs
  <2>3. Moves(R.th, R.th)
    BY <2>1, ExtendsTrans
  <2> QED BY <1>1, <2>1, <2>2, <2>3, ListedIs DEF Takeable, TakenFrom
<1>2. ASSUME NEW R, Takeable(R, m, n, cl, g, X), Len(R.args) # n
      PROVE  /\ Len(R.rest) # 0 /\ Takeable(NextFrame(m, R), m, n, cl, g, X)
             /\ Len(NextFrame(m, R).rest) = Len(R.rest) - 1 /\ Moves(R.th, NextFrame(m, R).th)
  <2>1. /\ Takeable(NextFrame(m, R), m, n, cl, g, X) /\ Moves(R.th, NextFrame(m, R).th)
        /\ R.rest # <<>> /\ NextFrame(m, R).rest = Tail(R.rest)
    BY <1>2, NextTaken
  <2>2. Listed(R.rest)
    BY <1>1, <1>2
  <2>3. Len(Tail(R.rest)) = Len(R.rest) - 1 /\ Len(R.rest) >= 1
    BY <2>1, <2>2, Popped
  <2> QED BY <2>1, <2>3
<1>3. 0 \in K
  BY <1>1, <1>2
<1>4. ASSUME NEW k \in K PROVE k + 1 \in K
  <2> SUFFICES ASSUME NEW R, Takeable(R, m, n, cl, g, X), Len(R.rest) = k + 1
               PROVE  TakenFrom(R, take_args(m, n, R), m, n, cl, g, X)
    OBVIOUS
  <2>1. CASE Len(R.args) = n
    BY <1>1, <2>1
  <2>2. CASE Len(R.args) # n
    <3> DEFINE Q == NextFrame(m, R)
    <3>1. Takeable(Q, m, n, cl, g, X) /\ Len(Q.rest) = k /\ Moves(R.th, Q.th)
      BY <1>2, <2>2
    <3>2. TakenFrom(Q, take_args(m, n, Q), m, n, cl, g, X)
      BY <3>1
    <3>3. take_args(m, n, R) = take_args(m, n, Q)
      BY <1>1, <2>2
    <3> HIDE DEF Q
    <3> QED BY <3>1, <3>2, <3>3, ExtendsTrans DEF TakenFrom
  <2> QED BY <2>1, <2>2
<1> HIDE DEF K
<1>5. K \in SUBSET Nat
  BY DEF K
<1>6. K = Nat
  BY <1>3, <1>4, <1>5, Induction
<1> QED BY <1>1, <1>6 DEF K

LEMMA TakenOK ==
  ASSUME Hyp, NEW X, NEW g, StoreOK(heap, closed, X), Run(heap, h, env, <<>>, st, g, X),
         NEW n \in Nat, can_take(n, st)
  PROVE  LET T == Taken(n)
         IN /\ StoreOK(T.th, closed, X) /\ Moves(heap, T.th) /\ Run(T.th, h, env, T.args, T.rest, g, X)
            /\ T.args \in Seq(0..Len(T.th)) /\ Len(T.args) = n
            /\ Made_OK(Store(T.th), X)
<1> DEFINE R == [args |-> <<>>, rest |-> st, th |-> heap]
           T == Taken(n)
<1>1. Running.h = h /\ Running.env = env
  BY DEF Running
<1>2. Takeable(R, Running, n, closed, g, X)
  <2>1. Len(<<>>) = 0 /\ n - 0 = n
    OBVIOUS
  <2> QED BY <1>1, <2>1 DEF Takeable
<1>3. TakenFrom(R, T, Running, n, closed, g, X)
  BY <1>2, TakesArgs DEF Taken
<1> HIDE DEF T
<1>4. /\ StoreOK(T.th, closed, X) /\ Moves(heap, T.th) /\ Run(T.th, h, env, T.args, T.rest, g, X)
      /\ Len(T.args) = n
  BY <1>1, <1>3 DEF TakenFrom
<1>5. Made_OK(Store(T.th), X)
  BY <1>4 DEF Made_OK, Store
<1> QED BY <1>4, <1>5 DEF Run, T

\* One thunk for each of the first n terms ts, under e.
MakesAll(S, S2, X, ts, n, e) ==
  /\ Made_OK(S2, X) /\ Grows(S.th, S2.th) /\ Len(S2.ids) = n
  /\ \A i \in 1..n : readback(S2.th, S2.ids[i]) = Inst(ts[i], Reads(S.th, e))

LEMMA MakesMore ==
  ASSUME Hyp, NEW S, NEW X, NEW ts, NEW k \in Nat, NEW e \in Seq(0..Len(S.th)), Written(S.th),
         NEW Q, MakesAll(S, Q, X, ts, k, e), Scoped(ts[k + 1], e, Len(S.th))
  PROVE  MakesAll(S, mk_thunk(Q, ts[k + 1], e), X, ts, k + 1, e)
<1> USE DEF Hyp
<1>0. Made_OK(Q, X) /\ Grows(S.th, Q.th) /\ Extends(S.th, Q.th) /\ Len(Q.ids) = k /\ Q.ids \in Seq(0..Len(Q.th))
  BY DEF MakesAll, Grows, Made_OK
<1>1. Scoped(ts[k + 1], e, Len(Q.th)) /\ Reads(Q.th, e) = Reads(S.th, e)
  BY <1>0, ClosureExtends, ReadsExtends
<1> DEFINE P == mk_thunk(Q, ts[k + 1], e)
<1>2. PICK a : Makes(Q, P, X, ts[k + 1], e, a)
  BY <1>0, <1>1, MkThunk
<1> HIDE DEF P
<1>3. /\ Made_OK(P, X) /\ Grows(Q.th, P.th) /\ P.ids = Append(Q.ids, a) /\ Extends(Q.th, P.th)
      /\ readback(P.th, a) = Inst(ts[k + 1], Reads(S.th, e))
  BY <1>1, <1>2 DEF Makes, Grows
<1>4. Grows(S.th, P.th)
  BY <1>0, <1>3, ExtendsTrans
<1>5. /\ Len(P.ids) = k + 1 /\ P.ids[k + 1] = a
      /\ \A i \in 1..k : P.ids[i] = Q.ids[i] /\ Q.ids[i] \in 0..Len(Q.th)
  BY <1>0, <1>3
<1>6. ASSUME NEW i \in 1..(k + 1) PROVE readback(P.th, P.ids[i]) = Inst(ts[i], Reads(S.th, e))
  <2>1. CASE i = k + 1
    BY <1>3, <1>5, <2>1
  <2>2. CASE i # k + 1
    <3>1. i \in 1..k
      BY <2>2
    <3>2. readback(Q.th, Q.ids[i]) = Inst(ts[i], Reads(S.th, e))
      BY <3>1 DEF MakesAll
    <3>3. readback(P.th, Q.ids[i]) = readback(Q.th, Q.ids[i])
      BY <1>3, <1>5, <3>1, ReadExtends
    <3> QED BY <1>5, <3>1, <3>2, <3>3
  <2> QED BY <2>1, <2>2
<1>7. MakesAll(S, P, X, ts, k + 1, e)
  BY <1>3, <1>4, <1>5, <1>6 DEF MakesAll
<1> QED BY <1>7 DEF P

LEMMA MkThunksOK ==
  ASSUME Hyp, NEW S, NEW X, Made_OK(S, X), S.ids = <<>>, NEW e \in Seq(0..Len(S.th)),
         NEW n \in Nat, NEW ts, \A i \in 1..n : Scoped(ts[i], e, Len(S.th))
  PROVE  MakesAll(S, mk_thunks(S, ts, n, e), X, ts, n, e)
<1> USE DEF Hyp
<1> DEFINE K == {k \in Nat : k <= n => MakesAll(S, mk_thunks(S, ts, k, e), X, ts, k, e)}
<1>0. Written(S.th) /\ Grows(S.th, S.th)
  BY StoreIs, ExtendsTrans DEF Made_OK
<1>1. 0 \in K
  <2>1. mk_thunks(S, ts, 0, e) = S
    BY DEF Recursion, MkThunks
  <2>2. Len(S.ids) = 0 /\ 1..0 = {}
    OBVIOUS
  <2>3. MakesAll(S, S, X, ts, 0, e)
    BY <1>0, <2>2 DEF MakesAll
  <2> QED BY <2>1, <2>3
<1>2. ASSUME NEW k \in K PROVE k + 1 \in K
  <2> SUFFICES ASSUME k + 1 <= n PROVE MakesAll(S, mk_thunks(S, ts, k + 1, e), X, ts, k + 1, e)
    OBVIOUS
  <2>1. mk_thunks(S, ts, k + 1, e) = mk_thunk(mk_thunks(S, ts, k, e), ts[k + 1], e)
    <3>1. k + 1 \in Nat /\ k + 1 # 0 /\ (k + 1) - 1 = k
      OBVIOUS
    <3>2. mk_thunks(S, ts, k + 1, e) = MkThunks(S, ts, k + 1, e)
      BY <3>1 DEF Recursion
    <3> QED BY <3>1, <3>2 DEF MkThunks
  <2>2. k \in Nat /\ Scoped(ts[k + 1], e, Len(S.th)) /\ MakesAll(S, mk_thunks(S, ts, k, e), X, ts, k, e)
    OBVIOUS
  <2> QED BY <1>0, <2>1, <2>2, MakesMore
<1> HIDE DEF K
<1>3. K \in SUBSET Nat
  BY DEF K
<1>4. K = Nat
  BY <1>1, <1>2, <1>3, Induction
<1> QED BY <1>4 DEF K
-------------------------------------------------------------------------------
(***************************************************************************)
(* Steps on terms.                                                         *)
(***************************************************************************)

\* What a step that unwinds nothing does.
Proceeds(X, g) ==
  /\ StoreOK(heap', closed', X) /\ Moves(heap, heap')
  /\ \/ pc' = "error"
     \/ /\ pc' \in {"step", "unwind", "unfold"} /\ Run(heap', h', env', <<>>, st', g, X)
        /\ pc' = "unfold" => IsConst(h') /\ h'.c \in Defs

LEMMA EnterProceeds ==
  ASSUME NEW th, NEW X, NEW g, Moves(heap, th), GoesOn(th, X, g)
  PROVE  Proceeds(X, g)
BY ExtendsTrans DEF GoesOn, Proceeds

\* A store as it is, and a new head with the same meaning.
LEMMA StaysProceeds ==
  ASSUME NEW X, NEW g, StoreOK(heap, closed, X), UNCHANGED store, pc' \in {"step", "unwind"},
         Run(heap, h', env', <<>>, st', g, X)
  PROVE  Proceeds(X, g)
<1>1. Moves(heap, heap)
  BY StoreIs, ExtendsTrans
<1> QED BY <1>1 DEF Proceeds, store

\* What holds of a run that stands at a term.
Stands(X) == StoreOK(heap, closed, X) /\ Run(heap, h, env, <<>>, st, of, X)

LEMMA StandsIs ==
  ASSUME Hyp, NEW X, Stands(X)
  PROVE  /\ StoreOK(heap, closed, X) /\ Run(heap, h, env, <<>>, st, of, X) /\ Written(heap) /\ of \in Cl
         /\ Scoped(h, env, Len(heap)) /\ StackOK(heap, st, X) /\ Listed(st) /\ h \in Term
         /\ Reads(heap, env) \in Seq(Cl) /\ loose_bvar_range(h) <= Len(Reads(heap, env))
         /\ readback_closure(heap, h, env) = Inst(h, Reads(heap, env))
         /\ readback_closure(heap, h, env) \in Cl
         /\ Chain(heap, readback_closure(heap, h, env), st, of)
<1> USE DEF Hyp
<1>1. StoreOK(heap, closed, X) /\ Run(heap, h, env, <<>>, st, of, X) /\ Written(heap)
  BY StoreIs DEF Stands
<1>2. /\ of \in Cl /\ Scoped(h, env, Len(heap)) /\ StackOK(heap, st, X) /\ Listed(st) /\ h \in Term
      /\ Chain(heap, Val(heap, h, env, <<>>), st, of)
  BY <1>1 DEF Run, StackOK, Stack, Scoped
<1>3. /\ Reads(heap, env) \in Seq(Cl) /\ loose_bvar_range(h) <= Len(Reads(heap, env))
      /\ readback_closure(heap, h, env) = Inst(h, Reads(heap, env))
      /\ readback_closure(heap, h, env) \in Cl
  BY <1>1, <1>2, ClosureRead
<1>4. <<>> \in Seq(0..Len(heap))
  OBVIOUS
<1>5. Val(heap, h, env, <<>>) = readback_closure(heap, h, env)
  BY <1>1, <1>2, <1>4, ValIs
<1> QED BY <1>1, <1>2, <1>3, <1>5

LEMMA StoreMade ==
  ASSUME NEW X, StoreOK(heap, closed, X)
  PROVE  /\ Made_OK(Store(heap), X) /\ Store(heap).th = heap /\ Store(heap).cl = closed
         /\ Store(heap).ids = <<>> /\ Moves(heap, heap)
<1>1. Moves(heap, heap)
  BY StoreIs, ExtendsTrans
<1> QED BY <1>1 DEF Made_OK, Store

LEMMA BVarOK ==
  ASSUME Hyp, NEW X, Stands(X), BVarStep
  PROVE  Proceeds(X, of)
<1> USE DEF Hyp
<1>1. h.k = "bvar" /\ enter(env[h.i + 1], st, delta, Store(heap))
  BY DEF BVarStep, At
<1>2. h.i \in Nat /\ loose_bvar_range(h) = h.i + 1
  BY <1>1, StandsIs DEF TermHyp, Grammar
<1>3. h.i + 1 \in 1..Len(env) /\ env[h.i + 1] \in 0..Len(heap)
  <2>1. env \in Seq(0..Len(heap)) /\ h.i + 1 <= Len(env)
    BY <1>2, StandsIs DEF Scoped
  <2> QED BY <1>2, <2>1
<1>4. readback_closure(heap, h, env) = readback(heap, env[h.i + 1])
  <2>1. Inst(h, Reads(heap, env)) = Reads(heap, env)[h.i + 1]
    BY <1>1, StandsIs DEF TermHyp, Substitution
  <2> QED BY <1>3, <2>1, StandsIs DEF Reads
<1>5. GoesOn(heap, X, of)
  <2> DEFINE S == Store(heap)
  <2>1. S.th = heap /\ S.cl = closed /\ Moves(heap, heap)
    BY StandsIs, StoreMade
  <2> HIDE DEF S
  <2>2. enter(env[h.i + 1], st, delta, S)
    BY <1>1 DEF S
  <2> QED BY <1>3, <1>4, <2>1, <2>2, StandsIs, Enter
<1>6. Moves(heap, heap)
  BY StandsIs, StoreMade
<1> QED BY <1>5, <1>6, EnterProceeds

LEMMA ReadsJoin ==
  ASSUME TermHyp, Recursion, NEW th, Written(th), NEW r \in Seq(0..Len(th)), NEW s \in Seq(0..Len(th))
  PROVE  Reads(th, r \o s) = Reads(th, r) \o Reads(th, s) /\ r \o s \in Seq(0..Len(th)) /\ Len(r \o s) = Len(r) + Len(s)
<1> DEFINE t == r \o s
           q == Reads(th, r) \o Reads(th, s)
<1>1. t \in Seq(0..Len(th)) /\ Len(t) = Len(r) + Len(s) /\ Len(r) \in Nat /\ Len(s) \in Nat
  OBVIOUS
<1>2. Joins(t, r, s)
  BY SeqListed, Joined
<1>3. /\ Listed(Reads(th, r)) /\ Len(Reads(th, r)) = Len(r) /\ \A i \in 1..Len(r) : Reads(th, r)[i] = readback(th, r[i])
      /\ Listed(Reads(th, s)) /\ Len(Reads(th, s)) = Len(s) /\ \A i \in 1..Len(s) : Reads(th, s)[i] = readback(th, s[i])
  BY ArgsRead, SeqListed
<1>4. Joins(q, Reads(th, r), Reads(th, s))
  BY <1>3, Joined
<1>5. Listed(Reads(th, t)) /\ Len(Reads(th, t)) = Len(t) /\ \A i \in 1..Len(t) : Reads(th, t)[i] = readback(th, t[i])
  <2> HIDE DEF t
  <2> QED BY <1>1, ArgsRead, SeqListed
<1> HIDE DEF t, q
<1>6. Listed(q) /\ Len(q) = Len(t)
  BY <1>1, <1>3, <1>4 DEF Joins
<1>7. ASSUME NEW i \in 1..Len(t) PROVE Reads(th, t)[i] = q[i]
  <2>1. CASE i <= Len(r)
    <3>1. i \in 1..Len(r)
      BY <1>1, <2>1
    <3>2. t[i] = r[i]
      BY <1>2, <3>1 DEF Joins
    <3>3. q[i] = Reads(th, r)[i]
      BY <1>3, <1>4, <3>1 DEF Joins
    <3> QED BY <1>3, <1>5, <3>1, <3>2, <3>3
  <2>2. CASE ~(i <= Len(r))
    <3>1. i - Len(r) \in 1..Len(s)
      BY <1>1, <2>2
    <3>2. t[i] = s[i - Len(r)]
      BY <1>2, <2>2 DEF Joins
    <3>3. q[i] = Reads(th, s)[i - Len(r)]
      BY <1>3, <1>4, <1>6, <2>2 DEF Joins
    <3> QED BY <1>3, <1>5, <3>1, <3>2, <3>3
  <2> QED BY <2>1, <2>2
<1>8. Reads(th, t) = q
  BY <1>5, <1>6, <1>7, SameSeq
<1> QED BY <1>1, <1>8 DEF t, q

LEMMA ReadsReverse ==
  ASSUME TermHyp, Recursion, NEW th, Written(th), NEW s \in Seq(0..Len(th))
  PROVE  /\ Reads(th, Reverse(s)) = Reverse(Reads(th, s)) /\ Reverse(s) \in Seq(0..Len(th))
         /\ Len(Reverse(s)) = Len(s)
<1> DEFINE t == Reverse(s)
           q == Reverse(Reads(th, s))
<1>1. /\ t \in Seq(0..Len(th)) /\ Len(t) = Len(s) /\ Len(s) \in Nat
      /\ \A i \in 1..Len(s) : t[i] = s[Len(s) - i + 1]
  BY Reversed
<1>2. Reads(th, s) \in Seq(Cl) /\ Len(Reads(th, s)) = Len(s) /\ \A i \in 1..Len(s) : Reads(th, s)[i] = readback(th, s[i])
  BY ArgsRead
<1>3. q \in Seq(Cl) /\ Len(q) = Len(s) /\ \A i \in 1..Len(s) : q[i] = Reads(th, s)[Len(s) - i + 1]
  BY <1>2, Reversed
<1> HIDE DEF t, q
<1>4. Reads(th, t) \in Seq(Cl) /\ Len(Reads(th, t)) = Len(s) /\ \A i \in 1..Len(s) : Reads(th, t)[i] = readback(th, t[i])
  BY <1>1, ArgsRead
<1>5. ASSUME NEW i \in 1..Len(s) PROVE Reads(th, t)[i] = q[i]
  <2>1. Len(s) - i + 1 \in 1..Len(s)
    BY <1>1
  <2> QED BY <1>1, <1>2, <1>3, <1>4, <2>1
<1>6. Reads(th, t) = q
  BY <1>3, <1>4, <1>5, SameSeq, SeqListed
<1> QED BY <1>1, <1>6 DEF t, q

LEMMA OneArg ==
  ASSUME NEW th, NEW n \in Nat, NEW a \in 0..n
  PROVE  <<a>> \in Seq(0..n) /\ Len(<<a>>) = 1 /\ Reads(th, <<a>>) = <<readback(th, a)>>
<1>1. <<a>> \in Seq(0..n) /\ Len(<<a>>) = 1
  OBVIOUS
<1>2. Reads(th, <<a>>) = [i \in 1..1 |-> readback(th, <<a>>[i])]
  BY <1>1 DEF Reads
<1>3. \A i \in 1..1 : <<a>>[i] = a
  OBVIOUS
<1>4. [i \in 1..1 |-> readback(th, <<a>>[i])] = <<readback(th, a)>>
  BY <1>3
<1> QED BY <1>1, <1>2, <1>4

\* One more thunk in an environment.
LEMMA ReadsPush ==
  ASSUME TermHyp, Recursion, NEW th, Written(th), NEW a \in 0..Len(th), NEW e \in Seq(0..Len(th))
  PROVE  /\ Reads(th, <<a>> \o e) = <<readback(th, a)>> \o Reads(th, e)
         /\ <<a>> \o e \in Seq(0..Len(th)) /\ Len(<<a>> \o e) = Len(e) + 1
<1>1. <<a>> \in Seq(0..Len(th)) /\ Len(<<a>>) = 1 /\ Reads(th, <<a>>) = <<readback(th, a)>>
  BY OneArg, WrittenIs
<1>2. Len(e) \in Nat
  OBVIOUS
<1> DEFINE r == <<a>>
<1>3. r \in Seq(0..Len(th)) /\ Len(r) = 1 /\ Reads(th, r) = <<readback(th, a)>>
  BY <1>1
<1> HIDE DEF r
<1>4. Reads(th, r \o e) = Reads(th, r) \o Reads(th, e) /\ r \o e \in Seq(0..Len(th)) /\ Len(r \o e) = Len(r) + Len(e)
  BY <1>3, ReadsJoin
<1>5. Len(r \o e) = Len(e) + 1
  BY <1>2, <1>3, <1>4
<1>6. Reads(th, r \o e) = <<readback(th, a)>> \o Reads(th, e)
  BY <1>3, <1>4
<1> QED BY <1>4, <1>5, <1>6 DEF r

LEMMA TermIsNotNil ==
  ASSUME TermHyp, NEW t \in Term
  PROVE  t # Nil /\ Nil.k = "nil"
BY DEF TermHyp, Grammar, Nil

\* The body of one binder.
LEMMA StripOne ==
  ASSUME TermHyp, NEW t \in Term, t.k = "lam"
  PROVE  strip(t, 1) = t.b /\ t.b \in Term /\ t.b # Nil /\ loose_bvar_range(t.b) <= loose_bvar_range(t) + 1
<1>1. t.b \in Term /\ loose_bvar_range(t.b) <= loose_bvar_range(t) + 1
  BY DEF TermHyp, Grammar
<1>2. strip(t, 1) = Strip(t, 1) /\ strip(t.b, 0) = Strip(t.b, 0)
  BY <1>1 DEF TermHyp, Binders
<1>3. Strip(t, 1) = strip(t.b, 0) /\ Strip(t.b, 0) = t.b
  BY DEF Strip
<1> QED BY <1>1, <1>2, <1>3, TermIsNotNil

LEMMA ReverseOne ==
  ASSUME NEW x
  PROVE  Reverse(<<x>>) = <<x>>
<1>1. <<x>> \in Seq({x})
  OBVIOUS
<1>2. Reverse(<<x>>) \in Seq({x}) /\ Len(Reverse(<<x>>)) = Len(<<x>>)
  BY <1>1, Reversed
<1>3. Len(<<x>>) = 1
  OBVIOUS
<1>4. Reverse(<<x>>)[1] = x
  BY <1>2, <1>3
<1> QED BY <1>2, <1>3, <1>4

\* A function on the stack's first argument.
LEMMA BetaOK ==
  ASSUME Hyp, NEW th, Written(th), NEW t, NEW e, NEW s, NEW g, NEW X, Run(th, t, e, <<>>, s, g, X),
         t.k = "lam", s # <<>>, Head(s).k = "arg"
  PROVE  Run(th, t.b, <<Head(s).th>> \o e, <<>>, Tail(s), g, X)
<1> USE DEF Hyp
<1> DEFINE a == Head(s).th
           r == Reads(th, e)
           x == readback(th, a)
<1>0. Scoped(t, e, Len(th)) /\ g \in Cl /\ t \in Term /\ e \in Seq(0..Len(th)) /\ Len(th) \in Nat
  BY WrittenIs DEF Run, Scoped
<1>1. a \in 0..Len(th) /\ Chain(th, mk_apps(Val(th, t, e, <<>>), <<x>>), Tail(s), g) /\ StackOK(th, Tail(s), X)
  BY PopArg, StackPop DEF Run
<1>2. /\ r \in Seq(Cl) /\ Len(r) = Len(e) /\ loose_bvar_range(t) <= Len(r)
      /\ readback_closure(th, t, e) = Inst(t, r)
  BY <1>0, ClosureRead
<1>3. Val(th, t, e, <<>>) = readback_closure(th, t, e)
  <2>1. <<>> \in Seq(0..Len(th))
    OBVIOUS
  <2> QED BY <1>0, <2>1, ValIs
<1>4. x \in Cl /\ <<x>> \in Seq(Cl) /\ Len(<<x>>) = 1
  <2>1. x \in Cl
    BY <1>1, ReadClosed
  <2> QED BY <2>1
<1>5. strip(t, 1) = t.b /\ t.b \in Term /\ t.b # Nil /\ loose_bvar_range(t.b) <= loose_bvar_range(t) + 1
  BY <1>0, StripOne
<1> HIDE DEF x, a, r
<1>6. normal(mk_apps(Inst(t, r), <<x>>)) = normal(Inst(t.b, <<x>> \o r))
  <2>1. strip(t, Len(<<x>>)) # Nil
    BY <1>4, <1>5
  <2>2. normal(mk_apps(Inst(t, r), <<x>>)) = normal(Inst(strip(t, Len(<<x>>)), Reverse(<<x>>) \o r))
    BY <1>0, <1>2, <1>4, <2>1 DEF ReductionHyp, BetaLaw
  <2> QED BY <1>4, <1>5, <2>2, ReverseOne
<1>7. Reads(th, <<a>> \o e) = <<x>> \o r /\ <<a>> \o e \in Seq(0..Len(th)) /\ Len(<<a>> \o e) = Len(e) + 1
  BY <1>0, <1>1, ReadsPush DEF x, r
<1>8. Scoped(t.b, <<a>> \o e, Len(th))
  <2>1. loose_bvar_range(t) \in Nat /\ loose_bvar_range(t.b) \in Nat /\ Len(e) \in Nat
    BY <1>0, <1>5 DEF TermHyp, Grammar
  <2>2. loose_bvar_range(t.b) <= Len(e) + 1
    BY <1>2, <1>5, <2>1
  <2> QED BY <1>5, <1>7, <2>2 DEF Scoped
<1>9. readback_closure(th, t.b, <<a>> \o e) = Inst(t.b, <<x>> \o r)
  <2> DEFINE e2 == <<a>> \o e
             r2 == <<x>> \o r
  <2>1. Reads(th, e2) = r2 /\ Scoped(t.b, e2, Len(th))
    BY <1>7, <1>8
  <2> HIDE DEF e2, r2
  <2>2. readback_closure(th, t.b, e2) = Inst(t.b, r2)
    BY <2>1, ClosureRead
  <2> QED BY <2>2 DEF e2, r2
<1>10. Chain(th, readback_closure(th, t.b, <<a>> \o e), Tail(s), g)
  BY <1>1, <1>2, <1>3, <1>6, <1>9, ChainSame
<1> QED BY <1>0, <1>1, <1>8, <1>10, ReadHead DEF a

\* A head with arguments that are thunks of the arguments of its spine.
LEMMA AppOK ==
  ASSUME Hyp, NEW X, Stands(X), AppStep
  PROVE  Proceeds(X, of)
<1> USE DEF Hyp
<1> DEFINE r == Reads(heap, env)
           args == get_app_args(h)
           n == Len(args)
           ts == Reverse(args)
           S == mk_thunks(Store(heap), ts, n, env)
           a == Reverse(S.ids)
           fn == get_app_fn(h)
<1>1. /\ Written(heap) /\ Scoped(h, env, Len(heap)) /\ env \in Seq(0..Len(heap)) /\ h \in Term
      /\ r \in Seq(Cl) /\ Len(r) = Len(env) /\ loose_bvar_range(h) <= Len(r) /\ loose_bvar_range(h) \in Nat
      /\ readback_closure(heap, h, env) = Inst(h, r)
  <2>1. /\ Written(heap) /\ Scoped(h, env, Len(heap)) /\ h \in Term
        /\ r \in Seq(Cl) /\ loose_bvar_range(h) <= Len(r)
        /\ readback_closure(heap, h, env) = Inst(h, r)
    BY StandsIs
  <2> QED BY <2>1, ClosureRead DEF Scoped, TermHyp, Grammar
<1>2. /\ fn \in Term /\ loose_bvar_range(fn) <= loose_bvar_range(h) /\ args \in Seq(Term) /\ n \in Nat
      /\ \A i \in 1..n : args[i] \in Term /\ loose_bvar_range(args[i]) <= loose_bvar_range(h)
      /\ loose_bvar_range(fn) \in Nat /\ \A i \in 1..n : loose_bvar_range(args[i]) \in Nat
  <2>1. fn \in Term /\ loose_bvar_range(fn) <= loose_bvar_range(h) /\ args \in Seq(Term)
    BY <1>1 DEF TermHyp, Spines
  <2>2. \A i \in DOMAIN args : loose_bvar_range(args[i]) <= loose_bvar_range(h)
    BY <1>1 DEF TermHyp, Spines
  <2>3. n \in Nat /\ DOMAIN args = 1..n /\ \A i \in 1..n : args[i] \in Term
    BY <2>1
  <2> QED BY <2>1, <2>2, <2>3 DEF TermHyp, Grammar
<1>3. ts \in Seq(Term) /\ Len(ts) = n /\ \A i \in 1..n : ts[i] = args[n - i + 1]
  BY <1>2, Reversed
<1>4. Inst(h, r) = mk_apps(Inst(fn, r), [i \in 1..n |-> Inst(args[i], r)])
  BY <1>1 DEF TermHyp, Substitution
<1>5. \A i \in 1..n : Scoped(ts[i], env, Len(heap))
  <2> SUFFICES ASSUME NEW i \in 1..n PROVE Scoped(ts[i], env, Len(heap))
    OBVIOUS
  <2>1. n - i + 1 \in 1..n /\ ts[i] = args[n - i + 1]
    BY <1>2, <1>3
  <2>2. ts[i] \in Term /\ loose_bvar_range(ts[i]) <= loose_bvar_range(h) /\ loose_bvar_range(ts[i]) \in Nat
    BY <1>2, <2>1
  <2>3. Len(env) \in Nat
    BY <1>1
  <2> QED BY <1>1, <2>2, <2>3 DEF Scoped
<1> HIDE DEF ts
<1>6. MakesAll(Store(heap), S, X, ts, n, env)
  <2>1. Made_OK(Store(heap), X) /\ Store(heap).ids = <<>> /\ Store(heap).th = heap
    BY StandsIs, StoreMade
  <2> DEFINE Q == Store(heap)
  <2> HIDE DEF Q
  <2>2. Made_OK(Q, X) /\ Q.ids = <<>> /\ Q.th = heap
    BY <2>1 DEF Q
  <2>3. MakesAll(Q, mk_thunks(Q, ts, n, env), X, ts, n, env)
    BY <1>1, <1>2, <1>5, <2>2, MkThunksOK
  <2> QED BY <2>3 DEF Q
<1>7. Keep(S) /\ st' = ArgFrames(a) \o st /\ h' = fn /\ env' = env /\ pc' = "step"
  BY DEF AppStep, Becomes, ts
<1> HIDE DEF S, fn, args, n, r
<1>8. /\ Made_OK(S, X) /\ Grows(heap, S.th) /\ Extends(heap, S.th) /\ Len(S.ids) = n /\ S.ids \in Seq(0..Len(S.th))
      /\ Written(S.th) /\ StoreOK(S.th, S.cl, X)
      /\ \A i \in 1..n : readback(S.th, S.ids[i]) = Inst(ts[i], r)
  <2>1. Store(heap).th = heap
    BY DEF Store
  <2>2. /\ Made_OK(S, X) /\ Grows(heap, S.th) /\ Len(S.ids) = n
        /\ \A i \in 1..n : readback(S.th, S.ids[i]) = Inst(ts[i], r)
    BY <1>6, <2>1 DEF MakesAll, r
  <2> QED BY <2>2, StoreIs DEF Grows, Made_OK
<1>9. a \in Seq(0..Len(S.th)) /\ Len(a) = n /\ \A i \in 1..n : a[i] = S.ids[n - i + 1]
  BY <1>8, Reversed
<1> HIDE DEF a
<1>10. Reads(S.th, a) = [i \in 1..n |-> Inst(args[i], r)]
  <2>1. ASSUME NEW i \in 1..n PROVE readback(S.th, a[i]) = Inst(args[i], r)
    <3>1. n - i + 1 \in 1..n /\ n - (n - i + 1) + 1 = i
      BY <1>2
    <3>2. readback(S.th, a[i]) = Inst(ts[n - i + 1], r)
      BY <1>8, <1>9, <3>1
    <3>3. ts[n - i + 1] = args[n - (n - i + 1) + 1]
      BY <1>3, <3>1
    <3> QED BY <3>1, <3>2, <3>3
  <2> QED BY <1>9, <2>1 DEF Reads
<1>11. Scoped(fn, env, Len(heap))
  BY <1>1, <1>2 DEF Scoped
<1>12. Val(S.th, fn, env, a) = Inst(h, r)
  <2>1. readback_closure(heap, fn, env) = Inst(fn, r)
    BY <1>1, <1>11, ClosureRead DEF r
  <2>2. readback_closure(S.th, fn, env) = Inst(fn, r)
    BY <1>8, <1>11, <2>1, ClosureExtends
  <2> QED BY <1>4, <1>10, <2>2 DEF Val
<1>13. Run(S.th, h, env, <<>>, st, of, X) /\ Val(S.th, h, env, <<>>) = Val(heap, h, env, <<>>)
  BY <1>8, RunGrows DEF Stands
<1>14. Val(heap, h, env, <<>>) = Inst(h, r)
  <2>1. <<>> \in Seq(0..Len(heap))
    OBVIOUS
  <2> QED BY <1>1, <2>1, ValIs
<1>15. Scoped(fn, env, Len(S.th))
  BY <1>8, <1>11, ClosureExtends
<1>16. Run(S.th, fn, env, a, st, of, X)
  BY <1>9, <1>12, <1>13, <1>14, <1>15, NewHead
<1>17. Run(S.th, fn, env, <<>>, ArgFrames(a) \o st, of, X)
  BY <1>8, <1>16, PushArgs
<1>18. Moves(heap, S.th)
  BY <1>8, ExtendsTrans
<1> QED BY <1>7, <1>8, <1>17, <1>18 DEF Proceeds, Keep

\* Another head without arguments.
LEMMA NewTerm ==
  ASSUME Hyp, NEW th, Written(th), NEW t, NEW e, NEW s, NEW g, NEW X, Run(th, t, e, <<>>, s, g, X),
         NEW t2, NEW e2, Scoped(t2, e2, Len(th)),
         normal(readback_closure(th, t2, e2)) = normal(readback_closure(th, t, e))
  PROVE  Run(th, t2, e2, <<>>, s, g, X)
<1> USE DEF Hyp
<1>1. <<>> \in Seq(0..Len(th)) /\ Scoped(t, e, Len(th))
  BY DEF Run
<1>2. Val(th, t, e, <<>>) = readback_closure(th, t, e) /\ Val(th, t2, e2, <<>>) = readback_closure(th, t2, e2)
  BY <1>1, ValIs
<1> QED BY <1>1, <1>2, NewHead

\* A thunk made during a run.
LEMMA MkHere ==
  ASSUME Hyp, NEW X, NEW S, Made_OK(S, X), NEW t, NEW e, NEW o, NEW s, NEW g, Run(S.th, t, e, o, s, g, X),
         NEW t2, NEW e2, Scoped(t2, e2, Len(S.th))
  PROVE  LET S2 == mk_thunk(S, t2, e2)
         IN /\ Made_OK(S2, X) /\ StoreOK(S2.th, S2.cl, X) /\ Written(S2.th) /\ Len(S2.th) \in Nat
            /\ Grows(S.th, S2.th) /\ Extends(S.th, S2.th) /\ Moves(S.th, S2.th)
            /\ Made(S2) \in 0..Len(S2.th) /\ S2.ids = Append(S.ids, Made(S2))
            /\ readback(S2.th, Made(S2)) = readback_closure(S.th, t2, e2)
            /\ readback(S2.th, Made(S2)) = Inst(t2, Reads(S.th, e2))
            /\ Run(S2.th, t, e, o, s, g, X) /\ Val(S2.th, t, e, o) = Val(S.th, t, e, o)
<1> DEFINE S2 == mk_thunk(S, t2, e2)
<1>1. PICK a : Makes(S, S2, X, t2, e2, a)
  BY MkThunk
<1> HIDE DEF S2
<1>2. Made_OK(S2, X) /\ Grows(S.th, S2.th) /\ a \in 0..Len(S2.th) /\ Made(S2) = a /\ S2.ids = Append(S.ids, a)
  BY <1>1 DEF Makes
<1>3. StoreOK(S2.th, S2.cl, X) /\ Written(S2.th) /\ Len(S2.th) \in Nat
  BY <1>2, StoreIs DEF Made_OK
<1>4. Extends(S.th, S2.th) /\ Moves(S.th, S2.th)
  <2>1. Extends(S.th, S2.th)
    BY <1>2 DEF Grows
  <2> QED BY <1>2, <2>1, ExtendsTrans
<1>5. Run(S2.th, t, e, o, s, g, X) /\ Val(S2.th, t, e, o) = Val(S.th, t, e, o)
  BY <1>2, RunGrows
<1> QED BY <1>1, <1>2, <1>3, <1>4, <1>5 DEF Makes, S2

\* The same without a run.
LEMMA MkOne ==
  ASSUME Hyp, NEW X, NEW S, Made_OK(S, X), NEW t, NEW e, Scoped(t, e, Len(S.th))
  PROVE  LET S2 == mk_thunk(S, t, e)
         IN /\ Made_OK(S2, X) /\ StoreOK(S2.th, S2.cl, X) /\ Written(S2.th) /\ Len(S2.th) \in Nat
            /\ Grows(S.th, S2.th) /\ Extends(S.th, S2.th) /\ Moves(S.th, S2.th)
            /\ Made(S2) \in 0..Len(S2.th) /\ S2.ids = Append(S.ids, Made(S2))
            /\ readback(S2.th, Made(S2)) = readback_closure(S.th, t, e)
<1> DEFINE S2 == mk_thunk(S, t, e)
<1>1. PICK a : Makes(S, S2, X, t, e, a)
  BY MkThunk
<1> HIDE DEF S2
<1>2. Made_OK(S2, X) /\ Grows(S.th, S2.th) /\ a \in 0..Len(S2.th) /\ Made(S2) = a /\ S2.ids = Append(S.ids, a)
  BY <1>1 DEF Makes
<1>3. StoreOK(S2.th, S2.cl, X) /\ Written(S2.th) /\ Len(S2.th) \in Nat
  BY <1>2, StoreIs DEF Made_OK
<1>4. Extends(S.th, S2.th) /\ Moves(S.th, S2.th)
  <2>1. Extends(S.th, S2.th)
    BY <1>2 DEF Grows
  <2> QED BY <1>2, <2>1, ExtendsTrans
<1> QED BY <1>1, <1>2, <1>3, <1>4 DEF Makes, S2

LEMMA LamOK ==
  ASSUME Hyp, NEW X, Stands(X), LamStep
  PROVE  Proceeds(X, of)
<1>1. CASE TopIsArg /\ Beta
  <2>1. Run(heap, h', env', <<>>, st', of, X) /\ pc' = "step" /\ UNCHANGED store
    BY <1>1, StandsIs, BetaOK DEF TopIsArg, Beta, Becomes, LamStep, At
  <2> QED BY <2>1, StandsIs, StaysProceeds
<1>2. CASE ~TopIsArg /\ IsValue /\ UNCHANGED <<st, store>>
  BY <1>2, StandsIs, StaysProceeds DEF IsValue
<1> QED BY <1>1, <1>2 DEF LamStep

LEMMA LitOK ==
  ASSUME Hyp, NEW X, Stands(X), LitStep
  PROVE  Proceeds(X, of)
BY StandsIs, StaysProceeds DEF IsValue, LitStep

\* A closed term is read as itself.
LEMMA ReadClosedTerm ==
  ASSUME TermHyp, Recursion, NEW th, Written(th), NEW t \in Cl
  PROVE  Scoped(t, <<>>, Len(th)) /\ readback_closure(th, t, <<>>) = t
<1>1. Scoped(t, <<>>, Len(th)) /\ t \in Term /\ loose_bvar_range(t) = 0
  BY ClosedScoped, WrittenIs DEF Cl, Closed
<1>2. Reads(th, <<>>) \in Seq(Cl) /\ readback_closure(th, t, <<>>) = Inst(t, Reads(th, <<>>))
      /\ loose_bvar_range(t) <= Len(Reads(th, <<>>))
  BY <1>1, ClosureRead
<1>3. Inst(t, Reads(th, <<>>)) = t
  BY <1>1, <1>2 DEF TermHyp, Substitution
<1> QED BY <1>1, <1>2, <1>3

LEMMA FVarOK ==
  ASSUME Hyp, NEW X, Stands(X), FVarStep
  PROVE  Proceeds(X, of)
<1> USE DEF Hyp
<1>1. CASE h.name \in DOMAIN LetVars /\ Becomes(LetVars[h.name], <<>>)
  <2> DEFINE v == LetVars[h.name]
  <2>1. h = FVar(h.name) /\ h \in Cl /\ v \in Cl
    <3>1. h.k = "fvar" /\ h \in Term
      BY StandsIs DEF FVarStep, At
    <3> QED BY <1>1, <3>1 DEF TermHyp, Grammar, Cl, Closed, ReductionHyp, Environment
  <2>2. normal(h) = normal(v)
    BY <1>1, <2>1 DEF ReductionHyp, ZetaLaw
  <2> HIDE DEF v
  <2>3. Scoped(v, <<>>, Len(heap)) /\ readback_closure(heap, v, <<>>) = v
    BY <2>1, StandsIs, ReadClosedTerm
  <2>4. readback_closure(heap, h, env) = h
    <3>1. Inst(h, Reads(heap, env)) = h
      BY <2>1, StandsIs DEF TermHyp, Substitution, Cl, Closed
    <3> QED BY <3>1, StandsIs
  <2>5. Run(heap, v, <<>>, <<>>, st, of, X)
    BY <2>2, <2>3, <2>4, StandsIs, NewTerm
  <2>6. h' = v /\ env' = <<>> /\ pc' = "step" /\ st' = st /\ UNCHANGED store
    BY <1>1 DEF FVarStep, Becomes, v
  <2> QED BY <2>5, <2>6, StandsIs, StaysProceeds
<1>2. CASE IsValue
  BY <1>2, StandsIs, StaysProceeds DEF FVarStep, IsValue
<1> QED BY <1>1, <1>2 DEF FVarStep

LEMMA LetOK ==
  ASSUME Hyp, NEW X, Stands(X), LetStep
  PROVE  Proceeds(X, of)
<1> USE DEF Hyp
<1> DEFINE r == Reads(heap, env)
           S == mk_thunk(Store(heap), h.v, env)
           a == Made(S)
           x == Inst(h.v, r)
<1>1. /\ h.k = "let" /\ h.v \in Term /\ h.b \in Term
      /\ loose_bvar_range(h) \in Nat /\ loose_bvar_range(h.v) \in Nat /\ loose_bvar_range(h.b) \in Nat
      /\ loose_bvar_range(h.v) <= loose_bvar_range(h) /\ loose_bvar_range(h.b) <= loose_bvar_range(h) + 1
  BY StandsIs DEF LetStep, At, TermHyp, Grammar
<1>2. Scoped(h, env, Len(heap)) /\ env \in Seq(0..Len(heap)) /\ Len(env) \in Nat /\ Len(heap) \in Nat
  BY StandsIs, WrittenIs DEF Scoped
<1>3. Scoped(h.v, env, Len(heap))
  BY <1>1, <1>2 DEF Scoped
<1>4. /\ StoreOK(S.th, S.cl, X) /\ Written(S.th) /\ Extends(heap, S.th) /\ Moves(heap, S.th)
      /\ a \in 0..Len(S.th) /\ readback(S.th, a) = x
      /\ Run(S.th, h, env, <<>>, st, of, X)
  <2> DEFINE Q == Store(heap)
  <2>1. Made_OK(Q, X) /\ Q.th = heap
    BY StandsIs, StoreMade
  <2> HIDE DEF Q
  <2>2. Run(Q.th, h, env, <<>>, st, of, X) /\ Scoped(h.v, env, Len(Q.th))
    BY <1>3, <2>1, StandsIs
  <2> DEFINE P == mk_thunk(Q, h.v, env)
  <2> HIDE DEF P
  <2>3. /\ StoreOK(P.th, P.cl, X) /\ Written(P.th) /\ Extends(Q.th, P.th) /\ Moves(Q.th, P.th)
        /\ Made(P) \in 0..Len(P.th) /\ readback(P.th, Made(P)) = Inst(h.v, Reads(Q.th, env))
        /\ Run(P.th, h, env, <<>>, st, of, X)
    BY <2>1, <2>2, MkHere DEF P
  <2>4. S = P
    BY DEF P, Q
  <2> HIDE DEF S
  <2> QED BY <2>1, <2>3, <2>4
<1>5. h' = h.b /\ env' = <<a>> \o env /\ pc' = "step" /\ st' = st /\ heap' = S.th /\ closed' = S.cl
  BY DEF LetStep, Becomes, Keep
<1>6. normal(Inst(h, r)) = normal(Inst(h.b, <<x>> \o r))
  BY <1>1, StandsIs DEF ReductionHyp, ZetaLaw
<1> HIDE DEF S, a, x
<1>7. Reads(S.th, <<a>> \o env) = <<x>> \o r /\ <<a>> \o env \in Seq(0..Len(S.th)) /\ Len(<<a>> \o env) = Len(env) + 1
  <2>1. Reads(S.th, env) = r /\ env \in Seq(0..Len(S.th))
    BY <1>2, <1>4, ReadsExtends
  <2>2. /\ Reads(S.th, <<a>> \o env) = <<readback(S.th, a)>> \o Reads(S.th, env)
        /\ <<a>> \o env \in Seq(0..Len(S.th)) /\ Len(<<a>> \o env) = Len(env) + 1
    BY <1>4, <2>1, ReadsPush
  <2> QED BY <1>4, <2>1, <2>2
<1> HIDE DEF r
<1> DEFINE e2 == <<a>> \o env
           r2 == <<x>> \o r
<1>8. Reads(S.th, e2) = r2 /\ e2 \in Seq(0..Len(S.th)) /\ Len(e2) = Len(env) + 1 /\ normal(Inst(h, r)) = normal(Inst(h.b, r2)) /\ env' = e2
  BY <1>5, <1>6, <1>7
<1> HIDE DEF e2, r2
<1>9. Scoped(h.b, e2, Len(S.th))
  <2>1. loose_bvar_range(h.b) <= Len(env) + 1
    BY <1>1, <1>2 DEF Scoped
  <2> QED BY <1>1, <1>8, <2>1 DEF Scoped
<1>10. readback_closure(S.th, h.b, e2) = Inst(h.b, r2)
  BY <1>4, <1>8, <1>9, ClosureRead
<1>11. readback_closure(S.th, h, env) = Inst(h, r)
  BY <1>2, <1>4, ClosureExtends, StandsIs DEF r
<1>12. Run(S.th, h.b, e2, <<>>, st, of, X)
  BY <1>4, <1>8, <1>9, <1>10, <1>11, NewTerm
<1> QED BY <1>4, <1>5, <1>8, <1>12 DEF Proceeds

\* Entering from the thunks of a store made during a run.
LEMMA EntersFrom ==
  ASSUME Hyp, NEW X, NEW S, StoreOK(S.th, S.cl, X), Moves(heap, S.th), NEW s, StackOK(S.th, s, X),
         NEW t \in 0..Len(S.th), NEW g \in Cl, Chain(S.th, readback(S.th, t), s, g),
         NEW dl, enter(t, s, dl, S)
  PROVE  Proceeds(X, g)
BY Enter, EnterProceeds

\* The structure of a projection is entered.
LEMMA ProjOK ==
  ASSUME Hyp, NEW X, Stands(X), ProjStep
  PROVE  Proceeds(X, of)
<1> USE DEF Hyp
<1> DEFINE S == mk_thunk(Store(heap), h.e, env)
           a == Made(S)
           f == ProjK(h, env, delta)
           s == <<f>> \o st
<1>1. h.k = "proj" /\ h.e \in Term /\ loose_bvar_range(h.e) = loose_bvar_range(h)
  BY StandsIs DEF ProjStep, At, TermHyp, Grammar
<1>2. Scoped(h, env, Len(heap)) /\ Scoped(h.e, env, Len(heap))
  BY <1>1, StandsIs DEF Scoped
<1>3. /\ StoreOK(S.th, S.cl, X) /\ Written(S.th) /\ Extends(heap, S.th) /\ Moves(heap, S.th)
      /\ a \in 0..Len(S.th) /\ readback(S.th, a) = readback_closure(heap, h.e, env)
      /\ Run(S.th, h, env, <<>>, st, of, X)
  <2> DEFINE Q == Store(heap)
  <2>1. Made_OK(Q, X) /\ Q.th = heap
    BY StandsIs, StoreMade
  <2> HIDE DEF Q
  <2>2. Run(Q.th, h, env, <<>>, st, of, X) /\ Scoped(h.e, env, Len(Q.th))
    BY <1>2, <2>1, StandsIs
  <2> DEFINE t == h.e
             o == <<>>
             P == mk_thunk(Q, t, env)
  <2>4. S = P
    BY DEF Q
  <2>5. Scoped(t, env, Len(Q.th)) /\ Run(Q.th, h, env, o, st, of, X)
    BY <2>2
  <2> HIDE DEF t, o
  <2>6. /\ StoreOK(P.th, P.cl, X) /\ Written(P.th) /\ Grows(Q.th, P.th) /\ Extends(Q.th, P.th) /\ Moves(Q.th, P.th)
        /\ Made(P) \in 0..Len(P.th) /\ readback(P.th, Made(P)) = readback_closure(Q.th, t, env)
    BY <2>1, <2>5, MkOne
  <2> HIDE DEF P
  <2>7. Run(P.th, h, env, o, st, of, X)
    BY <2>5, <2>6, RunGrows
  <2>3. /\ StoreOK(P.th, P.cl, X) /\ Written(P.th) /\ Extends(Q.th, P.th) /\ Moves(Q.th, P.th)
        /\ Made(P) \in 0..Len(P.th) /\ readback(P.th, Made(P)) = readback_closure(Q.th, h.e, env)
        /\ Run(P.th, h, env, <<>>, st, of, X)
    BY <2>6, <2>7 DEF t, o
  <2> HIDE DEF S
  <2> QED BY <2>1, <2>3, <2>4
<1>4. enter(a, s, TRUE, S)
  BY DEF ProjStep
<1> HIDE DEF S, a
<1>5. f.k = "proj" /\ f.h = h /\ f.env = env
  BY DEF ProjK
<1> HIDE DEF f
<1>6. /\ readback_closure(S.th, h.e, env) = readback_closure(heap, h.e, env)
      /\ Scoped(h, env, Len(S.th)) /\ readback(S.th, a) \in Cl
  BY <1>2, <1>3, ClosureExtends, ReadClosed
<1>7. StackOK(S.th, s, X)
  <2>1. FrameOK(f, Len(S.th)) /\ f.k # "upd"
    BY <1>1, <1>5, <1>6, FrameKinds DEF FrameOK
  <2> QED BY <1>3, <2>1, StackPush DEF Run
<1>8. Link(S.th, f, readback(S.th, a), readback_closure(S.th, h, env))
  BY <1>3, <1>5, <1>6 DEF Link
<1>9. Chain(S.th, readback(S.th, a), s, of)
  <2>1. <<>> \in Seq(0..Len(S.th)) /\ Chain(S.th, Val(S.th, h, env, <<>>), st, of) /\ Listed(st)
    BY <1>3, StandsIs DEF Run
  <2> DEFINE o == <<>>
  <2>2. Written(S.th) /\ Scoped(h, env, Len(S.th)) /\ o \in Seq(0..Len(S.th)) /\ o = <<>>
    BY <1>3, <1>6, <2>1
  <2> HIDE DEF o
  <2>3. Val(S.th, h, env, o) = readback_closure(S.th, h, env)
    BY <2>2, ValIs
  <2> QED BY <1>6, <1>8, <2>1, <2>2, <2>3, ChainPush
<1> HIDE DEF s
<1> QED BY <1>3, <1>4, <1>7, <1>9, StandsIs, EntersFrom
-------------------------------------------------------------------------------
(***************************************************************************)
(* Constants with arguments.                                               *)
(***************************************************************************)

\* The machine waits for thunk t, and goes on with the head and the arguments it has.
LEMMA Waits ==
  ASSUME Hyp, NEW X, NEW S, StoreOK(S.th, S.cl, X), Moves(heap, S.th), NEW args, NEW rest, NEW g \in Cl,
         Run(S.th, h, env, args, rest, g, X), NEW t \in 0..Len(S.th),
         enter(t, <<Cont(h, env, args, delta)>> \o rest, TRUE, S)
  PROVE  Proceeds(X, g)
<1> USE DEF Hyp
<1> DEFINE f == Cont(h, env, args, delta)
           s == <<f>> \o rest
<1>1. f.k = "cont" /\ f.h = h /\ f.env = env /\ f.args = args
  BY DEF Cont
<1>2. enter(t, s, TRUE, S)
  OBVIOUS
<1> HIDE DEF f
<1>3. Written(S.th) /\ readback(S.th, t) \in Cl
  BY StoreIs, ReadClosed
<1>4. /\ Scoped(h, env, Len(S.th)) /\ args \in Seq(0..Len(S.th)) /\ StackOK(S.th, rest, X) /\ Listed(rest)
      /\ Chain(S.th, Val(S.th, h, env, args), rest, g)
  BY DEF Run, StackOK, Stack
<1>5. FrameOK(f, Len(S.th)) /\ f.k # "upd"
  BY <1>1, <1>4, FrameKinds DEF FrameOK
<1>6. StackOK(S.th, s, X)
  BY <1>4, <1>5, StackPush
<1>7. Link(S.th, f, readback(S.th, t), Val(S.th, h, env, args))
  BY <1>1 DEF Link
<1>8. Chain(S.th, readback(S.th, t), s, g)
  BY <1>3, <1>4, <1>7, ChainPush
<1> HIDE DEF s
<1> QED BY <1>2, <1>6, <1>8, EntersFrom

\* A constant is closed.
LEMMA ConstIs ==
  ASSUME TermHyp, Recursion, NEW th, Written(th), NEW t, NEW e, Scoped(t, e, Len(th)), t.k = "const"
  PROVE  /\ t \in Cl /\ t = Const(t.c) /\ readback_closure(th, t, e) = t
         /\ \A a : Val(th, t, e, a) = mk_apps(t, Reads(th, a))
<1>1. t \in Term /\ t \in Cl /\ t = Const(t.c) /\ loose_bvar_range(t) = 0
  BY DEF Scoped, TermHyp, Grammar, Cl, Closed
<1>2. Inst(t, Reads(th, e)) = t
  BY <1>1, ClosureRead DEF TermHyp, Substitution
<1>3. readback_closure(th, t, e) = t
  BY <1>2, ClosureRead
<1> QED BY <1>1, <1>3 DEF Val

LEMMA ConstVal ==
  ASSUME TermHyp, Recursion, NEW th, Written(th), NEW t, NEW e, Scoped(t, e, Len(th)), t.k = "const", NEW a
  PROVE  Val(th, t, e, a) = mk_apps(t, Reads(th, a))
BY ConstIs

\* A head without arguments.
LEMMA ValNil ==
  ASSUME TermHyp, Recursion, NEW th, Written(th), NEW t, NEW e, Scoped(t, e, Len(th)), NEW a, a = <<>>
  PROVE  Val(th, t, e, a) = readback_closure(th, t, e)
<1>1. a \in Seq(0..Len(th))
  OBVIOUS
<1> QED BY <1>1, ValIs

LEMMA SubSeqIs ==
  ASSUME NEW S, NEW s \in Seq(S), NEW m \in Nat, NEW n \in Nat, m >= 1, n <= Len(s), m <= n + 1
  PROVE  /\ SubSeq(s, m, n) \in Seq(S) /\ Len(SubSeq(s, m, n)) = n - m + 1
         /\ \A i \in 1..(n - m + 1) : SubSeq(s, m, n)[i] = s[m + i - 1]
<1>1. Len(SubSeq(s, m, n)) = n - m + 1
  OBVIOUS
<1>2. \A i \in 1..(n - m + 1) : SubSeq(s, m, n)[i] = s[m + i - 1]
  OBVIOUS
<1>3. SubSeq(s, m, n) = [i \in 1..(n - m + 1) |-> SubSeq(s, m, n)[i]]
  OBVIOUS
<1>4. \A i \in 1..(n - m + 1) : SubSeq(s, m, n)[i] \in S
  BY <1>2
<1>5. [i \in 1..(n - m + 1) |-> SubSeq(s, m, n)[i]] \in Seq(S)
  BY <1>4
<1> QED BY <1>1, <1>2, <1>3, <1>5

LEMMA ReadsSubSeq ==
  ASSUME TermHyp, Recursion, NEW th, Written(th), NEW s \in Seq(0..Len(th)),
         NEW m \in Nat, NEW n \in Nat, m >= 1, n <= Len(s), m <= n + 1
  PROVE  /\ Reads(th, SubSeq(s, m, n)) = SubSeq(Reads(th, s), m, n)
         /\ SubSeq(s, m, n) \in Seq(0..Len(th)) /\ Len(SubSeq(s, m, n)) = n - m + 1
         /\ SubSeq(Reads(th, s), m, n) \in Seq(Cl) /\ Len(SubSeq(Reads(th, s), m, n)) = n - m + 1
<1> DEFINE t == SubSeq(s, m, n)
           r == Reads(th, s)
           q == SubSeq(r, m, n)
<1>1. r \in Seq(Cl) /\ Len(r) = Len(s) /\ Len(s) \in Nat /\ \A i \in 1..Len(s) : r[i] = readback(th, s[i])
  BY ArgsRead
<1>2. t \in Seq(0..Len(th)) /\ Len(t) = n - m + 1 /\ \A i \in 1..(n - m + 1) : t[i] = s[m + i - 1]
  BY SubSeqIs
<1> HIDE DEF r
<1>3. q \in Seq(Cl) /\ Len(q) = n - m + 1 /\ \A i \in 1..(n - m + 1) : q[i] = r[m + i - 1]
  BY <1>1, SubSeqIs
<1> HIDE DEF t, q
<1>4. Reads(th, t) \in Seq(Cl) /\ Len(Reads(th, t)) = Len(t) /\ \A i \in 1..Len(t) : Reads(th, t)[i] = readback(th, t[i])
  BY <1>2, ArgsRead
<1>5. ASSUME NEW i \in 1..Len(t) PROVE Reads(th, t)[i] = q[i]
  <2>0. i \in 1..(n - m + 1)
    BY <1>2
  <2>1. i \in 1..(n - m + 1) /\ m + i - 1 \in 1..Len(s)
    <3>1. i \in Nat /\ i >= 1 /\ i <= n - m + 1
      BY <2>0
    <3>2. m + i - 1 \in Nat /\ m + i - 1 >= 1 /\ m + i - 1 <= n
      BY <3>1
    <3> QED BY <1>1, <2>0, <3>2
  <2> QED BY <1>1, <1>2, <1>3, <1>4, <2>1
<1>6. Reads(th, t) = q
  BY <1>2, <1>3, <1>4, <1>5, SameSeq, SeqListed
<1> QED BY <1>2, <1>3, <1>6 DEF t, q, r

\* The first n arguments.
LEMMA FrontIs ==
  ASSUME NEW S, NEW s \in Seq(S), NEW n \in Nat, n <= Len(s)
  PROVE  SubSeq(s, 1, n) \in Seq(S) /\ Len(SubSeq(s, 1, n)) = n /\ \A i \in 1..n : SubSeq(s, 1, n)[i] = s[i]
<1> DEFINE m == 1
<1>1. m \in Nat /\ m >= 1 /\ m <= n + 1 /\ n - m + 1 = n /\ \A i \in 1..n : m + i - 1 = i
  OBVIOUS
<1> HIDE DEF m
<1>2. /\ SubSeq(s, m, n) \in Seq(S) /\ Len(SubSeq(s, m, n)) = n - m + 1
      /\ \A i \in 1..(n - m + 1) : SubSeq(s, m, n)[i] = s[m + i - 1]
  BY <1>1, SubSeqIs
<1> QED BY <1>1, <1>2 DEF m

LEMMA ReadsFront ==
  ASSUME TermHyp, Recursion, NEW th, Written(th), NEW s \in Seq(0..Len(th)), NEW n \in Nat, n <= Len(s)
  PROVE  /\ Reads(th, SubSeq(s, 1, n)) = SubSeq(Reads(th, s), 1, n)
         /\ SubSeq(s, 1, n) \in Seq(0..Len(th)) /\ Len(SubSeq(s, 1, n)) = n
         /\ SubSeq(Reads(th, s), 1, n) \in Seq(Cl) /\ Len(SubSeq(Reads(th, s), 1, n)) = n
<1> DEFINE m == 1
<1>1. m \in Nat /\ m >= 1 /\ m <= n + 1 /\ n - m + 1 = n
  OBVIOUS
<1> HIDE DEF m
<1>2. /\ Reads(th, SubSeq(s, m, n)) = SubSeq(Reads(th, s), m, n)
      /\ SubSeq(s, m, n) \in Seq(0..Len(th)) /\ Len(SubSeq(s, m, n)) = n - m + 1
      /\ SubSeq(Reads(th, s), m, n) \in Seq(Cl) /\ Len(SubSeq(Reads(th, s), m, n)) = n - m + 1
  BY <1>1, ReadsSubSeq
<1> QED BY <1>1, <1>2 DEF m

\* The last argument.
LEMMA ReadsLast ==
  ASSUME TermHyp, Recursion, NEW th, Written(th), NEW s \in Seq(0..Len(th)), NEW n \in Nat, Len(s) = n + 1
  PROVE  Reads(th, s) = Append(SubSeq(Reads(th, s), 1, n), readback(th, s[n + 1]))
<1> DEFINE r == Reads(th, s)
<1>1. r \in Seq(Cl) /\ Len(r) = n + 1 /\ r[n + 1] = readback(th, s[n + 1])
  <2>1. n + 1 \in 1..Len(s)
    OBVIOUS
  <2> QED BY <2>1, ArgsRead
<1> HIDE DEF r
<1> DEFINE q == SubSeq(r, 1, n)
<1>2. q \in Seq(Cl) /\ Len(q) = n /\ \A i \in 1..n : q[i] = r[i]
  <2>1. n <= Len(r) /\ 1 <= n + 1 /\ n - 1 + 1 = n /\ \A i \in 1..n : 1 + i - 1 = i
    BY <1>1
  <2> QED BY <1>1, <2>1, SubSeqIs
<1> HIDE DEF q
<1> DEFINE p == Append(q, r[n + 1])
<1>3. r[n + 1] \in Cl
  BY <1>1
<1>4. p \in Seq(Cl) /\ Len(p) = n + 1 /\ \A i \in 1..(n + 1) : p[i] = r[i]
  BY <1>2, <1>3
<1> HIDE DEF p
<1>5. r = p
  BY <1>1, <1>4, SameSeq, SeqListed
<1> QED BY <1>1, <1>5 DEF p, q, r

\* A forced thunk as a constant and arguments: a value of it, which a numeral has been opened to.
LEMMA LitCtor ==
  ASSUME Hyp, NEW X, NEW S, Made_OK(S, X), NEW t, NEW e, NEW o, NEW s, NEW g, Run(S.th, t, e, o, s, g, X),
         NEW a \in 1..Len(S.th), S.th[a].state = 3
  PROVE  LET c == lit_ctor(S, a)
         IN /\ Made_OK(c.S, X) /\ StoreOK(c.S.th, c.S.cl, X) /\ Written(c.S.th)
            /\ Grows(S.th, c.S.th) /\ Extends(S.th, c.S.th) /\ Moves(S.th, c.S.th)
            /\ Run(c.S.th, t, e, o, s, g, X) /\ Val(c.S.th, t, e, o) = Val(S.th, t, e, o)
            /\ c.args \in Seq(0..Len(c.S.th))
            /\ IsConst(c.hd) => /\ c.hd \in Cl /\ c.hd = Const(c.hd.c)
                                /\ normal(mk_apps(c.hd, Reads(c.S.th, c.args))) = normal(readback(S.th, a))
<1> USE DEF Hyp
<1> DEFINE u == S.th[a]
           c == lit_ctor(S, a)
           R == mk_thunk(S, LitNat(u.vterm.n - 1), <<>>)
<1>1. /\ Written(S.th) /\ HeapOK(S.th) /\ Len(S.th) \in Nat /\ StoreOK(S.th, S.cl, X) /\ Cell(S.th, a) = u
      /\ Grows(S.th, S.th) /\ Extends(S.th, S.th) /\ Moves(S.th, S.th)
  <2>1. Written(S.th) /\ HeapOK(S.th) /\ Len(S.th) \in Nat /\ StoreOK(S.th, S.cl, X)
    BY StoreIs DEF Made_OK
  <2>2. Grows(S.th, S.th)
    BY <2>1, ExtendsTrans
  <2>3. Extends(S.th, S.th)
    BY <2>2 DEF Grows
  <2>4. Moves(S.th, S.th)
    BY <2>2, ExtendsTrans
  <2>5. a # 0
    OBVIOUS
  <2> QED BY <2>1, <2>2, <2>3, <2>4, <2>5, PlaceholderIs
<1>2. /\ Scoped(u.vterm, u.venv, Len(S.th)) /\ u.args \in Seq(0..Len(S.th)) /\ u.vterm \in Term
      /\ normal(Val(S.th, u.vterm, u.venv, u.args)) = normal(readback(S.th, a))
  BY <1>1 DEF HeapOK, ValueOK, Scoped
<1> HIDE DEF u
<1>3. CASE u.vterm.k # "lit" \/ u.args # <<>>
  <2>1. c = [hd |-> u.vterm, args |-> u.args, S |-> S]
    BY <1>1, <1>3 DEF lit_ctor
  <2> HIDE DEF c
  <2>2. c.hd = u.vterm /\ c.args = u.args /\ c.S = S
    BY <2>1
  <2>3. ASSUME IsConst(c.hd)
        PROVE  /\ c.hd \in Cl /\ c.hd = Const(c.hd.c)
               /\ normal(mk_apps(c.hd, Reads(c.S.th, c.args))) = normal(readback(S.th, a))
    <3>1. c.hd.k = "const"
      BY <2>3 DEF IsConst
    <3> QED BY <1>1, <1>2, <2>2, <3>1, ConstIs
  <2> QED BY <1>1, <1>2, <2>2, <2>3 DEF c
<1>4. ASSUME u.vterm.k = "lit", u.args = <<>>
      PROVE  /\ u.vterm.n \in Nat /\ u.vterm = LitNat(u.vterm.n) /\ loose_bvar_range(u.vterm) = 0
             /\ normal(u.vterm) = normal(readback(S.th, a))
  <2>1. u.vterm.n \in Nat /\ u.vterm = LitNat(u.vterm.n) /\ loose_bvar_range(u.vterm) = 0
    BY <1>2, <1>4 DEF TermHyp, Grammar
  <2>2. Inst(u.vterm, Reads(S.th, u.venv)) = u.vterm
    BY <1>1, <1>2, <2>1, ClosureRead DEF TermHyp, Substitution
  <2>3. readback_closure(S.th, u.vterm, u.venv) = u.vterm
    BY <1>1, <1>2, <2>2, ClosureRead
  <2>4. Val(S.th, u.vterm, u.venv, u.args) = u.vterm
    BY <1>1, <1>2, <1>4, <2>3, ValNil
  <2> QED BY <1>2, <2>1, <2>4
<1>5. CASE u.vterm.k = "lit" /\ u.args = <<>> /\ u.vterm = LitNat(0)
  <2>1. c = [hd |-> Const("zero"), args |-> <<>>, S |-> S]
    BY <1>1, <1>5 DEF lit_ctor
  <2> HIDE DEF c
  <2>2. c.hd = Const("zero") /\ c.args = <<>> /\ c.S = S
    BY <2>1
  <2>3. Const("zero") \in Term /\ Const("zero").k = "const" /\ Const("zero").c = "zero"
    BY DEF TermHyp, Complete, Const
  <2>4. Const("zero") \in Cl
    BY <2>3 DEF TermHyp, Grammar, Cl, Closed
  <2>5. Reads(S.th, <<>>) = <<>> /\ <<>> \in Seq(0..Len(S.th))
    BY DEF Reads
  <2>6. mk_apps(Const("zero"), <<>>) = Const("zero")
    BY <2>4, AppsClosed
  <2>7. normal(Const("zero")) = normal(readback(S.th, a))
    BY <1>4, <1>5 DEF ReductionHyp, NumeralLaws
  <2> QED BY <1>1, <2>2, <2>3, <2>4, <2>5, <2>6, <2>7 DEF c
<1>6. CASE u.vterm.k = "lit" /\ u.args = <<>> /\ u.vterm # LitNat(0)
  <2> DEFINE n == u.vterm.n - 1
  <2>0. n \in Nat /\ u.vterm = LitNat(n + 1)
    <3>1. u.vterm.n \in Nat /\ u.vterm.n # 0
      BY <1>4, <1>6
    <3>2. n \in Nat /\ n + 1 = u.vterm.n
      BY <3>1
    <3> QED BY <1>4, <1>6, <3>2
  <2>1. c = [hd |-> Const("succ"), args |-> <<Made(R)>>, S |-> R]
    BY <1>1, <1>6 DEF lit_ctor, u
  <2> HIDE DEF c
  <2>2. c.hd = Const("succ") /\ c.args = <<Made(R)>> /\ c.S = R
    BY <2>1
  <2>3. LitNat(n) \in Term /\ LitNat(n).k = "lit"
    BY <2>0 DEF TermHyp, Complete, LitNat
  <2>4. LitNat(n) \in Cl
    BY <2>3 DEF TermHyp, Grammar, Cl, Closed
  <2> DEFINE x == LitNat(n)
             e0 == <<>>
             P == mk_thunk(S, x, e0)
  <2>5. P = R
    OBVIOUS
  <2> HIDE DEF n
  <2>6. Scoped(x, e0, Len(S.th)) /\ readback_closure(S.th, x, e0) = x
    BY <1>1, <2>4, ReadClosedTerm
  <2> HIDE DEF x, R, e0
  <2>7. /\ Made_OK(P, X) /\ StoreOK(P.th, P.cl, X) /\ Written(P.th) /\ Len(P.th) \in Nat
        /\ Grows(S.th, P.th) /\ Extends(S.th, P.th) /\ Moves(S.th, P.th)
        /\ Made(P) \in 0..Len(P.th) /\ readback(P.th, Made(P)) = x
        /\ Run(P.th, t, e, o, s, g, X) /\ Val(P.th, t, e, o) = Val(S.th, t, e, o)
    <3>1. /\ Made_OK(P, X) /\ StoreOK(P.th, P.cl, X) /\ Written(P.th) /\ Len(P.th) \in Nat
          /\ Grows(S.th, P.th) /\ Extends(S.th, P.th) /\ Moves(S.th, P.th)
          /\ Made(P) \in 0..Len(P.th) /\ readback(P.th, Made(P)) = x
      BY <2>6, MkOne
    <3> HIDE DEF P
    <3> QED BY <3>1, RunGrows
  <2> HIDE DEF P
  <2>8. <<Made(P)>> \in Seq(0..Len(P.th)) /\ Reads(P.th, <<Made(P)>>) = <<x>>
    BY <2>7, OneArg
  <2>9. Const("succ") \in Cl /\ Const("succ") = Const(Const("succ").c)
    <3>1. Const("succ") \in Term /\ Const("succ").k = "const"
      BY DEF TermHyp, Complete, Const
    <3> QED BY <3>1 DEF TermHyp, Grammar, Cl, Closed
  <2>10. normal(mk_apps(Const("succ"), <<x>>)) = normal(readback(S.th, a))
    BY <1>4, <1>6, <2>0 DEF ReductionHyp, NumeralLaws, x
  <2> QED BY <2>2, <2>5, <2>7, <2>8, <2>9, <2>10 DEF c
<1> QED BY <1>3, <1>5, <1>6

\* A thunk of a closed term.
MkClosed(S, m) == mk_thunk(S, m, <<>>)

-------------------------------------------------------------------------------
(***************************************************************************)
(* Recursors.                                                              *)
(***************************************************************************)

\* The machine is at the recursor d with the arguments args, the last of them the major
\* premise.
AtRec(S, d, args, rest, X) ==
  /\ Made_OK(S, X) /\ Moves(heap, S.th) /\ Run(S.th, h, env, args, rest, of, X)
  /\ h.k = "const" /\ h.c \in DOMAIN Decls /\ Decls[h.c].kind = "rec" /\ d = Decls[h.c]
  /\ Len(args) = rec_major_idx(d) + 1
Before(S, d, args) == SubSeq(Reads(S.th, args), 1, rec_major_idx(d))

LEMMA RecIs ==
  ASSUME Hyp, NEW X, NEW S, NEW d, NEW args, NEW rest, AtRec(S, d, args, rest, X)
  PROVE  LET n == rec_major_idx(d)
             before == Before(S, d, args)
             m == readback(S.th, args[n + 1])
         IN /\ n \in Nat /\ d.nbefore \in Nat /\ d.nbefore <= n /\ d.nminors \in 0..d.nbefore
            /\ \A k \in DOMAIN d.rules : d.rules[k].nfields \in Nat /\ d.rules[k].rhs \in Cl
            /\ h \in Cl /\ h = Const(h.c) /\ of \in Cl /\ Made_OK(S, X) /\ StoreOK(S.th, S.cl, X) /\ Moves(heap, S.th)
            /\ Written(S.th) /\ Len(S.th) \in Nat /\ Scoped(h, env, Len(S.th))
            /\ args \in Seq(0..Len(S.th)) /\ Len(args) = n + 1 /\ args[n + 1] \in 0..Len(S.th)
            /\ Run(S.th, h, env, args, rest, of, X)
            /\ before \in Seq(Cl) /\ Len(before) = n /\ Recursor(h.c, d, before)
            /\ m \in Cl /\ Reads(S.th, args) = Append(before, m)
            /\ Val(S.th, h, env, args) = mk_apps(h, Append(before, m))
<1> USE DEF Hyp
<1> DEFINE n == rec_major_idx(d)
           before == Before(S, d, args)
           m == readback(S.th, args[n + 1])
<1>1. /\ n \in Nat /\ d.nbefore \in Nat /\ d.nbefore <= n /\ d.nminors \in 0..d.nbefore
      /\ \A k \in DOMAIN d.rules : d.rules[k].nfields \in Nat /\ d.rules[k].rhs \in Cl
  <2>1. /\ d.nbefore \in Nat /\ d.nindices \in Nat /\ d.nminors \in 0..d.nbefore
        /\ \A k \in DOMAIN d.rules : d.rules[k].nfields \in Nat /\ d.rules[k].rhs \in Cl
    BY DEF AtRec, ReductionHyp, Environment
  <2>2. n \in Nat /\ d.nbefore <= n
    BY <2>1 DEF rec_major_idx
  <2> QED BY <2>1, <2>2
<1>2. /\ Made_OK(S, X) /\ StoreOK(S.th, S.cl, X) /\ Written(S.th) /\ Len(S.th) \in Nat /\ Scoped(h, env, Len(S.th))
      /\ args \in Seq(0..Len(S.th)) /\ Len(args) = n + 1 /\ of \in Cl /\ Run(S.th, h, env, args, rest, of, X)
      /\ Moves(heap, S.th) /\ h.k = "const"
  BY StoreIs DEF AtRec, Made_OK, Run
<1>3. h \in Cl /\ h = Const(h.c)
  BY <1>2, ConstIs
<1> HIDE DEF n
<1>4. n + 1 \in 1..Len(args) /\ args[n + 1] \in 0..Len(S.th) /\ m \in Cl
  <2>1. n + 1 \in 1..Len(args)
    BY <1>1, <1>2
  <2>2. args[n + 1] \in 0..Len(S.th)
    BY <1>2, <2>1
  <2> QED BY <1>2, <2>1, <2>2, ReadClosed
<1>5. before \in Seq(Cl) /\ Len(before) = n
  <2>1. n <= Len(args) /\ 1 <= n + 1 /\ n - 1 + 1 = n
    BY <1>1, <1>2
  <2>2. SubSeq(Reads(S.th, args), 1, n) \in Seq(Cl) /\ Len(SubSeq(Reads(S.th, args), 1, n)) = n - 1 + 1
    BY <1>1, <1>2, <2>1, ReadsSubSeq
  <2> QED BY <2>1, <2>2 DEF Before, n
<1>6. Reads(S.th, args) = Append(before, m)
  BY <1>1, <1>2, ReadsLast DEF Before, n
<1>7. Val(S.th, h, env, args) = mk_apps(h, Append(before, m))
  BY <1>2, <1>6, ConstVal
<1>8. Recursor(h.c, d, before)
  BY <1>5 DEF Recursor, AtRec, n
<1> QED BY <1>1, <1>2, <1>3, <1>4, <1>5, <1>6, <1>7, <1>8 DEF n

\* The recursor on another major premise.
LEMMA RecMajor ==
  ASSUME Hyp, NEW X, NEW S, NEW d, NEW args, NEW rest, AtRec(S, d, args, rest, X), NEW m \in Cl,
         normal(mk_apps(h, Append(Before(S, d, args), m)))
           = normal(mk_apps(h, Append(Before(S, d, args), readback(S.th, args[rec_major_idx(d) + 1])))),
         NEW k, k = rec_major_idx(d) + 1
  PROVE  LET R == MkClosed(S, m)
             b == Put(args, k, Made(R))
         IN AtRec(R, d, b, rest, X) /\ b[k] = Made(R)
<1> USE DEF Hyp
<1> DEFINE n == rec_major_idx(d)
           e0 == <<>>
           R == MkClosed(S, m)
           b == Put(args, n + 1, Made(R))
           before == Before(S, d, args)
           x == readback(S.th, args[n + 1])
<1>0. normal(mk_apps(h, Append(before, m))) = normal(mk_apps(h, Append(before, x)))
  OBVIOUS
<1>1. /\ n \in Nat /\ Made_OK(S, X) /\ Len(args) = n + 1 /\ Moves(heap, S.th) /\ args \in Seq(0..Len(S.th))
      /\ Run(S.th, h, env, args, rest, of, X) /\ h.k = "const" /\ Written(S.th) /\ Scoped(h, env, Len(S.th))
      /\ Reads(S.th, args) = Append(before, x) /\ Val(S.th, h, env, args) = mk_apps(h, Append(before, x))
  BY RecIs DEF AtRec
<1> HIDE DEF x
<1>2. before = SubSeq(Reads(S.th, args), 1, n)
  BY DEF Before
<1> HIDE DEF before, n
<1>3. Scoped(m, e0, Len(S.th)) /\ readback_closure(S.th, m, e0) = m /\ R = mk_thunk(S, m, e0)
  BY <1>1, ReadClosedTerm DEF MkClosed
<1> HIDE DEF R, e0
<1>4. /\ Made_OK(R, X) /\ Written(R.th) /\ Grows(S.th, R.th) /\ Extends(S.th, R.th) /\ Moves(S.th, R.th)
      /\ Made(R) \in 0..Len(R.th) /\ readback(R.th, Made(R)) = m
  BY <1>1, <1>3, MkOne
<1>5. Run(R.th, h, env, args, rest, of, X) /\ Val(R.th, h, env, args) = mk_apps(h, Append(before, x))
  BY <1>1, <1>4, RunGrows
<1>6. args \in Seq(0..Len(R.th)) /\ Reads(R.th, args) = Reads(S.th, args) /\ Scoped(h, env, Len(R.th))
  BY <1>1, <1>4, ReadsExtends, ClosureExtends
<1>7. b \in Seq(0..Len(R.th)) /\ Len(b) = n + 1 /\ b[n + 1] = Made(R) /\ \A i \in 1..n : b[i] = args[i]
  <2>1. n + 1 \in 1..Len(args) /\ DOMAIN args = 1..Len(args)
    BY <1>1
  <2> QED BY <1>1, <1>4, <1>6, <2>1 DEF Put
<1> HIDE DEF b
<1>8. Reads(R.th, b) = Append(SubSeq(Reads(R.th, b), 1, n), m)
  BY <1>1, <1>4, <1>7, ReadsLast
<1>9. SubSeq(Reads(R.th, b), 1, n) = before
  <2>1. n <= Len(b) /\ n <= Len(args) /\ n \in Nat /\ Written(R.th)
    BY <1>1, <1>4, <1>7
  <2>a. Reads(R.th, SubSeq(b, 1, n)) = SubSeq(Reads(R.th, b), 1, n)
    BY <1>7, <2>1, ReadsFront
  <2>b. Reads(R.th, SubSeq(args, 1, n)) = SubSeq(Reads(R.th, args), 1, n)
    BY <1>6, <2>1, ReadsFront
  <2>3. SubSeq(b, 1, n) \in Seq(0..Len(R.th)) /\ Len(SubSeq(b, 1, n)) = n /\ \A i \in 1..n : SubSeq(b, 1, n)[i] = b[i]
    BY <1>7, <2>1, FrontIs
  <2>4. SubSeq(args, 1, n) \in Seq(0..Len(R.th)) /\ Len(SubSeq(args, 1, n)) = n /\ \A i \in 1..n : SubSeq(args, 1, n)[i] = args[i]
    BY <1>6, <2>1, FrontIs
  <2>5. \A i \in 1..n : SubSeq(b, 1, n)[i] = SubSeq(args, 1, n)[i]
    BY <1>7, <2>3, <2>4
  <2>6. SubSeq(b, 1, n) = SubSeq(args, 1, n)
    BY <2>3, <2>4, <2>5, SameSeq, SeqListed
  <2> QED BY <1>2, <1>6, <2>a, <2>b, <2>6
<1>10. Val(R.th, h, env, b) = mk_apps(h, Append(before, m))
  <2>1. Val(R.th, h, env, b) = mk_apps(h, Reads(R.th, b))
    BY <1>1, <1>4, <1>6, ConstVal
  <2> QED BY <1>8, <1>9, <2>1
<1>11. Run(R.th, h, env, b, rest, of, X)
  BY <1>0, <1>5, <1>6, <1>7, <1>10, NewHead
<1>12. Moves(heap, R.th)
  BY <1>1, <1>4, ExtendsTrans
<1>13. AtRec(R, d, b, rest, X) /\ b[n + 1] = Made(R)
  BY <1>4, <1>7, <1>11, <1>12 DEF AtRec, n
<1> QED BY <1>13 DEF R, b, n

\* The laws of the recursor.
LEMMA RecLaws ==
  ASSUME Hyp, NEW d, NEW before \in Seq(Cl), Recursor(h.c, d, before), h = Const(h.c), NEW m \in Cl
  PROVE  /\ d.k => to_ctor_when_K(d, m) \in Cl
                   /\ normal(mk_apps(h, Append(before, to_ctor_when_K(d, m)))) = normal(mk_apps(h, Append(before, m)))
         /\ to_ctor_when_struct(d, m) \in Cl
         /\ normal(mk_apps(h, Append(before, to_ctor_when_struct(d, m)))) = normal(mk_apps(h, Append(before, m)))
<1> USE DEF Hyp
<1>1. h.c \in DOMAIN Decls /\ Decls[h.c].kind = "rec" /\ d = Decls[h.c] /\ Recursor(h.c, Decls[h.c], before)
  BY DEF Recursor
<1>2. /\ d.k => to_ctor_when_K(d, m) \in Term
      /\ to_ctor_when_struct(d, m) \in Term
  BY <1>1 DEF TermHyp, Complete
<1>3. /\ d.k => /\ loose_bvar_range(to_ctor_when_K(d, m)) = 0
                /\ normal(mk_apps(Const(h.c), Append(before, to_ctor_when_K(d, m)))) = normal(mk_apps(Const(h.c), Append(before, m)))
      /\ loose_bvar_range(to_ctor_when_struct(d, m)) = 0
      /\ normal(mk_apps(Const(h.c), Append(before, to_ctor_when_struct(d, m)))) = normal(mk_apps(Const(h.c), Append(before, m)))
  BY <1>1 DEF ReductionHyp, RecursorLaws
<1> QED BY <1>2, <1>3 DEF Cl, Closed

\* The major premise as the machine first looks at it.
LEMMA MajorOK ==
  ASSUME Hyp, NEW X, NEW T, NEW d, AtRec(Store(T.th), d, T.args, T.rest, X)
  PROVE  LET i == rec_major_idx(d) + 1
             P == WithMajor(T, i, KMajor(d, T, i))
         IN AtRec(P.S, d, P.args, T.rest, X)
<1> USE DEF Hyp
<1> DEFINE n == rec_major_idx(d)
           S == Store(T.th)
           m == readback(T.th, T.args[n + 1])
           m2 == KMajor(d, T, n + 1)
           before == Before(S, d, T.args)
           P == WithMajor(T, n + 1, m2)
<1>0. S.th = T.th /\ AtRec(S, d, T.args, T.rest, X)
  BY DEF Store
<1>1. m \in Cl /\ before \in Seq(Cl) /\ Recursor(h.c, d, before) /\ h = Const(h.c)
  <2> HIDE DEF S
  <2> QED BY <1>0, RecIs
<1>2. m2 \in Cl /\ normal(mk_apps(h, Append(before, m2))) = normal(mk_apps(h, Append(before, m)))
  <2>1. m2 = m \/ (d.k /\ m2 = to_ctor_when_K(d, m))
    BY DEF KMajor
  <2> HIDE DEF before, m, m2
  <2> QED BY <1>1, <2>1, RecLaws
<1> HIDE DEF m2
<1>3. CASE m2 = m
  <2>1. P = [S |-> S, args |-> T.args]
    BY <1>3 DEF WithMajor
  <2> HIDE DEF S, P
  <2>2. P.S = S /\ P.args = T.args
    BY <2>1
  <2>3. AtRec(P.S, d, P.args, T.rest, X)
    BY <2>2 DEF S
  <2> QED BY <2>3 DEF P, m2
<1>4. CASE m2 # m
  <2> DEFINE R == MkClosed(S, m2)
             b == Put(T.args, n + 1, Made(R))
  <2>1. P = [S |-> R, args |-> b]
    BY <1>4 DEF WithMajor, MkClosed, Put
  <2>2. AtRec(R, d, b, T.rest, X)
    <3>1. AtRec(S, d, T.args, T.rest, X) /\ normal(mk_apps(h, Append(before, m2))) = normal(mk_apps(h, Append(before, readback(S.th, T.args[n + 1]))))
      BY <1>0, <1>2
    <3> HIDE DEF S
    <3> QED BY <1>2, <3>1, RecMajor
  <2> HIDE DEF R, b, P
  <2>3. P.S = R /\ P.args = b
    BY <2>1
  <2> QED BY <2>2, <2>3 DEF P, m2
<1> QED BY <1>3, <1>4

\* A thunk with a value is no placeholder.
LEMMA CellIs ==
  ASSUME NEW th, NEW n \in Nat, NEW a \in 0..n, Cell(th, a).state # 0
  PROVE  a \in 1..n /\ Cell(th, a) = th[a]
<1>1. a # 0
  BY PlaceholderIs
<1>2. Cell(th, a) = th[a]
  BY ONLY <1>1 DEF Cell, unused_cell
<1> QED BY <1>1, <1>2

\* A value is equal to what the thunk was written as.
LEMMA CellValue ==
  ASSUME Hyp, NEW th, HeapOK(th), NEW a \in 1..Len(th), th[a].state = 3
  PROVE  /\ readback_value(th, Cell(th, a)) \in Cl
         /\ normal(readback_value(th, Cell(th, a))) = normal(readback(th, a))
<1> USE DEF Hyp
<1>0. Written(th) /\ a # 0
  BY WrittenIs DEF HeapOK
<1>a. Cell(th, a) = th[a]
  BY ONLY <1>0 DEF Cell, unused_cell
<1>1. Cell(th, a) = th[a] /\ ValueOK(th, a) /\ Written(th)
  BY <1>0, <1>a DEF HeapOK
<1>2. readback_value(th, th[a]) = Val(th, th[a].vterm, th[a].venv, th[a].args)
  BY <1>1, ReadbackValue DEF ValueOK
<1> QED BY <1>1, <1>2, ValIs DEF ValueOK

\* An equal last argument.
LEMMA LastSame ==
  ASSUME TermHyp, ReductionHyp, NEW f \in Cl, NEW s \in Seq(Cl), NEW x \in Cl, NEW y \in Cl, normal(x) = normal(y)
  PROVE  normal(mk_apps(f, Append(s, x))) = normal(mk_apps(f, Append(s, y)))
<1>1. mk_apps(f, s) \in Cl
  BY AppsClosed
<1>2. mk_apps(f, Append(s, x)) = mk_apps(mk_apps(f, s), <<x>>) /\ mk_apps(f, Append(s, y)) = mk_apps(mk_apps(f, s), <<y>>)
  BY AppsClosed
<1>3. <<x>> \in Seq(Cl) /\ <<y>> \in Seq(Cl) /\ Len(<<x>>) = Len(<<y>>)
  OBVIOUS
<1>4. \A i \in 1..Len(<<y>>) : normal(<<x>>[i]) = normal(<<y>>[i])
  OBVIOUS
<1>5. normal(mk_apps(mk_apps(f, s), <<x>>)) = normal(mk_apps(mk_apps(f, s), <<y>>))
  BY <1>1, <1>3, <1>4, AppsSame
<1> QED BY <1>2, <1>5

\* The major premise is a value of a structure, and is expanded.
LEMMA EtaOK ==
  ASSUME Hyp, NEW X, NEW S, NEW d, NEW args, NEW rest, AtRec(S, d, args, rest, X),
         NEW k, k = rec_major_idx(d) + 1, args[k] \in 1..Len(S.th), S.th[args[k]].state = 3,
         NEW eta, eta = to_ctor_when_struct(d, readback_value(S.th, Cell(S.th, args[k]))),
         NEW R, R = MkClosed(S, eta), force_via(Put(args, k, Made(R)), k, rest, R)
  PROVE  Proceeds(X, of)
<1> USE DEF Hyp
<1> DEFINE a == args[k]
           v == readback_value(S.th, Cell(S.th, a))
           before == Before(S, d, args)
           m == readback(S.th, a)
           b == Put(args, k, Made(R))
<1>1. /\ HeapOK(S.th) /\ before \in Seq(Cl) /\ m \in Cl /\ h \in Cl /\ h = Const(h.c) /\ of \in Cl
      /\ Recursor(h.c, d, before)
  BY RecIs, StoreIs
<1>2. v \in Cl /\ normal(v) = normal(m)
  BY <1>1, CellValue
<1>3. a = args[rec_major_idx(d) + 1]
  OBVIOUS
<1> HIDE DEF v, m
<1>4. eta \in Cl /\ normal(mk_apps(h, Append(before, eta))) = normal(mk_apps(h, Append(before, v)))
  BY <1>1, <1>2, RecLaws DEF v
<1>5. normal(mk_apps(h, Append(before, v))) = normal(mk_apps(h, Append(before, m)))
  BY <1>1, <1>2, LastSame
<1>6. AtRec(R, d, b, rest, X) /\ b[k] = Made(R)
  <2>1. normal(mk_apps(h, Append(Before(S, d, args), eta)))
           = normal(mk_apps(h, Append(Before(S, d, args), readback(S.th, args[rec_major_idx(d) + 1]))))
    BY <1>3, <1>4, <1>5 DEF m
  <2> QED BY <1>4, <2>1, RecMajor
<1> HIDE DEF b
<1>7. /\ StoreOK(R.th, R.cl, X) /\ Moves(heap, R.th) /\ Run(R.th, h, env, b, rest, of, X) /\ b[k] \in 0..Len(R.th)
  BY <1>6, RecIs
<1>8. enter(b[k], <<Cont(h, env, b, delta)>> \o rest, TRUE, R)
  BY DEF force_via, b
<1> QED BY <1>1, <1>7, <1>8, Waits

\* The rule of the constructor is found: its right-hand side is to be applied to the
\* arguments bs and the fields.
Fires(S, rhs, bs, fields, rest, X) ==
  /\ Made_OK(S, X) /\ Moves(heap, S.th) /\ rhs \in Cl
  /\ bs \in Seq(0..Len(S.th)) /\ fields \in Seq(0..Len(S.th))
  /\ Run(S.th, rhs, <<>>, bs \o fields, rest, of, X)

\* The major premise of d is the constructor application c, which has a rule.
Applies(S, d, args, c) ==
  /\ LET a == args[rec_major_idx(d) + 1] IN a \in 1..Len(S.th) /\ S.th[a].state = 3 /\ c = lit_ctor(S, a)
  /\ IsConst(c.hd) /\ c.hd.c \in DOMAIN d.rules /\ d.rules[c.hd.c].nfields <= Len(c.args)
RuleOf(d, c) == d.rules[c.hd.c]
Fields(d, c) == SubSeq(c.args, Len(c.args) - RuleOf(d, c).nfields + 1, Len(c.args))
Params(d, args) == SubSeq(args, 1, d.nbefore)

LEMMA AppliesIs ==
  ASSUME Hyp, NEW X, NEW S, NEW d, NEW args, NEW rest, AtRec(S, d, args, rest, X), NEW c, Applies(S, d, args, c)
  PROVE  LET before == Before(S, d, args)
             m == readback(S.th, args[rec_major_idx(d) + 1])
             th == c.S.th
         IN /\ Made_OK(c.S, X) /\ Written(th) /\ Moves(heap, th)
            /\ Run(th, h, env, args, rest, of, X) /\ Val(th, h, env, args) = mk_apps(h, Append(before, m))
            /\ args \in Seq(0..Len(th)) /\ Reads(th, args) = Append(before, m)
            /\ c.args \in Seq(0..Len(th)) /\ c.hd \in Cl /\ c.hd = Const(c.hd.c)
            /\ normal(mk_apps(c.hd, Reads(th, c.args))) = normal(m)
<1> USE DEF Hyp
<1> DEFINE a == args[rec_major_idx(d) + 1]
           before == Before(S, d, args)
           m == readback(S.th, a)
<1>1. a \in 1..Len(S.th) /\ S.th[a].state = 3 /\ c = lit_ctor(S, a) /\ IsConst(c.hd)
  BY DEF Applies
<1>2. /\ Made_OK(S, X) /\ args \in Seq(0..Len(S.th)) /\ Moves(heap, S.th)
      /\ Run(S.th, h, env, args, rest, of, X) /\ Val(S.th, h, env, args) = mk_apps(h, Append(before, m))
      /\ Reads(S.th, args) = Append(before, m)
  BY RecIs
<1> DEFINE b == a
<1>3. m = readback(S.th, b) /\ b \in 1..Len(S.th) /\ S.th[b].state = 3 /\ c = lit_ctor(S, b)
  BY <1>1
<1>b. c = lit_ctor(S, b) /\ IsConst(c.hd) /\ m = readback(S.th, b)
  BY <1>1, <1>3
<1> HIDE DEF a, b, m, before
<1>4. /\ Made_OK(c.S, X) /\ Written(c.S.th) /\ Extends(S.th, c.S.th) /\ Moves(S.th, c.S.th)
      /\ Run(c.S.th, h, env, args, rest, of, X) /\ Val(c.S.th, h, env, args) = Val(S.th, h, env, args)
      /\ c.args \in Seq(0..Len(c.S.th)) /\ c.hd \in Cl /\ c.hd = Const(c.hd.c)
      /\ normal(mk_apps(c.hd, Reads(c.S.th, c.args))) = normal(m)
  <2> DEFINE v == lit_ctor(S, b)
  <2>1. /\ Made_OK(v.S, X) /\ StoreOK(v.S.th, v.S.cl, X) /\ Written(v.S.th)
        /\ Grows(S.th, v.S.th) /\ Extends(S.th, v.S.th) /\ Moves(S.th, v.S.th)
        /\ Run(v.S.th, h, env, args, rest, of, X) /\ Val(v.S.th, h, env, args) = Val(S.th, h, env, args)
        /\ v.args \in Seq(0..Len(v.S.th))
        /\ IsConst(v.hd) => /\ v.hd \in Cl /\ v.hd = Const(v.hd.c)
                            /\ normal(mk_apps(v.hd, Reads(v.S.th, v.args))) = normal(readback(S.th, b))
    BY <1>2, <1>3, LitCtor
  <2> HIDE DEF v
  <2>2. v = c
    BY <1>b DEF v
  <2> QED BY <1>b, <2>1, <2>2
<1>5. args \in Seq(0..Len(c.S.th)) /\ Reads(c.S.th, args) = Append(before, m)
  BY <1>2, <1>4, ReadsExtends
<1>6. Moves(heap, c.S.th)
  BY <1>2, <1>4, ExtendsTrans
<1> QED BY <1>2, <1>4, <1>5, <1>6 DEF m, before, a

\* The last n arguments.
LEMMA BackIs ==
  ASSUME TermHyp, Recursion, NEW th, Written(th), NEW s \in Seq(0..Len(th)), NEW n \in Nat, n <= Len(s)
  PROVE  LET t == SubSeq(s, Len(s) - n + 1, Len(s))
             r == Reads(th, s)
         IN t \in Seq(0..Len(th)) /\ Len(t) = n /\ Reads(th, t) = SubSeq(r, Len(r) - n + 1, Len(r))
<1> DEFINE p == Len(s) - n + 1
           q == Len(s)
<1>1. Len(s) \in Nat /\ Len(Reads(th, s)) = q
  BY ArgsRead
<1>2. p \in Nat /\ q \in Nat /\ p >= 1 /\ q <= Len(s) /\ p <= q + 1 /\ q - p + 1 = n
  BY <1>1
<1>3. p = Len(Reads(th, s)) - n + 1
  BY <1>1
<1> HIDE DEF p, q
<1>4. /\ Reads(th, SubSeq(s, p, q)) = SubSeq(Reads(th, s), p, q)
      /\ SubSeq(s, p, q) \in Seq(0..Len(th)) /\ Len(SubSeq(s, p, q)) = q - p + 1
  BY <1>2, ReadsSubSeq
<1>5. p = Len(s) - n + 1 /\ q = Len(s)
  BY DEF p, q
<1> QED BY <1>1, <1>2, <1>3, <1>4, <1>5

\* The first n of all but the last.
LEMMA FrontAppend ==
  ASSUME NEW S, NEW s \in Seq(S), NEW x \in S, NEW n \in Nat, n <= Len(s)
  PROVE  SubSeq(Append(s, x), 1, n) = SubSeq(s, 1, n)
<1> DEFINE q == Append(s, x)
<1>1. q \in Seq(S) /\ n <= Len(q) /\ \A i \in 1..n : q[i] = s[i]
  OBVIOUS
<1> HIDE DEF q
<1>2. SubSeq(q, 1, n) \in Seq(S) /\ Len(SubSeq(q, 1, n)) = n /\ \A i \in 1..n : SubSeq(q, 1, n)[i] = q[i]
  BY <1>1, FrontIs
<1>3. SubSeq(s, 1, n) \in Seq(S) /\ Len(SubSeq(s, 1, n)) = n /\ \A i \in 1..n : SubSeq(s, 1, n)[i] = s[i]
  BY FrontIs
<1>4. SubSeq(q, 1, n) = SubSeq(s, 1, n)
  BY <1>1, <1>2, <1>3, SameSeq, SeqListed
<1> QED BY <1>4 DEF q

LEMMA RuleFires ==
  ASSUME Hyp, NEW X, NEW S, NEW d, NEW args, NEW rest, AtRec(S, d, args, rest, X), NEW c, Applies(S, d, args, c)
  PROVE  /\ Fires(c.S, RuleOf(d, c).rhs, Params(d, args), Fields(d, c), rest, X)
         /\ Len(Params(d, args)) = d.nbefore /\ Len(Fields(d, c)) = RuleOf(d, c).nfields
<1> USE DEF Hyp
<1> DEFINE n == rec_major_idx(d)
           before == Before(S, d, args)
           m == readback(S.th, args[n + 1])
           th == c.S.th
           fs == Reads(th, c.args)
           k == c.hd.c
           x == mk_apps(c.hd, fs)
           r == RuleOf(d, c)
           fields == Fields(d, c)
           bs == Params(d, args)
<1>1. /\ n \in Nat /\ d.nbefore \in Nat /\ d.nbefore <= n
      /\ before \in Seq(Cl) /\ Len(before) = n /\ m \in Cl /\ h \in Cl /\ h = Const(h.c) /\ of \in Cl
      /\ Recursor(h.c, d, before) /\ Len(args) = n + 1
      /\ \A j \in DOMAIN d.rules : d.rules[j].nfields \in Nat /\ d.rules[j].rhs \in Cl
  BY RecIs
<1>2. /\ Made_OK(c.S, X) /\ Written(th) /\ Moves(heap, th)
      /\ Run(th, h, env, args, rest, of, X) /\ Val(th, h, env, args) = mk_apps(h, Append(before, m))
      /\ args \in Seq(0..Len(th)) /\ Reads(th, args) = Append(before, m)
      /\ c.args \in Seq(0..Len(th)) /\ c.hd \in Cl /\ c.hd = Const(k) /\ normal(x) = normal(m)
  BY AppliesIs
<1>3. k \in DOMAIN d.rules /\ r = d.rules[k] /\ r.nfields <= Len(c.args) /\ r.nfields \in Nat /\ r.rhs \in Cl
  BY <1>1 DEF Applies, RuleOf
<1> HIDE DEF m, n, r, th
<1>4. fs \in Seq(Cl) /\ Len(fs) = Len(c.args) /\ Len(c.args) \in Nat
  BY <1>2, ArgsRead
<1>a. x \in Cl
  BY <1>2, <1>4, AppsClosed
<1> HIDE DEF fs, x
<1>5. normal(mk_apps(h, Append(before, x))) = normal(mk_apps(h, Append(before, m)))
  BY <1>1, <1>2, <1>a, LastSame
<1> DEFINE xs == SubSeq(before, 1, d.nbefore)
           ys == SubSeq(fs, Len(fs) - r.nfields + 1, Len(fs))
<1>6. normal(mk_apps(h, Append(before, x))) = normal(mk_apps(r.rhs, xs \o ys))
  <2>1. h.c \in DOMAIN Decls /\ Recursor(h.c, Decls[h.c], before) /\ d = Decls[h.c]
    BY <1>1 DEF Recursor
  <2>2. k \in DOMAIN Decls[h.c].rules /\ Decls[h.c].rules[k].nfields <= Len(fs) /\ r = Decls[h.c].rules[k]
    BY <1>3, <1>4, <2>1
  <2> DEFINE D == Decls[h.c]
             On(y) == normal(mk_apps(Const(h.c), Append(before, y)))
  <2>3. \A j \in DOMAIN D.rules, gs \in Seq(Cl) : D.rules[j].nfields <= Len(gs) =>
            On(mk_apps(Const(j), gs)) =
              normal(mk_apps(D.rules[j].rhs,
                SubSeq(before, 1, D.nbefore) \o SubSeq(gs, Len(gs) - D.rules[j].nfields + 1, Len(gs))))
    BY <1>1, <2>1 DEF ReductionHyp, RecursorLaws
  <2> HIDE DEF On
  <2>4. On(mk_apps(Const(k), fs)) = normal(mk_apps(D.rules[k].rhs,
                SubSeq(before, 1, D.nbefore) \o SubSeq(fs, Len(fs) - D.rules[k].nfields + 1, Len(fs))))
    BY <1>4, <2>2, <2>3
  <2>5. On(x) = normal(mk_apps(h, Append(before, x)))
    BY <1>1 DEF On
  <2>6. x = mk_apps(Const(k), fs)
    BY <1>2 DEF x
  <2> QED BY <2>1, <2>2, <2>4, <2>5, <2>6
<1>7. /\ bs \in Seq(0..Len(th)) /\ Len(bs) = d.nbefore /\ Reads(th, bs) = SubSeq(Append(before, m), 1, d.nbefore)
  <2>1. d.nbefore <= Len(args)
    BY <1>1
  <2>2. /\ Reads(th, SubSeq(args, 1, d.nbefore)) = SubSeq(Reads(th, args), 1, d.nbefore)
        /\ SubSeq(args, 1, d.nbefore) \in Seq(0..Len(th)) /\ Len(SubSeq(args, 1, d.nbefore)) = d.nbefore
    <3>1. args \in Seq(0..Len(th)) /\ Written(th) /\ d.nbefore \in Nat /\ d.nbefore <= Len(args)
      BY <1>1, <1>2, <2>1
    <3> DEFINE j == d.nbefore
    <3> HIDE DEF j
    <3>2. j \in Nat /\ j <= Len(args)
      BY <3>1 DEF j
    <3>3. /\ Reads(th, SubSeq(args, 1, j)) = SubSeq(Reads(th, args), 1, j)
          /\ SubSeq(args, 1, j) \in Seq(0..Len(th)) /\ Len(SubSeq(args, 1, j)) = j
      BY <3>1, <3>2, ReadsFront
    <3> QED BY <3>3 DEF j
  <2> QED BY <1>2, <2>2 DEF Params
<1>8. SubSeq(Append(before, m), 1, d.nbefore) = xs
  BY <1>1, FrontAppend
<1>9. fields \in Seq(0..Len(th)) /\ Len(fields) = r.nfields /\ Reads(th, fields) = ys
  BY <1>2, <1>3, BackIs DEF Fields, r, fs
<1> HIDE DEF xs, ys, before, bs, fields
<1> DEFINE e0 == <<>>
           o2 == bs \o fields
<1>10. Scoped(r.rhs, e0, Len(th)) /\ readback_closure(th, r.rhs, e0) = r.rhs
  BY <1>2, <1>3, ReadClosedTerm
<1>11. Reads(th, o2) = xs \o ys /\ o2 \in Seq(0..Len(th))
  <2>1. Reads(th, bs \o fields) = Reads(th, bs) \o Reads(th, fields) /\ bs \o fields \in Seq(0..Len(th))
    BY <1>2, <1>7, <1>9, ReadsJoin
  <2> QED BY <1>7, <1>8, <1>9, <2>1
<1> HIDE DEF e0, o2
<1>12. normal(Val(th, r.rhs, e0, o2)) = normal(Val(th, h, env, args))
  BY <1>2, <1>5, <1>6, <1>10, <1>11 DEF Val
<1>13. Run(th, r.rhs, e0, o2, rest, of, X)
  BY <1>2, <1>10, <1>11, <1>12, NewHead
<1>14. /\ Made_OK(c.S, X) /\ Moves(heap, c.S.th) /\ r.rhs \in Cl
       /\ bs \in Seq(0..Len(c.S.th)) /\ fields \in Seq(0..Len(c.S.th))
       /\ Run(c.S.th, r.rhs, <<>>, bs \o fields, rest, of, X)
  BY <1>2, <1>3, <1>7, <1>9, <1>13 DEF e0, o2, th
<1> QED BY <1>7, <1>9, <1>14 DEF Fires, r, bs, fields

\* The rule is applied.
LEMMA ApplyOK ==
  ASSUME Hyp, NEW X, NEW S, NEW d, NEW r, NEW args, NEW fields, NEW rest,
         Fires(S, r.rhs, Params(d, args), fields, rest, X), ApplyRule(S, d, r, args, fields, rest)
  PROVE  Proceeds(X, of)
<1> DEFINE o == Params(d, args) \o fields
<1>1. Made_OK(S, X) /\ Moves(heap, S.th) /\ Run(S.th, r.rhs, <<>>, o, rest, of, X)
  BY DEF Fires
<1>2. h' = r.rhs /\ env' = <<>> /\ pc' = "step" /\ st' = ArgFrames(o) \o rest /\ heap' = S.th /\ closed' = S.cl
  BY DEF ApplyRule, Becomes, Keep, Params
<1> DEFINE e0 == <<>>
<1>3. Run(S.th, r.rhs, e0, o, rest, of, X) /\ env' = e0
  BY <1>1, <1>2
<1> HIDE DEF o, e0
<1>4. StoreOK(S.th, S.cl, X) /\ Written(S.th)
  BY <1>1, StoreIs DEF Made_OK
<1>5. Run(S.th, r.rhs, e0, <<>>, ArgFrames(o) \o rest, of, X)
  BY <1>3, <1>4, PushArgs
<1> QED BY <1>1, <1>2, <1>3, <1>4, <1>5 DEF Proceeds

LEMMA ReverseJoin ==
  ASSUME NEW S, NEW r \in Seq(S), NEW s \in Seq(S)
  PROVE  Reverse(r \o s) = Reverse(s) \o Reverse(r) /\ r \o s \in Seq(S) /\ Len(r \o s) = Len(r) + Len(s)
<1> DEFINE t == r \o s
           p == Reverse(s)
           q == Reverse(r)
           u == p \o q
           v == Reverse(t)
<1>1. Listed(r) /\ Listed(s) /\ Len(r) \in Nat /\ Len(s) \in Nat
  BY SeqListed
<1>2. Joins(t, r, s)
  BY <1>1, Joined
<1>3. t \in Seq(S)
  OBVIOUS
<1> HIDE DEF t
<1>4. v \in Seq(S) /\ Len(v) = Len(t) /\ \A i \in 1..Len(t) : v[i] = t[Len(t) - i + 1]
  BY <1>3, Reversed
<1>5. /\ p \in Seq(S) /\ Len(p) = Len(s) /\ \A i \in 1..Len(s) : p[i] = s[Len(s) - i + 1]
      /\ q \in Seq(S) /\ Len(q) = Len(r) /\ \A i \in 1..Len(r) : q[i] = r[Len(r) - i + 1]
  BY Reversed
<1> HIDE DEF p, q, v
<1>6. Joins(u, p, q)
  BY <1>5, Joined, SeqListed
<1> HIDE DEF u
<1>7. Len(t) = Len(r) + Len(s) /\ Len(u) = Len(t)
  BY <1>1, <1>2, <1>5, <1>6 DEF Joins
<1>8. ASSUME NEW i \in 1..Len(v) PROVE v[i] = u[i]
  <2>0. i \in 1..(Len(r) + Len(s))
    BY <1>4, <1>7
  <2>1. v[i] = t[Len(t) - i + 1] /\ Len(t) - i + 1 = Len(r) + Len(s) - i + 1 /\ Len(t) - i + 1 \in 1..Len(t)
    BY <1>1, <1>4, <1>7, <2>0
  <2>2. CASE i <= Len(s)
    <3>1. i \in 1..Len(s) /\ Len(s) - i + 1 \in 1..Len(s)
      BY <1>1, <2>0, <2>2
    <3>2. u[i] = s[Len(s) - i + 1]
      BY <1>5, <1>6, <3>1 DEF Joins
    <3>3. t[Len(r) + (Len(s) - i + 1)] = s[Len(s) - i + 1]
      BY <1>2, <3>1 DEF Joins
    <3>4. Len(r) + (Len(s) - i + 1) = Len(t) - i + 1
      BY <1>1, <1>7, <2>0
    <3> QED BY <2>1, <3>2, <3>3, <3>4
  <2>3. CASE ~(i <= Len(s))
    <3> DEFINE j == i - Len(s)
    <3>1. j \in 1..Len(r) /\ Len(r) - j + 1 \in 1..Len(r) /\ Len(s) + j = i /\ Len(r) - j + 1 = Len(t) - i + 1
      BY <1>1, <1>7, <2>0, <2>3
    <3> HIDE DEF j
    <3>2. u[i] = r[Len(r) - j + 1]
      BY <1>5, <1>6, <3>1 DEF Joins
    <3>3. t[Len(r) - j + 1] = r[Len(r) - j + 1]
      BY <1>2, <3>1 DEF Joins
    <3> QED BY <2>1, <3>1, <3>2, <3>3
  <2> QED BY <2>2, <2>3
<1>9. v = u
  BY <1>4, <1>6, <1>7, <1>8, SameSeq, SeqListed DEF Joins
<1> QED BY <1>3, <1>7, <1>9 DEF v, u, p, q, t

\* A function on as many arguments as it has binders.
LEMMA BranchBody ==
  ASSUME Hyp, NEW t \in Term, NEW s \in Seq(Cl), loose_bvar_range(t) <= Len(s),
         NEW q \in Cl, normal(q) = normal(Inst(t, s)), NEW ys \in Seq(Cl), NEW n \in Nat, Len(ys) = n, strip(t, n) # Nil
  PROVE  LET b == strip(t, n)
         IN /\ b \in Term /\ loose_bvar_range(b) <= n + Len(s)
            /\ normal(mk_apps(q, ys)) = normal(Inst(b, Reverse(ys) \o s))
<1> USE DEF Hyp
<1> DEFINE b == strip(t, n)
<1>1. b \in Term /\ loose_bvar_range(b) <= loose_bvar_range(t) + n /\ loose_bvar_range(t) \in Nat /\ loose_bvar_range(b) \in Nat
  BY DEF TermHyp, Binders, Grammar
<1>2. Len(s) \in Nat
  OBVIOUS
<1>3. loose_bvar_range(b) <= n + Len(s)
  BY <1>1, <1>2
<1>4. normal(mk_apps(Inst(t, s), ys)) = normal(Inst(strip(t, Len(ys)), Reverse(ys) \o s))
  BY DEF ReductionHyp, BetaLaw
<1>5. normal(mk_apps(q, ys)) = normal(mk_apps(Inst(t, s), ys))
  <2>1. Inst(t, s) \in Cl
    BY InstClosed
  <2>2. \A i \in 1..Len(ys) : normal(ys[i]) = normal(ys[i])
    OBVIOUS
  <2> QED BY <2>1, <2>2, AppsSame
<1> QED BY <1>1, <1>3, <1>4, <1>5

\* An application of a variable under an environment.
LEMMA SpineInst ==
  ASSUME Hyp, NEW b \in Term, NEW s \in Seq(Cl), loose_bvar_range(b) <= Len(s), get_app_fn(b).k = "bvar"
  PROVE  LET a == get_app_args(b)
             j == get_app_fn(b).i
             v == [i \in 1..Len(a) |-> Inst(a[i], s)]
         IN /\ j + 1 \in 1..Len(s) /\ a \in Seq(Term) /\ v \in Seq(Cl) /\ Len(v) = Len(a)
            /\ \A i \in 1..Len(a) : v[i] = Inst(a[i], s) /\ a[i] \in Term /\ loose_bvar_range(a[i]) <= Len(s)
            /\ Inst(b, s) = mk_apps(s[j + 1], v)
<1> USE DEF Hyp
<1> DEFINE a == get_app_args(b)
           hd == get_app_fn(b)
           v == [i \in 1..Len(a) |-> Inst(a[i], s)]
<1>1. Inst(b, s) = mk_apps(Inst(hd, s), v)
  BY DEF TermHyp, Substitution
<1>2. /\ hd \in Term /\ loose_bvar_range(hd) <= loose_bvar_range(b) /\ a \in Seq(Term)
      /\ \A i \in DOMAIN a : loose_bvar_range(a[i]) <= loose_bvar_range(b)
  BY DEF TermHyp, Spines
<1> HIDE DEF a, hd
<1>3. \A t \in Term : loose_bvar_range(t) \in Nat
  BY DEF TermHyp, Grammar
<1>4. Len(s) \in Nat /\ Len(a) \in Nat /\ DOMAIN a = 1..Len(a)
  BY <1>2
<1>5. hd.i \in Nat /\ loose_bvar_range(hd) = hd.i + 1
  BY <1>2 DEF TermHyp, Grammar, hd
<1>6. loose_bvar_range(hd) <= Len(s) /\ hd.i + 1 \in 1..Len(s)
  BY <1>2, <1>3, <1>4, <1>5
<1>7. Inst(hd, s) = s[hd.i + 1]
  BY <1>2, <1>6 DEF TermHyp, Substitution, hd
<1>8. \A i \in 1..Len(a) : a[i] \in Term /\ loose_bvar_range(a[i]) <= Len(s)
  BY <1>2, <1>3, <1>4
<1>9. \A i \in 1..Len(a) : Inst(a[i], s) \in Cl
  BY <1>8, InstClosed
<1>10. v \in Seq(Cl) /\ Len(v) = Len(a) /\ \A i \in 1..Len(a) : v[i] = Inst(a[i], s)
  BY <1>4, <1>9
<1> QED BY <1>1, <1>2, <1>6, <1>7, <1>8, <1>10 DEF a, hd

\* The right-hand side b of a rule with n fields: minor premise, fields, hypotheses.
Shaped(b, n, nb, nm, minor, ihs) ==
  LET hd == get_app_fn(b)
      a == get_app_args(b)
  IN /\ b # Nil /\ hd.k = "bvar" /\ Len(a) >= n
     /\ hd.i \in n..(n + nm - 1)
     /\ \A i \in 1..n : a[i] = BVar(n - i)
     /\ minor = nb - (hd.i - n)
     /\ ihs = SubSeq(a, n + 1, Len(a))

LEMMA ShapedIs ==
  ASSUME NEW d, NEW r, RuleShape(d, r).ok
  PROVE  Shaped(strip(r.rhs, d.nbefore + r.nfields), r.nfields, d.nbefore, d.nminors,
                RuleShape(d, r).minor, RuleShape(d, r).ihs)
BY DEF RuleShape, Shaped

\* Such a term under the fields and the arguments before them.
IsBranch(b, s, bs, fs, nb, n, minor, ihs) ==
  /\ minor \in 1..nb /\ ihs \in Seq(Term) /\ Len(ihs) \in Nat
  /\ \A i \in 1..Len(ihs) : ihs[i] \in Term /\ loose_bvar_range(ihs[i]) <= n + nb
  /\ LET hyps == [i \in 1..Len(ihs) |-> Inst(ihs[i], s)]
     IN hyps \in Seq(Cl) /\ Inst(b, s) = mk_apps(bs[minor], fs \o hyps)

LEMMA ShapedInst ==
  ASSUME Hyp, NEW b \in Term, NEW n \in Nat, NEW nb \in Nat, NEW nm \in 0..nb, NEW minor, NEW ihs,
         Shaped(b, n, nb, nm, minor, ihs), loose_bvar_range(b) <= n + nb,
         NEW bs \in Seq(Cl), Len(bs) = nb, NEW fs \in Seq(Cl), Len(fs) = n,
         NEW s, s = Reverse(fs) \o Reverse(bs)
  PROVE  IsBranch(b, s, bs, fs, nb, n, minor, ihs)
<1> USE DEF Hyp
<1> DEFINE a == get_app_args(b)
           j == get_app_fn(b).i
           v == [i \in 1..Len(a) |-> Inst(a[i], s)]
           hyps == [i \in 1..Len(ihs) |-> Inst(ihs[i], s)]
           p == Reverse(fs)
           q == Reverse(bs)
<1>1. /\ get_app_fn(b).k = "bvar" /\ Len(a) >= n /\ j \in n..(n + nm - 1)
      /\ \A i \in 1..n : a[i] = BVar(n - i)
      /\ minor = nb - (j - n) /\ ihs = SubSeq(a, n + 1, Len(a))
  BY DEF Shaped
<1>2. /\ p \in Seq(Cl) /\ Len(p) = n /\ \A i \in 1..n : p[i] = fs[n - i + 1]
      /\ q \in Seq(Cl) /\ Len(q) = nb /\ \A i \in 1..nb : q[i] = bs[nb - i + 1]
  BY Reversed
<1>3. s = p \o q
  OBVIOUS
<1> HIDE DEF p, q
<1>4. Joins(s, p, q) /\ s \in Seq(Cl)
  <2>1. Joins(p \o q, p, q) /\ p \o q \in Seq(Cl)
    BY <1>2, Joined, SeqListed
  <2> QED BY <1>3, <2>1
<1>5. /\ Len(s) = n + nb
      /\ \A i \in 1..n : s[i] = fs[n - i + 1]
      /\ \A i \in 1..nb : s[n + i] = bs[nb - i + 1]
  BY <1>2, <1>4 DEF Joins
<1> DEFINE s2 == s
<1>6. s2 \in Seq(Cl) /\ loose_bvar_range(b) <= Len(s2)
  BY <1>4, <1>5
<1>7. /\ j + 1 \in 1..Len(s) /\ a \in Seq(Term) /\ v \in Seq(Cl) /\ Len(v) = Len(a)
      /\ \A i \in 1..Len(a) : v[i] = Inst(a[i], s) /\ a[i] \in Term /\ loose_bvar_range(a[i]) <= Len(s)
      /\ Inst(b, s) = mk_apps(s[j + 1], v)
  <2> HIDE DEF s2
  <2>1. LET w == [i \in 1..Len(a) |-> Inst(a[i], s2)]
        IN /\ j + 1 \in 1..Len(s2) /\ a \in Seq(Term) /\ w \in Seq(Cl) /\ Len(w) = Len(a)
           /\ \A i \in 1..Len(a) : w[i] = Inst(a[i], s2) /\ a[i] \in Term /\ loose_bvar_range(a[i]) <= Len(s2)
           /\ Inst(b, s2) = mk_apps(s2[j + 1], w)
    BY <1>1, <1>6, SpineInst
  <2> QED BY <2>1 DEF s2
<1> HIDE DEF a, j, v, s2
<1>8. j \in Nat /\ minor \in 1..nb /\ s[j + 1] = bs[minor]
  <2>1. j \in Nat /\ minor \in 1..nb
    BY <1>1
  <2> DEFINE i == j + 1 - n
  <2>2. i \in 1..nb /\ n + i = j + 1 /\ nb - i + 1 = minor
    BY <1>1, <2>1
  <2> HIDE DEF i
  <2>3. s[n + i] = bs[nb - i + 1]
    BY <1>5, <2>2
  <2> QED BY <2>1, <2>2, <2>3
<1>9. /\ ihs \in Seq(Term) /\ Len(ihs) = Len(a) - n /\ Len(a) \in Nat /\ Len(ihs) \in Nat
      /\ \A i \in 1..Len(ihs) : ihs[i] = a[n + i]
  <2>1. Len(a) \in Nat /\ n + 1 \in Nat /\ n + 1 >= 1 /\ n + 1 <= Len(a) + 1 /\ Len(a) <= Len(a) /\ Len(a) - (n + 1) + 1 = Len(a) - n
        /\ Len(a) - n \in Nat /\ \A i \in 1..(Len(a) - n) : n + 1 + i - 1 = n + i
    BY <1>1, <1>7
  <2> DEFINE m == n + 1
             l == Len(a)
  <2>2. m \in Nat /\ l \in Nat /\ m >= 1 /\ l <= Len(a) /\ m <= l + 1 /\ l - m + 1 = l - n /\ ihs = SubSeq(a, m, l)
        /\ \A i \in 1..(l - n) : m + i - 1 = n + i
    BY <1>1, <2>1
  <2> HIDE DEF m, l
  <2>3. /\ SubSeq(a, m, l) \in Seq(Term) /\ Len(SubSeq(a, m, l)) = l - m + 1
        /\ \A i \in 1..(l - m + 1) : SubSeq(a, m, l)[i] = a[m + i - 1]
    BY <1>7, <2>2, SubSeqIs
  <2>4. ihs \in Seq(Term) /\ Len(ihs) = l - n /\ \A i \in 1..(l - n) : ihs[i] = a[n + i]
    BY <2>2, <2>3
  <2> QED BY <2>1, <2>4 DEF l
<1>10. \A i \in 1..Len(ihs) : ihs[i] \in Term /\ loose_bvar_range(ihs[i]) <= n + nb /\ n + i \in 1..Len(a)
  <2> SUFFICES ASSUME NEW i \in 1..Len(ihs) PROVE ihs[i] \in Term /\ loose_bvar_range(ihs[i]) <= n + nb /\ n + i \in 1..Len(a)
    OBVIOUS
  <2>1. n + i \in 1..Len(a)
    BY <1>9
  <2>2. ihs[i] = a[n + i]
    BY <1>9
  <2> QED BY <1>5, <1>7, <2>1, <2>2
<1>11. hyps \in Seq(Cl) /\ Len(hyps) = Len(ihs) /\ \A i \in 1..Len(ihs) : hyps[i] = Inst(ihs[i], s)
  <2>1. \A i \in 1..Len(ihs) : Inst(ihs[i], s) \in Cl
    <3> SUFFICES ASSUME NEW i \in 1..Len(ihs) PROVE Inst(ihs[i], s) \in Cl
      OBVIOUS
    <3>1. ihs[i] \in Term /\ loose_bvar_range(ihs[i]) <= Len(s2) /\ s2 \in Seq(Cl)
      BY <1>5, <1>6, <1>10 DEF s2
    <3>2. Inst(ihs[i], s2) \in Cl
      BY <3>1, InstClosed
    <3> QED BY <3>2 DEF s2
  <2> QED BY <1>9, <2>1
<1> HIDE DEF hyps
<1>12. v = fs \o hyps
  <2> DEFINE w == fs \o hyps
  <2>1. Joins(w, fs, hyps)
    BY <1>11, Joined, SeqListed
  <2> HIDE DEF w
  <2>2. Len(w) = n + Len(ihs) /\ Len(w) = Len(v) /\ Len(v) = Len(a)
    BY <1>7, <1>9, <1>11, <2>1 DEF Joins
  <2>3. ASSUME NEW i \in 1..Len(v) PROVE v[i] = w[i]
    <3>1. CASE i <= n
      <4>1. i \in 1..n /\ i \in 1..Len(a) /\ n - i + 1 \in 1..n /\ n - (n - i + 1) + 1 = i
        BY <1>7, <1>9, <3>1
      <4>2. w[i] = fs[i]
        BY <2>1, <4>1 DEF Joins
      <4>3. v[i] = Inst(BVar(n - i), s) /\ BVar(n - i) \in Term /\ loose_bvar_range(BVar(n - i)) <= Len(s)
        BY <1>1, <1>7, <4>1 DEF a
      <4>4. BVar(n - i).k = "bvar" /\ BVar(n - i).i = n - i
        BY DEF BVar
      <4>5. Inst(BVar(n - i), s2) = s2[n - i + 1]
        <5> DEFINE t == BVar(n - i)
        <5>1. t \in Term /\ loose_bvar_range(t) <= Len(s2) /\ t.k = "bvar" /\ t.i = n - i
          BY <4>3, <4>4 DEF s2
        <5> HIDE DEF t
        <5>2. Inst(t, s2) = s2[t.i + 1]
          BY <1>6, <5>1 DEF TermHyp, Substitution
        <5> QED BY <5>1, <5>2 DEF t
      <4>6. s[n - i + 1] = fs[n - (n - i + 1) + 1]
        BY <1>5, <4>1
      <4> QED BY <4>1, <4>2, <4>3, <4>5, <4>6 DEF s2
    <3>2. CASE ~(i <= n)
      <4> DEFINE k == i - n
      <4>1. k \in 1..Len(ihs) /\ n + k = i /\ i \in 1..Len(a)
        BY <1>7, <1>9, <2>2, <3>2
      <4> HIDE DEF k
      <4>2. w[i] = hyps[k]
        BY <1>11, <2>1, <4>1 DEF Joins
      <4>3. v[i] = Inst(a[i], s) /\ a[n + k] = ihs[k]
        BY <1>7, <1>9, <4>1
      <4> QED BY <1>11, <4>1, <4>2, <4>3
    <3> QED BY <3>1, <3>2
  <2>4. v = w
    BY <1>7, <2>1, <2>2, <2>3, SameSeq, SeqListed DEF Joins
  <2> QED BY <2>4 DEF w
<1> QED BY <1>7, <1>8, <1>9, <1>10, <1>11, <1>12 DEF hyps, IsBranch

\* The thunks of the first n hypotheses, of those that the body mentions.
MakesHyps(S, S2, X, body, ihs, n, e) ==
  /\ Made_OK(S2, X) /\ Grows(S.th, S2.th) /\ Len(S2.ids) = n
  /\ \A i \in 1..n : occurs(body, Len(ihs) - i) => readback(S2.th, S2.ids[i]) = Inst(ihs[i], Reads(S.th, e))

NoIds(S) == [S EXCEPT !.ids = <<>>]
Skips(S) == [S EXCEPT !.ids = Append(@, unused_cell)]

LEMMA NoIdsOK ==
  ASSUME NEW S, NEW X, Made_OK(S, X)
  PROVE  Made_OK(NoIds(S), X) /\ NoIds(S).th = S.th /\ NoIds(S).ids = <<>>
<1> DEFINE th == S.th
           cl == S.cl
           ids == S.ids
           P == NoIds(S)
<1>1. S = [th |-> th, cl |-> cl, ids |-> ids] /\ StoreOK(th, cl, X)
  BY DEF Made_OK
<1> HIDE DEF th, cl, ids
<1>2. P = [th |-> th, cl |-> cl, ids |-> <<>>]
  BY <1>1 DEF NoIds
<1> HIDE DEF P
<1>3. P.th = th /\ P.cl = cl /\ P.ids = <<>> /\ P = [th |-> P.th, cl |-> P.cl, ids |-> P.ids]
  BY <1>2
<1>4. <<>> \in Seq(0..Len(P.th))
  OBVIOUS
<1>5. Made_OK(P, X)
  BY <1>1, <1>3, <1>4 DEF Made_OK
<1> QED BY <1>3, <1>5 DEF P, th

LEMMA SkipsOK ==
  ASSUME NEW S, NEW X, Made_OK(S, X)
  PROVE  Made_OK(Skips(S), X) /\ Skips(S).th = S.th /\ Skips(S).ids = Append(S.ids, 0)
<1> DEFINE th == S.th
           cl == S.cl
           ids == S.ids
           P == Skips(S)
           n == Len(th)
<1>1. S = [th |-> th, cl |-> cl, ids |-> ids] /\ StoreOK(th, cl, X) /\ ids \in Seq(0..n) /\ n \in Nat
  BY StoreIs DEF Made_OK
<1> HIDE DEF th, cl, ids, n
<1> DEFINE ids2 == Append(ids, 0)
<1>2. P = [th |-> th, cl |-> cl, ids |-> ids2]
  BY <1>1 DEF Skips, unused_cell
<1>3. ids2 \in Seq(0..n)
  BY <1>1
<1> HIDE DEF P, ids2
<1>4. P.th = th /\ P.cl = cl /\ P.ids = ids2 /\ P = [th |-> P.th, cl |-> P.cl, ids |-> P.ids]
  BY <1>2
<1>5. Made_OK(P, X)
  BY <1>1, <1>3, <1>4 DEF Made_OK, n
<1> QED BY <1>4, <1>5 DEF P, th, ids2, ids

LEMMA HypsMore ==
  ASSUME Hyp, NEW S, NEW X, NEW body, NEW ihs, NEW k \in Nat, NEW e, Written(S.th),
         NEW Q, MakesHyps(S, Q, X, body, ihs, k, e),
         NEW P, Made_OK(P, X), Grows(Q.th, P.th), NEW a \in 0..Len(P.th), P.ids = Append(Q.ids, a),
         occurs(body, Len(ihs) - (k + 1)) => readback(P.th, a) = Inst(ihs[k + 1], Reads(S.th, e))
  PROVE  MakesHyps(S, P, X, body, ihs, k + 1, e)
<1> USE DEF Hyp
<1>1. /\ Made_OK(Q, X) /\ Grows(S.th, Q.th) /\ Len(Q.ids) = k /\ Q.ids \in Seq(0..Len(Q.th))
      /\ Extends(Q.th, P.th)
  BY DEF MakesHyps, Made_OK, Grows
<1>2. Grows(S.th, P.th)
  BY <1>1, ExtendsTrans
<1>3. /\ Len(P.ids) = k + 1 /\ P.ids[k + 1] = a
      /\ \A i \in 1..k : P.ids[i] = Q.ids[i] /\ Q.ids[i] \in 0..Len(Q.th)
  BY <1>1
<1>4. ASSUME NEW i \in 1..(k + 1), occurs(body, Len(ihs) - i)
      PROVE  readback(P.th, P.ids[i]) = Inst(ihs[i], Reads(S.th, e))
  <2>1. CASE i = k + 1
    BY <1>3, <1>4, <2>1
  <2>2. CASE i # k + 1
    <3>1. i \in 1..k
      BY <2>2
    <3>2. readback(Q.th, Q.ids[i]) = Inst(ihs[i], Reads(S.th, e))
      BY <1>4, <3>1 DEF MakesHyps
    <3>3. readback(P.th, Q.ids[i]) = readback(Q.th, Q.ids[i])
      BY <1>1, <1>3, <3>1, ReadExtends
    <3> QED BY <1>3, <3>1, <3>2, <3>3
  <2> QED BY <2>1, <2>2
<1> QED BY <1>2, <1>3, <1>4 DEF MakesHyps

LEMMA MkHypsOK ==
  ASSUME Hyp, NEW S, NEW X, Made_OK(S, X), NEW e \in Seq(0..Len(S.th)), NEW body, NEW ihs,
         NEW n \in Nat, \A i \in 1..n : Scoped(ihs[i], e, Len(S.th))
  PROVE  MakesHyps(S, mk_hyps(S, body, ihs, n, e), X, body, ihs, n, e)
<1> USE DEF Hyp
<1> DEFINE M(k) == mk_hyps(S, body, ihs, k, e)
           K == {k \in Nat : k <= n => MakesHyps(S, M(k), X, body, ihs, k, e)}
<1>0. Written(S.th) /\ Grows(S.th, S.th)
  BY StoreIs, ExtendsTrans DEF Made_OK
<1>1. 0 \in K
  <2>1. M(0) = NoIds(S)
    BY DEF Recursion, MkHyps, NoIds
  <2>2. Made_OK(NoIds(S), X) /\ NoIds(S).th = S.th /\ NoIds(S).ids = <<>>
    BY NoIdsOK
  <2> DEFINE P == NoIds(S)
  <2> HIDE DEF P
  <2>3. Len(P.ids) = 0 /\ 1..0 = {} /\ Made_OK(P, X) /\ Grows(S.th, P.th)
    BY <1>0, <2>2 DEF P
  <2>4. MakesHyps(S, P, X, body, ihs, 0, e)
    BY <2>3 DEF MakesHyps
  <2> QED BY <2>1, <2>4 DEF P
<1>2. ASSUME NEW k \in K PROVE k + 1 \in K
  <2> SUFFICES ASSUME k + 1 <= n PROVE MakesHyps(S, M(k + 1), X, body, ihs, k + 1, e)
    OBVIOUS
  <2> DEFINE Q == M(k)
             P == M(k + 1)
             t == ihs[k + 1]
             occ == occurs(body, Len(ihs) - (k + 1))
  <2>1. P = IF occ THEN mk_thunk(Q, t, e) ELSE Skips(Q)
    <3>1. k + 1 \in Nat /\ k + 1 # 0 /\ (k + 1) - 1 = k
      OBVIOUS
    <3>2. P = MkHyps(S, body, ihs, k + 1, e)
      BY <3>1 DEF Recursion
    <3> QED BY <3>1, <3>2 DEF MkHyps, Skips
  <2>2. k \in Nat /\ Scoped(t, e, Len(S.th)) /\ MakesHyps(S, Q, X, body, ihs, k, e)
    OBVIOUS
  <2> HIDE DEF M, Q, P, t
  <2>3. Made_OK(Q, X) /\ Grows(S.th, Q.th) /\ Extends(S.th, Q.th) /\ Q.ids \in Seq(0..Len(Q.th)) /\ Len(Q.th) \in Nat
    BY <2>2, StoreIs DEF MakesHyps, Grows, Made_OK
  <2>4. CASE occ
    <3>1. Scoped(t, e, Len(Q.th)) /\ readback_closure(Q.th, t, e) = readback_closure(S.th, t, e)
      BY <2>2, <2>3, ClosureExtends
    <3>2. readback_closure(S.th, t, e) = Inst(t, Reads(S.th, e))
      BY <1>0, <2>2, ClosureRead
    <3>3. P = mk_thunk(Q, t, e)
      BY <2>1, <2>4
    <3>4. /\ Made_OK(P, X) /\ Grows(Q.th, P.th) /\ Made(P) \in 0..Len(P.th) /\ P.ids = Append(Q.ids, Made(P))
          /\ readback(P.th, Made(P)) = readback_closure(Q.th, t, e)
      <4> DEFINE P2 == mk_thunk(Q, t, e)
      <4>1. /\ Made_OK(P2, X) /\ Grows(Q.th, P2.th) /\ Made(P2) \in 0..Len(P2.th) /\ P2.ids = Append(Q.ids, Made(P2))
            /\ readback(P2.th, Made(P2)) = readback_closure(Q.th, t, e)
        BY <2>3, <3>1, MkOne
      <4> HIDE DEF P2
      <4>2. P2 = P
        BY <3>3 DEF P2
      <4> QED BY <4>1, <4>2
    <3>5. readback(P.th, Made(P)) = Inst(ihs[k + 1], Reads(S.th, e))
      BY <3>1, <3>2, <3>4 DEF t
    <3>6. MakesHyps(S, P, X, body, ihs, k + 1, e)
      BY <1>0, <2>2, <3>4, <3>5, HypsMore
    <3> QED BY <3>6 DEF P
  <2>5. CASE ~occ
    <3>1. P = Skips(Q)
      BY <2>1, <2>5
    <3>2. Made_OK(P, X) /\ P.th = Q.th /\ P.ids = Append(Q.ids, 0)
      BY <2>3, <3>1, SkipsOK
    <3>3. Grows(Q.th, P.th) /\ 0 \in 0..Len(P.th)
      <4>1. Written(Q.th)
        BY <2>3 DEF Extends
      <4>2. Grows(Q.th, Q.th)
        BY <4>1, ExtendsTrans
      <4> QED BY <2>3, <3>2, <4>2
    <3> DEFINE a == 0
    <3>4. a \in 0..Len(P.th) /\ P.ids = Append(Q.ids, a)
      BY <3>2, <3>3
    <3> HIDE DEF a
    <3>5. MakesHyps(S, P, X, body, ihs, k + 1, e)
      BY <1>0, <2>2, <2>5, <3>2, <3>3, <3>4, HypsMore
    <3> QED BY <3>5 DEF P
  <2> QED BY <2>4, <2>5
<1> HIDE DEF K
<1>3. K \in SUBSET Nat
  BY DEF K
<1>4. K = Nat
  BY <1>1, <1>2, <1>3, Induction
<1> QED BY <1>4 DEF K

\* The minor premise, if it is a function, is equal to its thunk.
LEMMA MinorIs ==
  ASSUME Hyp, NEW th, HeapOK(th), NEW a \in 0..Len(th), NEW t, NEW e, MinorClosure(Cell(th, a)) = <<t, e>>, t.k = "lam"
  PROVE  Scoped(t, e, Len(th)) /\ normal(readback_closure(th, t, e)) = normal(readback(th, a))
<1> USE DEF Hyp
<1> DEFINE u == Cell(th, a)
<1>0. Written(th) /\ Len(th) \in Nat
  BY WrittenIs DEF HeapOK
<1>1. CASE u.state = 0
  <2>1. t = u.term /\ e = u.env
    BY <1>1 DEF MinorClosure
  <2>2. a # 0
    <3> SUFFICES ASSUME a = 0 PROVE FALSE
      OBVIOUS
    <3>1. u.term = Const("unused_hypothesis")
      BY PlaceholderIs
    <3> QED BY <2>1, <3>1 DEF Const
  <2>3. u = th[a]
    BY ONLY <2>2 DEF Cell, unused_cell
  <2>4. a \in 1..Len(th)
    BY <1>0, <2>2
  <2> QED BY <1>0, <2>1, <2>3, <2>4, ReadIs
<1>2. CASE u.state # 0
  <2>1. a \in 1..Len(th) /\ u = th[a]
    BY <1>0, <1>2, CellIs
  <2> HIDE DEF u
  <2>2. u.state >= 2 /\ u.args = <<>> /\ t = u.vterm /\ e = u.venv
    <3>1. CASE u.state >= 2 /\ u.args = <<>>
      BY <1>2, <3>1 DEF MinorClosure, u
    <3>2. CASE ~(u.state >= 2 /\ u.args = <<>>)
      <4>1. MinorClosure(Cell(th, a)) = <<Nil, <<>>>>
        BY <1>2, <3>2 DEF MinorClosure, u
      <4> QED BY <4>1 DEF Nil
    <3> QED BY <3>1, <3>2
  <2>3. ValueOK(th, a)
    BY <2>1, <2>2 DEF HeapOK
  <2>4. Scoped(t, e, Len(th)) /\ normal(Val(th, t, e, u.args)) = normal(readback(th, a))
    BY <2>1, <2>2, <2>3 DEF ValueOK
  <2>5. Val(th, t, e, u.args) = readback_closure(th, t, e)
    BY <1>0, <2>2, <2>4, ValNil
  <2> QED BY <2>4, <2>5
<1> QED BY <1>1, <1>2

LEMMA JoinSeq ==
  ASSUME NEW S, NEW r \in Seq(S), NEW s \in Seq(S)
  PROVE  r \o s \in Seq(S) /\ Len(r \o s) = Len(r) + Len(s) /\ Joins(r \o s, r, s)
<1>1. r \o s \in Seq(S)
  OBVIOUS
<1>2. Joins(r \o s, r, s)
  BY Joined, SeqListed
<1> QED BY <1>1, <1>2 DEF Joins

\* The terms of fields and hypotheses, and what the machine has for them, are the same for a
\* body that mentions no hypothesis that was not made.
SameBody(b, made, fs, hyps, s) ==
  Inst(b, Reverse(made) \o (Reverse(fs) \o s)) = Inst(b, Reverse(fs \o hyps) \o s)

LEMMA BranchEnv ==
  ASSUME Hyp, NEW b \in Term, NEW s \in Seq(Cl), NEW fs \in Seq(Cl), NEW hyps \in Seq(Cl), NEW made \in Seq(Cl),
         NEW m \in Nat, Len(made) = m, Len(hyps) = m,
         \A i \in 1..m : occurs(b, m - i) => made[i] = hyps[i],
         loose_bvar_range(b) <= Len(fs) + m + Len(s)
  PROVE  SameBody(b, made, fs, hyps, s)
<1> USE DEF Hyp
<1> DEFINE p == Reverse(made)
           q == Reverse(hyps)
           f == Reverse(fs)
           l == f \o s
           x == p \o l
           y == q \o l
<1>a. p \in Seq(Cl) /\ Len(p) = Len(made) /\ \A i \in 1..Len(made) : p[i] = made[Len(made) - i + 1]
  BY Reversed
<1>b. q \in Seq(Cl) /\ Len(q) = Len(hyps) /\ \A i \in 1..Len(hyps) : q[i] = hyps[Len(hyps) - i + 1]
  BY Reversed
<1>c. f \in Seq(Cl) /\ Len(f) = Len(fs)
  BY Reversed
<1>d. Reverse(fs \o hyps) = q \o f
  BY ReverseJoin
<1> HIDE DEF p, q, f
<1>1. /\ p \in Seq(Cl) /\ Len(p) = m /\ \A i \in 1..m : p[i] = made[m - i + 1]
      /\ q \in Seq(Cl) /\ Len(q) = m /\ \A i \in 1..m : q[i] = hyps[m - i + 1]
  BY <1>a, <1>b
<1>5. Len(s) \in Nat /\ Len(fs) \in Nat
  OBVIOUS
<1>2. l \in Seq(Cl) /\ Len(l) = Len(fs) + Len(s)
  <2>1. f \o s \in Seq(Cl) /\ Len(f \o s) = Len(f) + Len(s)
    BY <1>c, JoinSeq
  <2> QED BY <1>c, <2>1
<1>e. Listed(q) /\ Listed(f) /\ Listed(s)
  BY <1>1, <1>c, SeqListed
<1>3. Reverse(fs \o hyps) \o s = y
  BY <1>d, <1>e, JoinAssoc
<1> HIDE DEF l
<1>f. Listed(p) /\ Listed(l) /\ Len(l) \in Nat
  BY <1>1, <1>2, SeqListed
<1>4. x \in Seq(Cl) /\ y \in Seq(Cl) /\ Joins(x, p, l) /\ Joins(y, q, l)
  <2>1. x \in Seq(Cl) /\ y \in Seq(Cl)
    BY <1>1, <1>2
  <2> QED BY <2>1, <1>e, <1>f, Joined
<1> HIDE DEF x, y
<1>g. Len(x) = m + Len(l) /\ Len(y) = m + Len(l)
  BY <1>1, <1>4 DEF Joins
<1>6. loose_bvar_range(b) <= Len(y) /\ Len(x) = Len(y)
  <2>1. loose_bvar_range(b) \in Nat
    BY DEF TermHyp, Grammar
  <2> QED BY <1>2, <1>5, <1>g, <2>1
<1>7. ASSUME NEW i \in 1..Len(y), occurs(b, i - 1) PROVE x[i] = y[i]
  <2>0. i \in 1..(m + Len(l))
    BY <1>g
  <2>1. CASE i <= m
    <3> DEFINE k == m - i + 1
    <3>1. i \in 1..m /\ k \in 1..m /\ m - k = i - 1
      BY <1>f, <2>0, <2>1
    <3>2. p[i] = made[k] /\ q[i] = hyps[k]
      BY <1>1, <3>1
    <3> HIDE DEF k
    <3>3. made[k] = hyps[k]
      BY <1>7, <3>1
    <3>4. x[i] = p[i] /\ y[i] = q[i]
      BY <1>1, <1>4, <3>1 DEF Joins
    <3> QED BY <3>2, <3>3, <3>4
  <2>2. CASE ~(i <= m)
    <3>1. i \in 1..Len(x) /\ ~(i <= Len(p)) /\ ~(i <= Len(q)) /\ i - Len(p) = i - m /\ i - Len(q) = i - m
      BY <1>1, <1>6, <2>2
    <3>2. x[i] = l[i - Len(p)] /\ y[i] = l[i - Len(q)]
      BY <1>4, <3>1 DEF Joins
    <3> QED BY <3>1, <3>2
  <2> QED BY <2>1, <2>2
<1>8. Inst(b, x) = Inst(b, y)
  <2>1. \A i \in 1..Len(y) : occurs(b, i - 1) => x[i] = y[i]
    BY <1>7
  <2>2. \A r \in Seq(Cl) : (Len(r) = Len(y) /\ \A i \in 1..Len(y) : occurs(b, i - 1) => r[i] = y[i]) => Inst(b, r) = Inst(b, y)
    BY <1>4, <1>6 DEF TermHyp, Substitution
  <2> QED BY <1>4, <1>6, <2>1, <2>2
<1> QED BY <1>3, <1>8 DEF x, y, p, l, f, SameBody

\* The fields and hypotheses of a rule as the machine has them, before the environment of the
\* minor premise.
LEMMA BranchReads ==
  ASSUME Hyp, NEW th, Written(th), NEW ids \in Seq(0..Len(th)), NEW fields \in Seq(0..Len(th)), NEW me \in Seq(0..Len(th))
  PROVE  LET e == Reverse(ids) \o Reverse(fields) \o me
         IN /\ e \in Seq(0..Len(th)) /\ Len(e) = Len(ids) + Len(fields) + Len(me)
            /\ Reads(th, e) = Reverse(Reads(th, ids)) \o (Reverse(Reads(th, fields)) \o Reads(th, me))
<1> USE DEF Hyp
<1> DEFINE p == Reverse(ids)
           q == Reverse(fields)
           l == q \o me
           n == Len(th)
<1>1. p \in Seq(0..n) /\ Len(p) = Len(ids) /\ Reads(th, p) = Reverse(Reads(th, ids))
  BY ReadsReverse
<1>2. q \in Seq(0..n) /\ Len(q) = Len(fields) /\ Reads(th, q) = Reverse(Reads(th, fields))
  BY ReadsReverse
<1>3. Len(ids) \in Nat /\ Len(fields) \in Nat /\ Len(me) \in Nat
  OBVIOUS
<1> HIDE DEF p, q
<1>4. l \in Seq(0..n) /\ Len(l) = Len(fields) + Len(me) /\ Reads(th, l) = Reads(th, q) \o Reads(th, me)
  <2>1. q \in Seq(0..Len(th)) /\ me \in Seq(0..Len(th))
    BY <1>2
  <2>2. Reads(th, q \o me) = Reads(th, q) \o Reads(th, me) /\ q \o me \in Seq(0..Len(th)) /\ Len(q \o me) = Len(q) + Len(me)
    BY <2>1, ReadsJoin
  <2> QED BY <1>2, <2>2
<1> HIDE DEF l
<1>5. p \o l \in Seq(0..n) /\ Len(p \o l) = Len(p) + Len(l) /\ Reads(th, p \o l) = Reads(th, p) \o Reads(th, l)
  BY <1>1, <1>4, ReadsJoin
<1>6. (p \o q) \o me = p \o l
  <2>1. Listed(p) /\ Listed(q) /\ Listed(me)
    BY <1>1, <1>2, SeqListed
  <2> QED BY <2>1, JoinAssoc DEF l
<1>7. Len(p \o l) = Len(ids) + Len(fields) + Len(me)
  BY <1>1, <1>3, <1>4, <1>5
<1>8. Reads(th, p \o l) = Reverse(Reads(th, ids)) \o (Reverse(Reads(th, fields)) \o Reads(th, me))
  BY <1>1, <1>2, <1>4, <1>5
<1>9. LET e == (p \o q) \o me
      IN /\ e \in Seq(0..Len(th)) /\ Len(e) = Len(ids) + Len(fields) + Len(me)
         /\ Reads(th, e) = Reverse(Reads(th, ids)) \o (Reverse(Reads(th, fields)) \o Reads(th, me))
  BY <1>5, <1>6, <1>7, <1>8
<1> QED BY <1>9 DEF p, q

\* The arguments of a rule as the environment of its body.
RuleEnv(th, bs, fields) ==
  LET e == Reverse(fields) \o Reverse(bs)
  IN /\ e \in Seq(0..Len(th)) /\ Len(e) = Len(fields) + Len(bs)
     /\ Reads(th, e) = Reverse(Reads(th, fields)) \o Reverse(Reads(th, bs))
     /\ Reverse(Reads(th, bs \o fields)) \o <<>> = Reads(th, e)
     /\ Reads(th, bs \o fields) = Reads(th, bs) \o Reads(th, fields) /\ bs \o fields \in Seq(0..Len(th))
     /\ Len(bs \o fields) = Len(bs) + Len(fields)
LEMMA RuleReads ==
  ASSUME Hyp, NEW th, Written(th), NEW bs \in Seq(0..Len(th)), NEW fields \in Seq(0..Len(th))
  PROVE  RuleEnv(th, bs, fields)
<1> USE DEF Hyp
<1> DEFINE p == Reverse(fields)
           q == Reverse(bs)
           n == Len(th)
           x == Reads(th, bs)
           y == Reads(th, fields)
<1>1. p \in Seq(0..n) /\ Len(p) = Len(fields) /\ Reads(th, p) = Reverse(y)
  BY ReadsReverse
<1>2. q \in Seq(0..n) /\ Len(q) = Len(bs) /\ Reads(th, q) = Reverse(x)
  BY ReadsReverse
<1>3. x \in Seq(Cl) /\ y \in Seq(Cl)
  BY ArgsRead
<1> HIDE DEF p, q, x, y
<1>4. p \o q \in Seq(0..n) /\ Len(p \o q) = Len(p) + Len(q) /\ Reads(th, p \o q) = Reads(th, p) \o Reads(th, q)
  BY <1>1, <1>2, ReadsJoin
<1>5. bs \o fields \in Seq(0..n) /\ Len(bs \o fields) = Len(bs) + Len(fields) /\ Reads(th, bs \o fields) = x \o y
  BY ReadsJoin DEF x, y
<1>6. Reverse(x \o y) = Reverse(y) \o Reverse(x)
  BY <1>3, ReverseJoin
<1> DEFINE z == Reverse(y) \o Reverse(x)
<1>7. z \in Seq(Cl)
  <2>1. Reverse(y) \in Seq(Cl) /\ Reverse(x) \in Seq(Cl)
    BY <1>3, Reversed
  <2> QED BY <2>1, JoinSeq
<1> HIDE DEF z
<1>8. z \o <<>> = z
  BY <1>7
<1>9. LET e == p \o q
      IN /\ e \in Seq(0..Len(th)) /\ Len(e) = Len(fields) + Len(bs)
         /\ Reads(th, e) = z /\ Reverse(Reads(th, bs \o fields)) = z
  BY <1>1, <1>2, <1>4, <1>5, <1>6 DEF z
<1> QED BY <1>5, <1>8, <1>9 DEF p, q, x, y, z, RuleEnv

\* The right-hand side of a rule, as its minor premise on the fields and hypotheses.
BranchOf(th, rhs, bs, fields, nb, minor, ihs) ==
  LET e == Reverse(fields) \o Reverse(bs)
      s == Reads(th, e)
      hyps == [i \in 1..Len(ihs) |-> Inst(ihs[i], s)]
  IN /\ minor \in 1..nb /\ Len(ihs) \in Nat /\ hyps \in Seq(Cl)
     /\ \A i \in 1..Len(ihs) : Scoped(ihs[i], e, Len(th))
     /\ normal(mk_apps(rhs, Reads(th, bs \o fields)))
          = normal(mk_apps(readback(th, bs[minor]), Reads(th, fields) \o hyps))

LEMMA RuleBranch ==
  ASSUME Hyp, NEW rhs \in Cl, NEW nb \in Nat, NEW n \in Nat, NEW nm \in 0..nb, NEW minor, NEW ihs,
         Shaped(strip(rhs, nb + n), n, nb, nm, minor, ihs),
         NEW th, Written(th), NEW bs \in Seq(0..Len(th)), NEW fields \in Seq(0..Len(th)), Len(bs) = nb, Len(fields) = n
  PROVE  BranchOf(th, rhs, bs, fields, nb, minor, ihs)
<1> USE DEF Hyp
<1> DEFINE e == Reverse(fields) \o Reverse(bs)
           s == Reads(th, e)
           hyps == [i \in 1..Len(ihs) |-> Inst(ihs[i], s)]
           x == Reads(th, bs)
           y == Reads(th, fields)
           xs == Reads(th, bs \o fields)
           b == strip(rhs, nb + n)
           e0 == <<>>
<1>1. /\ e \in Seq(0..Len(th)) /\ Len(e) = n + nb /\ s = Reverse(y) \o Reverse(x)
      /\ Reverse(xs) \o e0 = s /\ xs = x \o y /\ bs \o fields \in Seq(0..Len(th)) /\ Len(bs \o fields) = nb + n
  <2>1. LET E == Reverse(fields) \o Reverse(bs)
        IN /\ E \in Seq(0..Len(th)) /\ Len(E) = Len(fields) + Len(bs)
           /\ Reads(th, E) = Reverse(Reads(th, fields)) \o Reverse(Reads(th, bs))
           /\ Reverse(Reads(th, bs \o fields)) \o <<>> = Reads(th, E)
           /\ Reads(th, bs \o fields) = Reads(th, bs) \o Reads(th, fields) /\ bs \o fields \in Seq(0..Len(th))
           /\ Len(bs \o fields) = Len(bs) + Len(fields)
    <3>1. RuleEnv(th, bs, fields)
      BY RuleReads
    <3> QED BY <3>1 DEF RuleEnv
  <2>2. /\ e \in Seq(0..Len(th)) /\ Len(e) = Len(fields) + Len(bs) /\ s = Reverse(y) \o Reverse(x)
        /\ Reverse(xs) \o e0 = s /\ xs = x \o y /\ bs \o fields \in Seq(0..Len(th)) /\ Len(bs \o fields) = Len(bs) + Len(fields)
    BY <2>1
  <2> HIDE DEF e, s, x, y, xs, e0
  <2> QED BY <2>2
<1>2. /\ x \in Seq(Cl) /\ Len(x) = nb /\ \A i \in 1..nb : x[i] = readback(th, bs[i])
      /\ y \in Seq(Cl) /\ Len(y) = n
  BY ArgsRead
<1>3. xs \in Seq(Cl) /\ Len(xs) = nb + n
  BY <1>1, ArgsRead
<1>4. rhs \in Term /\ loose_bvar_range(rhs) = 0 /\ nb + n \in Nat /\ nb + n = n + nb
  BY DEF Cl, Closed
<1>5. b # Nil
  BY DEF Shaped
<1> HIDE DEF e, s, x, y, xs, b, hyps
<1>6. e0 \in Seq(Cl) /\ Len(e0) = 0
  OBVIOUS
<1>7. Inst(rhs, e0) = rhs
  <2>1. loose_bvar_range(rhs) <= Len(e0)
    BY <1>4, <1>6
  <2> HIDE DEF e0
  <2> QED BY <1>4, <1>6, <2>1 DEF TermHyp, Substitution
<1> HIDE DEF e0
<1>8. b \in Term /\ loose_bvar_range(b) <= n + nb /\ normal(mk_apps(rhs, xs)) = normal(Inst(b, s))
  <2> DEFINE k == nb + n
  <2>1. k \in Nat /\ Len(xs) = k /\ strip(rhs, k) = b /\ loose_bvar_range(rhs) <= Len(e0) /\ strip(rhs, k) # Nil
    BY <1>3, <1>4, <1>5, <1>6 DEF b
  <2>a. rhs \in Term /\ e0 \in Seq(Cl) /\ rhs \in Cl /\ normal(rhs) = normal(Inst(rhs, e0)) /\ xs \in Seq(Cl)
    BY <1>3, <1>4, <1>6, <1>7
  <2>b. k \in Nat /\ Len(xs) = k /\ loose_bvar_range(rhs) <= Len(e0) /\ strip(rhs, k) # Nil
    BY <2>1
  <2>c. strip(rhs, k) = b /\ k = n + nb
    BY <1>4, <2>1
  <2> HIDE DEF k
  <2>2. LET c == strip(rhs, k)
        IN /\ c \in Term /\ loose_bvar_range(c) <= k + Len(e0)
           /\ normal(mk_apps(rhs, xs)) = normal(Inst(c, Reverse(xs) \o e0))
    BY <2>a, <2>b, BranchBody
  <2>d. b \in Term /\ loose_bvar_range(b) <= k + Len(e0) /\ normal(mk_apps(rhs, xs)) = normal(Inst(b, Reverse(xs) \o e0))
    BY <2>2, <2>c
  <2>e. k + Len(e0) = n + nb
    BY <1>4, <1>6, <2>c
  <2>f. Reverse(xs) \o e0 = s
    BY <1>1
  <2> QED BY <2>d, <2>e, <2>f
<1>9. Shaped(b, n, nb, nm, minor, ihs)
  BY DEF b
<1>10. /\ minor \in 1..nb /\ ihs \in Seq(Term) /\ Len(ihs) \in Nat
       /\ \A i \in 1..Len(ihs) : ihs[i] \in Term /\ loose_bvar_range(ihs[i]) <= n + nb
       /\ hyps \in Seq(Cl) /\ Inst(b, s) = mk_apps(x[minor], y \o hyps)
  <2> DEFINE v == [i \in 1..Len(ihs) |-> Inst(ihs[i], s)]
  <2>1. /\ minor \in 1..nb /\ ihs \in Seq(Term) /\ Len(ihs) \in Nat
        /\ \A i \in 1..Len(ihs) : ihs[i] \in Term /\ loose_bvar_range(ihs[i]) <= n + nb
        /\ v \in Seq(Cl) /\ Inst(b, s) = mk_apps(x[minor], y \o v)
    <3>1. /\ b \in Term /\ loose_bvar_range(b) <= n + nb /\ x \in Seq(Cl) /\ Len(x) = nb /\ y \in Seq(Cl) /\ Len(y) = n
          /\ s = Reverse(y) \o Reverse(x)
      BY <1>1, <1>2, <1>8
    <3>2. IsBranch(b, s, x, y, nb, n, minor, ihs)
      BY <1>9, <3>1, ShapedInst
    <3> QED BY <3>2 DEF IsBranch
  <2> QED BY <2>1 DEF hyps
<1>11. \A i \in 1..Len(ihs) : Scoped(ihs[i], e, Len(th))
  BY <1>1, <1>10 DEF Scoped
<1>12. x[minor] = readback(th, bs[minor])
  BY <1>2, <1>10
<1> QED BY <1>8, <1>10, <1>11, <1>12 DEF e, s, x, y, xs, hyps, BranchOf

\* The minor premise of the rule is selected.
LEMMA SelectOK ==
  ASSUME Hyp, NEW X, NEW S, NEW d, NEW r, NEW args, NEW fields, NEW rest,
         Fires(S, r.rhs, Params(d, args), fields, rest, X),
         args \in Seq(0..Len(S.th)), d.nbefore \in Nat, d.nbefore <= Len(args), d.nminors \in 0..d.nbefore,
         r.nfields \in Nat, Len(fields) = r.nfields,
         CanSelect(S, d, r, args), select_branch(S, d, r, args, fields, rest)
  PROVE  Proceeds(X, of)
<1> USE DEF Hyp
<1> DEFINE nb == d.nbefore
           nm == d.nminors
           n == r.nfields
           th == S.th
           bs == SubSeq(args, 1, nb)
           sh == RuleShape(d, r)
           ihs == sh.ihs
           minor == sh.minor
           rhs == r.rhs
           k == Len(ihs)
           a == args[minor]
           mt == MinorClosure(Cell(th, a))[1]
           me == MinorClosure(Cell(th, a))[2]
           body == strip(mt, n + k)
           renv == Reverse(fields) \o Reverse(bs)
           R == mk_hyps(S, body, ihs, k, renv)
           e == Reverse(R.ids) \o Reverse(fields) \o me
           s == Reads(th, renv)
           hyps == [i \in 1..Len(ihs) |-> Inst(ihs[i], s)]
<1>1. Made_OK(S, X) /\ Moves(heap, th) /\ rhs \in Cl /\ bs \in Seq(0..Len(th)) /\ fields \in Seq(0..Len(th))
      /\ Run(th, rhs, <<>>, bs \o fields, rest, of, X)
  BY DEF Fires, Params
<1>2. sh.ok /\ mt.k = "lam" /\ body # Nil
  BY DEF CanSelect
<1>3. h' = body /\ env' = e /\ pc' = "step" /\ st' = rest /\ heap' = R.th /\ closed' = R.cl
  BY DEF select_branch, Becomes, Keep
<1>4. Shaped(strip(rhs, nb + n), n, nb, nm, minor, ihs)
  BY <1>2, ShapedIs
<1>5. nb \in Nat /\ nm \in 0..nb /\ n \in Nat /\ Len(fields) = n /\ args \in Seq(0..Len(th)) /\ nb <= Len(args)
  OBVIOUS
<1>6. MinorClosure(Cell(th, a)) = <<mt, me>>
  BY DEF MinorClosure
<1> HIDE DEF sh, nb, nm, n, th, rhs, mt, me, a
<1>7. Written(th) /\ StoreOK(th, S.cl, X) /\ HeapOK(th) /\ Len(th) \in Nat /\ th = S.th
  BY <1>1, StoreIs DEF Made_OK, th
<1>8. Len(bs) = nb /\ \A i \in 1..nb : bs[i] = args[i]
  BY <1>5, FrontIs
<1> HIDE DEF bs
<1>9. /\ minor \in 1..nb /\ k \in Nat /\ hyps \in Seq(Cl)
      /\ \A i \in 1..k : Scoped(ihs[i], renv, Len(th))
      /\ normal(mk_apps(rhs, Reads(th, bs \o fields))) = normal(mk_apps(readback(th, bs[minor]), Reads(th, fields) \o hyps))
  <2> DEFINE E == Reverse(fields) \o Reverse(bs)
             s2 == Reads(th, E)
             h2 == [i \in 1..Len(ihs) |-> Inst(ihs[i], s2)]
  <2> HIDE DEF ihs, minor
  <2>1. /\ minor \in 1..nb /\ Len(ihs) \in Nat /\ h2 \in Seq(Cl)
        /\ \A i \in 1..Len(ihs) : Scoped(ihs[i], E, Len(th))
        /\ normal(mk_apps(rhs, Reads(th, bs \o fields))) = normal(mk_apps(readback(th, bs[minor]), Reads(th, fields) \o h2))
    <3>1. /\ rhs \in Cl /\ nb \in Nat /\ n \in Nat /\ nm \in 0..nb /\ Written(th) /\ bs \in Seq(0..Len(th))
          /\ fields \in Seq(0..Len(th)) /\ Len(bs) = nb /\ Len(fields) = n
      BY <1>1, <1>5, <1>7, <1>8
    <3>2. BranchOf(th, rhs, bs, fields, nb, minor, ihs)
      BY <1>4, <3>1, RuleBranch
    <3> QED BY <3>2 DEF BranchOf
  <2> QED BY <2>1
<1> HIDE DEF ihs, minor
<1>10. renv \in Seq(0..Len(th)) /\ s \in Seq(Cl)
  <2>1. LET E == Reverse(fields) \o Reverse(bs) IN E \in Seq(0..Len(th))
    BY <1>1, <1>7, RuleReads DEF RuleEnv
  <2> HIDE DEF renv
  <2>2. renv \in Seq(0..Len(th))
    BY <2>1 DEF renv
  <2> QED BY <1>7, <2>2, ArgsRead
<1>11. a \in 0..Len(th) /\ bs[minor] = a
  <2>1. minor \in 1..Len(args)
    BY <1>5, <1>9
  <2>2. bs[minor] = args[minor]
    BY <1>8, <1>9
  <2>3. args[minor] \in 0..Len(th)
    BY <1>5, <2>1
  <2> QED BY <2>2, <2>3 DEF a
<1>12. Scoped(mt, me, Len(th)) /\ normal(readback_closure(th, mt, me)) = normal(readback(th, a))
  BY <1>2, <1>6, <1>7, <1>11, MinorIs
<1> HIDE DEF renv
<1> DEFINE u == Reads(th, me)
           y == Reads(th, fields)
           ys == y \o hyps
           q == readback(th, a)
<1>13. /\ mt \in Term /\ me \in Seq(0..Len(th)) /\ u \in Seq(Cl) /\ Len(u) = Len(me) /\ loose_bvar_range(mt) <= Len(u)
       /\ readback_closure(th, mt, me) = Inst(mt, u)
  BY <1>7, <1>12, ClosureRead DEF Scoped
<1>14. y \in Seq(Cl) /\ Len(y) = n /\ q \in Cl
  BY <1>1, <1>5, <1>7, <1>11, ArgsRead, ReadClosed
<1>15. Len(hyps) = k /\ \A i \in 1..k : hyps[i] = Inst(ihs[i], s)
  BY <1>9
<1> HIDE DEF hyps, s
<1>16. ys \in Seq(Cl) /\ Len(ys) = n + k /\ n + k \in Nat
  <2>1. y \o hyps \in Seq(Cl) /\ Len(y \o hyps) = Len(y) + Len(hyps)
    BY <1>9, <1>14, JoinSeq
  <2> QED BY <1>5, <1>9, <1>14, <1>15, <2>1
<1> HIDE DEF u, y, q, ys
<1>17. body \in Term /\ loose_bvar_range(body) <= (n + k) + Len(u) /\ normal(mk_apps(q, ys)) = normal(Inst(body, Reverse(ys) \o u))
  <2> DEFINE m == n + k
  <2>1. m \in Nat /\ Len(ys) = m /\ strip(mt, m) # Nil /\ body = strip(mt, m) /\ normal(q) = normal(Inst(mt, u))
    BY <1>2, <1>12, <1>13, <1>16 DEF q
  <2> HIDE DEF m, body
  <2>2. LET c == strip(mt, m)
        IN /\ c \in Term /\ loose_bvar_range(c) <= m + Len(u)
           /\ normal(mk_apps(q, ys)) = normal(Inst(c, Reverse(ys) \o u))
    BY <1>13, <1>14, <1>16, <2>1, BranchBody
  <2> QED BY <2>1, <2>2 DEF m
<1> HIDE DEF body
<1>18. MakesHyps(S, R, X, body, ihs, k, renv)
  <2>1. Made_OK(S, X) /\ renv \in Seq(0..Len(S.th)) /\ \A i \in 1..k : Scoped(ihs[i], renv, Len(S.th))
    BY <1>1, <1>7, <1>9, <1>10
  <2> HIDE DEF k, R
  <2>2. MakesHyps(S, mk_hyps(S, body, ihs, k, renv), X, body, ihs, k, renv)
    BY <1>9, <2>1, MkHypsOK
  <2> QED BY <2>2 DEF R
<1> HIDE DEF R
<1> DEFINE t2 == R.th
           ids == R.ids
           made == Reads(t2, ids)
<1>19. /\ Made_OK(R, X) /\ Grows(th, t2) /\ Extends(th, t2) /\ Written(t2) /\ StoreOK(t2, R.cl, X)
       /\ ids \in Seq(0..Len(t2)) /\ Len(ids) = k
       /\ \A i \in 1..k : occurs(body, k - i) => readback(t2, ids[i]) = hyps[i]
  <2>1. /\ Made_OK(R, X) /\ Grows(S.th, R.th) /\ Len(R.ids) = k
        /\ \A i \in 1..k : occurs(body, k - i) => readback(R.th, R.ids[i]) = Inst(ihs[i], Reads(S.th, renv))
    BY <1>18 DEF MakesHyps
  <2>2. Extends(th, t2)
    BY <1>7, <2>1 DEF Grows
  <2>3. Written(t2) /\ StoreOK(t2, R.cl, X) /\ ids \in Seq(0..Len(t2))
    BY <2>1, StoreIs DEF Made_OK
  <2> QED BY <1>7, <1>15, <2>1, <2>2, <2>3 DEF s
<1> HIDE DEF t2, ids
<1>20. made \in Seq(Cl) /\ Len(made) = k /\ \A i \in 1..k : occurs(body, k - i) => made[i] = hyps[i]
  BY <1>19, ArgsRead
<1> HIDE DEF made
<1>21. /\ Reads(t2, fields) = y /\ fields \in Seq(0..Len(t2)) /\ Reads(t2, me) = u /\ me \in Seq(0..Len(t2))
  BY <1>1, <1>13, <1>19, ReadsExtends DEF y, u
<1>22. e \in Seq(0..Len(t2)) /\ Len(e) = k + n + Len(me) /\ Reads(t2, e) = Reverse(made) \o (Reverse(y) \o u)
  <2>1. LET E == Reverse(ids) \o Reverse(fields) \o me
        IN /\ E \in Seq(0..Len(t2)) /\ Len(E) = Len(ids) + Len(fields) + Len(me)
           /\ Reads(t2, E) = Reverse(Reads(t2, ids)) \o (Reverse(Reads(t2, fields)) \o Reads(t2, me))
    BY <1>19, <1>21, BranchReads
  <2> QED BY <1>5, <1>19, <1>21, <2>1 DEF made, ids
<1> HIDE DEF e
<1>23. Inst(body, Reverse(made) \o (Reverse(y) \o u)) = Inst(body, Reverse(ys) \o u)
  <2>1. loose_bvar_range(body) <= Len(y) + k + Len(u)
    BY <1>14, <1>17
  <2>2. /\ body \in Term /\ u \in Seq(Cl) /\ y \in Seq(Cl) /\ hyps \in Seq(Cl) /\ made \in Seq(Cl)
        /\ k \in Nat /\ Len(made) = k /\ Len(hyps) = k
        /\ \A i \in 1..k : occurs(body, k - i) => made[i] = hyps[i]
    BY <1>9, <1>13, <1>14, <1>15, <1>17, <1>20
  <2> HIDE DEF k
  <2>3. SameBody(body, made, y, hyps, u)
    BY <2>1, <2>2, BranchEnv
  <2> QED BY <2>3 DEF ys, SameBody
<1>24. Scoped(body, e, Len(t2))
  <2>1. loose_bvar_range(body) \in Nat /\ Len(me) \in Nat
    BY <1>13, <1>17 DEF TermHyp, Grammar
  <2>2. loose_bvar_range(body) <= k + n + Len(me)
    BY <1>5, <1>9, <1>13, <1>17, <2>1
  <2> QED BY <1>17, <1>22, <2>2 DEF Scoped
<1>25. readback_closure(t2, body, e) = Inst(body, Reverse(ys) \o u)
  BY <1>19, <1>22, <1>23, <1>24, ClosureRead
<1> DEFINE e0 == <<>>
           o == bs \o fields
<1>26. Run(th, rhs, e0, o, rest, of, X) /\ Scoped(rhs, e0, Len(th)) /\ readback_closure(th, rhs, e0) = rhs
  BY <1>1, <1>7, ReadClosedTerm
<1>27. normal(Val(th, rhs, e0, o)) = normal(mk_apps(q, ys))
  BY <1>9, <1>11, <1>26 DEF Val, q, ys, y
<1> HIDE DEF e0, o
<1>28. Run(t2, rhs, e0, o, rest, of, X) /\ Val(t2, rhs, e0, o) = Val(th, rhs, e0, o)
  BY <1>19, <1>26, RunGrows
<1> DEFINE z == <<>>
<1>29. z \in Seq(0..Len(t2)) /\ Val(t2, body, e, z) = readback_closure(t2, body, e)
  <2>1. z \in Seq(0..Len(t2))
    OBVIOUS
  <2> QED BY <1>19, <1>24, <2>1, ValNil
<1> HIDE DEF z
<1>30. normal(Val(t2, body, e, z)) = normal(Val(t2, rhs, e0, o))
  BY <1>17, <1>25, <1>27, <1>28, <1>29
<1>31. Run(t2, body, e, z, rest, of, X)
  BY <1>24, <1>28, <1>29, <1>30, NewHead
<1>32. Moves(heap, t2)
  BY <1>1, <1>19, ExtendsTrans
<1>33. h' = body /\ env' = e /\ pc' = "step" /\ st' = rest /\ heap' = t2 /\ closed' = R.cl
  BY <1>3 DEF e, t2, ids
<1> QED BY <1>19, <1>31, <1>32, <1>33 DEF Proceeds, z

\* The arguments go back, and the head is a value of them, or a definition to unfold.
LEMMA PushesBack ==
  ASSUME Hyp, NEW X, NEW S, StoreOK(S.th, S.cl, X), Moves(heap, S.th), NEW args, NEW rest, NEW g,
         Run(S.th, h, env, args, rest, g, X), st' = ArgFrames(args) \o rest, heap' = S.th, closed' = S.cl,
         h' = h, env' = env, pc' = "unwind" \/ (pc' = "unfold" /\ IsConst(h) /\ h.c \in Defs)
  PROVE  Proceeds(X, g)
<1>1. Written(S.th)
  BY StoreIs
<1> DEFINE e0 == <<>>
<1>2. Run(S.th, h, env, e0, ArgFrames(args) \o rest, g, X)
  BY <1>1, PushArgs
<1>3. pc' \in {"step", "unwind", "unfold"} /\ (pc' = "unfold" => IsConst(h) /\ h.c \in Defs)
  OBVIOUS
<1> HIDE DEF e0
<1>4. Run(heap', h', env', e0, st', g, X)
  BY <1>2
<1> QED BY <1>3, <1>4 DEF Proceeds, e0

\* A recursor whose major premise has a value.
LEMMA IotaOK ==
  ASSUME Hyp, NEW X, NEW S, NEW d, NEW args, NEW rest, AtRec(S, d, args, rest, X),
         NEW k, k = rec_major_idx(d) + 1, args[k] \in 1..Len(S.th), S.th[args[k]].state = 3,
         iota(S, d, args, k, rest)
  PROVE  Proceeds(X, of)
<1> USE DEF Hyp
<1> DEFINE c == lit_ctor(S, args[k])
           v == readback_value(S.th, Cell(S.th, args[k]))
           eta == IF KindOf(c.hd) = "ctor" THEN v ELSE to_ctor_when_struct(d, v)
           applies == /\ IsConst(c.hd) /\ c.hd.c \in DOMAIN d.rules
                      /\ d.rules[c.hd.c].nfields <= Len(c.args)
           r == d.rules[c.hd.c]
           fields == SubSeq(c.args, Len(c.args) - r.nfields + 1, Len(c.args))
<1>1. \/ eta # v /\ \E R \in {mk_thunk(S, eta, <<>>)} : force_via([args EXCEPT ![k] = Made(R)], k, rest, R)
      \/ applies /\ CanSelect(c.S, d, r, args) /\ select_branch(c.S, d, r, args, fields, rest)
      \/ applies /\ ~CanSelect(c.S, d, r, args) /\ ApplyRule(c.S, d, r, args, fields, rest)
      \/ ~applies /\ eta = v /\ st' = ArgFrames(args) \o rest /\ IsValue /\ Keep(c.S)
  <2> DEFINE B(x, y, z) ==
           LET ap == /\ IsConst(x.hd) /\ x.hd.c \in DOMAIN d.rules
                     /\ d.rules[x.hd.c].nfields <= Len(x.args)
               ru == d.rules[x.hd.c]
               fs == SubSeq(x.args, Len(x.args) - ru.nfields + 1, Len(x.args))
           IN \/ /\ z # y
                 /\ \E R \in {mk_thunk(S, z, <<>>)} : force_via([args EXCEPT ![k] = Made(R)], k, rest, R)
              \/ /\ ap /\ CanSelect(x.S, d, ru, args)
                 /\ select_branch(x.S, d, ru, args, fs, rest)
              \/ /\ ap /\ ~CanSelect(x.S, d, ru, args)
                 /\ ApplyRule(x.S, d, ru, args, fs, rest)
              \/ ~ap /\ z = y /\ st' = ArgFrames(args) \o rest /\ IsValue /\ Keep(x.S)
  <2>1. \E x \in {lit_ctor(S, args[k])} : \E y \in {readback_value(S.th, Cell(S.th, args[k]))} :
        \E z \in {IF KindOf(x.hd) = "ctor" THEN y ELSE to_ctor_when_struct(d, y)} : B(x, y, z)
    BY DEF iota
  <2> HIDE DEF B
  <2>2. B(c, v, eta)
    BY <2>1
  <2> QED BY <2>2 DEF B
<1>2. CASE eta # v /\ \E R \in {mk_thunk(S, eta, <<>>)} : force_via([args EXCEPT ![k] = Made(R)], k, rest, R)
  <2> DEFINE R == MkClosed(S, eta)
  <2>1. eta = to_ctor_when_struct(d, v)
    BY <1>2
  <2>2. force_via(Put(args, k, Made(R)), k, rest, R)
    BY <1>2 DEF Put, MkClosed
  <2> HIDE DEF eta
  <2>3. eta = to_ctor_when_struct(d, readback_value(S.th, Cell(S.th, args[k])))
    BY <2>1 DEF v
  <2> HIDE DEF R
  <2>4. R = MkClosed(S, eta)
    BY DEF R
  <2> QED BY <2>2, <2>3, <2>4, EtaOK
<1>3. ASSUME applies PROVE Applies(S, d, args, c)
  BY <1>3 DEF Applies
<1>4. CASE applies /\ ((select_branch(c.S, d, r, args, fields, rest) /\ CanSelect(c.S, d, r, args)) \/ ApplyRule(c.S, d, r, args, fields, rest))
  <2>1. Applies(S, d, args, c)
    BY <1>3, <1>4
  <2>a. (select_branch(c.S, d, r, args, fields, rest) /\ CanSelect(c.S, d, r, args)) \/ ApplyRule(c.S, d, r, args, fields, rest)
    BY <1>4
  <2>b. RuleOf(d, c) = r /\ Fields(d, c) = fields /\ c.hd.c \in DOMAIN d.rules
    BY <1>4 DEF RuleOf, Fields
  <2> HIDE DEF c, r, fields
  <2>2. /\ Fires(c.S, RuleOf(d, c).rhs, Params(d, args), Fields(d, c), rest, X)
        /\ Len(Params(d, args)) = d.nbefore /\ Len(Fields(d, c)) = RuleOf(d, c).nfields
    BY <2>1, RuleFires
  <2>3. Fires(c.S, r.rhs, Params(d, args), fields, rest, X) /\ Len(fields) = r.nfields
    BY <2>b, <2>2
  <2>4. CASE ApplyRule(c.S, d, r, args, fields, rest)
    BY <2>3, <2>4, ApplyOK
  <2>5. CASE select_branch(c.S, d, r, args, fields, rest) /\ CanSelect(c.S, d, r, args)
    <3>1. args \in Seq(0..Len(c.S.th))
      BY <2>1, AppliesIs
    <3>2. /\ d.nbefore \in Nat /\ d.nbefore <= rec_major_idx(d) /\ d.nminors \in 0..d.nbefore /\ rec_major_idx(d) \in Nat
          /\ \A j \in DOMAIN d.rules : d.rules[j].nfields \in Nat
          /\ Len(args) = rec_major_idx(d) + 1
      BY RecIs
    <3>3. d.nbefore <= Len(args)
      BY <3>2
    <3>4. r.nfields \in Nat
      BY <2>b, <3>2 DEF r
    <3> QED BY <2>3, <2>5, <3>1, <3>2, <3>3, <3>4, SelectOK
  <2> QED BY <2>a, <2>4, <2>5
<1>5. CASE st' = ArgFrames(args) \o rest /\ IsValue /\ Keep(c.S)
  <2>a. /\ Made_OK(S, X) /\ Run(S.th, h, env, args, rest, of, X) /\ Moves(heap, S.th)
    BY DEF AtRec
  <2> DEFINE a == args[k]
  <2>b. a \in 1..Len(S.th) /\ S.th[a].state = 3
    OBVIOUS
  <2> HIDE DEF a
  <2>1. LET q == lit_ctor(S, a)
        IN StoreOK(q.S.th, q.S.cl, X) /\ Run(q.S.th, h, env, args, rest, of, X) /\ Moves(S.th, q.S.th)
    BY <2>a, <2>b, LitCtor
  <2>2. StoreOK(c.S.th, c.S.cl, X) /\ Run(c.S.th, h, env, args, rest, of, X) /\ Moves(S.th, c.S.th)
    BY <2>1 DEF a
  <2>3. st' = ArgFrames(args) \o rest /\ heap' = c.S.th /\ closed' = c.S.cl /\ h' = h /\ env' = env /\ pc' = "unwind"
    BY <1>5 DEF IsValue, Keep
  <2> HIDE DEF c
  <2> DEFINE Q == c.S
  <2>4. /\ StoreOK(Q.th, Q.cl, X) /\ Run(Q.th, h, env, args, rest, of, X) /\ Moves(heap, Q.th)
        /\ st' = ArgFrames(args) \o rest /\ heap' = Q.th /\ closed' = Q.cl
    BY <2>2, <2>3, <2>a, ExtendsTrans
  <2> HIDE DEF Q
  <2> QED BY <2>3, <2>4, PushesBack
<1> QED BY <1>1, <1>2, <1>4, <1>5

\* A recursor.
LEMMA RecOK ==
  ASSUME Hyp, NEW X, Stands(X), RecStep
  PROVE  Proceeds(X, of)
<1> USE DEF Hyp
<1> DEFINE d == Decls[h.c]
           i == rec_major_idx(d) + 1
<1>1. h.k = "const" /\ h.c \in DOMAIN Decls /\ d.kind = "rec"
  BY DEF RecStep, At, KindOf, IsConst
<1>2. i \in Nat
  BY <1>1 DEF ReductionHyp, Environment, rec_major_idx
<1>3. StoreOK(heap, closed, X) /\ Run(heap, h, env, <<>>, st, of, X)
  BY DEF Stands
<1>4. \/ ~can_take(i, st) /\ IsValue /\ UNCHANGED <<st, store>>
      \/ /\ can_take(i, st)
         /\ \E T \in {Taken(i)} : \E m \in {KMajor(d, T, i)} : \E P \in {WithMajor(T, i, m)} :
              \/ Cell(P.S.th, P.args[i]).state # 3 /\ force_via(P.args, i, T.rest, P.S)
              \/ Cell(P.S.th, P.args[i]).state = 3 /\ iota(P.S, d, P.args, i, T.rest)
  BY DEF RecStep
<1>5. CASE IsValue /\ UNCHANGED <<st, store>>
  <2>1. UNCHANGED store /\ pc' \in {"step", "unwind"} /\ h' = h /\ env' = env /\ st' = st
    BY <1>5 DEF IsValue
  <2> DEFINE e0 == <<>>
  <2>2. Run(heap, h, env, e0, st, of, X)
    BY <1>3
  <2> HIDE DEF e0
  <2>3. Run(heap, h', env', e0, st', of, X)
    BY <2>1, <2>2
  <2> QED BY <1>3, <2>1, <2>3, StaysProceeds DEF e0
<1>6. ASSUME can_take(i, st),
             NEW T, T = Taken(i), NEW P, P = WithMajor(T, i, KMajor(d, T, i)),
             \/ Cell(P.S.th, P.args[i]).state # 3 /\ force_via(P.args, i, T.rest, P.S)
             \/ Cell(P.S.th, P.args[i]).state = 3 /\ iota(P.S, d, P.args, i, T.rest)
      PROVE Proceeds(X, of)
  <2> HIDE DEF i
  <2>1. /\ StoreOK(T.th, closed, X) /\ Moves(heap, T.th) /\ Run(T.th, h, env, T.args, T.rest, of, X)
        /\ T.args \in Seq(0..Len(T.th)) /\ Len(T.args) = i /\ Made_OK(Store(T.th), X)
    BY <1>2, <1>3, <1>6, TakenOK
  <2>2. AtRec(Store(T.th), d, T.args, T.rest, X)
    BY <1>1, <2>1 DEF AtRec, Store, i
  <2> DEFINE k == rec_major_idx(d) + 1
             S == P.S
             args == P.args
             rest == T.rest
  <2>3. k = i
    BY DEF i
  <2> HIDE DEF d
  <2>4. AtRec(S, d, args, rest, X)
    BY <1>6, <2>2, <2>3, MajorOK
  <2>5. \/ Cell(S.th, args[k]).state # 3 /\ force_via(args, k, rest, S)
        \/ Cell(S.th, args[k]).state = 3 /\ iota(S, d, args, k, rest)
    BY <1>6, <2>3
  <2> HIDE DEF S, args, rest
  <2>6. /\ StoreOK(S.th, S.cl, X) /\ Moves(heap, S.th) /\ Run(S.th, h, env, args, rest, of, X) /\ Len(S.th) \in Nat
        /\ of \in Cl /\ args[k] \in 0..Len(S.th)
    BY <2>4, RecIs
  <2> HIDE DEF k
  <2>7. CASE force_via(args, k, rest, S)
    <3>1. enter(args[k], <<Cont(h, env, args, delta)>> \o rest, TRUE, S)
      BY <2>7 DEF force_via
    <3> QED BY <2>6, <3>1, Waits
  <2>8. CASE Cell(S.th, args[k]).state = 3 /\ iota(S, d, args, k, rest)
    <3>1. args[k] \in 1..Len(S.th) /\ S.th[args[k]].state = 3
      <4> DEFINE a == args[k]
                 n == Len(S.th)
      <4>1. Cell(S.th, a).state = 3 /\ n \in Nat /\ a \in 0..n
        BY <2>6, <2>8
      <4> HIDE DEF a, n
      <4>2. a \in 1..n /\ Cell(S.th, a) = S.th[a]
        BY <4>1, CellIs
      <4> QED BY <4>1, <4>2 DEF a, n
    <3> QED BY <2>4, <2>8, <3>1, IotaOK DEF k
  <2> QED BY <2>5, <2>7, <2>8
<1> QED BY <1>4, <1>5, <1>6

\* A function on the class of a quotient.
LEMMA LiftEnters ==
  ASSUME Hyp, NEW X, NEW th, StoreOK(th, closed, X), NEW args, NEW rest, Run(th, h, env, args, rest, of, X),
         Len(args) = 6, h.k = "const", h.c \in DOMAIN Decls, Decls[h.c].kind = "lift",
         NEW a, a = args[6], a \in 1..Len(th), th[a].state = 3,
         th[a].vterm = Const("Quot.mk"), NEW q, q = th[a].args, Len(q) = 3
  PROVE  /\ StackOK(th, <<Arg(q[3])>> \o rest, X) /\ args[4] \in 0..Len(th)
         /\ Chain(th, readback(th, args[4]), <<Arg(q[3])>> \o rest, of)
<1> USE DEF Hyp
<1>1. Written(th) /\ HeapOK(th) /\ Len(th) \in Nat
  BY StoreIs
<1>2. /\ Scoped(h, env, Len(th)) /\ args \in Seq(0..Len(th)) /\ of \in Cl /\ StackOK(th, rest, X)
      /\ Chain(th, Val(th, h, env, args), rest, of)
  BY DEF Run
<1>3. h \in Cl /\ h = Const(h.c) /\ Val(th, h, env, args) = mk_apps(h, Reads(th, args))
  BY <1>1, <1>2, ConstIs
<1> DEFINE s == SubSeq(Reads(th, args), 1, 5)
           m == readback(th, a)
           r == Reads(th, q)
           qm == Const("Quot.mk")
           x == readback(th, args[4])
           y == readback(th, q[3])
<1>4. Reads(th, args) = Append(s, m) /\ s \in Seq(Cl) /\ Len(s) = 5
  <2> DEFINE n == 5
  <2>1. n \in Nat /\ Len(args) = n + 1 /\ n <= Len(args) /\ args[n + 1] = a
    OBVIOUS
  <2> HIDE DEF n
  <2>2. Reads(th, args) = Append(SubSeq(Reads(th, args), 1, n), readback(th, args[n + 1]))
    BY <1>1, <1>2, <2>1, ReadsLast
  <2>3. SubSeq(Reads(th, args), 1, n) \in Seq(Cl) /\ Len(SubSeq(Reads(th, args), 1, n)) = n
    BY <1>1, <1>2, <2>1, ReadsFront
  <2> QED BY <2>1, <2>2, <2>3 DEF n
<1>5. s[4] = x /\ m \in Cl /\ x \in Cl /\ args[4] \in 0..Len(th)
  <2> DEFINE R == Reads(th, args)
  <2>a. R \in Seq(Cl) /\ Len(R) = Len(args) /\ \A i \in 1..Len(args) : R[i] = readback(th, args[i]) /\ args[i] \in 0..Len(th)
    BY <1>1, <1>2, ArgsRead
  <2>b. 4 \in 1..Len(args)
    OBVIOUS
  <2>1. R \in Seq(Cl) /\ Len(R) = 6 /\ R[4] = x /\ args[4] \in 0..Len(th)
    BY <2>a, <2>b
  <2> HIDE DEF R
  <2>c. 5 \in Nat /\ 5 <= Len(R) /\ 4 \in 1..5
    BY <2>1
  <2>2. s[4] = R[4]
    <3>1. SubSeq(R, 1, 5)[4] = R[4]
      BY <2>1, <2>c, FrontIs
    <3> QED BY <3>1 DEF R
  <2> QED BY <1>1, <2>1, <2>2, ReadClosed
<1>6. /\ Scoped(qm, th[a].venv, Len(th)) /\ q \in Seq(0..Len(th))
      /\ normal(Val(th, qm, th[a].venv, q)) = normal(m)
  BY <1>1 DEF HeapOK, ValueOK
<1>7. qm \in Cl /\ Val(th, qm, th[a].venv, q) = mk_apps(qm, r)
  <2>1. qm.k = "const"
    BY DEF Const
  <2> HIDE DEF qm, r
  <2> QED BY <1>1, <1>6, <2>1, ConstIs DEF r
<1>8. r \in Seq(Cl) /\ Len(r) = 3 /\ r[3] = y /\ q[3] \in 0..Len(th) /\ y \in Cl
  BY <1>1, <1>6, ArgsRead, ReadClosed
<1>9. normal(mk_apps(Const(h.c), Append(s, mk_apps(qm, r)))) = normal(mk_apps(s[4], <<r[3]>>))
  BY <1>4, <1>8 DEF ReductionHyp, LiftLaw
<1> HIDE DEF s, m, qm, x, y, r
<1>10. normal(mk_apps(h, Append(s, m))) = normal(mk_apps(x, <<y>>))
  <2>1. mk_apps(qm, r) \in Cl /\ normal(mk_apps(qm, r)) = normal(m)
    BY <1>6, <1>7, <1>8, AppsClosed
  <2>2. normal(mk_apps(h, Append(s, mk_apps(qm, r)))) = normal(mk_apps(h, Append(s, m)))
    BY <1>3, <1>4, <1>5, <2>1, LastSame
  <2> QED BY <1>3, <1>5, <1>8, <1>9, <2>2
<1> DEFINE f == Arg(q[3])
           z == mk_apps(x, <<y>>)
<1>11. f.k = "arg" /\ f.th = q[3] /\ FrameOK(f, Len(th))
  BY <1>8 DEF Arg, FrameOK
<1>12. Chain(th, z, rest, of)
  <2>1. normal(Val(th, h, env, args)) = normal(z)
    BY <1>3, <1>4, <1>10
  <2> QED BY <1>2, <2>1, ChainSame
<1>13. Link(th, f, x, z)
  BY <1>11 DEF Link, y
<1> HIDE DEF f, z
<1>14. Listed(rest) /\ f.k # "upd"
  BY <1>2, <1>11 DEF StackOK, Stack
<1>15. Chain(th, x, <<f>> \o rest, of)
  BY <1>5, <1>12, <1>13, <1>14, ChainPush
<1>16. StackOK(th, <<f>> \o rest, X)
  BY <1>2, <1>11, <1>14, StackPush
<1> QED BY <1>5, <1>15, <1>16 DEF f, x

LEMMA QuotOK ==
  ASSUME Hyp, NEW X, Stands(X), QuotStep
  PROVE  Proceeds(X, of)
<1> USE DEF Hyp
<1> DEFINE T == Taken(6)
           q == Cell(T.th, T.args[6])
           isMk == q.vterm = Const("Quot.mk") /\ Len(q.args) = 3
<1>1. h.k = "const" /\ h.c \in DOMAIN Decls /\ Decls[h.c].kind = "lift"
  BY DEF QuotStep, At, KindOf, IsConst
<1>2. StoreOK(heap, closed, X) /\ Run(heap, h, env, <<>>, st, of, X)
  BY DEF Stands
<1>3. \/ ~can_take(6, st) /\ IsValue /\ UNCHANGED <<st, store>>
      \/ can_take(6, st) /\ q.state # 3 /\ force_via(T.args, 6, T.rest, Store(T.th))
      \/ /\ can_take(6, st) /\ q.state = 3 /\ isMk
         /\ enter(T.args[4], <<Arg(q.args[3])>> \o T.rest, delta, Store(T.th))
      \/ can_take(6, st) /\ q.state = 3 /\ ~isMk /\ PushBack(T) /\ IsValue
  BY DEF QuotStep
<1>4. CASE IsValue /\ UNCHANGED <<st, store>>
  <2>1. UNCHANGED store /\ pc' \in {"step", "unwind"} /\ h' = h /\ env' = env /\ st' = st
    BY <1>4 DEF IsValue
  <2> DEFINE e0 == <<>>
  <2>2. Run(heap, h, env, e0, st, of, X)
    BY <1>2
  <2> HIDE DEF e0
  <2>3. Run(heap, h', env', e0, st', of, X)
    BY <2>1, <2>2
  <2> QED BY <1>2, <2>1, <2>3, StaysProceeds DEF e0
<1>5. ASSUME can_take(6, st)
      PROVE  /\ StoreOK(T.th, closed, X) /\ Moves(heap, T.th) /\ Run(T.th, h, env, T.args, T.rest, of, X)
             /\ T.args \in Seq(0..Len(T.th)) /\ Len(T.args) = 6 /\ Made_OK(Store(T.th), X)
  <2> HIDE DEF T
  <2>1. LET R == Taken(6)
        IN /\ StoreOK(R.th, closed, X) /\ Moves(heap, R.th) /\ Run(R.th, h, env, R.args, R.rest, of, X)
           /\ R.args \in Seq(0..Len(R.th)) /\ Len(R.args) = 6 /\ Made_OK(Store(R.th), X)
    BY <1>2, <1>5, TakenOK
  <2> QED BY <2>1 DEF T
<1> HIDE DEF T
<1> DEFINE th == T.th
           args == T.args
           rest == T.rest
           S == Store(th)
<1>6. S.th = th /\ S.cl = closed
  BY DEF Store
<1>7. ASSUME can_take(6, st) PROVE args[6] \in 0..Len(th) /\ Len(th) \in Nat /\ of \in Cl
  BY <1>5, <1>7, StoreIs DEF Run
<1>8. CASE can_take(6, st) /\ force_via(args, 6, rest, S)
  <2>1. enter(args[6], <<Cont(h, env, args, delta)>> \o rest, TRUE, S)
    BY <1>8 DEF force_via
  <2>2. StoreOK(S.th, S.cl, X) /\ Moves(heap, S.th) /\ Run(S.th, h, env, args, rest, of, X) /\ args[6] \in 0..Len(S.th) /\ of \in Cl
    BY <1>5, <1>6, <1>7, <1>8
  <2> HIDE DEF S, args, rest
  <2> QED BY <2>1, <2>2, Waits
<1>9. CASE can_take(6, st) /\ PushBack(T) /\ IsValue
  <2>1. /\ StoreOK(S.th, S.cl, X) /\ Moves(heap, S.th) /\ Run(S.th, h, env, args, rest, of, X)
        /\ st' = ArgFrames(args) \o rest /\ heap' = S.th /\ closed' = S.cl /\ h' = h /\ env' = env /\ pc' = "unwind"
    BY <1>5, <1>6, <1>9 DEF PushBack, IsValue
  <2> HIDE DEF S, args, rest
  <2> QED BY <2>1, PushesBack
<1>10. CASE /\ can_take(6, st) /\ q.state = 3 /\ isMk
            /\ enter(T.args[4], <<Arg(q.args[3])>> \o T.rest, delta, Store(T.th))
  <2> DEFINE a == args[6]
             n == Len(th)
             aa == q.args
  <2>1. Cell(th, a).state = 3 /\ n \in Nat /\ a \in 0..n
    BY <1>7, <1>10
  <2> HIDE DEF a, n
  <2>2. a \in 1..n /\ Cell(th, a) = th[a]
    BY <2>1, CellIs
  <2>3. /\ a \in 1..Len(th) /\ th[a].state = 3 /\ th[a].vterm = Const("Quot.mk") /\ aa = th[a].args /\ Len(aa) = 3
        /\ enter(args[4], <<Arg(aa[3])>> \o rest, delta, S) /\ a = args[6]
    BY <1>10, <2>2 DEF a, n
  <2> HIDE DEF aa
  <2>4. StoreOK(th, closed, X) /\ Run(th, h, env, args, rest, of, X) /\ Len(args) = 6 /\ Moves(heap, th) /\ of \in Cl
    BY <1>5, <1>7, <1>10
  <2> HIDE DEF th, args, rest
  <2>5. /\ StackOK(th, <<Arg(aa[3])>> \o rest, X) /\ args[4] \in 0..Len(th)
        /\ Chain(th, readback(th, args[4]), <<Arg(aa[3])>> \o rest, of)
    BY <1>1, <2>3, <2>4, LiftEnters
  <2> HIDE DEF S
  <2> DEFINE s2 == <<Arg(aa[3])>> \o rest
  <2>6. /\ StoreOK(S.th, S.cl, X) /\ Moves(heap, S.th) /\ StackOK(S.th, s2, X) /\ args[4] \in 0..Len(S.th)
        /\ Chain(S.th, readback(S.th, args[4]), s2, of) /\ enter(args[4], s2, delta, S)
    BY <1>6, <2>3, <2>4, <2>5
  <2> HIDE DEF s2
  <2> QED BY <2>4, <2>6, EntersFrom
<1> QED BY <1>3, <1>4, <1>8, <1>9, <1>10
-------------------------------------------------------------------------------
(***************************************************************************)
(* Numerals.                                                               *)
(***************************************************************************)

\* What lit_value finds is the numeral of thunk t, or a thunk.
NumeralIs(th, t) ==
  LET v == lit_value(th, t)
  IN /\ v.k = "lit" => v.n \in Nat /\ normal(readback(th, t)) = normal(LitNat(v.n))
     /\ v.k = "unforced" => v.t \in 0..Len(th)

\* A value that is a constant or a numeral on arguments.
LEMMA PlainValue ==
  ASSUME Hyp, NEW th, HeapOK(th), NEW a \in 0..Len(th), Cell(th, a).state = 3, NEW u, u = Cell(th, a)
  PROVE  /\ u.args \in Seq(0..Len(th)) /\ u.vterm \in Term
         /\ u.vterm.k \in {"const", "lit"} =>
              /\ u.vterm \in Cl /\ normal(mk_apps(u.vterm, Reads(th, u.args))) = normal(readback(th, a))
              /\ u.args = <<>> => normal(u.vterm) = normal(readback(th, a))
<1> USE DEF Hyp
<1> DEFINE n == Len(th)
<1>1. Written(th) /\ n \in Nat
  BY WrittenIs DEF HeapOK
<1>2. a \in 1..n /\ Cell(th, a) = th[a]
  <2>1. Cell(th, a).state # 0 /\ a \in 0..n
    OBVIOUS
  <2> HIDE DEF n
  <2> QED BY <1>1, <2>1, CellIs
<1>3. /\ Scoped(u.vterm, u.venv, n) /\ u.args \in Seq(0..n)
      /\ normal(Val(th, u.vterm, u.venv, u.args)) = normal(readback(th, a))
  <2>1. u = th[a] /\ u.state = 3 /\ a \in 1..Len(th)
    BY <1>2
  <2>2. ValueOK(th, a)
    BY <2>1 DEF HeapOK
  <2> QED BY <2>1, <2>2 DEF ValueOK
<1> DEFINE x == u.vterm
           e == u.venv
           o == u.args
<1> HIDE DEF x, e, o
<1>4. Scoped(x, e, n) /\ o \in Seq(0..n) /\ normal(Val(th, x, e, o)) = normal(readback(th, a))
  BY <1>3 DEF x, e, o
<1>5. x \in Term
  BY <1>4 DEF Scoped
<1>6. ASSUME x.k \in {"const", "lit"}
      PROVE  /\ x \in Cl /\ normal(mk_apps(x, Reads(th, o))) = normal(readback(th, a))
             /\ o = <<>> => normal(x) = normal(readback(th, a))
  <2>1. loose_bvar_range(x) = 0 /\ x \in Cl
    BY <1>5, <1>6 DEF TermHyp, Grammar, Cl, Closed
  <2>2. readback_closure(th, x, e) = Inst(x, Reads(th, e)) /\ Reads(th, e) \in Seq(Cl) /\ loose_bvar_range(x) <= Len(Reads(th, e))
    BY <1>1, <1>4, ClosureRead
  <2>3. Inst(x, Reads(th, e)) = x
    BY <1>5, <2>1, <2>2 DEF TermHyp, Substitution
  <2>4. Val(th, x, e, o) = mk_apps(x, Reads(th, o))
    BY <2>2, <2>3 DEF Val
  <2>5. ASSUME o = <<>> PROVE Val(th, x, e, o) = x
    BY <1>1, <1>4, <2>2, <2>3, <2>5, ValNil
  <2> QED BY <1>4, <2>1, <2>4, <2>5
<1> QED BY <1>4, <1>5, <1>6 DEF x, o

LEMMA ThroughIs ==
  ASSUME Hyp, NEW th, HeapOK(th), NEW t \in 0..Len(th), NEW u, Through(th, t, u)
  PROVE  u \in 0..Len(th) /\ (NumeralIs(th, u) => NumeralIs(th, t))
<1> USE DEF Hyp
<1> DEFINE c == Cell(th, t)
           o == c.args
           succ == Const("succ")
<1>1. c.state = 3 /\ c.vterm = succ /\ Len(o) = 1 /\ u = o[1]
  BY DEF Through
<1>0. Written(th) /\ Len(th) \in Nat
  BY WrittenIs DEF HeapOK
<1>2. succ.k = "const" /\ succ.k # "lit" /\ succ # Const("zero") /\ succ \in Cl
  <2>1. succ \in Term /\ succ.k = "const" /\ succ.c = "succ" /\ Const("zero").c = "zero"
    BY DEF TermHyp, Complete, Const
  <2> QED BY <2>1 DEF TermHyp, Grammar, Cl, Closed
<1>3. o \in Seq(0..Len(th)) /\ normal(mk_apps(succ, Reads(th, o))) = normal(readback(th, t))
  <2>1. c.vterm.k \in {"const", "lit"}
    BY <1>1, <1>2
  <2> HIDE DEF c
  <2>2. c = Cell(th, t)
    BY DEF c
  <2> QED BY <1>1, <2>1, <2>2, PlainValue
<1> HIDE DEF c, o
<1>4. u \in 0..Len(th) /\ Reads(th, o) \in Seq(Cl) /\ Len(Reads(th, o)) = 1 /\ Reads(th, o)[1] = readback(th, u)
  <2>1. 1 \in 1..Len(o) /\ o[1] = u /\ Len(o) = 1
    BY <1>1
  <2> QED BY <1>0, <1>3, <2>1, ArgsRead
<1> DEFINE v == lit_value(th, u)
           w == lit_value(th, t)
<1>5. w = IF v.k = "lit" THEN [k |-> "lit", n |-> v.n + 1] ELSE v
  <2>1. w = LitValue(th, t)
    BY DEF Recursion
  <2>2. o # <<>>
    BY <1>1
  <2>3. c = Cell(th, t) /\ o = c.args
    BY DEF c, o
  <2>4. LitValue(th, t) = IF v.k = "lit" THEN [k |-> "lit", n |-> v.n + 1] ELSE v
    BY <1>1, <1>2, <2>2, <2>3 DEF LitValue
  <2> QED BY <2>1, <2>4
<1> HIDE DEF v, w
<1>6. ASSUME NumeralIs(th, u) PROVE NumeralIs(th, t)
  <2>1. /\ v.k = "lit" => v.n \in Nat /\ normal(readback(th, u)) = normal(LitNat(v.n))
        /\ v.k = "unforced" => v.t \in 0..Len(th)
    BY <1>6 DEF NumeralIs, v
  <2>2. CASE v.k = "lit"
    <3>1. w.k = "lit" /\ w.n = v.n + 1 /\ w.k # "unforced" /\ v.n \in Nat
      BY <1>5, <2>1, <2>2
    <3> DEFINE m == v.n
               x == LitNat(m)
               r == <<x>>
    <3>2. m \in Nat /\ x \in Cl /\ normal(readback(th, u)) = normal(x)
      <4>1. m \in Nat /\ normal(readback(th, u)) = normal(x)
        BY <2>1, <2>2
      <4>2. x \in Term /\ x.k = "lit"
        BY <4>1 DEF TermHyp, Complete, LitNat
      <4> QED BY <4>1, <4>2 DEF TermHyp, Grammar, Cl, Closed
    <3>3. r \in Seq(Cl) /\ Len(r) = 1 /\ r[1] = x
      BY <3>2
    <3>4. normal(LitNat(m + 1)) = normal(mk_apps(succ, r))
      BY <3>2 DEF ReductionHyp, NumeralLaws
    <3> HIDE DEF r, succ
    <3>5. normal(mk_apps(succ, r)) = normal(mk_apps(succ, Reads(th, o)))
      <4>1. Len(r) = Len(Reads(th, o)) /\ \A i \in 1..Len(Reads(th, o)) : normal(r[i]) = normal(Reads(th, o)[i])
        BY <1>4, <3>2, <3>3
      <4> QED BY <1>2, <1>4, <3>3, <4>1, AppsSame
    <3>6. m + 1 \in Nat /\ normal(readback(th, t)) = normal(LitNat(m + 1))
      BY <1>3, <3>2, <3>4, <3>5
    <3> QED BY <3>1, <3>6 DEF NumeralIs, w
  <2>3. CASE v.k # "lit"
    <3>1. w = v
      BY <1>5, <2>3
    <3> QED BY <2>1, <2>3, <3>1 DEF NumeralIs, w
  <2> QED BY <2>2, <2>3
<1> QED BY <1>4, <1>6

LEMMA ThroughEnds ==
  ASSUME Hyp, NEW th, HeapOK(th), NEW t \in 0..Len(th), ~\E u : Through(th, t, u)
  PROVE  NumeralIs(th, t)
<1> USE DEF Hyp
<1> DEFINE c == Cell(th, t)
           o == c.args
           w == lit_value(th, t)
<1>1. ~(c.state = 3 /\ c.vterm = Const("succ") /\ Len(o) = 1)
  BY DEF Through
<1>2. w = LitValue(th, t)
  BY DEF Recursion
<1>3. \/ c.state # 3 /\ w = [k |-> "unforced", t |-> t]
      \/ c.state = 3 /\ o = <<>> /\ c.vterm.k = "lit" /\ w = [k |-> "lit", n |-> c.vterm.n]
      \/ c.state = 3 /\ o = <<>> /\ c.vterm = Const("zero") /\ w = [k |-> "lit", n |-> 0]
      \/ w = [k |-> "none"]
  BY <1>1, <1>2 DEF LitValue
<1>4. ASSUME c.state = 3, o = <<>>, c.vterm.k \in {"const", "lit"}
      PROVE  c.vterm \in Term /\ normal(c.vterm) = normal(readback(th, t))
  <2> HIDE DEF c
  <2>1. c = Cell(th, t)
    BY DEF c
  <2> QED BY <1>4, <2>1, PlainValue
<1> HIDE DEF c, o, w
<1>5. CASE w = [k |-> "unforced", t |-> t]
  BY <1>5 DEF NumeralIs, w
<1>6. CASE c.state = 3 /\ o = <<>> /\ c.vterm.k = "lit" /\ w = [k |-> "lit", n |-> c.vterm.n]
  <2>1. c.vterm.n \in Nat /\ c.vterm = LitNat(c.vterm.n) /\ normal(c.vterm) = normal(readback(th, t))
    BY <1>4, <1>6 DEF TermHyp, Grammar
  <2>2. w.k = "lit" /\ w.k # "unforced" /\ w.n = c.vterm.n
    BY <1>6
  <2> QED BY <2>1, <2>2 DEF NumeralIs, w
<1>7. CASE c.state = 3 /\ o = <<>> /\ c.vterm = Const("zero") /\ w = [k |-> "lit", n |-> 0]
  <2>1. Const("zero").k = "const"
    BY DEF Const
  <2>2. normal(LitNat(0)) = normal(readback(th, t))
    BY <1>4, <1>7, <2>1 DEF ReductionHyp, NumeralLaws
  <2>3. w.k = "lit" /\ w.k # "unforced" /\ w.n = 0
    BY <1>7
  <2> QED BY <2>2, <2>3 DEF NumeralIs, w
<1>8. CASE w = [k |-> "none"]
  BY <1>8 DEF NumeralIs, w
<1> QED BY <1>3, <1>5, <1>6, <1>7, <1>8

LEMMA NumeralOK ==
  ASSUME Hyp, NEW th, HeapOK(th), NEW t \in 0..Len(th)
  PROVE  NumeralIs(th, t)
<1> USE DEF Hyp
<1>1. CASE lit_value(th, t).k \notin {"lit", "unforced"}
  BY <1>1 DEF NumeralIs
<1>2. CASE lit_value(th, t).k \in {"lit", "unforced"}
  <2>1. Written(th)
    BY DEF HeapOK
  <2>2. PICK s \in Seq(Nat) : /\ s # <<>> /\ s[1] = t
                              /\ \A i \in 1..(Len(s) - 1) : Through(th, s[i], s[i + 1])
                              /\ ~\E u : Through(th, s[Len(s)], u)
    BY <1>2, <2>1 DEF Recursion
  <2> DEFINE n == Len(s)
             A == {i \in Nat : i + 1 \in 1..n => s[i + 1] \in 0..Len(th)}
             B == {i \in Nat : n - i \in 1..n => NumeralIs(th, s[n - i])}
  <2>3. n \in Nat /\ n >= 1
    BY <2>2
  <2>4. A = Nat
    <3>1. 0 \in A
      BY <2>2
    <3>2. ASSUME NEW i \in A PROVE i + 1 \in A
      <4> SUFFICES ASSUME (i + 1) + 1 \in 1..n PROVE s[(i + 1) + 1] \in 0..Len(th)
        OBVIOUS
      <4> DEFINE j == i + 1
      <4>1. j \in 1..n /\ j \in 1..(n - 1)
        BY <2>3
      <4>2. s[j] \in 0..Len(th) /\ Through(th, s[j], s[j + 1])
        BY <2>2, <4>1
      <4> HIDE DEF j
      <4>3. s[j + 1] \in 0..Len(th)
        BY <4>2, ThroughIs
      <4> QED BY <4>3 DEF j
    <3> HIDE DEF A
    <3>3. A \in SUBSET Nat
      BY DEF A
    <3> QED BY <3>1, <3>2, <3>3, Induction
  <2>5. ASSUME NEW i \in 1..n PROVE s[i] \in 0..Len(th)
    <3>1. i - 1 \in Nat /\ (i - 1) + 1 = i
      BY <2>3
    <3> HIDE DEF A
    <3>2. i - 1 \in A
      BY <2>4, <3>1
    <3> QED BY <3>1, <3>2 DEF A
  <2> HIDE DEF A
  <2>6. B = Nat
    <3>1. 0 \in B
      <4>1. n - 0 = n /\ n \in 1..n
        BY <2>3
      <4>2. NumeralIs(th, s[n])
        BY <2>2, <2>5, <4>1, ThroughEnds
      <4> QED BY <4>1, <4>2
    <3>2. ASSUME NEW i \in B PROVE i + 1 \in B
      <4> SUFFICES ASSUME n - (i + 1) \in 1..n PROVE NumeralIs(th, s[n - (i + 1)])
        OBVIOUS
      <4> DEFINE j == n - (i + 1)
      <4>1. j \in 1..n /\ j \in 1..(n - 1) /\ j + 1 = n - i /\ n - i \in 1..n
        BY <2>3
      <4>2. NumeralIs(th, s[j + 1])
        BY <4>1
      <4>3. Through(th, s[j], s[j + 1]) /\ s[j] \in 0..Len(th)
        BY <2>2, <2>5, <4>1
      <4> HIDE DEF j
      <4>4. NumeralIs(th, s[j])
        BY <4>2, <4>3, ThroughIs
      <4> QED BY <4>4 DEF j
    <3> HIDE DEF B
    <3>3. B \in SUBSET Nat
      BY DEF B
    <3> QED BY <3>1, <3>2, <3>3, Induction
  <2>7. n - 1 \in Nat /\ n - (n - 1) = 1 /\ 1 \in 1..n
    BY <2>3
  <2> HIDE DEF B
  <2>8. n - 1 \in B
    BY <2>6, <2>7
  <2> QED BY <2>2, <2>7, <2>8 DEF B
<1> QED BY <1>1, <1>2

\* What the definitions unfold to.
UnfoldsOK == \A c \in DOMAIN unfold_cache : unfold_cache[c] \in Cl /\ normal(unfold_cache[c]) = normal(Const(c))

LEMMA UnfoldOK ==
  ASSUME Hyp, UnfoldsOK, NEW X, NEW S, StoreOK(S.th, S.cl, X), Moves(heap, S.th), NEW g,
         Run(S.th, h, env, <<>>, st', g, X), h.k = "const", h.c \in Defs,
         heap' = S.th, closed' = S.cl, Unfold
  PROVE  Proceeds(X, g)
<1> USE DEF Hyp
<1> DEFINE e0 == <<>>
           v == unfold_cache[h.c]
<1>0. Written(S.th)
  BY StoreIs
<1>1. Run(S.th, h, env, e0, st', g, X) /\ Scoped(h, env, Len(S.th))
  BY DEF Run
<1> HIDE DEF e0
<1>2. CASE h.c \in DOMAIN unfold_cache /\ Becomes(unfold_cache[h.c], <<>>)
  <2>1. h' = v /\ env' = e0 /\ pc' = "step" /\ v \in Cl /\ normal(v) = normal(Const(h.c))
    BY <1>2 DEF Becomes, UnfoldsOK, e0
  <2>2. h = Const(h.c) /\ readback_closure(S.th, h, env) = h
    BY <1>0, <1>1, ConstIs
  <2> HIDE DEF v
  <2>3. Scoped(v, e0, Len(S.th)) /\ readback_closure(S.th, v, e0) = v
    BY <1>0, <2>1, ReadClosedTerm DEF e0
  <2>4. Run(S.th, v, e0, e0, st', g, X)
    BY <1>0, <1>1, <2>1, <2>2, <2>3, NewTerm DEF e0
  <2>5. pc' \in {"step", "unwind", "unfold"} /\ pc' # "unfold"
    BY <2>1
  <2>6. Run(heap', h', env', e0, st', g, X)
    BY <2>1, <2>4
  <2> QED BY <2>5, <2>6 DEF Proceeds, e0
<1>3. CASE h.c \notin DOMAIN unfold_cache /\ pc' = "unfold" /\ UNCHANGED <<h, env, delta>>
  <2>1. h' = h /\ env' = env /\ pc' = "unfold" /\ IsConst(h') /\ h'.c \in Defs
    BY <1>3 DEF IsConst
  <2>2. Run(heap', h', env', e0, st', g, X)
    BY <1>1, <2>1
  <2> QED BY <2>1, <2>2 DEF Proceeds, e0
<1> QED BY <1>2, <1>3 DEF Unfold

\* The same with the arguments put back.
LEMMA UnfoldBack ==
  ASSUME Hyp, UnfoldsOK, NEW X, NEW S, StoreOK(S.th, S.cl, X), Moves(heap, S.th), NEW args, NEW rest, NEW g,
         Run(S.th, h, env, args, rest, g, X), h.k = "const", h.c \in Defs,
         st' = ArgFrames(args) \o rest, heap' = S.th, closed' = S.cl, Unfold
  PROVE  Proceeds(X, g)
<1>1. Written(S.th)
  BY StoreIs
<1> DEFINE e0 == <<>>
           s2 == ArgFrames(args) \o rest
<1>2. Run(S.th, h, env, e0, s2, g, X)
  BY <1>1, PushArgs
<1>3. st' = s2
  OBVIOUS
<1> HIDE DEF e0, s2
<1>4. Run(S.th, h, env, e0, st', g, X)
  BY <1>2, <1>3
<1> QED BY <1>4, UnfoldOK DEF e0

LEMMA MinIn ==
  ASSUME NEW S \in SUBSET Nat, S # {}
  PROVE  Min(S) \in S /\ \A x \in S : Min(S) <= x
<1>1. \E x \in S : \A y \in S : x <= y
  BY Least
<1> QED BY <1>1 DEF Min

\* A primitive on numerals: what it computes of the operands ns of s is r.
Operands(c, s, ns, r) ==
  LET n == IF Decls[c].op = "succ" THEN 1 ELSE 2
  IN /\ s \in Seq(Cl) /\ Len(s) = n
     /\ \A i \in 1..n : ns[i] \in Nat /\ normal(s[i]) = normal(LitNat(ns[i]))
     /\ r = IF Decls[c].op = "succ" THEN ns[1] + 1 ELSE ns[1] + ns[2]

LEMMA Computes ==
  ASSUME Hyp, NEW c \in DOMAIN Decls, Decls[c].kind \in {"def", "ctor"}, Decls[c].op # "none", Const(c) \in Cl,
         NEW s, NEW ns, NEW r, Operands(c, s, ns, r)
  PROVE  LitNat(r) \in Cl /\ normal(mk_apps(Const(c), s)) = normal(LitNat(r))
<1> USE DEF Hyp
<1> DEFINE op == Decls[c].op
           n == IF op = "succ" THEN 1 ELSE 2
<1>0. /\ s \in Seq(Cl) /\ Len(s) = n
      /\ \A i \in 1..n : ns[i] \in Nat /\ normal(s[i]) = normal(LitNat(ns[i]))
      /\ r = IF op = "succ" THEN ns[1] + 1 ELSE ns[1] + ns[2]
  BY DEF Operands
<1>1. \A m \in Nat : LitNat(m) \in Cl
  <2> TAKE m \in Nat
  <2>1. LitNat(m) \in Term /\ LitNat(m).k = "lit"
    BY DEF TermHyp, Complete, LitNat
  <2> QED BY <2>1 DEF TermHyp, Grammar, Cl, Closed
<1>2. CASE op = "succ"
  <2> DEFINE x == LitNat(ns[1])
             t == <<x>>
  <2>1. n = 1 /\ ns[1] \in Nat /\ r = ns[1] + 1 /\ r \in Nat
    BY <1>0, <1>2
  <2>2. normal(mk_apps(Const(c), t)) = normal(LitNat(r))
    BY <1>2, <2>1 DEF ReductionHyp, NumeralLaws
  <2>3. t \in Seq(Cl) /\ Len(t) = 1 /\ t[1] = x
    BY <1>1, <2>1
  <2>4. \A i \in 1..1 : normal(s[i]) = normal(t[i])
    BY <1>0, <2>1, <2>3
  <2> HIDE DEF x, t
  <2>5. normal(mk_apps(Const(c), s)) = normal(mk_apps(Const(c), t))
    BY <1>0, <2>1, <2>3, <2>4, AppsSame
  <2> QED BY <1>1, <2>1, <2>2, <2>5
<1>3. CASE op # "succ"
  <2> DEFINE x == LitNat(ns[1])
             y == LitNat(ns[2])
             t == <<x, y>>
  <2>1. n = 2 /\ ns[1] \in Nat /\ ns[2] \in Nat /\ r = ns[1] + ns[2] /\ r \in Nat
    <3>1. n = 2
      BY <1>3
    <3>2. 1 \in 1..n /\ 2 \in 1..n
      BY <3>1
    <3>3. ns[1] \in Nat /\ ns[2] \in Nat
      BY <1>0, <3>2
    <3> QED BY <1>0, <1>3, <3>1, <3>3
  <2>2. normal(mk_apps(Const(c), t)) = normal(LitNat(r))
    BY <1>3, <2>1 DEF ReductionHyp, NumeralLaws
  <2>3. t \in Seq(Cl) /\ Len(t) = 2 /\ t[1] = x /\ t[2] = y
    BY <1>1, <2>1
  <2>4. \A i \in 1..2 : normal(s[i]) = normal(t[i])
    <3>1. normal(s[1]) = normal(x) /\ normal(s[2]) = normal(y)
      BY <1>0, <2>1
    <3> HIDE DEF x, y, t
    <3>2. normal(s[1]) = normal(t[1]) /\ normal(s[2]) = normal(t[2])
      BY <2>3, <3>1
    <3> QED BY <3>2
  <2> HIDE DEF x, y, t
  <2>5. normal(mk_apps(Const(c), s)) = normal(mk_apps(Const(c), t))
    BY <1>0, <2>1, <2>3, <2>4, AppsSame
  <2> QED BY <1>1, <2>1, <2>2, <2>5
<1> QED BY <1>2, <1>3

\* A primitive whose operands are numerals: the numeral it computes is equal to it.
LEMMA ComputesOK ==
  ASSUME Hyp, NEW X, NEW th, StoreOK(th, closed, X), Moves(heap, th), NEW args, NEW rest,
         Run(th, h, env, args, rest, of, X), h.k = "const", Op # "none", Len(args) = Arity,
         \A i \in 1..Arity : lit_value(th, args[i]).k = "lit",
         h' = LitNat(nat_compute([i \in 1..Arity |-> lit_value(th, args[i]).n])), env' = <<>>, pc' = "step",
         st' = rest, heap' = th, closed' = closed
  PROVE  Proceeds(X, of)
<1> USE DEF Hyp
<1> DEFINE c == h.c
           op == Op
           n == Arity
           s == Reads(th, args)
           ns == [i \in 1..Arity |-> lit_value(th, args[i]).n]
           r == nat_compute(ns)
           e0 == <<>>
<1>0. Written(th) /\ HeapOK(th) /\ Scoped(h, env, Len(th)) /\ args \in Seq(0..Len(th))
  BY StoreIs DEF Run
<1>1. c \in DOMAIN Decls /\ Decls[c].kind \in {"def", "ctor"} /\ op = Decls[c].op /\ op # "none"
  BY DEF Op
<1>2. n = (IF op = "succ" THEN 1 ELSE 2) /\ r = (IF op = "succ" THEN ns[1] + 1 ELSE ns[1] + ns[2])
  BY DEF Arity, nat_compute
<1>3. h \in Cl /\ h = Const(c) /\ Val(th, h, env, args) = mk_apps(h, s)
  BY <1>0, ConstIs
<1>4. s \in Seq(Cl) /\ Len(s) = n /\ \A i \in 1..n : s[i] = readback(th, args[i]) /\ args[i] \in 0..Len(th)
  BY <1>0, ArgsRead
<1>5. \A i \in 1..n : ns[i] \in Nat /\ normal(s[i]) = normal(LitNat(ns[i]))
  <2> TAKE i \in 1..n
  <2>1. lit_value(th, args[i]).k = "lit" /\ ns[i] = lit_value(th, args[i]).n
    OBVIOUS
  <2>2. NumeralIs(th, args[i])
    BY <1>0, <1>4, NumeralOK
  <2> QED BY <1>4, <2>1, <2>2 DEF NumeralIs
<1>6. h' = LitNat(r) /\ env' = e0
  OBVIOUS
<1> HIDE DEF c, op, n, s, ns, r, e0
<1>7. LitNat(r) \in Cl /\ normal(mk_apps(Const(c), s)) = normal(LitNat(r))
  <2>1. Operands(c, s, ns, r)
    BY <1>1, <1>2, <1>4, <1>5 DEF Operands
  <2>2. c \in DOMAIN Decls /\ Decls[c].kind \in {"def", "ctor"} /\ Decls[c].op # "none" /\ Const(c) \in Cl
    BY <1>1, <1>3
  <2> QED BY <2>1, <2>2, Computes
<1> DEFINE x == LitNat(r)
<1> HIDE DEF x
<1>8. x \in Cl /\ h' = x /\ normal(Val(th, h, env, args)) = normal(x)
  BY <1>3, <1>6, <1>7 DEF x
<1>9. Scoped(x, e0, Len(th)) /\ readback_closure(th, x, e0) = x
  BY <1>0, <1>8, ReadClosedTerm DEF e0
<1>10. e0 \in Seq(0..Len(th)) /\ e0 = <<>>
  BY DEF e0
<1>11. Val(th, x, e0, e0) = x
  BY <1>0, <1>9, <1>10, ValNil
<1>12. Run(th, x, e0, e0, rest, of, X)
  BY <1>8, <1>9, <1>10, <1>11, NewHead
<1>13. Run(heap', h', env', e0, st', of, X)
  BY <1>6, <1>8, <1>12
<1> QED BY <1>13 DEF Proceeds, e0

LEMMA NatOK ==
  ASSUME Hyp, UnfoldsOK, NEW X, Stands(X), NatStep
  PROVE  Proceeds(X, of)
<1> USE DEF Hyp
<1> DEFINE T == Taken(Arity)
           lits == [i \in 1..Arity |-> lit_value(T.th, T.args[i])]
           open == {i \in 1..Arity : Cell(T.th, T.args[i]).state # 3}
           first == Min({i \in 1..Arity : lits[i].k # "lit"} \cup {Arity + 1})
           Wait(t) == enter(t, <<Cont(h, env, T.args, delta)>> \o T.rest, TRUE, Store(T.th))
<1>1. h.k = "const" /\ Op # "none" /\ can_take(Arity, st) /\ Arity \in {1, 2}
  BY DEF NatStep, At, IsNatOp, Arity
<1>2. h.c \in DOMAIN Decls /\ Decls[h.c].kind \in {"def", "ctor"} /\ Op = Decls[h.c].op
  BY <1>1 DEF Op
<1>3. Op # "succ" => h.c \in Defs
  BY <1>1, <1>2 DEF ReductionHyp, Environment, Defs
<1>4. \/ open # {} /\ Wait(T.args[Min(open)])
      \/ open = {} /\ first <= Arity /\ lits[first].k = "unforced" /\ Wait(lits[first].t)
      \/ /\ open = {} /\ first > Arity
         /\ Becomes(LitNat(nat_compute([i \in 1..Arity |-> lits[i].n])), <<>>)
         /\ st' = T.rest /\ heap' = T.th /\ closed' = closed
      \/ /\ open = {} /\ first <= Arity /\ lits[first].k = "none"
         /\ PushBack(T) /\ IF Op = "succ" THEN IsValue ELSE Unfold
  BY DEF NatStep
<1>5. /\ StoreOK(T.th, closed, X) /\ Moves(heap, T.th) /\ Run(T.th, h, env, T.args, T.rest, of, X)
      /\ T.args \in Seq(0..Len(T.th)) /\ Len(T.args) = Arity
  <2> DEFINE n == Arity
             R == Taken(n)
  <2>1. n \in Nat /\ can_take(n, st) /\ StoreOK(heap, closed, X) /\ Run(heap, h, env, <<>>, st, of, X)
    BY <1>1 DEF Stands
  <2>2. T = R
    OBVIOUS
  <2> HIDE DEF n, T
  <2>3. /\ StoreOK(R.th, closed, X) /\ Moves(heap, R.th) /\ Run(R.th, h, env, R.args, R.rest, of, X)
        /\ R.args \in Seq(0..Len(R.th)) /\ Len(R.args) = n
    BY <2>1, TakenOK
  <2> HIDE DEF R
  <2> QED BY <2>2, <2>3 DEF n
<1> HIDE DEF T
<1> DEFINE th == T.th
           args == T.args
           rest == T.rest
           S == Store(th)
<1>6. S.th = th /\ S.cl = closed
  BY DEF Store
<1>7. HeapOK(th) /\ of \in Cl /\ Len(th) \in Nat
  BY <1>5, StoreIs DEF Run
<1>8. ASSUME NEW i \in 1..Arity PROVE args[i] \in 0..Len(th)
  BY <1>5
<1>9. ASSUME NEW t \in 0..Len(th), Wait(t) PROVE Proceeds(X, of)
  <2>1. enter(t, <<Cont(h, env, args, delta)>> \o rest, TRUE, S)
    BY <1>9
  <2>2. StoreOK(S.th, S.cl, X) /\ Moves(heap, S.th) /\ Run(S.th, h, env, args, rest, of, X) /\ t \in 0..Len(S.th)
    BY <1>5, <1>6
  <2> HIDE DEF S, args, rest, th
  <2> QED BY <1>7, <2>1, <2>2, Waits
<1>10. first \in 1..Arity \/ (first = Arity + 1 /\ \A i \in 1..Arity : lits[i].k = "lit")
  <2> DEFINE A == {i \in 1..Arity : lits[i].k # "lit"} \cup {Arity + 1}
  <2>1. A \in SUBSET Nat /\ A # {}
    BY <1>1
  <2> HIDE DEF A
  <2>2. Min(A) \in A /\ \A x \in A : Min(A) <= x
    BY <2>1, MinIn
  <2>3. first = Min(A)
    BY DEF A
  <2> HIDE DEF first
  <2>4. CASE first \in 1..Arity
    BY <2>4
  <2>5. CASE first \notin 1..Arity
    <3>1. first = Arity + 1
      BY <2>2, <2>3, <2>5 DEF A
    <3>2. \A i \in 1..Arity : i \notin A
      BY <1>1, <2>2, <2>3, <3>1
    <3>3. \A i \in 1..Arity : lits[i].k = "lit"
      BY <3>2 DEF A
    <3> QED BY <3>1, <3>3
  <2> QED BY <2>4, <2>5
<1> HIDE DEF first
<1>11. CASE open # {} /\ Wait(T.args[Min(open)])
  <2>1. open \in SUBSET Nat
    BY <1>1
  <2>2. Min(open) \in open
    <3> HIDE DEF open
    <3> QED BY <1>11, <2>1, MinIn
  <2>3. args[Min(open)] \in 0..Len(th)
    BY <1>8, <2>2
  <2> QED BY <1>9, <1>11, <2>3
<1>12. CASE first <= Arity /\ lits[first].k = "unforced" /\ Wait(lits[first].t)
  <2>1. first \in 1..Arity
    BY <1>1, <1>10, <1>12
  <2>2. NumeralIs(th, args[first]) /\ lits[first] = lit_value(th, args[first])
    BY <1>7, <1>8, <2>1, NumeralOK
  <2>3. lits[first].t \in 0..Len(th)
    BY <1>12, <2>2 DEF NumeralIs
  <2> QED BY <1>9, <1>12, <2>3
<1>13. CASE /\ first > Arity
            /\ Becomes(LitNat(nat_compute([i \in 1..Arity |-> lits[i].n])), <<>>)
            /\ st' = T.rest /\ heap' = T.th /\ closed' = closed
  <2>1. \A i \in 1..Arity : lits[i].k = "lit"
    BY <1>1, <1>10, <1>13
  <2>2. \A i \in 1..Arity : lit_value(th, args[i]).k = "lit"
    BY <2>1
  <2>3. [i \in 1..Arity |-> lits[i].n] = [i \in 1..Arity |-> lit_value(th, args[i]).n]
    OBVIOUS
  <2>4. /\ h' = LitNat(nat_compute([i \in 1..Arity |-> lit_value(th, args[i]).n])) /\ env' = <<>> /\ pc' = "step"
        /\ st' = rest /\ heap' = th /\ closed' = closed
    BY <1>13, <2>3 DEF Becomes
  <2>5. StoreOK(th, closed, X) /\ Moves(heap, th) /\ Run(th, h, env, args, rest, of, X) /\ Len(args) = Arity
    BY <1>5
  <2> HIDE DEF th, args, rest
  <2> QED BY <1>1, <2>2, <2>4, <2>5, ComputesOK
<1>14. CASE PushBack(T) /\ IF Op = "succ" THEN IsValue ELSE Unfold
  <2>1. /\ StoreOK(S.th, S.cl, X) /\ Moves(heap, S.th) /\ Run(S.th, h, env, args, rest, of, X)
        /\ st' = ArgFrames(args) \o rest /\ heap' = S.th /\ closed' = S.cl
    BY <1>5, <1>6, <1>14 DEF PushBack
  <2> HIDE DEF S, args, rest
  <2>2. CASE Op = "succ"
    <3>1. h' = h /\ env' = env /\ pc' = "unwind"
      BY <1>14, <2>2 DEF IsValue
    <3> QED BY <2>1, <3>1, PushesBack
  <2>3. CASE Op # "succ"
    <3>1. Unfold /\ h.c \in Defs
      BY <1>3, <1>14, <2>3
    <3> QED BY <1>1, <2>1, <3>1, UnfoldBack
  <2> QED BY <2>2, <2>3
<1> QED BY <1>4, <1>11, <1>12, <1>13, <1>14
-------------------------------------------------------------------------------
(***************************************************************************)
(* Definitions.                                                            *)
(***************************************************************************)

\* The arms of a rule.
ArmsOK(c, r) ==
  r.major \in Nat /\ \A ctor \in DOMAIN r.arms : ArmFor(Term, Seq(Cl), c, r.major, ctor, r.arms[ctor])
RulesOK == \A c \in Defs : rule[c] = "some" => c \in DOMAIN rules /\ ArmsOK(c, rules[c])

\* The definition on the constructor hd of the fields, and the arm for it.
LEMMA ArmOK ==
  ASSUME Hyp, NEW X, NEW th, Written(th), NEW args, NEW rest, Run(th, h, env, args, rest, of, X), h.k = "const",
         NEW k \in Nat, Len(args) = k + 1, NEW fields \in Seq(0..Len(th)), NEW hd \in Cl, hd = Const(hd.c),
         normal(mk_apps(hd, Reads(th, fields))) = normal(readback(th, args[k + 1])),
         NEW arm, ArmFor(Term, Seq(Cl), h.c, k, hd.c, arm), Len(fields) = arm.nfields
  PROVE  Run(th, arm.body, Reverse(fields) \o Reverse(SubSeq(args, 1, k)), <<>>, rest, of, X)
<1> USE DEF Hyp
<1> DEFINE bs == SubSeq(args, 1, k)
           e == Reverse(fields) \o Reverse(bs)
           s == Reads(th, args)
           before == SubSeq(s, 1, k)
           fs == Reads(th, fields)
           m == readback(th, args[k + 1])
           con == mk_apps(hd, fs)
           b == arm.body
           zs == Reverse(before \o fs)
<1>1. Scoped(h, env, Len(th)) /\ args \in Seq(0..Len(th)) /\ k <= Len(args)
  BY DEF Run
<1>2. h \in Cl /\ h = Const(h.c) /\ Val(th, h, env, args) = mk_apps(h, s)
  BY <1>1, ConstIs
<1>3. s = Append(before, m)
  BY <1>1, ReadsLast
<1>4. Reads(th, bs) = before /\ bs \in Seq(0..Len(th)) /\ Len(bs) = k /\ before \in Seq(Cl) /\ Len(before) = k
  BY <1>1, ReadsFront
<1>5. m \in Cl
  <2>1. k + 1 \in 1..Len(args)
    OBVIOUS
  <2>2. args[k + 1] \in 0..Len(th)
    BY <1>1, <2>1
  <2> QED BY <2>2, ReadClosed
<1>6. fs \in Seq(Cl) /\ Len(fs) = Len(fields) /\ Len(fields) \in Nat
  BY ArgsRead
<1> HIDE DEF bs, s, before, fs, m
<1>7. con \in Cl /\ normal(con) = normal(m)
  BY <1>6, AppsClosed DEF m, fs
<1>8. /\ b \in Term /\ loose_bvar_range(b) <= k + Len(fields)
      /\ normal(mk_apps(Const(h.c), Append(before, mk_apps(Const(hd.c), fs)))) = normal(Inst(b, zs))
  BY <1>4, <1>6 DEF ArmFor
<1>9. normal(mk_apps(h, Append(before, con))) = normal(Inst(b, zs))
  BY <1>2, <1>8
<1> HIDE DEF con, zs, b
<1>10. normal(Val(th, h, env, args)) = normal(Inst(b, zs))
  <2>1. normal(mk_apps(h, Append(before, con))) = normal(mk_apps(h, Append(before, m)))
    BY <1>2, <1>4, <1>5, <1>7, LastSame
  <2> QED BY <1>2, <1>3, <1>9, <2>1
<1>11. e \in Seq(0..Len(th)) /\ Len(e) = Len(fields) + k /\ Reads(th, e) = zs
  <2>1. RuleEnv(th, bs, fields)
    BY <1>4, RuleReads
  <2>2. e \in Seq(0..Len(th)) /\ Len(e) = Len(fields) + Len(bs) /\ Reads(th, e) = Reverse(fs) \o Reverse(before)
    BY <1>4, <2>1 DEF RuleEnv, fs
  <2>3. Reverse(before \o fs) = Reverse(fs) \o Reverse(before)
    BY <1>4, <1>6, ReverseJoin
  <2> HIDE DEF e
  <2> QED BY <1>4, <2>2, <2>3 DEF zs
<1> HIDE DEF e
<1>12. Scoped(b, e, Len(th))
  <2>1. loose_bvar_range(b) \in Nat
    BY <1>8 DEF TermHyp, Grammar
  <2>2. loose_bvar_range(b) <= Len(e)
    BY <1>6, <1>8, <1>11, <2>1
  <2> QED BY <1>8, <1>11, <2>2 DEF Scoped
<1>13. readback_closure(th, b, e) = Inst(b, zs)
  BY <1>11, <1>12, ClosureRead
<1> DEFINE e0 == <<>>
<1>14. e0 \in Seq(0..Len(th)) /\ e0 = <<>>
  OBVIOUS
<1> HIDE DEF e0
<1>15. Val(th, b, e, e0) = Inst(b, zs)
  BY <1>12, <1>13, <1>14, ValNil
<1>16. Run(th, b, e, e0, rest, of, X)
  BY <1>10, <1>12, <1>14, <1>15, NewHead
<1> QED BY <1>16 DEF e0, b, e, bs

LEMMA FixOK ==
  ASSUME Hyp, UnfoldsOK, RulesOK, NEW X, Stands(X), FixStep
  PROVE  Proceeds(X, of)
<1> USE DEF Hyp
<1> DEFINE r == rules[h.c]
           k == r.major
           T == Taken(r.major + 1)
           m == T.args[r.major + 1]
           c == lit_ctor(Store(T.th), m)
           applies == /\ IsConst(c.hd) /\ c.hd.c \in DOMAIN r.arms
                      /\ Len(c.args) = r.arms[c.hd.c].nfields
           arm == r.arms[c.hd.c]
<1>1. h.k = "const" /\ h.c \in Defs /\ can_take(k + 1, st) /\ rule[h.c] = "some"
  BY DEF FixStep, Rule, MayHaveRule, IsDef, At, KindOf, IsConst, Defs
<1>2. k \in Nat /\ k + 1 \in Nat /\ ArmsOK(h.c, r)
  BY <1>1 DEF RulesOK, ArmsOK
<1>3. StoreOK(heap, closed, X) /\ Run(heap, h, env, <<>>, st, of, X)
  BY DEF Stands
<1>4. \/ Cell(T.th, m).state # 3 /\ force_via(T.args, k + 1, T.rest, Store(T.th))
      \/ /\ Cell(T.th, m).state = 3 /\ applies
         /\ Becomes(arm.body, Reverse(c.args) \o Reverse(SubSeq(T.args, 1, k)))
         /\ st' = T.rest /\ Keep(c.S)
      \/ PushBack(T) /\ Unfold
  BY DEF FixStep
<1>5. /\ StoreOK(T.th, closed, X) /\ Moves(heap, T.th) /\ Run(T.th, h, env, T.args, T.rest, of, X)
      /\ T.args \in Seq(0..Len(T.th)) /\ Len(T.args) = k + 1 /\ Made_OK(Store(T.th), X)
  <2> DEFINE n == k + 1
             R == Taken(n)
  <2>1. n \in Nat /\ can_take(n, st)
    BY <1>1, <1>2
  <2>2. T = R
    OBVIOUS
  <2> HIDE DEF n, T
  <2>3. /\ StoreOK(R.th, closed, X) /\ Moves(heap, R.th) /\ Run(R.th, h, env, R.args, R.rest, of, X)
        /\ R.args \in Seq(0..Len(R.th)) /\ Len(R.args) = n /\ Made_OK(Store(R.th), X)
    BY <1>3, <2>1, TakenOK
  <2> HIDE DEF R
  <2> QED BY <2>2, <2>3 DEF n
<1> HIDE DEF T
<1> DEFINE th == T.th
           args == T.args
           rest == T.rest
           S == Store(th)
<1>6. S.th = th /\ S.cl = closed
  BY DEF Store
<1>7. Len(th) \in Nat /\ of \in Cl /\ m \in 0..Len(th) /\ m = args[k + 1]
  <2>1. Len(th) \in Nat /\ of \in Cl
    BY <1>5, StoreIs DEF Run
  <2>2. k + 1 \in 1..Len(args)
    BY <1>2, <1>5
  <2> QED BY <1>5, <2>1, <2>2
<1> HIDE DEF m
<1>8. CASE force_via(T.args, k + 1, T.rest, Store(T.th))
  <2>1. enter(m, <<Cont(h, env, args, delta)>> \o rest, TRUE, S)
    BY <1>7, <1>8 DEF force_via
  <2>2. StoreOK(S.th, S.cl, X) /\ Moves(heap, S.th) /\ Run(S.th, h, env, args, rest, of, X) /\ m \in 0..Len(S.th)
    BY <1>5, <1>6, <1>7
  <2> HIDE DEF S, args, rest, th
  <2> QED BY <1>7, <2>1, <2>2, Waits
<1>9. CASE PushBack(T) /\ Unfold
  <2>1. /\ StoreOK(S.th, S.cl, X) /\ Moves(heap, S.th) /\ Run(S.th, h, env, args, rest, of, X)
        /\ st' = ArgFrames(args) \o rest /\ heap' = S.th /\ closed' = S.cl
    BY <1>5, <1>6, <1>9 DEF PushBack
  <2> HIDE DEF S, args, rest
  <2> QED BY <1>1, <1>9, <2>1, UnfoldBack
<1>10. CASE /\ Cell(T.th, m).state = 3 /\ applies
            /\ Becomes(arm.body, Reverse(c.args) \o Reverse(SubSeq(T.args, 1, k)))
            /\ st' = T.rest /\ Keep(c.S)
  <2>1. m \in 1..Len(th) /\ th[m].state = 3
    <3> DEFINE n == Len(th)
    <3>1. Cell(th, m).state = 3 /\ n \in Nat /\ m \in 0..n
      BY <1>7, <1>10
    <3> HIDE DEF n
    <3>2. m \in 1..n /\ Cell(th, m) = th[m]
      BY <3>1, CellIs
    <3> QED BY <3>1, <3>2 DEF n
  <2>2. /\ h' = arm.body /\ env' = Reverse(c.args) \o Reverse(SubSeq(args, 1, k)) /\ pc' = "step"
        /\ st' = rest /\ heap' = c.S.th /\ closed' = c.S.cl
        /\ IsConst(c.hd) /\ c.hd.c \in DOMAIN r.arms /\ Len(c.args) = arm.nfields
    BY <1>10 DEF Becomes, Keep
  <2>3. c = lit_ctor(S, m)
    OBVIOUS
  <2>4. Made_OK(S, X) /\ Run(S.th, h, env, args, rest, of, X) /\ Moves(heap, S.th) /\ m \in 1..Len(S.th) /\ S.th[m].state = 3
    BY <1>5, <1>6, <2>1
  <2>5. ArmFor(Term, Seq(Cl), h.c, k, c.hd.c, arm)
    BY <1>2, <2>2 DEF ArmsOK
  <2> HIDE DEF c, S, args, rest, arm, k
  <2>6. LET q == lit_ctor(S, m)
        IN /\ StoreOK(q.S.th, q.S.cl, X) /\ Written(q.S.th) /\ Moves(S.th, q.S.th) /\ Extends(S.th, q.S.th)
           /\ Run(q.S.th, h, env, args, rest, of, X) /\ q.args \in Seq(0..Len(q.S.th))
           /\ IsConst(q.hd) => /\ q.hd \in Cl /\ q.hd = Const(q.hd.c)
                               /\ normal(mk_apps(q.hd, Reads(q.S.th, q.args))) = normal(readback(S.th, m))
    BY <2>4, LitCtor
  <2> DEFINE Q == c.S
             ca == c.args
             hd == c.hd
  <2>7. /\ StoreOK(Q.th, Q.cl, X) /\ Written(Q.th) /\ Moves(S.th, Q.th) /\ Extends(S.th, Q.th)
        /\ Run(Q.th, h, env, args, rest, of, X) /\ ca \in Seq(0..Len(Q.th))
        /\ hd \in Cl /\ hd = Const(hd.c)
        /\ normal(mk_apps(hd, Reads(Q.th, ca))) = normal(readback(S.th, m))
    BY <2>2, <2>3, <2>6
  <2> DEFINE t2 == Q.th
  <2>8. readback(t2, m) = readback(S.th, m)
    <3>1. m \in 0..Len(S.th)
      BY <2>4
    <3> HIDE DEF Q
    <3> QED BY <2>7, <3>1, ReadExtends
  <2>9. /\ Written(t2) /\ Run(t2, h, env, args, rest, of, X) /\ ca \in Seq(0..Len(t2))
        /\ normal(mk_apps(hd, Reads(t2, ca))) = normal(readback(t2, m))
    BY <2>7, <2>8
  <2>a. /\ h' = arm.body /\ env' = Reverse(ca) \o Reverse(SubSeq(args, 1, k)) /\ pc' = "step"
        /\ st' = rest /\ heap' = t2 /\ closed' = Q.cl /\ Len(ca) = arm.nfields
    BY <2>2
  <2>b. ArmFor(Term, Seq(Cl), h.c, k, hd.c, arm)
    BY <2>5
  <2>c. Len(args) = k + 1 /\ k \in Nat /\ m = args[k + 1]
    BY <1>2, <1>5, <1>7 DEF args, k
  <2>d. StoreOK(t2, Q.cl, X) /\ Moves(heap, t2)
    BY <2>4, <2>7, ExtendsTrans
  <2>e. hd \in Cl /\ hd = Const(hd.c)
    BY <2>7
  <2> HIDE DEF ca, hd, t2, Q
  <2> DEFINE e0 == <<>>
             e == Reverse(ca) \o Reverse(SubSeq(args, 1, k))
             b == arm.body
  <2>10. Run(t2, b, e, e0, rest, of, X)
    <3>1. normal(mk_apps(hd, Reads(t2, ca))) = normal(readback(t2, args[k + 1]))
      BY <2>9, <2>c
    <3> QED BY <1>1, <2>9, <2>a, <2>b, <2>c, <2>e, <3>1, ArmOK
  <2>11. h' = b /\ env' = e
    BY <2>a
  <2> HIDE DEF b, e, e0
  <2>12. Run(heap', h', env', e0, st', of, X)
    BY <2>10, <2>11, <2>a
  <2>13. StoreOK(heap', closed', X) /\ Moves(heap, heap') /\ pc' \in {"step", "unwind", "unfold"} /\ pc' # "unfold"
    BY <2>a, <2>d
  <2> QED BY <2>12, <2>13 DEF Proceeds, e0
<1> QED BY <1>4, <1>8, <1>9, <1>10

\* A value at the head.
LEMMA ValueHere ==
  ASSUME Hyp, NEW X, Stands(X), IsValue, UNCHANGED <<st, store>>
  PROVE  Proceeds(X, of)
<1>1. UNCHANGED store /\ pc' \in {"step", "unwind"} /\ h' = h /\ env' = env /\ st' = st
  BY DEF IsValue
<1> DEFINE e0 == <<>>
<1>2. Run(heap, h, env, e0, st, of, X) /\ StoreOK(heap, closed, X)
  BY DEF Stands
<1> HIDE DEF e0
<1>3. Run(heap, h', env', e0, st', of, X)
  BY <1>1, <1>2
<1> QED BY <1>1, <1>2, <1>3, StaysProceeds DEF e0

LEMMA ConstOK ==
  ASSUME Hyp, NEW X, Stands(X), ConstStep
  PROVE  Proceeds(X, of)
BY ValueHere DEF ConstStep

LEMMA DefOK ==
  ASSUME Hyp, UnfoldsOK, NEW X, Stands(X), DefStep
  PROVE  Proceeds(X, of)
<1>1. h.k = "const" /\ h.c \in Defs /\ UNCHANGED <<st, store>> /\ (IsValue \/ Unfold)
  BY DEF DefStep, IsDef, At, KindOf, IsConst, Defs
<1>2. CASE IsValue
  BY <1>1, <1>2, ValueHere
<1>3. CASE Unfold
  <2> DEFINE S == Store(heap)
             e0 == <<>>
  <2>1. S.th = heap /\ S.cl = closed /\ Moves(heap, heap) /\ StoreOK(heap, closed, X)
    BY StoreMade DEF Stands
  <2>2. Run(heap, h, env, e0, st, of, X)
    BY DEF Stands
  <2> HIDE DEF e0, S
  <2>3. /\ StoreOK(S.th, S.cl, X) /\ Moves(heap, S.th) /\ Run(S.th, h, env, e0, st', of, X)
        /\ heap' = S.th /\ closed' = S.cl
    BY <1>1, <2>1, <2>2 DEF store
  <2> QED BY <1>1, <1>3, <2>3, UnfoldOK DEF e0
<1> QED BY <1>1, <1>2, <1>3
-------------------------------------------------------------------------------
(***************************************************************************)
(* Unwinding a value.                                                      *)
(***************************************************************************)

\* The run goes on, or has failed.
Continues(X, g) ==
  /\ StoreOK(heap', closed', X) /\ Moves(heap, heap')
  /\ \/ pc' = "error"
     \/ /\ pc' \in {"step", "unwind", "unfold"} /\ Run(heap', h', env', out', st', g, X)
        /\ pc' \in {"step", "unfold"} \/ h'.k = "lam" => out' = <<>>
        /\ pc' = "unfold" => IsConst(h') /\ h'.c \in Defs

\* What holds of a run that unwinds a value.
Unwinds(X) ==
  /\ StoreOK(heap, closed, X) /\ Run(heap, h, env, out, st, of, X)
  /\ pc = "unwind" /\ h.k = "lam" => out = <<>>

LEMMA ProceedsContinues ==
  ASSUME NEW X, NEW g, Proceeds(X, g), out' = <<>>
  PROVE  Continues(X, g)
<1> DEFINE e0 == <<>>
<1>1. /\ StoreOK(heap', closed', X) /\ Moves(heap, heap')
      /\ \/ pc' = "error"
         \/ /\ pc' \in {"step", "unwind", "unfold"} /\ Run(heap', h', env', e0, st', g, X)
            /\ pc' = "unfold" => IsConst(h') /\ h'.c \in Defs
  BY DEF Proceeds
<1>2. out' = e0
  OBVIOUS
<1> HIDE DEF e0
<1> QED BY <1>1, <1>2 DEF Continues, e0

LEMMA UnwindsIs ==
  ASSUME Hyp, NEW X, Unwinds(X), st # <<>>
  PROVE  /\ StoreOK(heap, closed, X) /\ Written(heap) /\ Moves(heap, heap) /\ Len(heap) \in Nat
         /\ Run(heap, h, env, out, st, of, X) /\ of \in Cl /\ Scoped(h, env, Len(heap)) /\ out \in Seq(0..Len(heap))
         /\ Val(heap, h, env, out) \in Cl
         /\ StackOK(heap, Tail(st), X) /\ FrameOK(Head(st), Len(heap)) /\ Listed(Tail(st))
         /\ \E y \in Cl : Link(heap, Head(st), Val(heap, h, env, out), y) /\ Chain(heap, y, Tail(st), of)
<1> USE DEF Hyp
<1>1. StoreOK(heap, closed, X) /\ Run(heap, h, env, out, st, of, X)
  BY DEF Unwinds
<1>2. Written(heap) /\ Moves(heap, heap) /\ Len(heap) \in Nat
  <2>1. Written(heap) /\ Len(heap) \in Nat
    BY <1>1, StoreIs
  <2> QED BY <2>1, ExtendsTrans
<1>3. /\ of \in Cl /\ Scoped(h, env, Len(heap)) /\ out \in Seq(0..Len(heap)) /\ StackOK(heap, st, X)
      /\ Chain(heap, Val(heap, h, env, out), st, of)
  BY <1>1 DEF Run
<1>4. Val(heap, h, env, out) \in Cl
  BY <1>2, <1>3, ValIs
<1>5. StackOK(heap, Tail(st), X) /\ FrameOK(st[1], Len(heap)) /\ Head(st) = st[1]
  BY <1>3, StackPop
<1>6. Listed(Tail(st)) /\ Listed(st)
  BY <1>3, <1>5 DEF StackOK, Stack
<1>7. \E y \in Cl : Link(heap, st[1], Val(heap, h, env, out), y) /\ Chain(heap, y, Tail(st), of)
  BY <1>2, <1>3, <1>4, <1>5, <1>6, ChainPop
<1> QED BY <1>1, <1>2, <1>3, <1>4, <1>5, <1>6, <1>7

LEMMA ArgUnwinds ==
  ASSUME Hyp, NEW X, Unwinds(X), UnwindArg
  PROVE  Continues(X, of)
<1> USE DEF Hyp
<1>1. pc = "unwind" /\ st # <<>> /\ Head(st).k = "arg"
  BY DEF UnwindArg, Unwinding
<1>2. /\ StoreOK(heap, closed, X) /\ Written(heap) /\ Moves(heap, heap)
      /\ Run(heap, h, env, out, st, of, X)
  BY <1>1, UnwindsIs
<1>3. CASE h.k = "lam" /\ Beta /\ UNCHANGED out
  <2> DEFINE e0 == <<>>
             e == <<Head(st).th>> \o env
  <2>1. out = e0 /\ out' = e0
    BY <1>1, <1>3 DEF Unwinds
  <2>2. h' = h.b /\ env' = e /\ pc' = "step" /\ st' = Tail(st) /\ heap' = heap /\ closed' = closed
    BY <1>3 DEF Beta, Becomes, store
  <2> DEFINE b == h.b
  <2>3. Run(heap, b, e, e0, Tail(st), of, X)
    <3>1. Run(heap, h, env, e0, st, of, X)
      BY <1>2, <2>1
    <3> QED BY <1>1, <1>2, <1>3, <3>1, BetaOK
  <2>4. h' = b
    BY <2>2
  <2> HIDE DEF e0, e, b
  <2>5. Run(heap', h', env', out', st', of, X)
    BY <2>1, <2>2, <2>3, <2>4
  <2>6. StoreOK(heap', closed', X) /\ Moves(heap, heap')
    BY <1>2, <2>2
  <2>7. pc' \in {"step", "unwind", "unfold"} /\ pc' # "unfold"
    BY <2>2
  <2> QED BY <2>1, <2>5, <2>6, <2>7 DEF Continues, e0
<1>4. CASE h.k # "lam" /\ out' = Append(out, Head(st).th) /\ st' = Tail(st) /\ UNCHANGED <<h, env, delta, pc, store>>
  <2> DEFINE o == Append(out, Head(st).th)
  <2>1. Run(heap, h, env, o, Tail(st), of, X)
    BY <1>1, <1>2, PopArg
  <2>2. h' = h /\ env' = env /\ pc' = "unwind" /\ out' = o /\ st' = Tail(st) /\ heap' = heap /\ closed' = closed /\ h.k # "lam"
    BY <1>1, <1>4 DEF store
  <2> HIDE DEF o
  <2>3. Run(heap', h', env', out', st', of, X)
    BY <2>1, <2>2
  <2>4. StoreOK(heap', closed', X) /\ Moves(heap, heap')
    BY <1>2, <2>2
  <2>5. pc' \in {"step", "unwind", "unfold"} /\ pc' \notin {"step", "unfold"}
    BY <2>2
  <2> QED BY <2>2, <2>3, <2>4, <2>5 DEF Continues
<1> QED BY <1>3, <1>4 DEF UnwindArg

LEMMA UpdUnwinds ==
  ASSUME Hyp, NEW X, Unwinds(X), UnwindUpd
  PROVE  Continues(X, of)
<1> USE DEF Hyp
<1> DEFINE m == Running
           th2 == [heap EXCEPT ![Head(st).th] = assign(m, @, out)]
<1>1. pc = "unwind" /\ st # <<>> /\ Head(st).k = "upd"
  BY DEF UnwindUpd, Unwinding
<1>2. StoreOK(heap, closed, X) /\ Run(heap, h, env, out, st, of, X)
  BY <1>1, UnwindsIs
<1>3. m.h = h /\ m.env = env
  BY DEF Running
<1>4. heap' = th2 /\ closed' = closed /\ h' = h /\ env' = env /\ out' = out /\ pc' = "unwind" /\ st' = Tail(st)
  BY <1>1 DEF UnwindUpd
<1> HIDE DEF m
<1>5. StoreOK(th2, closed, X) /\ Moves(heap, th2) /\ Run(th2, h, env, out, Tail(st), of, X)
  BY <1>1, <1>2, <1>3, PopUpd
<1> HIDE DEF th2
<1>6. pc' \in {"step", "unwind", "unfold"} /\ pc' \notin {"step", "unfold"}
  BY <1>4
<1>7. h'.k = "lam" => out' = <<>>
  BY <1>1, <1>4 DEF Unwinds
<1> QED BY <1>4, <1>5, <1>6, <1>7 DEF Continues

LEMMA ContUnwinds ==
  ASSUME Hyp, NEW X, Unwinds(X), UnwindCont
  PROVE  Continues(X, of)
<1> USE DEF Hyp
<1> DEFINE f == Head(st)
           e0 == <<>>
<1>1. pc = "unwind" /\ st # <<>> /\ f.k = "cont"
  BY DEF UnwindCont, Unwinding
<1>2. /\ StoreOK(heap, closed, X) /\ Written(heap) /\ Moves(heap, heap) /\ of \in Cl
      /\ StackOK(heap, Tail(st), X) /\ FrameOK(f, Len(heap))
  BY <1>1, UnwindsIs
<1>3. PICK y \in Cl : Link(heap, f, Val(heap, h, env, out), y) /\ Chain(heap, y, Tail(st), of)
  BY <1>1, UnwindsIs
<1>4. h' = f.h /\ env' = f.env /\ out' = e0 /\ pc' = "step" /\ st' = ArgFrames(f.args) \o Tail(st) /\ heap' = heap /\ closed' = closed
  BY DEF UnwindCont, store
<1> DEFINE t == f.h
           e == f.env
           a == f.args
<1> HIDE DEF f
<1>5. normal(y) = normal(Val(heap, t, e, a)) /\ Scoped(t, e, Len(heap)) /\ a \in Seq(0..Len(heap))
  BY <1>1, <1>2, <1>3, FrameKinds DEF Link, FrameOK
<1>6. h' = t /\ env' = e /\ st' = ArgFrames(a) \o Tail(st)
  BY <1>4
<1> HIDE DEF t, e, a, e0
<1>7. Chain(heap, Val(heap, t, e, a), Tail(st), of)
  BY <1>3, <1>5, ChainSame
<1>8. Run(heap, t, e, a, Tail(st), of, X)
  BY <1>2, <1>5, <1>7 DEF Run
<1>9. Run(heap, t, e, e0, ArgFrames(a) \o Tail(st), of, X)
  BY <1>2, <1>8, PushArgs DEF e0
<1>10. Run(heap', h', env', out', st', of, X)
  BY <1>4, <1>6, <1>9
<1>11. StoreOK(heap', closed', X) /\ Moves(heap, heap') /\ pc' \in {"step", "unwind", "unfold"} /\ pc' # "unfold"
  BY <1>2, <1>4
<1> QED BY <1>4, <1>10, <1>11 DEF Continues, e0

\* A field of a constructor is equal to the projection.
LEMMA FieldIs ==
  ASSUME Hyp, NEW th, Written(th), NEW t, NEW e, Scoped(t, e, Len(th)), NEW o \in Seq(0..Len(th)),
         t.k = "const", t.c \in DOMAIN Decls, Decls[t.c].kind = "ctor",
         NEW p, NEW pe, Scoped(p, pe, Len(th)), p.k = "proj",
         normal(Val(th, t, e, o)) = normal(readback_closure(th, p.e, pe)),
         Decls[t.c].nparams + p.i + 1 <= Len(o)
  PROVE  /\ o[Decls[t.c].nparams + p.i + 1] \in 0..Len(th)
         /\ normal(readback(th, o[Decls[t.c].nparams + p.i + 1])) = normal(readback_closure(th, p, pe))
<1> USE DEF Hyp
<1> DEFINE i == p.i
           at == Decls[t.c].nparams + i + 1
           s == Reads(th, pe)
           q == p.e
           r == Reads(th, o)
           x == Inst(q, s)
           v == mk_apps(t, r)
<1>1. t \in Cl /\ t = Const(t.c) /\ Val(th, t, e, o) = v
  BY ConstIs
<1>2. p \in Term /\ q \in Term /\ i \in Nat /\ loose_bvar_range(q) = loose_bvar_range(p)
  BY DEF Scoped, TermHyp, Grammar
<1>3. Scoped(q, pe, Len(th))
  BY <1>2 DEF Scoped
<1>4. s \in Seq(Cl) /\ loose_bvar_range(p) <= Len(s) /\ readback_closure(th, p, pe) = Inst(p, s)
  BY ClosureRead
<1>5. readback_closure(th, q, pe) = x /\ x \in Cl
  BY <1>3, ClosureRead
<1>6. Inst(p, s) = Proj(i, x)
  BY <1>2, <1>4 DEF TermHyp, Substitution
<1>7. r \in Seq(Cl) /\ Len(r) = Len(o) /\ \A j \in 1..Len(o) : r[j] = readback(th, o[j]) /\ o[j] \in 0..Len(th)
  BY ArgsRead
<1>8. v \in Cl /\ normal(v) = normal(x)
  BY <1>1, <1>5, <1>7, AppsClosed
<1>9. normal(Proj(i, v)) = normal(Proj(i, x))
  BY <1>2, <1>5, <1>8 DEF ReductionHyp, Congruence
<1>10. normal(Proj(i, v)) = normal(r[at])
  BY <1>1, <1>2, <1>7 DEF ReductionHyp, FieldLaw
<1>11. at \in 1..Len(o)
  <2>1. Decls[t.c].nparams \in Nat /\ Len(o) \in Nat
    BY DEF ReductionHyp, Environment
  <2> QED BY <1>2, <2>1
<1> HIDE DEF at
<1>12. r[at] = readback(th, o[at]) /\ o[at] \in 0..Len(th)
  BY <1>7, <1>11
<1> QED BY <1>4, <1>6, <1>9, <1>10, <1>12 DEF at

LEMMA ProjUnwinds ==
  ASSUME Hyp, NEW X, Unwinds(X), UnwindProj
  PROVE  Continues(X, of)
<1> USE DEF Hyp
<1> DEFINE f == Head(st)
           e0 == <<>>
           at == Decls[h.c].nparams + f.h.i + 1
           isCtor == KindOf(h) = "ctor" /\ at <= Len(out)
<1>1. pc = "unwind" /\ st # <<>> /\ f.k = "proj"
  BY DEF UnwindProj, Unwinding
<1>2. /\ StoreOK(heap, closed, X) /\ Written(heap) /\ Moves(heap, heap) /\ of \in Cl
      /\ StackOK(heap, Tail(st), X) /\ FrameOK(f, Len(heap)) /\ Len(heap) \in Nat
      /\ Scoped(h, env, Len(heap)) /\ out \in Seq(0..Len(heap))
  BY <1>1, UnwindsIs
<1>3. PICK y \in Cl : Link(heap, f, Val(heap, h, env, out), y) /\ Chain(heap, y, Tail(st), of)
  BY <1>1, UnwindsIs
<1>4. /\ out' = e0
      /\ \/ isCtor /\ enter(out[at], Tail(st), f.delta, Store(heap))
         \/ /\ ~isCtor /\ h' = f.h /\ env' = f.env /\ delta' = f.delta /\ st' = Tail(st)
            /\ UNCHANGED <<pc, store>>
  BY DEF UnwindProj
<1> DEFINE p == f.h
           e == f.env
<1>5. Scoped(p, e, Len(heap)) /\ p.k = "proj"
  <2> HIDE DEF f
  <2> QED BY <1>1, <1>2, FrameKinds DEF FrameOK
<1>6. /\ normal(Val(heap, h, env, out)) = normal(readback_closure(heap, p.e, e))
      /\ normal(y) = normal(readback_closure(heap, p, e))
  <2> HIDE DEF f
  <2> QED BY <1>1, <1>3, FrameKinds DEF Link
<1>7. CASE isCtor /\ enter(out[at], Tail(st), f.delta, Store(heap))
  <2>1. h.k = "const" /\ h.c \in DOMAIN Decls /\ Decls[h.c].kind = "ctor" /\ Decls[h.c].nparams + p.i + 1 <= Len(out)
    BY <1>7 DEF KindOf, IsConst
  <2> DEFINE a == out[Decls[h.c].nparams + p.i + 1]
             dl == f.delta
             S == Store(heap)
             s == Tail(st)
  <2>2. enter(a, s, dl, S) /\ S.th = heap /\ S.cl = closed
    BY <1>7 DEF Store
  <2> HIDE DEF p, e, f
  <2>3. a \in 0..Len(heap) /\ normal(readback(heap, a)) = normal(readback_closure(heap, p, e))
    BY <1>2, <1>5, <1>6, <2>1, FieldIs
  <2> HIDE DEF a, dl, S, s
  <2>4. Chain(heap, readback(heap, a), s, of)
    BY <1>3, <1>6, <2>3, ChainSame DEF s
  <2>5. /\ StoreOK(S.th, S.cl, X) /\ Moves(heap, S.th) /\ StackOK(S.th, s, X) /\ a \in 0..Len(S.th)
        /\ Chain(S.th, readback(S.th, a), s, of)
    BY <1>2, <2>2, <2>3, <2>4 DEF s
  <2>6. Proceeds(X, of)
    BY <1>2, <2>2, <2>5, EntersFrom
  <2> QED BY <1>4, <2>6, ProceedsContinues
<1>8. CASE h' = f.h /\ env' = f.env /\ st' = Tail(st) /\ UNCHANGED <<pc, store>>
  <2>1. h' = p /\ env' = e /\ st' = Tail(st) /\ out' = e0 /\ pc' = "unwind" /\ heap' = heap /\ closed' = closed
    BY <1>1, <1>4, <1>8 DEF store
  <2> HIDE DEF p, e, f, e0
  <2>2. Chain(heap, readback_closure(heap, p, e), Tail(st), of)
    BY <1>3, <1>6, ChainSame
  <2>3. Run(heap, p, e, e0, Tail(st), of, X)
    BY <1>2, <1>5, <2>2, ReadHead DEF e0
  <2>4. Run(heap', h', env', out', st', of, X)
    BY <2>1, <2>3
  <2>5. StoreOK(heap', closed', X) /\ Moves(heap, heap') /\ pc' \in {"step", "unwind", "unfold"} /\ pc' # "unfold"
    BY <1>2, <2>1
  <2> QED BY <2>1, <2>4, <2>5 DEF Continues, e0
<1> QED BY <1>4, <1>7, <1>8
-------------------------------------------------------------------------------
(***************************************************************************)
(* Runs that wait.                                                         *)
(***************************************************************************)

\* The marks of the runs that wait longer than the first n of ss.
Later(ss, n) == UNION {Marks(ss[j].st) : j \in {i \in 1..Len(ss) : i > n}}
Others == Later(susp, 0)

\* A run that waits for a rule, and what its derivation has got so far.
Waiting(s) ==
  s = [h |-> s.h, env |-> s.env, st |-> s.st, of |-> s.of, todo |-> s.todo,
       shape |-> s.shape, ctors |-> s.ctors, cache |-> s.cache, arms |-> s.arms]
SuspOK(th, s, X) ==
  s.h.k = "const" /\ s.h.c \in Defs /\ Run(th, s.h, s.env, <<>>, s.st, s.of, X)
DerivOK(s, L) ==
  /\ Waiting(s) /\ s.todo \in Seq(Cl) /\ CacheOK(Term, Seq(Cl), s.cache)
  /\ is_rec_body(Candidate(s.h.c, L).B) /\ s.shape = shape_of(Candidate(s.h.c, L)) /\ shape_ok(s.shape)
  /\ Listed(s.ctors) /\ \A i \in 1..Len(s.ctors) : s.ctors[i] \in DOMAIN s.shape.d.rules
  /\ \A ctor \in DOMAIN s.arms : ArmFor(Term, Seq(Cl), s.h.c, s.shape.k - 1, ctor, s.arms[ctor])
SuspsOK(th, ss) == Listed(ss) /\ \A i \in 1..Len(ss) : SuspOK(th, ss[i], Later(ss, i))
DerivsOK(ss, L) == \A i \in 1..Len(ss) : DerivOK(ss[i], L)

LEMMA InLater ==
  ASSUME NEW ss, NEW n, NEW x
  PROVE  x \in Later(ss, n) <=> \E j \in 1..Len(ss) : j > n /\ x \in Marks(ss[j].st)
<1> DEFINE A == {i \in 1..Len(ss) : i > n}
           B == {Marks(ss[j].st) : j \in A}
<1>1. x \in Later(ss, n) <=> \E m \in B : x \in m
  BY DEF Later
<1>2. (\E m \in B : x \in m) <=> \E j \in A : x \in Marks(ss[j].st)
  BY Zenon
<1>3. (\E j \in A : x \in Marks(ss[j].st)) <=> \E j \in 1..Len(ss) : j > n /\ x \in Marks(ss[j].st)
  BY Zenon
<1> QED BY <1>1, <1>2, <1>3

\* The marks of runs whose stacks are the same.
LEMMA LaterSame ==
  ASSUME NEW ss, NEW tt, NEW n \in Nat, NEW m \in Nat, Listed(ss), Listed(tt), Len(ss) - n = Len(tt) - m,
         \A i \in 1..Len(ss) : i > n => ss[i].st = tt[(i - n) + m].st
  PROVE  Later(ss, n) = Later(tt, m)
<1>1. Len(ss) \in Nat /\ Len(tt) \in Nat
  BY ListedIs
<1>2. ASSUME NEW x \in Later(ss, n) PROVE x \in Later(tt, m)
  <2>1. PICK j \in 1..Len(ss) : j > n /\ x \in Marks(ss[j].st)
    BY InLater
  <2> DEFINE k == (j - n) + m
  <2>2. k \in 1..Len(tt) /\ k > m
    BY <1>1, <2>1
  <2>3. x \in Marks(tt[k].st)
    BY <2>1
  <2> HIDE DEF k
  <2> QED BY <2>2, <2>3, InLater
<1>3. ASSUME NEW x \in Later(tt, m) PROVE x \in Later(ss, n)
  <2>1. PICK j \in 1..Len(tt) : j > m /\ x \in Marks(tt[j].st)
    BY InLater
  <2> DEFINE k == (j - m) + n
  <2>2. k \in 1..Len(ss) /\ k > n /\ (k - n) + m = j
    BY <1>1, <2>1
  <2>3. ss[k].st = tt[j].st
    BY <2>2
  <2> HIDE DEF k
  <2> QED BY <2>1, <2>2, <2>3, InLater
<1> QED BY <1>2, <1>3

LEMMA LaterTail ==
  ASSUME NEW ss, Listed(ss), ss # <<>>
  PROVE  /\ \A n \in Nat : Later(Tail(ss), n) = Later(ss, n + 1)
         /\ \A x : x \in Later(ss, 0) <=> x \in Marks(ss[1].st) \/ x \in Later(ss, 1)
<1>1. /\ Listed(Tail(ss)) /\ Len(Tail(ss)) = Len(ss) - 1 /\ Len(ss) >= 1 /\ Len(ss) \in Nat
      /\ \A i \in 1..(Len(ss) - 1) : Tail(ss)[i] = ss[i + 1]
  BY Popped, ListedIs
<1>2. ASSUME NEW n \in Nat PROVE Later(Tail(ss), n) = Later(ss, n + 1)
  <2> DEFINE tt == Tail(ss)
             m == n + 1
  <2>1. m \in Nat /\ Len(tt) - n = Len(ss) - m
    BY <1>1
  <2>2. ASSUME NEW i \in 1..Len(tt), i > n PROVE tt[i].st = ss[(i - n) + m].st
    <3>1. i \in 1..(Len(ss) - 1) /\ (i - n) + m = i + 1
      BY <1>1
    <3> QED BY <1>1, <3>1
  <2>3. Listed(tt)
    BY <1>1
  <2> HIDE DEF tt, m
  <2>4. Later(tt, n) = Later(ss, m)
    BY <2>1, <2>2, <2>3, LaterSame
  <2> QED BY <2>4 DEF tt, m
<1>3. ASSUME NEW x PROVE x \in Later(ss, 0) <=> x \in Marks(ss[1].st) \/ x \in Later(ss, 1)
  <2>1. x \in Later(ss, 0) <=> \E j \in 1..Len(ss) : j > 0 /\ x \in Marks(ss[j].st)
    BY InLater
  <2>2. x \in Later(ss, 1) <=> \E j \in 1..Len(ss) : j > 1 /\ x \in Marks(ss[j].st)
    BY InLater
  <2>3. 1 \in 1..Len(ss) /\ \A j \in 1..Len(ss) : j > 0 /\ (j = 1 \/ j > 1)
    BY <1>1
  <2> QED BY <2>1, <2>2, <2>3
<1> QED BY <1>2, <1>3

\* A run that waits is not concerned by what happens to thunks it has not marked.
LEMMA RunMoves ==
  ASSUME Hyp, NEW th, NEW th2, Extends(th, th2), NEW t, NEW e, NEW o, NEW s, NEW g, NEW X,
         Run(th, t, e, o, s, g, X), \A k \in Marks(s) : th2[k].state = 1
  PROVE  Run(th2, t, e, o, s, g, X)
<1> USE DEF Hyp
<1>1. /\ Scoped(t, e, Len(th)) /\ o \in Seq(0..Len(th)) /\ g \in Cl
      /\ StackOK(th, s, X) /\ Chain(th, Val(th, t, e, o), s, g)
  BY DEF Run
<1>2. Scoped(t, e, Len(th2)) /\ Val(th2, t, e, o) = Val(th, t, e, o)
  BY <1>1, ClosureExtends, ValExtends
<1>3. o \in Seq(0..Len(th2))
  BY <1>1, ReadsExtends
<1>4. StackOK(th2, s, X)
  BY <1>1, StackExtends
<1>5. Chain(th2, Val(th, t, e, o), s, g)
  BY <1>1, ChainExtends DEF StackOK
<1> QED BY <1>1, <1>2, <1>3, <1>4, <1>5 DEF Run

LEMMA SuspsMove ==
  ASSUME Hyp, NEW th, NEW th2, Extends(th, th2), NEW ss, SuspsOK(th, ss), Marked(th2, Later(ss, 0))
  PROVE  SuspsOK(th2, ss)
<1>1. ASSUME NEW i \in 1..Len(ss) PROVE SuspOK(th2, ss[i], Later(ss, i))
  <2> DEFINE s == ss[i]
             X == Later(ss, i)
             t == s.h
             e == s.env
             e0 == <<>>
             z == s.st
             g == s.of
  <2>1. SuspOK(th, s, X)
    BY DEF SuspsOK
  <2>2. \A k \in Marks(z) : th2[k].state = 1
    <3> TAKE k \in Marks(z)
    <3>1. i > 0
      OBVIOUS
    <3>2. k \in Later(ss, 0)
      BY <3>1, InLater
    <3> QED BY <3>2 DEF Marked
  <2> HIDE DEF s, X
  <2>3. Run(th, t, e, e0, z, g, X)
    BY <2>1 DEF SuspOK
  <2> HIDE DEF t, e, e0, z, g
  <2>4. Run(th2, t, e, e0, z, g, X)
    BY <2>2, <2>3, RunMoves
  <2>5. SuspOK(th2, s, X)
    BY <2>1, <2>4 DEF SuspOK, t, e, e0, z, g
  <2> QED BY <2>5 DEF s, X
<1> QED BY <1>1 DEF SuspsOK

\* The first run that waits.
LEMMA FirstWaits ==
  ASSUME NEW th, NEW ss, SuspsOK(th, ss), ss # <<>>, NEW L, DerivsOK(ss, L)
  PROVE  /\ SuspsOK(th, Tail(ss)) /\ DerivsOK(Tail(ss), L)
         /\ SuspOK(th, Head(ss), Later(Tail(ss), 0)) /\ DerivOK(Head(ss), L)
         /\ Later(Tail(ss), 0) \subseteq Later(ss, 0)
<1>1. /\ Listed(ss) /\ Listed(Tail(ss)) /\ Len(Tail(ss)) = Len(ss) - 1 /\ Len(ss) >= 1 /\ Len(ss) \in Nat
      /\ Head(ss) = ss[1] /\ \A i \in 1..(Len(ss) - 1) : Tail(ss)[i] = ss[i + 1]
  BY Popped, ListedIs DEF SuspsOK
<1>2. ASSUME NEW i \in 1..Len(Tail(ss)) PROVE SuspOK(th, Tail(ss)[i], Later(Tail(ss), i)) /\ DerivOK(Tail(ss)[i], L)
  <2>1. i \in 1..(Len(ss) - 1) /\ i + 1 \in 1..Len(ss) /\ i \in Nat
    BY <1>1
  <2>2. Later(Tail(ss), i) = Later(ss, i + 1)
    BY <1>1, <2>1, LaterTail
  <2>3. SuspOK(th, ss[i + 1], Later(ss, i + 1)) /\ DerivOK(ss[i + 1], L)
    BY <2>1 DEF SuspsOK, DerivsOK
  <2> QED BY <1>1, <2>1, <2>2, <2>3
<1>3. SuspsOK(th, Tail(ss)) /\ DerivsOK(Tail(ss), L)
  BY <1>1, <1>2 DEF SuspsOK, DerivsOK
<1>4. Later(Tail(ss), 0) = Later(ss, 1)
  <2>1. 0 \in Nat /\ 0 + 1 = 1
    OBVIOUS
  <2>2. Later(Tail(ss), 0) = Later(ss, 0 + 1)
    BY <1>1, LaterTail
  <2> QED BY <2>1, <2>2
<1>5. 1 \in 1..Len(ss)
  BY <1>1
<1>6. SuspOK(th, ss[1], Later(ss, 1)) /\ DerivOK(ss[1], L)
  BY <1>5 DEF SuspsOK, DerivsOK
<1>7. Later(ss, 1) \subseteq Later(ss, 0)
  BY <1>1, LaterTail
<1> QED BY <1>1, <1>3, <1>4, <1>6, <1>7

\* One more run waits.
LEMMA OneMoreWaits ==
  ASSUME NEW th, NEW ss, SuspsOK(th, ss), NEW L, DerivsOK(ss, L),
         NEW s, SuspOK(th, s, Later(ss, 0)), DerivOK(s, L)
  PROVE  LET tt == <<s>> \o ss
         IN /\ SuspsOK(th, tt) /\ DerivsOK(tt, L)
            /\ \A x : x \in Later(tt, 0) <=> x \in Marks(s.st) \/ x \in Later(ss, 0)
<1> DEFINE tt == <<s>> \o ss
<1>1. /\ Listed(ss) /\ Listed(tt) /\ tt # <<>> /\ Len(tt) = Len(ss) + 1 /\ Len(ss) \in Nat /\ Tail(tt) = ss
      /\ tt[1] = s /\ \A i \in 1..Len(ss) : tt[i + 1] = ss[i]
  BY Pushed, ListedIs DEF SuspsOK
<1> HIDE DEF tt
<1>2. \A n \in Nat : Later(ss, n) = Later(tt, n + 1)
  BY <1>1, LaterTail
<1>3. Later(ss, 0) = Later(tt, 1)
  <2>1. 0 \in Nat /\ 0 + 1 = 1
    OBVIOUS
  <2>2. Later(ss, 0) = Later(tt, 0 + 1)
    BY <1>2
  <2> QED BY <2>1, <2>2
<1>4. ASSUME NEW i \in 1..Len(tt) PROVE SuspOK(th, tt[i], Later(tt, i)) /\ DerivOK(tt[i], L)
  <2>1. CASE i = 1
    BY <1>1, <1>3, <2>1
  <2>2. CASE i # 1
    <3> DEFINE j == i - 1
    <3>1. j \in 1..Len(ss) /\ j + 1 = i /\ j \in Nat
      BY <1>1, <2>2
    <3> HIDE DEF j
    <3>2. SuspOK(th, ss[j], Later(ss, j)) /\ DerivOK(ss[j], L)
      BY <3>1 DEF SuspsOK, DerivsOK
    <3>3. tt[j + 1] = ss[j] /\ Later(ss, j) = Later(tt, j + 1)
      BY <1>1, <1>2, <3>1
    <3> QED BY <3>1, <3>2, <3>3
  <2> QED BY <2>1, <2>2
<1>5. \A x : x \in Later(tt, 0) <=> x \in Marks(tt[1].st) \/ x \in Later(tt, 1)
  BY <1>1, LaterTail
<1>6. SuspsOK(th, tt) /\ DerivsOK(tt, L)
  BY <1>1, <1>4 DEF SuspsOK, DerivsOK
<1>7. \A x : x \in Later(tt, 0) <=> x \in Marks(s.st) \/ x \in Later(ss, 0)
  BY <1>1, <1>3, <1>5
<1> QED BY <1>6, <1>7 DEF tt

-------------------------------------------------------------------------------
(***************************************************************************)
(* The invariant.                                                          *)
(***************************************************************************)

\* What is kept of fusion, and of rules.
FusionOK == limit \in Limits /\ CacheOK(Term, Seq(Cl), fuse_cache) /\ UnfoldsOK
KnownOK ==
  /\ DOMAIN rule = Defs
  /\ \A c \in Defs : c \in DOMAIN rules => ArmsOK(c, rules[c])
  /\ \A c \in Defs : rule[c] = "some" => c \in DOMAIN rules
\* The run.
HeadOK ==
  /\ pc \in {"fuse", "step", "unfold", "unwind", "done"} => Run(heap, h, env, out, st, of, Others)
  /\ pc \in {"idle", "fuse", "step", "unfold"} => out = <<>>
  /\ pc = "unwind" /\ h.k = "lam" => out = <<>>
  /\ pc = "fuse" => h \in Cl /\ env = <<>>
  /\ pc = "unfold" => IsConst(h) /\ h.c \in Defs
  /\ pc = "done" => st = <<>>
ThunksOK == StoreOK(heap, closed, Others) /\ SuspsOK(heap, susp)
SessionOK == DerivsOK(susp, limit) /\ todo \in Seq(Cl) /\ KnownOK
Inv == ThunksOK /\ HeadOK /\ SessionOK /\ FusionOK

LEMMA KnownRules ==
  ASSUME KnownOK
  PROVE  RulesOK
BY DEF KnownOK, RulesOK

\* A step of the machine concerns neither the runs that wait nor what is known.
LEMMA MachineKeeps ==
  ASSUME Hyp, Inv, Continues(Others, of), UNCHANGED <<mctx, session>>
  PROVE  Inv' /\ Moves(heap, heap')
<1> DEFINE X == Others
<1>1. susp' = susp /\ todo' = todo /\ rule' = rule /\ rules' = rules /\ limit' = limit /\ of' = of
      /\ fuse_cache' = fuse_cache /\ unfold_cache' = unfold_cache
  BY DEF mctx, session
<1>2. Others' = X
  BY <1>1 DEF Others
<1>3. SessionOK' /\ FusionOK'
  BY <1>1 DEF Inv, SessionOK, FusionOK, KnownOK, UnfoldsOK
<1>4. StoreOK(heap', closed', X) /\ Moves(heap, heap')
  BY DEF Continues
<1>5. SuspsOK(heap', susp)
  <2>1. Extends(heap, heap') /\ Marked(heap', Later(susp, 0)) /\ SuspsOK(heap, susp)
    BY <1>4, StoreIs DEF Moves, Inv, ThunksOK, Others
  <2> QED BY <2>1, SuspsMove
<1>6. ThunksOK'
  BY <1>1, <1>2, <1>4, <1>5 DEF ThunksOK
<1>7. HeadOK'
  <2> HIDE DEF X
  <2>1. CASE pc' = "error"
    BY <2>1 DEF HeadOK
  <2>2. CASE pc' # "error"
    <3>1. /\ pc' \in {"step", "unwind", "unfold"} /\ Run(heap', h', env', out', st', of, X)
          /\ pc' \in {"step", "unfold"} \/ h'.k = "lam" => out' = <<>>
          /\ pc' = "unfold" => IsConst(h') /\ h'.c \in Defs
      BY <2>2 DEF Continues, X
    <3>2. Run(heap', h', env', out', st', of', Others')
      BY <1>1, <1>2, <3>1
    <3> QED BY <3>1, <3>2 DEF HeadOK
  <2> QED BY <2>1, <2>2
<1> QED BY <1>3, <1>4, <1>6, <1>7 DEF Inv

\* The steps on terms.
TermStep ==
  \/ BVarStep \/ AppStep \/ LamStep \/ LetStep \/ LitStep \/ FVarStep \/ ProjStep
  \/ RecStep \/ QuotStep \/ NatStep \/ FixStep \/ DefStep \/ ConstStep
LEMMA TermStepIs ==
  ASSUME TermStep
  PROVE  pc = "step" /\ Machine
BY DEF TermStep, At, IsDef, MayHaveRule, Rule,
       BVarStep, AppStep, LamStep, LetStep, LitStep, FVarStep, ProjStep, RecStep, QuotStep, NatStep, FixStep, DefStep, ConstStep

LEMMA TermStepOK ==
  ASSUME Hyp, Inv, TermStep
  PROVE  Inv' /\ Moves(heap, heap')
<1>1. pc = "step" /\ Machine
  BY TermStepIs
<1>2. UNCHANGED <<mctx, session>> /\ out' = out
  BY <1>1 DEF Machine
<1>3. out = <<>> /\ Run(heap, h, env, out, st, of, Others) /\ StoreOK(heap, closed, Others)
  BY <1>1 DEF Inv, HeadOK, ThunksOK
<1>4. Stands(Others)
  BY <1>3 DEF Stands
<1>5. UnfoldsOK /\ RulesOK
  BY KnownRules DEF Inv, FusionOK, SessionOK
<1>6. Proceeds(Others, of)
  BY <1>4, <1>5, BVarOK, AppOK, LamOK, LetOK, LitOK, FVarOK, ProjOK, RecOK, QuotOK, NatOK, FixOK, DefOK, ConstOK DEF TermStep
<1>7. out' = <<>>
  BY <1>2, <1>3
<1>8. Continues(Others, of)
  BY <1>6, <1>7, ProceedsContinues
<1> QED BY <1>2, <1>8, MachineKeeps

UnwindStep == UnwindArg \/ UnwindUpd \/ UnwindCont \/ UnwindProj
LEMMA UnwindStepOK ==
  ASSUME Hyp, Inv, UnwindStep
  PROVE  Inv' /\ Moves(heap, heap')
<1>1. pc = "unwind" /\ UNCHANGED <<mctx, session>>
  BY DEF UnwindStep, UnwindArg, UnwindUpd, UnwindCont, UnwindProj, Unwinding
<1>2. Unwinds(Others)
  BY <1>1 DEF Inv, HeadOK, ThunksOK, Unwinds
<1>3. Continues(Others, of)
  BY <1>2, ArgUnwinds, UpdUnwinds, ContUnwinds, ProjUnwinds DEF UnwindStep
<1> QED BY <1>1, <1>3, MachineKeeps

LEMMA StoreStays ==
  ASSUME Inv, UNCHANGED store
  PROVE  Moves(heap, heap') /\ (susp' = susp => ThunksOK')
<1>1. Moves(heap, heap)
  BY StoreIs, ExtendsTrans DEF Inv, ThunksOK
<1> QED BY <1>1 DEF store, Inv, ThunksOK, Others

\* The next term, before it is fused or as it is.
LEMMA StartOK ==
  ASSUME Hyp, Inv, Start
  PROVE  Inv' /\ Moves(heap, heap')
<1> USE DEF Hyp
<1> DEFINE g == Head(todo)
           e0 == <<>>
<1>1. /\ pc = "idle" /\ todo # <<>> /\ of' = g /\ todo' = Tail(todo) /\ h' = g /\ env' = e0 /\ st' = e0 /\ out' = out
      /\ pc' \in {"fuse", "step"} /\ UNCHANGED <<store, susp, rule, rules, mctx>>
  BY DEF Start
<1>2. /\ todo \in Seq(Cl) /\ out = e0 /\ StoreOK(heap, closed, Others)
  BY <1>1 DEF Inv, SessionOK, HeadOK, ThunksOK
<1>3. g \in Cl /\ Tail(todo) \in Seq(Cl)
  BY <1>1, <1>2
<1> HIDE DEF g
<1>4. Written(heap) /\ Len(heap) \in Nat
  BY <1>2, StoreIs
<1>5. Scoped(g, e0, Len(heap)) /\ readback_closure(heap, g, e0) = g
  BY <1>3, <1>4, ReadClosedTerm
<1>6. e0 \in Seq(0..Len(heap))
  OBVIOUS
<1>7. Val(heap, g, e0, e0) = g
  BY <1>4, <1>5, <1>6, ValNil
<1>8. Chain(heap, g, e0, g)
  BY <1>3, ChainNil
<1>9. StackOK(heap, e0, Others)
  <2>1. Listed(e0) /\ Len(e0) = 0
    BY DEF Listed
  <2>2. \A x : x \notin Marks(e0)
    BY <2>1, InMarks
  <2> QED BY <2>1, <2>2 DEF StackOK, Stack, Distinct, Marked
<1>10. Run(heap, g, e0, e0, e0, g, Others)
  <2> HIDE DEF e0
  <2> QED BY <1>3, <1>5, <1>6, <1>7, <1>8, <1>9 DEF Run
<1>11. heap' = heap /\ susp' = susp /\ Others' = Others
  BY <1>1 DEF store, Others
<1>12. out' = e0
  BY <1>1, <1>2
<1> HIDE DEF e0
<1>13. HeadOK'
  <2>1. Run(heap', h', env', out', st', of', Others')
    BY <1>1, <1>10, <1>11, <1>12
  <2> QED BY <1>1, <1>3, <1>12, <2>1 DEF HeadOK, e0
<1>14. SessionOK' /\ FusionOK'
  BY <1>1, <1>3 DEF Inv, SessionOK, FusionOK, KnownOK, UnfoldsOK, mctx
<1> QED BY <1>1, <1>13, <1>14, StoreStays DEF Inv

\* A term is fused, or the value of a definition.
LEMMA FuseOK ==
  ASSUME Hyp, Inv, Fuse
  PROVE  Inv' /\ Moves(heap, heap')
<1> USE DEF Hyp
<1> DEFINE e0 == <<>>
           b == IF pc = "unfold" THEN Decls[h.c].value ELSE h
           v == fuse_term(limit, fuse_cache, b)
<1>1. /\ pc \in {"fuse", "unfold"} /\ h' = v.e /\ fuse_cache' = v.cache /\ env' = e0 /\ pc' = "step"
      /\ unfold_cache' = IF pc = "unfold" THEN emplace(unfold_cache, h.c, v.e) ELSE unfold_cache
      /\ UNCHANGED <<delta, st, out, limit, store, session>>
  BY DEF Fuse
<1>2. /\ out = e0 /\ Run(heap, h, env, out, st, of, Others) /\ StoreOK(heap, closed, Others)
      /\ limit \in Limits /\ CacheOK(Term, Seq(Cl), fuse_cache) /\ UnfoldsOK
      /\ pc = "fuse" => h \in Cl /\ env = e0
      /\ pc = "unfold" => IsConst(h) /\ h.c \in Defs
  BY <1>1 DEF Inv, HeadOK, ThunksOK, FusionOK
<1>3. Written(heap) /\ Run(heap, h, env, e0, st, of, Others) /\ Scoped(h, env, Len(heap))
  BY <1>2, StoreIs DEF Run
<1>4. b \in Cl /\ normal(b) = normal(readback_closure(heap, h, env))
  <2>1. CASE pc = "fuse"
    <3>1. readback_closure(heap, h, e0) = h
      BY <1>2, <1>3, <2>1, ReadClosedTerm
    <3>2. pc # "unfold" /\ env = e0
      BY <1>2, <2>1
    <3> QED BY <1>2, <2>1, <3>1, <3>2
  <2>2. CASE pc = "unfold"
    <3>1. h.k = "const" /\ h.c \in Defs
      BY <1>2, <2>2 DEF IsConst
    <3>2. readback_closure(heap, h, env) = h /\ h = Const(h.c)
      BY <1>3, <3>1, ConstIs
    <3>3. h.c \in DOMAIN Decls /\ Decls[h.c].kind = "def"
      BY <3>1 DEF Defs
    <3>4. Decls[h.c].value \in Cl
      BY <3>3 DEF ReductionHyp, Environment
    <3>5. normal(Const(h.c)) = normal(Decls[h.c].value)
      BY <3>1 DEF ReductionHyp, DeltaLaw
    <3> QED BY <2>2, <3>2, <3>4, <3>5
  <2> QED BY <1>1, <2>1, <2>2
<1>5. pc = "unfold" => h = Const(h.c) /\ readback_closure(heap, h, env) = h
  BY <1>2, <1>3, ConstIs DEF IsConst
<1> HIDE DEF b
<1>6. v.e \in Cl /\ normal(v.e) = normal(b) /\ CacheOK(Term, Seq(Cl), v.cache)
  <2>1. Fuses(Term, Seq(Cl), limit, fuse_cache, b)
    BY <1>2 DEF FusionHyp
  <2> QED BY <1>2, <1>4, <2>1 DEF Fuses, Cl
<1> HIDE DEF v
<1>7. Scoped(v.e, e0, Len(heap)) /\ readback_closure(heap, v.e, e0) = v.e
  BY <1>3, <1>6, ReadClosedTerm
<1>8. Run(heap, v.e, e0, e0, st, of, Others)
  <2>1. normal(readback_closure(heap, v.e, e0)) = normal(readback_closure(heap, h, env))
    BY <1>4, <1>6, <1>7
  <2> QED BY <1>3, <1>7, <2>1, NewTerm
<1>9. heap' = heap /\ susp' = susp /\ Others' = Others /\ st' = st /\ of' = of /\ out' = e0
  BY <1>1, <1>2 DEF store, session, Others
<1>10. HeadOK'
  <2> HIDE DEF e0
  <2>1. Run(heap', h', env', out', st', of', Others')
    BY <1>1, <1>8, <1>9
  <2> QED BY <1>1, <1>9, <2>1 DEF HeadOK, e0
<1>11. SessionOK'
  BY <1>1 DEF Inv, SessionOK, KnownOK, session
<1>12. FusionOK'
  <2>1. UnfoldsOK'
    <3>1. CASE pc = "unfold"
      <4>1. normal(v.e) = normal(Const(h.c))
        BY <1>4, <1>5, <1>6, <3>1
      <4>2. unfold_cache' = emplace(unfold_cache, h.c, v.e)
        BY <1>1, <3>1
      <4> QED BY <1>2, <1>6, <4>1, <4>2 DEF UnfoldsOK, emplace
    <3>2. CASE pc # "unfold"
      BY <1>1, <1>2, <3>2 DEF UnfoldsOK
    <3> QED BY <3>1, <3>2
  <2> QED BY <1>1, <1>2, <1>6, <2>1 DEF FusionOK
<1> QED BY <1>1, <1>9, <1>10, <1>11, <1>12, StoreStays DEF Inv

\* A value that has been unwound is handed back, or forgotten; a run fails, or nothing is left to do.
LEMMA EndsOK ==
  ASSUME Hyp, Inv, Returns \/ Finish \/ Limit \/ Over \/ Done
  PROVE  Inv' /\ Moves(heap, heap')
<1>1. UNCHANGED <<store, susp, todo, rule, rules, limit, fuse_cache, unfold_cache>>
  BY DEF Returns, Finish, Limit, Over, Done, vars, mctx, session, store
<1>2. SessionOK' /\ FusionOK'
  BY <1>1 DEF Inv, SessionOK, FusionOK, KnownOK, UnfoldsOK
<1>3. heap' = heap /\ Others' = Others
  BY <1>1 DEF store, Others
<1>4. HeadOK'
  <2>1. CASE Returns
    <3>1. pc = "unwind" /\ st = <<>> /\ pc' = "done" /\ UNCHANGED <<h, env, st, out, of>>
      BY <2>1 DEF Returns, session
    <3>2. Run(heap, h, env, out, st, of, Others)
      BY <3>1 DEF Inv, HeadOK
    <3>3. Run(heap', h', env', out', st', of', Others')
      BY <1>3, <3>1, <3>2
    <3> QED BY <3>1, <3>3 DEF HeadOK
  <2>2. CASE Finish
    BY <2>2 DEF Finish, HeadOK
  <2>3. CASE Limit \/ Over
    BY <2>3 DEF Limit, Over, HeadOK
  <2>4. CASE Done
    BY <2>4 DEF Done, Inv, HeadOK, vars, machine
  <2> QED BY <2>1, <2>2, <2>3, <2>4
<1> QED BY <1>1, <1>2, <1>4, StoreStays DEF Inv

\* The run that waited last goes on.
LEMMA GoesOK ==
  ASSUME Hyp, Inv, susp # <<>>, Goes
  PROVE  /\ ThunksOK' /\ HeadOK' /\ FusionOK' /\ Moves(heap, heap')
         /\ DerivsOK(susp', limit') /\ todo' \in Seq(Cl)
         /\ Asked \in Defs /\ DerivOK(Head(susp), limit)
<1> DEFINE s == Head(susp)
           X == Later(Tail(susp), 0)
           e0 == <<>>
<1>1. /\ h' = s.h /\ env' = s.env /\ st' = s.st /\ out' = e0 /\ pc' = "step"
      /\ of' = s.of /\ todo' = s.todo /\ susp' = Tail(susp) /\ UNCHANGED <<mctx, store>>
  BY DEF Goes
<1>2. SuspsOK(heap, susp) /\ DerivsOK(susp, limit) /\ StoreOK(heap, closed, Others)
  BY DEF Inv, ThunksOK, SessionOK
<1>3. /\ SuspsOK(heap, Tail(susp)) /\ DerivsOK(Tail(susp), limit)
      /\ SuspOK(heap, s, X) /\ DerivOK(s, limit) /\ X \subseteq Others
  BY <1>2, FirstWaits DEF Others
<1>4. Others' = X /\ heap' = heap /\ closed' = closed /\ limit' = limit
  BY <1>1 DEF Others, store, mctx
<1> HIDE DEF X
<1>5. StoreOK(heap, closed, X)
  BY <1>2, <1>3 DEF StoreOK, Marked
<1>6. ThunksOK'
  BY <1>1, <1>3, <1>4, <1>5 DEF ThunksOK
<1>7. s.h.k = "const" /\ s.h.c \in Defs /\ Run(heap, s.h, s.env, e0, s.st, s.of, X)
  BY <1>3 DEF SuspOK
<1>8. s.todo \in Seq(Cl)
  BY <1>3 DEF DerivOK
<1>9. HeadOK'
  <2> HIDE DEF s, e0
  <2>1. Run(heap', h', env', out', st', of', Others')
    BY <1>1, <1>4, <1>7
  <2> QED BY <1>1, <2>1 DEF HeadOK, e0
<1>10. FusionOK'
  BY <1>1 DEF Inv, FusionOK, UnfoldsOK, mctx
<1> QED BY <1>1, <1>3, <1>4, <1>6, <1>7, <1>8, <1>9, <1>10, StoreStays DEF Asked

LEMMA NoneOK ==
  ASSUME KnownOK, HasNone
  PROVE  KnownOK'
BY DEF KnownOK, HasNone

LEMMA CaughtOK ==
  ASSUME Hyp, Inv, Caught
  PROVE  Inv' /\ Moves(heap, heap')
<1>1. susp # <<>> /\ Goes /\ HasNone
  BY DEF Caught
<1> QED BY <1>1, GoesOK, NoneOK DEF Inv, SessionOK

LEMMA DerivedOK ==
  ASSUME Hyp, Inv, Derived
  PROVE  Inv' /\ Moves(heap, heap')
<1> DEFINE s == Head(susp)
           c == Asked
           r == [major |-> s.shape.k - 1, arms |-> s.arms]
<1>1. susp # <<>> /\ Goes /\ rule' = [rule EXCEPT ![c] = "some"] /\ rules' = emplace(rules, c, r)
  BY DEF Derived, Deriving
<1>2. KnownOK /\ c \in Defs /\ DerivOK(s, limit) /\ limit \in Limits
  BY <1>1, GoesOK DEF Inv, SessionOK, FusionOK
<1>3. ArmsOK(c, r)
  <2>1. /\ is_rec_body(Candidate(c, limit).B) /\ s.shape = shape_of(Candidate(c, limit)) /\ shape_ok(s.shape)
        /\ \A ctor \in DOMAIN s.arms : ArmFor(Term, Seq(Cl), c, s.shape.k - 1, ctor, s.arms[ctor])
    BY <1>2 DEF DerivOK, Asked
  <2>2. Arms(Term, Seq(Cl), c, limit, <<>>)
    BY <1>2 DEF Hyp, FusionHyp
  <2>3. s.shape.k \in Nat \ {0}
    BY <2>1, <2>2 DEF Arms
  <2>4. r.major = s.shape.k - 1 /\ r.arms = s.arms /\ r.major \in Nat
    BY <2>3
  <2> QED BY <2>1, <2>4 DEF ArmsOK
<1> HIDE DEF r, c
<1>4. KnownOK'
  BY <1>1, <1>2, <1>3 DEF KnownOK, emplace
<1> QED BY <1>1, <1>4, GoesOK DEF Inv, SessionOK

\* The elements of a finite set, in some order.
LEMMA SetToSeqIs ==
  ASSUME NEW S, IsFiniteSet(S)
  PROVE  Listed(SetToSeq(S)) /\ \A i \in 1..Len(SetToSeq(S)) : SetToSeq(S)[i] \in S
<1> DEFINE n == Cardinality(S)
<1>1. n \in Nat /\ ExistsBijection(1..n, S)
  BY FS_CardinalityType
<1> HIDE DEF n
<1>2. \E f \in [1..n -> S] : IsInjective(f)
  BY <1>1 DEF ExistsBijection, Bijection, Injection
<1>3. SetToSeq(S) \in [1..n -> S]
  BY <1>2 DEF SetToSeq, n
<1> HIDE DEF SetToSeq
<1>4. SetToSeq(S) = [i \in 1..n |-> SetToSeq(S)[i]] /\ \A i \in 1..n : SetToSeq(S)[i] \in S
  BY <1>3
<1>5. Listed(SetToSeq(S)) /\ Len(SetToSeq(S)) = n
  BY <1>1, <1>4, ListedFun
<1> QED BY <1>4, <1>5

\* The run waits for the rule of the definition it stands at.
LEMMA SuspendsOK ==
  ASSUME Hyp, Inv, Derivable, UNCHANGED <<limits, rules, delta, out, mctx, store>>,
         is_rec_body(Candidate(h.c, limit).B), shape_ok(shape_of(Candidate(h.c, limit))),
         Suspends(shape_of(Candidate(h.c, limit)))
  PROVE  Inv' /\ Moves(heap, heap')
<1> DEFINE c == h.c
           shape == shape_of(Candidate(c, limit))
           cs == SetToSeq(DOMAIN shape.d.rules)
           e0 == <<>>
           s == [h |-> h, env |-> env, st |-> st, of |-> of, todo |-> todo,
                 shape |-> shape, ctors |-> cs, cache |-> e0, arms |-> e0]
<1>1. /\ rule' = [rule EXCEPT ![c] = "deriving"] /\ susp' = <<s>> \o susp /\ pc' = "idle" /\ out' = out
      /\ todo' = IF mode = "decl" /\ c \in DOMAIN Queries THEN Queries[c] ELSE e0
      /\ UNCHANGED <<rules, limit, fuse_cache, unfold_cache, store>>
  BY DEF Suspends, mctx
<1>2. pc = "step" /\ h.k = "const" /\ c \in Defs
  BY DEF Derivable, MayHaveRule, IsDef, At, KindOf, Defs
<1>3. /\ Run(heap, h, env, out, st, of, Others) /\ out = e0 /\ todo \in Seq(Cl) /\ KnownOK /\ limit \in Limits
      /\ SuspsOK(heap, susp) /\ DerivsOK(susp, limit) /\ StoreOK(heap, closed, Others)
  BY <1>2 DEF Inv, HeadOK, SessionOK, ThunksOK, FusionOK
<1>4. Listed(cs) /\ \A i \in 1..Len(cs) : cs[i] \in DOMAIN shape.d.rules
  <2>1. Arms(Term, Seq(Cl), c, limit, e0)
    BY <1>2, <1>3 DEF Hyp, FusionHyp
  <2>2. IsFiniteSet(DOMAIN shape.d.rules)
    BY <2>1 DEF Arms
  <2> QED BY <2>2, SetToSeqIs
<1> HIDE DEF cs
<1>5. DOMAIN e0 = {}
  OBVIOUS
<1> HIDE DEF e0
<1>6. Waiting(s)
  <2> HIDE DEF shape
  <2> QED BY DEF Waiting
<1>7. DerivOK(s, limit)
  <2>1. CacheOK(Term, Seq(Cl), e0)
    BY <1>5 DEF CacheOK
  <2>2. /\ s.h = h /\ s.todo = todo /\ s.cache = e0 /\ s.shape = shape /\ s.ctors = cs /\ s.arms = e0
    OBVIOUS
  <2>3. is_rec_body(Candidate(c, limit).B) /\ shape_ok(shape)
    OBVIOUS
  <2> HIDE DEF s
  <2> QED BY <1>3, <1>4, <1>5, <1>6, <2>1, <2>2, <2>3 DEF DerivOK
<1>8. SuspOK(heap, s, Later(susp, 0)) /\ s.st = st
  <2>1. s.h = h /\ s.env = env /\ s.st = st /\ s.of = of
    OBVIOUS
  <2> HIDE DEF s
  <2>2. Run(heap, s.h, s.env, e0, s.st, s.of, Others)
    BY <1>3, <2>1
  <2> QED BY <1>2, <2>1, <2>2 DEF SuspOK, Others, e0
<1> HIDE DEF s, shape
<1>9. SuspsOK(heap, susp') /\ DerivsOK(susp', limit) /\ \A x : x \in Later(susp', 0) <=> x \in Marks(st) \/ x \in Others
  BY <1>1, <1>3, <1>7, <1>8, OneMoreWaits DEF Others
<1>10. StoreOK(heap, closed, Others')
  <2>1. StackOK(heap, st, Others)
    BY <1>3 DEF Run
  <2>2. Marked(heap, Marks(st)) /\ Marked(heap, Others)
    BY <1>3, <2>1 DEF StackOK, StoreOK
  <2>3. Marked(heap, Others')
    BY <1>9, <2>2 DEF Marked, Others
  <2> QED BY <1>3, <2>3 DEF StoreOK
<1>11. ThunksOK'
  BY <1>1, <1>9, <1>10 DEF ThunksOK, store
<1>12. HeadOK'
  BY <1>1, <1>3 DEF HeadOK, e0
<1>13. todo' \in Seq(Cl)
  <2>1. e0 \in Seq(Cl)
    BY DEF e0
  <2>2. \A q \in DOMAIN Queries : Queries[q] \in Seq(Cl)
    BY DEF Hyp, ReductionHyp, Environment
  <2> QED BY <1>1, <2>1, <2>2
<1>14. KnownOK'
  BY <1>1, <1>3 DEF KnownOK
<1>15. FusionOK'
  BY <1>1 DEF Inv, FusionOK, UnfoldsOK
<1>16. limit' = limit
  BY <1>1
<1> QED BY <1>1, <1>9, <1>11, <1>12, <1>13, <1>14, <1>15, <1>16, StoreStays DEF Inv, SessionOK

LEMMA DeriveOK ==
  ASSUME Hyp, Inv, Derive
  PROVE  Inv' /\ Moves(heap, heap')
<1> DEFINE O == Candidate(h.c, limit)
<1>1. Derivable /\ UNCHANGED <<mode, limits, rules, delta, out, mctx, store>>
  BY DEF Derive
<1>2. \/ is_rec_body(O.B) /\ shape_ok(shape_of(O)) /\ Suspends(shape_of(O))
      \/ rule' = [rule EXCEPT ![h.c] = "none"] /\ UNCHANGED <<susp, todo, h, env, st, of, pc>>
  BY DEF Derive, Candidate
<1>3. CASE is_rec_body(O.B) /\ shape_ok(shape_of(O)) /\ Suspends(shape_of(O))
  BY <1>1, <1>3, SuspendsOK
<1>4. CASE rule' = [rule EXCEPT ![h.c] = "none"] /\ UNCHANGED <<susp, todo, h, env, st, of, pc>>
  <2>1. heap' = heap /\ Others' = Others /\ out' = out
    BY <1>1, <1>4 DEF store, Others
  <2>2. HeadOK'
    BY <1>4, <2>1 DEF Inv, HeadOK
  <2>3. SessionOK'
    BY <1>1, <1>4 DEF Inv, SessionOK, KnownOK, mctx
  <2>4. FusionOK'
    BY <1>1 DEF Inv, FusionOK, UnfoldsOK, mctx
  <2> QED BY <1>1, <1>4, <2>2, <2>3, <2>4, StoreStays DEF Inv
<1> QED BY <1>2, <1>3, <1>4

\* The first run that waits, with more of its arms.
LEMMA FirstChanges ==
  ASSUME NEW th, NEW ss, SuspsOK(th, ss), ss # <<>>, NEW L, DerivsOK(ss, L),
         NEW s, DerivOK(s, L), s.h = ss[1].h, s.env = ss[1].env, s.st = ss[1].st, s.of = ss[1].of
  PROVE  LET tt == Put(ss, 1, s)
         IN SuspsOK(th, tt) /\ DerivsOK(tt, L) /\ Later(tt, 0) = Later(ss, 0)
<1> DEFINE tt == Put(ss, 1, s)
           k == Len(ss)
<1>1. Listed(ss) /\ Len(ss) \in Nat /\ Len(ss) >= 1 /\ ss = [i \in 1..Len(ss) |-> ss[i]]
  BY Popped, ListedIs DEF SuspsOK
<1>2. /\ tt = [i \in 1..Len(ss) |-> tt[i]] /\ tt[1] = s
      /\ \A i \in 1..Len(ss) : i # 1 => tt[i] = ss[i]
  <2>1. ss = [i \in 1..k |-> ss[i]] /\ k \in Nat /\ k >= 1
    BY <1>1
  <2> HIDE DEF k
  <2>2. tt = [i \in 1..k |-> IF i = 1 THEN s ELSE ss[i]]
    BY <2>1 DEF Put
  <2> HIDE DEF tt
  <2>3. 1 \in 1..k
    BY <2>1
  <2>4. tt[1] = s /\ \A i \in 1..k : i # 1 => tt[i] = ss[i]
    BY <2>2, <2>3
  <2>5. tt = [i \in 1..k |-> tt[i]]
    BY <2>2
  <2> QED BY <2>4, <2>5 DEF k
<1> HIDE DEF tt, k
<1>3. Listed(tt) /\ Len(tt) = Len(ss)
  BY <1>1, <1>2, ListedFun
<1>4. \A i \in 1..Len(tt) : tt[i].h = ss[i].h /\ tt[i].env = ss[i].env /\ tt[i].st = ss[i].st /\ tt[i].of = ss[i].of
  BY <1>2, <1>3
<1>5. \A n \in Nat : Later(tt, n) = Later(ss, n)
  <2> TAKE n \in Nat
  <2>1. ASSUME NEW i \in 1..Len(tt), i > n PROVE tt[i].st = ss[(i - n) + n].st
    <3>1. (i - n) + n = i
      OBVIOUS
    <3> QED BY <1>4, <3>1
  <2>2. Listed(ss) /\ Listed(tt) /\ Len(tt) - n = Len(ss) - n
    BY <1>1, <1>3
  <2> QED BY <2>1, <2>2, LaterSame
<1>6. ASSUME NEW i \in 1..Len(tt) PROVE SuspOK(th, tt[i], Later(tt, i)) /\ DerivOK(tt[i], L)
  <2>1. SuspOK(th, ss[i], Later(ss, i)) /\ DerivOK(ss[i], L)
    BY <1>3 DEF SuspsOK, DerivsOK
  <2>2. Later(tt, i) = Later(ss, i)
    <3>1. i \in Nat
      OBVIOUS
    <3> QED BY <1>5, <3>1
  <2>3. tt[i].h = ss[i].h /\ tt[i].env = ss[i].env /\ tt[i].st = ss[i].st /\ tt[i].of = ss[i].of
    BY <1>4
  <2>4. SuspOK(th, tt[i], Later(tt, i))
    BY <2>1, <2>2, <2>3 DEF SuspOK
  <2>5. DerivOK(tt[i], L)
    BY <1>2, <1>3, <2>1
  <2> QED BY <2>4, <2>5
<1>7. SuspsOK(th, tt) /\ DerivsOK(tt, L)
  BY <1>3, <1>6 DEF SuspsOK, DerivsOK
<1>8. Later(tt, 0) = Later(ss, 0)
  BY <1>5
<1> QED BY <1>7, <1>8 DEF tt

\* A waiting run with another cache, other constructors and arms.
More(s, c, x, y) == [s EXCEPT !.cache = c, !.ctors = x, !.arms = y]
IsMore(t, s, c, x, y) ==
  /\ t.h = s.h /\ t.env = s.env /\ t.st = s.st /\ t.of = s.of /\ t.todo = s.todo /\ t.shape = s.shape
  /\ t.ctors = x /\ t.cache = c /\ t.arms = y /\ Waiting(t)
LEMMA WaitingMore ==
  ASSUME NEW s, Waiting(s), NEW c, NEW x, NEW y
  PROVE  IsMore(More(s, c, x, y), s, c, x, y)
<1> DEFINE D == {"h", "env", "st", "of", "todo", "shape", "ctors", "cache", "arms"}
           t == More(s, c, x, y)
           hd == s.h
           e == s.env
           z == s.st
           g == s.of
           ts == s.todo
           sh == s.shape
           c0 == s.ctors
           c1 == s.cache
           a0 == s.arms
<1>1. s = [h |-> hd, env |-> e, st |-> z, of |-> g, todo |-> ts, shape |-> sh, ctors |-> c0, cache |-> c1, arms |-> a0]
  BY DEF Waiting
<1> HIDE DEF hd, e, z, g, ts, sh, c0, c1, a0
<1>2. DOMAIN s = D
  BY <1>1
<1>3. s = [f \in D |-> s[f]]
  BY <1>1
<1> USE DEF hd, e, z, g, ts, sh, c0, c1, a0
<1>4. /\ t.h = s.h /\ t.env = s.env /\ t.st = s.st /\ t.of = s.of /\ t.todo = s.todo /\ t.shape = s.shape
      /\ t.ctors = x /\ t.cache = c /\ t.arms = y
  BY <1>2 DEF More
<1>5. t = [f \in D |-> t[f]]
  BY <1>2, <1>3 DEF More
<1> DEFINE r == [h |-> t.h, env |-> t.env, st |-> t.st, of |-> t.of, todo |-> t.todo,
                 shape |-> t.shape, ctors |-> t.ctors, cache |-> t.cache, arms |-> t.arms]
<1> HIDE DEF t
<1>6. /\ r.h = t.h /\ r.env = t.env /\ r.st = t.st /\ r.of = t.of /\ r.todo = t.todo /\ r.shape = t.shape
      /\ r.ctors = t.ctors /\ r.cache = t.cache /\ r.arms = t.arms
  OBVIOUS
<1>7. r = [f \in D |-> r[f]]
  OBVIOUS
<1> HIDE DEF r
<1>8. \A f \in D : r[f] = t[f]
  BY <1>6
<1>9. t = r
  <2> HIDE DEF D
  <2> QED BY <1>5, <1>7, <1>8
<1>10. Waiting(t)
  BY <1>9 DEF Waiting, r
<1>11. IsMore(t, s, c, x, y)
  BY <1>4, <1>10 DEF IsMore
<1> QED BY <1>11 DEF t

\* What is known of the derivation after one more arm.
LEMMA ArmDerived ==
  ASSUME Hyp, NEW L \in Limits, NEW s, DerivOK(s, L), s.h.c \in Defs, s.ctors # <<>>,
         NEW R, R = fuse_term(L, s.cache, unfolded(s.shape, Head(s.ctors))),
         NEW arm, arm = arm_of(s.h.c, s.shape, Head(s.ctors), called(s.h.c, s.shape, Head(s.ctors), R.e)), arm.ok
  PROVE  DerivOK([s EXCEPT !.cache = R.cache, !.ctors = Tail(@), !.arms = emplace(@, Head(s.ctors), arm)], L)
<1> DEFINE c == s.h.c
           shape == s.shape
           ctor == Head(s.ctors)
           cs == Tail(s.ctors)
           ca == R.cache
           as == emplace(s.arms, ctor, arm)
           s2 == [s EXCEPT !.cache = R.cache, !.ctors = Tail(@), !.arms = emplace(@, Head(s.ctors), arm)]
<1>1. /\ Waiting(s) /\ s.todo \in Seq(Cl) /\ CacheOK(Term, Seq(Cl), s.cache)
      /\ is_rec_body(Candidate(c, L).B) /\ shape = shape_of(Candidate(c, L)) /\ shape_ok(shape)
      /\ Listed(s.ctors) /\ \A i \in 1..Len(s.ctors) : s.ctors[i] \in DOMAIN shape.d.rules
      /\ \A k \in DOMAIN s.arms : ArmFor(Term, Seq(Cl), c, shape.k - 1, k, s.arms[k])
  BY DEF DerivOK
<1>2. /\ ctor = s.ctors[1] /\ Len(s.ctors) >= 1 /\ Len(s.ctors) \in Nat /\ Listed(cs) /\ Len(cs) = Len(s.ctors) - 1
      /\ \A i \in 1..(Len(s.ctors) - 1) : cs[i] = s.ctors[i + 1]
  BY <1>1, Popped, ListedIs
<1>3. ctor \in DOMAIN shape.d.rules /\ \A i \in 1..Len(cs) : cs[i] \in DOMAIN shape.d.rules
  <2>1. 1 \in 1..Len(s.ctors)
    BY <1>2
  <2>2. \A i \in 1..Len(cs) : i + 1 \in 1..Len(s.ctors) /\ cs[i] = s.ctors[i + 1]
    BY <1>2
  <2> QED BY <1>1, <1>2, <2>1, <2>2
<1>4. Arms(Term, Seq(Cl), c, L, s.cache)
  BY DEF Hyp, FusionHyp
<1>5. unfolded(shape, ctor) \in Closed(Term) /\ ArmFor(Term, Seq(Cl), c, shape.k - 1, ctor, arm)
  BY <1>1, <1>3, <1>4 DEF Arms
<1>6. CacheOK(Term, Seq(Cl), ca)
  BY <1>1, <1>5 DEF Hyp, FusionHyp, Fuses
<1>7. s2 = More(s, ca, cs, as)
  BY DEF More
<1> HIDE DEF s2, cs, ca, as, shape
<1>8. /\ s2.h = s.h /\ s2.todo = s.todo /\ s2.shape = shape /\ s2.ctors = cs /\ s2.cache = ca /\ s2.arms = as
      /\ Waiting(s2)
  <2>1. IsMore(More(s, ca, cs, as), s, ca, cs, as)
    BY <1>1, WaitingMore
  <2>2. IsMore(s2, s, ca, cs, as)
    BY <1>7, <2>1
  <2> QED BY <2>2 DEF shape, IsMore
<1> USE DEF as, shape
<1>10. \A k \in DOMAIN as : ArmFor(Term, Seq(Cl), c, shape.k - 1, k, as[k])
  <2>1. DOMAIN as = DOMAIN s.arms \cup {ctor} /\ \A k \in DOMAIN as : as[k] = IF k \in DOMAIN s.arms THEN s.arms[k] ELSE arm
    BY DEF emplace
  <2> HIDE DEF as
  <2> QED BY <1>1, <1>5, <2>1
<1> HIDE DEF s2, cs, ca, as, shape, ctor
<1>11. DerivOK(s2, L)
  BY <1>1, <1>2, <1>3, <1>6, <1>8, <1>10 DEF DerivOK
<1> QED BY <1>11 DEF s2

LEMMA DeriveArmOK ==
  ASSUME Hyp, Inv, DeriveArm
  PROVE  Inv' /\ Moves(heap, heap')
<1> DEFINE s == Head(susp)
           ctor == Head(s.ctors)
           R == fuse_term(limit, s.cache, unfolded(s.shape, ctor))
           arm == arm_of(Asked, s.shape, ctor, called(Asked, s.shape, ctor, R.e))
           Arm(r, a) ==
             \/ /\ a.ok
                /\ susp' = [susp EXCEPT ![1].cache = r.cache, ![1].ctors = Tail(@), ![1].arms = emplace(@, ctor, a)]
                /\ UNCHANGED <<machine, mctx, mode, of, todo, rule, rules, limits, store>>
             \/ Goes /\ HasNone
<1>1. susp # <<>> /\ s.ctors # <<>>
  BY DEF DeriveArm, Deriving
<1>2. Arm(R, arm)
  BY DEF DeriveArm
<1> HIDE DEF R, arm
<1>3. CASE Goes /\ HasNone
  BY <1>1, <1>3, GoesOK, NoneOK DEF Inv, SessionOK
<1>4. CASE ~(Goes /\ HasNone)
  <2> DEFINE s2 == [s EXCEPT !.cache = R.cache, !.ctors = Tail(@), !.arms = emplace(@, ctor, arm)]
  <2>1. /\ arm.ok /\ UNCHANGED <<machine, mctx, mode, of, todo, rule, rules, limits, store>>
        /\ susp' = [susp EXCEPT ![1].cache = R.cache, ![1].ctors = Tail(@), ![1].arms = emplace(@, ctor, arm)]
    BY <1>2, <1>4
  <2>2. SuspsOK(heap, susp) /\ DerivsOK(susp, limit) /\ limit \in Limits /\ StoreOK(heap, closed, Others)
    BY DEF Inv, ThunksOK, SessionOK, FusionOK
  <2>3. SuspOK(heap, s, Later(Tail(susp), 0)) /\ DerivOK(s, limit) /\ s = susp[1] /\ 1 \in DOMAIN susp /\ Listed(susp)
    <3>1. Listed(susp)
      BY <2>2 DEF SuspsOK
    <3>2. Head(susp) = susp[1] /\ Len(susp) >= 1 /\ DOMAIN susp = 1..Len(susp) /\ Len(susp) \in Nat
      BY <1>1, <3>1, Popped, ListedIs
    <3>3. SuspOK(heap, s, Later(Tail(susp), 0)) /\ DerivOK(s, limit)
      BY <1>1, <2>2, FirstWaits
    <3> QED BY <3>1, <3>2, <3>3
  <2>4. DerivOK(s2, limit)
    <3>1. s.h.c \in Defs
      BY <2>3 DEF SuspOK
    <3>2. R = fuse_term(limit, s.cache, unfolded(s.shape, Head(s.ctors)))
      BY DEF R
    <3>3. arm = arm_of(s.h.c, s.shape, Head(s.ctors), called(s.h.c, s.shape, Head(s.ctors), R.e))
      BY DEF arm, Asked
    <3> HIDE DEF s, ctor
    <3>4. DerivOK([s EXCEPT !.cache = R.cache, !.ctors = Tail(@), !.arms = emplace(@, Head(s.ctors), arm)], limit)
      BY <1>1, <2>1, <2>2, <2>3, <3>1, <3>2, <3>3, ArmDerived
    <3> QED BY <3>4 DEF ctor
  <2>5. susp' = [susp EXCEPT ![1] = s2]
    <3>1. susp' = [susp EXCEPT ![1] = [susp[1] EXCEPT !.cache = R.cache, !.ctors = Tail(@), !.arms = emplace(@, ctor, arm)]]
      <4> HIDE DEF s, ctor
      <4> QED BY <2>1
    <3> QED BY <2>3, <3>1
  <2>6. s2.h = s.h /\ s2.env = s.env /\ s2.st = s.st /\ s2.of = s.of
    <3>1. Waiting(s)
      BY <2>3 DEF DerivOK
    <3> HIDE DEF s, ctor
    <3> QED BY <3>1 DEF Waiting
  <2> HIDE DEF s2
  <2>7. SuspsOK(heap, susp') /\ DerivsOK(susp', limit) /\ Later(susp', 0) = Later(susp, 0)
    <3> HIDE DEF s, ctor
    <3>1. s2.h = susp[1].h /\ s2.env = susp[1].env /\ s2.st = susp[1].st /\ s2.of = susp[1].of
      BY <2>3, <2>6
    <3>2. susp' = Put(susp, 1, s2)
      BY <2>5 DEF Put
    <3>3. LET tt == Put(susp, 1, s2) IN SuspsOK(heap, tt) /\ DerivsOK(tt, limit) /\ Later(tt, 0) = Later(susp, 0)
      BY <1>1, <2>2, <2>4, <3>1, FirstChanges
    <3> QED BY <3>2, <3>3
  <2> HIDE DEF s, ctor
  <2>8. Others' = Others /\ heap' = heap /\ closed' = closed
    BY <2>1, <2>7 DEF Others, store
  <2>9. ThunksOK'
    BY <2>2, <2>7, <2>8 DEF ThunksOK
  <2>10. HeadOK'
    <3>1. /\ h' = h /\ env' = env /\ out' = out /\ st' = st /\ of' = of /\ pc' = pc
      BY <2>1 DEF machine
    <3> QED BY <2>8, <3>1 DEF Inv, HeadOK
  <2>11. SessionOK'
    BY <2>1, <2>7 DEF Inv, SessionOK, KnownOK, mctx
  <2>12. FusionOK'
    BY <2>1 DEF Inv, FusionOK, UnfoldsOK, mctx
  <2> QED BY <2>1, <2>9, <2>10, <2>11, <2>12, StoreStays DEF Inv
<1> QED BY <1>3, <1>4
-------------------------------------------------------------------------------
(***************************************************************************)
(* Theorems.                                                               *)
(***************************************************************************)

LEMMA InitOK ==
  ASSUME Hyp, Init
  PROVE  Inv
<1> DEFINE e0 == <<>>
<1>1. /\ heap = e0 /\ closed = e0 /\ out = e0 /\ pc = "idle" /\ susp = e0 /\ fuse_cache = e0 /\ unfold_cache = e0
      /\ rule = [c \in Defs |-> "unknown"] /\ rules = e0
  BY DEF Init
<1>2. PICK p \in Programs[mode] : todo = p[1] /\ limit = p[2]
  BY DEF Init
<1>3. mode \in DOMAIN Programs
  BY DEF Init
<1>4. Listed(e0) /\ Len(e0) = 0 /\ DOMAIN e0 = {} /\ e0 \in Seq(Thunks)
  BY DEF Listed
<1> HIDE DEF e0
<1>5. limit \in Limits
  BY <1>2, <1>3 DEF Limits
<1>6. todo \in Seq(Cl)
  BY <1>2, <1>3 DEF Hyp, ReductionHyp, Environment
<1>7. Written(e0) /\ HeapOK(e0) /\ SharedOK(e0, e0)
  BY <1>4 DEF Written, HeapOK, SharedOK
<1>8. \A x : x \notin Later(e0, 0)
  BY <1>4, InLater
<1>9. ThunksOK
  <2>1. Marked(e0, Later(e0, 0))
    BY <1>8 DEF Marked
  <2>2. SuspsOK(e0, e0)
    BY <1>4 DEF SuspsOK
  <2>3. StoreOK(e0, e0, Later(e0, 0))
    BY <1>7, <2>1 DEF StoreOK
  <2> QED BY <1>1, <2>2, <2>3 DEF ThunksOK, Others
<1>10. HeadOK
  BY <1>1 DEF HeadOK, e0
<1>11. SessionOK
  <2>1. DerivsOK(e0, limit)
    BY <1>4 DEF DerivsOK
  <2>2. KnownOK
    BY <1>1, <1>4 DEF KnownOK
  <2> QED BY <1>1, <1>6, <2>1, <2>2 DEF SessionOK
<1>12. FusionOK
  BY <1>1, <1>4, <1>5 DEF FusionOK, CacheOK, UnfoldsOK
<1> QED BY <1>9, <1>10, <1>11, <1>12 DEF Inv

LEMMA NextOK ==
  ASSUME Hyp, Inv, [Next]_vars
  PROVE  Inv' /\ Moves(heap, heap')
<1>1. CASE TermStep
  BY <1>1, TermStepOK
<1>2. CASE UnwindStep
  BY <1>2, UnwindStepOK
<1>3. CASE Start
  BY <1>3, StartOK
<1>4. CASE Fuse
  BY <1>4, FuseOK
<1>5. CASE Returns \/ Finish \/ Limit \/ Over \/ Done
  BY <1>5, EndsOK
<1>6. CASE Derive
  BY <1>6, DeriveOK
<1>7. CASE DeriveArm
  BY <1>7, DeriveArmOK
<1>8. CASE Derived
  BY <1>8, DerivedOK
<1>9. CASE Caught
  BY <1>9, CaughtOK
<1>10. CASE UNCHANGED vars
  <2>1. UNCHANGED <<store, machine, mctx, session>>
    BY <1>10 DEF vars
  <2>2. heap' = heap /\ Others' = Others
    BY <2>1 DEF store, session, Others
  <2>3. ThunksOK' /\ Moves(heap, heap')
    BY <2>1, StoreStays DEF session
  <2>4. HeadOK'
    BY <2>1, <2>2 DEF Inv, HeadOK, machine, session
  <2>5. SessionOK'
    BY <2>1 DEF Inv, SessionOK, KnownOK, session, mctx
  <2>6. FusionOK'
    BY <2>1 DEF Inv, FusionOK, UnfoldsOK, mctx
  <2> QED BY <2>3, <2>4, <2>5, <2>6 DEF Inv
<1> QED BY <1>1, <1>2, <1>3, <1>4, <1>5, <1>6, <1>7, <1>8, <1>9, <1>10 DEF Next, TermStep, UnwindStep

LEMMA InvValues ==
  ASSUME Hyp, Inv
  PROVE  ValueMeaning
<1>1. HeapOK(heap) /\ Written(heap) /\ DOMAIN heap = 1..Len(heap)
  BY StoreIs, WrittenIs DEF Inv, ThunksOK
<1>2. ASSUME NEW t \in Forced
      PROVE  normal(readback_value(heap, heap[t])) = normal(readback(heap, t))
  <2>1. t \in 1..Len(heap) /\ heap[t].state >= 2
    BY <1>1 DEF Forced
  <2>2. /\ heap[t].args \in Seq(0..Len(heap))
        /\ normal(Val(heap, heap[t].vterm, heap[t].venv, heap[t].args)) = normal(readback(heap, t))
    BY <1>1, <2>1 DEF HeapOK, ValueOK
  <2>3. readback_value(heap, heap[t]) = Val(heap, heap[t].vterm, heap[t].venv, heap[t].args)
    BY <2>2, ReadbackValue
  <2> QED BY <2>2, <2>3
<1> QED BY <1>2 DEF ValueMeaning

LEMMA InvResult ==
  ASSUME Hyp, Inv
  PROVE  ResultMeaning
<1> USE DEF Hyp
<1> SUFFICES ASSUME pc = "done" PROVE normal(Result) = normal(of)
  BY DEF ResultMeaning
<1> DEFINE e0 == <<>>
<1>1. Run(heap, h, env, out, st, of, Others) /\ st = e0 /\ Written(heap)
  BY StoreIs DEF Inv, HeadOK, ThunksOK
<1>2. Scoped(h, env, Len(heap)) /\ out \in Seq(0..Len(heap)) /\ Chain(heap, Val(heap, h, env, out), e0, of)
  BY <1>1 DEF Run
<1>3. Val(heap, h, env, out) \in Cl
  BY <1>1, <1>2, ValIs
<1>4. normal(Val(heap, h, env, out)) = normal(of)
  BY <1>2, <1>3, ChainNil
<1>5. DOMAIN out = 1..Len(out)
  BY <1>2
<1>6. Result = Val(heap, h, env, out)
  BY <1>5 DEF Result, Val, Reads
<1> QED BY <1>4, <1>6

\* The invariant, and what a step does to the thunks, whatever the machine is given.
THEOREM InvAlways ==
  ASSUME Hyp
  PROVE  Spec => []Inv
<1>1. Init => Inv
  BY InitOK
<1>2. Inv /\ [Next]_vars => Inv'
  BY NextOK
<1> QED BY <1>1, <1>2, PTL DEF Spec

\* Sharing never replaces a term by another: the value a run leaves in a thunk means what its
\* closure means (kam.cpp:233, 266, 280).
THEOREM ValuesMean ==
  ASSUME Hyp
  PROVE  Spec => []ValueMeaning
<1>1. Inv => ValueMeaning
  BY InvValues
<1> QED BY <1>1, InvAlways, PTL

\* What a run hands back means what it was given (kam.cpp:725).
THEOREM ResultsMean ==
  ASSUME Hyp
  PROVE  Spec => []ResultMeaning
<1>1. Inv => ResultMeaning
  BY InvResult
<1> QED BY <1>1, InvAlways, PTL

\* No step changes a value found with definitions (kam.cpp:238, 240).
THEOREM FullValuesStay ==
  ASSUME Hyp
  PROVE  Spec => ValuesFinal
<1>1. Inv /\ [Next]_vars => [\A t \in DOMAIN heap : heap[t].state = 3 => heap'[t] = heap[t]]_vars
  <2> SUFFICES ASSUME Inv, [Next]_vars PROVE \A t \in DOMAIN heap : heap[t].state = 3 => heap'[t] = heap[t]
    OBVIOUS
  <2>1. Moves(heap, heap')
    BY NextOK
  <2>2. DOMAIN heap = 1..Len(heap)
    BY <2>1, WrittenIs DEF Moves, Extends
  <2> QED BY <2>1, <2>2 DEF Moves
<1> QED BY <1>1, InvAlways, PTL DEF Spec, ValuesFinal
===============================================================================
