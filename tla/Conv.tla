---------------------------------- MODULE Conv ----------------------------------
(***************************************************************************)
(* Definitional equality in a session of the checking engine               *)
(* (src/src/nbe.cpp, Engine::conv).                                        *)
(*                                                                         *)
(* Declarations are checked one after the other; what checking one asks is *)
(* answered by conversions, and what a conversion finds is remembered for  *)
(* the whole session: equal pairs, different pairs, and the step a value   *)
(* takes.  Unfolding is lazy: before two applications of one definition    *)
(* are unfolded their arguments are compared, for a bounded number of      *)
(* steps (a probe).  A probe that runs out answers FALSE without knowing.  *)
(* Any step may run past the declaration's budget: the conversion is       *)
(* dropped where it stands and the declaration is given up, what was       *)
(* remembered stays.                                                       *)
(*                                                                         *)
(* Weak-head reduction, typing and inference are those of module Values,   *)
(* whose functions are constants here: only the steps conversion itself    *)
(* takes are remembered.                                                   *)
(***************************************************************************)
EXTENDS ValueForms, SequencesExt, FiniteSets

CONSTANTS
  Scripts,      \* sequences of declarations checked in one session
  Unsigned,     \* sets of constants whose relevance signature could not be computed
  PROBE,        \* conversions a probe may make (2048 in the code)
  MaxFailures,  \* bound: declarations given up
  apply(_, _), inst_pi(_, _, _), lam_dom(_), whnf(_, _), step(_, _),
  value_type(_, _), const_type(_), is_prop_type(_, _), has_unit_type(_, _), telescope(_, _),
  asks_k(_, _), k_type(_, _), k_ctor(_, _), k_major(_, _, _), iota_with(_, _, _),
  check_const(_), def_eq(_, _, _), clean(_)   \* the functions of module Values

ASSUME ConvAssumption == PROBE \in Nat /\ MaxFailures \in Nat

VARIABLES
  script, nosig,     \* chosen at the start
  decl, todo,        \* the declaration being checked, and what is left to ask of it
  pc, at, res,       \* where the conversion is, what it compares, the answer on its way back
  stack,             \* the callers, nearest first
  pos, neg, red,     \* c_pos, c_neg, and the steps remembered in the values
  probing, exhausted, probe_left,
  verdicts           \* of the declarations checked so far

chosen == <<script, nosig>>
caches == <<pos, neg, red>>
probe == <<probing, exhausted, probe_left>>
control == <<pc, at, res, stack>>
vars == <<chosen, decl, todo, control, caches, probe, verdicts>>

Idle == [d |-> 0, x |-> Broken, y |-> Broken, i |-> 0, skip |-> {}]

Init ==
  /\ script \in Scripts /\ nosig \in Unsigned
  /\ decl = 0 /\ todo = <<>> /\ verdicts = <<>>
  /\ pc = "idle" /\ at = Idle /\ res = FALSE /\ stack = <<>>
  /\ pos = {} /\ neg = {} /\ red = <<>>
  /\ probing = FALSE /\ exhausted = FALSE /\ probe_left = 0

Goto(label) == pc' = label /\ UNCHANGED <<at, res>>
Comparing(d, x, y) == [d |-> d, x |-> x, y |-> y, i |-> 1, skip |-> {}]
Call(d, x, y) == pc' = "conv" /\ at' = Comparing(d, x, y) /\ UNCHANGED res
Return(b) == pc' = "ret" /\ res' = b /\ at' = Idle
Frame(kind) == [k |-> kind, at |-> at]
Push(f) == stack' = <<f>> \o stack
Same(label) == pc = label /\ UNCHANGED <<chosen, decl, todo, verdicts>>

\* Slip: a conversion of types inside a probe is part of the probe.
AskInProbe(d, t, u, frame) ==
  /\ stack' = <<[k |-> "types", probing |-> probing, exhausted |-> exhausted, probe_left |-> probe_left], frame>> \o stack
  /\ UNCHANGED probe /\ Call(d, t, u)

\* Two types compared outside any probe; the probe goes on afterwards.
conv_types(d, t, u, frame) ==
  /\ stack' = <<[k |-> "types", probing |-> probing, exhausted |-> exhausted, probe_left |-> probe_left], frame>> \o stack
  /\ probing' = FALSE /\ exhausted' = FALSE /\ UNCHANGED probe_left
  /\ Call(d, t, u)
-------------------------------------------------------------------------------
(* Relevance signatures: which arguments of a constant are proofs, and how   *)
(* many arguments make it a proof, from its type at fresh variables.         *)

Levels(c) == IF c \in nosig THEN <<>> ELSE telescope(0, const_type(c))

\* arg_prop.
PropDomains(s) == {i \in DOMAIN s : i < Len(s) /\ s[i] = 0}
ArgProp(c) == PropDomains(Levels(c))
skip_mask(x) == IF x.k # "neu" \/ x.hk = "bvar" THEN {} ELSE ArgProp(x.a)

\* Applied to n arguments, known not to be a proof: imax of the levels from there on is not 0.
ResultLevel(s, n) == FoldRight(imax, SubSeq(s, n + 1, Len(s) - 1), s[Len(s)])
static_not_proof(x) ==
  /\ x.k = "neu" /\ x.hk # "bvar" /\ ~HasProj(x.sp)
  /\ \E s \in {Levels(x.a)} : Len(x.sp) < Len(s) /\ ResultLevel(s, Len(x.sp)) # 0
-------------------------------------------------------------------------------
(* conv: what is remembered, then the comparison proper.                     *)

Cached(x, y) == ~(x.k \in {"sort", "nat"} /\ y.k \in {"sort", "nat"})
Pair(x, y) == {x, y}
OutOfProbe == probing /\ probe_left = 0
Counted == probe_left' = IF probing THEN probe_left - 1 ELSE probe_left

ConvSame ==
  /\ Same("conv") /\ at.x = at.y
  /\ Return(TRUE) /\ UNCHANGED <<stack, caches, probe>>
ConvExhausted ==
  /\ Same("conv") /\ at.x # at.y /\ OutOfProbe
  /\ exhausted' = TRUE /\ Return(FALSE) /\ UNCHANGED <<stack, caches, probing, probe_left>>
ConvKnown ==
  /\ Same("conv") /\ at.x # at.y /\ ~OutOfProbe
  /\ Cached(at.x, at.y) /\ Pair(at.x, at.y) \in pos \cup neg
  /\ Counted /\ Return(Pair(at.x, at.y) \in pos) /\ UNCHANGED <<stack, caches, probing, exhausted>>
ConvMiss ==
  /\ Same("conv") /\ at.x # at.y /\ ~OutOfProbe
  /\ Cached(at.x, at.y) => Pair(at.x, at.y) \notin pos \cup neg
  /\ Counted /\ Goto("nc") /\ Push(Frame("memo")) /\ UNCHANGED <<caches, probing, exhausted>>

\* Slip: a failure is remembered whatever it came from.
RemembersAll(x, y) ==
  /\ pos' = IF res THEN pos \cup {Pair(x, y)} ELSE pos
  /\ neg' = IF res THEN neg ELSE neg \cup {Pair(x, y)}

\* An answer is remembered, a failure only if no probe ran out on the way.
Remember(x, y) ==
  /\ pos' = IF res THEN pos \cup {Pair(x, y)} ELSE pos
  /\ neg' = IF ~res /\ ~exhausted THEN neg \cup {Pair(x, y)} ELSE neg
Caller == stack[1]
Returns(kind) == Same("ret") /\ stack # <<>> /\ Caller.k = kind /\ stack' = Tail(stack)
Resumes == at' = Caller.at /\ UNCHANGED res
RetMemo ==
  /\ Returns("memo")
  /\ IF Cached(Caller.at.x, Caller.at.y) THEN Remember(Caller.at.x, Caller.at.y) ELSE UNCHANGED <<pos, neg>>
  /\ UNCHANGED <<pc, at, res, red, probe>>
RetTypes ==
  /\ Returns("types")
  /\ probing' = Caller.probing /\ exhausted' = Caller.exhausted /\ probe_left' = Caller.probe_left
  /\ UNCHANGED <<pc, at, res, caches>>
-------------------------------------------------------------------------------
(* conv_nc: by the shape of the two values.                                  *)

nat_like(v) == v.k = "nat" \/ IsCtor(v, "zero") \/ IsCtor(v, "succ")
nat_zero(v) == (v.k = "nat" /\ v.n = 0) \/ (IsCtor(v, "zero") /\ v.sp = <<>>)
\* The predecessor: one value, or none.
nat_pred(v) ==
  CASE v.k = "nat" -> IF v.n = 0 THEN {} ELSE {VNat(v.n - 1)}
    [] IsCtor(v, "succ") /\ Len(v.sp) = 1 /\ ~HasProj(v.sp) -> {v.sp[1].v}
    [] OTHER -> {}
same_head(x, y) == x.k = "neu" /\ y.k = "neu" /\ SameHead(x, y)

Literals(x, y) == x.k = y.k /\ x.k \in {"sort", "nat"}
Binders(x, y) == x.k = y.k /\ x.k \in {"pi", "lam"}
BothZero(x, y) == nat_like(x) /\ nat_like(y) /\ nat_zero(x) /\ nat_zero(y)
BothSucc(x, y) == nat_like(x) /\ nat_like(y) /\ nat_pred(x) # {} /\ nat_pred(y) # {}
Structural(x, y) == ~Literals(x, y) /\ ~Binders(x, y) /\ ~BothZero(x, y) /\ ~BothSucc(x, y)

NcDecided ==
  /\ Same("nc") /\ (Literals(at.x, at.y) \/ BothZero(at.x, at.y))
  /\ Return(BothZero(at.x, at.y))   \* equal literals are one value
  /\ UNCHANGED <<stack, caches, probe>>
DomOf(v) == IF v.k = "lam" THEN lam_dom(v) ELSE v.dom
NcBinder ==
  /\ Same("nc") /\ Binders(at.x, at.y)
  /\ Push(Frame("binder")) /\ Call(at.d, DomOf(at.x), DomOf(at.y)) /\ UNCHANGED <<caches, probe>>
NcSucc ==
  /\ Same("nc") /\ ~Literals(at.x, at.y) /\ BothSucc(at.x, at.y)
  /\ \E m \in nat_pred(at.x), n \in nat_pred(at.y) : Call(at.d, m, n)
  /\ UNCHANGED <<stack, caches, probe>>
NcSpine ==
  /\ Same("nc") /\ Structural(at.x, at.y) /\ same_head(at.x, at.y) /\ ~reducible(at.x)
  /\ Push(Frame("irreducible"))
  /\ pc' = "spine" /\ at' = [at EXCEPT !.i = 1, !.skip = skip_mask(at.x)] /\ UNCHANGED <<res, caches, probe>>
NcOther ==
  /\ Same("nc") /\ Structural(at.x, at.y) /\ ~(same_head(at.x, at.y) /\ ~reducible(at.x))
  /\ Goto(IF reducible(at.x) \/ reducible(at.y) THEN "delta" ELSE "cold")
  /\ UNCHANGED <<stack, caches, probe>>
RetIrreducible ==
  /\ Returns("irreducible")
  /\ IF res THEN UNCHANGED <<pc, at, res>> ELSE pc' = "cold" /\ Resumes
  /\ UNCHANGED <<caches, probe>>

\* The codomains or bodies, at one variable with the first domain for its type.
BodyAt(d, f, v) == IF f.k = "lam" THEN apply(f, v) ELSE inst_pi(d + 1, f, v)
RetBinder ==
  /\ Returns("binder")
  /\ IF res
       THEN \E a \in {Caller.at}, v \in {fresh(Caller.at.d, DomOf(Caller.at.x))} :
              Call(a.d + 1, BodyAt(a.d, a.x, v), BodyAt(a.d, a.y, v))
       ELSE UNCHANGED <<pc, at, res>>
  /\ UNCHANGED <<caches, probe>>

\* conv_spine, one elimination at a time; arguments that are proofs are skipped.
Xs == at.x.sp
Ys == at.y.sp
SpineEnds == Len(Xs) # Len(Ys) \/ at.i > Len(Xs) \/ Xs = Ys
SpineProj == ~SpineEnds /\ (Xs[at.i].p \/ Ys[at.i].p)
SpineSkips == ~SpineEnds /\ ~SpineProj /\ at.i \in at.skip
SpineDone ==
  /\ Same("spine") /\ SpineEnds
  /\ Return(Len(Xs) = Len(Ys)) /\ UNCHANGED <<stack, caches, probe>>
SpineProjection ==
  /\ Same("spine") /\ SpineProj
  /\ IF Xs[at.i] = Ys[at.i] THEN at' = [at EXCEPT !.i = @ + 1, !.skip = {}] /\ UNCHANGED <<pc, res>>
                            ELSE Return(FALSE)
  /\ UNCHANGED <<stack, caches, probe>>
SpineSkip ==
  /\ Same("spine") /\ SpineSkips
  /\ at' = [at EXCEPT !.i = @ + 1] /\ UNCHANGED <<pc, res, stack, caches, probe>>
SpineArg ==
  /\ Same("spine") /\ ~SpineEnds /\ ~SpineProj /\ ~SpineSkips
  /\ Push(Frame("spine")) /\ Call(at.d, Xs[at.i].v, Ys[at.i].v) /\ UNCHANGED <<caches, probe>>
RetSpine ==
  /\ Returns("spine")
  /\ IF res THEN pc' = "spine" /\ at' = [Caller.at EXCEPT !.i = @ + 1] /\ UNCHANGED res
            ELSE UNCHANGED <<pc, at, res>>
  /\ UNCHANGED <<caches, probe>>
-------------------------------------------------------------------------------
(* conv_delta: one side reduces.                                             *)

\* probe_spine: applications of one definition, or of one recursor.
Probes ==
  /\ Same("delta") /\ same_head(at.x, at.y)
  /\ Push(Frame(IF probing THEN "nested" ELSE "probe"))
  /\ IF probing THEN UNCHANGED probe ELSE probing' = TRUE /\ exhausted' = FALSE /\ probe_left' = PROBE
  /\ pc' = "spine" /\ at' = [at EXCEPT !.i = 1, !.skip = skip_mask(at.x)] /\ UNCHANGED <<res, caches>>
NoProbe ==
  /\ Same("delta") /\ ~same_head(at.x, at.y)
  /\ Goto("irrelevant") /\ UNCHANGED <<stack, caches, probe>>

\* Slip: the probe is left only when it fails.
EndsIfFailed == IF res THEN UNCHANGED probe ELSE probing' = FALSE /\ exhausted' = FALSE /\ UNCHANGED probe_left

EndsProbe == probing' = FALSE /\ exhausted' = FALSE /\ UNCHANGED probe_left
AfterProbe == IF res THEN UNCHANGED <<pc, at, res>> ELSE pc' = "irrelevant" /\ Resumes
RetProbe == Returns("probe") /\ EndsProbe /\ AfterProbe /\ UNCHANGED caches
RetNested == Returns("nested") /\ AfterProbe /\ UNCHANGED <<caches, probe>>

\* proof_irrel: proofs of one proposition are equal, of two are different.
MayBeProof(v) == v.k \in {"lam", "neu"} /\ ~static_not_proof(v)
AreProofs == MayBeProof(at.x) /\ MayBeProof(at.y) /\ is_prop_type(at.d, value_type(at.d, at.x))
ProofIrrel ==
  /\ pc \in {"irrelevant", "cold"} /\ UNCHANGED <<chosen, decl, todo, verdicts, caches>>
  /\ IF AreProofs THEN conv_types(at.d, value_type(at.d, at.x), value_type(at.d, at.y), Frame("answer"))
     ELSE /\ pc' = (IF pc = "irrelevant" THEN "unfold" ELSE "eta") /\ at' = [at EXCEPT !.i = 1]
          /\ UNCHANGED <<res, stack, probe>>
RetAnswer == Returns("answer") /\ UNCHANGED <<pc, at, res, caches, probe>>

\* The order in which sides are unfolded: recursors first, then the definition that stands
\* higher (hint_cmp), both when neither does.
IsRec(v) == IsHead(v, "rec")
IsDef(v) == IsHead(v, "def")
HintRank(c) == CASE Consts[c].hint = "opaque" -> 0
                 [] Consts[c].hint = "regular" -> Consts[c].height + 1
                 [] OTHER -> 1000000
DefTries(x, y) ==
  CASE ~IsDef(x) /\ ~IsDef(y) -> <<>>
    [] IsDef(x) /\ ~IsDef(y) -> <<{"x"}>>
    [] ~IsDef(x) /\ IsDef(y) -> <<{"y"}>>
    [] IsDef(x) /\ IsDef(y) -> IF x.a = y.a \/ HintRank(x.a) = HintRank(y.a) THEN <<{"x", "y"}>>
                               ELSE IF HintRank(x.a) > HintRank(y.a) THEN <<{"x"}, {"y"}>> ELSE <<{"y"}, {"x"}>>
Tries(x, y) == (IF IsRec(x) THEN <<{"x"}>> ELSE <<>>) \o (IF IsRec(y) THEN <<{"y"}>> ELSE <<>>) \o DefTries(x, y)
Order == Tries(at.x, at.y)
Side(s) == IF s = "x" THEN at.x ELSE at.y
Unfolding == Same("unfold") /\ at.i <= Len(Order)
Unknown == {s \in Order[at.i] : Side(s) \notin DOMAIN red}
NextSide == IF "x" \in Unknown THEN "x" ELSE "y"
Moves == {s \in Order[at.i] : red[Side(s)] # NoStep}

\* step: remembered in the value, whichever way it goes.
Memo(v, r) == red' = [w \in DOMAIN red \cup {v} |-> IF w = v THEN r ELSE red[w]]
StepValue ==
  /\ Unfolding /\ Unknown # {}
  /\ \E v \in {Side(NextSide)} :
       IF asks_k(at.d, v)
         THEN /\ conv_types(at.d, k_type(at.d, v), value_type(at.d, k_ctor(RecOf(v), k_type(at.d, v))), [k |-> "k", at |-> at, v |-> v])
              /\ UNCHANGED caches
         ELSE Memo(v, step(at.d, v)) /\ UNCHANGED <<control, pos, neg, probe>>
RetK ==
  /\ Returns("k") /\ pc' = "unfold" /\ Resumes
  /\ Memo(Caller.v, iota_with(Caller.at.d, Caller.v, k_major(Caller.at.d, Caller.v, res)))
  /\ UNCHANGED <<pos, neg, probe>>

Moved(s) == IF s \in Moves THEN red[Side(s)] ELSE Side(s)
Unfold ==
  /\ Unfolding /\ Unknown = {} /\ Moves # {}
  /\ Call(at.d, IF "x" \in Moves THEN Moved("x") ELSE at.x, IF "y" \in Moves THEN Moved("y") ELSE at.y)
  /\ UNCHANGED <<stack, caches, probe>>
NextTry ==
  /\ Unfolding /\ Unknown = {} /\ Moves = {}
  /\ at' = [at EXCEPT !.i = @ + 1] /\ UNCHANGED <<pc, res, stack, caches, probe>>
\* Nothing unfolds: one head may still be applied to equal arguments.
StuckSame ==
  /\ Same("unfold") /\ at.i > Len(Order) /\ same_head(at.x, at.y)
  /\ Push(Frame("irreducible"))
  /\ pc' = "spine" /\ at' = [at EXCEPT !.i = 1, !.skip = skip_mask(at.x)] /\ UNCHANGED <<res, caches, probe>>
StuckOther ==
  /\ Same("unfold") /\ at.i > Len(Order) /\ ~same_head(at.x, at.y)
  /\ Goto("cold") /\ UNCHANGED <<stack, caches, probe>>
-------------------------------------------------------------------------------
(* conv_cold: eta for functions, for structures, and types with one value.    *)

EtaSide == IF at.x.k = "lam" THEN <<at.x, at.y>> ELSE <<at.y, at.x>>
OneLam == (at.x.k = "lam") # (at.y.k = "lam")
EtaFun ==
  /\ Same("eta") /\ OneLam
  /\ IF EtaSide[2].k = "neu"
       THEN \E v \in {fresh(at.d, lam_dom(EtaSide[1]))} : Call(at.d + 1, apply(EtaSide[1], v), apply(EtaSide[2], v))
       ELSE Return(FALSE)
  /\ UNCHANGED <<stack, caches, probe>>
EtaNext ==
  /\ Same("eta") /\ ~OneLam
  /\ Goto("struct") /\ UNCHANGED <<stack, caches, probe>>

\* eta_struct, with either side for the constructor: at.i is 1 or 2.
Other(a) == IF a.i = 1 THEN a.x ELSE a.y
Made(a) == IF a.i = 1 THEN a.y ELSE a.x
StructApplies == Made(at).k = "neu" /\ MadeCtor(Made(at)) /\ Other(at).k \notin {"sort", "pi"}
EtaStruct ==
  /\ Same("struct") /\ at.i <= 2 /\ StructApplies
  /\ conv_types(at.d, value_type(at.d, Other(at)), value_type(at.d, Made(at)), [k |-> "field", at |-> at, n |-> 0])
  /\ UNCHANGED caches
NoStruct ==
  /\ Same("struct") /\ (at.i > 2 \/ ~StructApplies)
  /\ (IF at.i < 2 THEN at' = [at EXCEPT !.i = 2] /\ UNCHANGED <<pc, res>> ELSE Goto("unit"))
  /\ UNCHANGED <<stack, caches, probe>>
\* The types agree, or field n does: the next field; else the other side.
FieldElim(a, n) ==
  LET c == Consts[Made(a).a] IN <<do_proj(Other(a), c.induct, n), Made(a).sp[c.nparams + n + 1].v>>
RetField ==
  /\ pc = "ret" /\ stack # <<>> /\ Caller.k = "field" /\ UNCHANGED <<chosen, decl, todo, verdicts>>
  /\ LET a == Caller.at
         n == Caller.n
     IN CASE ~res -> /\ pc' = "struct" /\ at' = [a EXCEPT !.i = @ + 1] /\ UNCHANGED res /\ stack' = Tail(stack)
          [] res /\ n < Consts[Made(a).a].nfields ->
               /\ Call(a.d, FieldElim(a, n)[1], FieldElim(a, n)[2])
               /\ stack' = <<[k |-> "field", at |-> a, n |-> n + 1]>> \o Tail(stack)
          [] OTHER -> stack' = Tail(stack) /\ UNCHANGED <<pc, at, res>>
  /\ UNCHANGED <<caches, probe>>

IsUnit == at.x.k \notin {"sort", "pi"} /\ at.y.k \notin {"sort", "pi"} /\ has_unit_type(at.d, at.x)
UnitLike ==
  /\ Same("unit") /\ UNCHANGED caches
  /\ IF IsUnit THEN conv_types(at.d, whnf(at.d, value_type(at.d, at.x)), value_type(at.d, at.y), Frame("answer"))
     ELSE Return(FALSE) /\ UNCHANGED <<stack, probe>>
-------------------------------------------------------------------------------
(* Declarations.                                                             *)

Checking == decl > 0 /\ Len(verdicts) < decl
Begin ==
  /\ pc = "idle" /\ ~Checking /\ decl < Len(script)
  /\ decl' = decl + 1 /\ todo' = check_const(script[decl + 1])
  /\ probing' = FALSE /\ exhausted' = FALSE
  /\ UNCHANGED <<chosen, control, caches, probe_left, verdicts>>
End(v) ==
  /\ verdicts' = Append(verdicts, v) /\ todo' = <<>> /\ pc' = "idle" /\ at' = Idle /\ stack' = <<>>
  /\ probing' = FALSE /\ exhausted' = FALSE
  /\ UNCHANGED <<chosen, decl, res, caches, probe_left>>
Ask ==
  /\ pc = "idle" /\ Checking /\ todo # <<>> /\ todo[1].ask
  /\ Call(todo[1].d, todo[1].x, todo[1].y) /\ UNCHANGED <<chosen, decl, todo, verdicts, stack, caches, probe>>
AskFact ==
  /\ pc = "idle" /\ Checking /\ todo # <<>> /\ ~todo[1].ask
  /\ IF todo[1].ok THEN todo' = Tail(todo) /\ UNCHANGED <<chosen, decl, control, caches, probe, verdicts>> ELSE End("rejected")
Answered ==
  /\ pc = "ret" /\ stack = <<>>
  /\ IF res THEN /\ todo' = Tail(todo) /\ pc' = "idle" /\ at' = Idle
                 /\ UNCHANGED <<chosen, decl, res, stack, caches, probe, verdicts>>
            ELSE End("rejected")
Accepts == pc = "idle" /\ Checking /\ todo = <<>> /\ End("accepted")
\* The step budget, the memory budget or the depth runs out.
Fail ==
  /\ pc \in {"conv", "unfold"} /\ Cardinality({i \in DOMAIN verdicts : verdicts[i] = "given up"}) < MaxFailures
  /\ End("given up")

Compares ==
  \/ ConvSame \/ ConvExhausted \/ ConvKnown \/ ConvMiss \/ NcDecided \/ NcBinder \/ NcSucc \/ NcSpine \/ NcOther
  \/ SpineDone \/ SpineProjection \/ SpineSkip \/ SpineArg
Reduces ==
  \/ Probes \/ NoProbe \/ ProofIrrel \/ StepValue \/ Unfold \/ NextTry \/ StuckSame \/ StuckOther
  \/ EtaFun \/ EtaNext \/ EtaStruct \/ NoStruct \/ UnitLike
Unwinds ==
  \/ RetMemo \/ RetTypes \/ RetIrreducible \/ RetBinder \/ RetSpine \/ RetProbe \/ RetNested \/ RetAnswer \/ RetK \/ RetField
\* The session's declarations are all checked.
Over == pc = "idle" /\ ~Checking /\ decl = Len(script) /\ UNCHANGED vars

Checks == Begin \/ Ask \/ AskFact \/ Answered \/ Accepts
Next == Compares \/ Reduces \/ Unwinds \/ Checks \/ Fail \/ Over
Spec == Init /\ [][Next]_vars
-------------------------------------------------------------------------------
(* Properties.                                                               *)

\* A declaration whose check ends gets the verdict it deserves: running out of a probe, an answer
\* remembered from another declaration, a lazily chosen unfolding or a proof not compared change
\* nothing (Engine::conv, check_const).
VerdictRight ==
  \A i \in DOMAIN verdicts : verdicts[i] \in {script[i].verdict, "given up"}

Settled == pc = "idle" /\ ~Checking
AgreesWith(pair, equal) == \A x \in pair : \A y \in pair \ {x} : def_eq(SigBase, x, y) = equal

\* What c_pos and c_neg hold at the end of a declaration, given up or not, is what reducing both
\* sides all the way says: a failure for want of probe steps is not among it.
CachesSound ==
  Settled => (\A p \in pos : AgreesWith(p, TRUE)) /\ (\A p \in neg : AgreesWith(p, FALSE))

\* The step remembered in a value is the step it takes, also when it was first tried inside a
\* probe and asked for a comparison of types (to_ctor_when_k under ProbeSave).
MemoSound ==
  Settled => \A v \in DOMAIN red : red[v] = step(SigBase, v)

\* The probe flags belong to the innermost caller that sets them: a probe is on exactly when one
\* was begun since the last comparison of types, and has run out only while it is on.
ProbeScoped ==
  /\ probing <=> \E i \in DOMAIN stack : stack[i].k = "probe" /\ \A j \in 1..i : stack[j].k # "types"
  /\ exhausted => probing

\* No compared value holds the placeholder for an argument a type does not mention, nor a variable
\* that was pruned from its environment (fv_mask, key_env, tele_apply).
NothingMissing == pc = "conv" => clean(at.x) /\ clean(at.y)
===============================================================================
