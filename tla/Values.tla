--------------------------------- MODULE Values ---------------------------------
(***************************************************************************)
(* The values of the checking engine (src/src/nbe.cpp): evaluation, weak-  *)
(* head reduction, the types of values, and type inference.  The engine    *)
(* shares equal values (neutral applications and pruned environments are   *)
(* hash-consed); here equality of values stands for equality of pointers.  *)
(*                                                                         *)
(* Left out: universe polymorphism (a Sort has a number for its level),    *)
(* strings, quotients, the free variables of the term-level interface, and *)
(* the memoisation of what is computed here, which module Conv has where   *)
(* it depends on a conversion.                                             *)
(***************************************************************************)
EXTENDS Binding, ValueForms

LitNat(n) == [k |-> "lit", n |-> n]
Let(t, v, b) == [k |-> "let", t |-> t, v |-> v, b |-> b]
Proj(s, i, e) == [k |-> "proj", s |-> s, i |-> i, e |-> e]

\* The variables a term mentions, exactly.
Lower(m) == {i - 1 : i \in m \ {0}}
\* Slip: a variable stands for the same one under a binder.
RECURSIVE UnshiftedMask(_)
UnshiftedMask(e) ==
  CASE e.k = "bvar" -> {e.i}
    [] e.k = "app" -> UnshiftedMask(e.f) \cup UnshiftedMask(e.x)
    [] e.k \in {"lam", "pi"} -> UnshiftedMask(e.t) \cup UnshiftedMask(e.b)
    [] e.k = "let" -> UnshiftedMask(e.t) \cup UnshiftedMask(e.v) \cup UnshiftedMask(e.b)
    [] e.k = "proj" -> UnshiftedMask(e.e)
    [] OTHER -> {}

RECURSIVE fv_mask(_)
fv_mask(e) ==
  CASE e.k = "bvar" -> {e.i}
    [] e.k = "app" -> fv_mask(e.f) \cup fv_mask(e.x)
    [] e.k \in {"lam", "pi"} -> fv_mask(e.t) \cup Lower(fv_mask(e.b))
    [] e.k = "let" -> fv_mask(e.t) \cup fv_mask(e.v) \cup Lower(fv_mask(e.b))
    [] e.k = "proj" -> fv_mask(e.e)
    [] OTHER -> {}
-------------------------------------------------------------------------------
(* Environments: functions from variables to values.                         *)

key_env(env, e) == [i \in fv_mask(e) \cap DOMAIN env |-> env[i]]
lookup(env, i) == IF i \in DOMAIN env THEN env[i] ELSE Broken
extend(env, v) == [i \in {0} \cup {j + 1 : j \in DOMAIN env} |-> IF i = 0 THEN v ELSE env[i - 1]]

\* v mentions no bound variable.
RECURSIVE closed(_)
closed(v) ==
  CASE v.k = "neu" -> v.hk # "bvar" /\ \A i \in DOMAIN v.sp : v.sp[i].p \/ closed(v.sp[i].v)
    [] v.k = "lam" -> \A i \in DOMAIN v.env : closed(v.env[i])
    [] v.k = "pi" -> closed(v.dom) /\ \A i \in DOMAIN v.env : closed(v.env[i])
    [] OTHER -> TRUE
-------------------------------------------------------------------------------
(* Evaluation.                                                               *)

\* The functions below call one another in every direction: they do so through one recursive
\* operator, defined at the end.
RECURSIVE Engine(_, _)
eval(env, e) == Engine("eval", <<env, e>>)
Whnf(d, v) == Engine("whnf", <<d, v>>)
Step(d, v) == Engine("step", <<d, v>>)
IotaWith(d, v, m) == Engine("iota", <<d, v, m>>)
Apply(f, a) == Engine("apply", <<f, a>>)
apply_elims(f, es) == Engine("apply_elims", <<f, es>>)
InstPi(d, p, a) == Engine("inst_pi", <<d, p, a>>)
tele_apply(d, t, a) == Engine("tele_apply", <<d, t, a>>)
proj_type(d, v, t, s, i) == Engine("proj_type", <<d, v, t, s, i>>)
ValueType(d, v) == Engine("value_type", <<d, v>>)
infer(d, env, e) == Engine("infer", <<d, env, e>>)
IsPropType(d, t) == Engine("is_prop_type", <<d, t>>)
level_of_type(d, t) == Engine("level_of_type", <<d, t>>)
DefEq(d, x, y) == Engine("DefEq", <<d, x, y>>)
Asked(d, env, e) == Engine("Asked", <<d, env, e>>)
Telescope(k, t) == Engine("Telescope", <<k, t>>)

\* The operations on numerals; OpOf is "none" for the other constants.
OpOf(c) == IF Consts[c].kind = "def" THEN Consts[c].op ELSE "none"
nat_binop(op, m, n) ==
  CASE op = "add" -> VNat(m + n)
    [] op = "sub" -> VNat(IF m >= n THEN m - n ELSE 0)
    [] op = "beq" -> const_head(IF m = n THEN "true" ELSE "false")

nat_to_ctor(v) ==
  IF v.n = 0 THEN const_head("zero") ELSE neu_app(const_head("succ"), Arg(VNat(v.n - 1)))

ComputesNat(f, a) ==
  f.hk = "def" /\ a.k = "nat" /\ OpOf(f.a) # "none" /\ Len(f.sp) = 1 /\ ~HasProj(f.sp) /\ f.sp[1].v.k = "nat"
ApplyOne(f, a) ==
  CASE f.k = "lam" -> eval(extend(f.env, a), f.body)
    [] f.k = "neu" ->
         (CASE f = const_head("succ") /\ a.k = "nat" -> VNat(a.n + 1)
            [] ComputesNat(f, a) -> nat_binop(OpOf(f.a), f.sp[1].v.n, a.n)
            [] OTHER -> neu_app(f, Arg(a)))
    [] OTHER -> Broken

Eliminate(f, e) == IF e.p THEN do_proj(f, e.s, e.i) ELSE Apply(f, e.v)
EliminateAll(f, es) == IF es = <<>> THEN f ELSE apply_elims(Eliminate(f, Head(es)), Tail(es))
apply_many(f, args) == apply_elims(f, [i \in DOMAIN args |-> Arg(args[i])])

EvalTerm(env, e) ==
  CASE e.k = "bvar" -> lookup(env, e.i)
    [] e.k = "const" -> const_head(e.c)
    [] e.k = "sort" -> VSort(e.u)
    [] e.k = "lit" -> VNat(e.n)
    [] e.k = "app" -> Apply(eval(env, e.f), eval(env, e.x))
    [] e.k = "lam" -> VLam(e.t, key_env(env, e), e.b)
    [] e.k = "pi" -> VPi(eval(env, e.t), key_env(env, e), e.b, FALSE)
    [] e.k = "let" -> eval(extend(env, eval(env, e.v)), e.b)
    [] e.k = "proj" -> do_proj(eval(env, e.e), e.s, e.i)

Root == <<>>
LamDom(v) == eval(v.env, v.dom)
-------------------------------------------------------------------------------
(* Weak-head reduction.                                                      *)

\* The numeral v reduces to: one number, or none.
RECURSIVE NumeralOf(_, _, _)
NumeralOf(d, w, succs) ==
  CASE w.k = "nat" -> {w.n + succs}
    [] IsCtor(w, "zero") /\ w.sp = <<>> -> {succs}
    [] IsCtor(w, "succ") /\ Len(w.sp) = 1 /\ ~HasProj(w.sp) -> NumeralOf(d, Whnf(d, w.sp[1].v), succs + 1)
    [] OTHER -> {}
as_nat(d, v) == NumeralOf(d, Whnf(d, v), 0)

\* A definition: computed when both operands are closed numerals, else its value is applied.
TriesNat(v) == OpOf(v.a) # "none" /\ Len(v.sp) = 2 /\ ~HasProj(v.sp) /\ closed(v.sp[1].v) /\ closed(v.sp[2].v)
Operands(d, v) == {<<m, n>> : m \in as_nat(d, v.sp[1].v), n \in as_nat(d, v.sp[2].v)}
Results(d, v) == IF TriesNat(v) THEN {nat_binop(OpOf(v.a), p[1], p[2]) : p \in Operands(d, v)} ELSE {}
Unfolded(v, r) == IF r = {} THEN apply_elims(eval(Root, Consts[v.a].value), v.sp) ELSE CHOOSE w \in r : TRUE
unfold_nc(d, v) == Unfolded(v, Results(d, v))

\* The argument a recursor looks at.
LeadingArgs(sp) == IF HasProj(sp) THEN (CHOOSE i \in DOMAIN sp : sp[i].p /\ \A j \in 1..i - 1 : ~sp[j].p) - 1 ELSE Len(sp)
HasMajor(v) == LeadingArgs(v.sp) > RecOf(v).major_idx
Major(v) == v.sp[RecOf(v).major_idx + 1].v

\* The constructor the type t of a K-like recursor's major premise forces, if t fits.
KFits(rec, t) == IsHead(t, "induct") /\ t.a = rec.induct /\ ~HasProj(t.sp) /\ Len(t.sp) >= rec.nparams
KCtor(rec, t) == apply_many(const_head(Consts[t.a].ctors[1]), Args(SubSeq(t.sp, 1, rec.nparams)))
KType(d, v) == Whnf(d, ValueType(d, Major(v)))
\* Whether the step of v asks if two types are equal (to_ctor_when_k).
AsksK(d, v) == IsHead(v, "rec") /\ HasMajor(v) /\ RecOf(v).k /\ KFits(RecOf(v), KType(d, v))

\* A structure's major premise, applied constructor of its projections (not in Prop).
OfStruct(s, t) == IsHead(t, "induct") /\ t.a = s /\ ~HasProj(t.sp)
OfProjections(s, t, m) ==
  LET c == Consts[s].ctors[1]
  IN apply_many(const_head(c), Args(SubSeq(t.sp, 1, Consts[c].nparams))
                               \o [i \in 1..Consts[c].nfields |-> do_proj(m, s, i - 1)])
FromType(d, s, t, m) == IF OfStruct(s, t) /\ ~IsPropType(d, t) THEN OfProjections(s, t, m) ELSE m
to_ctor_when_struct(d, s, m) ==
  IF ~is_structure_like(s) \/ IsHead(m, "ctor") THEN m ELSE FromType(d, s, Whnf(d, ValueType(d, m)), m)

\* The rule for major premise m in weak-head normal form.
ByRule(v, m) ==
  LET rec == RecOf(v)
      r == rec.rules[m.a]
      fields == SubSeq(m.sp, Len(m.sp) - r.nfields + 1, Len(m.sp))
  IN apply_elims(apply_many(eval(Root, r.rhs), Args(SubSeq(v.sp, 1, rec.nbefore) \o fields)),
                 SubSeq(v.sp, rec.major_idx + 2, Len(v.sp)))
FitsRule(v, m) == IsHead(m, "ctor") /\ m.a \in DOMAIN RecOf(v).rules /\ ~HasProj(m.sp) /\ Len(m.sp) >= RecOf(v).rules[m.a].nfields
Rewrite(v, m) == IF FitsRule(v, m) THEN ByRule(v, m) ELSE NoStep
AsCtor(d, v, m) == IF m.k = "nat" THEN nat_to_ctor(m) ELSE to_ctor_when_struct(d, RecOf(v).induct, m)
IotaFrom(d, v, m) == Rewrite(v, AsCtor(d, v, Whnf(d, m)))
\* The answer of to_ctor_when_k's comparison is the reference's here, conversion's in Conv.
KAgrees(d, v, t) == DefEq(d, t, ValueType(d, KCtor(RecOf(v), t)))
KMajor(d, v, fits) == IF fits THEN KCtor(RecOf(v), KType(d, v)) ELSE Major(v)
iota_nc(d, v) ==
  IF ~HasMajor(v) THEN NoStep ELSE IotaWith(d, v, KMajor(d, v, AsksK(d, v) /\ KAgrees(d, v, KType(d, v))))

StepOf(d, v) == IF v.hk = "def" THEN unfold_nc(d, v) ELSE iota_nc(d, v)
WhnfFrom(d, v, r) == IF r = NoStep THEN v ELSE Whnf(d, r)
WhnfValue(d, v) == IF reducible(v) THEN WhnfFrom(d, v, Step(d, v)) ELSE v
-------------------------------------------------------------------------------
(* The types of values.                                                      *)

ConstType(c) == eval(Root, Consts[c].type)

Instantiate(d, p, a) == IF p.pinf THEN infer(d, extend(p.env, a), p.body) ELSE eval(extend(p.env, a), p.body)

\* One argument of a telescope: a placeholder stands for one the rest does not mention.
TeleStep(d, p, a) ==
  IF p.k # "pi" THEN Broken ELSE InstPi(d, p, IF p.pinf \/ 0 \in fv_mask(p.body) THEN a ELSE Unused)

RECURSIVE InstAll(_, _, _)
InstAll(d, t, vs) == IF vs = <<>> THEN t ELSE InstAll(d, InstPi(d, Whnf(d, t), Head(vs)), Tail(vs))
Domain(p) == IF p.k = "pi" THEN p.dom ELSE Broken
FieldType(d, v, st, s, i) ==
  IF ~IsHead(st, "induct") \/ st.a # s THEN Broken
  ELSE Domain(Whnf(d, InstAll(d, ConstType(Consts[s].ctors[1]),
         Args(SubSeq(st.sp, 1, Consts[s].nparams)) \o [j \in 1..i |-> do_proj(v, s, j - 1)])))

\* The type of a head with the eliminations up to n.
RECURSIVE SpineType(_, _, _)
SpineType(d, v, n) ==
  CASE n = 0 -> IF v.hk = "bvar" THEN v.bty ELSE ConstType(v.a)
    [] n > 0 /\ v.sp[n].p -> proj_type(d, [v EXCEPT !.sp = SubSeq(@, 1, n - 1)], SpineType(d, v, n - 1), v.sp[n].s, v.sp[n].i)
    [] OTHER -> tele_apply(d, SpineType(d, v, n - 1), v.sp[n].v)

TypeOf(d, v) ==
  CASE v.k = "sort" -> VSort(v.u + 1)
    [] v.k = "nat" -> const_head("Nat")
    [] v.k = "pi" -> VSort(level_of_type(d, v))
    [] v.k = "lam" -> VPi(LamDom(v), v.env, v.body, TRUE)
    [] v.k = "neu" -> SpineType(d, v, Len(v.sp))
    [] OTHER -> Broken

\* The level of the sort of T.  (An ill-formed T fails in the code; here it is in no sort.)
NoLevel == 1000
SortLevel(t) == IF t.k = "sort" THEN t.u ELSE NoLevel
OpenBody(d, p) == InstPi(d + 1, p, fresh(d, p.dom))
LevelOfWhnf(d, w) ==
  CASE w.k = "sort" -> w.u + 1
    [] w.k = "pi" -> imax(level_of_type(d, w.dom), level_of_type(d + 1, OpenBody(d, w)))
    [] w.k = "neu" -> SortLevel(Whnf(d, ValueType(d, w)))
    [] OTHER -> NoLevel

PropWhnf(d, w) ==
  CASE w.k = "pi" -> IsPropType(d + 1, OpenBody(d, w))
    [] w.k = "neu" -> SortLevel(Whnf(d, ValueType(d, w))) = 0
    [] OTHER -> FALSE

\* Inference without checking: e at depth d in env.
InferTerm(d, env, e) ==
  CASE e.k = "bvar" -> ValueType(d, lookup(env, e.i))
    [] e.k = "const" -> ConstType(e.c)
    [] e.k = "sort" -> VSort(e.u + 1)
    [] e.k = "lit" -> const_head("Nat")
    [] e.k = "app" -> tele_apply(d, infer(d, env, e.f), eval(env, e.x))
    [] e.k = "lam" -> VPi(eval(env, e.t), key_env(env, e), e.b, TRUE)
    [] e.k = "pi" -> VSort(imax(SortLevel(Whnf(d, infer(d, env, e.t))),
                                SortLevel(Whnf(d + 1, infer(d + 1, extend(env, fresh(d, eval(env, e.t))), e.b)))))
    [] e.k = "let" -> infer(d, extend(env, eval(env, e.v)), e.b)
    [] e.k = "proj" -> proj_type(d, eval(env, e.e), infer(d, env, e.e), e.s, e.i)

\* The levels of a constant's domains, and of what is left, at fresh variables (sig_of).
LevelsFrom(k, w) ==
  IF w.k = "pi" THEN <<level_of_type(SigBase + k, w.dom)>> \o Telescope(k + 1, OpenBody(SigBase + k, w))
  ELSE <<level_of_type(SigBase + k, w)>>

\* What checking e asks on the way, in order: conversions of types, and facts that need none.
Equal(d, x, y) == <<[ask |-> TRUE, d |-> d, x |-> x, y |-> y]>>
Must(b) == <<[ask |-> FALSE, ok |-> b]>>
MustSort(d, env, e) == Asked(d, env, e) \o Must(Whnf(d, infer(d, env, e)).k = "sort")
AskedArg(d, p, env, x) == Must(p.k = "pi") \o Asked(d, env, x) \o Equal(d, Domain(p), infer(d, env, x))
AskedBody(d, env, t, b) == Asked(d + 1, extend(env, fresh(d, eval(env, t))), b)
AskedBy(d, env, e) ==
  CASE e.k = "app" -> Asked(d, env, e.f) \o AskedArg(d, Whnf(d, infer(d, env, e.f)), env, e.x)
    [] e.k = "lam" -> MustSort(d, env, e.t) \o AskedBody(d, env, e.t, e.b)
    [] e.k = "pi" -> MustSort(d, env, e.t) \o AskedBody(d, env, e.t, e.b)
                     \o Must(Whnf(d + 1, infer(d + 1, extend(env, fresh(d, eval(env, e.t))), e.b)).k = "sort")
    [] e.k = "let" -> MustSort(d, env, e.t) \o Asked(d, env, e.v) \o Equal(d, eval(env, e.t), infer(d, env, e.v))
                      \o Asked(d, extend(env, eval(env, e.v)), e.b)
    [] e.k = "proj" -> Asked(d, env, e.e)
    [] OTHER -> <<>>
CheckConst(c) ==
  MustSort(0, Root, c.type) \o Asked(0, Root, c.value) \o Equal(0, infer(0, Root, c.value), eval(Root, c.type))
-------------------------------------------------------------------------------
(* The reference: equality of what both sides reduce to, all the way.        *)

Numeric(v) == IF v.k = "nat" THEN nat_to_ctor(v) ELSE v
IsProof(d, v) == v.k \in {"lam", "neu"} /\ IsPropType(d, ValueType(d, v))
EqualElim(d, e, f) == IF e.p \/ f.p THEN e = f ELSE DefEq(d, e.v, f.v)
EqualSpines(d, x, y) ==
  SameHead(x, y) /\ Len(x.sp) = Len(y.sp) /\ \A i \in DOMAIN x.sp : EqualElim(d, x.sp[i], y.sp[i])

FieldsOf(d, x, y) ==
  /\ x.k = "neu" /\ y.k = "neu" /\ MadeCtor(y) /\ DefEq(d, ValueType(d, x), ValueType(d, y))
  /\ \A i \in 1..Consts[y.a].nfields :
       DefEq(d, do_proj(x, Consts[y.a].induct, i - 1), y.sp[Consts[y.a].nparams + i].v)

\* t is a type with one constructor and no field.
IsUnitType(t) ==
  /\ IsHead(t, "induct") /\ is_structure_like(t.a) /\ Consts[Consts[t.a].ctors[1]].nfields = 0
HasUnitType(d, x) == x.k \notin {"sort", "pi"} /\ IsUnitType(Whnf(d, ValueType(d, x)))

AtVar(d, f, y, v) == DefEq(d + 1, Apply(f, v), Apply(y, v))
EqualFuns(d, x, y) ==
  CASE y.k = "lam" /\ x.k = "lam" -> DefEq(d, LamDom(x), LamDom(y)) /\ AtVar(d, x, y, fresh(d, LamDom(x)))
    [] y.k = "neu" -> AtVar(d, x, y, fresh(d, LamDom(x)))
    [] OTHER -> FALSE
EqualPis(d, x, y) ==
  x.k = y.k /\ DefEq(d, x.dom, y.dom) /\ DefEq(d + 1, OpenBody(d, x), InstPi(d + 1, y, fresh(d, x.dom)))
EqualWhnf(d, x, y) ==
  \/ x = y
  \/ /\ "sort" \notin {x.k, y.k}
     /\ IF x.k = "lam" THEN EqualFuns(d, x, y)
        ELSE IF y.k = "lam" THEN EqualFuns(d, y, x)
        ELSE IF "pi" \in {x.k, y.k} THEN EqualPis(d, x, y)
        ELSE \/ EqualSpines(d, x, y) \/ \E p \in {<<x, y>>, <<y, x>>} : FieldsOf(d, p[1], p[2])
             \/ HasUnitType(d, x) /\ DefEq(d, ValueType(d, x), ValueType(d, y))
EqualValues(d, x, y) ==
  \/ x = y
  \/ IF IsProof(d, x) /\ y.k \in {"lam", "neu"}
       THEN DefEq(d, ValueType(d, x), ValueType(d, y))
       ELSE EqualWhnf(d, Numeric(Whnf(d, x)), Numeric(Whnf(d, y)))
\* v holds neither the placeholder of an argument that is not looked at nor a failure.
RECURSIVE Clean(_)
Clean(v) ==
  CASE v.k = "neu" -> \A i \in DOMAIN v.sp : v.sp[i].p \/ Clean(v.sp[i].v)
    [] v.k = "lam" -> \A i \in DOMAIN v.env : Clean(v.env[i])
    [] v.k = "pi" -> Clean(v.dom) /\ \A i \in DOMAIN v.env : Clean(v.env[i])
    [] OTHER -> v \notin {Unused, Broken}
-------------------------------------------------------------------------------
Engine(f, a) ==
  CASE f = "eval" -> EvalTerm(a[1], a[2])
    [] f = "whnf" -> WhnfValue(a[1], a[2])
    [] f = "step" -> StepOf(a[1], a[2])
    [] f = "iota" -> IotaFrom(a[1], a[2], a[3])
    [] f = "apply" -> ApplyOne(a[1], a[2])
    [] f = "apply_elims" -> EliminateAll(a[1], a[2])
    [] f = "inst_pi" -> Instantiate(a[1], a[2], a[3])
    [] f = "tele_apply" -> TeleStep(a[1], Whnf(a[1], a[2]), a[3])
    [] f = "proj_type" -> FieldType(a[1], a[2], Whnf(a[1], a[3]), a[4], a[5])
    [] f = "value_type" -> TypeOf(a[1], a[2])
    [] f = "infer" -> InferTerm(a[1], a[2], a[3])
    [] f = "is_prop_type" -> PropWhnf(a[1], Whnf(a[1], a[2]))
    [] f = "level_of_type" -> LevelOfWhnf(a[1], Whnf(a[1], a[2]))
    [] f = "Asked" -> AskedBy(a[1], a[2], a[3])
    [] f = "Telescope" -> LevelsFrom(a[1], Whnf(SigBase + a[1], a[2]))
    [] f = "DefEq" -> EqualValues(a[1], a[2], a[3])
===============================================================================
