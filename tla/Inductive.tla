-------------------------------- MODULE Inductive --------------------------------
(***************************************************************************)
(* The re-check of an exported inductive block (src/src/inductive.cpp):    *)
(* the types are checked, nested occurrences are replaced by auxiliary     *)
(* types, the constructors are checked, and the recursors are derived,     *)
(* restored to the nested form and compared with the exported ones.  A     *)
(* step is a stage of add_inductive_decl, or one round of its loops over   *)
(* constructors and recursors.                                             *)
(*                                                                         *)
(* A name is its components and the number of the auxiliary it belongs to  *)
(* (`_nested.List_2.cons` is List.cons with aux = 2; `T.rec_1` is T.rec    *)
(* with aux = 1); a free variable is named by its role.  Levels are        *)
(* numbers, and ElimParam stands for the universe parameter of recursors.  *)
(*                                                                         *)
(* Left out: universe parameters, names and numbers that are compared and  *)
(* used for nothing else (lparams, numNested, isRec and isReflexive, the   *)
(* reserved prefix), and reduction beyond beta.                            *)
(***************************************************************************)
EXTENDS Binding

CONSTANTS Declared,   \* the environment: a function from names to constants
          Blocks      \* the exported blocks

VARIABLES mark,       \* the environment before the block
          env,        \* the environment
          decl,       \* the block: what add_inductive_decl is called with
          phase,      \* the stage, or the verdict
          at,         \* the round of its loops: <<type, constructor>>, or <<recursor, 1>>
          params,     \* the parameters, as free variables
          types,      \* the types, which auxiliary ones join
          aux,        \* nested_aux: what each auxiliary stands for
          next_idx,   \* the number for the next unique name
          nindices, level,   \* of each type; of all of them
          elim,       \* the universe of the recursors' motives
          recs,       \* of each type: indices, major premise, motive and minor premises
          derived     \* the derived recursors

vars == <<mark, env, decl, phase, at, params, types, aux, next_idx, nindices, level, elim, recs, derived>>

Name(c) == [path |-> c, aux |-> 0]
mk_str(n, s) == [n EXCEPT !.path = Append(@, s)]
\* replace_prefix(c, J, J's auxiliary number i), and append_index_after of a recursor's name
Numbered(n, i) == [n EXCEPT !.aux = i]
ElimParam == 9

Orig == Take(types, Len(decl.types))
IndNames == {types[i].name : i \in DOMAIN types}
MentionsAny(e, names) == ConstsOf(e) \cap names # {}
has_ind_occ(e) == MentionsAny(e, IndNames)
--------------------------------------------------------------------------------
(* What the kernel infers (check_type, ensure_type), with beta for conversion. *)

IllTyped == [k |-> "illtyped"]
imax(u, v) == IF v = 0 THEN 0 ELSE IF u > v THEN u ELSE v
TypeIn(sig, c) == IF c \in DOMAIN sig THEN sig[c].type ELSE IllTyped

RECURSIVE InferAt(_, _, _)
InferAt(e, sig, depth) ==
  CASE e.k = "sort" -> Sort(e.u + 1)
    [] e.k = "const" -> TypeIn(sig, e.c)
    [] e.k = "fvar" -> e.t
    [] e.k = "app" ->
         LET f == head_beta(InferAt(e.f, sig, depth))
         IN IF f.k = "pi" /\ is_def_eq(f.t, InferAt(e.x, sig, depth)) THEN instantiate_rev(f.b, <<e.x>>) ELSE IllTyped
    [] IsBinder(e) ->
         LET x == FVar([role |-> "local", d |-> depth, i |-> 1], e.t)
             dom == head_beta(InferAt(e.t, sig, depth))
             body == InferAt(instantiate_rev(e.b, <<x>>), sig, depth + 1)
             cod == head_beta(body)
         IN IF dom.k # "sort" THEN IllTyped
            ELSE IF e.k = "lam" THEN mk_pi(<<x>>, body)
            ELSE IF cod.k = "sort" THEN Sort(imax(dom.u, cod.u)) ELSE IllTyped
    [] OTHER -> IllTyped
Infer(e, sig) == InferAt(e, sig, 1)
IsType(e, sig) == head_beta(Infer(e, sig)).k = "sort"
LevelOf(e, sig) == head_beta(Infer(e, sig)).u
--------------------------------------------------------------------------------
(* Nested elimination.  st has the fields of NestedElim that grow. *)

over_params(e, As) == instantiate_rev(abstract_fvars(e, As), params)

IsNested(e, st) ==
  LET f == get_app_fn(e)
      args == get_app_args(e)
  IN /\ e.k = "app" /\ f.k = "const" /\ f.c \in DOMAIN env
     /\ env[f.c].kind = "induct" /\ env[f.c].nparams <= Len(args)
     /\ \E i \in 1 .. env[f.c].nparams : MentionsAny(args[i], {st.types[j].name : j \in DOMAIN st.types})

\* An auxiliary type for J, of the block of the nested type, at the parameters args.  The first
\* unique name taken is not used, so that numbers go up by two.
AddAux(st, J, args, As) ==
  LET At(c) == mk_pi(As, instantiate_pis(env[c].type, Len(args), args))
      name == Numbered(J, st.next + 1)
      Ctor(c) == [name |-> Numbered(c, st.next + 1), type |-> At(c)]
      type == [name |-> name, type |-> At(J), ctors |-> [k \in DOMAIN env[J].ctors |-> Ctor(env[J].ctors[k])]]
  IN [st EXCEPT !.next = @ + 2, !.types = Append(@, type),
                !.aux = Append(@, [key |-> over_params(mk_apps(Const(J), args), As), name |-> name])]

\* Slip: the types declared with the nested one get no auxiliaries.
OnlyItself(I) == <<I.name>>
declared_with(I) == I.all

ReplaceNested(e, As, st) ==
  LET I == env[get_app_fn(e).c]
      Ds == Take(get_app_args(e), I.nparams)
      key == over_params(mk_apps(get_app_fn(e), Ds), As)
      known == \E i \in DOMAIN st.aux : st.aux[i].key = key
      st2 == IF known THEN st ELSE FoldLeft(LAMBDA s, J : AddAux(s, J, Ds, As), st, declared_with(I))
      name == (CHOOSE a \in Range(st2.aux) : a.key = key).name
  IN IF \E i \in DOMAIN Ds : has_loose_bvars(Ds[i]) THEN [e |-> e, st |-> [st EXCEPT !.failed = TRUE]]
     ELSE [e |-> mk_apps(mk_apps(Const(name), As), Drop(get_app_args(e), I.nparams)), st |-> st2]

RECURSIVE replace_all_nested(_, _, _)
replace_all_nested(e, As, st) ==
  CASE IsNested(e, st) -> ReplaceNested(e, As, st)
    [] e.k = "app" /\ ~IsNested(e, st) ->
         LET f == replace_all_nested(e.f, As, st)
             x == replace_all_nested(e.x, As, f.st)
         IN [e |-> App(f.e, x.e), st |-> x.st]
    [] IsBinder(e) ->
         LET t == replace_all_nested(e.t, As, st)
             body == replace_all_nested(e.b, As, t.st)
         IN [e |-> [e EXCEPT !.t = t.e, !.b = body.e], st |-> body.st]
    [] OTHER -> [e |-> e, st |-> st]

\* The first nparams binders of e, as variables: the parameters, and those of one constructor.
OpenParams(e) == Take(Open(e, "param", 1).fvars, decl.nparams)
OpenAs(e) == Take(Open(e, "As", 1).fvars, decl.nparams)
--------------------------------------------------------------------------------
(* Restoring: auxiliary types and constructors become nested applications, and *)
(* recursors get their final names.                                            *)

AuxOf(c) == {a \in Range(aux) : a.name = c}
AuxTypeOf(c) == {t \in Range(types) : t \notin Range(Orig) /\ \E k \in DOMAIN t.ctors : t.ctors[k].name = c}
\* `_nested.J_k.rec` -> `Main.rec_k`
RecName(i) ==
  IF i <= Len(decl.types) THEN mk_str(types[i].name, "rec")
  ELSE Numbered(mk_str(types[1].name, "rec"), i - Len(decl.types))
AuxRecs(c) == {i \in DOMAIN types : i > Len(decl.types) /\ c = mk_str(types[i].name, "rec")}
\* Slip: the parameters of what is restored are left as they were recorded.
NestedAsRecorded(name, As) == (CHOOSE a \in AuxOf(name) : TRUE).key
NestedAt(name, As) == instantiate_rev(abstract_fvars((CHOOSE a \in AuxOf(name) : TRUE).key, params), As)

\* As: what the parameters of an auxiliary are, or <<>> for its own arguments (restore_sub).
RECURSIVE RestoreIn(_, _)
RestoreIn(e, As) ==
  LET f == get_app_fn(e)
      args == get_app_args(e)
      own == IF As = <<>> THEN Take(args, decl.nparams) ELSE As
      indices == [i \in DOMAIN Drop(args, decl.nparams) |-> RestoreIn(Drop(args, decl.nparams)[i], <<>>)]
      RealCtor == LET I == NestedAt((CHOOSE t \in AuxTypeOf(f.c) : TRUE).name, own)
                  IN mk_apps(Const(Numbered(f.c, 0)), get_app_args(I))
  IN CASE e.k = "const" /\ AuxRecs(e.c) # {} -> Const(RecName(CHOOSE i \in AuxRecs(e.c) : TRUE))
       [] f.k = "const" /\ AuxOf(f.c) # {} -> mk_apps(NestedAt(f.c, own), indices)
       [] f.k = "const" /\ AuxTypeOf(f.c) # {} -> mk_apps(RealCtor, indices)
       [] e.k = "app" /\ (f.k = "const" => AuxOf(f.c) = {} /\ AuxTypeOf(f.c) = {}) ->
            App(RestoreIn(e.f, As), RestoreIn(e.x, As))
       [] IsBinder(e) -> [e EXCEPT !.t = RestoreIn(@, As), !.b = RestoreIn(@, As)]
       [] OTHER -> e

restore(e) ==
  LET As == OpenAs(e)
      body == RestoreIn(instantiate_pis(e, decl.nparams, As), As)
  IN IF e.k = "pi" THEN mk_pi(As, body) ELSE mk_lambda(As, body)
--------------------------------------------------------------------------------
(* The block checker (AddInductive). *)

ind_const(i) == Const(types[i].name)
IsIndApp(e, i) ==
  LET args == get_app_args(e)
  IN /\ get_app_fn(e) = ind_const(i)
     /\ Len(args) = decl.nparams + nindices[i]
     /\ Take(args, decl.nparams) = params
     /\ \A k \in decl.nparams + 1 .. Len(args) : ~has_ind_occ(args[k])
\* The type that e is an application of: at most one.
valid_ind_app(e) == {i \in DOMAIN types : IsIndApp(e, i)}

\* The type at the end of the binders of t, which are what is applied to get there.
Target(t) == OpenReduced(t, "arg", 1)
\* Slip: a function into the type is no recursive field.
DirectArgType(t) == valid_ind_app(head_beta(t))
rec_arg_type(t) == valid_ind_app(Target(t).body)

\* Slip: only the end of a field's type is looked at.
PositiveTarget(t) ==
  LET o == Target(t) IN ~has_ind_occ(o.body) \/ valid_ind_app(o.body) # {}
check_positivity(t) ==
  LET o == Target(t)
  IN /\ \A j \in DOMAIN o.fvars : ~has_ind_occ(o.fvars[j].t)
     /\ ~has_ind_occ(o.body) \/ valid_ind_app(o.body) # {}

\* The parameters of a type or constructor are those of the first type.
SameParams(t) ==
  /\ num_pis(t) >= decl.nparams
  /\ \A p \in 1 .. decl.nparams : is_def_eq(instantiate_pis(t, p - 1, Take(params, p - 1)).t, params[p].t)

TypeBody(i) == OpenReduced(instantiate_pis(types[i].type, decl.nparams, params), "index", i)
TypeOk(i) == SameParams(types[i].type) /\ TypeBody(i).body.k = "sort"

CtorBody(c) == Open(instantiate_pis(c.type, decl.nparams, params), "field", 1)
FieldOk(x) ==
  /\ IsType(x.t, env)
  /\ level = 0 \/ LevelOf(x.t, env) <= level
  /\ decl.unsafe \/ check_positivity(x.t)
CtorOk(i, k) ==
  LET c == types[i].ctors[k]
  IN /\ \A l \in 1 .. k - 1 : types[i].ctors[l].name # c.name
     /\ IsType(c.type, env)
     /\ SameParams(c.type)
     /\ \A j \in DOMAIN CtorBody(c).fvars : FieldOk(CtorBody(c).fvars[j])
     /\ valid_ind_app(CtorBody(c).body) = {i}
--------------------------------------------------------------------------------
(* The recursors. *)

large_eliminator ==
  \/ level > 0
  \/ /\ Len(types) = 1
     /\ Len(types[1].ctors) <= 1
     /\ \A k \in DOMAIN types[1].ctors :
          LET b == CtorBody(types[1].ctors[k])
          IN \A j \in DOMAIN b.fvars : LevelOf(b.fvars[j].t, env) = 0 \/ b.fvars[j] \in Range(get_app_args(b.body))

k_target == Len(types) = 1 /\ level = 0 /\ Len(types[1].ctors) = 1 /\ num_pis(types[1].ctors[1].type) <= decl.nparams

\* The motive, or the recursor, f of the target's type, at its indices and the value u.
AtTarget(f, target, u) == App(mk_apps(f, Drop(get_app_args(target), decl.nparams)), u)
TargetType(o) == CHOOSE j \in valid_ind_app(o.body) : TRUE
RecFields(b) == SelectSeq(b.fvars, LAMBDA x : rec_arg_type(x.t) # {})
\* mk_rec_infos: what a type's recursor is about, and the minor premise of a constructor.
RecInfo(d, u) ==
  LET indices == TypeBody(d).fvars
      major == FVar([role |-> "major", d |-> d, i |-> 1], mk_apps(mk_apps(ind_const(d), params), indices))
  IN [indices |-> indices, major |-> major, minors |-> <<>>,
      motive |-> FVar([role |-> "motive", d |-> d, i |-> 1], mk_pi(Append(indices, major), Sort(u)))]
Hypothesis(x, n) ==
  LET o == Target(x.t)
  IN FVar([role |-> "ih", d |-> 1, i |-> n],
          mk_pi(o.fvars, AtTarget(recs[TargetType(o)].motive, o.body, mk_apps(x, o.fvars))))
MinorOf(d, k) ==
  LET c == types[d].ctors[k]
      b == CtorBody(c)
      hypotheses == [n \in DOMAIN RecFields(b) |-> Hypothesis(RecFields(b)[n], n)]
      intro == mk_apps(mk_apps(Const(c.name), params), b.fvars)
  IN FVar([role |-> "minor", d |-> d, i |-> k], mk_pi(b.fvars \o hypotheses, AtTarget(recs[d].motive, b.body, intro)))

rec_const(d) == Const(mk_str(types[d].name, "rec"))
minors == FlattenSeq([d \in DOMAIN recs |-> recs[d].minors])
Fixed == params \o [d \in DOMAIN recs |-> recs[d].motive] \o minors
rec_type(d) ==
  mk_pi(Fixed \o Append(recs[d].indices, recs[d].major), App(mk_apps(recs[d].motive, recs[d].indices), recs[d].major))

\* Slip: the call is to the recursor of the first type.
CallsMain(x) ==
  LET o == Target(x.t)
  IN mk_lambda(o.fvars, AtTarget(mk_apps(rec_const(1), Fixed), o.body, mk_apps(x, o.fvars)))
RecCall(x) ==
  LET o == Target(x.t)
  IN mk_lambda(o.fvars, AtTarget(mk_apps(rec_const(TargetType(o)), Fixed), o.body, mk_apps(x, o.fvars)))
RuleFor(d, k) ==
  LET b == CtorBody(types[d].ctors[k])
      calls == [n \in DOMAIN RecFields(b) |-> RecCall(RecFields(b)[n])]
  IN [ctor |-> Numbered(types[d].ctors[k].name, 0), nfields |-> Len(b.fvars),
      rhs |-> restore(mk_lambda(Fixed \o b.fvars, mk_apps(recs[d].minors[k], b.fvars \o calls)))]
\* large: the recursor has the universe parameter.
Recursor(d) ==
  [kind |-> "rec", name |-> RecName(d), large |-> elim = ElimParam, type |-> restore(rec_type(d)),
   nindices |-> nindices[d], nmotives |-> Len(types), nminors |-> Len(minors), k |-> k_target,
   rules |-> [k \in DOMAIN types[d].ctors |-> RuleFor(d, k)]]
--------------------------------------------------------------------------------
(* What the block should be, read off the exported types: nothing here knows of auxiliaries. *)

With(e, new) == [c \in DOMAIN e \cup {x.name : x \in new} |-> IF c \in DOMAIN e THEN e[c] ELSE CHOOSE x \in new : x.name = c]
BlockNames == [i \in DOMAIN decl.types |-> decl.types[i].name]
ExportedCtors == UNION {{<<i, k>> : k \in DOMAIN decl.types[i].ctors} : i \in DOMAIN decl.types}

Own == {decl.types[i].name : i \in DOMAIN decl.types}
Sig == With(mark, {[name |-> decl.types[i].name, type |-> decl.types[i].type] : i \in DOMAIN decl.types})
Parameters == OpenParams(decl.types[1].type)
CtorTypes == {decl.types[p[1]].ctors[p[2]].type : p \in ExportedCtors}
AtParameters(t) == instantiate_pis(t, decl.nparams, Parameters)

\* I Ds of the nested occurrences I Ds is, the outermost ones.
NestedHead(e) == mk_apps(get_app_fn(e), Take(get_app_args(e), mark[get_app_fn(e).c].nparams))
RECURSIVE NestedIn(_)
NestedIn(e) ==
  LET f == get_app_fn(e)
  IN IF /\ e.k = "app" /\ f.k = "const" /\ f.c \in DOMAIN mark /\ mark[f.c].kind = "induct"
        /\ mark[f.c].nparams <= Len(get_app_args(e)) /\ MentionsAny(NestedHead(e), Own)
     THEN {NestedHead(e)}
     ELSE CASE e.k = "app" -> NestedIn(e.f) \cup NestedIn(e.x)
            [] IsBinder(e) -> NestedIn(e.t) \cup NestedIn(e.b)
            [] OTHER -> {}
\* The types declared with it, at the same parameters; and the types of their constructors.
Siblings(F) == {mk_apps(Const(J), get_app_args(F)) : J \in Range(mark[get_app_fn(F).c].all)}
CtorTypesOf(F) == {instantiate_pis(mark[c].type, Len(get_app_args(F)), get_app_args(F)) : c \in Range(mark[get_app_fn(F).c].ctors)}

RECURSIVE FamiliesFrom(_)
FamiliesFrom(S) ==
  LET closed == {F \in S : ~has_loose_bvars(F)}
      more == S \cup UNION {Siblings(F) : F \in closed}
                \cup UNION {UNION {NestedIn(t) : t \in CtorTypesOf(F)} : F \in closed}
  IN IF more = S THEN S ELSE FamiliesFrom(more)
Families == FamiliesFrom(UNION {NestedIn(AtParameters(t)) : t \in CtorTypes})

OwnApp(e) ==
  LET args == get_app_args(e)
  IN /\ get_app_fn(e).k = "const" /\ get_app_fn(e).c \in Own
     /\ Take(args, decl.nparams) = Parameters
     /\ \A k \in decl.nparams + 1 .. Len(args) : ~MentionsAny(args[k], Own)
FamilyApp(e) ==
  LET args == get_app_args(e)
  IN \E F \in Families : LET n == Len(get_app_args(F)) IN
       /\ n <= Len(args) /\ F = mk_apps(get_app_fn(e), Take(args, n))
       /\ \A k \in n + 1 .. Len(args) : ~MentionsAny(args[k], Own)
StrictlyPositive(t) ==
  LET o == Open(Nf(t), "arg", 1)
  IN /\ \A j \in DOMAIN o.fvars : ~MentionsAny(o.fvars[j].t, Own)
     /\ ~MentionsAny(o.body, Own) \/ OwnApp(o.body) \/ FamilyApp(o.body)

FieldsOf(t) == Open(t, "field", 1).fvars
AllFields == UNION {Range(FieldsOf(AtParameters(t))) : t \in CtorTypes}
NestedFields == UNION {UNION {Range(FieldsOf(t)) : t \in CtorTypesOf(F)} : F \in Families}
ResultLevel(t) == OpenReduced(t, "index", 1).body
Universe == ResultLevel(decl.types[1].type)

WellFormed ==
  /\ \A i \in DOMAIN decl.types : LET t == decl.types[i] IN
       /\ t.name \notin DOMAIN mark /\ t.unsafe = decl.unsafe /\ t.nparams = decl.nparams /\ t.all = BlockNames
       /\ IsType(t.type, mark) /\ num_pis(t.type) >= decl.nparams
       /\ \A k \in DOMAIN t.ctors : LET c == t.ctors[k] IN
            /\ c.name \notin DOMAIN mark /\ c.nfields = num_pis(c.type) - decl.nparams
            /\ \A l \in DOMAIN t.ctors : t.ctors[l].name = c.name => l = k
SameTelescopes ==
  \A t \in CtorTypes \cup {decl.types[i].type : i \in DOMAIN decl.types} :
    num_pis(t) >= decl.nparams /\ OpenParams(t) = Parameters
Sound ==
  /\ WellFormed
  /\ Universe.k = "sort"
  /\ \A t \in CtorTypes : IsType(t, Sig)
  /\ SameTelescopes
  /\ \A F \in Families : ~has_loose_bvars(F) /\ ResultLevel(Infer(F, Sig)) = Universe
  /\ \A i \in DOMAIN decl.types : ResultLevel(decl.types[i].type) = Universe
  /\ \A x \in AllFields : Universe.u = 0 \/ LevelOf(x.t, Sig) <= Universe.u
  /\ decl.unsafe \/ \A x \in AllFields \cup NestedFields : StrictlyPositive(x.t)
  /\ \A p \in ExportedCtors :
       LET e == Open(AtParameters(decl.types[p[1]].ctors[p[2]].type), "field", 1).body
       IN OwnApp(e) /\ get_app_fn(e).c = decl.types[p[1]].name

\* An element of a proposition with one constructor is determined by its type.
Subsingleton ==
  /\ Len(decl.types) = 1 /\ Families = {} /\ Cardinality(ExportedCtors) <= 1
  /\ \A t \in CtorTypes :
       LET o == Open(AtParameters(t), "field", 1)
       IN \A x \in Range(o.fvars) : LevelOf(x.t, Sig) = 0 \/ x \in Range(get_app_args(o.body))
EliminatesLarge == Universe.u > 0 \/ Subsingleton
KLike ==
  Universe.u = 0 /\ Len(decl.types) = 1 /\ Families = {} /\ Cardinality(ExportedCtors) = 1
    /\ \A t \in CtorTypes : num_pis(t) <= decl.nparams
LastHasNoRule == Families = {} /\ decl.types[Len(decl.types)].ctors = <<>>
\* The exported recursors are the derived ones (a type without constructors has no rule to differ in).
ExportRight == decl.export = "right" \/ (decl.export = "rule" /\ LastHasNoRule)

\* What is exported: the recursors as they should be, but for decl.export.  The main one has the
\* universe parameter if the block eliminates into every universe (or the other way round).
AsksParam == EliminatesLarge # (decl.export = "elim")
MainMissing == decl.export \in {"missing", "renamed"} /\ Len(types) = 1
Exported ==
  LET n == Len(derived)
      right == [d \in DOMAIN derived |-> [derived[d] EXCEPT !.k = KLike]]
      rules == [k \in DOMAIN derived[n].rules |-> [derived[n].rules[k] EXCEPT !.rhs = Sort(0)]]
  IN CASE decl.export = "type" -> [right EXCEPT ![n].type = Sort(0)]
       [] decl.export = "k" -> [right EXCEPT ![n].k = ~@]
       [] decl.export = "rule" -> [right EXCEPT ![n].rules = rules]
       [] decl.export = "missing" -> Front(right)
       [] decl.export = "renamed" -> [right EXCEPT ![n].name = mk_str(@, "renamed")]
       [] decl.export = "extra" -> Append(right, [right[n] EXCEPT !.name = mk_str(@, "extra")])
       [] OTHER -> right
--------------------------------------------------------------------------------
(* add_inductive_decl *)

Init ==
  /\ decl \in Blocks
  /\ mark = Declared /\ env = Declared
  /\ phase = "header" /\ at = <<1, 1>>
  /\ params = <<>> /\ types = <<>> /\ aux = <<>> /\ next_idx = 1
  /\ nindices = <<>> /\ level = 0 /\ elim = 0 /\ recs = <<>> /\ derived = <<>>

\* A failure anywhere takes back what was added.
Reject ==
  /\ phase' = "rejected" /\ env' = mark
  /\ UNCHANGED <<mark, decl, at, params, types, aux, next_idx, nindices, level, elim, recs, derived>>
Unless(failure, Step) == IF failure THEN Reject ELSE Step

HeaderOk ==
  /\ \A i \in DOMAIN decl.types : decl.types[i].name \notin DOMAIN env /\ decl.types[i].unsafe = decl.unsafe
  /\ \A p \in ExportedCtors : decl.types[p[1]].ctors[p[2]].name \notin DOMAIN env
  /\ \A i \in DOMAIN decl.types : decl.types[i].nparams = decl.nparams /\ IsType(decl.types[i].type, env)
  /\ num_pis(decl.types[1].type) >= decl.nparams
\* The types are checked and the parameters opened from the first.
CheckHeader ==
  /\ phase = "header"
  /\ Unless(~HeaderOk,
       /\ types' = [i \in DOMAIN decl.types |->
                     [name |-> decl.types[i].name, type |-> decl.types[i].type,
                      ctors |-> [k \in DOMAIN decl.types[i].ctors |->
                                  [name |-> decl.types[i].ctors[k].name, type |-> decl.types[i].ctors[k].type]]]]
       /\ params' = OpenParams(decl.types[1].type)
       /\ phase' = "nested"
       /\ UNCHANGED <<mark, env, decl, at, aux, next_idx, nindices, level, elim, recs, derived>>)

Here == types[at[1]].ctors[at[2]]
AtCtor == at[1] \in DOMAIN types /\ at[2] \in DOMAIN types[at[1]].ctors
AtEnd == at[1] > Len(types)
\* The rounds: the constructors of a type, then the next type.
NextRound == at' = [at EXCEPT ![2] = @ + 1]
NextType(stage) ==
  /\ phase = stage /\ ~AtCtor /\ ~AtEnd
  /\ at' = <<at[1] + 1, 1>>
  /\ UNCHANGED <<mark, env, decl, phase, params, types, aux, next_idx, nindices, level, elim, recs, derived>>

\* NestedElim::run, one constructor, auxiliary ones included.
ReplaceInCtor ==
  /\ phase = "nested" /\ AtCtor
  /\ LET As == OpenAs(Here.type)
         r == replace_all_nested(instantiate_pis(Here.type, decl.nparams, As), As,
                                 [types |-> types, aux |-> aux, next |-> next_idx, failed |-> FALSE])
     IN Unless(num_pis(Here.type) < decl.nparams \/ r.st.failed,
          /\ types' = [r.st.types EXCEPT ![at[1]].ctors[at[2]].type = mk_pi(As, r.e)]
          /\ aux' = r.st.aux /\ next_idx' = r.st.next
          /\ NextRound
          /\ UNCHANGED <<mark, env, decl, phase, params, nindices, level, elim, recs, derived>>)
NextNested == NextType("nested")

AsType(t, ni, block) ==
  [kind |-> "induct", name |-> t.name, type |-> t.type, nparams |-> decl.nparams, nindices |-> ni,
   ctors |-> [k \in DOMAIN t.ctors |-> t.ctors[k].name], all |-> [i \in DOMAIN block |-> block[i].name]]
AsCtor(c, t, k) == [kind |-> "ctor", name |-> c.name, type |-> c.type, induct |-> t.name, cidx |-> k]

DeclareTypes ==
  /\ phase = "nested" /\ AtEnd
  /\ env' = With(env, {AsType(types[i], num_pis(types[i].type) - decl.nparams, types) : i \in DOMAIN types})
  /\ phase' = "types"
  /\ UNCHANGED <<mark, decl, at, params, types, aux, next_idx, nindices, level, elim, recs, derived>>

SortAt(i) == TypeBody(i).body.u
CheckTypes ==
  /\ phase = "types"
  /\ Unless(\E i \in DOMAIN types : ~TypeOk(i) \/ SortAt(i) # SortAt(1),
       /\ nindices' = [i \in DOMAIN types |-> Len(TypeBody(i).fvars)]
       /\ env' = With(mark, {AsType(types[i], nindices'[i], types) : i \in DOMAIN types})
       /\ level' = SortAt(1)
       /\ phase' = "ctors" /\ at' = <<1, 1>>
       /\ UNCHANGED <<mark, decl, params, types, aux, next_idx, elim, recs, derived>>)

CheckCtor ==
  /\ phase = "ctors" /\ AtCtor
  /\ Unless(~CtorOk(at[1], at[2]),
       /\ NextRound
       /\ UNCHANGED <<mark, env, decl, phase, params, types, aux, next_idx, nindices, level, elim, recs, derived>>)
NextChecked == NextType("ctors")

MetadataOk ==
  /\ \A i \in DOMAIN decl.types : decl.types[i].all = BlockNames
  /\ \A p \in ExportedCtors :
       LET c == decl.types[p[1]].ctors[p[2]]
       IN c.nfields = num_pis(types[p[1]].ctors[p[2]].type) - decl.nparams
DeclareCtors ==
  /\ phase = "ctors" /\ AtEnd
  /\ Unless(~MetadataOk,
       /\ env' = With(env, UNION {{AsCtor(types[i].ctors[k], types[i], k) : k \in DOMAIN types[i].ctors} : i \in DOMAIN types})
       /\ phase' = "derive"
       /\ UNCHANGED <<mark, decl, at, params, types, aux, next_idx, nindices, level, elim, recs, derived>>)

\* The elimination universe: the parameter, if the main exported recursor has one; then it must be
\* allowed.
ChooseElim ==
  /\ phase = "derive"
  /\ Unless(MainMissing \/ (AsksParam /\ ~large_eliminator),
       /\ elim' = (IF AsksParam THEN ElimParam ELSE 0)
       /\ recs' = [d \in DOMAIN types |-> RecInfo(d, elim')]
       /\ phase' = "minors" /\ at' = <<1, 1>>
       /\ UNCHANGED <<mark, env, decl, params, types, aux, next_idx, nindices, level, derived>>)
MkMinor ==
  /\ phase = "minors" /\ AtCtor
  /\ recs' = [recs EXCEPT ![at[1]].minors = Append(@, MinorOf(at[1], at[2]))]
  /\ NextRound
  /\ UNCHANGED <<mark, env, decl, phase, params, types, aux, next_idx, nindices, level, elim, derived>>
NextMinors == NextType("minors")
DeriveRecursor ==
  /\ phase = "minors" /\ AtEnd /\ Len(derived) < Len(types)
  /\ derived' = Append(derived, Recursor(Len(derived) + 1))
  /\ UNCHANGED <<mark, env, decl, phase, at, params, types, aux, next_idx, nindices, level, elim, recs>>

\* The comparison is made in the environment with the exported types and constructors alone.
SwapEnvironment ==
  /\ phase = "minors" /\ Len(derived) = Len(types)
  /\ Unless(Len(Exported) # Len(types),
       /\ env' = With(With(mark, {AsType(decl.types[i], nindices[i], decl.types) : i \in DOMAIN decl.types}),
                      {AsCtor(decl.types[p[1]].ctors[p[2]], decl.types[p[1]], p[2]) : p \in ExportedCtors})
       /\ phase' = "compare" /\ at' = <<1, 1>>
       /\ UNCHANGED <<mark, decl, params, types, aux, next_idx, nindices, level, elim, recs, derived>>)

SameRule(r1, r2) == r1.ctor = r2.ctor /\ r1.nfields = r2.nfields /\ is_def_eq(r1.rhs, r2.rhs)
SameRecursor(e, d) ==
  /\ e.name = d.name /\ e.large = d.large
  /\ e.nindices = d.nindices /\ e.nmotives = d.nmotives /\ e.nminors = d.nminors /\ e.k = d.k
  /\ Len(e.rules) = Len(d.rules)
  /\ IsType(d.type, env)
  /\ is_def_eq(e.type, d.type)
  /\ \A i \in DOMAIN d.rules : SameRule(e.rules[i], d.rules[i])
CompareRecursor ==
  /\ phase = "compare" /\ at[1] \in DOMAIN derived
  /\ Unless(~\E e \in Range(Exported) : SameRecursor(e, derived[at[1]]),
       /\ at' = <<at[1] + 1, 1>>
       /\ UNCHANGED <<mark, env, decl, phase, params, types, aux, next_idx, nindices, level, elim, recs, derived>>)
AddRecursors ==
  /\ phase = "compare" /\ at[1] \notin DOMAIN derived
  /\ env' = With(env, Range(Exported))
  /\ phase' = "accepted"
  /\ UNCHANGED <<mark, decl, at, params, types, aux, next_idx, nindices, level, elim, recs, derived>>

Done == phase \in {"accepted", "rejected"} /\ UNCHANGED vars

Next ==
  \/ CheckHeader \/ ReplaceInCtor \/ NextNested \/ DeclareTypes \/ CheckTypes \/ CheckCtor \/ NextChecked
  \/ DeclareCtors \/ ChooseElim \/ MkMinor \/ NextMinors \/ DeriveRecursor \/ SwapEnvironment \/ CompareRecursor \/ AddRecursors \/ Done
Spec == Init /\ [][Next]_vars
--------------------------------------------------------------------------------
(* Properties *)

\* A block is accepted exactly if its types are well-formed, every occurrence of the new types, also
\* inside other types' parameters, is strictly positive, the universes fit, and the recursors are
\* those the types determine, universe of the motive included (inductive.cpp:3-8 "recursors are
\* *derived* (elimination universe, K-target, motives, minors, rules)").  Violated by recursors into
\* Prop alone of a type that eliminates into every universe: ChooseElim follows the export.
BlockVerdict == phase \in {"accepted", "rejected"} => ((phase = "accepted") <=> (Sound /\ ExportRight))

\* There is one auxiliary type for each nested type the block's constructors lead to, siblings and
\* types nested in those included, and no other (replace_if_nested: two occurrences that are equal
\* up to the parameters share one).
AuxiliariesExact ==
  phase \in {"types", "ctors"} =>
    /\ {a.key : a \in Range(aux)} = Families
    /\ \A i, j \in DOMAIN aux : aux[i].key = aux[j].key => i = j

\* Restoring undoes the elimination: the constructors' types are the exported ones again, and those
\* of an auxiliary are the real constructors' types at the nested parameters (run, restore).
RestoresExact ==
  phase = "types" =>
    /\ \A p \in ExportedCtors : restore(types[p[1]].ctors[p[2]].type) = decl.types[p[1]].ctors[p[2]].type
    /\ \A i \in DOMAIN aux : LET t == types[Len(decl.types) + i] IN
         \A k \in DOMAIN t.ctors :
           restore(t.ctors[k].type) =
             mk_pi(params, instantiate_pis(mark[Numbered(t.ctors[k].name, 0)].type, Len(get_app_args(aux[i].key)), get_app_args(aux[i].key)))

\* The signature with the derived recursors, and what a recursor's binders are.
RecSig == With(env, Range(derived))
Before(r) == decl.nparams + r.nmotives + r.nminors
RecBinders(r) == Open(r.type, "rec", 1)
FirstOf(r) == Take(RecBinders(r).fvars, Before(r))
MajorAt(r) == Last(RecBinders(r).fvars)
MajorHead(r) ==
  LET e == MajorAt(r).t
      np == RecSig[get_app_fn(e).c].nparams
  IN mk_apps(get_app_fn(e), Take(get_app_args(e), np))
\* What a rule must have for its type: the motive at the constructor applied to its fields.
RuleType(r, rule) ==
  LET head == MajorHead(r)
      np == Len(get_app_args(head))
      ctor == mk_apps(Const(rule.ctor), get_app_args(head))
      fields == Open(Infer(ctor, RecSig), "rule", 1)
      indices == Drop(get_app_args(fields.body), np)
      result == abstract_fvars(RecBinders(r).body, Drop(RecBinders(r).fvars, Before(r)))
  IN mk_pi(FirstOf(r) \o fields.fvars, instantiate_rev(result, Append(indices, mk_apps(ctor, fields.fvars))))

\* The derived recursors, restored, have types, and the right side of each rule has the type the
\* recursor's type demands of it: computing keeps types (rec_type, rec_rules; only the types are
\* checked by the code).
RecursorsTyped ==
  phase = "compare" /\ at = <<1, 1>> =>
    \A r \in Range(derived) :
      /\ IsType(r.type, RecSig)
      /\ \A i \in DOMAIN r.rules : is_def_eq(Infer(r.rules[i].rhs, RecSig), RuleType(r, r.rules[i]))

MinorsOfRec(r) == Drop(FirstOf(r), decl.nparams + r.nmotives)
RECURSIVE RulesBefore(_)
RulesBefore(d) == IF d = 1 THEN 0 ELSE RulesBefore(d - 1) + Len(derived[d - 1].rules)
\* The minor premise of a constructor has one induction hypothesis for each field whose values, or
\* whose results, belong to a type some recursor of the block is about (mk_rec_infos: a missing one
\* leaves the recursor well typed and too weak).
HypothesesExact ==
  phase = "compare" /\ at = <<1, 1>> =>
    \A d \in DOMAIN derived : \A i \in DOMAIN derived[d].rules :
      LET r == derived[d]
          minor == Open(MinorsOfRec(r)[RulesBefore(d) + i].t, "minor", 1).fvars
          n == r.rules[i].nfields
          heads == {abstract_fvars(MajorHead(q), Take(FirstOf(q), decl.nparams)) : q \in Range(derived)}
          Recursive(x) ==
            LET e == abstract_fvars(Open(Nf(x.t), "arg", 1).body, Take(FirstOf(r), decl.nparams))
            IN \E h \in heads : \E m \in 0 .. Len(get_app_args(e)) : h = mk_apps(get_app_fn(e), Take(get_app_args(e), m))
      IN Len(minor) = n + Cardinality({j \in 1 .. n : Recursive(minor[j])})
================================================================================
