-------------------------------- MODULE KamLaws --------------------------------
(***************************************************************************)
(* What the lazy machine may rely on: laws of terms, of substitution and   *)
(* of reduction, of fusion and of the rules derived from definitions.      *)
(* Each is a statement about a set T of terms.  TLC evaluates them on the  *)
(* terms of the instance (module MCKam), the proofs about the machine      *)
(* (module Kam_proofs) take them for all terms.                            *)
(***************************************************************************)
EXTENDS Kam

Closed(T) == {t \in T : loose_bvar_range(t) = 0}

\* A term under the terms of an environment, the nearest binder first.
Inst(t, s) == instantiate(t, [i \in 1..loose_bvar_range(t) |-> s[i]])
-------------------------------------------------------------------------------
(* Terms.                                                                    *)

\* A term is one of these forms, over terms, and its range is that of its parts.
Grammar(T) ==
  \A t \in T :
    /\ loose_bvar_range(t) \in Nat
    /\ t.k \in {"bvar", "fvar", "const", "lit", "app", "lam", "let", "proj"}
    /\ t.k = "bvar" => t.i \in Nat /\ t = BVar(t.i) /\ loose_bvar_range(t) = t.i + 1
    /\ t.k = "fvar" => t = FVar(t.name) /\ loose_bvar_range(t) = 0
    /\ t.k = "const" => t = Const(t.c) /\ loose_bvar_range(t) = 0
    /\ t.k = "lit" => t.n \in Nat /\ t = LitNat(t.n) /\ loose_bvar_range(t) = 0
    /\ t.k = "lam" => t.b \in T /\ loose_bvar_range(t.b) <= loose_bvar_range(t) + 1
    /\ t.k = "let" => /\ t.v \in T /\ loose_bvar_range(t.v) <= loose_bvar_range(t)
                      /\ t.b \in T /\ loose_bvar_range(t.b) <= loose_bvar_range(t) + 1
    /\ t.k = "proj" => /\ t.i \in Nat /\ t.e \in T /\ t = Proj(t.i, t.e)
                       /\ loose_bvar_range(t.e) = loose_bvar_range(t)

\* The spine of an application.
Spines(T) ==
  \A t \in T :
    LET args == get_app_args(t)
    IN /\ get_app_fn(t) \in T /\ loose_bvar_range(get_app_fn(t)) <= loose_bvar_range(t)
       /\ args \in Seq(T)
       /\ \A i \in DOMAIN args : loose_bvar_range(args[i]) <= loose_bvar_range(t)

\* Applications.
Applications(C, Ss) ==
  \A f \in C :
    /\ mk_apps(f, <<>>) = f
    /\ \A s \in Ss : loose_bvar_range(mk_apps(f, s)) = 0
    /\ \A s \in Ss, x \in C : mk_apps(f, Append(s, x)) = mk_apps(mk_apps(f, s), <<x>>)

\* What is under the binders of a term.
Binders(T, Ns) ==
  \A t \in T, n \in Ns :
    /\ strip(t, n) = Strip(t, n)
    /\ strip(t, n) # Nil => strip(t, n) \in T /\ loose_bvar_range(strip(t, n)) <= loose_bvar_range(t) + n

\* The terms of an environment replace the variables; those of variables that do not occur
\* do not matter.
Substitution(T, Ss) ==
  \A t \in T, s \in Ss : loose_bvar_range(t) <= Len(s) =>
    /\ loose_bvar_range(Inst(t, s)) = 0
    /\ loose_bvar_range(t) = 0 => Inst(t, s) = t
    /\ t.k = "bvar" => Inst(t, s) = s[t.i + 1]
    /\ t.k = "proj" => Inst(t, s) = Proj(t.i, Inst(t.e, s))
    /\ LET args == get_app_args(t)
       IN Inst(t, s) = mk_apps(Inst(get_app_fn(t), s), [i \in 1..Len(args) |-> Inst(args[i], s)])
    /\ \A r \in Ss :
         /\ Len(r) = Len(s)
         /\ \A i \in 1..Len(s) : occurs(t, i - 1) => r[i] = s[i]
         => Inst(t, r) = Inst(t, s)
-------------------------------------------------------------------------------
(* Reduction: terms with the same normal form are equal by definition.  T is *)
(* a set of terms, C one of closed terms, Ss one of sequences of these.      *)

\* Applications and projections of equal terms are equal.
Congruence(C, Ss, Is) ==
  \A f, g \in C : normal(f) = normal(g) =>
    /\ \A i \in Is : normal(Proj(i, f)) = normal(Proj(i, g))
    /\ \A r, s \in Ss :
         /\ Len(r) = Len(s)
         /\ \A i \in 1..Len(s) : normal(r[i]) = normal(s[i])
         => normal(mk_apps(f, r)) = normal(mk_apps(g, s))

\* A function applied, a let, and a let variable.
BetaLaw(T, Ss) ==
  \A t \in T, s, xs \in Ss :
    loose_bvar_range(t) <= Len(s) /\ strip(t, Len(xs)) # Nil =>
      normal(mk_apps(Inst(t, s), xs)) = normal(Inst(strip(t, Len(xs)), Reverse(xs) \o s))
ZetaLaw(T, Ss) ==
  /\ \A t \in T, s \in Ss : t.k = "let" /\ loose_bvar_range(t) <= Len(s) =>
       normal(Inst(t, s)) = normal(Inst(t.b, <<Inst(t.v, s)>> \o s))
  /\ \A x \in DOMAIN LetVars : normal(FVar(x)) = normal(LetVars[x])

\* A definition; the numerals and what computes on them.
DeltaLaw == \A c \in Defs : normal(Const(c)) = normal(Decls[c].value)
NumeralLaws(Ns) ==
  /\ normal(LitNat(0)) = normal(Const("zero"))
  /\ \A n \in Ns : normal(LitNat(n + 1)) = normal(mk_apps(Const("succ"), <<LitNat(n)>>))
  /\ \A c \in DOMAIN Decls : Decls[c].kind \in {"def", "ctor"} =>
       /\ Decls[c].op = "succ" => \A n \in Ns :
            normal(mk_apps(Const(c), <<LitNat(n)>>)) = normal(LitNat(n + 1))
       /\ Decls[c].op \notin {"none", "succ"} => \A m, n \in Ns :
            normal(mk_apps(Const(c), <<LitNat(m), LitNat(n)>>)) = normal(LitNat(m + n))

\* A recursor on a constructor; a major premise of a K-like family or of a structure.
Recursor(c, d, before) ==
  /\ c \in DOMAIN Decls /\ Decls[c].kind = "rec" /\ d = Decls[c]
  /\ Len(before) = rec_major_idx(d)
RecursorLaws(C, Ss) ==
  \A c \in DOMAIN Decls, before \in Ss : Recursor(c, Decls[c], before) =>
    LET d == Decls[c]
        On(m) == normal(mk_apps(Const(c), Append(before, m)))
    IN /\ \A k \in DOMAIN d.rules, fs \in Ss : d.rules[k].nfields <= Len(fs) =>
            On(mk_apps(Const(k), fs)) =
              normal(mk_apps(d.rules[k].rhs,
                SubSeq(before, 1, d.nbefore) \o SubSeq(fs, Len(fs) - d.rules[k].nfields + 1, Len(fs))))
       /\ \A m \in C :
            /\ d.k => loose_bvar_range(to_ctor_when_K(d, m)) = 0 /\ On(to_ctor_when_K(d, m)) = On(m)
            /\ loose_bvar_range(to_ctor_when_struct(d, m)) = 0 /\ On(to_ctor_when_struct(d, m)) = On(m)

\* A field of a constructor; a function on a quotient.
FieldLaw(Ss, Is) ==
  \A c \in DOMAIN Decls, s \in Ss, i \in Is :
    Decls[c].kind = "ctor" /\ Decls[c].nparams + i + 1 <= Len(s) =>
      normal(Proj(i, mk_apps(Const(c), s))) = normal(s[Decls[c].nparams + i + 1])
LiftLaw(Ss) ==
  \A c \in DOMAIN Decls, s, r \in Ss : Decls[c].kind = "lift" /\ Len(s) = 5 /\ Len(r) = 3 =>
    normal(mk_apps(Const(c), Append(s, mk_apps(Const("Quot.mk"), r)))) = normal(mk_apps(s[4], <<r[3]>>))
-------------------------------------------------------------------------------
(* Fusion and rules.                                                         *)

Limits == UNION {{p[2] : p \in Programs[m]} : m \in DOMAIN Programs}

\* What is kept of fusion: for a term with variables one that is equal under every
\* environment.
CacheOK(T, Ss, cache) ==
  \A t \in DOMAIN cache :
    /\ t \in T /\ cache[t] \in T /\ loose_bvar_range(cache[t]) <= loose_bvar_range(t)
    /\ \A s \in Ss : loose_bvar_range(t) <= Len(s) => normal(Inst(cache[t], s)) = normal(Inst(t, s))
Fuses(T, Ss, L, cache, e) ==
  CacheOK(T, Ss, cache) /\ e \in Closed(T) =>
    LET v == fuse_term(L, cache, e)
    IN v.e \in Closed(T) /\ normal(v.e) = normal(e) /\ CacheOK(T, Ss, v.cache)

\* An arm of a rule is what the definition is on the constructor, whatever the arguments.
ArmFor(T, Ss, c, major, ctor, arm) ==
  /\ arm.nfields \in Nat /\ arm.body \in T /\ loose_bvar_range(arm.body) <= major + arm.nfields
  /\ \A before, fs \in Ss : Len(before) = major /\ Len(fs) = arm.nfields =>
       normal(mk_apps(Const(c), Append(before, mk_apps(Const(ctor), fs)))) =
         normal(Inst(arm.body, Reverse(before \o fs)))

\* The rules that can be derived under the limits L, and their arms: an equation that is
\* verified on variables holds for all arguments.
Candidate(c, L) == opened(fuse_term(L, <<>>, Decls[c].value).e)
Arms(T, Ss, c, L, cache) ==
  is_rec_body(Candidate(c, L).B) /\ shape_ok(shape_of(Candidate(c, L))) =>
    LET s == shape_of(Candidate(c, L))
    IN /\ s.k \in Nat \ {0} /\ IsFiniteSet(DOMAIN s.d.rules)
       /\ \A ctor \in DOMAIN s.d.rules :
            LET e == fuse_term(L, cache, unfolded(s, ctor)).e
                arm == arm_of(c, s, ctor, called(c, s, ctor, e))
            IN /\ unfolded(s, ctor) \in Closed(T)
               /\ CacheOK(T, Ss, cache) /\ arm.ok => ArmFor(T, Ss, c, s.k - 1, ctor, arm)
-------------------------------------------------------------------------------
(* The environment, and what is reduced in it.                               *)

Environment(C) ==
  /\ \A c \in DOMAIN Decls :
       LET d == Decls[c]
       IN /\ d.kind = "def" => d.value \in C
          /\ d.kind = "ctor" => d.nparams \in Nat /\ d.op \in {"none", "succ"}
          /\ d.kind = "rec" =>
               /\ d.nbefore \in Nat /\ d.nindices \in Nat /\ d.nminors \in 0..d.nbefore
               /\ \A k \in DOMAIN d.rules : d.rules[k].nfields \in Nat /\ d.rules[k].rhs \in C
  /\ \A x \in DOMAIN LetVars : LetVars[x] \in C
  /\ \A m \in DOMAIN Programs : \A p \in Programs[m] : p[1] \in Seq(C)
  /\ \A c \in DOMAIN Queries : Queries[c] \in Seq(C)
===============================================================================
