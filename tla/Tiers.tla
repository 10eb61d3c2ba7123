--------------------------------- MODULE Tiers ---------------------------------
(***************************************************************************)
(* The two-tier term table (src/src/expr.cpp) and what outlives a          *)
(* declaration in it: the types of the constants of the environment and    *)
(* the fixpoint rules (src/src/fix.cpp).                                   *)
(*                                                                         *)
(* Terms are hash-consed: a node is looked up before it is kept, and a     *)
(* term is a handle, an index into `nodes`.  Once the export is loaded the *)
(* table is frozen: what a declaration builds goes to the temporary tier,  *)
(* above the watermark wm, and reclaim() drops it when the declaration is  *)
(* done.  A fixpoint rule derived meanwhile is saved before the reclaim    *)
(* and rebuilt in the permanent tier after it.                             *)
(*                                                                         *)
(* Handles count from 1 here.  Suspended substitutions (Clos nodes) are    *)
(* not modelled: rules and types hold none.                                *)
(***************************************************************************)
EXTENDS Naturals, Sequences, FiniteSets, Functions

CONSTANTS
  Atoms,        \* constants and sorts as leaves of terms
  Lits,         \* values of literals
  FVars,        \* free variables
  NDecls,       \* declarations of the export; declaration c introduces constant c
  Defs,         \* the declarations that may have a fixpoint rule
  Quots,        \* the declarations of quotient constants
  BuiltIn,      \* the built-in type of the quotient constants, as a term
  StandardQuot, \* the export gives the quotient constants that very type
  KeepGoing,    \* --keep-going
  RuledFailure, \* a declaration may fail after rules were derived for it
  MaxLoad,      \* bound: nodes of the export
  MaxNodes,     \* bound: nodes of the table
  MaxDeriving   \* nesting of rule derivations (8 in the code)

Consts == 1..NDecls

ASSUME TiersAssumption ==
  /\ NDecls \in Nat \ {0} /\ Defs \subseteq Consts /\ Quots \subseteq Consts
  /\ StandardQuot \in BOOLEAN /\ KeepGoing \in BOOLEAN /\ RuledFailure \in BOOLEAN
  /\ MaxLoad \in Nat /\ MaxNodes \in Nat /\ MaxDeriving \in Nat \ {0}

VARIABLES
  pc,        \* load, check, end (of a declaration), restore, over
  nodes,     \* the node table
  lits,      \* the values of the literals (nat_lits, str_lits)
  perm,      \* handles in the permanent intern table
  temp,      \* handles in the temporary intern table
  frozen, wm, wmLit,
  at,        \* the declaration being checked
  exported,  \* handle of the type the export gives each constant
  env,       \* handle of the type of each constant added, 0: not added
  state,     \* of the fixpoint slot: 0 unknown, 1 deriving, 2 temporary, 3 permanent, 4 none
  rule,      \* handle of the body of the rule
  deriving,  \* the definitions whose rules are being derived, innermost last
  pending,   \* the slots in state 2 (g_pending)
  saved,     \* the terms being promoted, children first, and where the rules start
  out        \* their handles so far

table == <<nodes, lits, perm, temp>>
tiers == <<frozen, wm, wmLit>>
slots == <<state, rule, deriving, pending>>
promotion == <<saved, out>>
vars == <<pc, table, tiers, at, exported, env, slots, promotion>>

Const(n) == [k |-> "const", a |-> n]
FVar(n) == [k |-> "fvar", a |-> n]
Lit(i) == [k |-> "lit", a |-> i]
App(f, x) == [k |-> "app", a |-> f, b |-> x]
Leaves == {Const(n) : n \in Atoms} \cup {FVar(n) : n \in FVars}
NoSaved == [nodes |-> <<>>, roots |-> <<>>]

\* The term a handle stands for.  What a handle that is not in the table, or a node
\* that points outside of it, stands for is anybody's guess.
Junk == <<"junk">>
Tree ==
  LET t[h \in DOMAIN nodes] ==
        LET nd == nodes[h]
            Child(x) == IF x < h THEN t[x] ELSE Junk
        IN CASE nd.k = "app" -> <<"app", Child(nd.a), Child(nd.b)>>
             [] nd.k = "lit" -> IF nd.a \in DOMAIN lits THEN <<"lit", lits[nd.a]>> ELSE Junk
             [] OTHER -> <<nd.k, nd.a>>
  IN t
Meaning(h) == IF h \in DOMAIN nodes THEN Tree[h] ELSE Junk

\* The handles a term is built from, itself included.
Parts ==
  LET p[h \in DOMAIN nodes] ==
        {h} \cup (IF nodes[h].k = "app" THEN p[nodes[h].a] \cup p[nodes[h].b] ELSE {})
  IN p
has_fvar(h) == \E g \in Parts[h] : nodes[g].k = "fvar"

Init ==
  /\ pc = "load"
  /\ nodes = <<>> /\ lits = <<>> /\ perm = {} /\ temp = {}
  /\ frozen = FALSE /\ wm = 0 /\ wmLit = 0
  /\ at = 1
  /\ exported = [c \in Consts |-> 0] /\ env = [c \in Consts |-> 0]
  /\ state = [c \in Consts |-> 0] /\ rule = [c \in Consts |-> 0]
  /\ deriving = <<>> /\ pending = {}
  /\ saved = NoSaved /\ out = <<>>
-------------------------------------------------------------------------------
(* Interning.                                                                *)

\* Slip: a literal is taken for a term of the declaration.
LiteralIsTemporary(nd) ==
  /\ nd.k \notin {"fvar", "lit"}
  /\ nd.k = "app" => nd.a <= wm /\ nd.b <= wm

\* A node with a temporary child equals no permanent node, and the loader makes no
\* free variable: neither is looked up in the permanent table.
maybe_perm(nd) ==
  /\ nd.k # "fvar"
  /\ nd.k = "app" => nd.a <= wm /\ nd.b <= wm

Found(nd, T) == {h \in T : nodes[h] = nd}

\* The node nd gets handle h: that of an equal node if one is found, in the permanent
\* table first, or else a new one, in the table of the tier being filled.
intern(nd, h) ==
  LET inPerm == IF frozen => maybe_perm(nd) THEN Found(nd, perm) ELSE {}
      hits == IF frozen /\ inPerm = {} THEN Found(nd, temp) ELSE inPerm
  IN IF hits # {}
       THEN h \in hits /\ UNCHANGED <<nodes, perm, temp>>
       ELSE /\ h = Len(nodes) + 1 /\ h <= MaxNodes
            /\ nodes' = Append(nodes, nd)
            /\ IF frozen THEN temp' = temp \cup {h} /\ UNCHANGED perm
                         ELSE perm' = perm \cup {h} /\ UNCHANGED temp

\* A literal's value is interned in a table of its own, then the node that names it.
intern_lit(v, h) ==
  \E i \in 1..(Len(lits) + 1) :
    /\ IF v \in Range(lits) THEN i \in DOMAIN lits /\ lits[i] = v /\ UNCHANGED lits
                            ELSE i = Len(lits) + 1 /\ lits' = Append(lits, v)
    /\ intern(Lit(i), h)

\* A term is built from terms at hand.
mk(h) ==
  \/ \E nd \in Leaves : intern(nd, h) /\ UNCHANGED lits
  \/ \E f, x \in perm \cup temp : intern(App(f, x), h) /\ UNCHANGED lits
  \/ \E v \in Lits : intern_lit(v, h)

reclaim ==
  /\ nodes' = SubSeq(nodes, 1, wm) /\ lits' = SubSeq(lits, 1, wmLit)
  /\ temp' = {} /\ UNCHANGED perm
-------------------------------------------------------------------------------
(* The load, and the check of one declaration after the other.               *)

\* A line of the export.
Load ==
  /\ pc = "load" /\ Len(nodes) < MaxLoad
  /\ \E h \in 1..MaxNodes : mk(h) /\ nodes' # nodes /\ ~has_fvar(h)'
  /\ UNCHANGED <<pc, tiers, at, exported, env, slots, promotion>>

freeze == frozen' = TRUE /\ wm' = Len(nodes) /\ wmLit' = Len(lits)

Loaded ==
  /\ pc = "load"
  /\ exported' \in [Consts -> DOMAIN nodes]
  /\ StandardQuot => \A c \in Quots : Meaning(exported'[c]) = BuiltIn
  /\ freeze
  /\ pc' = "check"
  /\ UNCHANGED <<table, at, env, slots, promotion>>

\* The checker builds a term.
Build ==
  /\ pc = "check"
  /\ \E h \in 1..MaxNodes : mk(h) /\ nodes' # nodes
  /\ UNCHANGED <<pc, tiers, at, exported, env, slots, promotion>>

\* fix_rule: the machine meets definition c, and its rule is asked for the first time.
Derive(c) ==
  /\ pc = "check" /\ c \in Defs /\ env[c] # 0
  /\ state[c] = 0 /\ Len(deriving) < MaxDeriving
  /\ state' = [state EXCEPT ![c] = 1]
  /\ deriving' = Append(deriving, c)
  /\ UNCHANGED <<pc, table, tiers, at, exported, env, rule, pending, promotion>>

\* The innermost derivation ends, with a verified rule or with none.
Derived ==
  /\ pc = "check" /\ deriving # <<>>
  /\ LET c == deriving[Len(deriving)]
     IN \/ \E h \in perm \cup temp :
             /\ ~has_fvar(h)
             /\ rule' = [rule EXCEPT ![c] = h]
             /\ state' = [state EXCEPT ![c] = 2]
             /\ pending' = pending \cup {c}
        \/ /\ state' = [state EXCEPT ![c] = 4]
           /\ UNCHANGED <<rule, pending>>
  /\ deriving' = SubSeq(deriving, 1, Len(deriving) - 1)
  /\ UNCHANGED <<pc, table, tiers, at, exported, env, promotion>>

\* check_decl accepts: the environment keeps the exported type, for a quotient
\* constant the built-in one, as the checker has built it.
Accept ==
  /\ pc = "check" /\ deriving = <<>>
  /\ \E h \in perm \cup temp :
       /\ IF at \in Quots THEN Meaning(h) = BuiltIn ELSE h = exported[at]
       /\ env' = [env EXCEPT ![at] = h]
  /\ pc' = "end"
  /\ UNCHANGED <<table, tiers, at, exported, slots, promotion>>

\* check_decl throws.  With --keep-going the temporary tier is trimmed - a reclaim -
\* and the constant is added unchecked.
Reject ==
  /\ pc = "check" /\ deriving = <<>>
  /\ IF KeepGoing
       THEN /\ RuledFailure \/ pending = {}
            /\ reclaim
            /\ env' = [env EXCEPT ![at] = exported[at]] /\ pc' = "end"
       ELSE pc' = "over" /\ UNCHANGED <<table, env>>
  /\ UNCHANGED <<tiers, at, exported, slots, promotion>>
-------------------------------------------------------------------------------
(* The end of a declaration: save the new rules, reclaim, rebuild them.      *)

NextDecl ==
  /\ at' = at + 1
  /\ pc' = IF at < NDecls THEN "check" ELSE "over"

\* The handles the rules of the pending slots are built from; a rule may point
\* outside the table, and is then read as it comes.
Roots == {rule[c] : c \in pending}
Needed == UNION {IF h \in DOMAIN nodes THEN Parts[h] ELSE {h} : h \in Roots}
Rank(h) == Cardinality({g \in Needed : g <= h})

\* Slip: a literal is saved as the index of its value.
SavesIndex(h, junk) ==
  IF h \notin DOMAIN nodes THEN junk
  ELSE IF nodes[h].k = "app" THEN App(Rank(nodes[h].a), Rank(nodes[h].b))
  ELSE nodes[h]

\* What is saved of a node: places of the saved children, the value of a literal.
Save(h, junk) ==
  IF h \notin DOMAIN nodes THEN junk
  ELSE LET nd == nodes[h]
       IN CASE nd.k = "app" -> App(Rank(nd.a), Rank(nd.b))
            [] nd.k = "lit" -> Lit(lits[nd.a])
            [] OTHER -> nd

fix_before_reclaim ==
  \E junk \in Leaves :
    saved' = [nodes |-> [i \in 1..Cardinality(Needed) |->
                           Save(CHOOSE h \in Needed : Rank(h) = i, junk)],
              roots |-> [c \in pending |-> Rank(rule[c])]]

EndDecl ==
  /\ pc = "end"
  /\ reclaim
  /\ IF pending = {}
       THEN NextDecl /\ UNCHANGED <<tiers, saved>>
       ELSE /\ fix_before_reclaim
            /\ frozen' = FALSE /\ pc' = "restore"
            /\ UNCHANGED <<at, wm, wmLit>>
  /\ UNCHANGED <<exported, env, slots, out>>

\* One saved node is built again, in the permanent tier.
Restore ==
  /\ pc = "restore" /\ Len(out) < Len(saved.nodes)
  /\ LET nd == saved.nodes[Len(out) + 1]
     IN \E h \in 1..MaxNodes :
          /\ CASE nd.k = "app" -> intern(App(out[nd.a], out[nd.b]), h) /\ UNCHANGED lits
               [] nd.k = "lit" -> intern_lit(nd.a, h)
               [] OTHER -> intern(nd, h) /\ UNCHANGED lits
          /\ out' = Append(out, h)
  /\ UNCHANGED <<pc, tiers, at, exported, env, slots, saved>>

\* Slip: the table is frozen again with the watermark it had.
OldWatermark ==
  /\ pc = "restore" /\ Len(out) = Len(saved.nodes)
  /\ frozen' = TRUE /\ UNCHANGED <<wm, wmLit>>
  /\ rule' = [c \in Consts |-> IF c \in pending THEN out[saved.roots[c]] ELSE rule[c]]
  /\ state' = [c \in Consts |-> IF c \in pending THEN 3 ELSE state[c]]
  /\ pending' = {} /\ saved' = NoSaved /\ out' = <<>>
  /\ NextDecl
  /\ UNCHANGED <<table, exported, env, deriving>>

fix_after_reclaim ==
  /\ pc = "restore" /\ Len(out) = Len(saved.nodes)
  /\ freeze
  /\ rule' = [c \in Consts |-> IF c \in pending THEN out[saved.roots[c]] ELSE rule[c]]
  /\ state' = [c \in Consts |-> IF c \in pending THEN 3 ELSE state[c]]
  /\ pending' = {} /\ saved' = NoSaved /\ out' = <<>>
  /\ NextDecl
  /\ UNCHANGED <<table, exported, env, deriving>>

Terminated == pc = "over" /\ UNCHANGED vars

Next ==
  \/ Load \/ Loaded \/ Build \/ (\E c \in Consts : Derive(c)) \/ Derived
  \/ Accept \/ Reject \/ EndDecl \/ Restore \/ fix_after_reclaim \/ Terminated

Spec == Init /\ [][Next]_vars
-------------------------------------------------------------------------------
\* Equal terms have one handle ("hash-consed", expr.h:26, expr.cpp:62-68): no two
\* handles the table gives out hold equal nodes, whichever tiers they are in, although
\* the lookup skips the permanent table for a node with a temporary child.
HashConsed == \A g, h \in perm \cup temp : nodes[g] = nodes[h] => g = h

\* "Callers must not keep temporary handles across reclaim()" (expr.h:65): whatever
\* the environment and the rules hold is in the table, and what outlives the
\* declaration is below the watermark; a rule of this declaration (fix.h:31 "in the
\* temporary tier; promoted ... at the end of the declaration") is in the table until
\* it is saved.  Violated, each in its own run, by
\*   - a declaration that fails under --keep-going after a rule was derived for it:
\*     trim() reclaims the tier (main.cpp:322) before fix_before_reclaim saves the rule;
\*   - a quotient constant exported at another type: the environment keeps the
\*     built-in type as the checker built it, in the temporary tier (inductive.cpp:777).
NoHandleAcrossReclaim ==
  \A c \in Consts :
    /\ c < at => env[c] <= wm
    /\ state[c] = 3 => rule[c] <= wm
    /\ state[c] = 2 /\ pc # "restore" => rule[c] \in perm \cup temp

\* The term of a rule: while it is being promoted it is the saved one.
SavedTree ==
  LET t[i \in DOMAIN saved.nodes] ==
        LET nd == saved.nodes[i]
        IN IF nd.k = "app" THEN <<"app", t[nd.a], t[nd.b]>> ELSE <<nd.k, nd.a>>
  IN t
RuleTerm(c) ==
  IF pc = "restore" /\ c \in pending THEN SavedTree[saved.roots[c]] ELSE Meaning(rule[c])

None == <<"none">>
Store == INSTANCE TermStore WITH
  types <- [c \in Consts |-> IF env[c] = 0 THEN None ELSE Meaning(env[c])],
  rules <- [c \in Consts |-> IF state[c] \in {2, 3} THEN RuleTerm(c) ELSE None]

\* The table implements a store of terms: neither the reclaim of the temporary tier,
\* the reuse of its handles by the next declaration nor the promotion of a rule
\* changes the type of a constant or the rule of a definition.
ImplementsStore == Store!StoreSpec
===============================================================================
