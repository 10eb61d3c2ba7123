------------------------------ MODULE MCSessions ------------------------------
(***************************************************************************)
(* Instances of Sessions.                                                  *)
(***************************************************************************)
EXTENDS Sessions

CONSTANTS
  T, U, J,      \* inductive types, and the name of an auxiliary one
  rT, rU,       \* their recursors
  d1, d2, p,    \* definitions
  mono, lu, lw, l0, \* lists of levels: none, one parameter, another, a closed level
  u, w,         \* scopes
  yes, no       \* relevances

InfoAt(k, b, ls, c) == [kind |-> k, rel |-> b, params |-> ls, cites |-> c]
I(k, c) == InfoAt(k, no, mono, c)

\* A term that mentions the constants c at levels ls.
At(c, ls) == c \X {ls}
Tm(c, sc) == [cites |-> At(c, mono), scopes |-> sc]
All(sc) == [k \in Stages |-> sc]

\* The stages' terms.
St(a1, a2, a3) == <<a1, a2, a3>>
NoInfo == [n \in {} |-> Undeclared]

PlainAt(n, ls, sc, t) ==
  [kind |-> "plain", scope |-> All(sc), terms |-> St({t}, {}, {}),
   probe |-> NoInfo, gives |-> NoInfo, adds |-> n :> InfoAt("def", no, ls, t.cites)]
Plain(n, sc, t) == PlainAt(n, mono, sc, t)
Recursive(n, sc, t) ==
  [kind |-> "recursive", scope |-> All(sc), terms |-> St({Tm({}, {u, w})}, {t}, {}),
   probe |-> n :> I("axiom", {}), gives |-> NoInfo, adds |-> n :> I("def", t.cites)]
Quot(n) ==
  [kind |-> "quot", scope |-> All(u), terms |-> St({}, {}, {}),
   probe |-> NoInfo, gives |-> NoInfo, adds |-> n :> I("quot", {})]

\* A block of a type n with parameters ls and a nested occurrence, whose auxiliary type has
\* relevance b; its type has the term a, its constructor c and its recursor m the term x.
Block(n, m, b, ls, a, c, x) ==
  [kind |-> "block", scope |-> <<u, u, w>>,
   terms |-> St({a}, {c}, {x}),
   probe |-> (n :> InfoAt("induct", no, ls, {})) @@ (J :> InfoAt("induct", b, ls, {})),
   gives |-> n :> InfoAt("induct", no, ls, {}), adds |-> m :> InfoAt("rec", no, ls, {})]

Cites(c, sc) == [cites |-> c, scopes |-> sc]
None == Tm({}, {u, w})

\* One whose constructor mentions another constant at the block's parameters as well.
Right(n, m, b, ls, c) ==
  Block(n, m, b, ls, None, Cites(At({n, J} \cup c, ls), {u, w}), Cites(At({n}, ls), {w}))

\* A term of one scope met again in another; a name declared twice.
ScopedTwice ==
  {<<Plain(d1, u, Tm({}, {u})), Plain(d2, w, Tm({}, {u})), Plain(d1, u, Tm({}, {u}))>>}

\* A definition that mentions a later one; a recursive definition; one that is ill-typed; a
\* definition that mentions a type whose declaration mentions it.
Orphans ==
  {<<Plain(d1, u, Tm({p}, {u})), Recursive(p, u, Tm({p}, {u})), Plain(d2, u, Tm({d1}, {u}))>>,
   <<Recursive(p, u, Tm({p}, {w})), Plain(d2, u, Tm({p}, {u}))>>,
   <<Plain(d1, u, Tm({T}, {u})), Block(T, rT, yes, mono, Tm({d1}, {u}), Tm({T}, {u}), Tm({T}, {w}))>>}

\* Two definitions with a universe parameter each, one through the other, used at one level.
Levelled ==
  {<<PlainAt(d1, lu, u, None), PlainAt(d2, lw, u, Cites(At({d1}, lw), {u})),
     Plain(p, u, Cites(At({d1, d2}, l0), {u}))>>}

\* Blocks: two that use one auxiliary name, one whose constructor and one whose recursor
\* is ill-typed, a quotient constant.
Blocks ==
  {<<PlainAt(d1, lw, u, None), Right(T, rT, yes, lu, {}), Right(U, rU, yes, lu, {d1})>>,
   <<Block(T, rT, yes, mono, None, Tm({U}, {u, w}), Tm({T}, {w})), Plain(d1, u, Tm({rT}, {u}))>>,
   <<Block(T, rT, yes, mono, None, Tm({T, J}, {u, w}), Tm({T, J}, {w})), Quot(d1)>>}

MCExports == ScopedTwice \cup Orphans \cup Levelled \cup Blocks

\* The auxiliary name is used again: for a type of another relevance, of other parameters.
Relevances == {<<Right(T, rT, yes, mono, {}), Right(U, rU, no, mono, {})>>}
Parameters == {<<PlainAt(d1, lu, u, None), Right(T, rT, no, lu, {}), Right(U, rU, no, lw, {d1})>>}
Reused == Relevances \cup Parameters
===============================================================================
