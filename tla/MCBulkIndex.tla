----------------------------- MODULE MCBulkIndex -----------------------------
(***************************************************************************)
(* Instances of BulkIndex: exports of four lines, all of whose terms       *)
(* collide or wrap around the end of the table.                            *)
(***************************************************************************)
EXTENDS BulkIndex

Leaf(o) == [op |-> o, kids |-> <<>>]
App(f, x) == [op |-> "app", kids |-> <<f, x>>]

\* No repetition; a repeated leaf; a repeated application; a repeated leaf and,
\* under it, applications that differ by handle only.
MCExports ==
  {<<Leaf("a"), Leaf("b"), App(1, 2), App(2, 1)>>,
   <<Leaf("a"), Leaf("b"), App(1, 1), Leaf("a")>>,
   <<Leaf("a"), App(1, 1), Leaf("b"), App(1, 1)>>,
   <<Leaf("a"), Leaf("a"), App(1, 1), App(2, 2)>>}

\* Every hash function onto two slots.
Keys == {<<"a", <<>>>>, <<"b", <<>>>>} \cup {<<"app", <<x, y>>>> : x, y \in Hashes}
MCMixes == [Keys -> Hashes]
==============================================================================
