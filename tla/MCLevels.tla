-------------------------------- MODULE MCLevels --------------------------------
(***************************************************************************)
(* Instances of Levels: every pair of levels over two parameters that has  *)
(* at most MaxSize nodes.                                                  *)
(***************************************************************************)
EXTENDS Levels

CONSTANT MaxSize  \* bound: nodes of two levels of the export

\* u and u.1: a name and a longer one.
MCParams == {<<[str |-> TRUE, v |-> 1]>>, <<[str |-> TRUE, v |-> 1], [str |-> FALSE, v |-> 1]>>}

OfSize ==
  LET f[n \in 1..(MaxSize - 3)] ==
        IF n = 1 THEN {Zero} \cup {mk_param(p) : p \in MCParams}
        ELSE {mk_succ(l) : l \in f[n - 1]}
             \cup UNION {{mk_max_raw(l, m) : l \in f[i], m \in f[n - 1 - i]} : i \in 1..(n - 2)}
             \cup UNION {{mk_imax_raw(l, m) : l \in f[i], m \in f[n - 1 - i]} : i \in 1..(n - 2)}
  IN f
Sizes == {s \in (1..(MaxSize - 3)) \X (1..(MaxSize - 3)) : s[1] + s[2] <= MaxSize}
MCStart == UNION {OfSize[s[1]] \X OfSize[s[2]] : s \in Sizes}
-------------------------------------------------------------------------------
(* The recursive functions of Levels, each what its definition computes.  The *)
(* LET keeps TLC's coverage from following the calls without end.             *)

TheMkSuccN(l, n) == LET v == MkSuccN(l, n) IN v
TheToOffset(l) == LET v == ToOffset(l) IN v
TheIsNeverZero(l) == LET v == IsNeverZero(l) IN v
TheIsNormLt(l, m) == LET v == IsNormLt(l, m) IN v
ThePushMaxArgs(l) == LET v == PushMaxArgs(l) IN v
TheMkMaxList(s) == LET v == MkMaxList(s) IN v
TheLastOfBase(s) == LET v == LastOfBase(s) IN v
TheAllArgs(s) == LET v == AllArgs(s) IN v
TheNormalized(l) == LET v == Normalized(l) IN v
TheIsGeq(l, m) == LET v == IsGeq(l, m) IN v
TheLvlZero(l) == LET v == LvlZero(l) IN v
TheInstantiated(l, f) == LET v == Instantiated(l, f) IN v
TheParamsOf(l) == LET v == ParamsOf(l) IN v
TheValueOf(l, f) == LET v == ValueOf(l, f) IN v
TheParts(l) == LET v == Parts(l) IN v
===============================================================================
