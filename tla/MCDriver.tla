------------------------------- MODULE MCDriver -------------------------------
(***************************************************************************)
(* Instances of Driver: three declarations, up to two workers.             *)
(***************************************************************************)
EXTENDS Driver

CONSTANTS a, b, c   \* the constants of the exports

Decl(n, ci, li, s, j) ==
  [names |-> n, cites |-> ci, lits |-> li, self |-> s, judgement |-> j]
Axiom(n) == Decl({n}, {}, {}, FALSE, "right")

\* Exports whose literals come after the declaration of their type: each
\* judgement of the middle and the last one, an inductive block that cites
\* itself, a definition that cites itself, a circular pair, an unknown
\* constant, a name declared twice.
MCExports ==
  {<<Axiom(a), Decl({b}, {a}, {a}, FALSE, j), Decl({c}, {a, b, c}, {}, TRUE, k)>>
     : j, k \in {"right", "wrong"}}
  \cup {<<Axiom(a), Decl({b}, {b}, {}, FALSE, "right"), Axiom(c)>>,
        <<Decl({a}, {b}, {}, FALSE, "right"), Decl({b}, {a}, {}, FALSE, "right"), Axiom(c)>>,
        <<Axiom(a), Decl({b}, {c}, {}, FALSE, "right")>>,
        <<Axiom(a), Axiom(b), Axiom(a)>>}

Opt(j, k) ==
  [jobs |-> j, keep_going |-> k, nshards |-> 1, shard |-> 0, skip |-> {},
   stop_at |-> 0, count |-> 0, oom |-> FALSE]

\* The plain command lines, and one of each kind that selects declarations.
MCOpts ==
  {Opt(j, k) : j \in 1..MaxJobs, k \in BOOLEAN}
  \cup {[Opt(j, FALSE) EXCEPT !.nshards = 2, !.shard = 1] : j \in 1..MaxJobs}
  \cup {[Opt(j, TRUE) EXCEPT !.skip = {2}] : j \in 1..MaxJobs}
  \cup {[Opt(j, FALSE) EXCEPT !.stop_at = 2] : j \in 1..MaxJobs}
  \cup {[Opt(j, TRUE) EXCEPT !.count = 1] : j \in 1..MaxJobs}
  \cup {[Opt(j, FALSE) EXCEPT !.oom = TRUE] : j \in 1..MaxJobs}

\* An export with a literal before the declaration of its type.
EarlyLiteral == {<<Decl({b}, {}, {a}, FALSE, "right"), Axiom(a)>>}

PlainOpts == {Opt(j, FALSE) : j \in 1..MaxJobs}
===============================================================================
