------------------------------- MODULE BulkIndex -------------------------------
(***************************************************************************)
(* The load of an export into the permanent tier (src/src/loader.cpp       *)
(* load_export, src/src/expr.cpp build_index, src/src/common.h             *)
(* InternTable::bulk_insert).                                              *)
(*                                                                         *)
(* An export line names a term by the lines its children are on, and every *)
(* term is expected once.  So the nodes are appended without being looked  *)
(* up, and afterwards several threads index them in one open-addressed     *)
(* table, whose slots they fill by compare-and-swap.  A thread that meets  *)
(* a node equal to its own tells so, and the file is loaded again with     *)
(* ordinary interning.                                                     *)
(*                                                                         *)
(* Handles count from 1 here; 0 is the EMPTY slot.                         *)
(***************************************************************************)
EXTENDS Naturals, Sequences, FiniteSets, Functions

CONSTANTS
  Exports,  \* the exports considered: sequences of lines [op, kids]
  Size,     \* slots of the table
  Hashes,   \* the hashes of nodes, as the slots at which probing starts
  Mixes,    \* the hash functions considered, from <<op, hashes of the kids>> to Hashes
  NThreads  \* threads of build_index (8 in the code)

Slots == 0..(Size - 1)
Threads == 0..(NThreads - 1)
Lines(e) == DOMAIN e

\* The table has room: reserve(n) doubles it while n * 4 >= slots * 3, so that
\* neither pass of the load makes it grow.  Every node has a hash.
ASSUME BulkAssumption ==
  /\ Size \in Nat \ {0} /\ NThreads \in Nat \ {0} /\ Hashes \subseteq Slots
  /\ \A e \in Exports :
       /\ Len(e) \in Nat /\ DOMAIN e = 1..Len(e) /\ Len(e) * 4 < Size * 3
       /\ \A l \in Lines(e) : \A j \in DOMAIN e[l].kids : e[l].kids[j] \in 1..(l - 1)
       /\ \A l \in Lines(e) : \A m \in Mixes :
            \A f \in [DOMAIN e[l].kids -> Hashes] : m[<<e[l].op, f>>] \in Hashes

VARIABLES
  export, mix, \* the file, and the hash function: never change
  phase,       \* bulk, index, reload, done
  nodes, hash, \* the permanent tier: nodes and their hashes
  of,          \* the loader's map from lines to handles
  slots,       \* the intern table
  dup,         \* shared by the threads: two nodes turned out equal
  pc, h, i, s  \* of each thread: what it does next, its handle, steps of the probe, slot read

nodeTable == <<nodes, hash, of>>
threads == <<pc, h, i, s>>
vars == <<export, mix, phase, nodeTable, slots, dup, threads>>

\* The terms on the lines.
Tree(e) == LET t[l \in Lines(e)] == <<e[l].op, [j \in DOMAIN e[l].kids |-> t[e[l].kids[j]]]>>
           IN t

\* The handles [lo, hi) of thread t.
Lo(t) == (Len(nodes) * t) \div NThreads + 1
Hi(t) == (Len(nodes) * (t + 1)) \div NThreads

\* The slots probed for a hash, in order.
Probe(x, k) == (x + k) % Size

EmptyTable == [x \in Slots |-> 0]

Init ==
  /\ export \in Exports
  /\ mix \in Mixes
  /\ phase = "bulk"
  /\ nodes = <<>> /\ hash = <<>> /\ of = <<>>
  /\ slots = EmptyTable /\ dup = FALSE
  /\ pc = [t \in Threads |-> "idle"]
  /\ h = [t \in Threads |-> 0] /\ i = [t \in Threads |-> 0] /\ s = [t \in Threads |-> 0]
-------------------------------------------------------------------------------
(* Loading.                                                                  *)

\* The node of the next line: children are the handles of their lines.
Line == Len(of) + 1
Node == LET e == export[Line] IN [op |-> e.op, kids |-> [j \in DOMAIN e.kids |-> of[e.kids[j]]]]

\* The hash of a node is mixed from those of its children.
HashOf(nd) == mix[<<nd.op, [j \in DOMAIN nd.kids |-> hash[nd.kids[j]]]>>]

AppendNode ==
  /\ nodes' = Append(nodes, Node) /\ hash' = Append(hash, HashOf(Node))
  /\ of' = Append(of, Len(nodes) + 1)

\* bulk: append, look nothing up.
LoadBulk ==
  /\ phase = "bulk" /\ Len(of) < Len(export)
  /\ AppendNode
  /\ UNCHANGED <<export, mix, phase, slots, dup, threads>>

StartIndex ==
  /\ phase = "bulk" /\ Len(of) = Len(export)
  /\ phase' = "index"
  /\ h' = [t \in Threads |-> Lo(t)] /\ i' = [t \in Threads |-> 0]
  /\ pc' = [t \in Threads |-> IF Lo(t) <= Hi(t) THEN "load" ELSE "idle"]
  /\ UNCHANGED <<export, mix, nodeTable, slots, dup, s>>

\* The probe for node nd, from hash x on, ends after k slots: at an equal node or at
\* an empty slot.
Stops(x, nd, k) == LET g == slots[Probe(x, k)] IN g # 0 => nodes[g] = nd
Ends(x, nd, k) == Stops(x, nd, k) /\ \A j \in 0..(k - 1) : ~Stops(x, nd, j)

\* Ordinary interning of one line.
LoadInterned ==
  /\ phase = "reload" /\ Len(of) < Len(export)
  /\ \E k \in Slots :
       /\ Ends(HashOf(Node), Node, k)
       /\ LET p == Probe(HashOf(Node), k)
          IN IF slots[p] = 0
               THEN AppendNode /\ slots' = [slots EXCEPT ![p] = Len(nodes) + 1]
               ELSE of' = Append(of, slots[p]) /\ UNCHANGED <<nodes, hash, slots>>
  /\ UNCHANGED <<export, mix, phase, dup, threads>>

Reloaded ==
  /\ phase = "reload" /\ Len(of) = Len(export)
  /\ phase' = "done"
  /\ UNCHANGED <<export, mix, nodeTable, slots, dup, threads>>
-------------------------------------------------------------------------------
(* bulk_insert, in thread t.                                                 *)

Slot(t) == Probe(hash[h[t]], i[t])

\* On to the next handle of the range.
NextHandle(t) ==
  /\ h' = [h EXCEPT ![t] = @ + 1] /\ i' = [i EXCEPT ![t] = 0]
  /\ pc' = [pc EXCEPT ![t] = IF h[t] + 1 <= Hi(t) THEN "load" ELSE "idle"]

LoadSlot(t) ==
  /\ pc[t] = "load"
  /\ s' = [s EXCEPT ![t] = slots[Slot(t)]]
  /\ pc' = [pc EXCEPT ![t] = IF s'[t] = 0 THEN "cas" ELSE "eq"]
  /\ UNCHANGED <<export, mix, phase, nodeTable, slots, dup, h, i>>

\* Slip: the slot seen empty is simply written.
PlainStore(t) ==
  /\ pc[t] = "cas"
  /\ slots' = [slots EXCEPT ![Slot(t)] = h[t]] /\ NextHandle(t)
  /\ UNCHANGED <<export, mix, phase, nodeTable, dup, s>>

CompareExchange(t) ==
  /\ pc[t] = "cas"
  /\ IF slots[Slot(t)] = 0
       THEN slots' = [slots EXCEPT ![Slot(t)] = h[t]] /\ NextHandle(t)
       ELSE pc' = [pc EXCEPT ![t] = "load"] /\ UNCHANGED <<slots, h, i>>
  /\ UNCHANGED <<export, mix, phase, nodeTable, dup, s>>

\* Slip: the probe starts again at the slot it is at.
StaysAtSlot(t) ==
  /\ pc[t] = "eq"
  /\ IF nodes[s[t]] = nodes[h[t]]
       THEN dup' = TRUE /\ NextHandle(t)
       ELSE pc' = [pc EXCEPT ![t] = "load"] /\ UNCHANGED <<dup, h, i>>
  /\ UNCHANGED <<export, mix, phase, nodeTable, slots, s>>

\* The slot holds a node: an equal one, or the probe goes on.  (Comparing the hashes
\* first changes nothing: equal nodes have equal hashes.)
Compare(t) ==
  /\ pc[t] = "eq"
  /\ IF nodes[s[t]] = nodes[h[t]]
       THEN dup' = TRUE /\ NextHandle(t)
       ELSE /\ pc' = [pc EXCEPT ![t] = "load"] /\ i' = [i EXCEPT ![t] = @ + 1]
            /\ UNCHANGED <<dup, h>>
  /\ UNCHANGED <<export, mix, phase, nodeTable, slots, s>>

Joined == phase = "index" /\ \A t \in Threads : pc[t] = "idle"

\* Slip: what the threads found is not looked at.
IgnoresDup ==
  /\ Joined /\ phase' = "done"
  /\ UNCHANGED <<export, mix, nodeTable, slots, dup, threads>>

\* The threads are joined; with a duplicate, reset_permanent and load again.
Join ==
  /\ Joined
  /\ IF dup
       THEN /\ phase' = "reload" /\ nodes' = <<>> /\ hash' = <<>> /\ of' = <<>>
            /\ slots' = EmptyTable
       ELSE phase' = "done" /\ UNCHANGED <<nodeTable, slots>>
  /\ UNCHANGED <<export, mix, dup, threads>>

Loader == LoadBulk \/ StartIndex \/ Join \/ LoadInterned \/ Reloaded
Insert(t) == LoadSlot(t) \/ CompareExchange(t) \/ Compare(t)
Terminated == phase = "done" /\ UNCHANGED vars

Next == Loader \/ (\E t \in Threads : Insert(t)) \/ Terminated

\* The loader goes on and every thread is scheduled.
Spec == Init /\ [][Next]_vars
FairSpec == Spec /\ WF_vars(Loader) /\ \A t \in Threads : WF_vars(Insert(t))
-------------------------------------------------------------------------------
\* The threads find a repeated term exactly if there is one (loader.cpp:290-292),
\* although they compare nodes by the handles of their children only, and although
\* the equal nodes may be inserted by two threads at the same time.
DupExact ==
  Joined =>
    (dup <=> \E l, m \in Lines(export) : l # m /\ Tree(export)[l] = Tree(export)[m])

\* The load "gives equal terms a single handle" (loader.cpp:292), and different ones
\* different handles, whichever way it went.
OneHandle ==
  phase = "done" =>
    \A l, m \in Lines(export) : of[l] = of[m] <=> Tree(export)[l] = Tree(export)[m]

\* What is in the table can be found: the lookup of a permanent node, from its hash
\* on, ends at that node (common.h:177), not at an empty slot before it, wherever the
\* threads put the nodes they raced for.
Findable ==
  phase = "done" =>
    \A g \in DOMAIN nodes :
      \E k \in Slots : Ends(hash[g], nodes[g], k) /\ slots[Probe(hash[g], k)] = g

\* The load ends: no thread probes for ever or is stuck behind a lost exchange.
Termination == <>(phase = "done")
===============================================================================
