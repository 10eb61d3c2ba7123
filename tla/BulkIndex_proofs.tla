--------------------------- MODULE BulkIndex_proofs ---------------------------
(***************************************************************************)
(* Theorems about BulkIndex, for every export, hash function, table size   *)
(* and number of threads.                                                  *)
(***************************************************************************)
EXTENDS BulkIndex, NaturalOrder

\* The nodes of an export, whatever handles their children have.
NodeSet == UNION {[op: {export[l].op}, kids: [DOMAIN export[l].kids -> Nat]] : l \in Lines(export)}
Handles == 1..Len(nodes)

TypeOK ==
  /\ export \in Exports /\ mix \in Mixes
  /\ phase \in {"bulk", "index", "reload", "done"}
  /\ nodes \in Seq(NodeSet) /\ hash \in Seq(Hashes) /\ of \in Seq(Nat)
  /\ slots \in [Slots -> Nat] /\ dup \in BOOLEAN
  /\ pc \in [Threads -> {"idle", "load", "cas", "eq"}]
  /\ h \in [Threads -> Nat] /\ i \in [Threads -> Nat] /\ s \in [Threads -> Nat]

\* The nodes are those of the lines read so far, with the handles of their lines.
Reading ==
  /\ Len(hash) = Len(nodes) /\ Len(nodes) <= Len(of) /\ Len(of) <= Len(export)
  /\ \A l \in 1..Len(of) :
       /\ of[l] \in Handles
       /\ nodes[of[l]] = [op |-> export[l].op,
                          kids |-> [j \in DOMAIN export[l].kids |-> of[export[l].kids[j]]]]
  /\ \A g \in Handles : \E l \in 1..Len(of) : of[l] = g

\* Hashes depend on the node alone.
Hashed ==
  \A g \in Handles :
    /\ \A j \in DOMAIN nodes[g].kids : nodes[g].kids[j] \in 1..(g - 1)
    /\ hash[g] = HashOf(nodes[g])

\* Without look-up, the handles are the lines.
Lined == Len(of) = Len(nodes) /\ \A l \in 1..Len(of) : of[l] = l

InTable(g) == \E x \in Slots : slots[x] = g

\* Whatever is in the table is found there.
Placed ==
  \A x \in Slots : slots[x] # 0 =>
    /\ slots[x] \in Handles
    /\ \E k \in Slots : /\ Probe(hash[slots[x]], k) = x
                        /\ Ends(hash[slots[x]], nodes[slots[x]], k)

\* A thread has handles of its range to go through.  The slots its probe has
\* passed hold other nodes than its own, and the handle is not in the table yet,
\* nor are those after it; those before it are, or a repetition was noticed.
Probing(t) ==
  /\ pc[t] # "idle" => h[t] \in Lo(t)..Hi(t)
  /\ pc[t] = "idle" => h[t] > Hi(t)
  /\ \A k \in 0..(i[t] - 1) : pc[t] # "idle" => ~Stops(hash[h[t]], nodes[h[t]], k)
  /\ pc[t] = "eq" => s[t] # 0 /\ s[t] = slots[Slot(t)]
  /\ h[t] >= Lo(t)
  /\ \A g \in h[t]..Hi(t) : ~InTable(g)
  /\ \A g \in Lo(t)..(h[t] - 1) : dup \/ InTable(g)

Phases ==
  /\ phase \in {"bulk", "index"} \/ ~dup => Lined
  /\ phase = "bulk" => slots = EmptyTable /\ dup = FALSE
  /\ phase = "index" => Len(of) = Len(export) /\ \A t \in Threads : Probing(t)
  /\ phase # "index" => \A t \in Threads : pc[t] = "idle"
  /\ phase \in {"reload", "done"} => \A g \in Handles : InTable(g)
  /\ phase = "done" => Len(of) = Len(export)
  /\ phase = "reload" => dup

\* What the threads say of repetitions is true.
Repeated == dup /\ phase = "index" => \E f, g \in Handles : f # g /\ nodes[f] = nodes[g]

IInv == TypeOK /\ Reading /\ Hashed /\ Placed /\ Phases /\ Repeated
-------------------------------------------------------------------------------
(* Arithmetic: probes, and the ranges of the threads.                        *)

\* A probe stays in the table and comes back after Size steps.
LEMMA ProbeFacts ==
  /\ Size \in Nat \ {0} /\ Hashes \subseteq Slots /\ Slots \subseteq Nat
  /\ \A x, k \in Nat : Probe(x, k) \in Slots
  /\ \A x, k \in Nat : k >= Size => k - Size \in Nat /\ Probe(x, k) = Probe(x, k - Size)
<1>1. Size \in Nat \ {0} /\ Hashes \subseteq Slots
  BY BulkAssumption
<1>2. \A x \in Nat : x % Size \in Slots
  BY <1>1 DEF Slots
<1>3. ASSUME NEW x \in Nat
      PROVE  (x + Size) % Size = x % Size
  <2> DEFINE q == x \div Size
             p == (x + Size) \div Size
             u == x % Size
             v == (x + Size) % Size
  <2>1. /\ q \in Nat /\ p \in Nat /\ u \in 0..(Size - 1) /\ v \in 0..(Size - 1)
        /\ x = Size * q + u /\ x + Size = Size * p + v
    BY <1>1
  <2>2. Size * q + Size = Size * (q + 1)
    BY <1>1, <2>1
  <2> HIDE DEF q, p, u, v
  <2>3. p > q + 1 => Size * p >= Size * (q + 1) + Size
    BY <1>1, <2>1
  <2>4. p < q + 1 => Size * p + Size <= Size * (q + 1)
    BY <1>1, <2>1
  <2>5. p = q + 1
    BY <1>1, <2>1, <2>2, <2>3, <2>4
  <2> QED BY <1>1, <2>1, <2>2, <2>5 DEF u, v
<1>4. ASSUME NEW x \in Nat, NEW k \in Nat, k >= Size
      PROVE  k - Size \in Nat /\ Probe(x, k) = Probe(x, k - Size)
  <2>1. k - Size \in Nat /\ x + (k - Size) \in Nat /\ x + k = (x + (k - Size)) + Size
    BY <1>1, <1>4
  <2> QED BY <1>3, <2>1 DEF Probe
<1> QED BY <1>1, <1>2, <1>4 DEF Probe, Slots

\* Division by the number of threads.
LEMMA DivFacts ==
  ASSUME NEW N \in Nat \ {0}
  PROVE  /\ \A a \in Nat : a \div N \in Nat
         /\ \A a, b \in Nat : a <= b => a \div N <= b \div N
         /\ \A a \in Nat : (a * N) \div N = a
<1>1. \A a \in Nat : a \div N \in Nat /\ N * (a \div N) <= a /\ a < N * (a \div N) + N
  OBVIOUS
<1>2. ASSUME NEW a \in Nat, NEW b \in Nat, a <= b
      PROVE  a \div N <= b \div N
  <2> DEFINE p == a \div N
             q == b \div N
  <2>1. p \in Nat /\ q \in Nat /\ N * p <= a /\ b < N * q + N
    BY <1>1
  <2>2. ~(q + 1 <= p)
    <3>1. SUFFICES ASSUME q + 1 <= p PROVE N * (q + 1) <= N * p
      BY <1>2, <2>1
    <3> QED BY <2>1, <3>1
  <2> QED BY <2>1, <2>2
<1>3. ASSUME NEW a \in Nat
      PROVE  (a * N) \div N = a
  OBVIOUS
<1> QED BY <1>1, <1>2, <1>3

\* The ranges of the threads are disjoint, and every handle is in one of them.
LEMMA RangeFacts ==
  ASSUME Len(nodes) \in Nat
  PROVE  /\ \A t \in Threads : Lo(t) \in Nat \ {0} /\ Hi(t) \in Nat /\ Hi(t) <= Len(nodes)
         /\ \A t, u \in Threads : t < u => Hi(t) < Lo(u)
         /\ \A g \in Handles : \E t \in Threads : g \in Lo(t)..Hi(t)
<1> DEFINE n == Len(nodes)
           d(t) == (n * t) \div NThreads
<1>0. NThreads \in Nat \ {0} /\ \A t \in Nat : n * t \in Nat
  BY BulkAssumption
<1>1. \A t \in Nat : d(t) \in Nat
  BY <1>0, DivFacts
<1>2. ASSUME NEW t \in Nat, NEW u \in Nat, t <= u
      PROVE  d(t) <= d(u)
  <2>1. n * t <= n * u
    BY <1>2
  <2> QED BY <1>0, <2>1, DivFacts
<1>3. d(0) = 0 /\ d(NThreads) = n
  <2>1. n * 0 = 0 * NThreads
    BY <1>0
  <2> QED BY <1>0, <2>1, DivFacts
<1>4. \A t \in Threads : /\ t \in Nat /\ t + 1 \in Nat /\ t + 1 <= NThreads
                         /\ Lo(t) = d(t) + 1 /\ Hi(t) = d(t + 1)
  BY <1>0 DEF Threads, Lo, Hi
<1> HIDE DEF d
<1>5. ASSUME NEW t \in Threads
      PROVE  Lo(t) \in Nat \ {0} /\ Hi(t) \in Nat /\ Hi(t) <= n
  <2>1. d(t) \in Nat /\ d(t + 1) \in Nat
    BY <1>1, <1>4
  <2>2. d(t + 1) <= d(NThreads)
    BY <1>0, <1>2, <1>4
  <2> QED BY <1>3, <1>4, <2>1, <2>2
<1>6. \A t, u \in Threads : t < u => Hi(t) < Lo(u)
  BY <1>1, <1>2, <1>4
<1>7. ASSUME NEW g \in Handles
      PROVE  \E t \in Threads : g \in Lo(t)..Hi(t)
  <2> DEFINE T == {t \in Nat : g <= d(t)}
  <2>1. NThreads \in T /\ 0 \notin T
    BY <1>0, <1>3, <1>7 DEF Handles
  <2>2. PICK u \in T : \A v \in T : u <= v
    BY <2>1, Least
  <2>3. u \in Nat \ {0} /\ u <= NThreads /\ u - 1 \in Nat /\ u - 1 \notin T
    BY <1>0, <2>1, <2>2
  <2>4. u - 1 \in Threads
    BY <1>0, <2>3 DEF Threads
  <2>5. Lo(u - 1) = d(u - 1) + 1 /\ Hi(u - 1) = d(u)
    BY <1>4, <2>3, <2>4
  <2> QED BY <1>1, <2>2, <2>3, <2>4, <2>5, <1>7 DEF Handles
<1> QED BY <1>5, <1>6, <1>7
-------------------------------------------------------------------------------
(* The terms on the lines.                                                   *)

LEMMA ExportFacts ==
  ASSUME NEW e \in Exports
  PROVE  /\ Len(e) \in Nat /\ Lines(e) = 1..Len(e)
         /\ \A l \in Lines(e) : \A j \in DOMAIN e[l].kids : e[l].kids[j] \in 1..(l - 1)
  BY BulkAssumption DEF Lines

\* The definition of Tree is a recursion that ends: there is one function that
\* gives each line its term.
LEMMA TreeDef ==
  ASSUME NEW e \in Exports, NEW l \in Lines(e)
  PROVE  Tree(e)[l] = <<e[l].op, [j \in DOMAIN e[l].kids |-> Tree(e)[e[l].kids[j]]]>>
<1> DEFINE Def(f, m) == <<e[m].op, [j \in DOMAIN e[m].kids |-> f[e[m].kids[j]]]>>
           T == {n \in Nat : n <= Len(e) => \E f : f = [m \in 1..n |-> Def(f, m)]}
<1>1. 0 \in T
  <2>1. [m \in 1..0 |-> 0] = [m \in 1..0 |-> Def([m1 \in 1..0 |-> 0], m)]
    OBVIOUS
  <2> QED BY <2>1
<1>2. ASSUME NEW n \in T
      PROVE  n + 1 \in T
  <2> SUFFICES ASSUME n + 1 <= Len(e)
               PROVE  \E f : f = [m \in 1..(n + 1) |-> Def(f, m)]
    OBVIOUS
  <2>1. PICK f : f = [m \in 1..n |-> Def(f, m)]
    BY ExportFacts
  <2> DEFINE g == [m \in 1..(n + 1) |-> Def(f, m)]
  <2>2. \A m \in 1..n : g[m] = f[m]
    <3>1. ASSUME NEW m \in 1..n
          PROVE  g[m] = f[m]
      <4>1. m \in 1..(n + 1) 
        OBVIOUS
      <4>2. g[m] = Def(f, m)
        BY <4>1
      <4>3. [mm \in 1..n |-> Def(f, mm)][m] = Def(f, m)
        OBVIOUS
      <4> HIDE DEF Def, g
      <4> QED BY <2>1, <4>2, <4>3, Zenon
    <3> QED BY <3>1
  <2>3. ASSUME NEW m \in 1..(n + 1)
        PROVE  Def(f, m) = Def(g, m)
    <3>1. m \in Lines(e)
      BY ExportFacts
    <3>2. \A j \in DOMAIN e[m].kids : e[m].kids[j] \in 1..n
      BY <3>1, ExportFacts
    <3> HIDE DEF g
    <3> QED BY <2>2, <3>2
  <2>4. g = [m \in 1..(n + 1) |-> Def(g, m)]
    <3> HIDE DEF Def
    <3> QED BY <2>3
  <2> QED BY <2>4
<1>3. Len(e) \in T
  <2>1. T = Nat
    <3> HIDE DEF T
    <3>1. T \in SUBSET Nat
      BY DEF T
    <3> QED BY <1>1, <1>2, <3>1, Induction
  <2> HIDE DEF T
  <2> QED BY <2>1, ExportFacts
<1>4. \E f : f = [m \in Lines(e) |-> Def(f, m)]
  BY <1>3, ExportFacts
<1>5. Tree(e) = [m \in Lines(e) |-> Def(Tree(e), m)]
  BY <1>4 DEF Tree
<1>6. [m \in Lines(e) |-> Def(Tree(e), m)][l] = Def(Tree(e), l)
  OBVIOUS
<1>7. Tree(e)[l] = Def(Tree(e), l)
  <2> HIDE DEF Def
  <2> QED BY <1>5, <1>6, Zenon
<1> QED BY <1>7

Different == \A f, g \in Handles : nodes[f] = nodes[g] => f = g

\* A node and a term, each in terms of the children; two lines have the same node
\* (term) exactly if they have the same operator and the same children.
LEMMA LineFacts ==
  ASSUME TypeOK, Reading, NEW l \in 1..Len(of), NEW m \in 1..Len(of)
  PROVE  /\ l \in Lines(export) /\ m \in Lines(export)
         /\ \A j \in DOMAIN export[l].kids : export[l].kids[j] \in 1..(l - 1)
         /\ \A j \in DOMAIN export[m].kids : export[m].kids[j] \in 1..(m - 1)
         /\ nodes[of[l]] = nodes[of[m]] <=>
              /\ export[l].op = export[m].op
              /\ DOMAIN export[l].kids = DOMAIN export[m].kids
              /\ \A j \in DOMAIN export[l].kids : of[export[l].kids[j]] = of[export[m].kids[j]]
         /\ Tree(export)[l] = Tree(export)[m] <=>
              /\ export[l].op = export[m].op
              /\ DOMAIN export[l].kids = DOMAIN export[m].kids
              /\ \A j \in DOMAIN export[l].kids :
                   Tree(export)[export[l].kids[j]] = Tree(export)[export[m].kids[j]]
<1>1. export \in Exports /\ Len(of) \in Nat /\ Len(of) <= Len(export)
  BY DEF TypeOK, Reading
<1>2. l \in Lines(export) /\ m \in Lines(export)
  BY <1>1, ExportFacts
<1>3. /\ \A j \in DOMAIN export[l].kids : export[l].kids[j] \in 1..(l - 1)
      /\ \A j \in DOMAIN export[m].kids : export[m].kids[j] \in 1..(m - 1)
  BY <1>1, <1>2, ExportFacts
<1> DEFINE K(f, n) == [j \in DOMAIN export[n].kids |-> f[export[n].kids[j]]]
<1>4. ASSUME NEW f
      PROVE  K(f, l) = K(f, m) <=>
               /\ DOMAIN export[l].kids = DOMAIN export[m].kids
               /\ \A j \in DOMAIN export[l].kids : f[export[l].kids[j]] = f[export[m].kids[j]]
  <2>1. ASSUME K(f, l) = K(f, m)
        PROVE  /\ DOMAIN export[l].kids = DOMAIN export[m].kids
               /\ \A j \in DOMAIN export[l].kids : f[export[l].kids[j]] = f[export[m].kids[j]]
    <3>1. DOMAIN K(f, l) = DOMAIN export[l].kids /\ DOMAIN K(f, m) = DOMAIN export[m].kids
      OBVIOUS
    <3>2. \A j \in DOMAIN export[l].kids : K(f, l)[j] = f[export[l].kids[j]]
      OBVIOUS
    <3>3. \A j \in DOMAIN export[m].kids : K(f, m)[j] = f[export[m].kids[j]]
      OBVIOUS
    <3> HIDE DEF K
    <3> QED BY <2>1, <3>1, <3>2, <3>3
  <2> QED BY <2>1
<1>5. nodes[of[l]] = [op |-> export[l].op, kids |-> K(of, l)]
  BY DEF Reading
<1>6. nodes[of[m]] = [op |-> export[m].op, kids |-> K(of, m)]
  BY DEF Reading
<1>7. /\ Tree(export)[l] = <<export[l].op, K(Tree(export), l)>>
      /\ Tree(export)[m] = <<export[m].op, K(Tree(export), m)>>
  BY <1>1, <1>2, TreeDef
<1> HIDE DEF K
<1>8. nodes[of[l]] = nodes[of[m]] <=> export[l].op = export[m].op /\ K(of, l) = K(of, m)
  BY <1>5, <1>6
<1>9. Tree(export)[l] = Tree(export)[m]
        <=> export[l].op = export[m].op /\ K(Tree(export), l) = K(Tree(export), m)
  BY <1>7
<1> QED BY <1>2, <1>3, <1>4, <1>8, <1>9

\* When equal nodes have one handle, the lines with the same term are those with
\* the same handle.
LEMMA HandlesAreTerms ==
  ASSUME TypeOK, Reading, Different
  PROVE  \A l, m \in 1..Len(of) : of[l] = of[m] <=> Tree(export)[l] = Tree(export)[m]
<1> DEFINE Same(l, m) == of[l] = of[m] <=> Tree(export)[l] = Tree(export)[m]
           T == {l \in 1..Len(of) : \E m \in 1..Len(of) : ~Same(l, m)}
<1> SUFFICES ASSUME T # {} PROVE FALSE
  OBVIOUS
<1>0. Len(of) \in Nat
  BY DEF TypeOK
<1>1. PICK l \in T : \A k \in T : l <= k
  <2>1. T \in SUBSET Nat
    BY <1>0
  <2> HIDE DEF T
  <2> QED BY <2>1, Least
<1>2. PICK m \in 1..Len(of) : ~Same(l, m)
  OBVIOUS
<1>3. l \in 1..Len(of) /\ \A k \in 1..(l - 1), n \in 1..Len(of) : Same(k, n)
  BY <1>0, <1>1
<1> HIDE DEF T
<1>4. of[l] = of[m] <=> nodes[of[l]] = nodes[of[m]]
  BY <1>2, <1>3 DEF Reading, Different
<1>5. \A j \in DOMAIN export[l].kids :
        DOMAIN export[l].kids = DOMAIN export[m].kids =>
          Same(export[l].kids[j], export[m].kids[j])
  <2>1. \A j \in DOMAIN export[m].kids : export[m].kids[j] \in 1..Len(of)
    BY <1>0, <1>2, <1>3, LineFacts
  <2>2. \A j \in DOMAIN export[l].kids : export[l].kids[j] \in 1..(l - 1)
    BY <1>2, <1>3, LineFacts
  <2> HIDE DEF Same
  <2> QED BY <1>3, <2>1, <2>2
<1> QED BY <1>2, <1>3, <1>4, <1>5, LineFacts

\* Lines with equal nodes have the same term.
LEMMA RepeatedTerm ==
  ASSUME TypeOK, Reading, Lined, NEW l \in Handles, NEW m \in Handles, nodes[l] = nodes[m]
  PROVE  Tree(export)[l] = Tree(export)[m]
<1>1. l \in 1..Len(of) /\ m \in 1..Len(of) /\ Len(of) \in Nat
  BY DEF Lined, Handles, TypeOK
<1>2. \A k \in 1..Len(of) : of[k] = k
  BY DEF Lined
<1>3. /\ export[l].op = export[m].op /\ DOMAIN export[l].kids = DOMAIN export[m].kids
      /\ \A j \in DOMAIN export[l].kids : of[export[l].kids[j]] = of[export[m].kids[j]]
  BY <1>1, <1>2, LineFacts
<1>4. \A j \in DOMAIN export[l].kids :
        export[l].kids[j] \in 1..Len(of) /\ export[m].kids[j] \in 1..Len(of)
  BY <1>1, <1>3, LineFacts
<1>5. \A j \in DOMAIN export[l].kids : export[l].kids[j] = export[m].kids[j]
  <2> SUFFICES ASSUME NEW j \in DOMAIN export[l].kids
               PROVE  export[l].kids[j] = export[m].kids[j]
    OBVIOUS
  <2>1. of[export[l].kids[j]] = of[export[m].kids[j]]
    BY <1>3
  <2> QED BY <1>2, <1>4, <2>1
<1>6. /\ export[l].op = export[m].op /\ DOMAIN export[l].kids = DOMAIN export[m].kids
      /\ \A j \in DOMAIN export[l].kids :
           Tree(export)[export[l].kids[j]] = Tree(export)[export[m].kids[j]]
  BY <1>3, <1>5
<1> QED BY <1>1, <1>6, LineFacts
-------------------------------------------------------------------------------
(* Reading the file.                                                         *)

LEMMA InitIInv == Init => IInv
<1> SUFFICES ASSUME Init PROVE IInv
  OBVIOUS
<1>0. /\ export \in Exports /\ Len(export) \in Nat
      /\ nodes = <<>> /\ hash = <<>> /\ of = <<>> /\ Len(nodes) = 0 /\ Len(of) = 0
      /\ Handles = {} /\ \A x \in Slots : slots[x] = 0
  BY ExportFacts DEF Init, EmptyTable, Handles
<1>1. TypeOK
  <2>1. nodes \in Seq(NodeSet) /\ hash \in Seq(Hashes) /\ of \in Seq(Nat)
    BY <1>0
  <2>2. slots \in [Slots -> Nat]
    BY DEF Init, EmptyTable
  <2> QED BY <2>1, <2>2 DEF TypeOK, Init
<1>2. Reading /\ Hashed /\ Lined
  BY <1>0 DEF Reading, Hashed, Lined
<1>3. Placed /\ Repeated
  BY <1>0 DEF Placed, Repeated, Init
<1>4. Phases
  BY <1>2 DEF Phases, Init
<1> QED BY <1>1, <1>2, <1>3, <1>4 DEF IInv

\* The node of the line to be read.
LEMMA NodeFacts ==
  ASSUME TypeOK, Reading, Hashed, Len(of) < Len(export)
  PROVE  /\ Line \in Lines(export) /\ Node \in NodeSet
         /\ Node = [op |-> export[Line].op,
                    kids |-> [j \in DOMAIN export[Line].kids |-> of[export[Line].kids[j]]]]
         /\ \A j \in DOMAIN export[Line].kids : export[Line].kids[j] \in 1..Len(of)
         /\ \A j \in DOMAIN Node.kids : Node.kids[j] \in Handles
         /\ HashOf(Node) \in Hashes
<1>1. export \in Exports /\ mix \in Mixes /\ Len(of) \in Nat /\ Len(nodes) \in Nat
  BY DEF TypeOK
<1>2. Line \in Lines(export)
  BY <1>1, ExportFacts DEF Line
<1>3. \A j \in DOMAIN export[Line].kids : export[Line].kids[j] \in 1..Len(of)
  BY <1>1, <1>2, ExportFacts DEF Line
<1> DEFINE K == [j \in DOMAIN export[Line].kids |-> of[export[Line].kids[j]]]
<1>4. Node = [op |-> export[Line].op, kids |-> K]
  BY DEF Node
<1>5. DOMAIN K = DOMAIN export[Line].kids /\ \A j \in DOMAIN K : K[j] \in Handles
  BY <1>3 DEF Reading
<1>6. K \in [DOMAIN export[Line].kids -> Nat]
  <2>1. \A j \in DOMAIN export[Line].kids : of[export[Line].kids[j]] \in Nat
    <3>1. \A l \in 1..Len(of) : of[l] \in Nat
      BY DEF TypeOK
    <3> QED BY <1>3, <3>1
  <2> QED BY <2>1
<1> DEFINE H == [j \in DOMAIN K |-> hash[K[j]]]
<1>7. H \in [DOMAIN export[Line].kids -> Hashes]
  <2>1. \A g \in Handles : hash[g] \in Hashes
    BY <1>1 DEF TypeOK, Reading, Handles
  <2>2. \A j \in DOMAIN export[Line].kids : hash[K[j]] \in Hashes
    BY <1>5, <2>1
  <2> HIDE DEF K
  <2> QED BY <1>5, <2>2
<1>8. mix[<<export[Line].op, H>>] \in Hashes
  <2> HIDE DEF H
  <2> QED BY <1>1, <1>2, <1>7, BulkAssumption
<1> HIDE DEF K
<1>9. HashOf(Node) = mix[<<export[Line].op, H>>]
  BY <1>4 DEF HashOf
<1>10. Node \in [op: {export[Line].op}, kids: [DOMAIN export[Line].kids -> Nat]]
  BY <1>4, <1>6
<1>11. Node \in NodeSet
  BY <1>2, <1>10 DEF NodeSet
<1> QED BY <1>2, <1>3, <1>4, <1>5, <1>8, <1>9, <1>11 DEF K

\* What appending a node does.
LEMMA AppendFacts ==
  ASSUME TypeOK, Reading, Hashed, Len(of) < Len(export), AppendNode, UNCHANGED <<export, mix>>
  PROVE  /\ nodes' \in Seq(NodeSet') /\ hash' \in Seq(Hashes) /\ of' \in Seq(Nat)
         /\ Len(nodes') = Len(nodes) + 1 /\ Handles' = Handles \cup {Len(nodes) + 1}
         /\ \A g \in Handles : nodes'[g] = nodes[g] /\ hash'[g] = hash[g]
         /\ nodes'[Len(nodes) + 1] = Node /\ hash'[Len(nodes) + 1] = HashOf(Node)
         /\ HashOf(Node) \in Hashes
         /\ Reading' /\ Hashed'
<1>0. /\ nodes \in Seq(NodeSet) /\ hash \in Seq(Hashes) /\ of \in Seq(Nat)
      /\ Len(nodes) \in Nat /\ Len(of) \in Nat /\ Len(export) \in Nat
  BY ExportFacts DEF TypeOK
<1> DEFINE n == Len(nodes)
<1>1. Node \in NodeSet /\ HashOf(Node) \in Hashes
  BY NodeFacts
<1>2. /\ nodes' \in Seq(NodeSet) /\ Len(nodes') = n + 1
      /\ \A g \in Handles : nodes'[g] = nodes[g]
      /\ nodes'[n + 1] = Node
  BY <1>0, <1>1 DEF AppendNode, Handles
<1>3. /\ hash' \in Seq(Hashes) /\ Len(hash') = n + 1
      /\ \A g \in Handles : hash'[g] = hash[g]
      /\ hash'[n + 1] = HashOf(Node)
  BY <1>0, <1>1 DEF AppendNode, Handles, Reading
<1>4. /\ of' \in Seq(Nat) /\ Len(of') = Len(of) + 1
      /\ \A l \in 1..Len(of) : of'[l] = of[l]
      /\ of'[Line] = n + 1
  BY <1>0 DEF AppendNode, Line
<1>5. NodeSet' = NodeSet /\ Handles' = Handles \cup {n + 1}
  BY <1>0, <1>2 DEF NodeSet, Handles, Lines
<1>6. Reading'
  <2>1. ASSUME NEW l \in 1..Len(of)
        PROVE  /\ of'[l] \in Handles
               /\ nodes'[of'[l]] = [op |-> export[l].op,
                                    kids |-> [j \in DOMAIN export[l].kids |-> of'[export[l].kids[j]]]]
    <3>1. l \in Lines(export) /\ \A j \in DOMAIN export[l].kids : export[l].kids[j] \in 1..Len(of)
      BY <1>0, LineFacts
    <3>2. of'[l] \in Handles /\ nodes'[of'[l]] = nodes[of[l]]
      BY <1>2, <1>4 DEF Reading
    <3>3. [j \in DOMAIN export[l].kids |-> of'[export[l].kids[j]]]
            = [j \in DOMAIN export[l].kids |-> of[export[l].kids[j]]]
      BY <1>4, <3>1
    <3> QED BY <3>2, <3>3 DEF Reading
  <2>2. /\ of'[Line] \in Handles'
        /\ nodes'[of'[Line]] = [op |-> export[Line].op,
                                kids |-> [j \in DOMAIN export[Line].kids |-> of'[export[Line].kids[j]]]]
    <3>1. [j \in DOMAIN export[Line].kids |-> of'[export[Line].kids[j]]]
            = [j \in DOMAIN export[Line].kids |-> of[export[Line].kids[j]]]
      BY <1>4, NodeFacts
    <3> QED BY <1>2, <1>4, <1>5, <3>1, NodeFacts
  <2>3. \A g \in Handles' : \E l \in 1..Len(of') : of'[l] = g
    <3>1. 1..Len(of') = 1..Len(of) \cup {Line}
      BY <1>0, <1>4 DEF Line
    <3> QED BY <1>4, <1>5, <3>1 DEF Reading
  <2>4. 1..Len(of') = 1..Len(of) \cup {Line}
    BY <1>0, <1>4 DEF Line
  <2>5. /\ Len(hash') = Len(nodes') /\ Len(nodes') <= Len(of') /\ Len(of') <= Len(export')
    BY <1>0, <1>2, <1>3, <1>4 DEF Reading
  <2> QED BY <1>5, <2>1, <2>2, <2>3, <2>4, <2>5 DEF Reading
<1>7. Hashed'
  <2> DEFINE Mixed(nd, f) == mix[<<nd.op, [j \in DOMAIN nd.kids |-> f[nd.kids[j]]]>>]
  <2>1. ASSUME NEW nd, \A j \in DOMAIN nd.kids : nd.kids[j] \in Handles
        PROVE  Mixed(nd, hash') = Mixed(nd, hash)
    <3>1. [j \in DOMAIN nd.kids |-> hash'[nd.kids[j]]] = [j \in DOMAIN nd.kids |-> hash[nd.kids[j]]]
      BY <1>3, <2>1
    <3> QED BY <3>1
  <2>2. ASSUME NEW g \in Handles
        PROVE  /\ \A j \in DOMAIN nodes'[g].kids : nodes'[g].kids[j] \in 1..(g - 1)
               /\ hash'[g] = Mixed(nodes'[g], hash')
    <3>1. \A j \in DOMAIN nodes[g].kids : nodes[g].kids[j] \in 1..(g - 1)
      BY DEF Hashed
    <3>2. \A j \in DOMAIN nodes[g].kids : nodes[g].kids[j] \in Handles
      BY <1>0, <3>1 DEF Handles
    <3>3. Mixed(nodes[g], hash') = Mixed(nodes[g], hash)
      BY <2>1, <3>2
    <3>4. hash[g] = Mixed(nodes[g], hash)
      BY DEF Hashed, HashOf
    <3> HIDE DEF Mixed
    <3> QED BY <1>2, <1>3, <3>1, <3>3, <3>4
  <2>3. /\ \A j \in DOMAIN Node.kids : Node.kids[j] \in 1..n
        /\ hash'[n + 1] = Mixed(Node, hash')
    <3>1. \A j \in DOMAIN Node.kids : Node.kids[j] \in Handles
      BY NodeFacts
    <3>2. Mixed(Node, hash') = Mixed(Node, hash)
      BY <2>1, <3>1
    <3>3. HashOf(Node) = Mixed(Node, hash)
      BY DEF HashOf
    <3> HIDE DEF Mixed
    <3> QED BY <1>3, <3>1, <3>2, <3>3 DEF Handles
  <2>4. ASSUME NEW g \in Handles'
        PROVE  /\ \A j \in DOMAIN nodes'[g].kids : nodes'[g].kids[j] \in 1..(g - 1)
               /\ hash'[g] = Mixed(nodes'[g], hash')
    <3> HIDE DEF Mixed
    <3> QED BY <1>0, <1>2, <1>5, <2>2, <2>3
  <2> QED BY <2>4 DEF Hashed, HashOf
<1> QED BY <1>1, <1>2, <1>3, <1>4, <1>5, <1>6, <1>7
-------------------------------------------------------------------------------
(* Inserting into the table.                                                 *)

\* An insertion into an empty slot disturbs no probe that ends elsewhere.
LEMMA InsertPlaced ==
  ASSUME TypeOK, Hashed, Placed, Len(hash) = Len(nodes),
         NEW x \in Slots, slots[x] = 0, NEW g \in Handles', g # 0,
         slots' = [slots EXCEPT ![x] = g],
         Handles \subseteq Handles', hash'[g] \in Hashes,
         \A f \in Handles : nodes'[f] = nodes[f] /\ hash'[f] = hash[f],
         NEW n \in Slots, Probe(hash'[g], n) = x,
         \A j \in 0..(n - 1) : ~Stops(hash'[g], nodes'[g], j)
  PROVE  /\ Placed'
         /\ \A f : InTable(f)' <=> (InTable(f) /\ f # 0) \/ f = g \/ (f = 0 /\ InTable(0)')
<1> DEFINE Passed(y, nd) == slots'[y] # 0 /\ nodes'[slots'[y]] # nd
           EndsNow(z, nd, k) ==
             /\ slots'[Probe(z, k)] # 0 => nodes'[slots'[Probe(z, k)]] = nd
             /\ \A j \in 0..(k - 1) : Passed(Probe(z, j), nd)
<1>1. /\ slots'[x] = g /\ \A y \in Slots \ {x} : slots'[y] = slots[y]
      /\ slots \in [Slots -> Nat]
  BY DEF TypeOK
<1>2. \A y \in Slots : slots[y] # 0 => y # x /\ slots'[y] = slots[y] /\ slots[y] \in Handles
  BY <1>1 DEF Placed
<1>0. Slots \subseteq Nat /\ Hashes \subseteq Nat
  BY ProbeFacts
<1>3. \A f \in Handles : hash[f] \in Nat
  <2>1. \A f \in Handles : hash[f] \in Hashes
    BY DEF TypeOK, Handles
  <2> QED BY <1>0, <2>1
<1>4. hash'[g] \in Nat /\ \A k \in Slots : \A j \in 0..(k - 1) : j \in Nat
  <2>1. hash'[g] \in Nat
    BY <1>0
  <2> QED BY <1>0, <2>1
<1>5. ASSUME NEW y \in Slots, NEW nd, slots[y] # 0, nodes[slots[y]] # nd
      PROVE  Passed(y, nd)
  BY <1>2, <1>5
<1>6. ASSUME NEW y \in Slots, slots[y] # 0
      PROVE  /\ slots'[y] \in Handles'
             /\ \E k \in Slots : /\ Probe(hash'[slots'[y]], k) = y
                                 /\ EndsNow(hash'[slots'[y]], nodes'[slots'[y]], k)
  <2>1. PICK f \in Handles : f = slots[y]
    BY <1>2, <1>6
  <2>2. f \in Handles' /\ slots'[y] = f /\ nodes'[f] = nodes[f] /\ hash'[f] = hash[f]
    BY <1>2, <1>6, <2>1
  <2>3. PICK k \in Slots : Probe(hash[f], k) = y /\ Ends(hash[f], nodes[f], k)
    BY <1>6, <2>1 DEF Placed
  <2>4. ASSUME NEW j \in 0..(k - 1)
        PROVE  Passed(Probe(hash[f], j), nodes[f])
    <3>1. Probe(hash[f], j) \in Slots
      BY <1>3, <1>4, ProbeFacts
    <3>2. slots[Probe(hash[f], j)] # 0 /\ nodes[slots[Probe(hash[f], j)]] # nodes[f]
      BY <2>3 DEF Ends, Stops
    <3> QED BY <1>5, <3>1, <3>2
  <2> HIDE DEF Passed
  <2>5. EndsNow(hash[f], nodes[f], k)
    BY <2>2, <2>3, <2>4
  <2> QED BY <2>2, <2>3, <2>5
<1>7. EndsNow(hash'[g], nodes'[g], n)
  <2>1. ASSUME NEW j \in 0..(n - 1)
        PROVE  Passed(Probe(hash'[g], j), nodes'[g])
    <3>1. Probe(hash'[g], j) \in Slots
      BY <1>4, ProbeFacts
    <3>2. slots[Probe(hash'[g], j)] # 0 /\ nodes[slots[Probe(hash'[g], j)]] # nodes'[g]
      BY DEF Stops
    <3> QED BY <1>5, <3>1, <3>2
  <2> HIDE DEF Passed
  <2> QED BY <1>1, <2>1
<1>9. Placed'
  <2>1. ASSUME NEW y \in Slots, slots'[y] # 0
        PROVE  /\ slots'[y] \in Handles'
               /\ \E k \in Slots : /\ Probe(hash'[slots'[y]], k) = y
                                   /\ EndsNow(hash'[slots'[y]], nodes'[slots'[y]], k)
    <3> HIDE DEF EndsNow
    <3>1. CASE y = x
      BY <1>1, <1>7, <3>1
    <3>2. CASE y # x
      BY <1>1, <1>6, <2>1, <3>2
    <3> QED BY <3>1, <3>2
  <2> QED BY <2>1 DEF Placed, Ends, Stops
<1>8. \A f : InTable(f)' <=> (InTable(f) /\ f # 0) \/ f = g \/ (f = 0 /\ InTable(0)')
  BY <1>1, <1>2 DEF InTable
<1> QED BY <1>8, <1>9
-------------------------------------------------------------------------------
(* The steps of the loader.                                                  *)

\* The invariant does not depend on how far the threads are, unless they run.
LEMMA Same ==
  ASSUME UNCHANGED <<export, mix, nodes, hash, of, slots>>
  PROVE  /\ NodeSet' = NodeSet /\ Handles' = Handles
         /\ (Reading => Reading') /\ (Hashed => Hashed') /\ (Placed => Placed')
         /\ (Lined => Lined')
         /\ \A f : InTable(f)' <=> InTable(f)
<1>1. NodeSet' = NodeSet /\ Handles' = Handles
  BY DEF NodeSet, Handles, Lines
<1>2. Reading = Reading'
  BY <1>1 DEF Reading
<1>3. Hashed = Hashed'
  BY <1>1 DEF Hashed, HashOf
<1>4. Placed = Placed'
  BY <1>1 DEF Placed, Ends, Stops
<1>5. Lined = Lined' /\ \A f : InTable(f)' <=> InTable(f)
  BY DEF Lined, InTable
<1> QED BY <1>1, <1>2, <1>3, <1>4, <1>5

LEMMA LoadBulkIInv == IInv /\ LoadBulk => IInv'
<1> SUFFICES ASSUME IInv, LoadBulk PROVE IInv'
  OBVIOUS
<1> USE DEF IInv
<1>1. /\ AppendNode /\ Len(of) < Len(export) /\ phase = "bulk" /\ Lined
      /\ UNCHANGED <<export, mix, phase, slots, dup, pc, h, i, s>>
      /\ Len(nodes) \in Nat /\ Len(of) \in Nat
  BY DEF LoadBulk, threads, Phases, TypeOK
<1>2. TypeOK' /\ Reading' /\ Hashed'
  BY <1>1, AppendFacts DEF TypeOK
<1>3. slots = EmptyTable /\ dup = FALSE /\ \A t \in Threads : pc[t] = "idle"
  BY <1>1 DEF Phases
<1>4. Placed' /\ Repeated'
  BY <1>1, <1>3 DEF Placed, Repeated, EmptyTable
<1>5. Lined'
  <2>1. of \in Seq(Nat) /\ of' = Append(of, Len(nodes) + 1) /\ Len(nodes') = Len(nodes) + 1
    BY <1>1, AppendFacts DEF AppendNode, TypeOK
  <2> QED BY <1>1, <2>1 DEF Lined
<1>6. Phases'
  BY <1>1, <1>3, <1>5 DEF Phases
<1> QED BY <1>2, <1>4, <1>5, <1>6

LEMMA StartIndexIInv == IInv /\ StartIndex => IInv'
<1> SUFFICES ASSUME IInv, StartIndex PROVE IInv'
  OBVIOUS
<1> USE DEF IInv
<1>1. /\ phase = "bulk" /\ phase' = "index" /\ Len(of) = Len(export)
      /\ UNCHANGED <<export, mix, nodeTable, slots, dup, s>>
      /\ Len(nodes) \in Nat
  BY DEF StartIndex, TypeOK
<1>2. NodeSet' = NodeSet /\ Reading' /\ Hashed' /\ Placed' /\ (Lined => Lined')
  BY <1>1, Same DEF nodeTable
<1>3. \A t \in Threads : /\ h'[t] = Lo(t) /\ i'[t] = 0
                         /\ pc'[t] = IF Lo(t) <= Hi(t) THEN "load" ELSE "idle"
  BY DEF StartIndex
<1>4. \A t \in Threads : Lo(t)' = Lo(t) /\ Hi(t)' = Hi(t) /\ Lo(t) \in Nat \ {0} /\ Hi(t) \in Nat
  BY <1>1, RangeFacts DEF Lo, Hi, nodeTable
<1>5. TypeOK'
  BY <1>1, <1>2, <1>4 DEF TypeOK, StartIndex, nodeTable
<1>6. slots = EmptyTable /\ dup = FALSE
  BY <1>1 DEF Phases
<1>7. \A g \in Nat \ {0} : ~InTable(g)'
  BY <1>1, <1>6 DEF InTable, EmptyTable
<1>8. ASSUME NEW t \in Threads
      PROVE  Probing(t)'
  BY <1>3, <1>4, <1>7 DEF Probing
<1>9. Phases' /\ Repeated'
  BY <1>1, <1>2, <1>6, <1>8 DEF Phases, Repeated, nodeTable
<1> QED BY <1>2, <1>5, <1>9

\* When the threads are done without having met a repetition, every node is in
\* the table.
LEMMA AllInTable ==
  ASSUME IInv, Joined, ~dup
  PROVE  \A g \in Handles : InTable(g)
<1>1. Len(nodes) \in Nat /\ \A t \in Threads : Probing(t) /\ pc[t] = "idle"
  BY DEF IInv, TypeOK, Joined, Phases
<1>2. ASSUME NEW g \in Handles
      PROVE  InTable(g)
  <2>1. PICK t \in Threads : g \in Lo(t)..Hi(t)
    BY <1>1, RangeFacts
  <2>2. h[t] > Hi(t) /\ h[t] \in Nat /\ Lo(t) \in Nat /\ Hi(t) \in Nat
    BY <1>1, RangeFacts DEF Probing, IInv, TypeOK
  <2>3. g \in Lo(t)..(h[t] - 1)
    BY <2>1, <2>2
  <2> QED BY <1>1, <2>3 DEF Probing
<1> QED BY <1>2

LEMMA JoinIInv == IInv /\ Join => IInv'
<1> SUFFICES ASSUME IInv, Join PROVE IInv'
  OBVIOUS
<1> USE DEF IInv
<1>1. /\ phase = "index" /\ Len(of) = Len(export) /\ Lined
      /\ \A t \in Threads : pc[t] = "idle"
      /\ UNCHANGED <<export, mix, dup, pc, h, i, s>>
  BY DEF Join, Joined, Phases, threads
<1>2. CASE dup
  <2>1. /\ phase' = "reload" /\ nodes' = <<>> /\ hash' = <<>> /\ of' = <<>>
        /\ slots' = EmptyTable /\ Len(nodes') = 0 /\ Len(of') = 0 /\ Len(export) \in Nat
        /\ Handles' = {}
    BY <1>2, ExportFacts DEF Join, TypeOK, Handles
  <2>2. /\ nodes' \in Seq(NodeSet') /\ hash' \in Seq(Hashes) /\ of' \in Seq(Nat)
    BY <2>1
  <2>3. TypeOK'
    BY <1>1, <2>1, <2>2 DEF TypeOK, EmptyTable
  <2>4. Reading' /\ Hashed' /\ Lined'
    BY <1>1, <2>1 DEF Reading, Hashed, Lined
  <2>5. Placed' /\ Repeated'
    BY <2>1 DEF Placed, Repeated, EmptyTable
  <2>6. Phases'
    BY <1>1, <1>2, <2>1, <2>4 DEF Phases
  <2> QED BY <2>3, <2>4, <2>5, <2>6
<1>3. CASE ~dup
  <2>1. phase' = "done" /\ UNCHANGED <<nodeTable, slots>>
    BY <1>3 DEF Join
  <2>2. /\ Reading' /\ Hashed' /\ Placed' /\ Lined'
        /\ NodeSet' = NodeSet /\ Handles' = Handles /\ \A f : InTable(f)' <=> InTable(f)
    BY <1>1, <2>1, Same DEF nodeTable
  <2>3. TypeOK'
    BY <1>1, <2>1, <2>2 DEF TypeOK, nodeTable
  <2>4. \A g \in Handles : InTable(g)
    BY <1>3, AllInTable DEF Join
  <2>5. Phases' /\ Repeated'
    BY <1>1, <1>3, <2>1, <2>2, <2>4 DEF Phases, Repeated, nodeTable
  <2> QED BY <2>2, <2>3, <2>5
<1> QED BY <1>2, <1>3

LEMMA ReloadedIInv == IInv /\ Reloaded => IInv'
<1> SUFFICES ASSUME IInv, Reloaded PROVE IInv'
  OBVIOUS
<1> USE DEF IInv
<1>1. /\ phase = "reload" /\ phase' = "done" /\ Len(of) = Len(export) /\ dup
      /\ UNCHANGED <<export, mix, nodeTable, slots, dup, pc, h, i, s>>
  BY DEF Reloaded, threads, Phases
<1>2. /\ Reading' /\ Hashed' /\ Placed'
      /\ NodeSet' = NodeSet /\ Handles' = Handles /\ \A f : InTable(f)' <=> InTable(f)
  BY <1>1, Same DEF nodeTable
<1>3. TypeOK'
  BY <1>1, <1>2 DEF TypeOK, nodeTable
<1>4. Phases' /\ Repeated'
  BY <1>1, <1>2 DEF Phases, Repeated, nodeTable
<1> QED BY <1>2, <1>3, <1>4

\* The line's node is in the table already.
LEMMA FoundReading ==
  ASSUME TypeOK, Reading, Hashed, Len(of) < Len(export), UNCHANGED <<export, nodes, hash>>,
         NEW g \in Handles, nodes[g] = Node, of' = Append(of, g)
  PROVE  of' \in Seq(Nat) /\ Reading'
<1>1. of \in Seq(Nat) /\ Len(of) \in Nat /\ Len(nodes) \in Nat /\ Len(export) \in Nat
  BY ExportFacts DEF TypeOK
<1>2. /\ of' \in Seq(Nat) /\ Len(of') = Len(of) + 1 /\ 1..Len(of') = 1..Len(of) \cup {Line}
      /\ \A l \in 1..Len(of) : of'[l] = of[l]
      /\ of'[Line] = g
  BY <1>1 DEF Line, Handles
<1>3. ASSUME NEW l \in 1..Len(of)
      PROVE  /\ of'[l] \in Handles
             /\ nodes[of'[l]] = [op |-> export[l].op,
                                 kids |-> [j \in DOMAIN export[l].kids |-> of'[export[l].kids[j]]]]
  <2>1. \A j \in DOMAIN export[l].kids : export[l].kids[j] \in 1..Len(of)
    BY <1>1, LineFacts
  <2>2. [j \in DOMAIN export[l].kids |-> of'[export[l].kids[j]]]
          = [j \in DOMAIN export[l].kids |-> of[export[l].kids[j]]]
    BY <1>2, <2>1
  <2> QED BY <1>2, <2>2 DEF Reading
<1>4. /\ of'[Line] \in Handles
      /\ nodes[of'[Line]] = [op |-> export[Line].op,
                             kids |-> [j \in DOMAIN export[Line].kids |-> of'[export[Line].kids[j]]]]
  <2>1. [j \in DOMAIN export[Line].kids |-> of'[export[Line].kids[j]]]
          = [j \in DOMAIN export[Line].kids |-> of[export[Line].kids[j]]]
    BY <1>2, NodeFacts
  <2> QED BY <1>2, <2>1, NodeFacts
<1>5. \A f \in Handles : \E l \in 1..Len(of') : of'[l] = f
  BY <1>2 DEF Reading
<1>6. Len(hash) = Len(nodes) /\ Len(nodes) <= Len(of') /\ Len(of') <= Len(export)
  BY <1>1, <1>2 DEF Reading
<1>7. Handles' = Handles
  BY DEF Handles
<1>8. \A l \in 1..Len(of') :
        /\ of'[l] \in Handles
        /\ nodes[of'[l]] = [op |-> export[l].op,
                            kids |-> [j \in DOMAIN export[l].kids |-> of'[export[l].kids[j]]]]
  BY <1>2, <1>3, <1>4
<1>9. /\ Len(hash') = Len(nodes') /\ Len(nodes') <= Len(of') /\ Len(of') <= Len(export')
  BY <1>6
<1>10. ASSUME NEW l \in 1..Len(of')
       PROVE  /\ of'[l] \in Handles'
              /\ nodes'[of'[l]] = [op |-> export'[l].op,
                                   kids |-> [j \in DOMAIN export'[l].kids |-> of'[export'[l].kids[j]]]]
  BY <1>7, <1>8
<1>11. \A f \in Handles' : \E l \in 1..Len(of') : of'[l] = f
  BY <1>5, <1>7
<1> QED BY <1>2, <1>9, <1>10, <1>11, Zenon DEF Reading

LEMMA LoadInternedIInv == IInv /\ LoadInterned => IInv'
<1> SUFFICES ASSUME IInv, LoadInterned PROVE IInv'
  OBVIOUS
<1> USE DEF IInv
<1>1. /\ phase = "reload" /\ dup /\ Len(of) < Len(export)
      /\ \A t \in Threads : pc[t] = "idle"
      /\ \A g \in Handles : InTable(g)
      /\ UNCHANGED <<export, mix, phase, dup, pc, h, i, s>>
      /\ Len(nodes) \in Nat /\ Len(hash) = Len(nodes)
  BY DEF LoadInterned, threads, Phases, TypeOK, Reading
<1>2. PICK k \in Slots :
        /\ Ends(HashOf(Node), Node, k)
        /\ LET p == Probe(HashOf(Node), k)
           IN IF slots[p] = 0
                THEN AppendNode /\ slots' = [slots EXCEPT ![p] = Len(nodes) + 1]
                ELSE of' = Append(of, slots[p]) /\ UNCHANGED <<nodes, hash, slots>>
  BY DEF LoadInterned
<1>3. PICK p \in Slots : p = Probe(HashOf(Node), k)
  BY <1>1, NodeFacts, ProbeFacts
<1>4. CASE slots[p] = 0
  <2>1. AppendNode /\ slots' = [slots EXCEPT ![p] = Len(nodes) + 1]
    BY <1>2, <1>3, <1>4
  <2> DEFINE g == Len(nodes) + 1
  <2>2. /\ nodes' \in Seq(NodeSet') /\ hash' \in Seq(Hashes) /\ of' \in Seq(Nat)
        /\ Len(nodes') = g /\ Handles' = Handles \cup {g}
        /\ \A f \in Handles : nodes'[f] = nodes[f] /\ hash'[f] = hash[f]
        /\ nodes'[g] = Node /\ hash'[g] = HashOf(Node) /\ HashOf(Node) \in Hashes
        /\ Reading' /\ Hashed'
    BY <1>1, <2>1, AppendFacts
  <2>3. \A j \in 0..(k - 1) : ~Stops(hash'[g], nodes'[g], j)
    BY <1>2, <2>2 DEF Ends
  <2>4. /\ Placed'
        /\ \A f : InTable(f)' <=> (InTable(f) /\ f # 0) \/ f = g \/ (f = 0 /\ InTable(0)')
    <3> g \in Handles' /\ g # 0 /\ Handles \subseteq Handles' /\ hash'[g] \in Hashes
      BY <1>1, <2>2
    <3> HIDE DEF g
    <3> QED BY <1>1, <1>3, <1>4, <2>1, <2>2, <2>3, InsertPlaced DEF g
  <2>5. \A f \in Handles' : InTable(f)'
    BY <1>1, <2>2, <2>4 DEF Handles
  <2>6. TypeOK'
    BY <1>1, <2>1, <2>2 DEF TypeOK
  <2>7. Phases' /\ Repeated'
    BY <1>1, <2>5 DEF Phases, Repeated
  <2> QED BY <2>2, <2>4, <2>6, <2>7
<1>5. CASE slots[p] # 0
  <2>1. of' = Append(of, slots[p]) /\ UNCHANGED <<nodes, hash, slots>>
    BY <1>2, <1>3, <1>5
  <2>2. slots[p] \in Handles /\ nodes[slots[p]] = Node
    BY <1>2, <1>3, <1>5 DEF Ends, Stops, Placed
  <2>3. of' \in Seq(Nat) /\ Reading'
    BY <1>1, <2>1, <2>2, FoundReading
  <2>4. /\ NodeSet' = NodeSet /\ Handles' = Handles
        /\ Hashed' /\ Placed'
        /\ \A f : InTable(f)' <=> InTable(f)
    <3>1. NodeSet' = NodeSet /\ Handles' = Handles
      BY <1>1, <2>1 DEF NodeSet, Lines, Handles
    <3>2. Hashed'
      BY <1>1, <2>1, <3>1 DEF Hashed, HashOf
    <3>3. Placed'
      BY <1>1, <2>1, <3>1 DEF Placed, Ends, Stops
    <3>4. \A f : InTable(f)' <=> InTable(f)
      BY <2>1 DEF InTable
    <3> QED BY <3>1, <3>2, <3>3, <3>4
  <2>5. TypeOK'
    BY <1>1, <2>1, <2>3, <2>4 DEF TypeOK
  <2>6. Phases' /\ Repeated'
    BY <1>1, <2>4 DEF Phases, Repeated
  <2> QED BY <2>3, <2>4, <2>5, <2>6
<1> QED BY <1>4, <1>5
-------------------------------------------------------------------------------
(* The steps of the threads.                                                 *)

\* The handle a thread is at.
LEMMA HandleFacts ==
  ASSUME TypeOK, Reading, NEW t \in Threads, Probing(t), pc[t] # "idle"
  PROVE  /\ h[t] \in Handles /\ h[t] \in Nat \ {0} /\ h[t] \in Lo(t)..Hi(t)
         /\ Lo(t) \in Nat \ {0} /\ Hi(t) \in Nat
         /\ hash[h[t]] \in Nat /\ i[t] \in Nat /\ Slot(t) \in Slots
         /\ \A k \in 0..(i[t] - 1) : Probe(hash[h[t]], k) \in Slots
<1>1. Len(nodes) \in Nat /\ Len(hash) = Len(nodes) /\ h[t] \in Nat /\ i[t] \in Nat
  BY DEF TypeOK, Reading
<1>2. Lo(t) \in Nat \ {0} /\ Hi(t) \in Nat /\ Hi(t) <= Len(nodes) /\ h[t] \in Lo(t)..Hi(t)
  BY <1>1, RangeFacts DEF Probing
<1>3. h[t] \in Handles
  BY <1>1, <1>2 DEF Handles
<1>4. hash[h[t]] \in Hashes
  BY <1>1, <1>3 DEF TypeOK, Handles
<1>5. hash[h[t]] \in Nat
  BY <1>4, ProbeFacts
<1>6. Slot(t) \in Slots
  BY <1>1, <1>5, ProbeFacts DEF Slot
<1>7. \A k \in 0..(i[t] - 1) : Probe(hash[h[t]], k) \in Slots
  <2>1. \A k \in 0..(i[t] - 1) : k \in Nat
    BY <1>1
  <2> QED BY <1>5, <2>1, ProbeFacts
<1> QED BY <1>1, <1>2, <1>3, <1>5, <1>6, <1>7

\* What a step of thread t does to the table.
Writes(t) ==
  \/ UNCHANGED slots
  \/ slots[Slot(t)] = 0 /\ slots' = [slots EXCEPT ![Slot(t)] = h[t]]

LEMMA WriteFacts ==
  ASSUME TypeOK, Reading, NEW t \in Threads, Probing(t), pc[t] # "idle", Writes(t)
  PROVE  /\ slots' \in [Slots -> Nat]
         /\ \A x \in Slots : slots[x] # 0 => slots'[x] = slots[x]
         /\ \A f : InTable(f)' => InTable(f) \/ f = h[t]
         /\ \A f : InTable(f) /\ f # 0 => InTable(f)'
<1>1. h[t] \in Nat /\ Slot(t) \in Slots /\ slots \in [Slots -> Nat]
  BY HandleFacts DEF TypeOK
<1>2. CASE UNCHANGED slots
  BY <1>1, <1>2 DEF InTable
<1>3. CASE slots[Slot(t)] = 0 /\ slots' = [slots EXCEPT ![Slot(t)] = h[t]]
  BY <1>1, <1>3 DEF InTable
<1> QED BY <1>2, <1>3 DEF Writes

\* A thread is not disturbed by the steps of another.
LEMMA OtherProbing ==
  ASSUME TypeOK, Reading, NEW t \in Threads, NEW u \in Threads \ {t},
         Probing(t), Probing(u), pc[t] # "idle", Writes(t),
         UNCHANGED <<nodes, hash, pc[u], h[u], i[u], s[u]>>, dup => dup'
  PROVE  Probing(u)'
<1>1. /\ \A x \in Slots : slots[x] # 0 => slots'[x] = slots[x]
      /\ \A f : InTable(f)' => InTable(f) \/ f = h[t]
      /\ \A f : InTable(f) /\ f # 0 => InTable(f)'
  BY WriteFacts
<1>2. Lo(u)' = Lo(u) /\ Hi(u)' = Hi(u) /\ Slot(u)' = Slot(u)
  BY DEF Lo, Hi, Slot
<1>3. /\ Lo(u) \in Nat \ {0} /\ Hi(u) \in Nat /\ Lo(t) \in Nat \ {0} /\ Hi(t) \in Nat
      /\ h[u] \in Nat /\ h[t] \in Nat /\ h[t] \in Lo(t)..Hi(t) /\ h[u] >= Lo(u)
      /\ Hi(t) < Lo(u) \/ Hi(u) < Lo(t)
  <2>1. Len(nodes) \in Nat /\ t \in Nat /\ u \in Nat /\ t # u
    BY BulkAssumption DEF TypeOK, Threads
  <2> QED BY <2>1, RangeFacts DEF Probing, TypeOK
<1>4. h[t] \notin h[u]..Hi(u)
  BY <1>3
<1>5. ASSUME pc[u] # "idle"
      PROVE  /\ \A k \in 0..(i[u] - 1) : ~Stops(hash[h[u]], nodes[h[u]], k)'
             /\ pc[u] = "eq" => s[u] = slots'[Slot(u)]
  <2>1. Slot(u) \in Slots /\ \A k \in 0..(i[u] - 1) : Probe(hash[h[u]], k) \in Slots
    BY <1>5, HandleFacts
  <2>2. \A k \in 0..(i[u] - 1) :
          /\ slots[Probe(hash[h[u]], k)] # 0
          /\ nodes[slots[Probe(hash[h[u]], k)]] # nodes[h[u]]
    BY <1>5 DEF Probing, Stops
  <2>3. \A k \in 0..(i[u] - 1) : slots'[Probe(hash[h[u]], k)] = slots[Probe(hash[h[u]], k)]
    BY <1>1, <2>1, <2>2
  <2> QED BY <1>1, <2>1, <2>2, <2>3 DEF Stops, Probing
<1>6. /\ \A g \in h[u]..Hi(u) : ~InTable(g)'
      /\ \A g \in Lo(u)..(h[u] - 1) : dup' \/ InTable(g)'
  <2>1. \A g \in Lo(u)..(h[u] - 1) : g # 0
    BY <1>3
  <2> QED BY <1>1, <1>4, <2>1 DEF Probing
<1> QED BY <1>2, <1>5, <1>6 DEF Probing

\* A thread goes on to its next handle when the one it was at is in the table, or a
\* repetition was noticed.
LEMMA NextHandleProbing ==
  ASSUME TypeOK, Reading, NEW t \in Threads, Probing(t), pc[t] # "idle", Writes(t),
         NextHandle(t), UNCHANGED <<nodes, hash>>, dup => dup',
         dup' \/ \E x \in Slots : slots'[x] = h[t]
  PROVE  Probing(t)'
<1>1. /\ \A f : InTable(f)' => InTable(f) \/ f = h[t]
      /\ \A f : InTable(f) /\ f # 0 => InTable(f)'
  BY WriteFacts
<1>2. Lo(t)' = Lo(t) /\ Hi(t)' = Hi(t)
  BY DEF Lo, Hi
<1>3. /\ h'[t] = h[t] + 1 /\ i'[t] = 0
      /\ pc'[t] = IF h[t] + 1 <= Hi(t) THEN "load" ELSE "idle"
  BY DEF NextHandle, TypeOK
<1>4. Lo(t) \in Nat \ {0} /\ Hi(t) \in Nat /\ h[t] \in Nat /\ h[t] \in Lo(t)..Hi(t)
  BY HandleFacts
<1>5. \A g \in h'[t]..Hi(t) : ~InTable(g)'
  <2>1. \A g \in (h[t] + 1)..Hi(t) : g \in h[t]..Hi(t) /\ g # h[t]
    BY <1>4
  <2> QED BY <1>1, <1>3, <2>1 DEF Probing
<1>6. \A g \in Lo(t)..(h'[t] - 1) : dup' \/ InTable(g)'
  <2> SUFFICES ASSUME NEW g \in Lo(t)..(h'[t] - 1)
               PROVE  dup' \/ InTable(g)'
    OBVIOUS
  <2>1. g = h[t] \/ (g \in Lo(t)..(h[t] - 1) /\ g # 0)
    BY <1>3, <1>4
  <2>2. g \in Lo(t)..(h[t] - 1) => dup \/ InTable(g)
    BY DEF Probing
  <2>3. g = h[t] => dup' \/ InTable(g)'
    BY DEF InTable
  <2> QED BY <1>1, <2>1, <2>2, <2>3
<1>7. /\ pc'[t] # "idle" => h'[t] \in Lo(t)..Hi(t)
      /\ pc'[t] = "idle" => h'[t] > Hi(t)
      /\ h'[t] >= Lo(t) /\ pc'[t] # "eq"
      /\ 0..(i'[t] - 1) = {}
  BY <1>3, <1>4
<1> QED BY <1>2, <1>5, <1>6, <1>7 DEF Probing

LEMMA LoadSlotProbing ==
  ASSUME TypeOK, Reading, NEW t \in Threads, Probing(t), LoadSlot(t)
  PROVE  pc[t] # "idle" /\ Writes(t) /\ Probing(t)'
<1>1. /\ pc[t] = "load" /\ s'[t] = slots[Slot(t)]
      /\ pc'[t] = IF slots[Slot(t)] = 0 THEN "cas" ELSE "eq"
      /\ UNCHANGED <<nodes, hash, slots, dup, h, i>>
  BY DEF LoadSlot, TypeOK, nodeTable
<1>2. Lo(t)' = Lo(t) /\ Hi(t)' = Hi(t) /\ Slot(t)' = Slot(t)
  BY <1>1 DEF Lo, Hi, Slot
<1>3. \A f : InTable(f)' <=> InTable(f)
  BY <1>1 DEF InTable
<1>4. \A k \in 0..(i[t] - 1) : ~Stops(hash[h[t]], nodes[h[t]], k)'
  BY <1>1 DEF Probing, Stops
<1>5. pc'[t] = "eq" => s'[t] # 0 /\ s'[t] = slots'[Slot(t)]
  BY <1>1
<1> QED BY <1>1, <1>2, <1>3, <1>4, <1>5 DEF Probing, Writes

\* The exchange succeeds: the handle is where its probe was.  (The probe has not
\* gone round the table: the slots it has passed are taken.)
LEMMA ExchangeProbing ==
  ASSUME TypeOK, Reading, Hashed, Placed, NEW t \in Threads, Probing(t), CompareExchange(t)
  PROVE  pc[t] # "idle" /\ Writes(t) /\ Probing(t)' /\ Placed'
<1>1. pc[t] = "cas" /\ UNCHANGED <<nodes, hash, of, dup, s>>
  BY DEF CompareExchange, nodeTable
<1>2. /\ h[t] \in Handles /\ h[t] # 0 /\ hash[h[t]] \in Nat /\ i[t] \in Nat /\ Slot(t) \in Slots
      /\ Handles' = Handles /\ Len(hash) = Len(nodes) /\ Len(nodes) \in Nat
  BY <1>1, HandleFacts DEF Handles, Reading, TypeOK
<1>3. CASE slots[Slot(t)] = 0
  <2>1. slots' = [slots EXCEPT ![Slot(t)] = h[t]] /\ NextHandle(t)
    BY <1>3 DEF CompareExchange
  <2>2. Writes(t)
    BY <1>3, <2>1 DEF Writes
  <2>3. slots'[Slot(t)] = h[t]
    BY <1>2, <2>1 DEF TypeOK
  <2>4. Probing(t)'
    BY <1>1, <1>2, <2>1, <2>2, <2>3, NextHandleProbing
  <2>5. \A j \in 0..(i[t] - 1) : ~Stops(hash[h[t]], nodes[h[t]], j)
    BY <1>1 DEF Probing
  <2>6. i[t] \in Slots
    <3>1. Size \in Nat \ {0}
      BY ProbeFacts
    <3>2. SUFFICES ASSUME i[t] >= Size PROVE FALSE
      BY <1>2, <3>1 DEF Slots
    <3>3. i[t] - Size \in 0..(i[t] - 1) /\ Slot(t) = Probe(hash[h[t]], i[t] - Size)
      BY <1>2, <3>1, <3>2, ProbeFacts DEF Slot
    <3> QED BY <1>3, <2>5, <3>3 DEF Stops
  <2>7. Placed'
    <3>1. PICK x \in Slots, g \in Handles', n \in Slots : x = Slot(t) /\ g = h[t] /\ n = i[t]
      BY <1>2, <2>6
    <3>2. /\ slots[x] = 0 /\ g # 0 /\ slots' = [slots EXCEPT ![x] = g]
          /\ Handles \subseteq Handles' /\ Probe(hash'[g], n) = x
          /\ \A f \in Handles : nodes'[f] = nodes[f] /\ hash'[f] = hash[f]
          /\ \A j \in 0..(n - 1) : ~Stops(hash'[g], nodes'[g], j)
      BY <1>1, <1>2, <1>3, <2>1, <2>5, <3>1 DEF Slot
    <3>3. hash'[g] \in Hashes
      BY <1>1, <1>2, <3>1 DEF TypeOK, Handles
    <3> QED BY <1>2, <3>2, <3>3, InsertPlaced
  <2> QED BY <1>1, <2>2, <2>4, <2>7
<1>4. CASE slots[Slot(t)] # 0
  <2>1. pc'[t] = "load" /\ UNCHANGED <<slots, h, i>>
    BY <1>4 DEF CompareExchange, TypeOK
  <2>2. Lo(t)' = Lo(t) /\ Hi(t)' = Hi(t) /\ \A f : InTable(f)' <=> InTable(f)
    BY <1>1, <2>1 DEF Lo, Hi, InTable
  <2>3. \A k \in 0..(i[t] - 1) : ~Stops(hash[h[t]], nodes[h[t]], k)'
    BY <1>1, <2>1 DEF Probing, Stops
  <2>4. Probing(t)'
    BY <1>1, <2>1, <2>2, <2>3 DEF Probing
  <2>5. Placed'
    BY <1>1, <1>2, <2>1 DEF Placed, Ends, Stops
  <2> QED BY <1>1, <2>1, <2>4, <2>5 DEF Writes
<1> QED BY <1>3, <1>4

LEMMA CompareProbing ==
  ASSUME TypeOK, Reading, Placed, NEW t \in Threads, Probing(t), Compare(t)
  PROVE  /\ pc[t] # "idle" /\ Writes(t) /\ Probing(t)' /\ (dup => dup')
         /\ dup' => dup \/ \E f, g \in Handles : f # g /\ nodes[f] = nodes[g]
<1>1. pc[t] = "eq" /\ UNCHANGED <<nodes, hash, of, slots, s>>
  BY DEF Compare, nodeTable
<1>2. /\ h[t] \in Handles /\ h[t] \in Lo(t)..Hi(t) /\ h[t] \in Nat /\ Hi(t) \in Nat
      /\ Slot(t) \in Slots /\ i[t] \in Nat
      /\ s[t] # 0 /\ s[t] = slots[Slot(t)]
  BY <1>1, HandleFacts DEF Probing
<1>3. s[t] \in Handles /\ s[t] # h[t]
  <2>1. InTable(s[t]) /\ s[t] \in Handles
    BY <1>2 DEF InTable, Placed
  <2>2. ~InTable(h[t])
    BY <1>2 DEF Probing
  <2> QED BY <2>1, <2>2
<1>4. Writes(t)
  BY <1>1 DEF Writes
<1>5. CASE nodes[s[t]] = nodes[h[t]]
  <2>1. dup' = TRUE /\ NextHandle(t)
    BY <1>5 DEF Compare
  <2>2. Probing(t)'
    BY <1>1, <1>4, <2>1, NextHandleProbing
  <2> QED BY <1>1, <1>2, <1>3, <1>4, <1>5, <2>1, <2>2
<1>6. CASE nodes[s[t]] # nodes[h[t]]
  <2>1. pc'[t] = "load" /\ i'[t] = i[t] + 1 /\ UNCHANGED <<dup, h>>
    BY <1>6 DEF Compare, TypeOK
  <2>2. Lo(t)' = Lo(t) /\ Hi(t)' = Hi(t) /\ \A f : InTable(f)' <=> InTable(f)
    BY <1>1 DEF Lo, Hi, InTable
  <2>3. \A k \in 0..(i'[t] - 1) : ~Stops(hash[h[t]], nodes[h[t]], k)'
    <3>1. \A k \in 0..(i'[t] - 1) : k \in 0..(i[t] - 1) \/ k = i[t]
      BY <1>2, <2>1
    <3>2. ~Stops(hash[h[t]], nodes[h[t]], i[t])
      BY <1>2, <1>6 DEF Stops, Slot
    <3>3. \A k \in 0..(i[t] - 1) : ~Stops(hash[h[t]], nodes[h[t]], k)
      BY <1>1 DEF Probing
    <3> QED BY <1>1, <2>1, <3>1, <3>2, <3>3 DEF Stops
  <2>4. Probing(t)'
    BY <1>1, <2>1, <2>2, <2>3 DEF Probing
  <2> QED BY <1>1, <1>4, <2>1, <2>4
<1> QED BY <1>5, <1>6

\* Of thread t, a step changes only its own variables, the table and dup.
LEMMA InsertFrame ==
  ASSUME TypeOK, NEW t \in Threads, Insert(t)
  PROVE  /\ UNCHANGED <<export, mix, phase, nodes, hash, of>>
         /\ pc' \in [Threads -> {"idle", "load", "cas", "eq"}] /\ h' \in [Threads -> Nat]
         /\ i' \in [Threads -> Nat] /\ dup' \in BOOLEAN
         /\ pc[t] # "idle"
         /\ \A u \in Threads \ {t} : UNCHANGED <<pc[u], h[u], i[u], s[u]>>
<1>0. NextHandle(t) =>
        /\ pc' \in [Threads -> {"idle", "load", "cas", "eq"}]
        /\ h' \in [Threads -> Nat] /\ i' \in [Threads -> Nat]
        /\ \A u \in Threads \ {t} : UNCHANGED <<pc[u], h[u], i[u]>>
  BY DEF NextHandle, TypeOK
<1>1. CASE LoadSlot(t)
  BY <1>1 DEF LoadSlot, TypeOK, nodeTable
<1>2. CASE CompareExchange(t)
  <2>1. \/ UNCHANGED <<h, i>> /\ pc' = [pc EXCEPT ![t] = "load"]
        \/ NextHandle(t)
    BY <1>2 DEF CompareExchange
  <2> QED BY <1>0, <1>2, <2>1 DEF CompareExchange, TypeOK, nodeTable
<1>3. CASE Compare(t)
  <2>1. /\ pc[t] = "eq" /\ dup' \in {dup, TRUE}
        /\ UNCHANGED <<export, mix, phase, nodes, hash, of, slots, s>>
    BY <1>3 DEF Compare, nodeTable
  <2>2. CASE NextHandle(t)
    BY <1>0, <2>1, <2>2 DEF TypeOK
  <2>3. CASE UNCHANGED h /\ i' = [i EXCEPT ![t] = @ + 1] /\ pc' = [pc EXCEPT ![t] = "load"]
    <3>1. i[t] \in Nat
      BY DEF TypeOK
    <3>2. /\ pc' \in [Threads -> {"idle", "load", "cas", "eq"}] /\ i' \in [Threads -> Nat]
          /\ \A u \in Threads \ {t} : UNCHANGED <<pc[u], i[u]>>
      BY <2>3, <3>1 DEF TypeOK
    <3> QED BY <2>1, <2>3, <3>2 DEF TypeOK
  <2> QED BY <1>3, <2>2, <2>3 DEF Compare
<1> QED BY <1>1, <1>2, <1>3 DEF Insert

LEMMA InsertIInv ==
  ASSUME IInv, NEW t \in Threads, Insert(t)
  PROVE  IInv'
<1> USE DEF IInv
<1>1. /\ UNCHANGED <<export, mix, phase, nodes, hash, of>>
      /\ pc' \in [Threads -> {"idle", "load", "cas", "eq"}] /\ h' \in [Threads -> Nat]
      /\ i' \in [Threads -> Nat] /\ dup' \in BOOLEAN
      /\ pc[t] # "idle"
      /\ \A u \in Threads \ {t} : UNCHANGED <<pc[u], h[u], i[u], s[u]>>
  BY InsertFrame
<1>2. phase = "index" /\ Len(of) = Len(export) /\ Lined /\ \A u \in Threads : Probing(u)
  BY <1>1 DEF Phases
<1>3. NodeSet' = NodeSet /\ Handles' = Handles
  BY <1>1 DEF NodeSet, Handles, Lines
<1>4. Reading' /\ Hashed' /\ Lined'
  <2>1. Reading'
    BY <1>1, <1>3 DEF Reading
  <2>2. Hashed'
    BY <1>1, <1>3 DEF Hashed, HashOf
  <2> QED BY <1>1, <1>2, <2>1, <2>2 DEF Lined
<1>5. /\ Writes(t) /\ Probing(t)' /\ Placed' /\ (dup => dup')
      /\ dup' => dup \/ \E f, g \in Handles : f # g /\ nodes[f] = nodes[g]
      /\ s' \in [Threads -> Nat]
  <2>1. CASE LoadSlot(t)
    <3>1. Writes(t) /\ Probing(t)'
      BY <1>2, <2>1, LoadSlotProbing
    <3>2. UNCHANGED <<slots, dup>>
      BY <2>1 DEF LoadSlot
    <3>3. Placed'
      BY <1>1, <1>3, <3>2 DEF Placed, Ends, Stops
    <3>4. s' \in [Threads -> Nat]
      <4>1. slots[Slot(t)] \in Nat
        BY <1>1, <1>2, HandleFacts DEF TypeOK
      <4> QED BY <2>1, <4>1 DEF LoadSlot, TypeOK
    <3> QED BY <3>1, <3>2, <3>3, <3>4
  <2>2. CASE CompareExchange(t)
    BY <1>2, <2>2, ExchangeProbing DEF CompareExchange, TypeOK
  <2>3. CASE Compare(t)
    <3>1. UNCHANGED <<slots, s>>
      BY <2>3 DEF Compare
    <3>2. Placed'
      BY <1>1, <1>3, <3>1 DEF Placed, Ends, Stops
    <3> QED BY <1>2, <2>3, <3>1, <3>2, CompareProbing DEF TypeOK
  <2> QED BY <2>1, <2>2, <2>3 DEF Insert
<1>6. \A u \in Threads : Probing(u)'
  BY <1>1, <1>2, <1>5, OtherProbing
<1>7. slots' \in [Slots -> Nat]
  BY <1>1, <1>2, <1>5, WriteFacts
<1>8. TypeOK'
  BY <1>1, <1>3, <1>5, <1>7 DEF TypeOK
<1>9. Phases'
  BY <1>1, <1>2, <1>4, <1>6 DEF Phases
<1>10. Repeated'
  BY <1>1, <1>2, <1>3, <1>5 DEF Repeated
<1> QED BY <1>4, <1>5, <1>8, <1>9, <1>10

-------------------------------------------------------------------------------
(* The theorems.                                                             *)

LEMMA NextIInv == IInv /\ [Next]_vars => IInv'
<1> SUFFICES ASSUME IInv, [Next]_vars PROVE IInv'
  OBVIOUS
<1>1. CASE Loader
  BY <1>1, LoadBulkIInv, StartIndexIInv, JoinIInv, LoadInternedIInv, ReloadedIInv DEF Loader
<1>2. CASE \E t \in Threads : Insert(t)
  BY <1>2, InsertIInv
<1>3. CASE UNCHANGED vars
  <2>1. UNCHANGED <<export, mix, phase, nodes, hash, of, slots, dup, pc, h, i, s>>
    BY <1>3 DEF vars, nodeTable, threads
  <2>2. /\ NodeSet' = NodeSet /\ Handles' = Handles
        /\ Reading' /\ Hashed' /\ Placed' /\ (Lined => Lined')
        /\ \A f : InTable(f)' <=> InTable(f)
    BY <2>1, Same DEF IInv
  <2>3. TypeOK'
    BY <2>1, <2>2 DEF IInv, TypeOK
  <2>4. \A t \in Threads : Probing(t)' <=> Probing(t)
    BY <2>1, <2>2 DEF Probing, Lo, Hi, Slot, Stops
  <2>5. Phases'
    BY <2>1, <2>2, <2>4 DEF IInv, Phases
  <2>6. Repeated'
    BY <2>1, <2>2 DEF IInv, Repeated
  <2> QED BY <2>2, <2>3, <2>5, <2>6 DEF IInv
<1> QED BY <1>1, <1>2, <1>3 DEF Next, Terminated

\* The load and its threads keep the inductive invariant, whatever their order.
THEOREM Invariance == Spec => []IInv
<1>1. Init => IInv
  BY InitIInv
<1>2. IInv /\ [Next]_vars => IInv'
  BY NextIInv
<1> QED BY <1>1, <1>2, PTL DEF Spec

\* The same node never is in the table twice: of two handles with it, one would come
\* first on the probe of the other.
LEMMA TableDifferent ==
  ASSUME IInv, \A g \in Handles : InTable(g)
  PROVE  Different
<1> SUFFICES ASSUME NEW f \in Handles, NEW g \in Handles, nodes[f] = nodes[g] PROVE f = g
  BY DEF Different
<1>1. PICK x \in Slots, y \in Slots : slots[x] = f /\ slots[y] = g
  BY DEF InTable
<1>2. f # 0 /\ g # 0
  BY DEF Handles
<1>3. hash[f] = hash[g]
  BY DEF IInv, Hashed
<1>4. PICK k \in Slots : Probe(hash[f], k) = x /\ Ends(hash[f], nodes[f], k)
  BY <1>1, <1>2 DEF IInv, Placed
<1>5. PICK n \in Slots : Probe(hash[f], n) = y /\ Ends(hash[f], nodes[f], n)
  BY <1>1, <1>2, <1>3 DEF IInv, Placed
<1>6. k \in Nat /\ n \in Nat
  BY ProbeFacts
<1>7. ~(k < n) /\ ~(n < k)
  BY <1>4, <1>5, <1>6 DEF Ends
<1> QED BY <1>1, <1>4, <1>5, <1>6, <1>7

LEMMA IInvDupExact == IInv => DupExact
<1> SUFFICES ASSUME IInv, Joined
             PROVE  dup <=> \E l, m \in Lines(export) :
                              l # m /\ Tree(export)[l] = Tree(export)[m]
  BY DEF DupExact
<1>1. /\ phase = "index" /\ Lined /\ Len(of) = Len(export) /\ Len(export) \in Nat
      /\ Len(nodes) = Len(of) /\ Lines(export) = 1..Len(of) /\ Handles = 1..Len(of)
      /\ TypeOK /\ Reading
  BY ExportFacts DEF IInv, Joined, Phases, Lined, Handles, TypeOK, Lines
<1>2. ASSUME dup
      PROVE  \E l, m \in Lines(export) : l # m /\ Tree(export)[l] = Tree(export)[m]
  <2>1. PICK f \in Handles, g \in Handles : f # g /\ nodes[f] = nodes[g]
    BY <1>1, <1>2 DEF IInv, Repeated
  <2>2. Tree(export)[f] = Tree(export)[g]
    BY <1>1, <2>1, RepeatedTerm
  <2> QED BY <1>1, <2>1, <2>2
<1>3. ASSUME ~dup, NEW l \in Lines(export), NEW m \in Lines(export),
             Tree(export)[l] = Tree(export)[m]
      PROVE  l = m
  <2>1. Different
    BY <1>3, AllInTable, TableDifferent
  <2>2. of[l] = of[m]
    BY <1>1, <1>3, <2>1, HandlesAreTerms
  <2> QED BY <1>1, <2>2 DEF Lined
<1> QED BY <1>2, <1>3

\* The threads of build_index find a repeated term exactly if the file has one, for
\* every file, hash function and number of threads, and in every order of their steps.
THEOREM DupFound == Spec => []DupExact
<1>1. IInv => DupExact
  BY IInvDupExact
<1> QED BY <1>1, Invariance, PTL

LEMMA IInvOneHandle == IInv => OneHandle
<1> SUFFICES ASSUME IInv, phase = "done"
             PROVE  \A l, m \in Lines(export) :
                      of[l] = of[m] <=> Tree(export)[l] = Tree(export)[m]
  BY DEF OneHandle
<1>1. /\ TypeOK /\ Reading /\ Len(of) = Len(export) /\ Lines(export) = 1..Len(of)
      /\ \A g \in Handles : InTable(g)
  BY ExportFacts DEF IInv, Phases, TypeOK, Lines
<1>2. Different
  BY <1>1, TableDifferent
<1> QED BY <1>1, <1>2, HandlesAreTerms

\* After the load, two lines have the same handle if and only if they are the same
\* term, whether or not the file had to be loaded a second time.
THEOREM HandlesOfLines == Spec => []OneHandle
<1>1. IInv => OneHandle
  BY IInvOneHandle
<1> QED BY <1>1, Invariance, PTL

LEMMA IInvFindable == IInv => Findable
<1> SUFFICES ASSUME IInv, phase = "done", NEW g \in DOMAIN nodes
             PROVE  \E k \in Slots : Ends(hash[g], nodes[g], k) /\ slots[Probe(hash[g], k)] = g
  BY DEF Findable
<1>1. g \in Handles /\ g # 0
  BY DEF IInv, TypeOK, Handles
<1>2. PICK x \in Slots : slots[x] = g
  BY <1>1 DEF IInv, Phases, InTable
<1> QED BY <1>1, <1>2 DEF IInv, Placed

\* After the load, the lookup of any node ends at that node: no thread of build_index
\* left an empty slot before the place where it put its own.
THEOREM EveryNodeFound == Spec => []Findable
<1>1. IInv => Findable
  BY IInvFindable
<1> QED BY <1>1, Invariance, PTL
===============================================================================
