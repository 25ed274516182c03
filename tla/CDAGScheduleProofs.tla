--------------------------- MODULE CDAGScheduleProofs ---------------------------
(***************************************************************************)
(* For every set of lists that are well-formed and unrolled in order, of   *)
(* any length: the type invariant of CDAG, that a node is deeper than its  *)
(* inputs, and that the sorted nodes come behind their inputs.             *)
(*                                                                         *)
(* What the sort needs (CDAGProofs) is an invariant of the insertions:     *)
(* a node has the TacID and the offset of a TAC already inserted, and the  *)
(* one node that takes another TacID, the last one, is computed under the  *)
(* offset of the assignment that renames it; the first node has only       *)
(* leaves to be scheduled after, and a renaming schedules it after no node *)
(* but itself.                                                             *)
(***************************************************************************)
EXTENDS CDAGProofs, FiniteSetTheorems

(***************************************************************************)
(* The type of nodes.                                                      *)
(***************************************************************************)
TypedNode(r, n) ==
  /\ {"out", "ins", "id", "unroll", "fs", "store"} \subseteq DOMAIN r
  /\ r.out \in Names /\ r.id \in Nat /\ r.unroll \in Int /\ r.fs \in Nat \ {0}
  /\ InputsType(r.ins, n)

TypedNodes(N) ==
  (\E S : N \in Seq(S)) /\ \A n \in DOMAIN N : TypedNode(N[n], n)

(***************************************************************************)
(* The inductive invariant, on top of that of CDAGProofs.                  *)
(***************************************************************************)
CopiesOfTacs ==
  \A n \in DOMAIN nodes : \E q \in 1 .. at - 1 :
    nodes[n].id = code[q].id /\ nodes[n].unroll = code[q].unroll

LastUnroll ==
  at > 1 /\ ~IsAssignment(code[at - 1]) =>
    nodes[Len(nodes)].unroll = code[at - 1].unroll

NodeTacs == {q \in 1 .. at - 1 : MakesNode(code[q])}

FewNodes == Len(nodes) <= Cardinality(NodeTacs)

Sorted ==
  IF pc = "done" THEN DepthsGrow(nodes) /\ SortedTo(nodes, order, Len(nodes))
  ELSE order = <<>>

SchedInv ==
  /\ IInv
  /\ pc \in {"insert", "done", "undefined"}
  /\ TypedNodes(nodes) /\ CopiesOfTacs /\ LastUnroll /\ FewNodes
  /\ UnrollsInOrder(nodes) /\ FirstAtOne(nodes)
  /\ Sorted

-------------------------------------------------------------------------------
\* A list of typed nodes is one the depths can be computed of.
LEMMA TypedIsFew ==
  ASSUME NEW N, TypedNodes(N)
  PROVE  /\ Len(N) \in Nat /\ DOMAIN N = 1 .. Len(N)
         /\ FewInputs(N)
         /\ \A n \in DOMAIN N : TypedNode(N[n], n)
BY DEF TypedNodes, TypedNode, FewInputs

\* A list of typed nodes with one of them replaced.
LEMMA TypedReplaced ==
  ASSUME NEW N, TypedNodes(N), NEW n \in DOMAIN N, NEW r, TypedNode(r, n)
  PROVE  LET M == [N EXCEPT ![n] = r]
         IN  /\ TypedNodes(M) /\ DOMAIN M = DOMAIN N /\ Len(M) = Len(N)
             /\ M[n] = r /\ \A m \in DOMAIN N : m # n => M[m] = N[m]
<1> DEFINE M == [N EXCEPT ![n] = r]
<1>1. PICK S : N \in Seq(S)
  BY DEF TypedNodes
<1>2. N \in Seq(S \cup {r})
  BY <1>1
<1>3. M \in Seq(S \cup {r}) /\ Len(M) = Len(N)
  BY <1>2
<1>4. DOMAIN M = DOMAIN N /\ M[n] = r /\ \A m \in DOMAIN N : m # n => M[m] = N[m]
  OBVIOUS
<1> HIDE DEF M
<1>5. \A m \in DOMAIN M : TypedNode(M[m], m)
  BY <1>4 DEF TypedNodes
<1>6. QED
  BY <1>3, <1>4, <1>5 DEF TypedNodes, M

\* A list of typed nodes with one more.
LEMMA TypedAppended ==
  ASSUME NEW N, TypedNodes(N), NEW r, TypedNode(r, Len(N) + 1)
  PROVE  LET M == Append(N, r)
         IN  /\ TypedNodes(M) /\ DOMAIN M = 1 .. Len(N) + 1
             /\ Len(M) = Len(N) + 1
             /\ M[Len(N) + 1] = r /\ \A m \in DOMAIN N : M[m] = N[m]
<1> DEFINE M == Append(N, r)
<1>1. PICK S : N \in Seq(S)
  BY DEF TypedNodes
<1>2. N \in Seq(S \cup {r}) /\ Len(N) \in Nat /\ DOMAIN N = 1 .. Len(N)
  BY <1>1
<1>3. /\ M \in Seq(S \cup {r}) /\ Len(M) = Len(N) + 1
      /\ \A m \in 1 .. Len(N) : M[m] = N[m]
      /\ M[Len(N) + 1] = r
  BY <1>2, AppendProperties
<1> HIDE DEF M
<1>4. DOMAIN M = 1 .. Len(N) + 1
  BY <1>3
<1>5. \A m \in DOMAIN M : TypedNode(M[m], m)
  <2>1. SUFFICES ASSUME NEW m \in DOMAIN M
                 PROVE  TypedNode(M[m], m)
    OBVIOUS
  <2>2. CASE m \in DOMAIN N
    BY <1>2, <1>3, <2>2 DEF TypedNodes
  <2>3. CASE m = Len(N) + 1
    BY <1>3, <2>3
  <2>4. QED
    BY <1>2, <1>4, <2>2, <2>3
<1>6. QED
  BY <1>2, <1>3, <1>4, <1>5 DEF TypedNodes, M

\* The fields an assignment sets of the node it renames, and those it leaves.
LEMMA RenamedNode ==
  ASSUME NEW n, NEW t, t.a \in Names, t.id \in Nat, TypedNode(nodes[n], n)
  PROVE  LET o == nodes[n]
             r == [o EXCEPT !.out = t.a, !.store = TRUE, !.id = t.id]
         IN  /\ TypedNode(r, n) /\ r.id = t.id /\ r.out = t.a
             /\ r.ins = o.ins /\ r.unroll = o.unroll /\ r.fs = o.fs
<1> DEFINE o == nodes[n]
           r == [o EXCEPT !.out = t.a, !.store = TRUE, !.id = t.id]
<1>1. TypedNode(o, n)
  OBVIOUS
<1> HIDE DEF o
<1>2. /\ {"out", "ins", "id", "unroll", "fs", "store"} \subseteq DOMAIN r
      /\ r.id = t.id /\ r.out = t.a
      /\ r.ins = o.ins /\ r.unroll = o.unroll /\ r.fs = o.fs
  BY <1>1 DEF TypedNode
<1> HIDE DEF r
<1>3. TypedNode(r, n)
  BY <1>1, <1>2 DEF TypedNode
<1>4. QED
  BY <1>2, <1>3 DEF o, r

\* A node that is only scheduled anew.
LEMMA ScheduledNode ==
  ASSUME NEW n, NEW r, TypedNode(r, n), NEW f \in Nat \ {0}
  PROVE  LET s == [r EXCEPT !.fs = f]
         IN  /\ TypedNode(s, n) /\ s.fs = f /\ s.id = r.id /\ s.out = r.out
             /\ s.ins = r.ins /\ s.unroll = r.unroll
<1> DEFINE s == [r EXCEPT !.fs = f]
<1>1. /\ {"out", "ins", "id", "unroll", "fs", "store"} \subseteq DOMAIN s
      /\ s.fs = f /\ s.id = r.id /\ s.out = r.out
      /\ s.ins = r.ins /\ s.unroll = r.unroll
  BY DEF TypedNode
<1> HIDE DEF s
<1>2. TypedNode(s, n)
  BY <1>1 DEF TypedNode
<1>3. QED
  BY <1>1, <1>2 DEF s

\* A node that is only marked as a store.
LEMMA MarkedFields ==
  ASSUME NEW n, TypedNode(nodes[n], n)
  PROVE  LET s == Marked(n)
             o == nodes[n]
         IN  /\ TypedNode(s, n) /\ s.fs = o.fs /\ s.id = o.id /\ s.out = o.out
             /\ s.ins = o.ins /\ s.unroll = o.unroll
<1> DEFINE o == nodes[n]
           s == [o EXCEPT !.store = TRUE]
<1>1. TypedNode(o, n) /\ Marked(n) = s
  BY DEF Marked
<1> HIDE DEF o
<1>2. /\ {"out", "ins", "id", "unroll", "fs", "store"} \subseteq DOMAIN s
      /\ s.fs = o.fs /\ s.id = o.id /\ s.out = o.out
      /\ s.ins = o.ins /\ s.unroll = o.unroll
  BY <1>1 DEF TypedNode
<1> HIDE DEF s
<1>3. TypedNode(s, n)
  BY <1>1, <1>2 DEF TypedNode
<1>4. QED
  BY <1>1, <1>2, <1>3 DEF o

-------------------------------------------------------------------------------
(***************************************************************************)
(* Schedules.                                                              *)
(***************************************************************************)
\* Of places in the list one is the first.
LEMMA FirstOfPlaces ==
  ASSUME NEW P, P \subseteq Nat \X {1, 2}, P # {}
  PROVE  FirstOf(P) \in P
<1> DEFINE A == {p[1] : p \in P}
<1>1. PICK a \in A : \A y \in A : a <= y
  <2>1. A \subseteq Nat /\ A # {}
    OBVIOUS
  <2> HIDE DEF A
  <2>2. QED
    BY <2>1, LeastElement
<1> DEFINE B == {p[2] : p \in {q \in P : q[1] = a}}
<1>2. PICK b \in B : \A y \in B : b <= y
  <2>1. B \subseteq Nat /\ B # {}
    OBVIOUS
  <2> HIDE DEF B
  <2>2. QED
    BY <2>1, LeastElement
<1>3. PICK p \in P : p[1] = a /\ p[2] = b
  OBVIOUS
<1>4. \A q \in P : q = p \/ Precedes(p, q)
  <2>1. SUFFICES ASSUME NEW q \in P, q # p
                 PROVE  Precedes(p, q)
    OBVIOUS
  <2>2. /\ p = <<a, b>> /\ q = <<q[1], q[2]>>
        /\ q[1] \in Nat /\ q[2] \in Nat /\ a \in Nat /\ b \in Nat
    BY <1>3
  <2>3. a <= q[1]
    BY <1>1
  <2>4. q[1] = a => b <= q[2]
    BY <1>2
  <2>5. q[1] # a \/ q[2] # b
    BY <2>1, <2>2
  <2>6. QED
    BY <1>3, <2>2, <2>3, <2>4, <2>5 DEF Precedes
<1>5. QED
  BY <1>4 DEF FirstOf

\* findWARDataRace finds a reader where there is one.
LEMMA ReaderFound ==
  ASSUME NEW N, TypedNodes(N), NEW x, NEW id \in Nat, Readers(N, x) # {}
  PROVE  WARReader(N, x, id) \in Readers(N, x)
<1> DEFINE R       == Readers(N, x)
           tac(p)  == TacID(N, N[p[1]].ins[p[2]])
           later   == {p \in R : tac(FirstOf(R)) < tac(p) /\ tac(p) < id}
           highest == {p \in later : \A q \in later : tac(q) <= tac(p)}
<1>1. R \subseteq Nat \X {1, 2} /\ R # {}
  BY TypedIsFew DEF Readers
<1>2. \A p \in R : tac(p) \in Nat
  <2>1. SUFFICES ASSUME NEW p \in R
                 PROVE  tac(p) \in Nat
    OBVIOUS
  <2>2. p[1] \in DOMAIN N /\ p[2] \in DOMAIN N[p[1]].ins
    BY DEF Readers
  <2> DEFINE in == N[p[1]].ins[p[2]]
  <2>3. TypedNode(N[p[1]], p[1]) /\ p[1] \in Nat
    BY <2>2, TypedIsFew
  <2>4. in \in Inputs /\ in.node \in Nat /\ in.node < p[1]
    BY <2>2, <2>3, InputIndices DEF TypedNode
  <2>5. CASE IsLeaf(in)
    BY <2>4, <2>5 DEF Inputs, TacID
  <2>6. CASE ~IsLeaf(in)
    <3>1. in.node \in DOMAIN N
      BY <2>2, <2>4, <2>6, TypedIsFew DEF IsLeaf
    <3>2. N[in.node].id \in Nat
      BY <3>1, TypedIsFew DEF TypedNode
    <3>3. QED
      BY <2>6, <3>2 DEF TacID
  <2>7. QED
    BY <2>5, <2>6
<1> HIDE DEF tac
<1>3. later # {} => highest # {}
  <2>1. SUFFICES ASSUME later # {}
                 PROVE  highest # {}
    OBVIOUS
  <2> DEFINE T == {tac(p) : p \in later}
  <2>2. T \subseteq Int /\ T # {} /\ \A y \in T : y <= id
    BY <1>2, <2>1
  <2>3. PICK m \in T : \A y \in T : y <= m
    <3> HIDE DEF T
    <3>1. id \in Int
      OBVIOUS
    <3>2. QED
      BY <2>2, <3>1, GreatestElement
  <2>4. QED
    BY <2>3
<1>4. WARReader(N, x, id) = IF later = {} THEN FirstOf(R) ELSE FirstOf(highest)
  BY DEF WARReader, tac
<1>5. FirstOf(R) \in R
  <2> HIDE DEF R
  <2>1. QED
    BY <1>1, FirstOfPlaces
<1>6. highest # {} => FirstOf(highest) \in highest
  <2>1. highest \subseteq Nat \X {1, 2}
    BY <1>1
  <2> HIDE DEF highest
  <2>2. QED
    BY <2>1, FirstOfPlaces
<1>7. QED
  BY <1>3, <1>4, <1>5, <1>6

\* The schedule of a node that stores is positive.  It is one where the node
\* is the only one of the graph and has schedule one.
LEMMA WARScheduleType ==
  ASSUME NEW N, TypedNodes(N), NEW n \in DOMAIN N, NEW x, NEW id \in Nat
  PROVE  /\ WARSchedule(N, n, x, id) \in Nat \ {0}
         /\ Len(N) = 1 /\ N[1].fs = 1 => WARSchedule(N, n, x, id) = 1
<1>1. /\ N[n].fs \in Nat \ {0} /\ Len(N) \in Nat /\ DOMAIN N = 1 .. Len(N)
      /\ n \in 1 .. Len(N)
  BY TypedIsFew DEF TypedNode
<1>2. CASE Readers(N, x) = {}
  BY <1>1, <1>2 DEF WARSchedule
<1>3. CASE Readers(N, x) # {}
  <2> DEFINE p  == WARReader(N, x, id)
             in == N[p[1]].ins[p[2]]
  <2>1. WARSchedule(N, n, x, id) = 1 + (IF IsLeaf(in) THEN 0 ELSE N[in.node].fs)
    BY <1>3 DEF WARSchedule
  <2>2. p \in Readers(N, x)
    BY <1>3, ReaderFound
  <2> HIDE DEF p
  <2>3. p[1] \in DOMAIN N /\ p[2] \in DOMAIN N[p[1]].ins
    BY <2>2 DEF Readers
  <2>4. TypedNode(N[p[1]], p[1]) /\ p[1] \in Nat
    BY <2>3, TypedIsFew
  <2>5. in.node \in Nat /\ in.node < p[1]
    BY <2>3, <2>4, InputIndices DEF TypedNode
  <2>6. CASE IsLeaf(in)
    BY <2>1, <2>6
  <2>7. CASE ~IsLeaf(in)
    <3>1. in.node \in DOMAIN N /\ Len(N) # 1
      BY <1>1, <2>3, <2>5, <2>7 DEF IsLeaf
    <3>2. N[in.node].fs \in Nat
      BY <3>1, TypedIsFew DEF TypedNode
    <3>3. QED
      BY SMTT(30), <2>1, <2>7, <3>1, <3>2
  <2>8. QED
    BY <2>6, <2>7
<1>4. QED
  BY <1>2, <1>3

\* A new node is scheduled after the writers of its operands.
LEMMA RAWScheduleType ==
  ASSUME NEW N, TypedNodes(N), NEW ins, NEW id
  PROVE  /\ RAWSchedule(N, ins, id) \in Nat
         /\ Len(N) = 0 => RAWSchedule(N, ins, id) = 0
<1> DEFINE W == Writers(N, ins, id)
<1>1. Len(N) \in Nat /\ DOMAIN N = 1 .. Len(N) /\ W \subseteq 1 .. Len(N)
  BY TypedIsFew DEF Writers
<1>2. RAWSchedule(N, ins, id) = IF W = {} THEN 0 ELSE N[Deepest(W)].fs
  BY DEF RAWSchedule
<1> HIDE DEF W
<1>3. CASE W = {}
  BY <1>2, <1>3
<1>4. CASE W # {}
  <2>1. W \subseteq Int /\ Len(N) \in Int /\ \A y \in W : y <= Len(N)
    BY <1>1
  <2>2. Deepest(W) \in W
    BY <1>4, <2>1, DeepestOf
  <2>3. Deepest(W) \in DOMAIN N /\ Len(N) # 0
    <3>1. PICK d \in 1 .. Len(N) : d = Deepest(W)
      BY <1>1, <2>2
    <3>2. QED
      BY <1>1, <3>1
  <2>4. N[Deepest(W)].fs \in Nat
    BY <2>3, TypedIsFew DEF TypedNode
  <2>5. QED
    BY <1>2, <1>4, <2>3, <2>4
<1>5. QED
  BY <1>3, <1>4

\* The depth of a new node over its inputs.
LEMMA DepthOverType ==
  ASSUME TypedNodes(nodes), NEW ins, InputsType(ins, Len(nodes) + 1)
  PROVE  /\ DepthOverInputs(ins) \in Nat \ {0}
         /\ Len(nodes) = 0 => DepthOverInputs(ins) = 1
<1> DEFINE e == [i \in DOMAIN ins |-> InputDepth(Depths, ins[i])]
           S == {e[i] : i \in DOMAIN ins}
<1>1. FewInputs(nodes) /\ Len(nodes) \in Nat /\ DOMAIN nodes = 1 .. Len(nodes)
  BY TypedIsFew
<1>2. DepthOverInputs(ins) = Deepest(S)
  BY DEF DepthOverInputs, InputDepth
<1>3. Len(nodes) + 1 \in Nat
  BY <1>1
<1>4. DOMAIN ins = {1} \/ DOMAIN ins = {1, 2}
  BY <1>3, InputIndices
<1>5. \A i \in DOMAIN ins : e[i] \in Nat \ {0} /\ (Len(nodes) = 0 => e[i] = 1)
  <2>1. SUFFICES ASSUME NEW i \in DOMAIN ins
                 PROVE  /\ InputDepth(Depths, ins[i]) \in Nat \ {0}
                        /\ Len(nodes) = 0 => InputDepth(Depths, ins[i]) = 1
    OBVIOUS
  <2>2. ins[i].node \in Nat /\ ins[i].node < Len(nodes) + 1
    BY <1>3, InputIndices
  <2>3. CASE IsLeaf(ins[i])
    BY <2>3 DEF InputDepth
  <2>4. CASE ~IsLeaf(ins[i])
    <3>1. ins[i].node \in DOMAIN nodes /\ Len(nodes) # 0
      BY <1>1, <2>2, <2>4 DEF IsLeaf
    <3>2. Depths[ins[i].node] \in Nat
      BY <1>1, <3>1, DepthsEquation
    <3>3. QED
      BY <2>4, <3>1, <3>2 DEF InputDepth
  <2>5. QED
    BY <2>3, <2>4
<1> HIDE DEF e
<1>6. Deepest(S) \in S
  <2>1. CASE DOMAIN ins = {1}
    <3>1. S = {e[1]} /\ e[1] \in Nat
      BY <1>5, <2>1
    <3>2. QED
      BY <3>1 DEF Deepest
  <2>2. CASE DOMAIN ins = {1, 2}
    <3>1. S \subseteq {e[1], e[2], e[2]} /\ S # {} /\ e[1] \in Nat /\ e[2] \in Nat
      BY <1>5, <2>2
    <3>2. QED
      BY <3>1, DeepestOfFew
  <2>3. QED
    BY <1>4, <2>1, <2>2
<1>7. PICK i \in DOMAIN ins : DepthOverInputs(ins) = e[i]
  BY <1>2, <1>6
<1>8. QED
  BY <1>5, <1>7

-------------------------------------------------------------------------------
\* What the invariant says of the node an operand is connected to.
LEMMA OutputNodeFound ==
  ASSUME TypedNodes(nodes), NEW x, HasOutputNode(nodes, x)
  PROVE  FindOutputNode(nodes, x) \in Nat /\ FindOutputNode(nodes, x) \in DOMAIN nodes
<1>1. FindOutputNode(nodes, x) \in DOMAIN nodes
  BY DEF HasOutputNode, FindOutputNode
<1>2. QED
  BY <1>1, TypedIsFew

\* The inputs of a new node.
LEMMA NewInputsType ==
  ASSUME SchedInv, Inserting
  PROVE  InputsType(NewInputs(Tac), Len(nodes) + 1)
<1> DEFINE ins == NewInputs(Tac)
<1>1. TypedNodes(nodes) /\ IInv
  BY DEF SchedInv
<1>2. Tac \in Tacs
  BY <1>1, TacAtHand
<1>3. /\ Tac.b \in Names /\ Tac.c \in Names \cup {None} /\ Tac.id \in Nat
      /\ \A i \in DOMAIN Operands(Tac) : Operands(Tac)[i] \in Names
      /\ DOMAIN Operands(Tac) = 1 .. 1 \/ DOMAIN Operands(Tac) = 1 .. 2
  BY <1>2 DEF Tacs, Operands
<1>4. ASSUME NEW n \in Nat
      PROVE  NodeInput(n) \in Inputs
  BY <1>4 DEF NodeInput, Inputs
<1>5. ASSUME NEW x \in Names, NEW id \in Nat
      PROVE  LeafInput(x, id) \in Inputs /\ BrokenLeaf(x) \in Inputs
  BY <1>5 DEF LeafInput, BrokenLeaf, Inputs
<1>6. \A x \in Names : Connect(x, Tac.id) \in Inputs
  BY <1>1, <1>3, <1>4, <1>5, OutputNodeFound DEF Connect
<1>7. StoredOperand(Tac) \in Inputs
  BY <1>1, <1>3, <1>4, <1>5, OutputNodeFound DEF StoredOperand
<1>8. DOMAIN ins = DOMAIN Operands(Tac) /\ \A i \in DOMAIN ins : ins[i] \in Inputs
  BY <1>3, <1>6, <1>7 DEF NewInputs
<1>9. HasInputs(nodes)
  BY <1>1 DEF HasInputs, TypedNodes, TypedNode
<1>10. \A i \in DOMAIN ins : ins[i].node < Len(nodes) + 1
  BY <1>9, InputsAreOlder
<1>11. ins = [i \in DOMAIN Operands(Tac) |-> ins[i]]
  BY DEF NewInputs
<1> HIDE DEF ins
<1>12. ins \in Seq(Inputs) /\ Len(ins) \in {1, 2}
  <2>1. CASE DOMAIN Operands(Tac) = 1 .. 1
    <3>1. ins = [i \in 1 .. 1 |-> ins[i]] /\ \A i \in 1 .. 1 : ins[i] \in Inputs
      BY <1>8, <1>11, <2>1
    <3>2. ins \in Seq(Inputs) /\ Len(ins) = 1
      BY <3>1
    <3>3. QED
      BY <3>2
  <2>2. CASE DOMAIN Operands(Tac) = 1 .. 2
    <3>1. ins = [i \in 1 .. 2 |-> ins[i]] /\ \A i \in 1 .. 2 : ins[i] \in Inputs
      BY <1>8, <1>11, <2>2
    <3>2. ins \in Seq(Inputs) /\ Len(ins) = 2
      BY <3>1
    <3>3. QED
      BY <3>2
  <2>3. QED
    BY <1>3, <2>1, <2>2
<1>13. QED
  BY <1>10, <1>12 DEF InputsType, ins

\* Marking an operand as a store changes no other field of any node.
LEMMA MarkedTypes ==
  ASSUME SchedInv, Inserting, NEW K, K = MarkStored(Tac, NewInputs(Tac))
  PROVE  /\ TypedNodes(K) /\ DOMAIN K = DOMAIN nodes /\ Len(K) = Len(nodes)
         /\ \A m \in DOMAIN nodes :
              /\ K[m].fs = nodes[m].fs /\ K[m].id = nodes[m].id
              /\ K[m].unroll = nodes[m].unroll
<1>1. TypedNodes(nodes)
  BY DEF SchedInv
<1>2. CASE K = nodes
  BY <1>1, <1>2
<1>3. CASE K # nodes
  <2> DEFINE ins == NewInputs(Tac)
             n == ins[1].node
             o == nodes[n]
             r == Marked(n)
  <2>1. ~IsLeaf(ins[1]) /\ K = [nodes EXCEPT ![n] = r]
    BY <1>3 DEF MarkStored
  <2>2. InputsType(ins, Len(nodes) + 1) /\ Len(nodes) \in Nat
        /\ DOMAIN nodes = 1 .. Len(nodes)
    BY <1>1, NewInputsType, TypedIsFew
  <2>3. Len(nodes) + 1 \in Nat
    BY <2>2
  <2>4. 1 \in DOMAIN ins
    BY <2>2, <2>3, InputIndices
  <2>5. n \in Nat /\ n < Len(nodes) + 1
    BY <2>2, <2>3, <2>4, InputIndices
  <2>6. n \in DOMAIN nodes
    BY <2>1, <2>2, <2>5 DEF IsLeaf
  <2>7. /\ TypedNode(r, n) /\ r.fs = o.fs /\ r.id = o.id /\ r.out = o.out
        /\ r.ins = o.ins /\ r.unroll = o.unroll
    <3>1. TypedNode(o, n)
      BY <1>1, <2>6, TypedIsFew
    <3>2. QED
      BY <3>1, MarkedFields
  <2> HIDE DEF n, r
  <2>8. /\ TypedNodes(K) /\ DOMAIN K = DOMAIN nodes /\ Len(K) = Len(nodes)
        /\ K[n] = r /\ \A m \in DOMAIN nodes : m # n => K[m] = nodes[m]
    <3>1. TypedNode(r, n)
      BY <2>7
    <3>2. LET M == [nodes EXCEPT ![n] = r]
          IN  /\ TypedNodes(M) /\ DOMAIN M = DOMAIN nodes /\ Len(M) = Len(nodes)
              /\ M[n] = r /\ \A m \in DOMAIN nodes : m # n => M[m] = nodes[m]
      BY <1>1, <2>6, <3>1, TypedReplaced
    <3>3. QED
      BY <2>1, <3>2
  <2>9. QED
    BY <2>7, <2>8
<1>4. QED
  BY <1>2, <1>3

\* The new node.
LEMMA NewNodeType ==
  ASSUME SchedInv, Inserting
  PROVE  LET e == NewNode(Tac, NewInputs(Tac))
         IN  /\ TypedNode(e, Len(nodes) + 1)
             /\ e.id = Tac.id /\ e.unroll = Tac.unroll
             /\ Len(nodes) = 0 => e.fs = 1
<1> DEFINE ins == NewInputs(Tac)
           K   == MarkStored(Tac, ins)
           e   == NewNode(Tac, ins)
           d   == DepthOverInputs(ins)
           w   == RAWSchedule(K, ins, Tac.id)
<1>1. TypedNodes(nodes) /\ IInv
  BY DEF SchedInv
<1>2. Tac.a \in Names /\ Tac.id \in Nat /\ Tac.unroll \in Int
  BY <1>1, TacAtHand DEF Tacs
<1>3. InputsType(ins, Len(nodes) + 1)
  BY NewInputsType
<1>4. d \in Nat \ {0} /\ (Len(nodes) = 0 => d = 1)
  BY <1>1, <1>3, DepthOverType
<1>5. w \in Nat /\ (Len(nodes) = 0 => w = 0)
  <2>1. TypedNodes(K) /\ Len(K) = Len(nodes)
    BY MarkedTypes
  <2> HIDE DEF K
  <2>2. QED
    BY <2>1, RAWScheduleType
<1>6. e.fs = Deepest({d, w})
  BY DEF NewNode
<1>7. /\ {"out", "ins", "id", "unroll", "fs", "store"} \subseteq DOMAIN e
      /\ e.out = Tac.a /\ e.ins = ins /\ e.id = Tac.id /\ e.unroll = Tac.unroll
  BY DEF NewNode
<1> HIDE DEF ins, e, d, w
<1>8. /\ Deepest({d, w}) \in {d, w} /\ Deepest({d, w}) \in Nat
      /\ \A y \in {d, w} : y <= Deepest({d, w})
  <2>1. {d, w} # {} /\ {d, w} \subseteq {d, w, w} /\ d \in Nat
    BY <1>4
  <2>2. QED
    BY <1>5, <2>1, DeepestOfFew
<1>9. e.fs \in Nat \ {0} /\ (Len(nodes) = 0 => e.fs = 1)
  BY <1>4, <1>5, <1>6, <1>8
<1>10. TypedNode(e, Len(nodes) + 1)
  BY <1>2, <1>3, <1>7, <1>9 DEF TypedNode
<1>11. QED
  BY <1>7, <1>9, <1>10 DEF e, ins

-------------------------------------------------------------------------------
(***************************************************************************)
(* The invariant.                                                          *)
(***************************************************************************)
\* The empty graph satisfies the invariant.
LEMMA InitSched ==
  ASSUME Init
  PROVE  SchedInv
<1>1. at = 1 /\ nodes = <<>> /\ order = <<>> /\ pc = "insert"
  BY DEF Init
<1>2. nodes \in Seq({}) /\ DOMAIN nodes = {} /\ Len(nodes) = 0
  BY <1>1
<1>3. TypedNodes(nodes)
  BY <1>2 DEF TypedNodes
<1>4. CopiesOfTacs /\ UnrollsInOrder(nodes) /\ FirstAtOne(nodes)
  BY <1>2 DEF CopiesOfTacs, UnrollsInOrder, FirstAtOne
<1>5. LastUnroll /\ Sorted
  BY <1>1 DEF LastUnroll, Sorted
<1>6. FewNodes
  <2>1. NodeTacs = {}
    BY <1>1 DEF NodeTacs
  <2>2. QED
    BY <1>2, <2>1, FS_EmptySet DEF FewNodes
<1>7. QED
  BY <1>1, <1>3, <1>4, <1>5, <1>6, InitInv DEF SchedInv

\* The TACs inserted so far that nodes are made for.
LEMMA OneMoreTac ==
  ASSUME SchedInv, Inserting, at' = at + 1, code' = code
  PROVE  /\ ~MakesNode(Tac) => NodeTacs' = NodeTacs
         /\ MakesNode(Tac) =>
              Cardinality(NodeTacs') = Cardinality(NodeTacs) + 1
         /\ Cardinality(NodeTacs) \in Nat
<1>1. IInv
  BY DEF SchedInv
<1>2. at \in Nat \ {0}
  BY <1>1, TacAtHand
<1>3. IsFiniteSet(NodeTacs) /\ Cardinality(NodeTacs) \in Nat
  <2>1. at - 1 \in Int /\ 1 \in Int
    BY <1>2
  <2>2. IsFiniteSet(1 .. at - 1)
    BY <2>1, FS_Interval
  <2>3. NodeTacs \in SUBSET (1 .. at - 1)
    BY DEF NodeTacs
  <2>4. IsFiniteSet(NodeTacs)
    BY <2>2, <2>3, FS_Subset
  <2>5. QED
    BY <2>4, FS_CardinalityType
<1>4. at \notin NodeTacs
  BY <1>2 DEF NodeTacs
<1>5. NodeTacs' = IF MakesNode(Tac) THEN NodeTacs \cup {at} ELSE NodeTacs
  <2>1. NodeTacs' = {q \in 1 .. at : MakesNode(code[q])}
    BY <1>2 DEF NodeTacs, MakesNode, IsAssignment
  <2>2. 1 .. at = (1 .. at - 1) \cup {at}
    BY <1>2
  <2>3. QED
    BY <2>1, <2>2 DEF NodeTacs, Tac
<1>6. Cardinality(NodeTacs \cup {at}) = Cardinality(NodeTacs) + 1
  BY <1>3, <1>4, FS_AddElement
<1>7. QED
  BY <1>3, <1>5, <1>6

\* Nodes made for TACs already inserted come before the TAC at hand in the
\* order of the offsets, if they have its TacID.
LEMMA EarlierCopies ==
  ASSUME AllUnrolledInOrder, SchedInv, Inserting, NEW m \in DOMAIN nodes,
         nodes[m].id = Tac.id
  PROVE  nodes[m].unroll <= Tac.unroll
<1>1. PICK q \in 1 .. at - 1 : nodes[m].id = code[q].id
                               /\ nodes[m].unroll = code[q].unroll
  BY DEF SchedInv, CopiesOfTacs
<1>2. UnrolledInOrder(code)
  BY DEF AllUnrolledInOrder, SchedInv, IInv, Types
<1>3. IInv
  BY DEF SchedInv
<1>4. at \in DOMAIN code /\ q \in DOMAIN code /\ q < at
  BY <1>1, <1>3, TacAtHand
<1>5. code[q].id = code[at].id
  BY <1>1 DEF Tac
<1>6. code[q].unroll <= code[at].unroll
  BY <1>2, <1>4, <1>5 DEF UnrolledInOrder
<1>7. QED
  BY <1>1, <1>6 DEF Tac

\* What folding does to the last node.
LEMMA FoldedTypes ==
  ASSUME AllWellFormed, AllUnrolledInOrder, SchedInv, FoldAssignment
  PROVE  /\ TypedNodes(nodes') /\ DOMAIN nodes' = DOMAIN nodes
         /\ Len(nodes') = Len(nodes) /\ Len(nodes) \in DOMAIN nodes
         /\ \A m \in DOMAIN nodes : m # Len(nodes) => nodes'[m] = nodes[m]
         /\ nodes'[Len(nodes)].id = Tac.id
         /\ nodes'[Len(nodes)].unroll = Tac.unroll
         /\ FirstAtOne(nodes')
<1> DEFINE n  == Len(nodes)
           o  == nodes[n]
           r  == [o EXCEPT !.out = Tac.a, !.store = TRUE, !.id = Tac.id]
           M  == [nodes EXCEPT ![n] = r]
           f  == WARSchedule(M, n, Tac.a, Tac.id)
           s  == [r EXCEPT !.fs = f]
<1>1. Inserting /\ Folds /\ IInv /\ TypedNodes(nodes)
  BY DEF FoldAssignment, SchedInv
<1>2. n \in DOMAIN nodes /\ FindOutputNode(nodes, Tac.c) = n /\ Tac.c \in Temps
  BY <1>1, FoldsLast
<1>3. n \in Nat /\ DOMAIN nodes = 1 .. n
  BY <1>1, TypedIsFew
<1>4. Tac.a \in Names /\ Tac.id \in Nat
  BY <1>1, TacAtHand DEF Tacs
<1>5. nodes' = [nodes EXCEPT ![n] = s]
  BY <1>2 DEF FoldAssignment, Assigned
<1>6. TypedNode(o, n)
  BY <1>1, <1>2, TypedIsFew
<1>7. TypedNode(r, n) /\ r.id = Tac.id /\ r.unroll = o.unroll /\ r.fs = o.fs
  <2> HIDE DEF n
  <2>1. QED
    BY ZenonT(60), <1>4, <1>6, RenamedNode
<1>8. o.unroll = Tac.unroll
  <2>1. WellFormed(code) /\ UnrolledInOrder(code)
    BY DEF AllWellFormed, AllUnrolledInOrder, SchedInv, IInv, Types
  <2>2. IsAssignment(code[at]) /\ code[at].c \in Temps /\ at \in DOMAIN code
    BY <1>1, <1>2, TacAtHand DEF Folds, Tac
  <2>3. at > 1 /\ code[at - 1].a = code[at].c
    BY <2>1, <2>2 DEF WellFormed
  <2>4. at - 1 \in DOMAIN code
    BY <1>1, <2>3, TacAtHand
  <2>5. ~IsAssignment(code[at - 1])
    BY <2>1, <2>2, <2>3, <2>4 DEF WellFormed
  <2>6. o.unroll = code[at - 1].unroll
    BY <2>3, <2>5 DEF SchedInv, LastUnroll
  <2>7. code[at].unroll = code[at - 1].unroll
    BY <2>1, <2>2, <2>3 DEF UnrolledInOrder
  <2>8. QED
    BY <2>6, <2>7 DEF Tac
<1> HIDE DEF r
<1>9. /\ TypedNodes(M) /\ DOMAIN M = DOMAIN nodes /\ Len(M) = n /\ M[n] = r
  BY <1>1, <1>2, <1>7, TypedReplaced
<1> HIDE DEF M
<1>10. f \in Nat \ {0} /\ (Len(M) = 1 /\ M[1].fs = 1 => f = 1)
  BY <1>2, <1>4, <1>9, WARScheduleType
<1> HIDE DEF f
<1>11. TypedNode(s, n) /\ s.fs = f /\ s.id = Tac.id /\ s.unroll = Tac.unroll
  BY <1>7, <1>8, <1>10, ScheduledNode
<1> HIDE DEF s
<1>12. /\ TypedNodes(nodes') /\ DOMAIN nodes' = DOMAIN nodes /\ Len(nodes') = n
       /\ nodes'[n] = s /\ \A m \in DOMAIN nodes : m # n => nodes'[m] = nodes[m]
  <2>1. LET L == [nodes EXCEPT ![n] = s]
        IN  /\ TypedNodes(L) /\ DOMAIN L = DOMAIN nodes /\ Len(L) = Len(nodes)
            /\ L[n] = s /\ \A m \in DOMAIN nodes : m # n => L[m] = nodes[m]
    BY <1>1, <1>2, <1>11, TypedReplaced
  <2>2. QED
    BY <1>5, <2>1
<1>13. FirstAtOne(nodes')
  <2>1. 1 \in DOMAIN nodes /\ nodes[1].fs = 1
    BY <1>2, <1>3 DEF SchedInv, FirstAtOne
  <2>2. CASE n = 1
    <3>1. M[1].fs = 1
      BY <1>7, <1>9, <2>1, <2>2
    <3>2. QED
      BY <1>9, <1>10, <1>11, <1>12, <2>2, <3>1 DEF FirstAtOne
  <2>3. CASE n # 1
    BY <1>12, <2>1, <2>3 DEF FirstAtOne
  <2>4. QED
    BY <2>2, <2>3
<1>14. QED
  BY <1>2, <1>11, <1>12, <1>13

\* Computing the depths makes the nodes sortable, and changes nothing else.
LEMMA DeepNodes ==
  ASSUME SchedInv, NEW N, N = ComputeFreeSchedule, pc # "done"
  PROVE  /\ TypedNodes(N) /\ DOMAIN N = DOMAIN nodes /\ Len(N) = Len(nodes)
         /\ \A n \in DOMAIN nodes : N[n].id = nodes[n].id
                                    /\ N[n].unroll = nodes[n].unroll
         /\ Sortable(N)
<1>1. /\ TypedNodes(nodes) /\ FewInputs(nodes)
      /\ Len(nodes) \in Nat /\ DOMAIN nodes = 1 .. Len(nodes)
      /\ \A n \in DOMAIN nodes : TypedNode(nodes[n], n)
  BY TypedIsFew DEF SchedInv
<1>2. DOMAIN N = DOMAIN nodes
      /\ \A n \in DOMAIN nodes : N[n] = [nodes[n] EXCEPT !.fs = Depths[n]]
  BY DEF ComputeFreeSchedule
<1>3. \A n \in DOMAIN nodes : Depths[n] = DepthFrom(Depths, n) /\ Depths[n] \in Nat
  BY <1>1, DepthsEquation
<1>4. ASSUME NEW n \in DOMAIN nodes
      PROVE  /\ Depths[n] \in Nat \ {0}
             /\ \A i \in DOMAIN nodes[n].ins :
                  InputDepth(Depths, nodes[n].ins[i]) <= Depths[n]
             /\ Depths[n] # nodes[n].fs =>
                  \E i \in DOMAIN nodes[n].ins :
                    Depths[n] = InputDepth(Depths, nodes[n].ins[i])
  <2>1. \A m \in 1 .. n - 1 : Depths[m] \in Nat
    BY <1>1, <1>3
  <2>2. /\ nodes[n].fs <= Depths[n]
        /\ \A i \in DOMAIN nodes[n].ins :
             InputDepth(Depths, nodes[n].ins[i]) <= Depths[n]
        /\ Depths[n] # nodes[n].fs =>
             \E i \in DOMAIN nodes[n].ins :
               Depths[n] = InputDepth(Depths, nodes[n].ins[i])
    BY <1>1, <1>3, <2>1, DepthOfNode
  <2>3. nodes[n].fs \in Nat \ {0} /\ Depths[n] \in Nat
    BY <1>1, <1>3 DEF TypedNode
  <2>4. Depths[n] # 0
    BY <2>2, <2>3
  <2>5. QED
    BY <2>2, <2>3, <2>4
<1>5. \A n \in DOMAIN nodes :
        /\ TypedNode(N[n], n) /\ N[n].fs = Depths[n] /\ N[n].id = nodes[n].id
        /\ N[n].ins = nodes[n].ins /\ N[n].unroll = nodes[n].unroll
  <2>1. SUFFICES ASSUME NEW n \in DOMAIN nodes
                 PROVE  /\ TypedNode(N[n], n) /\ N[n].fs = Depths[n]
                        /\ N[n].id = nodes[n].id /\ N[n].ins = nodes[n].ins
                        /\ N[n].unroll = nodes[n].unroll
    OBVIOUS
  <2> DEFINE o == nodes[n]
             f == Depths[n]
  <2>2. TypedNode(o, n) /\ f \in Nat \ {0} /\ N[n] = [o EXCEPT !.fs = f]
    BY <1>1, <1>2, <1>4
  <2> HIDE DEF o, f
  <2>3. LET s == [o EXCEPT !.fs = f]
        IN  /\ TypedNode(s, n) /\ s.fs = f /\ s.id = o.id /\ s.out = o.out
            /\ s.ins = o.ins /\ s.unroll = o.unroll
    BY <2>2, ScheduledNode
  <2>4. QED
    BY <2>2, <2>3 DEF o, f
<1>6. TypedNodes(N) /\ Len(N) = Len(nodes)
  <2> DEFINE T == {N[m] : m \in DOMAIN nodes}
  <2>1. N = [m \in 1 .. Len(nodes) |-> N[m]]
    BY <1>1, <1>2 DEF ComputeFreeSchedule
  <2>2. \A m \in 1 .. Len(nodes) : N[m] \in T
    BY <1>1
  <2> HIDE DEF T
  <2>3. N \in Seq(T) /\ Len(N) = Len(nodes)
    BY <1>1, <2>1, <2>2
  <2>4. QED
    BY <1>2, <1>5, <2>3 DEF TypedNodes
<1>7. FirstAtOne(N)
  <2>1. SUFFICES ASSUME 1 \in DOMAIN nodes
                 PROVE  Depths[1] = 1
    BY <1>2, <1>5 DEF FirstAtOne
  <2>2. \A i \in DOMAIN nodes[1].ins : InputDepth(Depths, nodes[1].ins[i]) = 1
    <3>1. SUFFICES ASSUME NEW i \in DOMAIN nodes[1].ins
                   PROVE  nodes[1].ins[i].node = 0
      BY DEF InputDepth, IsLeaf
    <3>2. PICK o \in Nat : o = 1
      OBVIOUS
    <3>3. InputsType(nodes[o].ins, o)
      BY <1>1, <2>1, <3>2 DEF TypedNode
    <3>4. nodes[o].ins[i].node \in Nat /\ nodes[o].ins[i].node < o
      BY <3>1, <3>2, <3>3, InputIndices
    <3>5. QED
      BY <3>2, <3>4
  <2>3. nodes[1].fs = 1
    BY <2>1 DEF SchedInv, FirstAtOne
  <2>4. QED
    BY <1>4, <2>1, <2>2, <2>3
<1>8. DepthsGrow(N)
  <2>1. SUFFICES ASSUME NEW n \in DOMAIN nodes, NEW i \in DOMAIN nodes[n].ins,
                        ~IsLeaf(nodes[n].ins[i])
                 PROVE  N[nodes[n].ins[i].node].fs < Depths[n]
    BY <1>2, <1>5 DEF DepthsGrow
  <2>2. n \in Nat /\ InputsType(nodes[n].ins, n)
    BY <1>1 DEF TypedNode
  <2>3. nodes[n].ins[i].node \in Nat /\ nodes[n].ins[i].node < n
    BY <2>2, InputIndices
  <2>4. PICK m \in DOMAIN nodes : m = nodes[n].ins[i].node
    BY <1>1, <2>1, <2>3 DEF IsLeaf
  <2>5. InputDepth(Depths, nodes[n].ins[i]) = 1 + Depths[m]
    BY <2>1, <2>4 DEF InputDepth
  <2>6. 1 + Depths[m] <= Depths[n] /\ Depths[m] \in Nat /\ Depths[n] \in Nat
    BY <1>3, <1>4, <2>5
  <2>7. QED
    BY <1>5, <2>4, <2>6
<1>9. UnrollsInOrder(N)
  BY <1>2, <1>5 DEF SchedInv, UnrollsInOrder
<1>10. FewInputs(N) /\ \A n \in DOMAIN N : N[n].unroll \in Int
  BY <1>2, <1>5, <1>6, TypedIsFew DEF TypedNode
<1>11. QED
  BY <1>2, <1>5, <1>6, <1>7, <1>8, <1>9, <1>10 DEF Sortable

\* Each step keeps the invariant.
LEMMA NextSched ==
  ASSUME AllWellFormed, AllUnrolledInOrder, SchedInv, [Next]_vars
  PROVE  SchedInv'
<1>1. IInv /\ IInv'
  BY NextInv DEF SchedInv
<1>2. /\ TypedNodes(nodes) /\ Len(nodes) \in Nat /\ DOMAIN nodes = 1 .. Len(nodes)
  BY TypedIsFew DEF SchedInv
<1>3. CASE FoldAssignment
  <2> DEFINE n == Len(nodes)
  <2>1. /\ Inserting /\ Folds /\ at' = at + 1
        /\ UNCHANGED <<code, order, pc>>
    BY <1>3 DEF FoldAssignment
  <2>2. /\ TypedNodes(nodes') /\ DOMAIN nodes' = DOMAIN nodes
        /\ Len(nodes') = n /\ n \in DOMAIN nodes
        /\ \A m \in DOMAIN nodes : m # n => nodes'[m] = nodes[m]
        /\ nodes'[n].id = Tac.id /\ nodes'[n].unroll = Tac.unroll
        /\ FirstAtOne(nodes')
    BY <1>3, FoldedTypes
  <2>3. at \in Nat \ {0} /\ at' - 1 = at
    BY <1>1, <2>1, TacAtHand
  <2>4. CopiesOfTacs'
    <3>1. SUFFICES ASSUME NEW m \in DOMAIN nodes
                   PROVE  \E q \in 1 .. at : nodes'[m].id = code[q].id
                            /\ nodes'[m].unroll = code[q].unroll
      BY <2>1, <2>2, <2>3 DEF CopiesOfTacs
    <3>2. CASE m = n
      BY <2>2, <2>3, <3>2 DEF Tac
    <3>3. CASE m # n
      <4>1. PICK q \in 1 .. at - 1 : nodes[m].id = code[q].id
                                     /\ nodes[m].unroll = code[q].unroll
        BY DEF SchedInv, CopiesOfTacs
      <4>2. q \in 1 .. at
        BY <2>3
      <4>3. QED
        BY <2>2, <3>3, <4>1, <4>2
    <3>4. QED
      BY <3>2, <3>3
  <2>5. UnrollsInOrder(nodes)'
    <3>1. SUFFICES ASSUME NEW m \in DOMAIN nodes, NEW o \in DOMAIN nodes,
                          m < o, nodes'[m].id = nodes'[o].id
                   PROVE  nodes'[m].unroll <= nodes'[o].unroll
      BY <2>2 DEF UnrollsInOrder
    <3>2. m # n /\ nodes'[m] = nodes[m]
      BY <1>2, <2>2, <3>1
    <3>3. CASE o = n
      BY <2>1, <2>2, <3>1, <3>2, <3>3, EarlierCopies
    <3>4. CASE o # n
      BY <2>2, <3>1, <3>2, <3>4 DEF SchedInv, UnrollsInOrder
    <3>5. QED
      BY <3>3, <3>4
  <2>6. LastUnroll'
    BY <2>1, <2>3 DEF LastUnroll, Folds, Tac
  <2>7. FewNodes'
    <3>1. ~MakesNode(Tac)
      BY <1>1, <2>1, FoldsLast DEF Folds, MakesNode
    <3>2. QED
      BY <2>1, <2>2, <3>1, OneMoreTac DEF SchedInv, FewNodes
  <2>8. pc' # "done" /\ Sorted'
    BY <2>1 DEF SchedInv, Inserting, Sorted
  <2>9. QED
    BY <1>1, <2>1, <2>2, <2>4, <2>5, <2>6, <2>7, <2>8 DEF SchedInv
<1>4. CASE InsertNode
  <2> DEFINE e == NewNode(Tac, NewInputs(Tac))
             K == MarkStored(Tac, NewInputs(Tac))
             n == Len(nodes)
  <2>1. /\ Inserting /\ ~Folds /\ at' = at + 1
        /\ UNCHANGED <<code, order, pc>>
        /\ nodes' = Append(K, e)
    BY <1>4 DEF InsertNode
  <2>2. /\ TypedNode(e, n + 1) /\ e.id = Tac.id /\ e.unroll = Tac.unroll
        /\ n = 0 => e.fs = 1
    BY <2>1, NewNodeType
  <2>3. /\ TypedNodes(K) /\ DOMAIN K = DOMAIN nodes /\ Len(K) = n
        /\ \A m \in DOMAIN nodes :
             /\ K[m].fs = nodes[m].fs /\ K[m].id = nodes[m].id
             /\ K[m].unroll = nodes[m].unroll
    BY <2>1, MarkedTypes
  <2> HIDE DEF e, K
  <2>4. /\ TypedNodes(nodes') /\ DOMAIN nodes' = 1 .. n + 1 /\ Len(nodes') = n + 1
        /\ nodes'[n + 1] = e /\ \A m \in DOMAIN nodes : nodes'[m] = K[m]
    BY <2>1, <2>2, <2>3, TypedAppended
  <2>5. /\ \A m \in DOMAIN nodes' : m \in DOMAIN nodes \/ m = n + 1
        /\ \A m \in DOMAIN nodes :
             /\ nodes'[m].fs = nodes[m].fs /\ nodes'[m].id = nodes[m].id
             /\ nodes'[m].unroll = nodes[m].unroll
    BY <1>2, <2>3, <2>4
  <2>6. at \in Nat \ {0} /\ at' - 1 = at
    BY <1>1, <2>1, TacAtHand
  <2>7. CopiesOfTacs'
    <3>1. SUFFICES ASSUME NEW m \in DOMAIN nodes'
                   PROVE  \E q \in 1 .. at : nodes'[m].id = code[q].id
                            /\ nodes'[m].unroll = code[q].unroll
      BY <2>1, <2>6 DEF CopiesOfTacs
    <3>2. CASE m = n + 1
      BY <2>2, <2>4, <2>6, <3>2 DEF Tac
    <3>3. CASE m \in DOMAIN nodes
      <4>1. PICK q \in 1 .. at - 1 : nodes[m].id = code[q].id
                                     /\ nodes[m].unroll = code[q].unroll
        BY <3>3 DEF SchedInv, CopiesOfTacs
      <4>2. q \in 1 .. at
        BY <2>6
      <4>3. QED
        BY <2>5, <3>3, <4>1, <4>2
    <3>4. QED
      BY <2>5, <3>2, <3>3
  <2>8. UnrollsInOrder(nodes)'
    <3>1. SUFFICES ASSUME NEW m \in DOMAIN nodes', NEW o \in DOMAIN nodes',
                          m < o, nodes'[m].id = nodes'[o].id
                   PROVE  nodes'[m].unroll <= nodes'[o].unroll
      BY DEF UnrollsInOrder
    <3>2. m \in DOMAIN nodes
      BY <1>2, <2>4, <3>1
    <3>3. CASE o = n + 1
      <4>1. nodes[m].id = Tac.id
        BY <2>2, <2>4, <2>5, <3>1, <3>2, <3>3
      <4>2. nodes[m].unroll <= Tac.unroll
        BY <2>1, <3>2, <4>1, EarlierCopies
      <4>3. QED
        BY <2>2, <2>4, <2>5, <3>2, <3>3, <4>2
    <3>4. CASE o \in DOMAIN nodes
      BY <2>5, <3>1, <3>2, <3>4 DEF SchedInv, UnrollsInOrder
    <3>5. QED
      BY <2>5, <3>3, <3>4
  <2>9. LastUnroll'
    BY <2>1, <2>2, <2>4, <2>6 DEF LastUnroll, Tac
  <2>10. FewNodes'
    <3>1. MakesNode(Tac)
      BY <1>1, <2>1, InsertedTac DEF MakesNode
    <3>2. Cardinality(NodeTacs') = Cardinality(NodeTacs) + 1
          /\ Cardinality(NodeTacs) \in Nat
      BY <2>1, <3>1, OneMoreTac
    <3>3. n <= Cardinality(NodeTacs)
      BY DEF SchedInv, FewNodes
    <3>4. QED
      BY <1>2, <2>4, <3>2, <3>3 DEF FewNodes
  <2>11. FirstAtOne(nodes')
    <3>1. CASE n = 0
      BY <2>2, <2>4, <3>1 DEF FirstAtOne
    <3>2. CASE n # 0
      BY <1>2, <2>5, <3>2 DEF SchedInv, FirstAtOne
    <3>3. QED
      BY <3>1, <3>2
  <2>12. pc' # "done" /\ Sorted'
    BY <2>1 DEF SchedInv, Inserting, Sorted
  <2>13. QED
    BY <1>1, <2>1, <2>4, <2>7, <2>8, <2>9, <2>10, <2>11, <2>12 DEF SchedInv
<1>5. CASE SortGraph
  <2>1. /\ UNCHANGED <<code, at>> /\ pc = "insert" /\ pc' = "done"
        /\ nodes' = ComputeFreeSchedule /\ order' = TopSort(ComputeFreeSchedule)
    BY <1>5 DEF SortGraph
  <2>2. /\ TypedNodes(nodes') /\ DOMAIN nodes' = DOMAIN nodes
        /\ Len(nodes') = Len(nodes)
        /\ \A n \in DOMAIN nodes : nodes'[n].id = nodes[n].id
                                   /\ nodes'[n].unroll = nodes[n].unroll
        /\ Sortable(nodes')
    BY <2>1, DeepNodes
  <2>3. SortedTo(nodes', order', Len(nodes'))
    BY <2>1, <2>2, TopSortSorts
  <2>4. Sorted' /\ UnrollsInOrder(nodes') /\ FirstAtOne(nodes')
    BY <2>1, <2>2, <2>3 DEF Sorted, Sortable
  <2>5. CopiesOfTacs'
    BY <2>1, <2>2 DEF SchedInv, CopiesOfTacs
  <2>6. LastUnroll'
    <3>1. at > 1 /\ ~IsAssignment(code[at - 1]) => Len(nodes) \in DOMAIN nodes
      BY <1>1, <1>2 DEF IInv, LastComputed
    <3>2. QED
      BY <2>1, <2>2, <3>1 DEF SchedInv, LastUnroll
  <2>7. FewNodes'
    BY <2>1, <2>2 DEF SchedInv, FewNodes, NodeTacs
  <2>8. QED
    BY <1>1, <2>1, <2>2, <2>4, <2>5, <2>6, <2>7 DEF SchedInv
<1>6. CASE NameOfBrokenLeaf
  <2>1. UNCHANGED <<code, at, nodes, order>> /\ pc = "insert" /\ pc' = "undefined"
    BY <1>6 DEF NameOfBrokenLeaf, Inserting
  <2>2. QED
    BY <1>1, <2>1 DEF SchedInv, CopiesOfTacs, LastUnroll, FewNodes, NodeTacs,
                      Sorted, UnrollsInOrder, FirstAtOne
<1>7. CASE UNCHANGED vars
  BY <1>1, <1>7 DEF vars, SchedInv, CopiesOfTacs, LastUnroll, FewNodes, NodeTacs,
                    Sorted, UnrollsInOrder, FirstAtOne
<1>8. QED
  BY <1>3, <1>4, <1>5, <1>6, <1>7 DEF Next, Step, Finished

-------------------------------------------------------------------------------
\* What is said of the sorted nodes.
LEMMA SortedInOrder ==
  ASSUME SchedInv
  PROVE  /\ order \in Seq(DOMAIN nodes)
         /\ InputsFirst
<1>1. Len(nodes) \in Nat /\ DOMAIN nodes = 1 .. Len(nodes)
  BY TypedIsFew DEF SchedInv
<1>2. CASE pc = "done"
  <2>1. SortedTo(nodes, order, Len(nodes))
    BY <1>2 DEF SchedInv, Sorted
  <2>2. /\ order \in Seq(1 .. Len(nodes)) /\ Len(order) = Len(nodes)
        /\ \A m \in 1 .. Len(nodes) : \E i \in 1 .. Len(nodes) : order[i] = m
        /\ BehindInputs(nodes, order)
    BY <2>1 DEF SortedTo
  <2>3. DOMAIN order = 1 .. Len(nodes)
    BY <2>2
  <2>4. {order[i] : i \in DOMAIN order} = DOMAIN nodes
    <3>1. \A i \in 1 .. Len(nodes) : order[i] \in 1 .. Len(nodes)
      <4>1. PICK b \in Nat : b = Len(nodes)
        BY <1>1
      <4>2. order \in Seq(1 .. b) /\ Len(order) = b
        BY <2>2, <4>1
      <4>3. \A i \in 1 .. b : order[i] \in 1 .. b
        BY <4>2
      <4>4. QED
        BY <4>1, <4>3
    <3>2. QED
      BY <1>1, <2>2, <2>3, <3>1
  <2>5. QED
    BY <1>1, <2>2, <2>4 DEF InputsFirst, BehindInputs
<1>3. CASE pc # "done"
  <2>1. order = <<>>
    BY <1>3 DEF SchedInv, Sorted
  <2>2. QED
    BY <1>3, <2>1 DEF InputsFirst
<1>4. QED
  BY <1>2, <1>3

\* The type invariant of CDAG: the nodes are as many as the TACs they are made
\* for and have the fields insertTac gives them, schedules included.
THEOREM GraphTypes ==
  ASSUME AllWellFormed, AllUnrolledInOrder
  PROVE  Spec => []TypeOK
<1>1. Init => SchedInv
  BY InitSched
<1>2. SchedInv /\ [Next]_vars => SchedInv'
  BY NextSched
<1>3. SchedInv => TypeOK
  <2>1. SUFFICES ASSUME SchedInv
                 PROVE  TypeOK
    OBVIOUS
  <2>2. code \in Codes /\ at \in 1 .. Len(code) + 1
    BY <2>1 DEF SchedInv, IInv, Types
  <2>3. \A n \in DOMAIN nodes :
          /\ nodes[n].out \in Names /\ nodes[n].fs \in Nat
          /\ Len(nodes[n].ins) \in {1, 2}
          /\ \A i \in DOMAIN nodes[n].ins : nodes[n].ins[i] \in Inputs
    BY <2>1, TypedIsFew DEF SchedInv, TypedNode, InputsType
  <2>4. QED
    BY <2>1, <2>2, <2>3, SortedInOrder DEF SchedInv, TypeOK, FewNodes, NodeTacs
<1>4. QED
  BY <1>1, <1>2, <1>3, PTL DEF Spec

\* A node is never an input of its own, and after sortGraph it is deeper than
\* its inputs: computeMaxDepth ends, with depths packing can go by.
THEOREM NodesDeeperThanInputs ==
  ASSUME AllWellFormed, AllUnrolledInOrder
  PROVE  Spec => []DeeperThanInputs
<1>1. Init => SchedInv
  BY InitSched
<1>2. SchedInv /\ [Next]_vars => SchedInv'
  BY NextSched
<1>3. SchedInv => DeeperThanInputs
  <2>1. SUFFICES ASSUME SchedInv
                 PROVE  DeeperThanInputs
    OBVIOUS
  <2>2. Acyclic
    BY <2>1, TypedIsFew DEF SchedInv, TypedNode, InputsType, Acyclic
  <2>3. pc = "done" => DepthsGrow(nodes)
    BY <2>1 DEF SchedInv, Sorted
  <2>4. QED
    BY <2>2, <2>3 DEF DeeperThanInputs, DepthsGrow
<1>4. QED
  BY <1>1, <1>2, <1>3, PTL DEF Spec

\* The insertion sort returns every node once and behind its inputs, although
\* Node::operator< is no weak order.
THEOREM InputsSortedFirst ==
  ASSUME AllWellFormed, AllUnrolledInOrder
  PROVE  Spec => []InputsFirst
<1>1. Init => SchedInv
  BY InitSched
<1>2. SchedInv /\ [Next]_vars => SchedInv'
  BY NextSched
<1>3. SchedInv => InputsFirst
  BY SortedInOrder
<1>4. QED
  BY <1>1, <1>2, <1>3, PTL DEF Spec
===============================================================================
