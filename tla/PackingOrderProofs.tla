-------------------------- MODULE PackingOrderProofs --------------------------
(***************************************************************************)
(* The order the nodes are packed in, whatever the lists of TACs, the      *)
(* options and the sizes: what reduces into one location is packed in the  *)
(* order of the code, and the operation of a temporary before the one that *)
(* reads it.  Both take more of the lists than the theorems of module      *)
(* PackingProofs do.                                                       *)
(***************************************************************************)
EXTENDS PackingProofs

AllLocationsInOrder == \A tl \in Codes : LocationsInOrder(tl)
AllValuesReadOnce == \A tl \in Codes : ValuesReadOnce(tl)

-------------------------------------------------------------------------------
(***************************************************************************)
(* The graph.  A node has the name, the TacID and the offset of one TAC,   *)
(* and of two nodes with one name the later one has the greater TacID or   *)
(* offset.                                                                 *)
(***************************************************************************)
NamedBy(n, q) ==
  /\ nodes[n].out = code[q].a
  /\ nodes[n].id = code[q].id /\ nodes[n].unroll = code[q].unroll

Earlier(m, n) ==
  nodes[m].id < nodes[n].id
  \/ (nodes[m].id = nodes[n].id /\ nodes[m].unroll < nodes[n].unroll)

NamesInOrder ==
  /\ \A n \in DOMAIN nodes : \E q \in 1 .. at - 1 : NamedBy(n, q)
  /\ \A m, n \in DOMAIN nodes : m < n /\ nodes[m].out = nodes[n].out => Earlier(m, n)

\* Renaming the last node gives it the name and the TacID of the assignment.
LEMMA FoldedName ==
  ASSUME AllWellFormed, AllUnrolledInOrder, SchedInv, FoldAssignment
  PROVE  /\ DOMAIN nodes' = DOMAIN nodes /\ Len(nodes) \in DOMAIN nodes
         /\ \A m \in DOMAIN nodes : m # Len(nodes) => nodes'[m] = nodes[m]
         /\ nodes'[Len(nodes)].out = Tac.a /\ nodes'[Len(nodes)].id = Tac.id
         /\ nodes'[Len(nodes)].unroll = Tac.unroll
BY FoldedTypes, FoldedNodes DEF SchedInv

\* A node that is inserted has the name, the TacID and the offset of its TAC, and
\* leaves those of the others.
LEMMA InsertedName ==
  ASSUME AllWellFormed, SchedInv, InsertNode
  PROVE  LET n == Len(nodes) + 1
         IN  /\ DOMAIN nodes' = 1 .. n
             /\ nodes'[n].out = Tac.a /\ nodes'[n].id = Tac.id
             /\ nodes'[n].unroll = Tac.unroll
             /\ \A m \in DOMAIN nodes :
                  /\ nodes'[m].out = nodes[m].out /\ nodes'[m].id = nodes[m].id
                  /\ nodes'[m].unroll = nodes[m].unroll
<1> DEFINE e == NewNode(Tac, NewInputs(Tac))
           K == MarkStored(Tac, NewInputs(Tac))
<1>1. Inserting /\ ~Folds /\ nodes' = Append(K, e) /\ IInv
  BY DEF InsertNode, SchedInv
<1>2. e.out = Tac.a
  BY <1>1, InsertedValue
<1>3. TypedNode(e, Len(nodes) + 1) /\ e.id = Tac.id /\ e.unroll = Tac.unroll
  BY <1>1, NewNodeType
<1>4. \A m \in DOMAIN nodes : K[m].out = nodes[m].out
  BY <1>1, MarkedNodes
<1>5. /\ TypedNodes(K) /\ DOMAIN K = DOMAIN nodes /\ Len(K) = Len(nodes)
      /\ \A m \in DOMAIN nodes : K[m].id = nodes[m].id /\ K[m].unroll = nodes[m].unroll
  BY <1>1, MarkedTypes
<1> HIDE DEF e, K
<1>6. LET M == Append(K, e)
      IN  /\ DOMAIN M = 1 .. Len(K) + 1
          /\ M[Len(K) + 1] = e /\ \A m \in DOMAIN K : M[m] = K[m]
  BY <1>3, <1>5, TypedAppended
<1>7. QED
  BY <1>1, <1>2, <1>3, <1>4, <1>5, <1>6

\* Sorting the graph changes depths only.
LEMMA SortedName ==
  ASSUME SchedInv, SortGraph
  PROVE  /\ DOMAIN nodes' = DOMAIN nodes
         /\ \A m \in DOMAIN nodes :
              /\ nodes'[m].out = nodes[m].out /\ nodes'[m].id = nodes[m].id
              /\ nodes'[m].unroll = nodes[m].unroll
<1>1. nodes' = ComputeFreeSchedule /\ pc # "done" /\ IInv
  BY DEF SortGraph, SchedInv
<1>2. QED
  BY <1>1, DeepNodes, SortedNodes

\* The TAC at hand stands behind those of the nodes with its name.
LEMMA EarlierNames ==
  ASSUME AllLocationsInOrder, SchedInv, Inserting, Tac.a \notin Temps,
         NEW m \in DOMAIN nodes, NEW q \in 1 .. at - 1, NamedBy(m, q),
         nodes[m].out = Tac.a
  PROVE  nodes[m].id < Tac.id \/ (nodes[m].id = Tac.id /\ nodes[m].unroll < Tac.unroll)
<1>1. IInv /\ at \in DOMAIN code /\ DOMAIN code = 1 .. Len(code) /\ Len(code) \in Nat
  BY TacAtHand DEF SchedInv
<1>2. q \in DOMAIN code /\ q < at
  BY <1>1
<1>3. LocationsInOrder(code)
  BY <1>1 DEF AllLocationsInOrder, IInv, Types
<1>4. code[q].a = code[at].a /\ code[q].a \notin Temps
  BY DEF NamedBy, Tac
<1>5. code[q].id < code[at].id
      \/ (code[q].id = code[at].id /\ code[q].unroll < code[at].unroll)
  BY <1>1, <1>2, <1>3, <1>4 DEF LocationsInOrder
<1>6. QED
  BY <1>5 DEF NamedBy, Tac

\* Each step leaves the names in order.
LEMMA NextNames ==
  ASSUME AllWellFormed, AllUnrolledInOrder, AllLocationsInOrder, SchedInv, NamesInOrder,
         [Next]_vars
  PROVE  NamesInOrder'
<1>1. IInv /\ SchedInv' /\ IInv' /\ DOMAIN nodes = 1 .. Len(nodes) /\ Len(nodes) \in Nat
  BY NextSched, TypedIsFew DEF SchedInv
<1>2. CASE FoldAssignment \/ InsertNode
  <2> PICK n : n = IF FoldAssignment THEN Len(nodes) ELSE Len(nodes) + 1
    OBVIOUS
  <2>1. Inserting /\ code' = code /\ at' = at + 1
    BY <1>2 DEF FoldAssignment, InsertNode
  <2>2. /\ n \in DOMAIN nodes' /\ n \in Nat
        /\ \A m \in DOMAIN nodes' : m # n => m \in DOMAIN nodes /\ m < n
        /\ nodes'[n].out = Tac.a /\ nodes'[n].id = Tac.id /\ nodes'[n].unroll = Tac.unroll
        /\ \A m \in DOMAIN nodes' : m # n =>
             /\ nodes'[m].out = nodes[m].out /\ nodes'[m].id = nodes[m].id
             /\ nodes'[m].unroll = nodes[m].unroll
    BY <1>1, <1>2, FoldedName, InsertedName
  <2>3. at \in Nat \ {0} /\ at' - 1 = at
    BY <1>1, <2>1, TacAtHand
  <2>4. \A m \in DOMAIN nodes' : \E q \in 1 .. at' - 1 : NamedBy(m, q)'
    <3>1. SUFFICES ASSUME NEW m \in DOMAIN nodes'
                   PROVE  \E q \in 1 .. at : NamedBy(m, q)'
      BY <2>3
    <3>2. CASE m = n
      BY <2>1, <2>2, <2>3, <3>2 DEF NamedBy, Tac
    <3>3. CASE m # n
      <4>1. m \in DOMAIN nodes
        BY <2>2, <3>3
      <4>2. PICK q \in 1 .. at - 1 : NamedBy(m, q)
        BY <4>1 DEF NamesInOrder
      <4>3. q \in 1 .. at
        BY <2>3
      <4>4. QED
        BY <2>1, <2>2, <3>3, <4>2, <4>3 DEF NamedBy
    <3>4. QED
      BY <3>2, <3>3
  <2>5. \A m, k \in DOMAIN nodes' : m < k /\ nodes'[m].out = nodes'[k].out => Earlier(m, k)'
    <3>1. SUFFICES ASSUME NEW m \in DOMAIN nodes', NEW k \in DOMAIN nodes', m < k,
                          nodes'[m].out = nodes'[k].out
                   PROVE  Earlier(m, k)'
      OBVIOUS
    <3>2. m # n /\ m \in DOMAIN nodes
      BY <1>1, <2>2, <3>1
    <3>3. CASE k = n
      <4>1. Tac.a \notin Temps
        BY <1>1, <2>2, <3>1, <3>2, <3>3 DEF IInv, TempsUnique
      <4>2. PICK q \in 1 .. at - 1 : NamedBy(m, q)
        BY <3>2 DEF NamesInOrder
      <4>3. nodes[m].out = Tac.a
        BY <2>2, <3>1, <3>2, <3>3
      <4>4. QED
        BY <2>1, <2>2, <3>2, <3>3, <4>1, <4>2, <4>3, EarlierNames DEF Earlier
    <3>4. CASE k # n
      <4>1. k \in DOMAIN nodes /\ nodes[m].out = nodes[k].out
        BY <2>2, <3>1, <3>2, <3>4
      <4>2. Earlier(m, k)
        BY <3>1, <3>2, <4>1 DEF NamesInOrder
      <4>3. QED
        BY <2>2, <3>2, <3>4, <4>1, <4>2 DEF Earlier
    <3>5. QED
      BY <3>3, <3>4
  <2>6. QED
    BY <2>4, <2>5 DEF NamesInOrder
<1>3. CASE SortGraph
  <2>1. code' = code /\ at' = at
    BY <1>3 DEF SortGraph
  <2>2. QED
    BY <1>3, <2>1, SortedName DEF NamesInOrder, NamedBy, Earlier
<1>4. CASE NameOfBrokenLeaf \/ UNCHANGED vars
  <2>1. code' = code /\ at' = at /\ nodes' = nodes
    BY <1>4 DEF NameOfBrokenLeaf, vars
  <2>2. QED
    BY <2>1 DEF NamesInOrder, NamedBy, Earlier
<1>5. QED
  BY <1>2, <1>3, <1>4 DEF Next, Step, Finished

-------------------------------------------------------------------------------
(***************************************************************************)
(* Where locations are only assigned what an operation has computed, a node*)
(* that stores nothing has the name of a temporary.  Its readers take it   *)
(* for an operand, which a temporary is only once: it has one reader.      *)
(***************************************************************************)
ReadBy(n, q) ==
  \E i \in DOMAIN Operands(code[q]) : Operands(code[q])[i] = nodes[n].out

OneReader ==
  /\ \A n \in DOMAIN nodes : nodes[n].store \/ nodes[n].out \in Temps
  /\ \A n \in DOMAIN nodes : \A k \in Read(n) : \E q \in 1 .. at - 1 : ReadBy(k, q)
  /\ \A m, n \in DOMAIN nodes : \A k \in Read(m) : k \in Read(n) => m = n

\* Renaming the last node makes it a store, with the inputs it had.
LEMMA FoldedStore ==
  ASSUME AllWellFormed, AllUnrolledInOrder, SchedInv, FoldAssignment
  PROVE  LET n == Len(nodes)
         IN  nodes'[n].store = TRUE /\ nodes'[n].ins = nodes[n].ins
<1> DEFINE n == Len(nodes)
           o == nodes[n]
           r == [o EXCEPT !.out = Tac.a, !.store = TRUE, !.id = Tac.id]
           f == WARSchedule([nodes EXCEPT ![n] = r], n, Tac.a, Tac.id)
           s == [r EXCEPT !.fs = f]
<1>1. Inserting /\ Folds /\ IInv /\ TypedNodes(nodes)
  BY DEF FoldAssignment, SchedInv
<1>2. n \in DOMAIN nodes /\ FindOutputNode(nodes, Tac.c) = n
  BY <1>1, FoldsLast
<1>3. nodes' = [nodes EXCEPT ![n] = s]
  BY <1>2 DEF FoldAssignment, Assigned
<1>4. {"out", "ins", "id", "unroll", "fs", "store"} \subseteq DOMAIN o
  BY <1>1, <1>2 DEF TypedNodes, TypedNode
<1> HIDE DEF f
<1>5. r.store = TRUE /\ r.ins = o.ins /\ "store" \in DOMAIN r /\ "ins" \in DOMAIN r
  BY <1>4
<1> HIDE DEF r
<1>6. s.store = TRUE /\ s.ins = o.ins
  BY <1>5
<1> HIDE DEF s
<1>7. nodes'[n] = s
  BY <1>2, <1>3
<1>8. QED
  BY <1>6, <1>7

\* A node that is inserted is no store, has the name of a temporary, and reads the
\* nodes with the names of its TAC's operands; no other node changes.
LEMMA InsertedValueNode ==
  ASSUME AllWellFormed, AllValuesReadOnce, SchedInv, InsertNode
  PROVE  LET n == Len(nodes) + 1
         IN  /\ DOMAIN nodes' = 1 .. n
             /\ nodes'[n].store = FALSE /\ nodes'[n].out \in Temps
             /\ \A i \in DOMAIN nodes'[n].ins :
                  nodes'[n].ins[i].node # 0 =>
                    /\ i \in DOMAIN Operands(Tac)
                    /\ nodes'[n].ins[i].node \in DOMAIN nodes
                    /\ nodes[nodes'[n].ins[i].node].out = Operands(Tac)[i]
             /\ \A m \in DOMAIN nodes : nodes'[m] = nodes[m]
<1> DEFINE ins == NewInputs(Tac)
           e == NewNode(Tac, ins)
<1>1. Inserting /\ ~Folds /\ IInv /\ nodes' = Append(MarkStored(Tac, ins), e)
  BY DEF InsertNode, SchedInv
<1>2. /\ at \in DOMAIN code /\ WellFormed(code) /\ ValuesReadOnce(code) /\ TypedNodes(nodes)
  BY <1>1, TacAtHand DEF SchedInv, IInv, Types, AllWellFormed, AllValuesReadOnce
<1>3. Tac.a \in Temps /\ ~IsAssignment(Tac)
  <2>1. IsAssignment(Tac) => Tac.c \notin Temps
    BY <1>1, InsertedTac
  <2>2. Tac.a \in Temps
    BY <1>2, <2>1 DEF ValuesReadOnce, Tac
  <2>3. QED
    BY <1>2, <2>2 DEF WellFormed, Tac
<1>4. MarkStored(Tac, ins) = nodes
  BY <1>3 DEF MarkStored
<1>5. /\ ins = [i \in DOMAIN Operands(Tac) |-> Connect(Operands(Tac)[i], Tac.id)]
  BY <1>3 DEF NewInputs
<1>6. e.store = FALSE /\ e.out = Tac.a /\ e.ins = ins
  BY DEF NewNode
<1>7. TypedNode(e, Len(nodes) + 1)
  BY <1>1, NewNodeType
<1>8. ASSUME NEW i \in DOMAIN ins, ins[i].node # 0
      PROVE  /\ i \in DOMAIN Operands(Tac)
             /\ ins[i].node \in DOMAIN nodes
             /\ nodes[ins[i].node].out = Operands(Tac)[i]
  <2>1. i \in DOMAIN Operands(Tac) /\ ins[i] = Connect(Operands(Tac)[i], Tac.id)
    BY <1>5
  <2> DEFINE x == Operands(Tac)[i]
  <2> HIDE DEF x
  <2>2. ASSUME ~HasOutputNode(nodes, x)
        PROVE  FALSE
    BY <1>8, <2>1, <2>2 DEF x, Connect, LeafInput
  <2>3. ins[i].node = FindOutputNode(nodes, x)
    BY <2>1, <2>2 DEF x, Connect, NodeInput
  <2>4. IsOutputNode(nodes, FindOutputNode(nodes, x), x)
    BY <2>2 DEF HasOutputNode, FindOutputNode
  <2>5. QED
    BY <2>1, <2>3, <2>4 DEF IsOutputNode, x
<1> HIDE DEF ins, e
<1>9. LET M == Append(nodes, e)
      IN  /\ DOMAIN M = 1 .. Len(nodes) + 1
          /\ M[Len(nodes) + 1] = e /\ \A m \in DOMAIN nodes : M[m] = nodes[m]
  BY <1>2, <1>7, TypedAppended
<1>10. QED
  BY <1>1, <1>3, <1>4, <1>6, <1>8, <1>9

\* Each step leaves a temporary one reader.
LEMMA NextReaders ==
  ASSUME AllWellFormed, AllUnrolledInOrder, AllValuesReadOnce, SchedInv, OneReader,
         [Next]_vars
  PROVE  OneReader'
<1>1. IInv /\ TypedNodes(nodes) /\ DOMAIN nodes = 1 .. Len(nodes) /\ Len(nodes) \in Nat
  BY TypedIsFew DEF SchedInv
<1>2. \A n \in DOMAIN nodes : NodesRead(n) \subseteq DOMAIN nodes
  BY <1>1, NodesReadOlder
<1>3. CASE FoldAssignment
  <2> DEFINE l == Len(nodes)
  <2>1. /\ DOMAIN nodes' = DOMAIN nodes /\ l \in DOMAIN nodes
        /\ \A m \in DOMAIN nodes : m # l => nodes'[m] = nodes[m]
        /\ nodes'[l].store = TRUE /\ nodes'[l].ins = nodes[l].ins
    BY <1>3, FoldedName, FoldedStore
  <2>2. Inserting /\ code' = code /\ at' = at + 1
    BY <1>3 DEF FoldAssignment
  <2>3. at \in Nat /\ \A q \in 1 .. at - 1 : q \in 1 .. at' - 1
    BY <1>1, <2>2, TacAtHand
  <2> HIDE DEF l
  <2>4. \A n \in DOMAIN nodes : nodes'[n].ins = nodes[n].ins
    BY <2>1
  <2>5. \A n \in DOMAIN nodes : Read(n)' \subseteq Read(n) \ {l}
    BY <1>2, <2>1, <2>4 DEF Read, NodesRead
  <2>6. \A n \in DOMAIN nodes : nodes'[n].store \/ nodes'[n].out \in Temps
    BY <2>1 DEF OneReader
  <2>7. ASSUME NEW n \in DOMAIN nodes, NEW k \in Read(n)'
        PROVE  \E q \in 1 .. at' - 1 : ReadBy(k, q)'
    <3>1. k \in Read(n) /\ k # l /\ k \in DOMAIN nodes
      BY <1>2, <2>5, <2>7 DEF Read
    <3>2. PICK q \in 1 .. at - 1 : ReadBy(k, q)
      BY <3>1 DEF OneReader
    <3>3. QED
      BY <2>1, <2>2, <2>3, <3>1, <3>2 DEF ReadBy
  <2>8. QED
    BY <2>1, <2>5, <2>6, <2>7 DEF OneReader
<1>4. CASE InsertNode
  <2> PICK l : l = Len(nodes) + 1
    OBVIOUS
  <2> PICK p : p = at
    OBVIOUS
  <2>1. /\ DOMAIN nodes' = 1 .. l
        /\ nodes'[l].store = FALSE /\ nodes'[l].out \in Temps
        /\ \A i \in DOMAIN nodes'[l].ins :
             nodes'[l].ins[i].node # 0 =>
               /\ i \in DOMAIN Operands(Tac)
               /\ nodes'[l].ins[i].node \in DOMAIN nodes
               /\ nodes[nodes'[l].ins[i].node].out = Operands(Tac)[i]
        /\ \A m \in DOMAIN nodes : nodes'[m] = nodes[m]
    BY <1>4, InsertedValueNode
  <2>2. Inserting /\ code' = code /\ at' = at + 1
    BY <1>4 DEF InsertNode
  <2>3. /\ at \in Nat /\ at \in DOMAIN code /\ at' - 1 = at
        /\ \A q \in 1 .. at - 1 : q \in 1 .. at /\ q \in DOMAIN code /\ q # at
        /\ p \in 1 .. at /\ code \in Codes
    BY <1>1, <2>2, TacAtHand DEF IInv, Types
  <2>4. \A n \in DOMAIN nodes : Read(n)' = Read(n)
    BY <1>2, <2>1 DEF Read, NodesRead
  <2>5. \A n \in DOMAIN nodes' : n \in DOMAIN nodes \/ n = l
    BY <1>1, <2>1
  <2>6. \A k \in Read(l)' :
          /\ k \in DOMAIN nodes /\ ~nodes[k].store
          /\ ReadBy(k, p)' /\ \E i \in DOMAIN Operands(Tac) : nodes[k].out = Operands(Tac)[i]
    <3>1. SUFFICES ASSUME NEW k \in Read(l)'
                   PROVE  /\ k \in DOMAIN nodes /\ ~nodes[k].store
                          /\ ReadBy(k, p)'
                          /\ \E i \in DOMAIN Operands(Tac) : nodes[k].out = Operands(Tac)[i]
      OBVIOUS
    <3>2. PICK i \in DOMAIN nodes'[l].ins : k = nodes'[l].ins[i].node
      BY <3>1 DEF Read, NodesRead
    <3>3. k # 0 /\ ~nodes'[k].store
      BY <3>1 DEF Read, NodesRead
    <3>4. /\ i \in DOMAIN Operands(Tac) /\ k \in DOMAIN nodes
          /\ nodes[k].out = Operands(Tac)[i] /\ nodes'[k] = nodes[k]
      BY <2>1, <3>2, <3>3
    <3>5. QED
      BY <2>2, <3>3, <3>4 DEF ReadBy, Tac
  <2>7. \A n \in DOMAIN nodes' : nodes'[n].store \/ nodes'[n].out \in Temps
    BY <2>1, <2>5 DEF OneReader
  <2>8. ASSUME NEW n \in DOMAIN nodes', NEW k \in Read(n)'
        PROVE  \E q \in 1 .. at' - 1 : ReadBy(k, q)'
    <3>1. CASE n = l
      BY <2>3, <2>6, <2>8, <3>1
    <3>2. CASE n \in DOMAIN nodes
      <4>1. k \in Read(n) /\ k \in DOMAIN nodes
        BY <1>2, <2>4, <2>8, <3>2 DEF Read
      <4>2. PICK q \in 1 .. at - 1 : ReadBy(k, q)
        BY <3>2, <4>1 DEF OneReader
      <4>3. QED
        BY ZenonT(60), <2>1, <2>2, <2>3, <4>1, <4>2 DEF ReadBy
    <3>3. QED
      BY <2>5, <3>1, <3>2
  <2>9. ASSUME NEW n \in DOMAIN nodes, NEW k \in Read(n)', k \in Read(l)'
        PROVE  FALSE
    <3>1. k \in Read(n)
      BY <2>4, <2>9
    <3>2. PICK q \in 1 .. at - 1 : ReadBy(k, q)
      BY <3>1 DEF OneReader
    <3>3. PICK j \in DOMAIN Operands(code[q]) : Operands(code[q])[j] = nodes[k].out
      BY <3>2 DEF ReadBy
    <3>4. /\ k \in DOMAIN nodes /\ ~nodes[k].store
          /\ \E i \in DOMAIN Operands(Tac) : nodes[k].out = Operands(Tac)[i]
      BY <2>6, <2>9
    <3>5. PICK i \in DOMAIN Operands(Tac) : nodes[k].out = Operands(Tac)[i]
      BY <3>4
    <3>6. nodes[k].out \in Temps
      BY <3>4 DEF OneReader
    <3>7. ValuesReadOnce(code)
      BY <2>3 DEF AllValuesReadOnce
    <3>8. q = at
      BY <2>3, <3>3, <3>5, <3>6, <3>7 DEF ValuesReadOnce, Tac
    <3>9. QED
      BY <2>3, <3>2, <3>8
  <2>10. \A m, n \in DOMAIN nodes' : \A k \in Read(m)' : k \in Read(n)' => m = n
    BY <2>4, <2>5, <2>9 DEF OneReader
  <2>11. QED
    BY <2>7, <2>8, <2>10 DEF OneReader
<1>5. CASE SortGraph
  <2>1. code' = code /\ at' = at /\ nodes' = ComputeFreeSchedule
    BY <1>5 DEF SortGraph
  <2>2. /\ DOMAIN nodes' = DOMAIN nodes
        /\ \A n \in DOMAIN nodes : /\ nodes'[n].ins = nodes[n].ins
                                   /\ nodes'[n].store = nodes[n].store
                                   /\ nodes'[n].out = nodes[n].out
    <3>1. \A n \in DOMAIN nodes : nodes'[n] = [nodes[n] EXCEPT !.fs = Depths[n]]
      BY <2>1 DEF ComputeFreeSchedule
    <3>2. \A n \in DOMAIN nodes :
            {"out", "ins", "id", "unroll", "fs", "store"} \subseteq DOMAIN nodes[n]
      BY <1>1 DEF TypedNodes, TypedNode
    <3>3. DOMAIN nodes' = DOMAIN nodes
      BY <2>1 DEF ComputeFreeSchedule
    <3>4. QED
      BY <3>1, <3>2, <3>3
  <2>3. \A n \in DOMAIN nodes : Read(n)' = Read(n)
    BY <1>2, <2>2 DEF Read, NodesRead
  <2>4. \A n \in DOMAIN nodes : \A k \in Read(n) : k \in DOMAIN nodes
    BY <1>2 DEF Read
  <2>5. \A k \in DOMAIN nodes, q \in 1 .. at - 1 : ReadBy(k, q)' <=> ReadBy(k, q)
    BY <2>1, <2>2 DEF ReadBy
  <2>6. QED
    BY <2>1, <2>2, <2>3, <2>4, <2>5 DEF OneReader
<1>6. CASE NameOfBrokenLeaf \/ UNCHANGED vars
  <2>1. code' = code /\ at' = at /\ nodes' = nodes
    BY <1>6 DEF NameOfBrokenLeaf, vars
  <2>2. QED
    BY <2>1 DEF OneReader, ReadBy, Read, NodesRead
<1>7. QED
  BY <1>3, <1>4, <1>5, <1>6 DEF Next, Step, Finished

-------------------------------------------------------------------------------
(***************************************************************************)
(* What is packed and what is still to be, as in Conserved: what has been  *)
(* packed may come before everything else, and what is at hand and in the  *)
(* window before the lists to come.                                        *)
(***************************************************************************)
Ordered(W, em, w, ls, k, fs) ==
  /\ Avoids(em, W) /\ ListsAvoid(ls, k, W) /\ ListsAvoid(fs, 1, W)
  /\ Across(Members(em), Members(w) \cup AllOf(ls, k) \cup AllOf(fs, 1), W)
  /\ Across(Members(w) \cup AllOf(ls, k), AllOf(fs, 1), W)

\* The lists of a window are taken from the front of those to come.
LEMMA WindowOrdered ==
  ASSUME NEW S, NEW fs \in Seq(Seq(S)), NEW n \in 0 .. Len(fs), NEW W, NEW em,
         Ordered(W, em, <<>>, <<>>, 1, fs)
  PROVE  Ordered(W, em, <<>>, SubSeq(fs, 1, n), 1, SubSeq(fs, n + 1, Len(fs)))
<1> DEFINE a == SubSeq(fs, 1, n)
           b == SubSeq(fs, n + 1, Len(fs))
<1>1. /\ ListsAvoid(a, 1, W) /\ ListsAvoid(b, 1, W)
      /\ Across(AllOf(a, 1), AllOf(b, 1), W)
  BY ListsCutAvoid DEF Ordered
<1>2. AllOf(fs, 1) = AllOf(a, 1) \cup AllOf(b, 1)
  BY ListsCut
<1>3. Members(<<>>) = {}
  BY FewMembers
<1> HIDE DEF a, b
<1>4. QED
  BY <1>1, <1>2, <1>3 DEF Ordered, Across, a, b

\* A piece of a list is added to what is at hand.
LEMMA PieceOrdered ==
  ASSUME NEW S, NEW ls \in Seq(Seq(S)), NEW k \in Nat, NEW i \in DOMAIN ls, i >= k,
         NEW n \in 0 .. Len(ls[i]), NEW w \in Seq(S), NEW W, NEW em, NEW fs,
         Ordered(W, em, w, ls, k, fs), Avoids(w, W), Across(Members(w), AllOf(ls, k), W)
  PROVE  LET p == SubSeq(ls[i], 1, n)
             m == [ls EXCEPT ![i] = SubSeq(@, n + 1, Len(@))]
         IN  /\ Ordered(W, em, w \o p, m, k, fs) /\ Avoids(w \o p, W)
             /\ Across(Members(w \o p), AllOf(m, k), W)
<1> DEFINE p == SubSeq(ls[i], 1, n)
           m == [ls EXCEPT ![i] = SubSeq(@, n + 1, Len(@))]
<1>1. p \in Seq(S) /\ AllOf(ls, k) = Members(p) \cup AllOf(m, k)
  BY PieceCut
<1>2. /\ Avoids(p, W) /\ ListsAvoid(m, k, W)
      /\ Across(Members(p), AllOf(m, k), W)
  BY PieceCutAvoids DEF Ordered
<1> HIDE DEF p, m
<1>3. Members(w \o p) = Members(w) \cup Members(p)
  BY <1>1, ConcatMembers
<1>4. Across(Members(w), Members(p), W) /\ Across(Members(w), AllOf(m, k), W)
  BY <1>1 DEF Across
<1>5. Avoids(w \o p, W)
  BY <1>1, <1>2, <1>4, ConcatAvoids
<1>6. Across(Members(w \o p), AllOf(m, k), W)
  BY <1>2, <1>3, <1>4 DEF Across
<1>7. Ordered(W, em, w \o p, m, k, fs)
  <2>1. Members(w \o p) \cup AllOf(m, k) = Members(w) \cup AllOf(ls, k)
    BY <1>1, <1>3
  <2>2. QED
    BY <1>2, <2>1 DEF Ordered
<1>8. QED
  BY <1>5, <1>6, <1>7 DEF p, m

\* A whole list is added to what is at hand, and what is at hand is free of the
\* pairs as long as each list adds at most one element.
LEMMA ListOrdered ==
  ASSUME NEW S, NEW ls \in Seq(Seq(S)), NEW k \in DOMAIN ls, NEW w \in Seq(S),
         NEW W, NEW em, NEW fs, Ordered(W, em, w, ls, k, fs),
         Across(Members(w), AllOf(ls, k), W), Across(AllOf(ls, k), Members(w), W)
  PROVE  LET v == w \o ls[k]
         IN  /\ Ordered(W, em, v, ls, k + 1, fs)
             /\ Across(Members(v), AllOf(ls, k + 1), W)
             /\ Across(AllOf(ls, k + 1), Members(v), W)
             /\ Across(Members(w), Members(w), W) /\ Len(ls[k]) <= 1
                /\ (\A x : <<x, x>> \notin W) => Across(Members(v), Members(v), W)
<1> DEFINE v == w \o ls[k]
<1>1. ls[k] \in Seq(S) /\ AllOf(ls, k) = Members(ls[k]) \cup AllOf(ls, k + 1)
  BY NextListLeft
<1>2. /\ Avoids(ls[k], W) /\ ListsAvoid(ls, k + 1, W)
      /\ Across(Members(ls[k]), AllOf(ls, k + 1), W)
      /\ Across(AllOf(ls, k + 1), Members(ls[k]), W)
  BY NextListAvoids DEF Ordered
<1>3. Members(v) = Members(w) \cup Members(ls[k])
  BY <1>1, ConcatMembers
<1> HIDE DEF v
<1>4. /\ Across(Members(v), AllOf(ls, k + 1), W)
      /\ Across(AllOf(ls, k + 1), Members(v), W)
  BY <1>1, <1>2, <1>3 DEF Across
<1>5. Ordered(W, em, v, ls, k + 1, fs)
  <2>1. Members(v) \cup AllOf(ls, k + 1) = Members(w) \cup AllOf(ls, k)
    BY <1>1, <1>3
  <2>2. QED
    BY <1>2, <2>1 DEF Ordered
<1>6. ASSUME Across(Members(w), Members(w), W), Len(ls[k]) <= 1,
             \A x : <<x, x>> \notin W
      PROVE  Across(Members(v), Members(v), W)
  <2>1. \A x, y \in Members(ls[k]) : x = y
    <3>1. DOMAIN ls[k] = 1 .. Len(ls[k]) /\ Len(ls[k]) \in Nat
      BY <1>1, LenProperties
    <3>2. \A i, j \in DOMAIN ls[k] : i = j
      BY <1>6, <3>1
    <3>3. QED
      BY <3>2 DEF Members
  <2>2. QED
    BY <1>1, <1>3, <1>6, <2>1 DEF Across
<1>7. QED
  BY <1>4, <1>5, <1>6 DEF v

\* All that is at hand is packed; of the pairs, t has what is at hand only.
LEMMA HandOrdered ==
  ASSUME NEW S, NEW em \in Seq(S), NEW t \in Seq(S), NEW w, NEW ls, NEW k, NEW fs,
         NEW W, NEW X, W \subseteq X \X X, Ordered(W, em, w, ls, k, fs),
         Across(Members(w), AllOf(ls, k), W),
         Avoids(t, W), \A x \in Members(t) : x \in X => x \in Members(w)
  PROVE  Ordered(W, em \o t, <<>>, ls, k, fs)
<1>1. Members(em \o t) = Members(em) \cup Members(t) /\ Members(<<>>) = {}
  BY ConcatMembers, FewMembers
<1>2. \A x, y : <<x, y>> \in W => x \in X /\ y \in X
  OBVIOUS
<1>3. Across(Members(em), Members(t), W)
  BY <1>2 DEF Ordered, Across
<1>4. Avoids(em \o t, W)
  BY <1>3, ConcatAvoids DEF Ordered
<1>5. Across(Members(t), AllOf(ls, k) \cup AllOf(fs, 1), W)
  BY <1>2 DEF Ordered, Across
<1>6. QED
  BY <1>1, <1>4, <1>5 DEF Ordered, Across

\* A piece of the first list is packed, while w is kept back.
LEMMA ChunkOrdered ==
  ASSUME NEW S, NEW ls \in Seq(Seq(S)), NEW k \in DOMAIN ls, NEW n \in 0 .. Len(ls[k]),
         NEW em \in Seq(S), NEW t \in Seq(S), NEW w, NEW fs,
         NEW W, NEW X, W \subseteq X \X X, Ordered(W, em, w, ls, k, fs),
         Across(AllOf(ls, k), Members(w), W), Avoids(t, W),
         \A x \in Members(t) : x \in X => x \in Members(SubSeq(ls[k], 1, n))
  PROVE  LET m == [ls EXCEPT ![k] = SubSeq(@, n + 1, Len(@))]
         IN  Ordered(W, em \o t, w, m, k, fs) /\ AllOf(m, k) \subseteq AllOf(ls, k)
<1> DEFINE p == SubSeq(ls[k], 1, n)
           m == [ls EXCEPT ![k] = SubSeq(@, n + 1, Len(@))]
<1>1. k \in Nat /\ k >= k
  BY LenProperties
<1>2. p \in Seq(S) /\ AllOf(ls, k) = Members(p) \cup AllOf(m, k)
  BY <1>1, PieceCut
<1>3. ListsAvoid(m, k, W) /\ Across(Members(p), AllOf(m, k), W)
  BY <1>1, PieceCutAvoids DEF Ordered
<1>4. \A x \in Members(t) : x \in X => x \in Members(p)
  OBVIOUS
<1> HIDE DEF p, m
<1>5. Members(em \o t) = Members(em) \cup Members(t)
  BY ConcatMembers
<1>6. \A x, y : <<x, y>> \in W => x \in X /\ y \in X
  OBVIOUS
<1>7. Across(Members(em), Members(t), W)
  BY <1>2, <1>4, <1>6 DEF Ordered, Across
<1>8. Avoids(em \o t, W)
  BY <1>7, ConcatAvoids DEF Ordered
<1>9. Across(Members(t), Members(w) \cup AllOf(m, k) \cup AllOf(fs, 1), W)
  BY <1>2, <1>3, <1>4, <1>6 DEF Ordered, Across
<1>10. Ordered(W, em \o t, w, m, k, fs)
  BY <1>2, <1>3, <1>5, <1>8, <1>9 DEF Ordered, Across
<1>11. QED
  BY <1>2, <1>10 DEF m

\* The window has no list left.
LEMMA EndOrdered ==
  ASSUME NEW S, NEW ls \in Seq(S), NEW k \in Nat, Len(ls) < k, NEW W, NEW em, NEW w,
         NEW fs, Ordered(W, em, w, ls, k, fs)
  PROVE  Ordered(W, em, w, <<>>, 1, fs)
<1>1. AllOf(ls, k) = {}
  BY NoListsLeft
<1>2. AllOf(<<>>, 1) = {} /\ ListsAvoid(<<>>, 1, W)
  BY DEF AllOf, ListsAvoid
<1>3. QED
  BY <1>1, <1>2 DEF Ordered

-------------------------------------------------------------------------------
(***************************************************************************)
(* What a sequence of nodes is packed as.                                  *)
(***************************************************************************)
\* Consumed nodes stand behind what they read of temporaries.
LEMMA ConsumeFlat ==
  ASSUME TypedNodes(nodes), NEW s \in Seq(DOMAIN nodes)
  PROVE  /\ Consume(s) \in Seq(Seq(DOMAIN nodes)) /\ AllOneOperation(Consume(s))
         /\ AllPrevOps(s) \in Seq(DOMAIN nodes)
         /\ FlattenSeq(Consume(s)) = AllPrevOps(s) \o s
         /\ FlattenSeq(Consume(s)) \in Seq(DOMAIN nodes)
         /\ Members(AllPrevOps(s)) = UNION {Read(n) : n \in Members(s)}
<1>1. PICK p \in Seq(DOMAIN nodes) :
        p = AllPrevOps(s) /\ Members(p) = UNION {Read(n) : n \in Members(s)}
  BY AllPrevOpsMembers
<1>2. PICK t \in Seq(DOMAIN nodes) : t = p \o s
  BY ConcatProperties
<1>3. Greedy(t) \in Seq(Seq(DOMAIN nodes)) /\ AllOneOperation(Greedy(t)) /\ FlattenSeq(Greedy(t)) = t
  BY GreedyGroups
<1>4. Consume(s) = Greedy(t)
  BY <1>1, <1>2 DEF Consume
<1>5. QED
  BY <1>1, <1>2, <1>3, <1>4

\* What is put in front of stores is none.
LEMMA ConsumeAvoids ==
  ASSUME TypedNodes(nodes), NEW s \in Seq(DOMAIN nodes),
         NEW W, W \subseteq Stores \X Stores, Avoids(s, W)
  PROVE  /\ Avoids(FlattenSeq(Consume(s)), W)
         /\ \A x \in Members(FlattenSeq(Consume(s))) : x \in Stores => x \in Members(s)
<1>1. PICK p \in Seq(DOMAIN nodes) :
        /\ FlattenSeq(Consume(s)) = p \o s
        /\ Members(p) = UNION {Read(n) : n \in Members(s)}
  BY ConsumeFlat
<1>2. \A x \in Members(p) : x \notin Stores
  BY <1>1 DEF Read, Stores
<1>3. \A x, y : <<x, y>> \in W => x \in Stores /\ y \in Stores
  OBVIOUS
<1>4. Avoids(p, W) /\ Across(Members(p), Members(s), W)
  BY <1>2, <1>3 DEF Avoids, Across, Members
<1>5. Avoids(p \o s, W) /\ Members(p \o s) = Members(p) \cup Members(s)
  BY <1>4, ConcatAvoids, ConcatMembers
<1>6. QED
  BY <1>1, <1>2, <1>5

\* Nodes that are consumed one by one: what holds of nothing, and goes on to hold
\* when one more is consumed, holds when all are.
LEMMA ConsumeAlongKeeps ==
  ASSUME TypedNodes(nodes), NEW s \in Seq(DOMAIN nodes), NEW G, <<>> \in G[0],
         \A n \in 1 .. Len(s) : \A t \in G[n - 1] :
           t \o FlattenSeq(Consume(<<s[n]>>)) \in G[n]
  PROVE  /\ ConsumeAlong(s) \in Seq(Seq(DOMAIN nodes))
         /\ FlattenSeq(ConsumeAlong(s)) \in G[Len(s)]
<1> DEFINE len == Len(s)
           V(n) == {gs \in Seq(Seq(DOMAIN nodes)) : FlattenSeq(gs) \in G[n]}
           b == <<>>
           Body(r, n) == r \o Consume(<<s[n]>>)
           From(g, n) == IF n = 0 THEN b ELSE Body(g[n - 1], n)
           Vs == [n \in 0 .. len |-> V(n)]
           step == [n \in 1 .. len |-> [r \in V(n - 1) |-> Body(r, n)]]
<1>1. len \in Nat /\ b \in V(0)
  BY FlatFew, FewMembers, LenProperties
<1>2. \A n \in 1 .. len : \A r \in V(n - 1) : Body(r, n) \in V(n)
  <2> SUFFICES ASSUME NEW n \in 1 .. len, NEW gs \in V(n - 1)
               PROVE  Body(gs, n) \in V(n)
    OBVIOUS
  <2>1. PICK x \in DOMAIN nodes : x = s[n]
    BY ElementOfSeq
  <2>2. PICK u \in Seq(DOMAIN nodes) : u = <<x>>
    BY FewMembers
  <2>3. PICK hs \in Seq(Seq(DOMAIN nodes)) : hs = Consume(u)
    BY ConsumeFlat
  <2>4. gs \in Seq(Seq(DOMAIN nodes)) /\ FlattenSeq(gs) \in G[n - 1]
    OBVIOUS
  <2>5. gs \o hs \in Seq(Seq(DOMAIN nodes)) /\ FlattenSeq(gs \o hs) = FlattenSeq(gs) \o FlattenSeq(hs)
    BY <2>4, FlatConcat, ConcatProperties
  <2>6. FlattenSeq(gs) \o FlattenSeq(hs) \in G[n]
    BY <2>1, <2>2, <2>3, <2>4
  <2>7. QED
    BY <2>1, <2>2, <2>3, <2>5, <2>6
<1>3. ConsumeAlong(s) = (CHOOSE g : g = [n \in 0 .. len |-> From(g, n)])[len]
  BY DEF ConsumeAlong, Through
<1> HIDE DEF V, len, b, Body
<1>4. /\ \A n \in 0 .. len : Vs[n] = V(n)
      /\ \A n \in 1 .. len : n - 1 \in 0 .. len /\ n \in 0 .. len
      /\ \A n \in 1 .. len : \A r \in V(n - 1) : step[n][r] = Body(r, n)
  BY <1>1
<1> HIDE DEF Vs, step
<1>5. b \in Vs[0] /\ StaysIn(step, len, Vs)
  BY <1>1, <1>2, <1>4 DEF StaysIn
<1>6. PICK f : Solution(f, len, Vs, b, step)
  BY <1>1, <1>5, Recursion
<1>7. f = [n \in 0 .. len |-> From(f, n)]
  <2>1. \A n \in 1 .. len : f[n] = Body(f[n - 1], n)
    BY <1>4, <1>6 DEF Solution
  <2>2. \A n \in 0 .. len : f[n] = From(f, n)
    <3>1. \A n \in 0 .. len : n = 0 \/ (n # 0 /\ n \in 1 .. len)
      BY <1>1
    <3>2. f[0] = b
      BY <1>6 DEF Solution
    <3>3. QED
      BY <2>1, <3>1, <3>2
  <2> HIDE DEF From
  <2>3. QED
    BY <1>6, <2>2 DEF Solution
<1> DEFINE g == CHOOSE h : h = [n \in 0 .. len |-> From(h, n)]
<1>8. g = [n \in 0 .. len |-> From(g, n)]
  <2> HIDE DEF From
  <2>1. QED
    BY <1>7
<1> HIDE DEF g
<1>9. g[len] \in V(len)
  <2> DEFINE K == {n \in 0 .. len : g[n] \in V(n)}
  <2>1. 0 \in K
    BY <1>1, <1>8
  <2>2. ASSUME NEW n \in Nat, n < len, n \in K
        PROVE  n + 1 \in K
    <3>1. n + 1 \in 1 .. len /\ n + 1 \in 0 .. len /\ (n + 1) - 1 = n /\ n + 1 # 0
      BY <1>1, <2>2
    <3>2. g[n + 1] = Body(g[n], n + 1)
      BY <1>8, <3>1
    <3>3. QED
      BY <1>2, <2>2, <3>1, <3>2
  <2> HIDE DEF K
  <2>3. 0 .. len \subseteq K
    BY <1>1, <2>1, <2>2, InductionUpTo
  <2>4. QED
    BY <1>1, <2>3 DEF K
<1>10. QED
  BY <1>3, <1>9 DEF g, V, len

\* Nodes that are consumed one by one are packed as groups of nodes.
LEMMA ConsumeAlongTypes ==
  ASSUME TypedNodes(nodes), NEW s \in Seq(DOMAIN nodes)
  PROVE  ConsumeAlong(s) \in Seq(Seq(DOMAIN nodes))
<1> DEFINE C == Seq(DOMAIN nodes)
           G == [n \in 0 .. Len(s) |-> C]
<1>1. Len(s) \in Nat /\ <<>> \in C
  BY LenProperties, FewMembers
<1>2. ASSUME NEW n \in 1 .. Len(s), NEW t \in C
      PROVE  t \o FlattenSeq(Consume(<<s[n]>>)) \in C
  <2>1. PICK u \in Seq(DOMAIN nodes) : u = <<s[n]>>
    BY ElementOfSeq, FewMembers
  <2>2. FlattenSeq(Consume(u)) \in C
    BY <2>1, ConsumeFlat
  <2>3. QED
    BY <2>1, <2>2, ConcatProperties
<1> HIDE DEF C
<1>3. G[0] = C /\ \A n \in 1 .. Len(s) : G[n - 1] = C /\ G[n] = C
  BY <1>1
<1> HIDE DEF G
<1>4. QED
  BY <1>1, <1>2, <1>3, ConsumeAlongKeeps

\* Consuming nodes one by one keeps them in their order.
LEMMA ConsumeAlongAvoids ==
  ASSUME TypedNodes(nodes), NEW s \in Seq(DOMAIN nodes),
         NEW W, W \subseteq Stores \X Stores, Avoids(s, W)
  PROVE  Avoids(FlattenSeq(ConsumeAlong(s)), W)
<1> DEFINE C(n) == {t \in Seq(DOMAIN nodes) :
                      /\ Avoids(t, W)
                      /\ \A x \in Members(t) :
                           x \in Stores => \E i \in 1 .. n : s[i] = x}
           G == [n \in 0 .. Len(s) |-> C(n)]
<1>1. Len(s) \in Nat /\ DOMAIN s = 1 .. Len(s)
  BY LenProperties
<1>2. <<>> \in C(0)
  BY FewMembers, FewAvoid
<1>3. ASSUME NEW n \in 1 .. Len(s), NEW t \in C(n - 1)
      PROVE  t \o FlattenSeq(Consume(<<s[n]>>)) \in C(n)
  <2>1. PICK x \in DOMAIN nodes : x = s[n]
    BY ElementOfSeq
  <2>2. PICK u \in Seq(DOMAIN nodes) : u = <<x>> /\ Members(u) = {x}
    BY FewMembers
  <2>3. Avoids(u, W)
    BY <2>2, FewAvoid
  <2>4. PICK r \in Seq(DOMAIN nodes) : r = FlattenSeq(Consume(u))
    BY ConsumeFlat
  <2>5. Avoids(r, W) /\ \A y \in Members(r) : y \in Stores => y = x
    BY <2>2, <2>3, <2>4, ConsumeAvoids
  <2>6. /\ t \in Seq(DOMAIN nodes) /\ Avoids(t, W)
        /\ \A y \in Members(t) : y \in Stores => \E i \in 1 .. n - 1 : s[i] = y
    OBVIOUS
  <2>7. Across(Members(t), Members(r), W)
    <3>1. SUFFICES ASSUME NEW y \in Members(t), NEW z \in Members(r), <<y, z>> \in W
                   PROVE  FALSE
      BY DEF Across
    <3>2. PICK i \in 1 .. n - 1 : s[i] = y
      BY <2>6, <3>1
    <3>3. z = s[n]
      BY <2>1, <2>5, <3>1
    <3>4. i \in DOMAIN s /\ n \in DOMAIN s /\ i < n
      BY <1>1
    <3>5. QED
      BY <3>1, <3>2, <3>3, <3>4 DEF Avoids
  <2>8. /\ t \o r \in Seq(DOMAIN nodes) /\ Members(t \o r) = Members(t) \cup Members(r)
        /\ Avoids(t \o r, W)
    BY <2>5, <2>6, <2>7, ConcatMembers, ConcatAvoids
  <2>9. \A y \in Members(t \o r) : y \in Stores => \E i \in 1 .. n : s[i] = y
    <3>1. n \in 1 .. n /\ \A i \in 1 .. n - 1 : i \in 1 .. n
      BY <1>1
    <3>2. QED
      BY <2>1, <2>5, <2>6, <2>8, <3>1
  <2>10. QED
    BY <2>1, <2>2, <2>4, <2>8, <2>9
<1> HIDE DEF C
<1>4. /\ G[0] = C(0) /\ G[Len(s)] = C(Len(s))
      /\ \A n \in 1 .. Len(s) : G[n - 1] = C(n - 1) /\ G[n] = C(n)
  BY <1>1
<1> HIDE DEF G
<1>5. FlattenSeq(ConsumeAlong(s)) \in G[Len(s)]
  BY <1>2, <1>3, <1>4, ConsumeAlongKeeps
<1>6. QED
  BY <1>4, <1>5 DEF C

-------------------------------------------------------------------------------
(***************************************************************************)
(* operator< of the nodes of reductions: by TacID, offset, depth, number.  *)
(***************************************************************************)
Lesser(m, n) ==
  LET a == nodes[m]
      b == nodes[n]
  IN  \/ a.id < b.id
      \/ a.id = b.id /\ a.unroll < b.unroll
      \/ a.id = b.id /\ a.unroll = b.unroll /\ a.fs < b.fs
      \/ a.id = b.id /\ a.unroll = b.unroll /\ a.fs = b.fs /\ m < n

\* The first of four numbers that differ decides.
LEMMA FirstDecides ==
  ASSUME NEW v \in [1 .. 4 -> Int], NEW w \in [1 .. 4 -> Int]
  PROVE  LET D == {i \in 1 .. 4 : v[i] # w[i]}
         IN  (\E i \in D : v[i] < w[i] /\ \A j \in D : i <= j)
             <=> \/ v[1] < w[1]
                 \/ v[1] = w[1] /\ v[2] < w[2]
                 \/ v[1] = w[1] /\ v[2] = w[2] /\ v[3] < w[3]
                 \/ v[1] = w[1] /\ v[2] = w[2] /\ v[3] = w[3] /\ v[4] < w[4]
<1> DEFINE D == {i \in 1 .. 4 : v[i] # w[i]}
<1>1. \A i \in {1, 2, 3, 4} : v[i] \in Int /\ w[i] \in Int /\ (i \in D <=> v[i] # w[i])
  OBVIOUS
<1>2. \A i \in D : i \in {1, 2, 3, 4}
  OBVIOUS
<1> HIDE DEF D
<1>3. ASSUME NEW i \in D, v[i] < w[i], \A j \in D : i <= j
      PROVE  \/ v[1] < w[1]
             \/ v[1] = w[1] /\ v[2] < w[2]
             \/ v[1] = w[1] /\ v[2] = w[2] /\ v[3] < w[3]
             \/ v[1] = w[1] /\ v[2] = w[2] /\ v[3] = w[3] /\ v[4] < w[4]
  <2>1. \A j \in {1, 2, 3, 4} : j < i => v[j] = w[j]
    BY <1>1, <1>2, <1>3
  <2>2. QED
    BY <1>2, <1>3, <2>1
<1>4. ASSUME NEW k \in {1, 2, 3, 4}, \A j \in {1, 2, 3, 4} : j < k => v[j] = w[j], v[k] < w[k]
      PROVE  \E i \in D : v[i] < w[i] /\ \A j \in D : i <= j
  <2>1. k \in D
    BY <1>1, <1>4
  <2>2. \A j \in D : k <= j
    BY <1>1, <1>2, <1>4
  <2>3. QED
    BY <1>4, <2>1, <2>2
<1>5. \A k \in {1, 2, 3, 4} :
        (\A j \in {1, 2, 3, 4} : j < k => v[j] = w[j]) /\ v[k] < w[k]
          => \E i \in D : v[i] < w[i] /\ \A j \in D : i <= j
  BY <1>4
<1>6. QED
  BY <1>3, <1>5 DEF D

\* operator< of the nodes of reductions, spelt out.
LEMMA ReductionOrder ==
  ASSUME TypedNodes(nodes), NEW m \in DOMAIN nodes, NEW n \in DOMAIN nodes
  PROVE  ReductionPrecedes(m, n) <=> Lesser(m, n)
<1>1. /\ m \in Int /\ nodes[m].id \in Int /\ nodes[m].unroll \in Int /\ nodes[m].fs \in Int
      /\ n \in Int /\ nodes[n].id \in Int /\ nodes[n].unroll \in Int /\ nodes[n].fs \in Int
  BY TypedIsFew DEF TypedNode
<1> DEFINE v == <<nodes[m].id, nodes[m].unroll, nodes[m].fs, m>>
           w == <<nodes[n].id, nodes[n].unroll, nodes[n].fs, n>>
           D == {i \in 1 .. 4 : v[i] # w[i]}
<1>2. ReductionPrecedes(m, n) <=> \E i \in D : v[i] < w[i] /\ \A j \in D : i <= j
  BY DEF ReductionPrecedes
<1>3. /\ v \in [1 .. 4 -> Int] /\ w \in [1 .. 4 -> Int]
      /\ v[1] = nodes[m].id /\ v[2] = nodes[m].unroll /\ v[3] = nodes[m].fs /\ v[4] = m
      /\ w[1] = nodes[n].id /\ w[2] = nodes[n].unroll /\ w[3] = nodes[n].fs /\ w[4] = n
  BY <1>1
<1> HIDE DEF v, w
<1>4. (\E i \in D : v[i] < w[i] /\ \A j \in D : i <= j)
      <=> \/ v[1] < w[1]
          \/ v[1] = w[1] /\ v[2] < w[2]
          \/ v[1] = w[1] /\ v[2] = w[2] /\ v[3] < w[3]
          \/ v[1] = w[1] /\ v[2] = w[2] /\ v[3] = w[3] /\ v[4] < w[4]
  BY <1>3, FirstDecides
<1>5. QED
  BY <1>2, <1>3, <1>4 DEF Lesser

Numbers == {p \in Nat \X Nat : p[1] < p[2]}
ReductionPairs == {p \in Nat \X Nat : ReductionPrecedes(p[1], p[2])}

\* Both orders rank the nodes.
LEMMA NodesRanked ==
  ASSUME TypedNodes(nodes)
  PROVE  Ranks(ReductionPairs, DOMAIN nodes) /\ Ranks(Numbers, DOMAIN nodes)
<1>1. DOMAIN nodes \subseteq Nat
  BY TypedIsFew
<1>2. \A m, n \in DOMAIN nodes : <<m, n>> \in ReductionPairs <=> Lesser(m, n)
  BY <1>1, ReductionOrder DEF ReductionPairs
<1>3. \A n \in DOMAIN nodes :
        n \in Int /\ nodes[n].id \in Int /\ nodes[n].unroll \in Int /\ nodes[n].fs \in Int
  BY TypedIsFew DEF TypedNode
<1>4. ASSUME NEW a \in DOMAIN nodes, NEW b \in DOMAIN nodes, Lesser(a, b)
      PROVE  ~Lesser(b, a) /\ \A c \in DOMAIN nodes : Lesser(a, c) \/ Lesser(c, b)
  BY <1>3, <1>4 DEF Lesser
<1>5. Ranks(ReductionPairs, DOMAIN nodes)
  BY <1>2, <1>4 DEF Ranks
<1>6. Ranks(Numbers, DOMAIN nodes)
  BY <1>1 DEF Ranks, Numbers
<1>7. QED
  BY <1>5, <1>6

(***************************************************************************)
(* The nodes that accumulate, and the pairs of them that the code has the  *)
(* other way round.                                                        *)
(***************************************************************************)
Accumulators == {n \in Members(redux) : nodes[n].store}

Backwards(A) ==
  {p \in A \X A : nodes[p[1]].out = nodes[p[2]].out /\ p[2] < p[1]}

\* Nodes sorted by their numbers, or as operator< sorts them, are in the order of
\* the code.
LEMMA SortedForwards ==
  ASSUME TypedNodes(nodes), NamesInOrder, NEW A, A \subseteq Stores,
         NEW s \in Seq(DOMAIN nodes)
  PROVE  Avoids(ByNumber(s), Backwards(A)) /\ Avoids(SortNodes(s), Backwards(A))
<1>1. DOMAIN nodes \subseteq Nat /\ A \subseteq DOMAIN nodes
  BY TypedIsFew DEF Stores
<1>2. \A n \in DOMAIN nodes : nodes[n].id \in Int /\ nodes[n].unroll \in Int
  BY TypedIsFew DEF TypedNode
<1>3. ASSUME NEW a, NEW b, <<a, b>> \in Backwards(A)
      PROVE  /\ <<a, b>> \in Unsorted(Numbers, DOMAIN nodes)
             /\ <<a, b>> \in Unsorted(ReductionPairs, DOMAIN nodes)
  <2>1. /\ a \in DOMAIN nodes /\ b \in DOMAIN nodes /\ a \in Nat /\ b \in Nat
        /\ nodes[a].out = nodes[b].out /\ b < a
    BY <1>1, <1>3 DEF Backwards
  <2>2. Earlier(b, a)
    BY <2>1 DEF NamesInOrder
  <2>3. ReductionPrecedes(b, a)
    BY <1>2, <2>1, <2>2, ReductionOrder DEF Earlier, Lesser
  <2>4. QED
    BY <2>1, <2>3 DEF Unsorted, Numbers, ReductionPairs
<1>4. /\ Avoids(SortedBy(s, Numbers), Unsorted(Numbers, DOMAIN nodes))
      /\ Avoids(SortedBy(s, ReductionPairs), Unsorted(ReductionPairs, DOMAIN nodes))
  BY NodesRanked, SortedAvoids
<1>5. ByNumber(s) = SortedBy(s, Numbers) /\ SortNodes(s) = SortedBy(s, ReductionPairs)
  BY DEF ByNumber, SortNodes, Numbers, ReductionPairs
<1>6. QED
  BY <1>3, <1>4, <1>5 DEF Avoids

-------------------------------------------------------------------------------
(***************************************************************************)
(* The inductive invariant for what accumulates, for the options that leave*)
(* no two orphans of one list or do not search them.                       *)
(***************************************************************************)
Backward == Backwards(Accumulators)

OrphansOrdered ==
  /\ Across(AllOf(lists, key), Members(orphans), Backward)
  /\ Across(Members(orphans), AllOf(lists, key), Backward)
  /\ opts.disableOrphans \/ Across(Members(orphans), Members(orphans), Backward)

OrderKept ==
  /\ place = "window" => Ordered(Backward, Emitted, <<>>, <<>>, 1, full)
  /\ place = "pack" =>
       /\ Ordered(Backward, Emitted, packing, lists, 1, full)
       /\ Avoids(packing, Backward) /\ Across(Members(packing), AllOf(lists, 1), Backward)
  /\ place = "chunks" =>
       Ordered(Backward, Emitted, orphans, lists, key, full) /\ OrphansOrdered
  /\ place \in {"packed", "undefined"} => Avoids(Emitted, Backward)

InOrderOptions == opts.min <= 2 \/ opts.disableOrphans

AccumulateInv == PackInv /\ NamesInOrder /\ (InOrderOptions => OrderKept)

\* The pairs the order is to avoid are pairs of stores, none with itself.
LEMMA BackwardPairs ==
  ASSUME PackInv
  PROVE  /\ Accumulators \subseteq Stores /\ Backward \subseteq Stores \X Stores
         /\ \A x : <<x, x>> \notin Backward
<1>1. redux \in Seq(DOMAIN nodes) /\ TypedNodes(nodes)
  BY DEF PackInv, PackTypes, DetectionTypes, SchedInv
<1>2. Members(redux) \subseteq DOMAIN nodes
  BY <1>1, LenProperties, ElementOfSeq DEF Members
<1>3. Accumulators \subseteq Stores
  BY <1>2 DEF Accumulators, Stores
<1>4. \A x \in Stores : ~(x < x)
  BY <1>1, NodesReadOlder DEF Stores
<1>5. QED
  BY <1>3, <1>4 DEF Backward, Backwards

\* They stay while the graph and the nodes of the chains do.
LEMMA SamePairs ==
  ASSUME nodes' = nodes, Members(redux)' = Members(redux)
  PROVE  Accumulators' = Accumulators /\ Backward' = Backward
<1>1. Accumulators' = Accumulators
  BY DEF Accumulators
<1>2. QED
  BY <1>1 DEF Backward, Backwards

\* What is known in the windows, and stays.
LEMMA InWindows ==
  ASSUME PackInv, place \in PackingPlaces, UNCHANGED <<vars, opts, detection>>
  PROVE  /\ TypedNodes(nodes) /\ WindowTypes /\ GroupTypes
         /\ Emitted \in Seq(DOMAIN nodes)
         /\ nodes' = nodes /\ redux' = redux /\ others' = others /\ opts' = opts
         /\ Backward' = Backward /\ Backward \subseteq Stores \X Stores
         /\ \A x : <<x, x>> \notin Backward
<1>1. nodes' = nodes /\ redux' = redux /\ others' = others /\ opts' = opts
  BY GraphStays DEF PackInv, detection
<1>2. Backward' = Backward
  BY <1>1, SamePairs
<1>3. TypedNodes(nodes) /\ WindowTypes /\ GroupTypes
  BY DEF PackInv, SchedInv, PackTypes
<1>4. QED
  BY <1>1, <1>2, <1>3, BackwardPairs, EmittedOnce

\* What consuming nodes adds to what is packed.
LEMMA ConsumedBehind ==
  ASSUME TypedNodes(nodes), GroupTypes, nodes' = nodes, NEW s \in Seq(DOMAIN nodes),
         groups' = groups \o Consume(s)
  PROVE  /\ FlattenSeq(Consume(s)) \in Seq(DOMAIN nodes)
         /\ Emitted' = Emitted \o FlattenSeq(Consume(s))
<1>1. PICK hs : /\ hs = Consume(s) /\ hs \in Seq(Seq(DOMAIN nodes)) /\ AllOneOperation(hs)
  BY ConsumeFlat
<1>2. QED
  BY <1>1, GroupsAdded DEF GroupTypes

\* The lists of the locations, from nodes in the order of the code.
LEMMA MapReductionsAvoid ==
  ASSUME TypedNodes(nodes), NEW s \in Seq(DOMAIN nodes), NEW A, Avoids(s, Backwards(A))
  PROVE  ListsAvoid(MapReductions(s), 1, Backwards(A))
<1>1. PICK m, W : m = MapReductions(s) /\ W = Backwards(A)
  OBVIOUS
<1>2. /\ \A k \in DOMAIN m : \E x : m[k] = Reducing(s, x)
      /\ \A k, l \in DOMAIN m : k # l =>
           \A a \in Members(m[k]), b \in Members(m[l]) : nodes[a].out # nodes[b].out
  BY <1>1, MapReductionsMembers
<1>3. ASSUME NEW k \in DOMAIN m
      PROVE  Avoids(m[k], W)
  <2>1. PICK x : m[k] = Reducing(s, x)
    BY <1>2
  <2>2. PICK I : m[k] = Kept(s, I)
    BY <2>1 DEF Reducing
  <2>3. QED
    BY <1>1, <2>2, KeptAvoids
<1>4. \A a, b : <<a, b>> \in W => nodes[a].out = nodes[b].out
  BY <1>1 DEF Backwards
<1>5. \A k, l \in DOMAIN m : k # l => Across(Members(m[k]), Members(m[l]), W)
  <2>1. SUFFICES ASSUME NEW k \in DOMAIN m, NEW l \in DOMAIN m, k # l,
                        NEW a \in Members(m[k]), NEW b \in Members(m[l]), <<a, b>> \in W
                 PROVE  FALSE
    BY DEF Across
  <2>2. nodes[a].out # nodes[b].out
    BY <1>2, <2>1
  <2>3. QED
    BY <1>4, <2>1, <2>2
<1>6. QED
  BY <1>1, <1>3, <1>5 DEF ListsAvoid

-------------------------------------------------------------------------------
\* The chains are put in the order of the code and divided by location.
LEMMA DividedInOrder ==
  ASSUME PackInv, NamesInOrder, EndDetection
  PROVE  OrderKept'
<1>1. /\ place = "visit" /\ place' = "window" /\ redux' = ByNumber(redux)
      /\ full' = MapReductions(redux') /\ UNCHANGED vars /\ groups' = groups
  BY DEF EndDetection
<1>2. /\ nodes' = nodes /\ TypedNodes(nodes) /\ redux \in Seq(DOMAIN nodes)
  BY <1>1, GraphStays DEF PackInv, SchedInv, PackTypes, DetectionTypes
<1>3. Emitted' = <<>>
  BY <1>1, EmittedOnce DEF Emitted
<1>4. PICK rs \in Seq(DOMAIN nodes) : rs = ByNumber(redux) /\ Members(rs) = Members(redux)
  BY <1>2, SortedMembers DEF ByNumber
<1>5. Members(redux)' = Members(redux)
  BY <1>1, <1>4
<1>6. Backward' = Backward
  BY <1>2, <1>5, SamePairs
<1>7. Avoids(rs, Backward)
  BY <1>2, <1>4, BackwardPairs, SortedForwards DEF Backward
<1>8. ListsAvoid(MapReductions(rs), 1, Backward)
  BY <1>2, <1>7, MapReductionsAvoid DEF Backward
<1>9. PICK fs, W : fs = MapReductions(rs) /\ W = Backward
  OBVIOUS
<1>10. Ordered(W, <<>>, <<>>, <<>>, 1, fs)
  <2>1. Members(<<>>) = {} /\ AllOf(<<>>, 1) = {} /\ ListsAvoid(<<>>, 1, W)
    BY FewMembers DEF AllOf, ListsAvoid
  <2>2. QED
    BY <1>8, <1>9, <2>1, FewAvoid DEF Ordered, Across
<1>11. Ordered(Backward, Emitted, <<>>, <<>>, 1, full)'
  BY <1>1, <1>3, <1>4, <1>6, <1>9, <1>10
<1>12. QED
  BY <1>1, <1>11 DEF OrderKept

\* A window is begun.
LEMMA WindowInOrder ==
  ASSUME PackInv, OrderKept, TakeWindow
  PROVE  OrderKept'
<1>1. /\ place = "window" /\ full # <<>> /\ place' = "pack"
      /\ lists' = SubSeq(full, 1, WindowSize)
      /\ full' = SubSeq(full, WindowSize + 1, Len(full)) /\ packing' = <<>>
      /\ UNCHANGED <<vars, opts, detection>> /\ groups' = groups
  BY DEF TakeWindow
<1>2. WindowTypes /\ Backward' = Backward /\ Emitted' = Emitted
  BY <1>1, InWindows DEF PackingPlaces, Emitted
<1>3. PICK n \in 0 .. Len(full) : n = WindowSize
  BY <1>1, OptionTypes
<1>4. PICK W, em : W = Backward /\ em = Emitted
  OBVIOUS
<1>5. Ordered(W, em, <<>>, <<>>, 1, full) /\ full \in Seq(Seq(DOMAIN nodes))
  BY <1>1, <1>2, <1>4 DEF OrderKept, WindowTypes
<1>6. Ordered(W, em, <<>>, SubSeq(full, 1, n), 1, SubSeq(full, n + 1, Len(full)))
  BY <1>5, WindowOrdered
<1>7. Ordered(Backward, Emitted, packing, lists, 1, full)'
  BY <1>1, <1>2, <1>3, <1>4, <1>6
<1>8. Avoids(<<>>, W) /\ Across(Members(<<>>), AllOf(SubSeq(full, 1, n), 1), W)
  BY FewAvoid, FewMembers DEF Across
<1>9. Avoids(packing, Backward)' /\ Across(Members(packing), AllOf(lists, 1), Backward)'
  BY <1>1, <1>2, <1>3, <1>4, <1>8
<1>10. QED
  BY <1>1, <1>7, <1>9 DEF OrderKept

\* A piece of a list is added to the packing.
LEMMA PieceInOrder ==
  ASSUME PackInv, OrderKept, TakePiece
  PROVE  OrderKept'
<1>1. /\ place = "pack" /\ size >= opts.min /\ key <= Len(lists) /\ HasPiece
      /\ packing' = packing \o SubSeq(lists[key], 1, size)
      /\ lists' = [lists EXCEPT ![key] = SubSeq(@, size + 1, Len(@))]
      /\ UNCHANGED <<vars, opts, detection>>
      /\ place' = place /\ full' = full /\ groups' = groups
  BY DEF TakePiece, Packs
<1>2. WindowTypes /\ Backward' = Backward /\ Emitted' = Emitted
  BY <1>1, InWindows DEF PackingPlaces, Emitted
<1>3. key >= 1
  BY <1>1 DEF PackInv, InWindow
<1>4. /\ lists \in Seq(Seq(DOMAIN nodes)) /\ packing \in Seq(DOMAIN nodes)
      /\ key \in DOMAIN lists /\ lists[key] \in Seq(DOMAIN nodes)
      /\ Len(lists[key]) \in Nat /\ size \in 0 .. Len(lists[key])
  <2>1. lists \in Seq(Seq(DOMAIN nodes)) /\ DOMAIN lists = 1 .. Len(lists) /\ key \in Nat
        /\ Len(lists) \in Nat /\ packing \in Seq(DOMAIN nodes) /\ size \in Nat
    BY <1>2, LenProperties DEF WindowTypes
  <2>2. key \in DOMAIN lists
    BY <1>1, <1>3, <2>1
  <2>3. lists[key] \in Seq(DOMAIN nodes) /\ Len(lists[key]) \in Nat
    BY <2>1, <2>2, ElementOfSeq, LenProperties
  <2>4. QED
    BY <1>1, <2>1, <2>2, <2>3 DEF HasPiece
<1>5. PICK S, W, em, fs : S = DOMAIN nodes /\ W = Backward /\ em = Emitted /\ fs = full
  OBVIOUS
<1>6. PICK ls \in Seq(Seq(S)), w \in Seq(S) : ls = lists /\ w = packing
  BY <1>4, <1>5
<1>7. PICK i \in DOMAIN ls : i = key
  BY <1>4, <1>6
<1>8. PICK n \in 0 .. Len(ls[i]) : n = size
  BY <1>4, <1>6, <1>7
<1>9. /\ 1 \in Nat /\ i >= 1 /\ Ordered(W, em, w, ls, 1, fs)
      /\ Avoids(w, W) /\ Across(Members(w), AllOf(ls, 1), W)
  BY <1>1, <1>3, <1>5, <1>6, <1>7 DEF OrderKept
<1>10. LET p == SubSeq(ls[i], 1, n)
           m == [ls EXCEPT ![i] = SubSeq(@, n + 1, Len(@))]
       IN  /\ Ordered(W, em, w \o p, m, 1, fs) /\ Avoids(w \o p, W)
           /\ Across(Members(w \o p), AllOf(m, 1), W)
  BY <1>9, PieceOrdered
<1>11. packing' = w \o SubSeq(ls[i], 1, n)
       /\ lists' = [ls EXCEPT ![i] = SubSeq(@, n + 1, Len(@))]
  BY <1>1, <1>6, <1>7, <1>8
<1>12. /\ Ordered(W, em, packing', lists', 1, fs) /\ Avoids(packing', W)
       /\ Across(Members(packing'), AllOf(lists', 1), W)
  BY <1>10, <1>11
<1>13. /\ Ordered(Backward, Emitted, packing, lists, 1, full)'
       /\ Avoids(packing, Backward)' /\ Across(Members(packing), AllOf(lists, 1), Backward)'
  BY <1>1, <1>2, <1>5, <1>12
<1>14. QED
  BY <1>1, <1>13 DEF OrderKept

\* A packing is consumed.
LEMMA PackingConsumed ==
  ASSUME PackInv, OrderKept, place = "pack", UNCHANGED <<vars, opts, detection>>,
         groups' = groups \o Consume(packing)
  PROVE  Ordered(Backward, Emitted', <<>>, lists, 1, full)
<1>1. /\ WindowTypes /\ GroupTypes /\ TypedNodes(nodes) /\ Emitted \in Seq(DOMAIN nodes)
      /\ nodes' = nodes /\ Backward \subseteq Stores \X Stores
  BY InWindows DEF PackingPlaces
<1>2. packing \in Seq(DOMAIN nodes)
  BY <1>1 DEF WindowTypes
<1>3. /\ Ordered(Backward, Emitted, packing, lists, 1, full)
      /\ Avoids(packing, Backward) /\ Across(Members(packing), AllOf(lists, 1), Backward)
  BY DEF OrderKept
<1>4. PICK t \in Seq(DOMAIN nodes) : t = FlattenSeq(Consume(packing)) /\ Emitted' = Emitted \o t
  BY <1>1, <1>2, ConsumedBehind
<1>5. PICK W, em : W = Backward /\ em = Emitted
  OBVIOUS
<1>6. Avoids(t, W) /\ \A x \in Members(t) : x \in Stores => x \in Members(packing)
  BY <1>1, <1>2, <1>3, <1>4, <1>5, ConsumeAvoids
<1>7. Ordered(W, em \o t, <<>>, lists, 1, full)
  BY <1>1, <1>3, <1>5, <1>6, HandOrdered
<1>8. QED
  BY <1>4, <1>5, <1>7

\* The next list is looked at; a packing that is full is consumed before.
LEMMA ListInOrder ==
  ASSUME PackInv, OrderKept, NextList
  PROVE  OrderKept'
<1>1. /\ place = "pack"
      /\ IF Len(packing) = MaxVectorLength
         THEN groups' = groups \o Consume(packing) /\ packing' = <<>>
         ELSE groups' = groups /\ packing' = packing
      /\ UNCHANGED <<vars, opts, detection>>
      /\ place' = place /\ full' = full /\ lists' = lists
  BY DEF NextList, Packs
<1>2. Backward' = Backward
  BY <1>1, InWindows DEF PackingPlaces
<1>3. /\ Ordered(Backward, Emitted, packing, lists, 1, full)
      /\ Avoids(packing, Backward) /\ Across(Members(packing), AllOf(lists, 1), Backward)
  BY <1>1 DEF OrderKept
<1>4. PICK W, ls, fs : W = Backward /\ ls = lists /\ fs = full
  OBVIOUS
<1>5. /\ Ordered(W, Emitted', packing', ls, 1, fs)
      /\ Avoids(packing', W) /\ Across(Members(packing'), AllOf(ls, 1), W)
  <2>1. CASE Len(packing) = MaxVectorLength
    <3>1. Ordered(W, Emitted', <<>>, ls, 1, fs)
      BY <1>1, <1>4, <2>1, PackingConsumed
    <3>2. Avoids(<<>>, W) /\ Across(Members(<<>>), AllOf(ls, 1), W)
      BY FewAvoid, FewMembers DEF Across
    <3>3. QED
      BY <1>1, <2>1, <3>1, <3>2
  <2>2. CASE Len(packing) # MaxVectorLength
    <3>1. Emitted' = Emitted
      BY <1>1, <2>2 DEF Emitted
    <3>2. QED
      BY <1>1, <1>3, <1>4, <2>2, <3>1
  <2>3. QED
    BY <2>1, <2>2
<1>6. /\ Ordered(Backward, Emitted, packing, lists, 1, full)'
      /\ Avoids(packing, Backward)' /\ Across(Members(packing), AllOf(lists, 1), Backward)'
  BY <1>1, <1>2, <1>4, <1>5
<1>7. QED
  BY <1>1, <1>6 DEF OrderKept

\* The size of the pieces is halved.
LEMMA SizeInOrder ==
  ASSUME PackInv, OrderKept, HalveSize
  PROVE  OrderKept'
<1>1. /\ place = "pack" /\ UNCHANGED <<vars, opts, detection>>
      /\ place' = place /\ full' = full /\ lists' = lists /\ packing' = packing
      /\ groups' = groups
  BY DEF HalveSize
<1>2. Backward' = Backward /\ Emitted' = Emitted
  BY <1>1, InWindows DEF PackingPlaces, Emitted
<1>3. QED
  BY <1>1, <1>2 DEF OrderKept

\* A packing that no piece fills is consumed as it is.
LEMMA LeftoverInOrder ==
  ASSUME PackInv, OrderKept, ConsumeLeftover
  PROVE  OrderKept'
<1>1. /\ place = "pack" /\ groups' = groups \o Consume(packing) /\ key' = 1
      /\ place' = "chunks" /\ UNCHANGED <<vars, opts, detection>>
      /\ full' = full /\ lists' = lists /\ orphans' = orphans
  BY DEF ConsumeLeftover
<1>2. Backward' = Backward
  BY <1>1, InWindows DEF PackingPlaces
<1>3. orphans = <<>>
  BY <1>1 DEF PackInv, InWindow
<1>4. PICK W, ls, fs : W = Backward /\ ls = lists /\ fs = full
  OBVIOUS
<1>5. Ordered(W, Emitted', <<>>, ls, 1, fs)
  BY <1>1, <1>4, PackingConsumed
<1>6. \A A : Across(A, Members(<<>>), W) /\ Across(Members(<<>>), A, W)
  BY FewMembers DEF Across
<1>7. Ordered(Backward, Emitted, orphans, lists, key, full)'
  BY <1>1, <1>2, <1>3, <1>4, <1>5
<1>8. OrphansOrdered'
  BY <1>1, <1>2, <1>3, <1>4, <1>6 DEF OrphansOrdered
<1>9. QED
  BY <1>1, <1>7, <1>8 DEF OrderKept

\* A chunk of a list is consumed, sorted by operator<.
LEMMA ChunkInOrder ==
  ASSUME PackInv, NamesInOrder, OrderKept, ConsumeChunk
  PROVE  OrderKept'
<1> DEFINE n == IF Len(lists[key]) < MaxVectorLength THEN Len(lists[key])
                ELSE MaxVectorLength
           p == SubSeq(lists[key], 1, n)
<1>1. /\ place = "chunks" /\ key <= Len(lists)
      /\ groups' = groups \o Consume(SortNodes(p))
      /\ lists' = [lists EXCEPT ![key] = SubSeq(@, n + 1, Len(@))]
      /\ UNCHANGED <<vars, opts, detection>>
      /\ place' = place /\ full' = full /\ key' = key /\ orphans' = orphans
  BY DEF ConsumeChunk, Chunks
<1>2. /\ WindowTypes /\ GroupTypes /\ TypedNodes(nodes) /\ Emitted \in Seq(DOMAIN nodes)
      /\ Backward' = Backward /\ nodes' = nodes /\ opts' = opts
      /\ Backward \subseteq Stores \X Stores
  BY <1>1, InWindows DEF PackingPlaces
<1>3. key >= 1
  BY <1>1 DEF PackInv, InWindow
<1>4. /\ lists \in Seq(Seq(DOMAIN nodes)) /\ key \in DOMAIN lists
      /\ lists[key] \in Seq(DOMAIN nodes) /\ Len(lists[key]) \in Nat
  <2>1. lists \in Seq(Seq(DOMAIN nodes)) /\ DOMAIN lists = 1 .. Len(lists) /\ key \in Nat
        /\ Len(lists) \in Nat
    BY <1>2, LenProperties DEF WindowTypes
  <2>2. key \in DOMAIN lists
    BY <1>1, <1>3, <2>1
  <2>3. QED
    BY <2>1, <2>2, ElementOfSeq, LenProperties
<1>5. n \in 0 .. Len(lists[key])
  BY <1>4, SlotsAssumption
<1> HIDE DEF n
<1>6. p \in Seq(DOMAIN nodes)
  BY <1>4, <1>5, CutMembers
<1>7. PICK s \in Seq(DOMAIN nodes) : s = SortNodes(p) /\ Members(s) = Members(p)
  BY <1>6, SortedMembers DEF SortNodes
<1>8. Avoids(s, Backward)
  BY <1>2, <1>6, <1>7, BackwardPairs, SortedForwards DEF Backward
<1>9. PICK t \in Seq(DOMAIN nodes) : t = FlattenSeq(Consume(s)) /\ Emitted' = Emitted \o t
  BY <1>1, <1>2, <1>7, ConsumedBehind
<1>10. Avoids(t, Backward) /\ \A x \in Members(t) : x \in Stores => x \in Members(p)
  BY <1>2, <1>7, <1>8, <1>9, ConsumeAvoids
<1>11. PICK S, W, fs, X, w : /\ S = DOMAIN nodes /\ W = Backward /\ fs = full /\ X = Stores
                             /\ w = Members(orphans)
  OBVIOUS
<1>12. PICK ls \in Seq(Seq(S)), em \in Seq(S) : ls = lists /\ em = Emitted
  BY <1>2, <1>4, <1>11
<1>13. PICK k \in DOMAIN ls : k = key
  BY <1>4, <1>12
<1>14. PICK l \in 0 .. Len(ls[k]) : l = n
  BY <1>5, <1>12, <1>13
<1>15. /\ W \subseteq X \X X /\ Ordered(W, em, orphans, ls, k, fs)
       /\ Across(AllOf(ls, k), Members(orphans), W)
       /\ Across(Members(orphans), AllOf(ls, k), W)
       /\ opts.disableOrphans \/ Across(Members(orphans), Members(orphans), W)
  BY <1>1, <1>2, <1>11, <1>12, <1>13 DEF OrderKept, OrphansOrdered
<1>16. t \in Seq(S) /\ Avoids(t, W) /\ \A x \in Members(t) : x \in X => x \in Members(SubSeq(ls[k], 1, l))
  BY <1>9, <1>10, <1>11, <1>12, <1>13, <1>14
<1>17. LET m == [ls EXCEPT ![k] = SubSeq(@, l + 1, Len(@))]
       IN  Ordered(W, em \o t, orphans, m, k, fs) /\ AllOf(m, k) \subseteq AllOf(ls, k)
  BY <1>15, <1>16, ChunkOrdered
<1>18. lists' = [ls EXCEPT ![k] = SubSeq(@, l + 1, Len(@))]
  BY <1>1, <1>12, <1>13, <1>14
<1>19. /\ Ordered(W, em \o t, orphans, lists', k, fs)
       /\ AllOf(lists', k) \subseteq AllOf(ls, k)
  BY <1>17, <1>18
<1>20. /\ Across(AllOf(lists', k), Members(orphans), W)
       /\ Across(Members(orphans), AllOf(lists', k), W)
  BY <1>15, <1>19 DEF Across
<1>21. Ordered(Backward, Emitted, orphans, lists, key, full)'
  BY <1>1, <1>2, <1>9, <1>11, <1>12, <1>13, <1>19
<1>22. OrphansOrdered'
  BY <1>1, <1>2, <1>11, <1>13, <1>15, <1>20 DEF OrphansOrdered
<1>23. QED
  BY <1>1, <1>21, <1>22 DEF OrderKept

\* What is less than a chunk makes orphans: at most one of a location, or they are
\* not searched.
LEMMA OrphansInOrder ==
  ASSUME PackInv, InOrderOptions, OrderKept, InsertOrphans
  PROVE  OrderKept'
<1>1. /\ place = "chunks" /\ key <= Len(lists) /\ Len(lists[key]) < opts.min
      /\ orphans' = orphans \o lists[key] /\ key' = key + 1
      /\ UNCHANGED <<vars, opts, detection>>
      /\ place' = place /\ full' = full /\ lists' = lists /\ groups' = groups
  BY DEF InsertOrphans, Chunks
<1>2. /\ WindowTypes /\ Backward' = Backward /\ opts' = opts /\ Emitted' = Emitted
      /\ \A x : <<x, x>> \notin Backward
  BY <1>1, InWindows DEF PackingPlaces, Emitted
<1>3. key >= 1
  BY <1>1 DEF PackInv, InWindow
<1>4. /\ lists \in Seq(Seq(DOMAIN nodes)) /\ key \in DOMAIN lists
      /\ orphans \in Seq(DOMAIN nodes) /\ Len(lists[key]) \in Nat
  <2>1. lists \in Seq(Seq(DOMAIN nodes)) /\ DOMAIN lists = 1 .. Len(lists) /\ key \in Nat
        /\ Len(lists) \in Nat /\ orphans \in Seq(DOMAIN nodes)
    BY <1>2, LenProperties DEF WindowTypes
  <2>2. key \in DOMAIN lists
    BY <1>1, <1>3, <2>1
  <2>3. QED
    BY <2>1, <2>2, ElementOfSeq, LenProperties
<1>5. opts.disableOrphans \/ Len(lists[key]) <= 1
  BY <1>1, <1>4, OptionTypes DEF InOrderOptions
<1>6. PICK W, em, fs : W = Backward /\ em = Emitted /\ fs = full
  OBVIOUS
<1>7. PICK S, ls, k, w : S = DOMAIN nodes /\ ls = lists /\ k = key /\ w = orphans
  OBVIOUS
<1>8. /\ ls \in Seq(Seq(S)) /\ k \in DOMAIN ls /\ w \in Seq(S)
      /\ Ordered(W, em, w, ls, k, fs)
      /\ Across(AllOf(ls, k), Members(w), W) /\ Across(Members(w), AllOf(ls, k), W)
      /\ opts.disableOrphans \/ Across(Members(w), Members(w), W)
      /\ \A x : <<x, x>> \notin W
      /\ opts.disableOrphans \/ Len(ls[k]) <= 1
  BY <1>1, <1>2, <1>4, <1>5, <1>6, <1>7 DEF OrderKept, OrphansOrdered
<1>9. LET v == w \o ls[k]
      IN  /\ Ordered(W, em, v, ls, k + 1, fs)
          /\ Across(Members(v), AllOf(ls, k + 1), W)
          /\ Across(AllOf(ls, k + 1), Members(v), W)
          /\ Across(Members(w), Members(w), W) /\ Len(ls[k]) <= 1
             /\ (\A x : <<x, x>> \notin W) => Across(Members(v), Members(v), W)
  BY <1>8, ListOrdered
<1>10. orphans' = w \o ls[k]
  BY <1>1, <1>7
<1>11. /\ Ordered(W, em, orphans', ls, k + 1, fs)
       /\ Across(Members(orphans'), AllOf(ls, k + 1), W)
       /\ Across(AllOf(ls, k + 1), Members(orphans'), W)
       /\ opts.disableOrphans \/ Across(Members(orphans'), Members(orphans'), W)
  BY <1>8, <1>9, <1>10
<1>12. Ordered(Backward, Emitted, orphans, lists, key, full)'
  BY <1>1, <1>2, <1>6, <1>7, <1>11
<1>13. OrphansOrdered'
  BY <1>1, <1>2, <1>6, <1>7, <1>11 DEF OrphansOrdered
<1>14. QED
  BY <1>1, <1>12, <1>13 DEF OrderKept

\* The orphans are consumed: sorted one by one, or there are none of one location.
LEMMA OrphansConsumedInOrder ==
  ASSUME PackInv, NamesInOrder, OrderKept, ConsumeOrphans
  PROVE  OrderKept'
<1>1. /\ place = "chunks" /\ key > Len(lists) /\ place' = "window"
      /\ UNCHANGED <<vars, opts, detection, windows>>
  BY DEF ConsumeOrphans, Orphaned
<1>2. /\ WindowTypes /\ GroupTypes /\ TypedNodes(nodes) /\ Emitted \in Seq(DOMAIN nodes)
      /\ Backward' = Backward /\ nodes' = nodes /\ full' = full
      /\ Backward \subseteq Stores \X Stores
  BY <1>1, InWindows DEF PackingPlaces, windows
<1>3. /\ orphans \in Seq(DOMAIN nodes) /\ lists \in Seq(Seq(DOMAIN nodes)) /\ key \in Nat
      /\ Len(lists) < key
  BY <1>1, <1>2, OptionTypes DEF WindowTypes
<1>4. PICK gs : /\ PackedAs(gs, Members(orphans)) /\ groups' = groups \o gs
                /\ opts.disableOrphans =>
                     gs = <<>> \o ConsumeAlong(AllButAt(SortNodes(orphans), {}))
  BY OrphansGrouped
<1>5. /\ FlattenSeq(gs) \in Seq(DOMAIN nodes) /\ Emitted' = Emitted \o FlattenSeq(gs)
  BY <1>2, <1>4, GroupsAdded DEF PackedAs, GroupTypes
<1>6. PICK t \in Seq(DOMAIN nodes) : t = FlattenSeq(gs)
  BY <1>5
<1>7. \A x \in Members(t) : x \in Stores => x \in Members(orphans)
  BY <1>4, <1>6 DEF PackedAs
<1>8. Avoids(t, Backward)
  <2>1. CASE opts.disableOrphans
    <3>1. PICK s \in Seq(DOMAIN nodes) : s = SortNodes(orphans)
      BY <1>3, SortedMembers DEF SortNodes
    <3>2. Avoids(s, Backward)
      BY <1>2, <1>3, <3>1, BackwardPairs, SortedForwards DEF Backward
    <3>3. PICK u \in Seq(DOMAIN nodes) : u = AllButAt(s, {}) /\ Avoids(u, Backward)
      BY <3>2, KeptMembers, KeptAvoids DEF AllButAt
    <3>4. Avoids(FlattenSeq(ConsumeAlong(u)), Backward)
      BY <1>2, <3>3, ConsumeAlongAvoids
    <3>5. ConsumeAlong(u) \in Seq(Seq(DOMAIN nodes))
      BY <1>2, <3>3, ConsumeAlongTypes
    <3>6. <<>> \o ConsumeAlong(u) = ConsumeAlong(u)
      BY <3>5, ConcatEmptySeq
    <3>7. QED
      BY <1>4, <1>6, <2>1, <3>1, <3>3, <3>4, <3>6
  <2>2. CASE ~opts.disableOrphans
    <3>1. Across(Members(orphans), Members(orphans), Backward)
      BY <1>1, <2>2 DEF OrderKept, OrphansOrdered
    <3>2. \A x, y : <<x, y>> \in Backward => x \in Stores /\ y \in Stores
      BY <1>2
    <3>3. QED
      BY <1>7, <3>1, <3>2 DEF Across, Avoids, Members
  <2>3. QED
    BY <2>1, <2>2
<1>9. PICK W, em, ls, fs, X, k : /\ W = Backward /\ em = Emitted /\ ls = lists /\ fs = full
                                 /\ X = Stores /\ k = key
  OBVIOUS
<1>10. /\ W \subseteq X \X X /\ Ordered(W, em, orphans, ls, k, fs)
       /\ Across(Members(orphans), AllOf(ls, k), W) /\ em \in Seq(DOMAIN nodes)
       /\ Avoids(t, W) /\ \A x \in Members(t) : x \in X => x \in Members(orphans)
  BY <1>1, <1>2, <1>7, <1>8, <1>9 DEF OrderKept, OrphansOrdered
<1>11. Ordered(W, em \o t, <<>>, ls, k, fs)
  BY <1>10, HandOrdered
<1>12. Ordered(W, em \o t, <<>>, <<>>, 1, fs)
  BY <1>3, <1>9, <1>11, EndOrdered
<1>13. Ordered(Backward, Emitted, <<>>, <<>>, 1, full)'
  BY <1>2, <1>5, <1>6, <1>9, <1>12
<1>14. QED
  BY <1>1, <1>13 DEF OrderKept

\* The others are packed last; none of them accumulates.
LEMMA OthersBehind ==
  ASSUME PackInv, OrderKept, ConsumeOthers
  PROVE  OrderKept'
<1>1. /\ place = "window" /\ groups' = groups \o Greedy(others) /\ place' = "packed"
      /\ UNCHANGED <<vars, opts, detection, windows>>
  BY DEF ConsumeOthers
<1>2. /\ GroupTypes /\ TypedNodes(nodes) /\ Emitted \in Seq(DOMAIN nodes)
      /\ Backward' = Backward /\ nodes' = nodes
  BY <1>1, InWindows DEF PackingPlaces
<1>3. others \in Seq(DOMAIN nodes) /\ Divided /\ DOMAIN nodes \subseteq Nat
  BY <1>1, <1>2, TypedIsFew DEF PackInv, PackTypes, DetectionTypes, PackingPlaces
<1>4. PICK hs : /\ hs = Greedy(others) /\ hs \in Seq(Seq(DOMAIN nodes))
                /\ AllOneOperation(hs) /\ FlattenSeq(hs) = others
  BY <1>3, GreedyGroups
<1>5. Emitted' = Emitted \o others
  BY <1>1, <1>2, <1>4, GroupsAdded DEF GroupTypes
<1>6. Avoids(Emitted, Backward)
  BY <1>1 DEF OrderKept, Ordered
<1>7. \A x \in Members(others) : x \notin Accumulators
  <2>1. Members(others) \subseteq Nat
    BY <1>3, LenProperties, ElementOfSeq DEF Members
  <2>2. QED
    BY <1>3, <2>1 DEF Accumulators, Divided, NoneShared
<1>8. \A x, y : <<x, y>> \in Backward => x \in Accumulators /\ y \in Accumulators
  BY DEF Backward, Backwards
<1>9. Avoids(others, Backward) /\ Across(Members(Emitted), Members(others), Backward)
  BY <1>7, <1>8 DEF Avoids, Across, Members
<1>10. Avoids(Emitted \o others, Backward)
  BY <1>2, <1>3, <1>6, <1>9, ConcatAvoids
<1>11. Avoids(Emitted, Backward)'
  BY <1>2, <1>5, <1>10
<1>12. QED
  BY <1>1, <1>11 DEF OrderKept

\* Where nothing is done in the windows, the order stays.
LEMMA OrderStays ==
  ASSUME PackInv, OrderKept, nodes' = nodes, UNCHANGED <<opts, detection, windows, groups>>,
         place' \in {place, "undefined"}
  PROVE  OrderKept'
<1>1. /\ redux' = redux /\ full' = full /\ lists' = lists /\ packing' = packing
      /\ orphans' = orphans /\ key' = key /\ opts' = opts /\ Emitted' = Emitted
  BY DEF detection, windows, Emitted
<1>2. Backward' = Backward
  BY <1>1, SamePairs
<1>3. CASE place' = place
  BY <1>1, <1>2, <1>3 DEF OrderKept, OrphansOrdered
<1>4. CASE place' = "undefined"
  <2>1. Avoids(Emitted, Backward)
    <3>1. CASE place \in {"detect", "visit"}
      BY <3>1, EmittedOnce, FewAvoid
    <3>2. QED
      BY <3>1 DEF OrderKept, Ordered, PackInv, PackTypes, PackingPlaces
  <2>2. Avoids(Emitted, Backward)'
    BY <1>1, <1>2, <2>1
  <2>3. QED
    BY <1>4, <2>2 DEF OrderKept
<1>5. QED
  BY <1>3, <1>4

\* Nothing is named, and nothing packed, at first.
LEMMA InitAccumulate ==
  ASSUME PackInit
  PROVE  AccumulateInv
<1>1. nodes = <<>> /\ place = "detect"
  BY DEF PackInit, Init, packInit
<1>2. NamesInOrder
  BY <1>1 DEF NamesInOrder
<1>3. OrderKept
  BY <1>1 DEF OrderKept
<1>4. QED
  BY <1>2, <1>3, InitPack DEF AccumulateInv

\* Each step keeps what is packed in order.
LEMMA NextAccumulate ==
  ASSUME AllWellFormed, AllUnrolledInOrder, AllLocationsInOrder, AccumulateInv,
         [PackNext]_<<vars, packVars>>
  PROVE  AccumulateInv'
<1>1. PackInv /\ NamesInOrder /\ SchedInv /\ (InOrderOptions => OrderKept)
  BY DEF AccumulateInv, PackInv
<1>2. PackInv'
  BY <1>1, NextPack
<1>3. CASE Step /\ UNCHANGED packVars
  <2>1. NamesInOrder'
    BY <1>1, <1>3, NextNames DEF Next
  <2>2. pc = "insert"
    BY <1>3 DEF Step, FoldAssignment, InsertNode, NameOfBrokenLeaf, SortGraph, Inserting
  <2>3. place' = "detect"
    BY <1>1, <1>3, <2>2 DEF PackInv, packVars
  <2>4. OrderKept'
    BY <2>3 DEF OrderKept
  <2>5. QED
    BY <1>2, <2>1, <2>4 DEF AccumulateInv
<1>4. CASE PackingStep
  <2>1. UNCHANGED vars /\ opts' = opts
    BY <1>4 DEF PackingStep, BeginDetection, VisitNode, EndDetection, TakeWindow, TakePiece,
                NextList, HalveSize, ConsumeLeftover, ConsumeChunk, InsertOrphans,
                ConsumeOrphans, SearchNoElement, ConsumeOthers
  <2>2. NamesInOrder'
    BY <1>1, <2>1, NextNames
  <2>3. InOrderOptions' <=> InOrderOptions
    BY <2>1 DEF InOrderOptions
  <2>4. ASSUME InOrderOptions
        PROVE  OrderKept'
    <3>1. OrderKept
      BY <1>1, <2>4
    <3>2. CASE BeginDetection \/ VisitNode
      <4>1. place' = "visit"
        BY <3>2 DEF BeginDetection, VisitNode
      <4>2. QED
        BY <4>1 DEF OrderKept
    <3>3. CASE EndDetection
      BY <1>1, <3>3, DividedInOrder
    <3>4. CASE TakeWindow \/ TakePiece \/ NextList \/ HalveSize \/ ConsumeLeftover
      BY <1>1, <3>1, <3>4, WindowInOrder, PieceInOrder, ListInOrder, SizeInOrder,
         LeftoverInOrder
    <3>5. CASE ConsumeChunk \/ InsertOrphans \/ ConsumeOrphans \/ ConsumeOthers
      BY <1>1, <2>4, <3>1, <3>5, ChunkInOrder, OrphansInOrder, OrphansConsumedInOrder,
         OthersBehind
    <3>6. CASE SearchNoElement
      <4>1. UNCHANGED <<opts, detection, windows, groups>> /\ place' = "undefined"
            /\ nodes' = nodes
        BY <1>1, <3>6, GraphStays DEF SearchNoElement
      <4>2. QED
        BY <1>1, <3>1, <4>1, OrderStays
    <3>7. QED
      BY <1>4, <3>2, <3>3, <3>4, <3>5, <3>6 DEF PackingStep
  <2>5. QED
    BY <1>2, <2>2, <2>3, <2>4 DEF AccumulateInv
<1>5. CASE UNCHANGED <<vars, packVars>>
  <2>1. NamesInOrder'
    BY <1>1, <1>5, NextNames
  <2>2. /\ UNCHANGED <<opts, detection, windows, groups>> /\ place' = place
        /\ nodes' = nodes
    BY <1>1, <1>5, GraphStays DEF packVars
  <2>3. InOrderOptions' <=> InOrderOptions
    BY <2>2 DEF InOrderOptions
  <2>4. InOrderOptions => OrderKept'
    BY <1>1, <2>2, OrderStays
  <2>5. QED
    BY <1>2, <2>1, <2>3, <2>4 DEF AccumulateInv
<1>6. QED
  BY <1>3, <1>4, <1>5 DEF PackNext, CompilerStep, Stopped

\* What reduces into one location is packed in the order of the code, whatever
\* pieces, chunks and orphans its list is cut into, as long as no two orphans of a
\* list are searched.
THEOREM AccumulatesInOrder ==
  ASSUME AllWellFormed, AllUnrolledInOrder, AllLocationsInOrder
  PROVE  PackSpec => []AccumulateInOrder
<1>1. PackInit => AccumulateInv
  BY InitAccumulate
<1>2. AccumulateInv /\ [PackNext]_<<vars, packVars>> => AccumulateInv'
  BY NextAccumulate
<1>3. AccumulateInv => AccumulateInOrder
  <2>1. SUFFICES ASSUME AccumulateInv, InOrderOptions,
                        NEW i \in DOMAIN Emitted, NEW j \in DOMAIN Emitted, i < j,
                        {Emitted[i], Emitted[j]} \subseteq Members(redux),
                        nodes[Emitted[i]].store, nodes[Emitted[j]].store,
                        nodes[Emitted[i]].out = nodes[Emitted[j]].out
                 PROVE  Emitted[i] < Emitted[j]
    BY DEF AccumulateInOrder, InOrderOptions
  <2>2. PackInv /\ OrderKept
    BY <2>1 DEF AccumulateInv
  <2>3. /\ Emitted \in Seq(DOMAIN nodes) /\ OnceIn(Emitted, Stores)
        /\ place \in {"detect", "visit"} => Emitted = <<>>
    BY <2>2, EmittedOnce
  <2>4. Avoids(Emitted, Backward)
    <3>1. CASE place \in {"detect", "visit"}
      BY <2>3, <3>1, FewAvoid
    <3>2. CASE place \notin {"detect", "visit"}
      BY <2>2, <3>2 DEF OrderKept, Ordered, PackInv, PackTypes, PackingPlaces
    <3>3. QED
      BY <3>1, <3>2
  <2>5. Emitted[i] \in Stores /\ Emitted[j] \in Stores /\ Emitted[i] \in Int /\ Emitted[j] \in Int
    <3>1. Emitted[i] \in DOMAIN nodes /\ Emitted[j] \in DOMAIN nodes
      BY <2>3, LenProperties, ElementOfSeq
    <3>2. TypedNodes(nodes)
      BY <2>2 DEF PackInv, SchedInv
    <3>3. QED
      BY <2>1, <3>1, <3>2, NodesReadOlder DEF Stores
  <2>6. Emitted[i] # Emitted[j]
    <3>1. DOMAIN Emitted \subseteq Int
      BY <2>3, LenProperties
    <3>2. QED
      BY <2>1, <2>3, <2>5, <3>1 DEF OnceIn
  <2>7. ~(Emitted[j] < Emitted[i])
    <3>1. Emitted[i] \in Accumulators /\ Emitted[j] \in Accumulators
      BY <2>1 DEF Accumulators
    <3>2. <<Emitted[i], Emitted[j]>> \notin Backward
      BY <2>1, <2>4 DEF Avoids
    <3>3. QED
      BY <2>1, <3>1, <3>2 DEF Backward, Backwards
  <2>8. QED
    BY <2>5, <2>6, <2>7
<1>4. QED
  BY <1>1, <1>2, <1>3, PTL DEF PackSpec

-------------------------------------------------------------------------------
(***************************************************************************)
(* The nodes that are left.  Those that are given with readers first are   *)
(* put with readers last: no node in front of one whose temporary it reads.*)
(***************************************************************************)
InFrontOfReader == {p \in (DOMAIN nodes) \X (DOMAIN nodes) : p[1] \in NodesRead(p[2])}

InFrontOfRead == {p \in (DOMAIN nodes) \X (DOMAIN nodes) : p[2] \in Read(p[1])}

TemporaryFirst == {p \in (DOMAIN nodes) \X (DOMAIN nodes) : p[1] \in Read(p[2])}

(***************************************************************************)
(* The inner nodes are read by nodes of P, and found behind their readers. *)
(***************************************************************************)
InnerRead(r, P) ==
  /\ \A k \in Members(r.inner) : \E y \in P : k \in NodesRead(y)
  /\ Avoids(r.inner, TemporaryFirst)

SplitBehind(r, L, P) ==
  /\ SplitOf(r, L) /\ InnerRead(r, P)
  /\ P \subseteq Members(r.roots) \cup Members(r.inner)

\* An inner node is found behind what reads its temporary: that has been gone through.
LEMMA InputBehind ==
  ASSUME TypedNodes(nodes), OneReader, NEW L, L \subseteq DOMAIN nodes, NEW P, P \subseteq L,
         NEW r, SplitBehind(r, L, P), NEW x \in P, NEW k, k \in L => k \in NodesRead(x)
  PROVE  LET q == AddInput(r, k, L)
         IN  /\ SplitBehind(q, L, P) /\ q.roots = r.roots
             /\ Members(r.inner) \subseteq Members(q.inner)
             /\ k \in L => k \in Members(q.roots) \cup Members(q.inner)
<1>1. SplitOf(r, L) /\ InnerRead(r, P) /\ P \subseteq Members(r.roots) \cup Members(r.inner)
  BY DEF SplitBehind
<1>2. LET q == AddInput(r, k, L)
      IN  SplitOf(q, L) /\ q.roots = r.roots /\ Members(r.inner) \subseteq Members(q.inner)
  BY <1>1, InputAdded
<1>3. CASE k \notin L \ (Members(r.roots) \cup Members(r.inner))
  BY <1>3 DEF AddInput
<1>4. CASE k \in L \ (Members(r.roots) \cup Members(r.inner))
  <2> DEFINE o == <<k>>
             q == [r EXCEPT !.inner = Append(r.inner, k)]
  <2>1. PICK i \in Seq(DOMAIN nodes) : i = r.inner /\ k \in DOMAIN nodes
    BY <1>1, <1>4 DEF SplitOf, Splits
  <2>2. o \in Seq(DOMAIN nodes) /\ Members(o) = {k} /\ Avoids(o, TemporaryFirst)
    BY <2>1, FewMembers, FewAvoid
  <2>3. Append(i, k) = i \o o
    BY <2>1
  <2>4. AddInput(r, k, L) = q
    BY <1>4 DEF AddInput
  <2>5. q.inner = i \o o
    BY <1>1, <2>1, <2>3 DEF SplitOf, Splits
  <2> HIDE DEF q, o
  <2>6. Across(Members(i), Members(o), TemporaryFirst)
    <3>1. SUFFICES ASSUME NEW b \in Members(i), <<b, k>> \in TemporaryFirst
                   PROVE  FALSE
      BY <2>2 DEF Across
    <3>2. PICK y \in P : b \in NodesRead(y)
      BY <1>1, <2>1 DEF InnerRead
    <3>3. b \in Read(k)
      BY <3>1 DEF TemporaryFirst
    <3>4. b \in Read(y) /\ y \in DOMAIN nodes
      BY <3>2, <3>3 DEF Read
    <3>5. y = k
      BY <2>1, <3>3, <3>4 DEF OneReader
    <3>6. QED
      BY <1>1, <1>4, <3>5
  <2>7. /\ Members(i \o o) = Members(i) \cup Members(o)
        /\ Avoids(i \o o, TemporaryFirst)
    <3>1. Avoids(i, TemporaryFirst)
      BY <1>1, <2>1 DEF InnerRead
    <3>2. QED
      BY ZenonT(60), <2>2, <2>6, <3>1, ConcatAvoids, ConcatMembers
  <2>8. k \in NodesRead(x)
    BY <1>4
  <2>9. InnerRead(q, P)
    BY <1>1, <2>1, <2>2, <2>5, <2>7, <2>8 DEF InnerRead
  <2>10. QED
    BY <1>1, <1>2, <2>2, <2>4, <2>5, <2>7, <2>9 DEF SplitBehind
<1>5. QED
  BY <1>1, <1>2, <1>3, <1>4 DEF SplitBehind

(***************************************************************************)
(* What the nodes of P read is roots or inner nodes, and no root is read.  *)
(***************************************************************************)
ReadBySplit(r, L, P) ==
  \A y \in P : NodesRead(y) \cap L \subseteq Members(r.roots) \cup Members(r.inner)

RootsUnread(r, L) == \A y \in L : \A k \in Members(r.roots) : k \notin NodesRead(y)

\* A node that is gone through behind its readers becomes a root only if it has none.
LEMMA NodeBehind ==
  ASSUME TypedNodes(nodes), OneReader, NEW L, L \subseteq DOMAIN nodes, NEW P, P \subseteq L,
         NEW r, SplitBehind(r, L, P), ReadBySplit(r, L, P), RootsUnread(r, L),
         NEW x \in L, x \notin Members(r.roots),
         \A y \in L \ P : x \notin NodesRead(y)
  PROVE  LET q == AddNode(r, x, L)
         IN  /\ SplitBehind(q, L, P \cup {x}) /\ ReadBySplit(q, L, P \cup {x})
             /\ RootsUnread(q, L) /\ Members(q.roots) \subseteq Members(r.roots) \cup {x}
<1> DEFINE Q == P \cup {x}
           len == Len(nodes[x].ins)
           b == Owned(r, x)
           C(n) == {q \in Splits :
                      /\ SplitBehind(q, L, Q) /\ q.roots = b.roots
                      /\ Members(b.inner) \subseteq Members(q.inner)
                      /\ \A i \in 1 .. n : nodes[x].ins[i].node \in L =>
                           nodes[x].ins[i].node \in Members(q.roots) \cup Members(q.inner)}
           V == [n \in 0 .. len |-> C(n)]
<1>1. SplitOf(r, L) /\ InnerRead(r, P) /\ P \subseteq Members(r.roots) \cup Members(r.inner)
  BY DEF SplitBehind
<1>2. /\ SplitBehind(b, L, Q) /\ RootsUnread(b, L)
      /\ Members(r.roots) \cup Members(r.inner) \subseteq Members(b.roots) \cup Members(b.inner)
      /\ Members(b.roots) \subseteq Members(r.roots) \cup {x}
  <2>1. CASE x \in Members(r.inner)
    <3>1. b = r
      BY <2>1 DEF Owned
    <3>2. InnerRead(r, Q) /\ Q \subseteq Members(r.roots) \cup Members(r.inner)
      BY <1>1, <2>1 DEF InnerRead
    <3>3. QED
      BY <1>1, <3>1, <3>2 DEF SplitBehind
  <2>2. CASE x \notin Members(r.inner)
    <3> DEFINE t == Append(r.roots, x)
               q == [r EXCEPT !.roots = t]
    <3>1. r.roots \in Seq(DOMAIN nodes) /\ x \in DOMAIN nodes
      BY <1>1 DEF SplitOf, Splits
    <3>2. /\ t \in Seq(DOMAIN nodes) /\ Members(t) = Members(r.roots) \cup {x}
          /\ OnceIn(r.roots, Nat) /\ (x \in Nat => x \notin Members(r.roots)) => OnceIn(t, Nat)
      BY <3>1, AppendMembers
    <3> HIDE DEF t
    <3>3. q \in Splits /\ q.roots = t /\ q.inner = r.inner
      BY <1>1, <3>2 DEF SplitOf, Splits
    <3>4. b = q
      BY <2>2 DEF t, Owned
    <3> HIDE DEF q, b
    <3>5. OnceIn(t, Nat) /\ NoneShared(Members(t), Members(r.inner), Nat)
      BY <1>1, <2>2, <3>2 DEF SplitOf, NoneShared
    <3>6. SplitOf(q, L)
      BY <1>1, <3>2, <3>3, <3>5 DEF SplitOf
    <3>7. InnerRead(q, Q) /\ Q \subseteq Members(q.roots) \cup Members(q.inner)
      BY <1>1, <3>2, <3>3 DEF InnerRead
    <3>8. \A y \in L : x \notin NodesRead(y)
      <4>1. SUFFICES ASSUME NEW y \in P, x \in NodesRead(y)
                     PROVE  FALSE
        OBVIOUS
      <4>2. x \in Members(r.roots) \cup Members(r.inner)
        BY <4>1 DEF ReadBySplit
      <4>3. QED
        BY <2>2, <4>2
    <3>9. RootsUnread(q, L)
      BY <3>2, <3>3, <3>8 DEF RootsUnread
    <3>10. QED
      BY <3>2, <3>3, <3>4, <3>6, <3>7, <3>9 DEF SplitBehind
  <2>3. QED
    BY <2>1, <2>2
<1> HIDE DEF b
<1>3. /\ len \in Nat /\ x \in DOMAIN nodes
      /\ \A i \in DOMAIN nodes : i # 0
      /\ DOMAIN nodes[x].ins = 1 .. len
  BY NodesReadOlder
<1>4. b \in C(0)
  BY <1>2, <1>3 DEF SplitBehind, SplitOf
<1>5. \A n \in 1 .. len : \A z \in C(n - 1) : AddInput(z, nodes[x].ins[n].node, L) \in C(n)
  <2> SUFFICES ASSUME NEW n \in 1 .. len, NEW p \in C(n - 1)
               PROVE  AddInput(p, nodes[x].ins[n].node, L) \in C(n)
    OBVIOUS
  <2>1. PICK k : k = nodes[x].ins[n].node
    OBVIOUS
  <2>2. k \in L => k \in NodesRead(x)
    BY <1>3, <2>1 DEF NodesRead
  <2>3. /\ SplitBehind(p, L, Q) /\ p.roots = b.roots
        /\ Members(b.inner) \subseteq Members(p.inner)
        /\ \A i \in 1 .. n - 1 : nodes[x].ins[i].node \in L =>
             nodes[x].ins[i].node \in Members(p.roots) \cup Members(p.inner)
    OBVIOUS
  <2>4. Q \subseteq L /\ x \in Q
    OBVIOUS
  <2> HIDE DEF Q
  <2>5. PICK q : /\ q = AddInput(p, k, L) /\ SplitBehind(q, L, Q) /\ q.roots = p.roots
                 /\ Members(p.inner) \subseteq Members(q.inner)
                 /\ k \in L => k \in Members(q.roots) \cup Members(q.inner)
    <3>1. LET q == AddInput(p, k, L)
          IN  /\ SplitBehind(q, L, Q) /\ q.roots = p.roots
              /\ Members(p.inner) \subseteq Members(q.inner)
              /\ k \in L => k \in Members(q.roots) \cup Members(q.inner)
      BY <2>2, <2>3, <2>4, InputBehind
    <3>2. QED
      BY <3>1
  <2>6. \A i \in 1 .. n : nodes[x].ins[i].node \in L =>
          nodes[x].ins[i].node \in Members(q.roots) \cup Members(q.inner)
    <3>1. \A i \in 1 .. n : i = n \/ i \in 1 .. n - 1
      BY <1>3
    <3>2. QED
      BY <2>1, <2>3, <2>5, <3>1
  <2>7. q \in Splits
    BY <2>5 DEF SplitBehind, SplitOf
  <2>8. q \in C(n)
    BY <2>3, <2>5, <2>6, <2>7
  <2>9. QED
    BY <2>1, <2>5, <2>8
<1> HIDE DEF C
<1>6. /\ V[0] = C(0) /\ V[len] = C(len)
      /\ \A n \in 1 .. len : V[n - 1] = C(n - 1) /\ V[n] = C(n)
  BY <1>3
<1> HIDE DEF V
<1>7. AddNode(r, x, L) \in C(len)
  BY <1>3, <1>4, <1>5, <1>6, AddNodeKeeps DEF b
<1>8. PICK q : /\ q = AddNode(r, x, L) /\ SplitBehind(q, L, Q) /\ q.roots = b.roots
               /\ Members(b.inner) \subseteq Members(q.inner)
               /\ \A i \in 1 .. len : nodes[x].ins[i].node \in L =>
                    nodes[x].ins[i].node \in Members(q.roots) \cup Members(q.inner)
  BY <1>7 DEF C
<1>9. RootsUnread(q, L)
  BY <1>2, <1>8 DEF RootsUnread
<1>10. ReadBySplit(q, L, Q)
  <2>1. NodesRead(x) \cap L \subseteq Members(q.roots) \cup Members(q.inner)
    BY <1>3, <1>8 DEF NodesRead
  <2>2. \A y \in P : NodesRead(y) \cap L \subseteq Members(q.roots) \cup Members(q.inner)
    BY <1>2, <1>8 DEF ReadBySplit
  <2>3. QED
    BY <2>1, <2>2 DEF ReadBySplit
<1>11. QED
  BY <1>2, <1>8, <1>9, <1>10

\* Nodes that are left, given with readers first, are put with readers last.
LEMMA RestBehind ==
  ASSUME TypedNodes(nodes), OneReader, NEW s \in Seq(DOMAIN nodes), OnceIn(s, Nat),
         Avoids(s, InFrontOfReader)
  PROVE  Avoids(RootsBehindInner(s), InFrontOfRead)
<1> DEFINE len == Len(s)
           L == Members(s)
           P(n) == {s[i] : i \in 1 .. n}
           C(n) == {r \in Splits : /\ SplitBehind(r, L, P(n)) /\ ReadBySplit(r, L, P(n))
                                   /\ RootsUnread(r, L) /\ Members(r.roots) \subseteq P(n)}
           V == [n \in 0 .. len |-> C(n)]
<1>1. /\ len \in Nat /\ DOMAIN s = 1 .. len /\ DOMAIN s \subseteq Int
      /\ \A i \in DOMAIN s : s[i] \in DOMAIN nodes /\ s[i] \in Nat
      /\ L \subseteq DOMAIN nodes /\ L = P(len)
  BY LenProperties, ElementOfSeq, TypedIsFew DEF Members
<1>2. NoNodes \in C(0)
  <2> DEFINE b == NoNodes
  <2>1. b \in Splits /\ b.roots = <<>> /\ b.inner = <<>>
    BY DEF Splits, NoNodes
  <2> HIDE DEF b
  <2>2. Members(b.roots) = {} /\ Members(b.inner) = {} /\ P(0) = {}
    BY <2>1, FewMembers
  <2>3. SplitOf(b, L) /\ InnerRead(b, P(0))
    BY <2>1, <2>2, FewMembers, FewAvoid DEF SplitOf, NoneShared, InnerRead
  <2> HIDE DEF P
  <2>4. b \in C(0)
    BY <2>1, <2>2, <2>3 DEF SplitBehind, ReadBySplit, RootsUnread
  <2>5. QED
    BY <2>4 DEF b
<1>3. \A n \in 1 .. len : \A r \in C(n - 1) : AddNode(r, s[n], L) \in C(n)
  <2> SUFFICES ASSUME NEW n \in 1 .. len, NEW r \in C(n - 1)
               PROVE  AddNode(r, s[n], L) \in C(n)
    OBVIOUS
  <2>1. PICK x \in L : x = s[n]
    BY <1>1 DEF Members
  <2>2. PICK R : R = P(n - 1)
    OBVIOUS
  <2>3. P(n) = R \cup {x} /\ R \subseteq L /\ n \in DOMAIN s
    <3>1. \A i : i \in 1 .. n <=> i = n \/ i \in 1 .. n - 1
      BY <1>1
    <3>2. \A i \in 1 .. n - 1 : i \in DOMAIN s
      BY <1>1
    <3>3. QED
      BY <1>1, <2>1, <2>2, <3>1, <3>2 DEF Members
  <2>4. /\ SplitBehind(r, L, R) /\ ReadBySplit(r, L, R) /\ RootsUnread(r, L)
        /\ Members(r.roots) \subseteq R
    BY <2>2
  <2>5. x \notin R
    <3>1. SUFFICES ASSUME NEW i \in 1 .. n - 1, s[i] = s[n]
                   PROVE  FALSE
      BY <2>1, <2>2
    <3>2. i \in DOMAIN s /\ n \in DOMAIN s /\ i # n
      BY <1>1
    <3>3. QED
      BY <1>1, <3>1, <3>2 DEF OnceIn
  <2>6. \A y \in L \ R : x \notin NodesRead(y)
    <3>1. SUFFICES ASSUME NEW j \in DOMAIN s, s[j] \notin R, x \in NodesRead(s[j])
                   PROVE  FALSE
      BY DEF Members
    <3>2. j \notin 1 .. n - 1
      BY <2>2, <3>1
    <3>3. j # n
      BY <1>1, <2>1, <3>1, NodesReadOlder
    <3>4. n < j
      BY <1>1, <3>2, <3>3
    <3>5. <<s[n], s[j]>> \notin InFrontOfReader
      BY <2>3, <3>4 DEF Avoids
    <3>6. s[n] \in NodesRead(s[j]) /\ s[n] \in DOMAIN nodes /\ s[j] \in DOMAIN nodes
      BY <1>1, <2>1, <2>3, <3>1
    <3>7. QED
      BY <3>5, <3>6 DEF InFrontOfReader
  <2> HIDE DEF P, L
  <2>7. PICK q : /\ q = AddNode(r, x, L)
                 /\ SplitBehind(q, L, R \cup {x}) /\ ReadBySplit(q, L, R \cup {x})
                 /\ RootsUnread(q, L) /\ Members(q.roots) \subseteq Members(r.roots) \cup {x}
    <3>1. LET q == AddNode(r, x, L)
          IN  /\ SplitBehind(q, L, R \cup {x}) /\ ReadBySplit(q, L, R \cup {x})
              /\ RootsUnread(q, L) /\ Members(q.roots) \subseteq Members(r.roots) \cup {x}
      <4>1. x \notin Members(r.roots)
        BY <2>4, <2>5
      <4>2. L \subseteq DOMAIN nodes /\ R \subseteq L
        BY <1>1, <2>3
      <4>3. QED
        BY <2>4, <2>6, <4>1, <4>2, NodeBehind
    <3>2. QED
      BY <3>1
  <2>8. q \in Splits
    BY <2>7 DEF SplitBehind, SplitOf
  <2>9. q \in C(n)
    BY <2>3, <2>4, <2>7, <2>8
  <2>10. QED
    BY <2>1, <2>7, <2>9
<1> HIDE DEF C
<1>4. /\ V[0] = C(0) /\ V[len] = C(len)
      /\ \A n \in 1 .. len : V[n - 1] = C(n - 1) /\ V[n] = C(n)
  BY <1>1
<1> HIDE DEF V
<1>5. RootsAndInner(s) \in C(len)
  <2>1. NoNodes \in V[0] /\ Len(s) \in Nat
    BY <1>1, <1>2, <1>4
  <2>2. \A n \in 1 .. Len(s) : \A r \in V[n - 1] : AddNode(r, s[n], Members(s)) \in V[n]
    BY <1>3, <1>4
  <2>3. RootsAndInner(s) \in V[Len(s)]
    BY <2>1, <2>2, RootsAndInnerKeeps
  <2>4. QED
    BY <1>4, <2>3
<1>6. PICK r : /\ r = RootsAndInner(s) /\ SplitBehind(r, L, L) /\ RootsUnread(r, L)
  BY <1>1, <1>5 DEF C
<1>7. PICK a \in Seq(DOMAIN nodes), b \in Seq(DOMAIN nodes) : a = r.roots /\ b = r.inner
  BY <1>6 DEF SplitBehind, SplitOf, Splits
<1>8. /\ Members(a) \subseteq L /\ Members(b) \subseteq L /\ Avoids(b, TemporaryFirst)
      /\ \A y \in L : \A k \in Members(a) : k \notin NodesRead(y)
  BY <1>6, <1>7 DEF SplitBehind, SplitOf, InnerRead, RootsUnread
<1>9. Avoids(a, TemporaryFirst) /\ Across(Members(a), Members(b), TemporaryFirst)
  <2>1. \A k \in Members(a), y \in L : <<k, y>> \notin TemporaryFirst
    BY <1>8 DEF TemporaryFirst, Read
  <2>2. \A i \in DOMAIN a : a[i] \in Members(a) /\ a[i] \in L
    BY <1>8 DEF Members
  <2>3. QED
    BY <1>8, <2>1, <2>2 DEF Avoids, Across
<1>10. PICK t \in Seq(DOMAIN nodes) : t = a \o b /\ Avoids(t, TemporaryFirst)
  BY <1>8, <1>9, ConcatAvoids, ConcatProperties
<1>11. \A x, y : <<x, y>> \in InFrontOfRead => <<y, x>> \in TemporaryFirst
  <2>1. SUFFICES ASSUME NEW x, NEW y, <<x, y>> \in InFrontOfRead
                 PROVE  <<y, x>> \in TemporaryFirst
    OBVIOUS
  <2>2. x \in DOMAIN nodes /\ y \in DOMAIN nodes /\ y \in Read(x)
    BY <2>1 DEF InFrontOfRead
  <2>3. QED
    BY <2>2 DEF TemporaryFirst
<1>12. RootsBehindInner(s) = Reverse(t)
  BY <1>6, <1>7, <1>10 DEF RootsBehindInner
<1>13. QED
  BY <1>10, <1>11, <1>12, ReverseAvoids

-------------------------------------------------------------------------------
(***************************************************************************)
(* The inductive invariant for the temporaries.  The others are gathered   *)
(* with readers first, turned around at the end of the detection; and what *)
(* is packed stands behind what it reads, where the chains read no deeper  *)
(* than consumeNodes looks.                                                *)
(***************************************************************************)
TempsKept ==
  /\ place = "visit" => Avoids(others, InFrontOfReader)
  /\ place \in PackingPlaces => Avoids(others, InFrontOfRead)
  /\ ChainsReadShallow => ReadsFirst(Emitted)

TemporariesInv == PackInv /\ OneReader /\ TempsKept

\* What is said of the graph and of the chains stays while they do.
LEMMA SameReads ==
  ASSUME nodes' = nodes
  PROVE  /\ InFrontOfReader' = InFrontOfReader /\ InFrontOfRead' = InFrontOfRead
         /\ \A t : ReadsFirst(t)' <=> ReadsFirst(t)
         /\ redux' = redux => (ChainsReadShallow' <=> ChainsReadShallow)
<1>1. \A n : NodesRead(n)' = NodesRead(n)
  BY SameNodes
<1>2. \A n : Read(n)' = Read(n)
  BY <1>1 DEF Read
<1>3. InFrontOfReader' = InFrontOfReader
  BY <1>1 DEF InFrontOfReader
<1>4. InFrontOfRead' = InFrontOfRead
  BY <1>2 DEF InFrontOfRead
<1>5. \A t : ReadsFirst(t)' <=> ReadsFirst(t)
  BY <1>2 DEF ReadsFirst
<1>6. redux' = redux => (ChainsReadShallow' <=> ChainsReadShallow)
  BY <1>1 DEF ChainsReadShallow
<1>7. QED
  BY <1>3, <1>4, <1>5, <1>6

\* Where chains read shallow, what they read reads no temporary.
LEMMA ShallowReads ==
  ASSUME ChainsReadShallow, NEW n \in Members(redux), NEW m \in Read(n)
  PROVE  Read(m) = {}
BY DEF ChainsReadShallow, Read

\* A node that is visited stands in front of the others, and of nothing they read.
LEMMA VisitedReaders ==
  ASSUME PackInv, TempsKept, VisitNode
  PROVE  Avoids(others', InFrontOfReader)
<1> DEFINE n == order[cursor]
           o == <<n>>
<1>1. /\ place = "visit" /\ cursor > 0
      /\ others' = others \/ others' = Append(others, n)
  BY DEF VisitNode
<1>2. /\ others \in Seq(DOMAIN nodes) /\ cursor \in 0 .. Len(order) /\ pc = "done"
      /\ SchedInv /\ TypedNodes(nodes) /\ Avoids(others, InFrontOfReader)
      /\ \A x \in Members(others) : \E i \in DOMAIN order : i > cursor /\ order[i] = x
  BY <1>1 DEF PackInv, PackTypes, DetectionTypes, Visited, SchedInv, TempsKept
<1>3. /\ DOMAIN order = 1 .. Len(order) /\ Len(order) \in Nat
      /\ \A i \in DOMAIN order : order[i] \in DOMAIN nodes
  BY <1>2, OrderOfNodes
<1>4. cursor \in DOMAIN order /\ n \in DOMAIN nodes
  BY <1>1, <1>2, <1>3
<1>5. SortedTo(nodes, order, Len(nodes)) /\ BehindInputs(nodes, order)
  BY <1>2 DEF SchedInv, Sorted, SortedTo
<1>6. \A i \in DOMAIN order : i > cursor => order[i] \notin NodesRead(n)
  BY <1>3, <1>4, <1>5, NodesReadOlder DEF BehindInputs, NodesRead
<1>7. Across(Members(others), {n}, InFrontOfReader)
  BY <1>2, <1>6 DEF Across, InFrontOfReader
<1> HIDE DEF n
<1>8. o \in Seq(DOMAIN nodes) /\ Members(o) = {n} /\ Avoids(o, InFrontOfReader)
  BY <1>4, FewMembers, FewAvoid
<1>9. Append(others, n) = others \o o
  BY <1>2, <1>4
<1>10. Avoids(others \o o, InFrontOfReader)
  BY <1>2, <1>7, <1>8, ConcatAvoids
<1>11. QED
  BY <1>1, <1>2, <1>9, <1>10 DEF n

\* At the end of the detection the others are put with readers last.
LEMMA DividedReaders ==
  ASSUME PackInv, OneReader, TempsKept, EndDetection
  PROVE  Avoids(others', InFrontOfRead)
<1> DEFINE I == {i \in DOMAIN others : others[i] \notin flagged}
<1>1. place = "visit" /\ others' = RootsBehindInner(Kept(others, I))
  BY DEF EndDetection
<1>2. /\ others \in Seq(DOMAIN nodes) /\ TypedNodes(nodes) /\ OnceIn(others, Nat)
      /\ Avoids(others, InFrontOfReader)
  BY <1>1 DEF PackInv, PackTypes, DetectionTypes, Visited, SchedInv, TempsKept
<1> HIDE DEF I
<1>3. PICK s \in Seq(DOMAIN nodes) : s = Kept(others, I) /\ OnceIn(s, Nat)
  BY <1>2, KeptMembers
<1>4. Avoids(s, InFrontOfReader)
  BY <1>2, <1>3, KeptAvoids
<1>5. QED
  BY <1>1, <1>2, <1>3, <1>4, RestBehind

\* What is known of the temporaries in the windows, and stays.
LEMMA TempsInWindows ==
  ASSUME PackInv, TempsKept, place \in PackingPlaces, UNCHANGED <<vars, opts, detection>>
  PROVE  /\ TypedNodes(nodes) /\ GroupTypes /\ Emitted \in Seq(DOMAIN nodes)
         /\ nodes' = nodes /\ redux' = redux
         /\ Avoids(others, InFrontOfRead)'
         /\ place' # "visit"
              /\ (ChainsReadShallow => ReadsFirst(Emitted')) => TempsKept'
<1>1. /\ TypedNodes(nodes) /\ GroupTypes /\ Emitted \in Seq(DOMAIN nodes)
      /\ nodes' = nodes /\ redux' = redux /\ others' = others
  BY InWindows
<1>2. /\ InFrontOfRead' = InFrontOfRead /\ \A t : ReadsFirst(t)' <=> ReadsFirst(t)
      /\ ChainsReadShallow' <=> ChainsReadShallow
  BY <1>1, SameReads
<1>3. Avoids(others, InFrontOfRead)'
  BY <1>1, <1>2 DEF TempsKept
<1>4. ASSUME place' # "visit", ChainsReadShallow => ReadsFirst(Emitted')
      PROVE  TempsKept'
  <2>1. PICK t : t = Emitted'
    OBVIOUS
  <2>2. ReadsFirst(t) <=> ReadsFirst(t)'
    BY <1>2
  <2>3. ReadsFirst(t)' <=> ReadsFirst(Emitted)'
    BY <2>1 DEF ReadsFirst
  <2>4. ChainsReadShallow' => ReadsFirst(Emitted)'
    BY <1>2, <1>4, <2>1, <2>2, <2>3
  <2>5. QED
    BY <1>3, <1>4, <2>4 DEF TempsKept
<1>5. QED
  BY <1>1, <1>3, <1>4

\* Steps that pack nothing.
LEMMA TempsStay ==
  ASSUME PackInv, TempsKept, place \in PackingPlaces, place' # "visit",
         UNCHANGED <<vars, opts, detection, groups>>
  PROVE  TempsKept'
<1>1. Emitted' = Emitted
  BY DEF Emitted
<1>2. QED
  BY <1>1, TempsInWindows DEF TempsKept

\* Groups that pack nodes of the chains with what they read.
LEMMA PackedBehind ==
  ASSUME PackInv, TempsKept, place \in PackingPlaces, place' # "visit",
         UNCHANGED <<vars, opts, detection>>,
         NEW hs, NEW A, PackedAs(hs, A), A \subseteq Members(redux), groups' = groups \o hs
  PROVE  TempsKept'
<1>1. /\ GroupTypes /\ Emitted \in Seq(DOMAIN nodes) /\ nodes' = nodes
  BY TempsInWindows
<1>2. hs \in Seq(Seq(DOMAIN nodes)) /\ AllOneOperation(hs)
  BY DEF PackedAs
<1>3. PICK t \in Seq(DOMAIN nodes) : t = FlattenSeq(hs) /\ Emitted' = Emitted \o t
  BY <1>1, <1>2, GroupsAdded DEF GroupTypes
<1>4. ASSUME ChainsReadShallow
      PROVE  ReadsFirst(Emitted')
  <2>1. \A n \in A : \A m \in Read(n) : Read(m) = {}
    BY <1>4, ShallowReads
  <2>2. ReadsFirst(t)
    BY <1>3, <2>1 DEF PackedAs
  <2>3. \A i \in DOMAIN t : \A m \in Read(t[i]) : \E j \in 1 .. i - 1 : t[j] = m
    BY <2>2 DEF ReadsFirst
  <2>4. ReadsFirst(Emitted)
    BY <1>4 DEF TempsKept
  <2>5. QED
    BY <1>1, <1>3, <2>3, <2>4, ConcatReadsFirst
<1>5. QED
  BY <1>4, TempsInWindows

\* What is at hand or in the lists of a window are nodes of chains, each store once.
LEMMA OfChains ==
  ASSUME NEW w, NEW ls, NEW k, Accounted(w, ls, k)
  PROVE  /\ OnceIn(w, Stores) /\ EachOnce(ls, k, Stores)
         /\ Members(w) \subseteq Members(redux) /\ AllOf(ls, k) \subseteq Members(redux)
BY DEF Accounted, Conserved, Balanced

\* The packing, full or what is left of it, is consumed.
LEMMA PackingBehind ==
  ASSUME PackInv, TempsKept, place = "pack", place' # "visit",
         UNCHANGED <<vars, opts, detection>>, groups' = groups \o Consume(packing)
  PROVE  TempsKept'
<1>1. packing \in Seq(DOMAIN nodes) /\ TypedNodes(nodes) /\ Accounted(packing, lists, 1)
  BY DEF PackInv, PackTypes, WindowTypes, SchedInv, InWindow
<1>2. OnceIn(packing, Stores) /\ Members(packing) \subseteq Members(redux)
  BY <1>1, OfChains
<1>3. PICK hs : hs = Consume(packing) /\ PackedAs(hs, Members(packing))
  BY <1>1, <1>2, ConsumePacks
<1>4. QED
  BY <1>2, <1>3, PackedBehind DEF PackingPlaces

\* A chunk is consumed.
LEMMA ChunkBehind ==
  ASSUME PackInv, TempsKept, ConsumeChunk
  PROVE  TempsKept'
<1> DEFINE n == IF Len(lists[key]) < MaxVectorLength THEN Len(lists[key])
                ELSE MaxVectorLength
           p == SubSeq(lists[key], 1, n)
<1>1. /\ place = "chunks" /\ key <= Len(lists) /\ place' = place
      /\ groups' = groups \o Consume(SortNodes(p)) /\ UNCHANGED <<vars, opts, detection>>
  BY DEF ConsumeChunk, Chunks
<1>2. WindowTypes /\ Accounted(orphans, lists, key) /\ key >= 1 /\ TypedNodes(nodes)
  BY <1>1 DEF PackInv, PackTypes, InWindow, SchedInv
<1>3. /\ lists \in Seq(Seq(DOMAIN nodes)) /\ key \in Nat
      /\ Len(lists) \in Nat /\ DOMAIN lists = 1 .. Len(lists)
  BY <1>2, LenProperties DEF WindowTypes
<1>4. key \in DOMAIN lists
  BY <1>1, <1>2, <1>3
<1>5. lists[key] \in Seq(DOMAIN nodes) /\ Len(lists[key]) \in Nat
  BY <1>3, <1>4, ElementOfSeq, LenProperties
<1>6. n \in 0 .. Len(lists[key])
  BY <1>5, SlotsAssumption
<1>7. OnceIn(lists[key], Stores) /\ Members(lists[key]) \subseteq Members(redux)
  <2>1. EachOnce(lists, key, Stores) /\ AllOf(lists, key) \subseteq Members(redux)
    BY <1>2, OfChains
  <2>2. key >= key
    BY <1>3
  <2>3. QED
    BY <1>4, <2>1, <2>2 DEF EachOnce, AllOf
<1> HIDE DEF n
<1>8. /\ p \in Seq(DOMAIN nodes) /\ OnceIn(p, Stores)
      /\ Members(p) \subseteq Members(lists[key])
  BY <1>5, <1>6, <1>7, CutMembers
<1> HIDE DEF p
<1>9. PICK s \in Seq(DOMAIN nodes) :
        s = SortNodes(p) /\ Members(s) = Members(p) /\ OnceIn(s, Stores)
  BY <1>8, SortedMembers DEF SortNodes
<1>10. PICK hs : hs = Consume(s) /\ PackedAs(hs, Members(p))
  BY <1>2, <1>9, ConsumePacks
<1>11. Members(p) \subseteq Members(redux) /\ groups' = groups \o hs
  BY <1>1, <1>7, <1>8, <1>9, <1>10
<1>12. QED
  BY <1>1, <1>10, <1>11, PackedBehind DEF PackingPlaces

\* The orphans are consumed.
LEMMA OrphansBehind ==
  ASSUME PackInv, TempsKept, ConsumeOrphans
  PROVE  TempsKept'
<1>1. /\ place = "chunks" /\ place' = "window" /\ UNCHANGED <<vars, opts, detection>>
  BY DEF ConsumeOrphans, Orphaned
<1>2. Members(orphans) \subseteq Members(redux)
  BY <1>1, OfChains DEF PackInv, InWindow
<1>3. PICK gs : PackedAs(gs, Members(orphans)) /\ groups' = groups \o gs
  BY OrphansGrouped
<1>4. QED
  BY <1>1, <1>2, <1>3, PackedBehind DEF PackingPlaces

\* A temporary that one of the others reads is packed with the chains, or by another
\* of them in front.
LEMMA OthersRead ==
  ASSUME PackInv, TempsKept, place = "window", full = <<>>,
         NEW i \in DOMAIN others, NEW m \in Read(others[i])
  PROVE  m \in Members(Emitted) \/ \E j \in 1 .. i - 1 : others[j] = m
<1>1. /\ TypedNodes(nodes) /\ others \in Seq(DOMAIN nodes) /\ redux \in Seq(DOMAIN nodes)
      /\ Divided /\ Accounted(<<>>, <<>>, 1) /\ Avoids(others, InFrontOfRead)
  BY DEF PackInv, SchedInv, PackTypes, DetectionTypes, InWindow, TempsKept, PackingPlaces
<1>2. /\ DOMAIN others = 1 .. Len(others) /\ Len(others) \in Nat
      /\ \A j \in DOMAIN others : others[j] \in DOMAIN nodes
  BY <1>1, LenProperties, ElementOfSeq
<1>3. m \in DOMAIN nodes /\ m < others[i] /\ ~nodes[m].store /\ others[i] \in Nat
  BY <1>1, <1>2, NodesReadOlder DEF Read
<1>4. \A n \in Members(redux) : n \in Members(Emitted) /\ Reads[n] \subseteq Members(Emitted)
  <2>1. Members(<<>>) = {} /\ AllOf(<<>>, 1) = {}
    BY FewMembers, NoListsLeft, Len(<<>>) < 1
  <2>2. Balanced(Stores, Reads, Members(redux), Members(Emitted), {}, {}, {})
    BY <1>1, <2>1 DEF Accounted, Conserved
  <2>3. QED
    BY <2>2 DEF Balanced
<1>5. CASE m \in Members(redux)
  BY <1>4, <1>5
<1>6. CASE m \in ReadByChain
  <2>1. PICK n \in Members(redux) : m \in NodesRead(n)
    BY <1>6 DEF ReadByChain
  <2>2. n \in DOMAIN nodes
    BY <1>1, LenProperties, ElementOfSeq DEF Members
  <2>3. m \in Reads[n]
    BY <1>3, <2>1, <2>2 DEF Reads, Read
  <2>4. QED
    BY <1>4, <2>3
<1>7. CASE m \in Members(others)
  <2>1. PICK j \in DOMAIN others : others[j] = m
    BY <1>7 DEF Members
  <2>2. j # i
    BY <1>3, <2>1
  <2>3. ~(i < j)
    <3>1. <<others[i], m>> \in InFrontOfRead
      BY <1>2, <1>3 DEF InFrontOfRead
    <3>2. QED
      BY <1>1, <2>1, <3>1 DEF Avoids
  <2>4. j \in 1 .. i - 1
    BY <1>2, <2>2, <2>3
  <2>5. QED
    BY <2>1, <2>4
<1>8. QED
  BY <1>1, <1>3, <1>5, <1>6, <1>7 DEF Divided

\* The others are consumed, behind the chains.
LEMMA OthersReadBehind ==
  ASSUME PackInv, TempsKept, ConsumeOthers
  PROVE  TempsKept'
<1>1. /\ place = "window" /\ full = <<>> /\ place' = "packed"
      /\ groups' = groups \o Greedy(others) /\ UNCHANGED <<vars, opts, detection>>
  BY DEF ConsumeOthers
<1>2. /\ TypedNodes(nodes) /\ GroupTypes /\ Emitted \in Seq(DOMAIN nodes) /\ nodes' = nodes
      /\ others \in Seq(DOMAIN nodes)
  BY <1>1, TempsInWindows DEF PackingPlaces, PackInv, PackTypes, DetectionTypes
<1>3. PICK hs : /\ hs = Greedy(others) /\ hs \in Seq(Seq(DOMAIN nodes))
                /\ AllOneOperation(hs) /\ FlattenSeq(hs) = others
  BY <1>2, GreedyGroups
<1>4. Emitted' = Emitted \o others
  BY <1>1, <1>2, <1>3, GroupsAdded DEF GroupTypes
<1>5. ASSUME ChainsReadShallow
      PROVE  ReadsFirst(Emitted')
  <2>1. ReadsFirst(Emitted)
    BY <1>5 DEF TempsKept
  <2>2. \A i \in DOMAIN others : \A m \in Read(others[i]) :
          m \in Members(Emitted) \/ \E j \in 1 .. i - 1 : others[j] = m
    BY <1>1, OthersRead
  <2>3. QED
    BY <1>2, <1>4, <2>1, <2>2, ConcatReadsFirst
<1>6. QED
  BY <1>1, <1>5, TempsInWindows DEF PackingPlaces

\* Before the windows nothing is packed.
LEMMA NothingReadYet ==
  ASSUME PackInv', place' \in {"detect", "visit"} \/ groups' = <<>>
  PROVE  ReadsFirst(Emitted)'
<1>1. PICK e : e = Emitted'
  OBVIOUS
<1>2. e = <<>>
  <2>1. CASE groups' = <<>>
    BY <1>1, <2>1, FlatFew DEF Emitted
  <2>2. CASE place' \in {"detect", "visit"}
    <3>1. groups' = <<>>
      BY <2>2 DEF PackInv, NothingPacked, Visited
    <3>2. QED
      BY <1>1, <3>1, FlatFew DEF Emitted
  <2>3. QED
    BY <2>1, <2>2
<1>3. Emitted' = <<>>
  BY <1>1, <1>2
<1>4. QED
  BY <1>3 DEF ReadsFirst

\* No node is read, and nothing packed, at first.
LEMMA InitTemporaries ==
  ASSUME PackInit
  PROVE  TemporariesInv
<1>1. nodes = <<>> /\ place = "detect" /\ groups = <<>>
  BY DEF PackInit, Init, packInit
<1>2. OneReader
  BY <1>1 DEF OneReader
<1>3. Emitted = <<>>
  BY <1>1, FlatFew DEF Emitted
<1>4. TempsKept
  BY <1>1, <1>3 DEF TempsKept, PackingPlaces, ReadsFirst
<1>5. QED
  BY <1>2, <1>4, InitPack DEF TemporariesInv

\* The steps of the packing keep the temporaries first.
LEMMA PackingKeepsTemps ==
  ASSUME PackInv, OneReader, TempsKept, PackingStep
  PROVE  TempsKept'
<1>1. PackInv' /\ UNCHANGED vars /\ SchedInv
  BY PackingKeepsInv
     DEF PackInv, PackingStep, BeginDetection, VisitNode, EndDetection, TakeWindow, TakePiece,
         NextList, HalveSize, ConsumeLeftover, ConsumeChunk, InsertOrphans, ConsumeOrphans,
         SearchNoElement, ConsumeOthers
<1>2. nodes' = nodes
  BY <1>1, GraphStays
<1>3. InFrontOfReader' = InFrontOfReader /\ InFrontOfRead' = InFrontOfRead
  BY <1>2, SameReads
<1>4. CASE BeginDetection
  <2>1. place = "detect" /\ place' = "visit" /\ others' = others
    BY <1>4 DEF BeginDetection
  <2>2. others = <<>>
    BY <2>1 DEF PackInv, NothingPacked
  <2>3. Avoids(others, InFrontOfReader)'
    BY <2>1, <2>2, FewAvoid
  <2>4. QED
    BY <1>1, <2>1, <2>3, NothingReadYet DEF TempsKept, PackingPlaces
<1>5. CASE VisitNode
  <2>1. place' = "visit"
    BY <1>5 DEF VisitNode
  <2>2. Avoids(others, InFrontOfReader)'
    BY <1>3, <1>5, VisitedReaders
  <2>3. QED
    BY <1>1, <2>1, <2>2, NothingReadYet DEF TempsKept, PackingPlaces
<1>6. CASE EndDetection
  <2>1. place = "visit" /\ place' = "window" /\ groups' = groups
    BY <1>6 DEF EndDetection
  <2>2. groups' = <<>>
    BY <2>1 DEF PackInv, Visited
  <2>3. Avoids(others, InFrontOfRead)'
    BY <1>3, <1>6, DividedReaders
  <2>4. QED
    BY <1>1, <2>1, <2>2, <2>3, NothingReadYet DEF TempsKept
<1>7. CASE TakeWindow \/ TakePiece \/ HalveSize \/ InsertOrphans \/ SearchNoElement
  <2>1. /\ place \in PackingPlaces /\ place' # "visit"
        /\ UNCHANGED <<vars, opts, detection, groups>>
    BY <1>7 DEF TakeWindow, TakePiece, HalveSize, InsertOrphans, SearchNoElement, Packs,
                Chunks, Orphaned, PackingPlaces
  <2>2. QED
    BY <2>1, TempsStay
<1>8. CASE NextList
  <2>1. /\ place = "pack" /\ place' # "visit" /\ UNCHANGED <<vars, opts, detection>>
        /\ groups' = groups \o Consume(packing) \/ groups' = groups
    BY <1>8 DEF NextList, Packs
  <2>2. CASE groups' = groups
    BY <2>1, <2>2, TempsStay DEF PackingPlaces
  <2>3. QED
    BY <2>1, <2>2, PackingBehind
<1>9. CASE ConsumeLeftover
  <2>1. /\ place = "pack" /\ place' # "visit" /\ UNCHANGED <<vars, opts, detection>>
        /\ groups' = groups \o Consume(packing)
    BY <1>9 DEF ConsumeLeftover
  <2>2. QED
    BY <2>1, PackingBehind
<1>10. CASE ConsumeChunk \/ ConsumeOrphans \/ ConsumeOthers
  BY <1>10, ChunkBehind, OrphansBehind, OthersReadBehind
<1>11. QED
  BY <1>4, <1>5, <1>6, <1>7, <1>8, <1>9, <1>10 DEF PackingStep

\* Each step keeps the temporaries first.
LEMMA NextTemporaries ==
  ASSUME AllWellFormed, AllUnrolledInOrder, AllValuesReadOnce, TemporariesInv,
         [PackNext]_<<vars, packVars>>
  PROVE  TemporariesInv'
<1>1. PackInv /\ OneReader /\ TempsKept /\ SchedInv
  BY DEF TemporariesInv, PackInv
<1>2. PackInv'
  BY <1>1, NextPack
<1>3. [Next]_vars
  <2>1. PackingStep => UNCHANGED vars
    BY DEF PackingStep, BeginDetection, VisitNode, EndDetection, TakeWindow, TakePiece,
           NextList, HalveSize, ConsumeLeftover, ConsumeChunk, InsertOrphans,
           ConsumeOrphans, SearchNoElement, ConsumeOthers
  <2>2. QED
    BY <2>1 DEF PackNext, CompilerStep, Stopped, Next
<1>4. OneReader'
  BY <1>1, <1>3, NextReaders
<1>5. CASE Step /\ UNCHANGED packVars
  <2>1. pc = "insert"
    BY <1>5 DEF Step, FoldAssignment, InsertNode, NameOfBrokenLeaf, SortGraph, Inserting
  <2>2. place' = "detect"
    BY <1>1, <1>5, <2>1 DEF PackInv, packVars
  <2>3. TempsKept'
    BY <1>2, <2>2, NothingReadYet DEF TempsKept, PackingPlaces
  <2>4. QED
    BY <1>2, <1>4, <2>3 DEF TemporariesInv
<1>6. CASE PackingStep
  BY <1>1, <1>2, <1>4, <1>6, PackingKeepsTemps DEF TemporariesInv
<1>7. CASE UNCHANGED <<vars, packVars>>
  <2>1. nodes' = nodes
    BY <1>1, <1>7, GraphStays
  <2>2. place' = place /\ others' = others /\ redux' = redux /\ Emitted' = Emitted
    BY <1>7 DEF packVars, detection, Emitted
  <2>3. /\ InFrontOfReader' = InFrontOfReader /\ InFrontOfRead' = InFrontOfRead
        /\ \A t : ReadsFirst(t)' <=> ReadsFirst(t)
        /\ ChainsReadShallow' <=> ChainsReadShallow
    BY <2>1, <2>2, SameReads
  <2>4. ReadsFirst(Emitted)' <=> ReadsFirst(Emitted)
    <3>1. PICK t : t = Emitted
      OBVIOUS
    <3>2. (ReadsFirst(t)' <=> ReadsFirst(t)) /\ Emitted' = t
      BY <2>2, <2>3, <3>1
    <3>3. ReadsFirst(Emitted)' <=> ReadsFirst(t)'
      BY <3>2 DEF ReadsFirst
    <3>4. QED
      BY <3>1, <3>2, <3>3
  <2>5. TempsKept'
    BY <1>1, <2>2, <2>3, <2>4 DEF TempsKept
  <2>6. QED
    BY <1>2, <1>4, <2>5 DEF TemporariesInv
<1>8. QED
  BY <1>5, <1>6, <1>7 DEF PackNext, CompilerStep, Stopped

\* When a node is packed, the operations that compute its temporaries have been packed
\* before it, whether they were taken for a chain, for what a chain reads or for
\* neither, as long as chains read no deeper than consumeNodes looks.
THEOREM TemporariesPackedFirst ==
  ASSUME AllWellFormed, AllUnrolledInOrder, AllValuesReadOnce
  PROVE  PackSpec => []TemporariesFirst
<1>1. PackInit => TemporariesInv
  BY InitTemporaries
<1>2. TemporariesInv /\ [PackNext]_<<vars, packVars>> => TemporariesInv'
  BY NextTemporaries
<1>3. TemporariesInv => TemporariesFirst
  BY DEF TemporariesInv, TempsKept, TemporariesFirst, ReadsFirst, Read
<1>4. QED
  BY <1>1, <1>2, <1>3, PTL DEF PackSpec
===============================================================================
