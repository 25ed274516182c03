------------------------------ MODULE CDAGProofs ------------------------------
(***************************************************************************)
(* For every set of well-formed lists of TACs, of any length: the graph    *)
(* implements the code.  Inserting a TAC changes the value the graph gives *)
(* a location as executing the TAC would.                                  *)
(*                                                                         *)
(* The reason the folding of assignments is right is that the node it      *)
(* renames is always the last one: LastComputed.  A node with an older one *)
(* of the new name behind it would be shadowed.                            *)
(***************************************************************************)
EXTENDS CDAG, SequenceTheorems, ListProofs, TLAPS

AllWellFormed == \A tl \in Codes : WellFormed(tl)

(***************************************************************************)
(* The inductive invariant.  Schedules and depths are of no concern.       *)
(***************************************************************************)
IsNode(r) == {"out", "id", "fs", "store", "val"} \subseteq DOMAIN r

ListOfNodes(N) == (\E S : N \in Seq(S)) /\ \A n \in DOMAIN N : IsNode(N[n])

Types ==
  /\ code \in Codes
  /\ at \in 1 .. Len(code) + 1
  /\ ListOfNodes(nodes)

OutsAssigned ==
  \A n \in DOMAIN nodes : \E q \in 1 .. at - 1 : nodes[n].out = code[q].a

TempsUnique ==
  \A m, n \in DOMAIN nodes :
    nodes[m].out = nodes[n].out /\ nodes[n].out \in Temps => m = n

LastComputed ==
  at > 1 /\ ~IsAssignment(code[at - 1]) =>
    Len(nodes) > 0 /\ nodes[Len(nodes)].out = code[at - 1].a

IInv == Types /\ OutsAssigned /\ TempsUnique /\ LastComputed

-------------------------------------------------------------------------------
\* A list of nodes is indexed from one to its length.
LEMMA NodeIndices ==
  ASSUME NEW N, ListOfNodes(N)
  PROVE  Len(N) \in Nat /\ DOMAIN N = 1 .. Len(N)
BY DEF ListOfNodes

\* findOutputNode finds the one last node with the name.
LEMMA LastOutput ==
  ASSUME NEW N, ListOfNodes(N), NEW x, NEW n, IsOutputNode(N, n, x)
  PROVE  /\ HasOutputNode(N, x)
         /\ FindOutputNode(N, x) = n
         /\ Computed(N, x) = N[n].val
<1>1. n \in DOMAIN N
  BY DEF IsOutputNode
<1>2. HasOutputNode(N, x)
  BY <1>1 DEF HasOutputNode
<1>3. \A m \in DOMAIN N : IsOutputNode(N, m, x) => m = n
  BY <1>1, NodeIndices DEF IsOutputNode
<1>4. FindOutputNode(N, x) = n
  BY <1>1, <1>3 DEF FindOutputNode
<1>5. QED
  BY <1>2, <1>4 DEF Computed

\* A list whose nodes have the name x where those of N have, and the values of
\* the nodes of N, gives x the value N gives it.
LEMMA SameOutputs ==
  ASSUME NEW N, ListOfNodes(N), NEW M, ListOfNodes(M), NEW x,
         DOMAIN M = DOMAIN N,
         \A n \in DOMAIN N : (M[n].out = x <=> N[n].out = x) /\ M[n].val = N[n].val
  PROVE  Computed(M, x) = Computed(N, x)
<1>1. \A n : IsOutputNode(M, n, x) <=> IsOutputNode(N, n, x)
  BY DEF IsOutputNode
<1>2. CASE HasOutputNode(N, x)
  <2>1. PICK n \in DOMAIN N : IsOutputNode(N, n, x)
    BY <1>2 DEF HasOutputNode
  <2>2. QED
    BY <1>1, <2>1, LastOutput
<1>3. CASE ~HasOutputNode(N, x)
  BY <1>1, <1>3 DEF HasOutputNode, Computed
<1>4. QED
  BY <1>2, <1>3

\* A node at the end of the list gives its output its own value, and no other
\* location another one.
LEMMA AppendedNode ==
  ASSUME NEW N, ListOfNodes(N), NEW e, IsNode(e)
  PROVE  /\ ListOfNodes(Append(N, e))
         /\ Len(Append(N, e)) = Len(N) + 1
         /\ \A n \in DOMAIN N : Append(N, e)[n] = N[n]
         /\ Append(N, e)[Len(N) + 1] = e
         /\ \A x : Computed(Append(N, e), x) =
                     IF x = e.out THEN e.val ELSE Computed(N, x)
<1> DEFINE M == Append(N, e)
<1>1. Len(N) \in Nat /\ DOMAIN N = 1 .. Len(N)
  BY NodeIndices
<1>2. PICK S : N \in Seq(S)
  BY DEF ListOfNodes
<1>3. N \in Seq(S \cup {e})
  BY <1>2
<1>4. /\ M \in Seq(S \cup {e})
      /\ Len(M) = Len(N) + 1
      /\ \A n \in 1 .. Len(N) : M[n] = N[n]
      /\ M[Len(N) + 1] = e
  BY <1>3, AppendProperties
<1>5. DOMAIN M = 1 .. Len(N) + 1
  BY <1>4
<1> HIDE DEF M
<1>6. ListOfNodes(M)
  <2>1. \A n \in DOMAIN M : IsNode(M[n])
    BY <1>1, <1>4, <1>5 DEF ListOfNodes
  <2>2. QED
    BY <1>4, <2>1 DEF ListOfNodes
<1>7. ASSUME NEW x
      PROVE  Computed(M, x) = IF x = e.out THEN e.val ELSE Computed(N, x)
  <2>1. CASE x = e.out
    <3>1. IsOutputNode(M, Len(N) + 1, x)
      BY <1>1, <1>4, <1>5, <2>1 DEF IsOutputNode
    <3>2. QED
      BY <1>4, <1>6, <2>1, <3>1, LastOutput
  <2>2. CASE x # e.out
    <3>1. \A n : IsOutputNode(M, n, x) <=> IsOutputNode(N, n, x)
      BY <1>1, <1>4, <1>5, <2>2 DEF IsOutputNode
    <3>2. CASE HasOutputNode(N, x)
      <4>1. PICK n \in DOMAIN N : IsOutputNode(N, n, x)
        BY <3>2 DEF HasOutputNode
      <4>2. QED
        BY <1>1, <1>4, <1>6, <2>2, <3>1, <4>1, LastOutput
    <3>3. CASE ~HasOutputNode(N, x)
      BY <2>2, <3>1, <3>3 DEF HasOutputNode, Computed, IsOutputNode
    <3>4. QED
      BY <3>2, <3>3
  <2>3. QED
    BY <2>1, <2>2
<1>8. QED
  BY <1>1, <1>4, <1>6, <1>7 DEF M

\* A list stays a list when one of its nodes is changed.
LEMMA ChangedNode ==
  ASSUME NEW N, ListOfNodes(N), NEW n \in DOMAIN N, NEW r, IsNode(r)
  PROVE  /\ ListOfNodes([N EXCEPT ![n] = r])
         /\ DOMAIN [N EXCEPT ![n] = r] = DOMAIN N
         /\ Len([N EXCEPT ![n] = r]) = Len(N)
<1> DEFINE M == [N EXCEPT ![n] = r]
<1>1. PICK S : N \in Seq(S)
  BY DEF ListOfNodes
<1>2. N \in Seq(S \cup {r})
  BY <1>1
<1>3. M \in Seq(S \cup {r}) /\ Len(M) = Len(N)
  BY <1>2
<1>4. DOMAIN M = DOMAIN N
  OBVIOUS
<1>5. \A m \in DOMAIN N : IsNode(M[m])
  BY DEF ListOfNodes
<1>6. QED
  BY <1>3, <1>4, <1>5 DEF ListOfNodes
\* An assignment renames its node, and marks another as a store, but leaves
\* their values alone.
LEMMA AssignedNode ==
  ASSUME NEW n, IsNode(nodes[n]), NEW t
  PROVE  /\ IsNode(Assigned(n, t))
         /\ Assigned(n, t).out = t.a
         /\ Assigned(n, t).val = nodes[n].val
<1> DEFINE o == nodes[n]
           r == [o EXCEPT !.out = t.a, !.store = TRUE, !.id = t.id]
           f == WARSchedule([nodes EXCEPT ![n] = r], n, t.a, t.id)
<1>1. Assigned(n, t) = [r EXCEPT !.fs = f]
  BY DEF Assigned
<1>2. IsNode(r) /\ r.out = t.a /\ r.val = o.val
  <2> HIDE DEF o
  <2>1. IsNode(o)
    BY DEF o
  <2>2. QED
    BY <2>1 DEF IsNode
<1> HIDE DEF r, f
<1>3. LET s == [r EXCEPT !.fs = f]
      IN  IsNode(s) /\ s.out = r.out /\ s.val = r.val
  BY <1>2 DEF IsNode
<1>4. QED
  BY <1>1, <1>2, <1>3

\* Marking a node as one that stores changes nothing the values depend on.
LEMMA MarkedNode ==
  ASSUME NEW n, IsNode(nodes[n])
  PROVE  /\ IsNode(Marked(n))
         /\ Marked(n).out = nodes[n].out
         /\ Marked(n).val = nodes[n].val
BY DEF Marked, IsNode

-------------------------------------------------------------------------------
\* The empty graph before the first TAC satisfies the invariant.
LEMMA InitInv ==
  ASSUME Init
  PROVE  IInv
<1>1. code \in Codes /\ at = 1 /\ nodes = <<>>
  BY DEF Init
<1>2. Len(code) \in Nat
  BY <1>1, CodesAssumption
<1>3. nodes \in Seq({}) /\ DOMAIN nodes = {} /\ Len(nodes) = 0
  BY <1>1
<1>4. Types
  BY <1>1, <1>2, <1>3 DEF Types, ListOfNodes
<1>5. OutsAssigned /\ TempsUnique /\ LastComputed
  BY <1>1, <1>3 DEF OutsAssigned, TempsUnique, LastComputed
<1>6. QED
  BY <1>4, <1>5 DEF IInv

\* What a list of TACs has at a place it is inserted at.
LEMMA TacAtHand ==
  ASSUME IInv, Inserting
  PROVE  /\ at \in 1 .. Len(code) /\ at \in DOMAIN code
         /\ Len(code) \in Nat /\ DOMAIN code = 1 .. Len(code)
         /\ \A q \in DOMAIN code : code[q] \in Tacs
         /\ Tac \in Tacs
<1>1. code \in Seq(Tacs)
  BY CodesAssumption DEF IInv, Types
<1>2. at \in 1 .. Len(code) /\ Len(code) \in Nat /\ DOMAIN code = 1 .. Len(code)
  BY <1>1 DEF IInv, Types, Inserting
<1>3. QED
  BY <1>1, <1>2 DEF Tac

\* An assignment whose right-hand side has a node is the assignment of the
\* temporary computed just before: the node is the last one, and the only one
\* with the temporary's name.
LEMMA FoldsLast ==
  ASSUME AllWellFormed, IInv, Inserting, Folds
  PROVE  /\ Len(nodes) \in DOMAIN nodes
         /\ FindOutputNode(nodes, Tac.c) = Len(nodes)
         /\ Tac.c \in Temps /\ Tac.a \notin Temps
         /\ \A m \in DOMAIN nodes : nodes[m].out = Tac.c <=> m = Len(nodes)
<1>1. IsAssignment(Tac) /\ HasOutputNode(nodes, Tac.c)
  BY DEF Folds
<1>2. PICK n \in DOMAIN nodes : IsOutputNode(nodes, n, Tac.c)
  BY <1>1 DEF HasOutputNode
<1>3. nodes[n].out = Tac.c
  BY <1>2 DEF IsOutputNode
<1>4. PICK q \in 1 .. at - 1 : nodes[n].out = code[q].a
  BY DEF IInv, OutsAssigned
<1>5. WellFormed(code) /\ ListOfNodes(nodes)
  BY DEF AllWellFormed, IInv, Types
<1>6. Tac.c \in Temps
  BY <1>1, <1>3, <1>4, <1>5, TacAtHand DEF WellFormed, Tac
<1>7. at > 1 /\ code[at - 1].a = Tac.c
  BY <1>1, <1>5, <1>6, TacAtHand DEF WellFormed, Tac
<1>8. at - 1 \in DOMAIN code
  BY <1>7, TacAtHand
<1>9. ~IsAssignment(code[at - 1])
  BY <1>5, <1>6, <1>7, <1>8 DEF WellFormed
<1>10. Len(nodes) > 0 /\ nodes[Len(nodes)].out = Tac.c
  BY <1>7, <1>9 DEF IInv, LastComputed
<1>11. Len(nodes) \in DOMAIN nodes
  BY <1>5, <1>10, NodeIndices
<1>12. \A m \in DOMAIN nodes : nodes[m].out = Tac.c <=> m = Len(nodes)
  BY <1>6, <1>10, <1>11 DEF IInv, TempsUnique
<1>13. FindOutputNode(nodes, Tac.c) = Len(nodes)
  BY <1>2, <1>3, <1>5, <1>12, LastOutput
<1>14. Tac.a \notin Temps
  BY <1>1, <1>5, TacAtHand DEF WellFormed, Tac
<1>15. QED
  BY <1>6, <1>11, <1>12, <1>13, <1>14

\* Folding renames the last node, whatever becomes of its schedule.
LEMMA FoldedNodes ==
  ASSUME AllWellFormed, IInv, FoldAssignment
  PROVE  /\ ListOfNodes(nodes') /\ DOMAIN nodes' = DOMAIN nodes
         /\ Len(nodes') = Len(nodes)
         /\ nodes'[Len(nodes)].out = Tac.a
         /\ \A m \in DOMAIN nodes :
              /\ nodes'[m].val = nodes[m].val
              /\ m # Len(nodes) => nodes'[m].out = nodes[m].out
<1> DEFINE n == Len(nodes)
           o == nodes[n]
           r == Assigned(n, Tac)
<1>1. Inserting /\ Folds
  BY DEF FoldAssignment
<1>2. n \in DOMAIN nodes /\ FindOutputNode(nodes, Tac.c) = n
  BY <1>1, FoldsLast
<1>3. ListOfNodes(nodes) /\ IsNode(o)
  BY <1>2 DEF IInv, Types, ListOfNodes
<1>4. nodes' = [nodes EXCEPT ![n] = r]
  BY <1>2 DEF FoldAssignment
<1>5. IsNode(r) /\ r.out = Tac.a /\ r.val = o.val
  BY <1>3, AssignedNode
<1> HIDE DEF r
<1>6. ListOfNodes(nodes') /\ DOMAIN nodes' = DOMAIN nodes /\ Len(nodes') = n
  BY <1>2, <1>3, <1>4, <1>5, ChangedNode
<1>7. nodes'[n] = r /\ \A m \in DOMAIN nodes : m # n => nodes'[m] = nodes[m]
  BY <1>2, <1>4
<1>8. QED
  BY <1>5, <1>6, <1>7

\* Marking an operand as a store changes neither names nor values.
LEMMA MarkedNodes ==
  ASSUME IInv, Inserting, NEW K, K = MarkStored(Tac, NewInputs(Tac))
  PROVE  /\ ListOfNodes(K) /\ DOMAIN K = DOMAIN nodes /\ Len(K) = Len(nodes)
         /\ \A m \in DOMAIN nodes :
              K[m].val = nodes[m].val /\ K[m].out = nodes[m].out
<1>1. ListOfNodes(nodes)
  BY DEF IInv, Types
<1>2. CASE K = nodes
  BY <1>1, <1>2
<1>3. CASE K # nodes
  <2> DEFINE ins == NewInputs(Tac)
             n == ins[1].node
             o == nodes[n]
             r == Marked(n)
  <2>1. /\ IsAssignment(Tac) /\ ~IsLeaf(ins[1])
        /\ K = [nodes EXCEPT ![n] = r]
    BY <1>3 DEF MarkStored
  <2>2. ins[1] = StoredOperand(Tac)
    BY <2>1 DEF NewInputs, Operands
  <2>3. n = FindOutputNode(nodes, Tac.b) /\ HasOutputNode(nodes, Tac.b)
    BY <2>1, <2>2 DEF StoredOperand, NodeInput, BrokenLeaf, IsLeaf
  <2>4. n \in DOMAIN nodes
    <3>1. PICK m \in DOMAIN nodes : IsOutputNode(nodes, m, Tac.b)
      BY <2>3 DEF HasOutputNode
    <3>2. QED
      BY <1>1, <2>3, <3>1, LastOutput
  <2>5. IsNode(o)
    BY <1>1, <2>4 DEF ListOfNodes
  <2>6. IsNode(r) /\ r.out = o.out /\ r.val = o.val
    BY <2>5, MarkedNode
  <2> HIDE DEF n, r
  <2>7. ListOfNodes(K) /\ DOMAIN K = DOMAIN nodes /\ Len(K) = Len(nodes)
    <3>1. IsNode(r)
      BY <2>6
    <3>2. LET M == [nodes EXCEPT ![n] = r]
          IN  ListOfNodes(M) /\ DOMAIN M = DOMAIN nodes /\ Len(M) = Len(nodes)
      BY <1>1, <2>4, <3>1, ChangedNode
    <3>3. QED
      BY <2>1, <3>2
  <2>8. K[n] = r /\ \A m \in DOMAIN nodes : m # n => K[m] = nodes[m]
    BY <2>1, <2>4
  <2>9. QED
    BY <2>6, <2>7, <2>8
<1>4. QED
  BY <1>2, <1>3

\* The value an operand of the new node stands for is the one its name has.
LEMMA ConnectedValue ==
  ASSUME IInv, NEW x, NEW id
  PROVE  InputValue(Connect(x, id)) = Computed(nodes, x)
<1>1. ListOfNodes(nodes)
  BY DEF IInv, Types
<1>2. CASE HasOutputNode(nodes, x)
  <2>1. PICK n \in DOMAIN nodes : IsOutputNode(nodes, n, x)
    BY <1>2 DEF HasOutputNode
  <2>2. FindOutputNode(nodes, x) = n
    BY <1>1, <2>1, LastOutput
  <2>3. n # 0
    BY <1>1, NodeIndices
  <2>4. QED
    BY <1>2, <2>2, <2>3 DEF Connect, NodeInput, InputValue, IsLeaf, Computed
<1>3. CASE ~HasOutputNode(nodes, x)
  BY <1>3 DEF Connect, LeafInput, InputValue, IsLeaf, Computed
<1>4. QED
  BY <1>2, <1>3

\* What is not folded is no assignment of a temporary, and an assignment takes
\* its value from what no node computes.
LEMMA InsertedTac ==
  ASSUME AllWellFormed, IInv, Inserting, ~Folds, IsAssignment(Tac)
  PROVE  /\ Tac.c \in Names \ Temps /\ Tac.c # None
         /\ ~HasOutputNode(nodes, Tac.c)
<1>1. WellFormed(code) /\ ListOfNodes(nodes)
  BY DEF AllWellFormed, IInv, Types
<1>2. ~HasOutputNode(nodes, Tac.c)
  BY DEF Folds
<1>3. Tac.c # None /\ Tac.c \in Names
  BY <1>1, TacAtHand DEF WellFormed, Tac, Tacs
<1>4. ASSUME Tac.c \in Temps
      PROVE  FALSE
  <2>1. at > 1 /\ code[at - 1].a = Tac.c /\ at - 1 \in DOMAIN code
    BY <1>1, <1>4, TacAtHand DEF WellFormed, Tac
  <2>2. ~IsAssignment(code[at - 1])
    BY <1>1, <1>4, <2>1 DEF WellFormed
  <2>3. Len(nodes) > 0 /\ nodes[Len(nodes)].out = Tac.c
    BY <2>1, <2>2 DEF IInv, LastComputed
  <2>4. Len(nodes) \in DOMAIN nodes /\ IsOutputNode(nodes, Len(nodes), Tac.c)
    BY <1>1, <2>3, NodeIndices DEF IsOutputNode
  <2>5. QED
    BY <1>2, <2>4 DEF HasOutputNode
<1>5. QED
  BY <1>2, <1>3, <1>4

\* The new node stands for what the TAC computes.
LEMMA InsertedValue ==
  ASSUME AllWellFormed, IInv, Inserting, ~Folds
  PROVE  LET e == NewNode(Tac, NewInputs(Tac))
         IN  IsNode(e) /\ e.out = Tac.a /\ e.val = Result(Tac, Env)
<1> DEFINE ins == NewInputs(Tac)
           e   == NewNode(Tac, ins)
<1>1. IsNode(e) /\ e.out = Tac.a /\ e.val = NewValue(Tac, ins)
  BY DEF NewNode, IsNode
<1>2. Tac.b \in Names /\ Tac.c \in Names \cup {None}
  BY TacAtHand DEF Tacs
<1>3. NewValue(Tac, ins) = Result(Tac, Env)
  <2>1. CASE IsAssignment(Tac)
    <3>1. Tac.c \in Names /\ Tac.c # None
      BY <2>1, InsertedTac
    <3>2. Operands(Tac) = <<Tac.b, Tac.c>>
      BY <3>1 DEF Operands
    <3>3. ins[2] = Connect(Tac.c, Tac.id)
      BY <3>2 DEF NewInputs
    <3>4. InputValue(ins[2]) = Computed(nodes, Tac.c)
      BY <3>3, ConnectedValue
    <3>5. QED
      BY <2>1, <3>1, <3>4 DEF NewValue, Result, Env
  <2>2. CASE ~IsAssignment(Tac)
    <3>1. \A i \in DOMAIN Operands(Tac) : Operands(Tac)[i] \in Names
      BY <1>2 DEF Operands
    <3>2. /\ DOMAIN ins = DOMAIN Operands(Tac)
          /\ \A i \in DOMAIN Operands(Tac) : ins[i] = Connect(Operands(Tac)[i], Tac.id)
      BY <2>2 DEF NewInputs
    <3>3. \A i \in DOMAIN Operands(Tac) : InputValue(ins[i]) = Env[Operands(Tac)[i]]
      BY <3>1, <3>2, ConnectedValue DEF Env
    <3> HIDE DEF ins
    <3>4. [i \in DOMAIN ins |-> InputValue(ins[i])] =
            [i \in DOMAIN Operands(Tac) |-> Env[Operands(Tac)[i]]]
      BY <3>2, <3>3
    <3>5. QED
      BY <2>2, <3>4 DEF NewValue, Result
  <2>3. QED
    BY <2>1, <2>2
<1>4. QED
  BY <1>1, <1>3

\* Sorting changes schedules only.
LEMMA SortedNodes ==
  ASSUME IInv, SortGraph
  PROVE  /\ ListOfNodes(nodes') /\ DOMAIN nodes' = DOMAIN nodes
         /\ Len(nodes') = Len(nodes)
         /\ \A m \in DOMAIN nodes :
              nodes'[m].val = nodes[m].val /\ nodes'[m].out = nodes[m].out
<1>1. nodes' = [n \in DOMAIN nodes |-> [nodes[n] EXCEPT !.fs = Depths[n]]]
  BY DEF SortGraph, ComputeFreeSchedule
<1>2. ListOfNodes(nodes)
  BY DEF IInv, Types
<1>3. ASSUME NEW m \in DOMAIN nodes
      PROVE  /\ IsNode(nodes'[m])
             /\ nodes'[m].val = nodes[m].val /\ nodes'[m].out = nodes[m].out
  <2> DEFINE o == nodes[m]
             f == Depths[m]
  <2>1. nodes'[m] = [o EXCEPT !.fs = f]
    BY <1>1
  <2>2. IsNode(o)
    BY <1>2 DEF ListOfNodes
  <2> HIDE DEF o, f
  <2>3. LET r == [o EXCEPT !.fs = f]
        IN  IsNode(r) /\ r.val = o.val /\ r.out = o.out
    BY <2>2 DEF IsNode
  <2>4. QED
    BY <2>1, <2>3 DEF o
<1>4. Len(nodes) \in Nat /\ DOMAIN nodes = 1 .. Len(nodes)
  BY <1>2, NodeIndices
<1>5. DOMAIN nodes' = DOMAIN nodes
  BY <1>1
<1>6. nodes' \in Seq({nodes'[m] : m \in DOMAIN nodes}) /\ Len(nodes') = Len(nodes)
  <2> DEFINE T == {nodes'[m] : m \in DOMAIN nodes}
  <2>1. nodes' = [m \in 1 .. Len(nodes) |-> nodes'[m]]
    BY <1>1, <1>4
  <2>2. \A m \in 1 .. Len(nodes) : nodes'[m] \in T
    BY <1>4
  <2> HIDE DEF T
  <2>3. nodes' \in Seq(T) /\ Len(nodes') = Len(nodes)
    BY <1>4, <2>1, <2>2
  <2>4. QED
    BY <2>3 DEF T
<1>7. QED
  BY <1>3, <1>5, <1>6 DEF ListOfNodes

-------------------------------------------------------------------------------
\* Every insertion, and the sort, keeps the invariant.
LEMMA NextInv ==
  ASSUME AllWellFormed, IInv, [Next]_vars
  PROVE  IInv'
<1>1. ListOfNodes(nodes) /\ code \in Codes /\ at \in 1 .. Len(code) + 1
  BY DEF IInv, Types
<1>2. Len(nodes) \in Nat /\ DOMAIN nodes = 1 .. Len(nodes)
  BY <1>1, NodeIndices
<1>3. CASE FoldAssignment
  <2>1. Inserting /\ Folds /\ code' = code /\ at' = at + 1
    BY <1>3 DEF FoldAssignment
  <2>2. /\ ListOfNodes(nodes') /\ DOMAIN nodes' = DOMAIN nodes
        /\ nodes'[Len(nodes)].out = Tac.a
        /\ \A m \in DOMAIN nodes :
             m # Len(nodes) => nodes'[m].out = nodes[m].out
    BY <1>3, FoldedNodes
  <2>3. Tac.a \notin Temps
    BY <2>1, FoldsLast
  <2>4. Types'
    BY <1>1, <2>1, <2>2, TacAtHand DEF Types
  <2>5. OutsAssigned'
    BY <2>1, <2>2, TacAtHand DEF IInv, OutsAssigned, Tac
  <2>6. TempsUnique'
    BY <2>2, <2>3 DEF IInv, TempsUnique
  <2>7. LastComputed'
    BY <2>1, TacAtHand DEF LastComputed, Folds, Tac
  <2>8. QED
    BY <2>4, <2>5, <2>6, <2>7 DEF IInv
<1>4. CASE InsertNode
  <2> DEFINE e == NewNode(Tac, NewInputs(Tac))
             K == MarkStored(Tac, NewInputs(Tac))
  <2>1. /\ Inserting /\ ~Folds /\ code' = code /\ at' = at + 1
        /\ nodes' = Append(K, e)
    BY <1>4 DEF InsertNode
  <2>2. IsNode(e) /\ e.out = Tac.a
    BY <2>1, InsertedValue
  <2>3. /\ ListOfNodes(K) /\ DOMAIN K = DOMAIN nodes /\ Len(K) = Len(nodes)
        /\ \A m \in DOMAIN nodes : K[m].out = nodes[m].out
    BY <2>1, MarkedNodes
  <2> HIDE DEF e, K
  <2>4. /\ ListOfNodes(nodes') /\ Len(nodes') = Len(nodes) + 1
        /\ \A m \in DOMAIN nodes : nodes'[m].out = nodes[m].out
        /\ nodes'[Len(nodes) + 1].out = Tac.a
    BY <2>1, <2>2, <2>3, AppendedNode
  <2>5. DOMAIN nodes' = 1 .. Len(nodes) + 1
    BY <2>4, NodeIndices
  <2>6. Types'
    BY <1>1, <2>1, <2>4, TacAtHand DEF Types
  <2>7. OutsAssigned'
    <3>1. at \in Nat \ {0} /\ at' - 1 = at
      BY <2>1, TacAtHand
    <3>2. ASSUME NEW m \in DOMAIN nodes'
          PROVE  \E q \in 1 .. at' - 1 : nodes'[m].out = code'[q].a
      <4>1. CASE m \in DOMAIN nodes
        <5>1. PICK q \in 1 .. at - 1 : nodes[m].out = code[q].a
          BY <4>1 DEF IInv, OutsAssigned
        <5>2. QED
          BY <2>1, <2>4, <3>1, <4>1, <5>1
      <4>2. CASE m = Len(nodes) + 1
        BY <2>1, <2>4, <3>1, <4>2 DEF Tac
      <4>3. QED
        BY <1>2, <2>5, <4>1, <4>2
    <3>3. QED
      BY <3>2 DEF OutsAssigned
  <2>8. TempsUnique'
    <3>1. ASSUME NEW m \in DOMAIN nodes, nodes[m].out = Tac.a, Tac.a \in Temps
          PROVE  FALSE
      <4>1. PICK q \in 1 .. at - 1 : nodes[m].out = code[q].a
        BY DEF IInv, OutsAssigned
      <4>2. WellFormed(code)
        BY <1>1 DEF AllWellFormed
      <4>3. QED
        <5>1. at \in DOMAIN code /\ q \in DOMAIN code /\ q # at
          BY <2>1, <4>1, TacAtHand
        <5>2. code[at].a \in Temps /\ code[q].a = code[at].a
          BY <3>1, <4>1 DEF Tac
        <5>3. QED
          BY <4>2, <5>1, <5>2 DEF WellFormed
    <3>2. QED
      BY <1>2, <2>4, <2>5, <3>1 DEF IInv, TempsUnique
  <2>9. LastComputed'
    BY <1>2, <2>1, <2>4, TacAtHand DEF LastComputed, Tac
  <2>10. QED
    BY <2>6, <2>7, <2>8, <2>9 DEF IInv
<1>5. CASE SortGraph
  <2>1. code' = code /\ at' = at
    BY <1>5 DEF SortGraph
  <2>2. /\ ListOfNodes(nodes') /\ DOMAIN nodes' = DOMAIN nodes
        /\ Len(nodes') = Len(nodes)
        /\ \A m \in DOMAIN nodes : nodes'[m].out = nodes[m].out
    BY <1>5, SortedNodes
  <2>3. Types'
    BY <1>1, <2>1, <2>2 DEF Types
  <2>4. OutsAssigned' /\ TempsUnique'
    BY <2>1, <2>2 DEF IInv, OutsAssigned, TempsUnique
  <2>5. LastComputed'
    BY <1>2, <2>1, <2>2 DEF IInv, LastComputed
  <2>6. QED
    BY <2>3, <2>4, <2>5 DEF IInv
<1>6. CASE NameOfBrokenLeaf \/ UNCHANGED vars
  <2>1. code' = code /\ at' = at /\ nodes' = nodes
    BY <1>6 DEF NameOfBrokenLeaf, vars
  <2>2. QED
    BY <2>1 DEF IInv, Types, OutsAssigned, TempsUnique, LastComputed
<1>7. QED
  BY <1>3, <1>4, <1>5, <1>6 DEF Next, Step, Finished

\* The operations on symbolic values are the same in both specifications.
LEMMA LineOperations ==
  /\ \A x : Line!Leaf(x) = Leaf(x)
  /\ \A t, x : Line!Dead(t, x) <=> IsAssignment(t) /\ x = t.c /\ x \in Temps
  /\ \A env, t : Line!Exec(env, t) = Exec(env, t)
BY DEF Line!Leaf, Leaf, Line!Dead, Line!IsAssignment, IsAssignment,
       Line!Assign, Assign, Line!Exec, Exec, Line!Result, Result, Line!Node,
       Node, Line!Operands, Operands, Line!None, None

\* Each step executes the TAC it inserts, or none.
LEMMA StepRefines ==
  ASSUME AllWellFormed, IInv, [Next]_vars
  PROVE  [Line!Execute]_(Line!lineVars)
<1>1. ListOfNodes(nodes)
  BY DEF IInv, Types
<1>2. ASSUME code' = code, at' = at, Env' = Env
      PROVE  [Line!Execute]_(Line!lineVars)
  BY <1>2 DEF Line!lineVars
<1>3. CASE FoldAssignment
  <2>1. Inserting /\ Folds /\ code' = code /\ at' = at + 1
    BY <1>3 DEF FoldAssignment
  <2>2. /\ ListOfNodes(nodes') /\ DOMAIN nodes' = DOMAIN nodes
        /\ Len(nodes') = Len(nodes)
        /\ nodes'[Len(nodes)].out = Tac.a
        /\ \A m \in DOMAIN nodes :
             /\ nodes'[m].val = nodes[m].val
             /\ m # Len(nodes) => nodes'[m].out = nodes[m].out
    BY <1>3, FoldedNodes
  <2>3. /\ Len(nodes) \in DOMAIN nodes /\ Tac.c \in Temps /\ Tac.a \notin Temps
        /\ \A m \in DOMAIN nodes : nodes[m].out = Tac.c <=> m = Len(nodes)
    BY <2>1, FoldsLast
  <2>4. IsAssignment(Tac) /\ Tac.a \in Names /\ Tac.c \in Names
    BY <2>1, <2>3, TacAtHand, NamesAssumption DEF Folds, Tacs
  <2>5. Computed(nodes', Tac.a) = nodes[Len(nodes)].val
    <3>1. IsOutputNode(nodes', Len(nodes), Tac.a)
      BY <1>1, <2>2, <2>3, NodeIndices DEF IsOutputNode
    <3>2. QED
      BY <2>2, <2>3, <3>1, LastOutput
  <2>6. Computed(nodes, Tac.c) = nodes[Len(nodes)].val
    <3>1. IsOutputNode(nodes, Len(nodes), Tac.c)
      BY <1>1, <2>3, NodeIndices DEF IsOutputNode
    <3>2. QED
      BY <1>1, <3>1, LastOutput
  <2>7. Computed(nodes', Tac.c) = Leaf(Tac.c)
    <3>1. \A m \in DOMAIN nodes' : nodes'[m].out # Tac.c
      BY <2>2, <2>3
    <3>2. QED
      BY <3>1 DEF Computed, HasOutputNode, IsOutputNode
  <2>8. ASSUME NEW x \in Names, x # Tac.a, x # Tac.c
        PROVE  Computed(nodes', x) = Computed(nodes, x)
    <3>1. \A m \in DOMAIN nodes : nodes'[m].out = x <=> nodes[m].out = x
      BY <2>2, <2>3, <2>8
    <3>2. QED
      BY <1>1, <2>2, <3>1, SameOutputs
  <2>9. ASSUME NEW x \in Names
        PROVE  Env'[x] = IF Line!Dead(Tac, x) THEN Leaf(x) ELSE Exec(Env, Tac)[x]
    <3>1. Env'[x] = Computed(nodes', x) /\ Env[x] = Computed(nodes, x)
      BY DEF Env
    <3>2. Exec(Env, Tac)[x] = IF x = Tac.a THEN Env[Tac.c] ELSE Env[x]
      BY <2>4 DEF Exec, Result, Env
    <3>3. Env[Tac.c] = nodes[Len(nodes)].val
      BY <2>4, <2>6 DEF Env
    <3>4. Line!Dead(Tac, x) <=> x = Tac.c
      BY <2>3, <2>4, LineOperations
    <3>5. QED
      BY <2>3, <2>5, <2>7, <2>8, <3>1, <3>2, <3>3, <3>4
  <2>10. QED
    <3>1. Env' = [x \in Names |->
                    IF Line!Dead(code[at], x) THEN Line!Leaf(x)
                    ELSE Line!Exec(Env, code[at])[x]]
      BY <2>9, LineOperations DEF Env, Tac
    <3>2. QED
      BY <2>1, <3>1 DEF Line!Execute, Inserting
<1>4. CASE InsertNode
  <2> DEFINE e == NewNode(Tac, NewInputs(Tac))
             K == MarkStored(Tac, NewInputs(Tac))
  <2>1. /\ Inserting /\ ~Folds /\ code' = code /\ at' = at + 1
        /\ nodes' = Append(K, e)
    BY <1>4 DEF InsertNode
  <2>2. IsNode(e) /\ e.out = Tac.a /\ e.val = Result(Tac, Env)
    BY <2>1, InsertedValue
  <2>3. /\ ListOfNodes(K) /\ DOMAIN K = DOMAIN nodes
        /\ \A m \in DOMAIN nodes :
             K[m].val = nodes[m].val /\ K[m].out = nodes[m].out
    BY <2>1, MarkedNodes
  <2> HIDE DEF e, K
  <2>4. ASSUME NEW x
        PROVE  Computed(nodes', x) =
                 IF x = Tac.a THEN Result(Tac, Env) ELSE Computed(nodes, x)
    <3>1. Computed(K, x) = Computed(nodes, x)
      BY <1>1, <2>3, SameOutputs
    <3>2. QED
      BY <2>1, <2>2, <2>3, <3>1, AppendedNode
  <2>5. ASSUME NEW x \in Names
        PROVE  Env'[x] = IF Line!Dead(Tac, x) THEN Leaf(x) ELSE Exec(Env, Tac)[x]
    <3>1. Env'[x] = Computed(nodes', x) /\ Env[x] = Computed(nodes, x)
      BY DEF Env
    <3>2. Exec(Env, Tac)[x] = IF x = Tac.a THEN Result(Tac, Env) ELSE Env[x]
      BY DEF Exec, Env
    <3>3. ~Line!Dead(Tac, x)
      BY <2>1, InsertedTac, LineOperations
    <3>4. QED
      BY <2>4, <3>1, <3>2, <3>3
  <2>6. QED
    <3>1. Env' = [x \in Names |->
                    IF Line!Dead(code[at], x) THEN Line!Leaf(x)
                    ELSE Line!Exec(Env, code[at])[x]]
      BY <2>5, LineOperations DEF Env, Tac
    <3>2. QED
      BY <2>1, <3>1 DEF Line!Execute, Inserting
<1>5. CASE SortGraph
  <2>1. code' = code /\ at' = at
    BY <1>5 DEF SortGraph
  <2>2. \A x : Computed(nodes', x) = Computed(nodes, x)
    BY <1>1, <1>5, SortedNodes, SameOutputs
  <2>3. QED
    BY <1>2, <2>1, <2>2 DEF Env
<1>6. CASE NameOfBrokenLeaf \/ UNCHANGED vars
  <2>1. code' = code /\ at' = at /\ nodes' = nodes
    BY <1>6 DEF NameOfBrokenLeaf, vars
  <2>2. QED
    BY <1>2, <2>1 DEF Env
<1>7. QED
  BY <1>3, <1>4, <1>5, <1>6 DEF Next, Step, Finished

\* The graph implements the code, GraphMeansCode, for every set of well-formed
\* lists: it starts without a value for any location, and each insertion gives
\* the locations the values that executing the TAC gives them.
THEOREM GraphImplementsCode ==
  ASSUME AllWellFormed
  PROVE  Spec => GraphMeansCode
<1>1. Init => IInv
  BY InitInv
<1>2. IInv /\ [Next]_vars => IInv'
  BY NextInv
<1>3. IInv /\ [Next]_vars => [Line!Execute]_(Line!lineVars)
  BY StepRefines
<1>4. Init => Line!LineInit
  <2>1. SUFFICES ASSUME Init
                 PROVE  Line!LineInit
    OBVIOUS
  <2>2. code \in Codes /\ at = 1 /\ DOMAIN nodes = {}
    BY <2>1 DEF Init
  <2>3. Env = [x \in Names |-> Leaf(x)]
    BY <2>2 DEF Env, Computed, HasOutputNode
  <2>4. QED
    BY <2>2, <2>3, LineOperations DEF Line!LineInit
<1>5. QED
  BY <1>1, <1>2, <1>3, <1>4, PTL DEF Spec, GraphMeansCode, Line!LineSpec

-------------------------------------------------------------------------------
(***************************************************************************)
(* computeMaxDepth follows inputs until it meets a leaf: it ends because   *)
(* the graph has no cycles.  For that the lists need not be well-formed.   *)
(* The invariant is Acyclic, and that a node has inputs at all.            *)
(***************************************************************************)
HasInputs(N) ==
  (\E S : N \in Seq(S)) /\ \A n \in DOMAIN N : "ins" \in DOMAIN N[n]

InputsInv == HasInputs(nodes) /\ Acyclic

\* Renaming a node, marking it as a store and scheduling it leave its inputs.
LEMMA SameInputs ==
  ASSUME NEW n, "ins" \in DOMAIN nodes[n], NEW t
  PROVE  /\ "ins" \in DOMAIN Assigned(n, t) /\ Assigned(n, t).ins = nodes[n].ins
         /\ "ins" \in DOMAIN Marked(n) /\ Marked(n).ins = nodes[n].ins
<1> DEFINE o == nodes[n]
           r == [o EXCEPT !.out = t.a, !.store = TRUE, !.id = t.id]
           f == WARSchedule([nodes EXCEPT ![n] = r], n, t.a, t.id)
<1>1. Assigned(n, t) = [r EXCEPT !.fs = f] /\ Marked(n) = [o EXCEPT !.store = TRUE]
  BY DEF Assigned, Marked
<1> HIDE DEF f, o
<1>2. "ins" \in DOMAIN o
  BY DEF o
<1>3. "ins" \in DOMAIN r /\ r.ins = o.ins
  BY <1>2
<1> HIDE DEF r
<1>4. "ins" \in DOMAIN [r EXCEPT !.fs = f] /\ [r EXCEPT !.fs = f].ins = r.ins
  BY <1>3
<1>5. "ins" \in DOMAIN [o EXCEPT !.store = TRUE] /\ [o EXCEPT !.store = TRUE].ins = o.ins
  BY <1>2
<1>6. QED
  BY <1>1, <1>3, <1>4, <1>5 DEF o

\* Putting a record with the inputs of a node in the node's place changes no
\* node's inputs.
LEMMA ReplacedNode ==
  ASSUME HasInputs(nodes), NEW n, NEW r,
         n \in DOMAIN nodes => "ins" \in DOMAIN r /\ r.ins = nodes[n].ins
  PROVE  LET M == [nodes EXCEPT ![n] = r]
         IN  /\ HasInputs(M) /\ DOMAIN M = DOMAIN nodes /\ Len(M) = Len(nodes)
             /\ \A m \in DOMAIN nodes : M[m].ins = nodes[m].ins
<1> DEFINE M == [nodes EXCEPT ![n] = r]
<1>1. PICK S : nodes \in Seq(S)
  BY DEF HasInputs
<1>2. nodes \in Seq(S \cup {r})
  BY <1>1
<1>3. M \in Seq(S \cup {r}) /\ Len(M) = Len(nodes) /\ DOMAIN M = DOMAIN nodes
  <2>1. CASE n \in DOMAIN nodes
    BY <1>2, <2>1
  <2>2. CASE n \notin DOMAIN nodes
    <3>1. M = nodes
      BY <1>2, <2>2
    <3>2. QED
      BY <1>2, <3>1
  <2>3. QED
    BY <2>1, <2>2
<1>4. \A m \in DOMAIN nodes : M[m] = IF m = n THEN r ELSE nodes[m]
  OBVIOUS
<1>5. \A m \in DOMAIN nodes : "ins" \in DOMAIN M[m] /\ M[m].ins = nodes[m].ins
  BY <1>4 DEF HasInputs
<1>6. QED
  BY <1>3, <1>5 DEF HasInputs

\* The inputs of a new node are leaves or nodes of the graph.
LEMMA InputsAreOlder ==
  ASSUME HasInputs(nodes), NEW t, NEW i \in DOMAIN NewInputs(t)
  PROVE  NewInputs(t)[i].node < Len(nodes) + 1
<1>1. Len(nodes) \in Nat /\ DOMAIN nodes = 1 .. Len(nodes)
  BY DEF HasInputs
<1>2. ASSUME NEW x, HasOutputNode(nodes, x)
      PROVE  FindOutputNode(nodes, x) \in DOMAIN nodes
  BY <1>2 DEF HasOutputNode, FindOutputNode
<1>3. \A x : Connect(x, t.id).node \in DOMAIN nodes \cup {0}
  BY <1>2 DEF Connect, NodeInput, LeafInput
<1>4. StoredOperand(t).node \in DOMAIN nodes \cup {0}
  BY <1>2 DEF StoredOperand, NodeInput, BrokenLeaf
<1>5. NewInputs(t)[i].node \in DOMAIN nodes \cup {0}
  BY <1>3, <1>4 DEF NewInputs
<1>6. QED
  BY <1>1, <1>5

\* Every insertion, and the sort, keeps the inputs older than their nodes.
LEMMA NextInputs ==
  ASSUME InputsInv, [Next]_vars
  PROVE  InputsInv'
<1>1. HasInputs(nodes) /\ Acyclic /\ Len(nodes) \in Nat /\ DOMAIN nodes = 1 .. Len(nodes)
  BY DEF InputsInv, HasInputs
<1>2. ASSUME HasInputs(nodes'), DOMAIN nodes' = DOMAIN nodes,
             \A m \in DOMAIN nodes : nodes'[m].ins = nodes[m].ins
      PROVE  InputsInv'
  BY <1>1, <1>2 DEF InputsInv, Acyclic
<1>3. CASE FoldAssignment
  <2> DEFINE n == FindOutputNode(nodes, Tac.c)
             r == Assigned(n, Tac)
  <2>1. nodes' = [nodes EXCEPT ![n] = r]
    BY <1>3 DEF FoldAssignment
  <2>2. n \in DOMAIN nodes => "ins" \in DOMAIN r /\ r.ins = nodes[n].ins
    BY <1>1, SameInputs DEF HasInputs
  <2> HIDE DEF n, r
  <2>3. QED
    BY <1>1, <1>2, <2>1, <2>2, ReplacedNode
<1>4. CASE InsertNode
  <2> DEFINE ins == NewInputs(Tac)
             e   == NewNode(Tac, ins)
             K   == MarkStored(Tac, ins)
  <2>1. nodes' = Append(K, e)
    BY <1>4 DEF InsertNode
  <2>2. "ins" \in DOMAIN e /\ e.ins = ins
    BY DEF NewNode
  <2>3. \A i \in DOMAIN ins : ins[i].node < Len(nodes) + 1
    BY <1>1, InputsAreOlder
  <2>4. /\ HasInputs(K) /\ DOMAIN K = DOMAIN nodes /\ Len(K) = Len(nodes)
        /\ \A m \in DOMAIN nodes : K[m].ins = nodes[m].ins
    <3>1. CASE K = nodes
      BY <1>1, <3>1
    <3>2. CASE K # nodes
      <4> DEFINE n == ins[1].node
                 r == Marked(n)
      <4>1. K = [nodes EXCEPT ![n] = r]
        BY <3>2 DEF MarkStored
      <4>2. n \in DOMAIN nodes => "ins" \in DOMAIN r /\ r.ins = nodes[n].ins
        BY <1>1, SameInputs DEF HasInputs
      <4> HIDE DEF n, r, K
      <4>3. QED
        BY <1>1, <4>1, <4>2, ReplacedNode
    <3>3. QED
      BY <3>1, <3>2
  <2> HIDE DEF ins, e, K
  <2>5. PICK S : K \in Seq(S)
    BY <2>4 DEF HasInputs
  <2>6. K \in Seq(S \cup {e})
    BY <2>5
  <2>7. /\ nodes' \in Seq(S \cup {e}) /\ DOMAIN nodes' = 1 .. Len(nodes) + 1
        /\ \A m \in 1 .. Len(nodes) : nodes'[m] = K[m]
        /\ nodes'[Len(nodes) + 1] = e
    BY <1>1, <2>1, <2>4, <2>6, AppendProperties
  <2>8. HasInputs(nodes')
    BY <1>1, <2>2, <2>4, <2>7 DEF HasInputs
  <2>9. Acyclic'
    BY <1>1, <2>2, <2>3, <2>4, <2>7 DEF Acyclic
  <2>10. QED
    BY <2>8, <2>9 DEF InputsInv
<1>5. CASE SortGraph
  <2>1. nodes' = [n \in DOMAIN nodes |-> [nodes[n] EXCEPT !.fs = Depths[n]]]
    BY <1>5 DEF SortGraph, ComputeFreeSchedule
  <2>2. DOMAIN nodes' = 1 .. Len(nodes)
    BY <1>1, <2>1
  <2>3. \A m \in DOMAIN nodes :
          "ins" \in DOMAIN nodes'[m] /\ nodes'[m].ins = nodes[m].ins
    BY <1>1, <2>1 DEF HasInputs
  <2>4. nodes' \in Seq({nodes'[n] : n \in DOMAIN nodes})
    BY <1>1, <2>1, <2>2
  <2>5. QED
    BY <1>1, <1>2, <2>2, <2>3, <2>4 DEF HasInputs
<1>6. CASE NameOfBrokenLeaf \/ UNCHANGED vars
  <2>1. nodes' = nodes
    BY <1>6 DEF NameOfBrokenLeaf, vars
  <2>2. QED
    BY <1>1, <1>2, <2>1
<1>7. QED
  BY <1>3, <1>4, <1>5, <1>6 DEF Next, Step, Finished

\* The graph of any list of TACs, well-formed or not, never has a cycle: the
\* part of DeeperThanInputs without which computeMaxDepth would not return.
THEOREM GraphAcyclic == Spec => []Acyclic
<1>1. Init => InputsInv
  BY DEF Init, InputsInv, HasInputs, Acyclic
<1>2. InputsInv /\ [Next]_vars => InputsInv'
  BY NextInputs
<1>3. InputsInv => Acyclic
  BY DEF InputsInv
<1>4. QED
  BY <1>1, <1>2, <1>3, PTL DEF Spec

-------------------------------------------------------------------------------
(***************************************************************************)
(* The schedules computed while the graph is built, the depths sortGraph   *)
(* computes and the order it sorts the nodes into, for every set of lists  *)
(* that are well-formed and unrolled in order.                             *)
(*                                                                         *)
(* Node::operator< is no order, and still no node gets before its inputs.  *)
(* Two facts are needed for that.  Nodes with the same TacID come with     *)
(* their offsets in order, so that no node precedes an earlier one by its  *)
(* copy; and the first node has depth one, so that none precedes it and it *)
(* stays at the front, where the sort does not look any further.           *)
(***************************************************************************)
AllUnrolledInOrder == \A tl \in Codes : UnrolledInOrder(tl)

-------------------------------------------------------------------------------
\* Deepest of a set of depths with a bound is its greatest element.
LEMMA DeepestOf ==
  ASSUME NEW S, S \subseteq Int, S # {}, NEW b \in Int, \A y \in S : y <= b
  PROVE  Deepest(S) \in S /\ \A y \in S : y <= Deepest(S)
<1>1. \E x \in S : \A y \in S : y <= x
  BY GreatestElement
<1>2. QED
  BY <1>1 DEF Deepest

\* The same for the few depths there are of a node.
LEMMA DeepestOfFew ==
  ASSUME NEW a \in Nat, NEW b \in Nat, NEW c \in Nat,
         NEW S, S # {}, S \subseteq {a, b, c}
  PROVE  Deepest(S) \in S /\ Deepest(S) \in Nat /\ \A y \in S : y <= Deepest(S)
<1>1. S \subseteq Int /\ \A y \in S : y <= a + b + c
  OBVIOUS
<1>2. a + b + c \in Int
  OBVIOUS
<1>3. Deepest(S) \in S /\ \A y \in S : y <= Deepest(S)
  BY <1>1, <1>2, DeepestOf
<1>4. QED
  BY <1>3

(***************************************************************************)
(* The shape of a node, as far as depths depend on it.                     *)
(***************************************************************************)
InputsType(ins, n) ==
  /\ ins \in Seq(Inputs) /\ Len(ins) \in {1, 2}
  /\ \A i \in DOMAIN ins : ins[i].node < n

FewInputs(N) ==
  /\ \E S : N \in Seq(S)
  /\ \A n \in DOMAIN N :
       /\ {"ins", "fs"} \subseteq DOMAIN N[n]
       /\ InputsType(N[n].ins, n)
       /\ N[n].fs \in Nat \ {0}

\* The inputs of a node are one or two, leaves or earlier nodes.
LEMMA InputIndices ==
  ASSUME NEW n \in Nat, NEW ins, InputsType(ins, n)
  PROVE  /\ DOMAIN ins = {1} \/ DOMAIN ins = {1, 2}
         /\ \A i \in DOMAIN ins : ins[i] \in Inputs /\ ins[i].node \in Nat
                                  /\ ins[i].node < n
<1>1. DOMAIN ins = 1 .. Len(ins) /\ Len(ins) \in {1, 2}
  BY DEF InputsType
<1>2. 1 .. 1 = {1} /\ 1 .. 2 = {1, 2}
  OBVIOUS
<1>3. \A i \in DOMAIN ins : ins[i] \in Inputs
  BY DEF InputsType
<1>4. \A i \in DOMAIN ins : ins[i].node \in Nat
  BY <1>3 DEF Inputs
<1>5. QED
  BY <1>1, <1>2, <1>3, <1>4 DEF InputsType

(***************************************************************************)
(* The equation of computeMaxDepth.                                        *)
(***************************************************************************)
InputDepth(d, in) == 1 + (IF IsLeaf(in) THEN 0 ELSE d[in.node])

DepthFrom(d, n) ==
  Deepest({nodes[n].fs} \cup
          {InputDepth(d, nodes[n].ins[i]) : i \in DOMAIN nodes[n].ins})

\* What a node's depth is when those of the earlier nodes are known.
LEMMA DepthOfNode ==
  ASSUME FewInputs(nodes), NEW n \in DOMAIN nodes, NEW d,
         \A m \in 1 .. n - 1 : d[m] \in Nat
  PROVE  /\ DepthFrom(d, n) \in Nat
         /\ nodes[n].fs <= DepthFrom(d, n)
         /\ \A i \in DOMAIN nodes[n].ins :
              InputDepth(d, nodes[n].ins[i]) <= DepthFrom(d, n)
         /\ DepthFrom(d, n) # nodes[n].fs =>
              \E i \in DOMAIN nodes[n].ins :
                DepthFrom(d, n) = InputDepth(d, nodes[n].ins[i])
<1> DEFINE ins == nodes[n].ins
           f   == nodes[n].fs
           e   == [i \in DOMAIN ins |-> InputDepth(d, ins[i])]
           S   == {f} \cup {e[i] : i \in DOMAIN ins}
<1>1. n \in Nat /\ InputsType(ins, n) /\ f \in Nat
  BY DEF FewInputs
<1>2. DepthFrom(d, n) = Deepest(S)
  BY DEF DepthFrom
<1>3. \A i \in DOMAIN ins : e[i] \in Nat
  <2>1. ASSUME NEW i \in DOMAIN ins
        PROVE  InputDepth(d, ins[i]) \in Nat
    <3>1. ins[i].node \in Nat /\ ins[i].node < n
      BY <1>1, InputIndices
    <3>2. CASE ins[i].node = 0
      BY <3>2 DEF InputDepth, IsLeaf
    <3>3. CASE ins[i].node # 0
      <4>1. d[ins[i].node] \in Nat
        BY <1>1, <3>1, <3>3
      <4>2. QED
        BY <3>3, <4>1 DEF InputDepth, IsLeaf
    <3>4. QED
      BY <3>2, <3>3
  <2>2. QED
    BY <2>1
<1>4. DOMAIN ins = {1} \/ DOMAIN ins = {1, 2}
  BY <1>1, InputIndices
<1>5. Deepest(S) \in S /\ Deepest(S) \in Nat /\ \A y \in S : y <= Deepest(S)
  <2> HIDE DEF ins, f, e
  <2>1. CASE DOMAIN ins = {1}
    <3>1. S \subseteq {f, e[1], e[1]} /\ S # {} /\ e[1] \in Nat
      BY <1>3, <2>1
    <3>2. QED
      BY <1>1, <3>1, DeepestOfFew
  <2>2. CASE DOMAIN ins = {1, 2}
    <3>1. S \subseteq {f, e[1], e[2]} /\ S # {} /\ e[1] \in Nat /\ e[2] \in Nat
      BY <1>3, <2>2
    <3>2. QED
      BY <1>1, <3>1, DeepestOfFew
  <2>3. QED
    BY <1>4, <2>1, <2>2
<1>6. \A i \in DOMAIN ins : e[i] = InputDepth(d, ins[i])
  OBVIOUS
<1>7. QED
  BY <1>2, <1>5, <1>6

\* The recursion has a solution, up to any node: each equation is about nodes
\* that come before.
LEMMA DepthsExist ==
  ASSUME FewInputs(nodes)
  PROVE  \E d : /\ d = [n \in DOMAIN nodes |-> DepthFrom(d, n)]
                /\ \A n \in DOMAIN nodes : d[n] \in Nat
<1> DEFINE Solves(d, n) ==
             /\ d = [m \in 1 .. n |-> DepthFrom(d, m)]
             /\ \A m \in 1 .. n : d[m] \in Nat
           S == {n \in 0 .. Len(nodes) : \E d : Solves(d, n)}
<1>1. Len(nodes) \in Nat /\ DOMAIN nodes = 1 .. Len(nodes)
  BY DEF FewInputs
<1>2. 0 \in S
  <2>1. Solves(<<>>, 0)
    OBVIOUS
  <2> HIDE DEF Solves
  <2>2. QED
    BY <1>1, <2>1
<1>3. ASSUME NEW n \in Nat, n < Len(nodes), n \in S
      PROVE  n + 1 \in S
  <2>1. PICK c : Solves(c, n)
    BY <1>3
  <2> DEFINE d == [m \in 1 .. n + 1 |-> IF m = n + 1 THEN DepthFrom(c, n + 1) ELSE c[m]]
  <2>2. n + 1 \in DOMAIN nodes /\ \A m \in 1 .. n : m \in DOMAIN nodes
    BY <1>1, <1>3
  <2>3. \A m \in 1 .. n + 1 : \A i \in DOMAIN nodes[m].ins :
          InputDepth(d, nodes[m].ins[i]) = InputDepth(c, nodes[m].ins[i])
    <3>1. SUFFICES ASSUME NEW m \in 1 .. n + 1, NEW i \in DOMAIN nodes[m].ins,
                          nodes[m].ins[i].node # 0
                   PROVE  d[nodes[m].ins[i].node] = c[nodes[m].ins[i].node]
      BY DEF InputDepth, IsLeaf
    <3>2. InputsType(nodes[m].ins, m)
      BY <2>2 DEF FewInputs
    <3>3. nodes[m].ins[i].node \in Nat /\ nodes[m].ins[i].node < m
      BY <3>2, InputIndices
    <3>4. nodes[m].ins[i].node \in 1 .. n
      BY <3>1, <3>3
    <3>5. QED
      BY <3>4
  <2>4. \A m \in 1 .. n + 1 : DepthFrom(d, m) = DepthFrom(c, m)
    <3> HIDE DEF d
    <3>1. ASSUME NEW m \in 1 .. n + 1
          PROVE  {InputDepth(d, nodes[m].ins[i]) : i \in DOMAIN nodes[m].ins}
                   = {InputDepth(c, nodes[m].ins[i]) : i \in DOMAIN nodes[m].ins}
      BY <2>3
    <3>2. QED
      BY <3>1 DEF DepthFrom
  <2>5. DepthFrom(c, n + 1) \in Nat
    BY <2>1, <2>2, DepthOfNode
  <2>6. \A m \in 1 .. n + 1 : d[m] = DepthFrom(d, m) /\ d[m] \in Nat
    <3>1. \A m \in 1 .. n : c[m] = DepthFrom(c, m) /\ c[m] \in Nat
      BY <2>1
    <3>2. \A m \in 1 .. n + 1 : d[m] = DepthFrom(c, m) /\ d[m] \in Nat
      BY <2>5, <3>1
    <3>3. QED
      BY <2>4, <3>2
  <2>7. d = [m \in 1 .. n + 1 |-> d[m]]
    OBVIOUS
  <2> HIDE DEF d
  <2>8. Solves(d, n + 1)
    BY <2>6, <2>7
  <2> HIDE DEF Solves
  <2>9. QED
    BY <1>1, <1>3, <2>8
<1>4. Len(nodes) \in S
  <2> HIDE DEF S
  <2>1. 0 .. Len(nodes) \subseteq S
    BY <1>1, <1>2, <1>3, InductionUpTo
  <2>2. QED
    BY <1>1, <2>1
<1>5. QED
  BY <1>1, <1>4

\* The depths are a solution of the equation.
LEMMA DepthsEquation ==
  ASSUME FewInputs(nodes)
  PROVE  /\ \A n \in DOMAIN nodes : Depths[n] = DepthFrom(Depths, n)
         /\ \A n \in DOMAIN nodes : Depths[n] \in Nat
<1>1. Depths = CHOOSE d : d = [n \in DOMAIN nodes |-> DepthFrom(d, n)]
  BY DEF Depths, DepthFrom, InputDepth
<1>2. Depths = [n \in DOMAIN nodes |-> DepthFrom(Depths, n)]
  BY <1>1, DepthsExist
<1>3. \A n \in DOMAIN nodes : Depths[n] = DepthFrom(Depths, n)
  BY <1>2
<1>4. \A n \in DOMAIN nodes : Depths[n] \in Nat
  <2> DEFINE S == {n \in DOMAIN nodes : Depths[n] \notin Nat}
  <2>1. SUFFICES ASSUME S # {}
                 PROVE  FALSE
    OBVIOUS
  <2>2. DOMAIN nodes = 1 .. Len(nodes) /\ Len(nodes) \in Nat
    BY DEF FewInputs
  <2>3. S \subseteq Nat
    BY <2>2
  <2>4. PICK n \in S : \A m \in S : n <= m
    <3> HIDE DEF S
    <3>1. QED
      BY <2>1, <2>3, LeastElement
  <2>5. \A m \in 1 .. n - 1 : Depths[m] \in Nat
    BY <2>2, <2>4
  <2>6. DepthFrom(Depths, n) \in Nat
    BY <2>5, DepthOfNode
  <2>7. QED
    BY <1>3, <2>6
<1>5. QED
  BY <1>3, <1>4

-------------------------------------------------------------------------------
(***************************************************************************)
(* The order of the nodes.                                                 *)
(***************************************************************************)
UnrollsInOrder(N) ==
  \A m, n \in DOMAIN N :
    m < n /\ N[m].id = N[n].id => N[m].unroll <= N[n].unroll

FirstAtOne(N) == 1 \in DOMAIN N => N[1].fs = 1

DepthsGrow(N) ==
  \A n \in DOMAIN N : \A i \in DOMAIN N[n].ins :
    ~IsLeaf(N[n].ins[i]) => N[N[n].ins[i].node].fs < N[n].fs

Sortable(N) ==
  /\ FewInputs(N) /\ FirstAtOne(N) /\ DepthsGrow(N) /\ UnrollsInOrder(N)
  /\ \A n \in DOMAIN N : N[n].unroll \in Int

BehindInputs(N, s) ==
  \A i, j \in DOMAIN s : i < j =>
    \A k \in DOMAIN N[s[i]].ins : N[s[i]].ins[k].node # s[j]

(***************************************************************************)
(* What the sort has when it has inserted the first n nodes.               *)
(***************************************************************************)
SortedTo(N, s, n) ==
  /\ s \in Seq(1 .. n) /\ Len(s) = n
  /\ \A m \in 1 .. n : \E i \in 1 .. n : s[i] = m
  /\ n > 0 => s[1] = 1
  /\ BehindInputs(N, s)

\* A node precedes an earlier one only if it is less deep.
LEMMA PrecedesIsLessDeep ==
  ASSUME NEW N, Sortable(N), NEW n \in DOMAIN N, NEW m \in DOMAIN N, m < n,
         NodePrecedes(N, n, m)
  PROVE  N[n].fs < N[m].fs
<1>1. n \in Nat /\ m \in Nat
  BY DEF Sortable, FewInputs
<1>2. N[n].unroll \in Int /\ N[m].unroll \in Int
  BY DEF Sortable
<1>3. N[m].id = N[n].id => N[m].unroll <= N[n].unroll
  BY DEF Sortable, UnrollsInOrder
<1>4. QED
  BY <1>1, <1>2, <1>3 DEF NodePrecedes

\* Insertion of an element behind the place p of a sequence.
LEMMA InsertedBehind ==
  ASSUME NEW S, NEW s \in Seq(S), NEW e \in S, NEW k \in Nat, Len(s) = k,
         NEW p \in Nat, 1 <= p, p <= k
  PROVE  LET r == SubSeq(s, 1, p) \o <<e>> \o SubSeq(s, p + 1, k)
         IN  /\ r \in Seq(S) /\ Len(r) = k + 1
             /\ \A i \in 1 .. p : r[i] = s[i]
             /\ r[p + 1] = e
             /\ \A i \in p + 1 .. k : r[i + 1] = s[i]
<1>1. \A i \in 1 .. k : s[i] \in S
  OBVIOUS
<1>2. PICK o \in Nat : o = 1
  OBVIOUS
<1>3. PICK q \in Nat : q = k - p
  OBVIOUS
<1>4. PICK a \in Seq(S) : a = SubSeq(s, 1, p) /\ Len(a) = p
                          /\ \A i \in 1 .. p : a[i] = s[i]
  <2>1. \A i \in 1 .. p : s[i] \in S
    BY <1>1
  <2>2. LET a == SubSeq(s, 1, p)
        IN  a \in Seq(S) /\ Len(a) = p /\ \A i \in 1 .. p : a[i] = s[i]
    BY <2>1, SubSeqProperties
  <2>3. QED
    BY <2>2
<1>5. PICK b \in Seq(S) : b = <<e>> /\ Len(b) = o /\ b[o] = e
  <2>1. <<e>> \in Seq(S) /\ Len(<<e>>) = 1 /\ <<e>>[1] = e
    OBVIOUS
  <2>2. QED
    BY <1>2, <2>1
<1>6. PICK c \in Seq(S) : c = SubSeq(s, p + 1, k) /\ Len(c) = q
                          /\ \A i \in 1 .. q : c[i] = s[p + i]
  <2>1. \A i \in p + 1 .. k : s[i] \in S
    BY <1>1
  <2>2. LET c == SubSeq(s, p + 1, k)
        IN  /\ c \in Seq(S)
            /\ Len(c) = IF p + 1 <= k THEN k - (p + 1) + 1 ELSE 0
            /\ \A i \in 1 .. k - (p + 1) + 1 : c[i] = s[p + 1 + i - 1]
    BY <2>1, SubSeqProperties
  <2>3. k - (p + 1) + 1 = q
    BY <1>3
  <2>4. \A i \in 1 .. q : SubSeq(s, p + 1, k)[i] = s[p + i]
    BY <2>2, <2>3
  <2>5. Len(SubSeq(s, p + 1, k)) = q
    BY <1>3, <2>2
  <2>6. QED
    BY <2>2, <2>4, <2>5
<1>7. PICK ab \in Seq(S) : /\ ab = a \o b /\ Len(ab) = p + o
                           /\ \A i \in 1 .. p + o :
                                ab[i] = IF i <= p THEN a[i] ELSE b[i - p]
  <2>1. Len(a) = p /\ Len(b) = o
    BY <1>4, <1>5
  <2>2. /\ a \o b \in Seq(S) /\ Len(a \o b) = Len(a) + Len(b)
        /\ \A i \in 1 .. Len(a) + Len(b) :
             (a \o b)[i] = IF i <= Len(a) THEN a[i] ELSE b[i - Len(a)]
    BY ConcatProperties
  <2>3. QED
    BY <2>1, <2>2
<1>8. PICK n \in Nat : n = p + o
  OBVIOUS
<1>9. PICK r \in Seq(S) : /\ r = ab \o c /\ Len(r) = n + q
                          /\ \A i \in 1 .. n + q :
                               r[i] = IF i <= n THEN ab[i] ELSE c[i - n]
  <2>1. Len(ab) = n /\ Len(c) = q
    BY <1>6, <1>7, <1>8
  <2>2. /\ ab \o c \in Seq(S) /\ Len(ab \o c) = Len(ab) + Len(c)
        /\ \A i \in 1 .. Len(ab) + Len(c) :
             (ab \o c)[i] = IF i <= Len(ab) THEN ab[i] ELSE c[i - Len(ab)]
    BY ConcatProperties
  <2>3. QED
    BY <2>1, <2>2
<1>10. n = p + 1 /\ k = p + q
  BY <1>2, <1>3, <1>8
<1>11. r[p + 1] = e
  BY <1>2, <1>5, <1>7, <1>9, <1>10
<1>12. \A i \in 1 .. p : r[i] = s[i]
  BY <1>4, <1>7, <1>9, <1>10
<1>13. \A i \in p + 1 .. k : r[i + 1] = s[i]
  <2>1. SUFFICES ASSUME NEW i \in p + 1 .. k
                 PROVE  r[i + 1] = s[i]
    OBVIOUS
  <2>2. PICK j \in 1 .. q : j = i - p
    BY <1>10
  <2>3. i + 1 \in 1 .. n + q /\ ~(i + 1 <= n) /\ (i + 1) - n = j /\ p + j = i
    BY <1>10, <2>2
  <2>4. r[i + 1] = c[j] /\ c[j] = s[p + j]
    BY <1>6, <1>9, <2>3
  <2>5. QED
    BY <2>3, <2>4
<1>14. Len(r) = k + 1
  BY <1>9, <1>10
<1>15. r = SubSeq(s, 1, p) \o <<e>> \o SubSeq(s, p + 1, k)
  BY <1>4, <1>5, <1>6, <1>7, <1>9
<1>16. QED
  BY <1>11, <1>12, <1>13, <1>14, <1>15

\* Inserting the next node keeps the nodes behind their inputs.
LEMMA InsertionSorts ==
  ASSUME NEW N, Sortable(N), NEW k \in Nat, NEW n \in Nat, n = k + 1,
         n \in DOMAIN N, NEW s, SortedTo(N, s, k)
  PROVE  SortedTo(N, SortInsert(N, s, n), n)
<1>1. \A m \in 1 .. n : m \in DOMAIN N
  BY DEF Sortable, FewInputs
<1>2. /\ s \in Seq(1 .. k) /\ Len(s) = k /\ DOMAIN s = 1 .. k
      /\ \A i \in 1 .. k : s[i] \in 1 .. k /\ s[i] \in DOMAIN N
      /\ \A m \in 1 .. k : \E i \in 1 .. k : s[i] = m
  <2>1. s \in Seq(1 .. k) /\ Len(s) = k
    BY DEF SortedTo
  <2>2. DOMAIN s = 1 .. k /\ \A i \in 1 .. k : s[i] \in 1 .. k
    BY <2>1
  <2>3. \A m \in 1 .. k : m \in DOMAIN N
    BY <1>1
  <2>4. \A i \in 1 .. k : s[i] \in DOMAIN N
    BY <2>2, <2>3
  <2>5. QED
    BY <2>1, <2>2, <2>4 DEF SortedTo
<1>3. \A m \in 1 .. n : InputsType(N[m].ins, m)
  BY <1>1 DEF Sortable, FewInputs
<1>4. CASE k = 0
  <2>1. s = <<>> /\ n = 1
    BY <1>2, <1>4
  <2>2. SortInsert(N, s, n) = <<1>>
    BY <2>1 DEF SortInsert
  <2>3. /\ <<1>> \in Seq(1 .. 1) /\ Len(<<1>>) = 1 /\ <<1>>[1] = 1
        /\ DOMAIN <<1>> = {1}
    OBVIOUS
  <2>4. BehindInputs(N, <<1>>)
    BY <2>3 DEF BehindInputs
  <2>5. \A m \in 1 .. 1 : \E i \in 1 .. 1 : <<1>>[i] = m
    OBVIOUS
  <2>6. SortedTo(N, <<1>>, 1)
    BY <2>3, <2>4, <2>5 DEF SortedTo
  <2>7. QED
    BY <2>1, <2>2, <2>6
<1>5. CASE k > 0
  <2> DEFINE L == {i \in DOMAIN s : ~NodePrecedes(N, n, s[i])}
  <2>1. s[1] = 1 /\ 1 \in DOMAIN s /\ s # <<>>
    BY <1>2, <1>5 DEF SortedTo
  <2>2. ~NodePrecedes(N, n, s[1])
    <3>1. N[1].fs = 1 /\ N[n].fs \in Nat \ {0} /\ 1 \in DOMAIN N
      BY <1>1 DEF Sortable, FewInputs, FirstAtOne
    <3>2. NodePrecedes(N, n, 1) => N[n].fs < N[1].fs
      BY <1>5, <3>1, PrecedesIsLessDeep
    <3>3. QED
      BY <2>1, <3>1, <3>2
  <2>3. PICK p \in 1 .. k :
          /\ p = Deepest(L) /\ ~NodePrecedes(N, n, s[p])
          /\ \A i \in p + 1 .. k : NodePrecedes(N, n, s[i])
    <3>1. L # {} /\ L \subseteq 1 .. k
      BY <1>2, <2>1, <2>2
    <3>2. L \subseteq Int /\ \A y \in L : y <= k
      BY <3>1
    <3> HIDE DEF L
    <3>3. Deepest(L) \in L /\ \A y \in L : y <= Deepest(L)
      <4>1. k \in Int
        OBVIOUS
      <4>2. QED
        BY <3>1, <3>2, <4>1, DeepestOf
    <3>4. \A i \in 1 .. k : ~NodePrecedes(N, n, s[i]) => i \in L
      BY <1>2 DEF L
    <3>5. ~NodePrecedes(N, n, s[Deepest(L)])
      BY <3>3 DEF L
    <3>6. Deepest(L) \in 1 .. k
      BY <3>1, <3>3
    <3>7. \A i \in Deepest(L) + 1 .. k : NodePrecedes(N, n, s[i])
      <4>1. SUFFICES ASSUME NEW i \in Deepest(L) + 1 .. k
                     PROVE  i \in 1 .. k /\ i \notin L
        BY <3>4
      <4>2. QED
        BY <3>3, <3>6
    <3>8. QED
      BY <3>5, <3>6, <3>7
  <2>4. PICK r :
          /\ r = SortInsert(N, s, n)
          /\ r \in Seq(1 .. n) /\ Len(r) = n
          /\ \A i \in 1 .. p : r[i] = s[i]
          /\ r[p + 1] = n
          /\ \A i \in p + 1 .. k : r[i + 1] = s[i]
    <3> DEFINE r == SubSeq(s, 1, p) \o <<n>> \o SubSeq(s, p + 1, k)
    <3>1. SortInsert(N, s, n) = r
      BY <1>2, <2>1, <2>2, <2>3 DEF SortInsert
    <3>2. PICK S : S = 1 .. n
      OBVIOUS
    <3>3. s \in Seq(S) /\ n \in S /\ Len(s) = k
      BY <1>2, <3>2
    <3>4. 1 <= p /\ p <= k /\ p \in Nat
      OBVIOUS
    <3>5. /\ r \in Seq(S) /\ Len(r) = k + 1
          /\ \A i \in 1 .. p : r[i] = s[i]
          /\ r[p + 1] = n
          /\ \A i \in p + 1 .. k : r[i + 1] = s[i]
      BY <3>3, <3>4, InsertedBehind
    <3> HIDE DEF r
    <3>6. QED
      BY <3>1, <3>2, <3>5
  <2>5. DOMAIN r = 1 .. n
    BY <2>4
  <2>6. \A m \in 1 .. n : \E i \in 1 .. n : r[i] = m
    <3>1. SUFFICES ASSUME NEW m \in 1 .. n
                   PROVE  \E i \in 1 .. n : r[i] = m
      OBVIOUS
    <3>2. CASE m = n
      BY <2>4, <3>2
    <3>3. CASE m # n
      <4>1. m \in 1 .. k
        BY <3>3
      <4>2. PICK i \in 1 .. k : s[i] = m
        BY <1>2, <4>1
      <4>3. CASE i <= p
        <5>1. i \in 1 .. p /\ i \in 1 .. n
          BY <4>3
        <5>2. r[i] = s[i]
          BY <2>4, <5>1
        <5>3. QED
          BY <4>2, <5>1, <5>2
      <4>4. CASE i > p
        <5>1. i \in p + 1 .. k /\ i + 1 \in 1 .. n
          BY <4>4
        <5>2. PICK j \in 1 .. n : j = i + 1
          BY <5>1
        <5>3. r[j] = s[i]
          BY <2>4, <5>1, <5>2
        <5>4. QED
          BY <4>2, <5>3
      <4>5. QED
        BY <4>3, <4>4
    <3>4. QED
      BY <3>2, <3>3
  <2>7. r[1] = 1
    <3>1. 1 \in 1 .. p
      OBVIOUS
    <3>2. QED
      BY <2>1, <2>4, <3>1
  <2>8. \A i \in 1 .. n : i # p + 1 =>
          r[i] \in 1 .. k /\ \E o \in 1 .. k :
            r[i] = s[o] /\ (IF i <= p THEN o = i ELSE o = i - 1)
    <3>1. SUFFICES ASSUME NEW i \in 1 .. n, i # p + 1
                   PROVE  r[i] \in 1 .. k /\ \E o \in 1 .. k :
                            r[i] = s[o] /\ (IF i <= p THEN o = i ELSE o = i - 1)
      OBVIOUS
    <3>2. CASE i <= p
      <4>1. i \in 1 .. p /\ i \in 1 .. k
        BY <3>2
      <4>2. r[i] = s[i] /\ s[i] \in 1 .. k
        BY <1>2, <2>4, <4>1
      <4>3. QED
        BY <3>2, <4>1, <4>2
    <3>3. CASE i > p
      <4>1. PICK o \in p + 1 .. k : o = i - 1
        BY <3>1, <3>3
      <4>2. o \in 1 .. k /\ o + 1 = i /\ ~(i <= p)
        BY <3>3, <4>1
      <4>3. r[i] = s[o]
        BY <2>4, <4>2
      <4>4. QED
        BY <1>2, <4>1, <4>2, <4>3
    <3>4. QED
      BY <3>2, <3>3
  <2>9. BehindInputs(N, r)
    <3>1. SUFFICES ASSUME NEW i \in 1 .. n, NEW j \in 1 .. n, i < j,
                          NEW c \in DOMAIN N[r[i]].ins
                   PROVE  N[r[i]].ins[c].node # r[j]
      BY <2>5 DEF BehindInputs
    <3>2. CASE i # p + 1 /\ j # p + 1
      <4>1. PICK o \in 1 .. k, u \in 1 .. k :
              o < u /\ r[i] = s[o] /\ r[j] = s[u]
        BY <2>8, <3>1, <3>2
      <4>2. BehindInputs(N, s) /\ o \in DOMAIN s /\ u \in DOMAIN s
        BY <1>2 DEF SortedTo
      <4>3. N[s[o]].ins[c].node # s[u]
        BY <3>1, <4>1, <4>2 DEF BehindInputs
      <4>4. QED
        BY <4>1, <4>3
    <3>3. CASE j = p + 1
      <4>1. r[i] \in 1 .. k /\ r[j] = n
        BY <2>4, <2>8, <3>1, <3>3
      <4>2. PICK m \in 1 .. k : m = r[i]
        BY <4>1
      <4>3. InputsType(N[m].ins, m) /\ m \in Nat /\ c \in DOMAIN N[m].ins
        BY <1>3, <3>1, <4>2
      <4>4. N[m].ins[c].node \in Nat /\ N[m].ins[c].node < m
        BY <4>3, InputIndices
      <4>5. QED
        BY <4>1, <4>2, <4>4
    <3>4. CASE i = p + 1
      <4>1. r[i] = n /\ j # p + 1 /\ ~(j <= p)
        BY <2>4, <3>1, <3>4
      <4>2. PICK o \in 1 .. k : r[j] = s[o] /\ o = j - 1
        BY <2>8, <4>1
      <4>3. o \in p + 1 .. k
        BY <3>1, <3>4, <4>2
      <4>4. PICK m \in DOMAIN N : m = s[o] /\ m \in 1 .. k
        BY SMTT(30), <1>2
      <4>5. NodePrecedes(N, n, m) /\ m < n
        BY <2>3, <4>3, <4>4
      <4>6. N[n].fs < N[m].fs
        BY <4>5, PrecedesIsLessDeep
      <4>7. SUFFICES ASSUME N[n].ins[c].node = m
                     PROVE  FALSE
        BY <4>1, <4>2, <4>4
      <4>8. c \in DOMAIN N[n].ins /\ ~IsLeaf(N[n].ins[c])
        BY <3>1, <4>1, <4>4, <4>7 DEF IsLeaf
      <4>9. N[m].fs < N[n].fs
        BY <4>7, <4>8 DEF Sortable, DepthsGrow
      <4>10. N[n].fs \in Nat /\ N[m].fs \in Nat
        BY DEF Sortable, FewInputs
      <4>11. QED
        BY <4>6, <4>9, <4>10
    <3>5. QED
      BY <3>2, <3>3, <3>4
  <2>10. QED
    BY <2>4, <2>6, <2>7, <2>9 DEF SortedTo
<1>6. QED
  BY <1>4, <1>5

\* The insertion sort inserts all nodes.
LEMMA TopSortSorts ==
  ASSUME NEW N, Sortable(N)
  PROVE  SortedTo(N, TopSort(N), Len(N))
<1> DEFINE From(f, n) == IF n = 0 THEN <<>> ELSE SortInsert(N, f[n - 1], n)
           Solves(f, n) == f = [m \in 0 .. n |-> From(f, m)]
           S == {n \in 0 .. Len(N) : \E f : Solves(f, n)}
<1>1. Len(N) \in Nat /\ DOMAIN N = 1 .. Len(N)
  BY DEF Sortable, FewInputs
<1>2. 0 \in S
  <2> DEFINE f == [m \in 0 .. 0 |-> <<>>]
  <2>1. Solves(f, 0)
    <3>1. \A m \in 0 .. 0 : m = 0
      OBVIOUS
    <3>2. \A m \in 0 .. 0 : From(f, m) = <<>>
      BY <3>1
    <3> HIDE DEF From
    <3>3. QED
      BY <3>2
  <2> HIDE DEF Solves, f
  <2>2. QED
    BY <1>1, <2>1
<1>3. ASSUME NEW n \in Nat, n < Len(N), n \in S
      PROVE  n + 1 \in S
  <2>1. PICK g : Solves(g, n)
    BY <1>3
  <2> DEFINE f == [m \in 0 .. n + 1 |->
                     IF m = n + 1 THEN SortInsert(N, g[n], n + 1) ELSE g[m]]
  <2>2. \A m \in 0 .. n : f[m] = g[m]
    OBVIOUS
  <2>3. \A m \in 0 .. n : g[m] = From(g, m)
    BY <2>1
  <2>4. \A m \in 0 .. n : From(f, m) = From(g, m)
    <3> HIDE DEF f
    <3>1. QED
      BY <2>2
  <2>5. From(f, n + 1) = SortInsert(N, g[n], n + 1)
    BY <2>2
  <2>6. \A m \in 0 .. n + 1 : f[m] = From(f, m)
    <3>1. f[n + 1] = From(f, n + 1)
      BY <2>5
    <3>2. \A m \in 0 .. n : f[m] = From(f, m)
      BY <2>2, <2>3, <2>4
    <3> HIDE DEF f, From
    <3>3. QED
      BY <3>1, <3>2
  <2>7. f = [m \in 0 .. n + 1 |-> f[m]]
    OBVIOUS
  <2> HIDE DEF f, From
  <2>8. Solves(f, n + 1)
    BY <2>6, <2>7
  <2> HIDE DEF Solves
  <2>9. QED
    BY <1>1, <1>3, <2>8
<1>4. \E f : Solves(f, Len(N))
  <2> HIDE DEF Solves
  <2>1. 0 .. Len(N) \subseteq S
    <3> HIDE DEF S
    <3>1. QED
      BY <1>1, <1>2, <1>3, InductionUpTo
  <2>2. QED
    BY <1>1, <2>1
<1> DEFINE sorted == CHOOSE f : f = [m \in 0 .. Len(N) |-> From(f, m)]
<1>5. TopSort(N) = sorted[Len(N)]
  BY DEF TopSort
<1>6. sorted = [m \in 0 .. Len(N) |-> From(sorted, m)]
  <2> HIDE DEF From
  <2>1. QED
    BY <1>4
<1> HIDE DEF sorted
<1>7. sorted[0] = <<>>
  BY <1>1, <1>6
<1>8. \A n \in 1 .. Len(N) : sorted[n] = SortInsert(N, sorted[n - 1], n)
  BY <1>1, <1>6
<1> DEFINE T == {n \in 0 .. Len(N) : SortedTo(N, sorted[n], n)}
<1>9. 0 \in T
  <2>1. SortedTo(N, <<>>, 0)
    <3>1. <<>> \in Seq(1 .. 0) /\ Len(<<>>) = 0 /\ DOMAIN <<>> = {}
      OBVIOUS
    <3>2. BehindInputs(N, <<>>)
      BY <3>1 DEF BehindInputs
    <3>3. \A m \in 1 .. 0 : FALSE
      OBVIOUS
    <3>4. QED
      BY <3>1, <3>2, <3>3 DEF SortedTo
  <2>2. QED
    BY <1>1, <1>7, <2>1
<1>10. ASSUME NEW n \in Nat, n < Len(N), n \in T
       PROVE  n + 1 \in T
  <2>1. PICK m \in Nat : m = n + 1
    OBVIOUS
  <2>2. m \in DOMAIN N /\ m \in 1 .. Len(N) /\ m - 1 = n /\ SortedTo(N, sorted[n], n)
    BY <1>1, <1>10, <2>1
  <2>3. SortedTo(N, SortInsert(N, sorted[n], m), m)
    BY <2>1, <2>2, InsertionSorts
  <2>4. sorted[m] = SortInsert(N, sorted[n], m)
    BY <1>8, <2>2
  <2>5. QED
    BY <1>1, <2>1, <2>2, <2>3, <2>4
<1>11. 0 .. Len(N) \subseteq T
  <2> HIDE DEF T
  <2>1. QED
    BY <1>1, <1>9, <1>10, InductionUpTo
<1>12. QED
  BY <1>1, <1>5, <1>11
===============================================================================
