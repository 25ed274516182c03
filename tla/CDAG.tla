---------------------------------- MODULE CDAG ----------------------------------
(***************************************************************************)
(* The computation graph of a scop.  createCDAGfromTAC inserts the TACs    *)
(* one by one: an operation becomes a node whose inputs are the last nodes *)
(* with the names of its operands (or leaves, for what the scop does not   *)
(* compute); an assignment makes no node, it gives the node of its right-  *)
(* hand side the name of the location it assigns.  sortGraph then computes *)
(* how deep in the graph each node is and sorts the nodes for packing.     *)
(*                                                                         *)
(* Nodes are numbered in the order they are created, as NodeID orders them.*)
(* MapRAW and MapWAR are only printed and are left out, and so is the      *)
(* placement read from a file (--input-cdag).                              *)
(***************************************************************************)
EXTENDS Symbolic, FiniteSets

CONSTANTS
  Names,  \* the locations TACs name
  Temps,  \* the temporaries among them
  Codes   \* the lists of TACs of scops

Tacs == [a : Names, b : Names, c : Names \cup {None}, op : STRING, id : Nat,
         unroll : Int]

ASSUME NamesAssumption == None \notin Names /\ Temps \subseteq Names
ASSUME CodesAssumption == Codes \subseteq Seq(Tacs)

VARIABLES
  code,   \* the list
  at,     \* the TAC to be inserted next
  nodes,  \* NLOps
  order,  \* the nodes as sortGraph returns them
  pc

vars == <<code, at, nodes, order, pc>>

(***************************************************************************)
(* An input of a node is another node or a leaf, with the TacID of the     *)
(* node it was made for.  A leaf is broken when it has been marked as a    *)
(* node that stores: it has no output to take a name from.                 *)
(***************************************************************************)
NodeInput(n) == [node |-> n, name |-> None, id |-> 0, broken |-> FALSE]
LeafInput(x, id) == [node |-> 0, name |-> x, id |-> id, broken |-> FALSE]
BrokenLeaf(x) == [node |-> 0, name |-> x, id |-> 0, broken |-> TRUE]

IsLeaf(in) == in.node = 0

Inputs == [node : Nat, name : Names \cup {None}, id : Nat, broken : BOOLEAN]

(***************************************************************************)
(* getRegisterValue and TacID of an input of a node of N, and the value it *)
(* stands for, a ghost for the properties.                                 *)
(***************************************************************************)
Register(N, in) == IF IsLeaf(in) THEN in.name ELSE N[in.node].out
TacID(N, in) == IF IsLeaf(in) THEN in.id ELSE N[in.node].id
InputValue(in) == IF IsLeaf(in) THEN Leaf(in.name) ELSE nodes[in.node].val

Init ==
  /\ code \in Codes
  /\ at = 1 /\ nodes = <<>> /\ order = <<>>
  /\ pc = "insert"

(***************************************************************************)
(* findOutputNode: the last node of N with the name.                       *)
(***************************************************************************)
IsOutputNode(N, n, x) ==
  /\ n \in DOMAIN N /\ N[n].out = x
  /\ \A m \in DOMAIN N : m > n => N[m].out # x

HasOutputNode(N, x) == \E n \in DOMAIN N : IsOutputNode(N, n, x)

\* Mutant: the first node with the name.
FindFirstOutputNode(N, x) ==
  CHOOSE n \in DOMAIN N :
    N[n].out = x /\ \A m \in DOMAIN N : m < n => N[m].out # x

FindOutputNode(N, x) == CHOOSE n \in DOMAIN N : IsOutputNode(N, n, x)

(***************************************************************************)
(* computeMaxDepth, which never lowers the schedule of a node.             *)
(***************************************************************************)
Deepest(S) == CHOOSE d \in S : \A e \in S : e <= d

\* Mutant: only the depth of the first input counts.
DepthsOfFirst ==
  LET depth[n \in DOMAIN nodes] ==
        LET in == nodes[n].ins[1]
        IN  Deepest({nodes[n].fs,
                     1 + (IF IsLeaf(in) THEN 0 ELSE depth[in.node])})
  IN  depth

Depths ==
  LET depth[n \in DOMAIN nodes] ==
        Deepest({nodes[n].fs} \cup
                {1 + (IF IsLeaf(nodes[n].ins[i]) THEN 0
                      ELSE depth[nodes[n].ins[i].node]) :
                   i \in DOMAIN nodes[n].ins})
  IN  depth

DepthOverInputs(ins) ==
  Deepest({1 + (IF IsLeaf(ins[i]) THEN 0 ELSE Depths[ins[i].node]) :
             i \in DOMAIN ins})

(***************************************************************************)
(* findRAWDataRace: the last earlier node that stores one of the operands. *)
(***************************************************************************)
Writers(N, ins, id) ==
  {n \in DOMAIN N :
     /\ N[n].store /\ N[n].id < id
     /\ \E i \in DOMAIN ins : N[n].out = Register(N, ins[i])}

RAWSchedule(N, ins, id) ==
  LET W == Writers(N, ins, id)
  IN  IF W = {} THEN 0 ELSE N[Deepest(W)].fs

(***************************************************************************)
(* findWARDataRace for a node that is about to store x: the places <<n, i>>*)
(* where x is an input, in the order of the list.  The first one counts,   *)
(* then any later one whose TacID is greater, but less than the writer's.  *)
(***************************************************************************)
Readers(N, x) ==
  {p \in (DOMAIN N) \X {1, 2} :
     /\ p[2] \in DOMAIN N[p[1]].ins
     /\ Register(N, N[p[1]].ins[p[2]]) = x}

Precedes(p, q) == p[1] < q[1] \/ (p[1] = q[1] /\ p[2] < q[2])

FirstOf(P) == CHOOSE p \in P : \A q \in P : q = p \/ Precedes(p, q)

WARReader(N, x, id) ==
  LET R       == Readers(N, x)
      tac(p)  == TacID(N, N[p[1]].ins[p[2]])
      later   == {p \in R : tac(FirstOf(R)) < tac(p) /\ tac(p) < id}
      highest == {p \in later : \A q \in later : tac(q) <= tac(p)}
  IN  IF later = {} THEN FirstOf(R) ELSE FirstOf(highest)

(***************************************************************************)
(* The free schedule of node n of N once it stores x under TacID id: one   *)
(* more than that of the reader.                                           *)
(***************************************************************************)
WARSchedule(N, n, x, id) ==
  IF Readers(N, x) = {} THEN N[n].fs
  ELSE LET p  == WARReader(N, x, id)
           in == N[p[1]].ins[p[2]]
       IN  1 + (IF IsLeaf(in) THEN 0 ELSE N[in.node].fs)

(***************************************************************************)
(* insertTac.                                                              *)
(***************************************************************************)
Inserting == pc = "insert" /\ at <= Len(code)

Tac == code[at]

Folds == IsAssignment(Tac) /\ HasOutputNode(nodes, Tac.c)

AnyBroken == \E n \in DOMAIN nodes : \E i \in DOMAIN nodes[n].ins :
               nodes[n].ins[i].broken

Assigned(n, t) ==
  LET r == [nodes[n] EXCEPT !.out = t.a, !.store = TRUE, !.id = t.id]
      f == WARSchedule([nodes EXCEPT ![n] = r], n, t.a, t.id)
  IN  [r EXCEPT !.fs = f]

\* Mutant: after the renaming the assignment is made a node as well.
FoldAssignmentAndInsert ==
  /\ Inserting /\ Folds /\ ~AnyBroken
  /\ LET n == FindOutputNode(nodes, Tac.c)
         r == [nodes[n] EXCEPT !.out = Tac.a, !.store = TRUE]
     IN  nodes' = Append([nodes EXCEPT ![n] = r],
                         [r EXCEPT !.ins = <<NodeInput(n), NodeInput(n)>>])
  /\ at' = at + 1
  /\ UNCHANGED <<code, order, pc>>

FoldAssignment ==
  /\ Inserting /\ Folds /\ ~AnyBroken
  /\ LET n == FindOutputNode(nodes, Tac.c)
     IN  nodes' = [nodes EXCEPT ![n] = Assigned(n, Tac)]
  /\ at' = at + 1
  /\ UNCHANGED <<code, order, pc>>

Connect(x, id) ==
  IF HasOutputNode(nodes, x) THEN NodeInput(FindOutputNode(nodes, x))
  ELSE LeafInput(x, id)

(***************************************************************************)
(* An assignment of what no node computes makes a node after all, with the *)
(* location it assigns as first operand; that operand is marked as storing.*)
(***************************************************************************)
StoredOperand(t) ==
  IF HasOutputNode(nodes, t.b) THEN NodeInput(FindOutputNode(nodes, t.b))
  ELSE BrokenLeaf(t.b)

NewInputs(t) ==
  [i \in DOMAIN Operands(t) |->
     IF IsAssignment(t) /\ i = 1 THEN StoredOperand(t)
     ELSE Connect(Operands(t)[i], t.id)]

NewValue(t, ins) ==
  IF IsAssignment(t) THEN InputValue(ins[2])
  ELSE Node(t.op, [i \in DOMAIN ins |-> InputValue(ins[i])])

Marked(n) == [nodes[n] EXCEPT !.store = TRUE]

MarkStored(t, ins) ==
  LET n == ins[1].node
  IN  IF IsAssignment(t) /\ ~IsLeaf(ins[1])
      THEN [nodes EXCEPT ![n] = Marked(n)] ELSE nodes

NewNode(t, ins) ==
  [op |-> t.op, out |-> t.a, ins |-> ins, id |-> t.id, unroll |-> t.unroll,
   fs |-> Deepest({DepthOverInputs(ins),
                   RAWSchedule(MarkStored(t, ins), ins, t.id)}),
   store |-> FALSE, val |-> NewValue(t, ins)]

(***************************************************************************)
(* The name of a broken leaf is read as soon as there is a node that       *)
(* stores to compare it with.                                              *)
(***************************************************************************)
ReadsBroken(t) ==
  /\ IsAssignment(t) /\ ~HasOutputNode(nodes, t.b)
  /\ \E n \in DOMAIN nodes : nodes[n].store

InsertNode ==
  /\ Inserting /\ ~Folds /\ ~ReadsBroken(Tac)
  /\ LET ins == NewInputs(Tac)
     IN  nodes' = Append(MarkStored(Tac, ins), NewNode(Tac, ins))
  /\ at' = at + 1
  /\ UNCHANGED <<code, order, pc>>

(***************************************************************************)
(* getRegisterValue of a broken leaf calls a method of a null pointer: the *)
(* model says nothing of what follows.                                     *)
(***************************************************************************)
NameOfBrokenLeaf ==
  /\ Inserting
  /\ IF Folds THEN AnyBroken ELSE ReadsBroken(Tac)
  /\ pc' = "undefined"
  /\ UNCHANGED <<code, at, nodes, order>>

-------------------------------------------------------------------------------
(***************************************************************************)
(* sortGraph.  Node::operator< is no weak order, so that the outcome of    *)
(* std::sort is what the library does with it: up to 16 nodes, insertion.  *)
(* An element that precedes the first one goes to the front, any other one *)
(* goes below the last element it does not precede.                        *)
(***************************************************************************)
\* Mutant: the TacID decides before the depth.
PrecedesByTac(N, m, n) ==
  IF N[m].id = N[n].id THEN N[m].unroll < N[n].unroll ELSE N[m].id < N[n].id

NodePrecedes(N, m, n) ==
  LET byDepth == IF N[m].fs = N[n].fs THEN m < n ELSE N[m].fs < N[n].fs
  IN  IF N[m].id = N[n].id /\ N[m].unroll # N[n].unroll
      THEN N[m].unroll < N[n].unroll ELSE byDepth

SortInsert(N, s, n) ==
  IF s = <<>> THEN <<n>>
  ELSE IF NodePrecedes(N, n, s[1]) THEN <<n>> \o s
  ELSE LET last == Deepest({i \in DOMAIN s : ~NodePrecedes(N, n, s[i])})
       IN  SubSeq(s, 1, last) \o <<n>> \o SubSeq(s, last + 1, Len(s))

TopSort(N) ==
  LET sorted[n \in 0 .. Len(N)] ==
        IF n = 0 THEN <<>> ELSE SortInsert(N, sorted[n - 1], n)
  IN  sorted[Len(N)]

ComputeFreeSchedule ==
  [n \in DOMAIN nodes |-> [nodes[n] EXCEPT !.fs = Depths[n]]]

SortGraph ==
  /\ pc = "insert" /\ at > Len(code)
  /\ nodes' = ComputeFreeSchedule
  /\ order' = TopSort(ComputeFreeSchedule)
  /\ pc' = "done"
  /\ UNCHANGED <<code, at>>

Finished ==
  /\ pc \in {"done", "undefined"}
  /\ UNCHANGED vars

Step == FoldAssignment \/ InsertNode \/ NameOfBrokenLeaf \/ SortGraph

Next == Step \/ Finished

Spec == Init /\ [][Next]_vars

-------------------------------------------------------------------------------
(***************************************************************************)
(* The lists the graph is right for.  A temporary gets one value; what is  *)
(* assigned is the temporary computed just before, or a location the scop  *)
(* has not computed.                                                       *)
(***************************************************************************)
WellFormed(tl) ==
  /\ \A p \in DOMAIN tl : tl[p].a \in Temps =>
       ~IsAssignment(tl[p]) /\ \A q \in DOMAIN tl : tl[q].a = tl[p].a => q = p
  /\ \A p \in DOMAIN tl : IsAssignment(tl[p]) =>
       /\ tl[p].c # None
       /\ IF tl[p].c \in Temps THEN p > 1 /\ tl[p - 1].a = tl[p].c
          ELSE \A q \in 1 .. p - 1 : tl[q].a # tl[p].c

(***************************************************************************)
(* The lists the unrolling makes: the copies of a TAC are in the order of  *)
(* their offsets, and what a statement assigns has its operation's offset. *)
(***************************************************************************)
UnrolledInOrder(tl) ==
  /\ \A p, q \in DOMAIN tl :
       p < q /\ tl[p].id = tl[q].id => tl[p].unroll <= tl[q].unroll
  /\ \A p \in DOMAIN tl :
       p > 1 /\ IsAssignment(tl[p]) /\ tl[p].c \in Temps =>
         tl[p].unroll = tl[p - 1].unroll

(***************************************************************************)
(* The TACs inserted so far that a node is made for.                       *)
(***************************************************************************)
MakesNode(t) == ~IsAssignment(t) \/ t.c \notin Temps

\* Every variable has its type, and no node stands for an assignment that only
\* says where an operation's result goes.
TypeOK ==
  /\ code \in Codes
  /\ at \in 1 .. Len(code) + 1
  /\ pc \in {"insert", "done", "undefined"}
  /\ Len(nodes) <= Cardinality({q \in 1 .. at - 1 : MakesNode(code[q])})
  /\ \A n \in DOMAIN nodes :
       /\ nodes[n].out \in Names /\ nodes[n].fs \in Nat
       /\ Len(nodes[n].ins) \in {1, 2}
       /\ \A i \in DOMAIN nodes[n].ins : nodes[n].ins[i] \in Inputs
  /\ order \in Seq(DOMAIN nodes)

(***************************************************************************)
(* The value the graph gives a location.                                   *)
(***************************************************************************)
Computed(N, x) ==
  IF HasOutputNode(N, x) THEN N[FindOutputNode(N, x)].val ELSE Leaf(x)

Env == [x \in Names |-> Computed(nodes, x)]

Line == INSTANCE StraightLine WITH env <- Env

\* The graph implements the code: after each insertion the last node with the
\* name of a location stands for the value the code would have left there, and
\* a location without a node still has its first value.
GraphMeansCode == Line!LineSpec

\* The graph has no cycles, however nodes are renamed while it is built: a node
\* takes its operands from nodes created before it.
Acyclic ==
  \A n \in DOMAIN nodes : \A i \in DOMAIN nodes[n].ins :
    nodes[n].ins[i].node < n

\* The graph has no cycles, and when it is sorted a node is deeper than the
\* nodes it takes its operands from, over all statements and copies.
DeeperThanInputs ==
  /\ Acyclic
  /\ pc = "done" =>
       \A n \in DOMAIN nodes : \A i \in DOMAIN nodes[n].ins :
         LET in == nodes[n].ins[i]
         IN  ~IsLeaf(in) => nodes[in.node].fs < nodes[n].fs

\* The sorted nodes are all the nodes, each once and behind its inputs, though
\* the relation they are sorted by is no order: a node is compared by copy with
\* the copies of its own TAC and by depth with the others.
InputsFirst ==
  pc = "done" =>
    /\ Len(order) = Len(nodes)
    /\ {order[i] : i \in DOMAIN order} = DOMAIN nodes
    /\ \A i, j \in DOMAIN order : i < j =>
         \A k \in DOMAIN nodes[order[i]].ins :
           nodes[order[i]].ins[k].node # order[j]

===============================================================================
