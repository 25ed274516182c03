-------------------------------- MODULE Packing --------------------------------
(***************************************************************************)
(* How the cost model packs the sorted nodes of a graph into groups, each  *)
(* of which becomes a vector operation.  detectReductions takes chains of  *)
(* the same operation out of the list; bottomUpConsumer packs the nodes of *)
(* the chains by the location they accumulate into, window by window;      *)
(* greedyOpsConsumer groups what is left.  The composition goes on where   *)
(* CDAG has sorted its nodes.                                              *)
(*                                                                         *)
(* All operands have one type, so that a vector has the same number of     *)
(* Slots in every group.  The order of the groups by TacID depends on the  *)
(* vector operations made of them and is left to those.                    *)
(***************************************************************************)
EXTENDS CDAG, Lists

CONSTANTS
  MaxVectorLength,  \* slots of a vector of floats
  Slots,            \* getMaxVectorSize of the operands' type
  Options,          \* --min-redux-size, --redux-win-size, --novec-orphan-redux
  Index(_)          \* atoi of an array element's index, or NoIndex

NoIndex == -1

\* (Registers have 128, 256 or 512 bits, a float has 32.)
ASSUME SlotsAssumption ==
  /\ MaxVectorLength \in {4, 8, 16}
  /\ Slots \in 1 .. MaxVectorLength

ASSUME OptionsAssumption ==
  Options \subseteq [min : Nat \ {0}, window : Int, disableOrphans : BOOLEAN]

VARIABLES
  opts,     \* the options of this compilation
  place,    \* where getVectorOpFromCDAG is
  cursor,   \* detection: the nodes of order still to be visited
  redux,    \* LRedux, then NRedux
  flagged,  \* the nodes with IsReduction
  others,   \* TmpList, then the nodes that are left for the greedy consumer
  full,     \* FullMapReductions: per location, the nodes that reduce into it
  lists,    \* MapReductions of the window
  key,      \* the list of the window that is looked at
  size,     \* PackingSize
  packing,  \* NewPacking
  orphans,  \* OrphanNodes
  groups    \* the operations of the list of vector operations

detection == <<cursor, redux, flagged, others>>
windows == <<full, lists, key, size, packing, orphans>>
packVars == <<opts, place, detection, windows, groups>>

packInit ==
  /\ opts \in Options
  /\ place = "detect"
  /\ cursor = 0 /\ redux = <<>> /\ flagged = {} /\ others = <<>>
  /\ full = <<>> /\ lists = <<>> /\ key = 0 /\ size = 0
  /\ packing = <<>> /\ orphans = <<>>
  /\ groups = <<>>

PackInit == Init /\ packInit

NodesRead(n) == {nodes[n].ins[i].node : i \in DOMAIN nodes[n].ins} \ {0}

-------------------------------------------------------------------------------
(***************************************************************************)
(* Detection.  From a node the chain follows the first input with the same *)
(* operation and a smaller depth, as long as there is one that is not in a *)
(* chain yet.  (Visited holds the chains and the nodes behind the cursor,  *)
(* which nothing asks for.)                                                *)
(***************************************************************************)
Continues(top, n) ==
  {i \in DOMAIN nodes[n].ins :
     LET in == nodes[n].ins[i]
     IN  /\ ~IsLeaf(in)
         /\ in.node \notin Members(redux)
         /\ nodes[in.node].op = nodes[top].op
         /\ nodes[in.node].fs < nodes[top].fs}

FirstIndex(I) == IF 1 \in I THEN 1 ELSE 2

\* Mutant: the chain is followed into chains that were found before.
ChainIntoOthers(top) ==
  LET next(n) == {i \in DOMAIN nodes[n].ins :
                    /\ ~IsLeaf(nodes[n].ins[i])
                    /\ nodes[nodes[n].ins[i].node].op = nodes[top].op}
  IN  Through(Len(nodes), <<top>>,
              LAMBDA c, i : LET n == Last(c)
                            IN  IF next(n) = {} THEN c
                                ELSE Append(c, nodes[n].ins[FirstIndex(next(n))].node))

\* (A node is created behind those it reads: there are fewer steps than nodes.)
Chain(top) ==
  Through(Len(nodes), <<top>>,
          LAMBDA c, i : LET n == Last(c)
                            C == Continues(top, n)
                        IN  IF C = {} THEN c
                            ELSE Append(c, nodes[n].ins[FirstIndex(C)].node))

(***************************************************************************)
(* The nodes of a chain and everything they read are flagged.              *)
(***************************************************************************)
Flags(chain) == Members(chain) \cup UNION {NodesRead(n) : n \in Members(chain)}

BeginDetection ==
  /\ pc = "done" /\ place = "detect" /\ cursor = 0
  /\ cursor' = Len(order)
  /\ place' = "visit"
  /\ UNCHANGED <<vars, opts, redux, flagged, others, windows, groups>>

VisitNode ==
  /\ place = "visit" /\ cursor > 0
  /\ LET n     == order[cursor]
         chain == Chain(n)
     IN  IF n \in Members(redux) THEN UNCHANGED <<redux, flagged, others>>
         ELSE IF Len(chain) > 1
         THEN /\ redux' = redux \o chain
              /\ flagged' = flagged \cup Flags(chain)
              /\ UNCHANGED others
         ELSE /\ others' = IF n \in flagged THEN others ELSE Append(others, n)
              /\ UNCHANGED <<redux, flagged>>
  /\ cursor' = cursor - 1
  /\ UNCHANGED <<vars, opts, place, windows, groups>>

(***************************************************************************)
(* What is left: the nodes that were not flagged later on, those that      *)
(* another one of them reads behind the ones none reads, turned around.    *)
(***************************************************************************)
AddInput(r, n, L) ==
  IF n \in L \ (Members(r.roots) \cup Members(r.inner))
  THEN [r EXCEPT !.inner = Append(@, n)] ELSE r

AddNode(r, n, L) ==
  LET own == IF n \in Members(r.inner) THEN r
             ELSE [r EXCEPT !.roots = Append(@, n)]
  IN  Through(Len(nodes[n].ins), own,
              LAMBDA t, i : AddInput(t, nodes[n].ins[i].node, L))

NoNodes == [roots |-> <<>>, inner |-> <<>>]

RootsAndInner(s) ==
  Through(Len(s), NoNodes, LAMBDA r, i : AddNode(r, s[i], Members(s)))

\* Mutant: the inner nodes are not put back.
RootsOnly(s) == Reverse(RootsAndInner(s).roots)

RootsBehindInner(s) ==
  LET r == RootsAndInner(s)
  IN  Reverse(r.roots \o r.inner)

(***************************************************************************)
(* mapReductions, of nodes in the order of their numbers: the lists per    *)
(* location, in the order of their first nodes.                            *)
(***************************************************************************)
Reducing(s, x) == Kept(s, {i \in DOMAIN s : nodes[s[i]].out = x})

FirstOfLocation(s) ==
  {i \in DOMAIN s : \A j \in 1 .. i - 1 : nodes[s[j]].out # nodes[s[i]].out}

MapReductions(s) ==
  LET firsts == Kept(s, FirstOfLocation(s))
  IN  [i \in DOMAIN firsts |-> Reducing(s, nodes[firsts[i]].out)]

\* Mutant: the nodes stay as they were found, each chain from its last node on.
AsFound(s) == s

ByNumber(s) == SortedBy(s, {p \in Nat \X Nat : p[1] < p[2]})

EndDetection ==
  /\ place = "visit" /\ cursor = 0
  /\ redux' = ByNumber(redux)
  /\ others' = RootsBehindInner(Kept(others, {i \in DOMAIN others : others[i] \notin flagged}))
  /\ full' = MapReductions(redux')
  /\ place' = "window"
  /\ UNCHANGED <<vars, opts, cursor, flagged, lists, key, size, packing,
                 orphans, groups>>

-------------------------------------------------------------------------------
(***************************************************************************)
(* greedyOpsConsumer: neighbours with the same operation, up to a vector's *)
(* slots.                                                                  *)
(***************************************************************************)
Takes(gs, n) ==
  /\ gs # <<>> /\ Len(Last(gs)) < Slots
  /\ nodes[Last(Last(gs))].op = nodes[n].op

AddToGroups(gs, n) ==
  IF Takes(gs, n) THEN Append(Front(gs), Append(Last(gs), n)) ELSE Append(gs, <<n>>)

Greedy(s) == Through(Len(s), <<>>, LAMBDA gs, i : AddToGroups(gs, s[i]))

(***************************************************************************)
(* consumeNodes: the nodes behind the operations they read that store      *)
(* nothing.                                                                *)
(***************************************************************************)
PrevOps(n) ==
  LET read == [i \in DOMAIN nodes[n].ins |-> nodes[n].ins[i].node]
  IN  Kept(read, {i \in DOMAIN read : read[i] # 0 /\ ~nodes[read[i]].store})

\* Mutant: nothing is put back in front of the nodes.
ConsumeAlone(s) == Greedy(s)

AllPrevOps(s) == Through(Len(s), <<>>, LAMBDA t, i : t \o PrevOps(s[i]))

Consume(s) == Greedy(AllPrevOps(s) \o s)

(***************************************************************************)
(* bottomUpConsumer takes the lists of the next window.                    *)
(***************************************************************************)
WindowSize ==
  IF opts.window <= 0 \/ opts.window > Len(full) THEN Len(full)
  ELSE opts.window

TakeWindow ==
  /\ place = "window" /\ full # <<>>
  /\ lists' = SubSeq(full, 1, WindowSize)
  /\ full' = SubSeq(full, WindowSize + 1, Len(full))
  /\ size' = MaxVectorLength /\ key' = 1
  /\ packing' = <<>> /\ orphans' = <<>>
  /\ place' = "pack"
  /\ UNCHANGED <<vars, opts, detection, groups>>

Packs == place = "pack" /\ size >= opts.min /\ key <= Len(lists)

\* Mutant: pieces are added to a packing that is full.
HasPieceThough == Len(lists[key]) >= size

HasPiece == Len(lists[key]) >= size /\ Len(packing) < MaxVectorLength

TakePiece ==
  /\ Packs /\ HasPiece
  /\ packing' = packing \o SubSeq(lists[key], 1, size)
  /\ lists' = [lists EXCEPT ![key] = SubSeq(@, size + 1, Len(@))]
  /\ UNCHANGED <<vars, opts, place, detection, full, key, size, orphans, groups>>

(***************************************************************************)
(* A packing that is full is consumed before the next list is looked at.   *)
(***************************************************************************)
NextList ==
  /\ Packs /\ ~HasPiece
  /\ IF Len(packing) = MaxVectorLength
     THEN groups' = groups \o Consume(packing) /\ packing' = <<>>
     ELSE UNCHANGED <<groups, packing>>
  /\ key' = key + 1
  /\ UNCHANGED <<vars, opts, place, detection, full, lists, size, orphans>>

\* Mutant: the size of the pieces stays as it is.
KeepSize ==
  /\ place = "pack" /\ size >= opts.min /\ key > Len(lists)
  /\ key' = 1
  /\ UNCHANGED <<vars, opts, place, detection, full, lists, size, packing,
                 orphans, groups>>

HalveSize ==
  /\ place = "pack" /\ size >= opts.min /\ key > Len(lists)
  /\ size' = size \div 2 /\ key' = 1
  /\ UNCHANGED <<vars, opts, place, detection, full, lists, packing, orphans,
                 groups>>

ConsumeLeftover ==
  /\ place = "pack" /\ size < opts.min
  /\ groups' = groups \o Consume(packing)
  /\ key' = 1
  /\ place' = "chunks"
  /\ UNCHANGED <<vars, opts, detection, full, lists, size, packing, orphans>>

(***************************************************************************)
(* What a list still has is consumed in chunks sorted by operator<, which  *)
(* orders nodes of reductions totally; less than a chunk makes orphans.    *)
(***************************************************************************)
ReductionPrecedes(m, n) ==
  LET Rank(k) == <<nodes[k].id, nodes[k].unroll, nodes[k].fs, k>>
      Differ  == {i \in 1 .. 4 : Rank(m)[i] # Rank(n)[i]}
  IN  \E i \in Differ : Rank(m)[i] < Rank(n)[i] /\ \A j \in Differ : i <= j

SortNodes(s) == SortedBy(s, {p \in Nat \X Nat : ReductionPrecedes(p[1], p[2])})

Chunks == place = "chunks" /\ key <= Len(lists)

ConsumeChunk ==
  /\ Chunks /\ Len(lists[key]) >= opts.min
  /\ LET n == IF Len(lists[key]) < MaxVectorLength THEN Len(lists[key])
              ELSE MaxVectorLength
     IN  /\ groups' = groups \o Consume(SortNodes(SubSeq(lists[key], 1, n)))
         /\ lists' = [lists EXCEPT ![key] = SubSeq(@, n + 1, Len(@))]
  /\ UNCHANGED <<vars, opts, place, detection, full, key, size, packing, orphans>>

InsertOrphans ==
  /\ Chunks /\ Len(lists[key]) < opts.min
  /\ orphans' = orphans \o lists[key]
  /\ key' = key + 1
  /\ UNCHANGED <<vars, opts, place, detection, full, lists, size, packing, groups>>

-------------------------------------------------------------------------------
(***************************************************************************)
(* searchMapNodes: from each orphan on, those of the following ones whose  *)
(* indices count up by one; at least four of them make a group.            *)
(***************************************************************************)
IndexOf(s, i) == Index(nodes[s[i]].out)

AddToMapping(s, used, r, j) ==
  LET gap == IndexOf(s, j) - IndexOf(s, Last(r.at))
  IN  IF r.closed \/ gap = 0 \/ j \in used THEN r
      ELSE IF gap = 1 THEN [r EXCEPT !.at = Append(@, j)]
      ELSE [r EXCEPT !.closed = TRUE]

Mapping(s, used, i) ==
  Through(Len(s) - i, [at |-> <<i>>, closed |-> FALSE],
          LAMBDA r, d : AddToMapping(s, used, r, i + d)).at

ElementsAt(s, m) == [j \in DOMAIN m |-> s[m[j]]]

SearchFrom(s, r, i) ==
  LET m == Mapping(s, r.used, i)
  IN  IF i \in r.used \/ Len(m) < 4 THEN r
      ELSE [used   |-> r.used \cup Members(m),
            groups |-> r.groups \o Consume(ElementsAt(s, m))]

NothingFound == [used |-> {}, groups |-> <<>>]

SearchMapNodes(s) ==
  Through(Len(s), NothingFound, LAMBDA r, i : SearchFrom(s, r, i))

AllButAt(s, I) == Kept(s, DOMAIN s \ I)

ConsumeAlong(s) == Through(Len(s), <<>>, LAMBDA gs, i : gs \o Consume(<<s[i]>>))

Orphaned == place = "chunks" /\ key > Len(lists)

SomeNoElement == \E i \in DOMAIN orphans : Index(nodes[orphans[i]].out) = NoIndex

ConsumeOrphans ==
  /\ Orphaned /\ (opts.disableOrphans \/ ~SomeNoElement)
  /\ LET s == SortNodes(orphans)
         r == IF opts.disableOrphans THEN NothingFound ELSE SearchMapNodes(s)
     IN  groups' = groups \o r.groups \o ConsumeAlong(AllButAt(s, r.used))
  /\ place' = "window"
  /\ UNCHANGED <<vars, opts, detection, windows>>

(***************************************************************************)
(* An orphan that is no array element is taken for one: the cast returns   *)
(* null, which is not looked at.  The model says nothing of what follows.  *)
(***************************************************************************)
SearchNoElement ==
  /\ Orphaned /\ ~opts.disableOrphans /\ SomeNoElement
  /\ place' = "undefined"
  /\ UNCHANGED <<vars, opts, detection, windows, groups>>

ConsumeOthers ==
  /\ place = "window" /\ full = <<>>
  /\ groups' = groups \o Greedy(others)
  /\ place' = "packed"
  /\ UNCHANGED <<vars, opts, detection, windows>>

PackingStep ==
  \/ BeginDetection \/ VisitNode \/ EndDetection
  \/ TakeWindow \/ TakePiece \/ NextList \/ HalveSize \/ ConsumeLeftover
  \/ ConsumeChunk \/ InsertOrphans \/ ConsumeOrphans \/ SearchNoElement
  \/ ConsumeOthers

Stopped ==
  /\ pc = "undefined" \/ place \in {"packed", "undefined"}
  /\ UNCHANGED <<vars, packVars>>

CompilerStep == (Step /\ UNCHANGED packVars) \/ PackingStep

PackNext == CompilerStep \/ Stopped

PackSpec == PackInit /\ [][PackNext]_<<vars, packVars>>

-------------------------------------------------------------------------------
(***************************************************************************)
(* What more the order of the groups takes, besides lists that are well    *)
(* formed and unrolled in order.  The TACs of a location are in the order  *)
(* of their TacIDs (so are those of at most one loop that is unrolled: the *)
(* copies of an inner loop have their offsets overwritten).  A location is *)
(* only assigned what an operation has computed, and no temporary is an    *)
(* operand twice.                                                          *)
(***************************************************************************)
LocationsInOrder(tl) ==
  \A p, q \in DOMAIN tl : p < q /\ tl[p].a = tl[q].a /\ tl[p].a \notin Temps =>
    tl[p].id < tl[q].id \/ (tl[p].id = tl[q].id /\ tl[p].unroll < tl[q].unroll)

ValuesReadOnce(tl) ==
  /\ \A p \in DOMAIN tl : tl[p].a \in Temps \/ (IsAssignment(tl[p]) /\ tl[p].c \in Temps)
  /\ \A p, q \in DOMAIN tl :
       \A i \in DOMAIN Operands(tl[p]), j \in DOMAIN Operands(tl[q]) :
         Operands(tl[p])[i] \in Temps /\ Operands(tl[p])[i] = Operands(tl[q])[j] => p = q

Emitted == FlattenSeq(groups)

\* Every variable has its type; no packing has more nodes than a vector of floats
\* has slots and no group more than its type's, all with one operation.
PackTypeOK ==
  /\ opts \in Options
  /\ place \in {"detect", "visit", "window", "pack", "chunks", "packed",
                "undefined"}
  /\ cursor \in 0 .. Len(order)
  /\ \A s \in {redux, others, packing, orphans} \cup Members(full)
             \cup Members(lists) : Members(s) \subseteq DOMAIN nodes
  /\ flagged \subseteq DOMAIN nodes
  /\ key \in Nat /\ size \in Nat
  /\ Len(packing) <= MaxVectorLength
  /\ \A g \in Members(groups) :
       /\ Len(g) \in 1 .. Slots /\ Members(g) \subseteq DOMAIN nodes
       /\ \A i \in DOMAIN g : nodes[g[i]].op = nodes[g[1]].op

\* No store is packed twice, over chains that share nodes, windows, pieces, chunks,
\* orphans and the greedy consumer.  (An operation that stores nothing may be:
\* it is put back in front of its reader though it is in a chain itself.)
StoredOnce ==
  \A i, j \in DOMAIN Emitted :
    Emitted[i] = Emitted[j] /\ nodes[Emitted[i]].store => i = j

\* The operations whose temporaries a chain reads read only what is stored.  What
\* such an operation reads is flagged no more than it is put back: consumeNodes
\* looks one operation deep, and leaves what is deeper to the groups that follow.
ChainsReadShallow ==
  \A n \in Members(redux) : \A m \in NodesRead(n) :
    ~nodes[m].store => \A k \in NodesRead(m) : nodes[k].store

\* When a node is packed, the operations that compute its temporaries have been
\* packed before it, whether they were taken for a chain, for what a chain reads
\* or for neither.  (It is not so where chains read deeper: of x = (a + b) * c + x,
\* unrolled, the sum a + b is packed behind the product that reads it.)
TemporariesFirst ==
  ChainsReadShallow =>
    \A i \in DOMAIN Emitted : \A m \in NodesRead(Emitted[i]) :
      ~nodes[m].store => \E j \in 1 .. i - 1 : Emitted[j] = m

\* What reduces into one location is packed in the order of the code, whatever
\* pieces, chunks and orphans its list is cut into.  (With more than one orphan of
\* a list searchMapNodes may take a later one first.)
AccumulateInOrder ==
  \A i, j \in DOMAIN Emitted :
    /\ i < j /\ (opts.min <= 2 \/ opts.disableOrphans)
    /\ {Emitted[i], Emitted[j]} \subseteq Members(redux)
    /\ nodes[Emitted[i]].store /\ nodes[Emitted[j]].store
    /\ nodes[Emitted[i]].out = nodes[Emitted[j]].out
    => Emitted[i] < Emitted[j]

\* What is not packed at the end is a store whose value a reduction reads; nothing
\* else is lost between the list of reductions and the list of the rest.
LostOnlyIfReduced ==
  place = "packed" =>
    \A n \in DOMAIN nodes \ Members(Emitted) :
      nodes[n].store /\ \E m \in Members(redux) : n \in NodesRead(m)

(***************************************************************************)
(* What is left to do, the most important part first: the phase, the nodes *)
(* to visit and the lists to come, the part of the window's work, the size *)
(* of the pieces, the lists of the window and the nodes of the list.       *)
(***************************************************************************)
Work ==
  LET phase  == CASE place = "detect" -> 3
                  [] place = "visit" -> 2
                  [] place \in {"window", "pack", "chunks"} -> 1
                  [] OTHER -> 0
      part   == CASE place = "pack" -> 2 [] place = "chunks" -> 1 [] OTHER -> 0
      behind == Len(lists) + 1 - key
      nodesOf == IF key \in DOMAIN lists THEN Len(lists[key]) ELSE 0
  IN  <<phase, IF phase = 1 THEN Len(full) ELSE cursor, part, size, behind,
        nodesOf>>

LessWork(v, w) ==
  \E i \in DOMAIN v : v[i] < w[i] /\ \A j \in 1 .. i - 1 : v[j] = w[j]

NothingNegative(v) == \A i \in DOMAIN v : v[i] >= 0

\* The packing ends: each of its steps leaves less to do, in an order in which
\* nothing gets less for ever, since no part of the work gets negative.
StepsLeaveLess == [][LessWork(Work', Work) /\ NothingNegative(Work')]_packVars

\* "get reductions first, then deal with the rest" (MVCostModel.cpp:411): what
\* the scop computes is all in one or the other.
RestIsDealtWith == place = "packed" => Members(Emitted) = DOMAIN nodes
===============================================================================
