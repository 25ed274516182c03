----------------------------- MODULE PackingProofs -----------------------------
(***************************************************************************)
(* For every set of lists that are well-formed and unrolled in order, every*)
(* options and each of the three register widths: the type invariant of    *)
(* Packing, that no store is packed twice, that at the end nothing is      *)
(* missing but stores a reduction reads, and that the packing ends.        *)
(*                                                                         *)
(* The proof follows the nodes.  First the operators: what a group, a      *)
(* chain, a mapping, the roots and the lists per location have as members  *)
(* (by ListProofs, an induction for each loop).  Then an account of the    *)
(* nodes in chains: packed, at hand (packing or orphans), in the window's  *)
(* lists from key on, or in those to come; no store is in two of these,    *)
(* and what is packed was packed with the temporaries it reads.  A step    *)
(* moves nodes from one of these places to the next.                       *)
(***************************************************************************)
EXTENDS Packing, CDAGScheduleProofs

-------------------------------------------------------------------------------
(***************************************************************************)
(* greedyOpsConsumer.                                                      *)
(***************************************************************************)
OneOperation(g) ==
  Len(g) \in 1 .. Slots /\ \A i \in DOMAIN g : nodes[g[i]].op = nodes[g[1]].op

AllOneOperation(gs) == \A k \in DOMAIN gs : OneOperation(gs[k])

\* A node goes to the end of the last group or makes one of its own.
LEMMA AddedToGroups ==
  ASSUME NEW S, NEW gs \in Seq(Seq(S)), AllOneOperation(gs), NEW x \in S
  PROVE  LET hs == AddToGroups(gs, x)
         IN  /\ hs \in Seq(Seq(S)) /\ AllOneOperation(hs)
             /\ FlattenSeq(hs) = Append(FlattenSeq(gs), x)
<1>1. Slots \in Nat /\ 1 <= Slots
  BY SlotsAssumption
<1>2. CASE ~Takes(gs, x)
  <2> DEFINE g == <<x>>
             hs == Append(gs, g)
  <2>1. g \in Seq(S) /\ Len(g) = 1 /\ DOMAIN g = {1}
    OBVIOUS
  <2>2. OneOperation(g)
    BY <1>1, <2>1 DEF OneOperation
  <2> HIDE DEF g
  <2>3. /\ hs \in Seq(Seq(S)) /\ Len(hs) = Len(gs) + 1 /\ DOMAIN hs = 1 .. Len(gs) + 1
        /\ hs[Len(gs) + 1] = g /\ \A k \in 1 .. Len(gs) : hs[k] = gs[k]
        /\ Len(gs) \in Nat /\ DOMAIN gs = 1 .. Len(gs)
    BY <2>1
  <2>4. AllOneOperation(hs)
    BY <2>2, <2>3 DEF AllOneOperation
  <2>5. hs = gs \o <<g>> /\ <<g>> \in Seq(Seq(S))
    BY <2>1
  <2>6. FlattenSeq(hs) = FlattenSeq(gs) \o FlattenSeq(<<g>>) /\ FlattenSeq(gs) \in Seq(S)
    BY <2>5, FlatConcat
  <2>7. FlattenSeq(<<g>>) = g
    BY <2>1, FlatFew
  <2>8. FlattenSeq(hs) = Append(FlattenSeq(gs), x)
    <3>1. PICK t \in Seq(S) : t = FlattenSeq(gs)
      BY <2>6
    <3>2. t \o <<x>> = Append(t, x)
      OBVIOUS
    <3>3. QED
      BY <2>6, <2>7, <3>1, <3>2 DEF g
  <2>9. AddToGroups(gs, x) = hs
    BY <1>2 DEF AddToGroups, g
  <2>10. QED
    BY <2>3, <2>4, <2>8, <2>9
<1>3. CASE Takes(gs, x)
  <2> DEFINE m == Len(gs)
             l == gs[m]
             fs == SubSeq(gs, 1, m - 1)
             g == Append(l, x)
             hs == Append(fs, g)
  <2>1. /\ m \in Nat \ {0} /\ DOMAIN gs = 1 .. m /\ l \in Seq(S)
        /\ Len(l) < Slots /\ nodes[l[Len(l)]].op = nodes[x].op
    BY <1>3 DEF Takes, Last
  <2>2. AddToGroups(gs, x) = hs
    BY <1>3 DEF AddToGroups, Last, Front
  <2>3. /\ fs \in Seq(Seq(S)) /\ Len(fs) = m - 1 /\ DOMAIN fs = 1 .. m - 1
        /\ \A k \in 1 .. m - 1 : fs[k] = gs[k]
    BY <2>1
  <2>4. gs = fs \o <<l>>
    <3> DEFINE us == fs \o <<l>>
    <3>1. <<l>> \in Seq(Seq(S)) /\ Len(<<l>>) = 1 /\ <<l>>[1] = l
      BY <2>1
    <3>2. /\ us \in Seq(Seq(S)) /\ Len(us) = Len(fs) + Len(<<l>>)
          /\ \A k \in 1 .. Len(fs) + Len(<<l>>) :
               us[k] = IF k <= Len(fs) THEN fs[k] ELSE <<l>>[k - Len(fs)]
      BY <2>3, <3>1, ConcatProperties
    <3>3. (m - 1) + 1 = m /\ m - (m - 1) = 1
      BY <2>1
    <3> HIDE DEF us, fs, m
    <3>4. Len(us) = m /\ \A k \in 1 .. m : us[k] = gs[k]
      <4>1. Len(us) = m
        BY <2>1, <2>3, <3>1, <3>2
      <4>2. \A k \in 1 .. m : k <= m - 1 => us[k] = gs[k]
        BY SMTT(30), <2>1, <2>3, <3>1, <3>2
      <4>3. us[m] = gs[m]
        BY <2>1, <2>3, <3>1, <3>2, <3>3
      <4>4. QED
        BY <2>1, <4>1, <4>2, <4>3
    <3>5. us = gs
      BY <2>1, <3>2, <3>4, SeqEqual DEF m
    <3>6. QED
      BY <3>5 DEF us
  <2> HIDE DEF fs, l, m
  <2>5. OneOperation(l)
    BY <2>1 DEF AllOneOperation, l
  <2>6. /\ g \in Seq(S) /\ Len(g) = Len(l) + 1 /\ DOMAIN g = 1 .. Len(l) + 1
        /\ g[Len(l) + 1] = x /\ \A k \in 1 .. Len(l) : g[k] = l[k]
        /\ Len(l) \in Nat /\ DOMAIN l = 1 .. Len(l)
    BY <2>1
  <2>7. g = l \o <<x>>
    BY <2>1
  <2> HIDE DEF g
  <2>8. OneOperation(g)
    <3>1. 1 \in 1 .. Len(l) /\ Len(l) \in 1 .. Len(l)
      BY <2>5, <2>6 DEF OneOperation
    <3>2. \A k \in 1 .. Len(l) : nodes[l[k]].op = nodes[l[1]].op
      BY <2>5, <2>6 DEF OneOperation
    <3>3. Len(g) \in 1 .. Slots
      BY <1>1, <2>1, <2>6
    <3>4. \A k \in 1 .. Len(l) + 1 : nodes[g[k]].op = nodes[g[1]].op
      <4>1. \A k \in 1 .. Len(l) : nodes[g[k]].op = nodes[g[1]].op
        BY <2>6, <3>1, <3>2
      <4>2. nodes[g[Len(l) + 1]].op = nodes[g[1]].op
        BY <2>1, <2>6, <3>1, <3>2
      <4>3. \A k \in 1 .. Len(l) + 1 : k \in 1 .. Len(l) \/ k = Len(l) + 1
        BY <2>6
      <4>4. QED
        BY <4>1, <4>2, <4>3
    <3>5. QED
      BY <2>6, <3>3, <3>4 DEF OneOperation
  <2>9. /\ hs \in Seq(Seq(S)) /\ DOMAIN hs = 1 .. m
        /\ hs[m] = g /\ \A k \in 1 .. m - 1 : hs[k] = fs[k]
    BY <2>1, <2>3, <2>6
  <2>10. AllOneOperation(hs)
    <3>1. \A k \in 1 .. m : k = m \/ k \in 1 .. m - 1
      BY <2>1
    <3>2. \A k \in 1 .. m - 1 : OneOperation(gs[k])
      <4>1. \A k \in DOMAIN gs : OneOperation(gs[k])
        BY DEF AllOneOperation
      <4>2. \A k \in 1 .. m - 1 : k \in DOMAIN gs
        BY <2>1
      <4>3. QED
        BY <4>1, <4>2
    <3>3. QED
      BY <2>3, <2>8, <2>9, <3>1, <3>2 DEF AllOneOperation
  <2>11. hs = fs \o <<g>>
    BY <2>3, <2>6
  <2> HIDE DEF hs
  <2>12. <<l>> \in Seq(Seq(S)) /\ <<g>> \in Seq(Seq(S))
    BY <2>1, <2>6
  <2>13. FlattenSeq(<<l>>) = l /\ FlattenSeq(<<g>>) = g
    BY <2>1, <2>6, FlatFew
  <2>14. FlattenSeq(fs) \in Seq(S)
    BY <2>3, FlatConcat
  <2>15. FlattenSeq(gs) = FlattenSeq(fs) \o l /\ FlattenSeq(hs) = FlattenSeq(fs) \o g
    BY <2>3, <2>4, <2>11, <2>12, <2>13, FlatConcat
  <2>16. PICK t \in Seq(S), u \in Seq(S) : t = FlattenSeq(fs) /\ u = l
    BY <2>1, <2>14
  <2>17. t \o (u \o <<x>>) = Append(t \o u, x)
    <3>1. <<x>> \in Seq(S)
      OBVIOUS
    <3>2. (t \o u) \o <<x>> = t \o (u \o <<x>>)
      BY <3>1, ConcatAssociative
    <3>3. t \o u \in Seq(S)
      OBVIOUS
    <3>4. PICK v \in Seq(S) : v = t \o u
      BY <3>3
    <3>5. v \o <<x>> = Append(v, x)
      OBVIOUS
    <3>6. QED
      BY <3>2, <3>4, <3>5
  <2>18. QED
    BY <2>2, <2>7, <2>9, <2>10, <2>15, <2>16, <2>17 DEF hs
<1>4. QED
  BY <1>2, <1>3

\* The groups have the nodes in their order, each with one operation.
LEMMA GreedyGroups ==
  ASSUME NEW S, NEW s \in Seq(S)
  PROVE  LET gs == Greedy(s)
         IN  gs \in Seq(Seq(S)) /\ AllOneOperation(gs) /\ FlattenSeq(gs) = s
<1> DEFINE len == Len(s)
           V(n) == {gs \in Seq(Seq(S)) : AllOneOperation(gs) /\ FlattenSeq(gs) = SubSeq(s, 1, n)}
           b == <<>>
           Body(r, n) == AddToGroups(r, s[n])
           From(g, n) == IF n = 0 THEN b ELSE Body(g[n - 1], n)
           Vs == [n \in 0 .. len |-> V(n)]
           step == [n \in 1 .. len |-> [r \in V(n - 1) |-> Body(r, n)]]
<1>1. len \in Nat /\ b \in V(0)
  <2>1. SubSeq(s, 1, 0) = <<>> /\ len \in Nat
    BY OneMoreElement, LenProperties
  <2>2. <<>> \in Seq(Seq(S)) /\ AllOneOperation(<<>>)
    BY DEF AllOneOperation
  <2>3. QED
    BY <2>1, <2>2, FlatFew
<1>2. \A n \in 1 .. len : \A r \in V(n - 1) : Body(r, n) \in V(n)
  <2> SUFFICES ASSUME NEW n \in 1 .. len, NEW gs \in V(n - 1)
               PROVE  Body(gs, n) \in V(n)
    OBVIOUS
  <2>1. /\ SubSeq(s, 1, n) = Append(SubSeq(s, 1, n - 1), s[n])
        /\ s[n] \in S
    BY OneMoreElement
  <2>2. gs \in Seq(Seq(S)) /\ AllOneOperation(gs) /\ FlattenSeq(gs) = SubSeq(s, 1, n - 1)
    OBVIOUS
  <2>3. PICK x \in S : x = s[n]
    BY <2>1
  <2> DEFINE hs == AddToGroups(gs, x)
  <2>4. /\ hs \in Seq(Seq(S)) /\ AllOneOperation(hs)
        /\ FlattenSeq(hs) = Append(FlattenSeq(gs), x)
    BY <2>2, AddedToGroups
  <2> HIDE DEF hs
  <2>5. hs \in V(n)
    BY <2>1, <2>2, <2>3, <2>4
  <2>6. QED
    BY <2>3, <2>5 DEF hs
<1>3. Greedy(s) = (CHOOSE g : g = [n \in 0 .. len |-> From(g, n)])[len]
  BY DEF Greedy, Through
<1> HIDE DEF V, len, b, Body
<1>4. /\ \A n \in 0 .. len : Vs[n] = V(n)
      /\ \A n \in 1 .. len : n - 1 \in 0 .. len /\ n \in 0 .. len
      /\ \A n \in 1 .. len : \A r \in V(n - 1) : step[n][r] = Body(r, n)
  BY <1>1
<1> HIDE DEF Vs, step
<1>5. b \in Vs[0] /\ StaysIn(step, len, Vs)
  BY <1>1, <1>2, <1>4 DEF StaysIn
<1>6. PICK f : Solution(f, len, Vs, b, step)
  BY <1>1, <1>5, Recursion
<1>7. f = [n \in 0 .. len |-> From(f, n)]
  <2>1. \A n \in 1 .. len : f[n] = Body(f[n - 1], n)
    BY <1>4, <1>6 DEF Solution
  <2>2. \A n \in 0 .. len : f[n] = From(f, n)
    <3>1. \A n \in 0 .. len : n = 0 \/ (n # 0 /\ n \in 1 .. len)
      BY <1>1
    <3>2. f[0] = b
      BY <1>6 DEF Solution
    <3>3. QED
      BY <2>1, <3>1, <3>2
  <2> HIDE DEF From
  <2>3. QED
    BY <1>6, <2>2 DEF Solution
<1> DEFINE g == CHOOSE h : h = [n \in 0 .. len |-> From(h, n)]
<1>8. g = [n \in 0 .. len |-> From(g, n)]
  <2> HIDE DEF From
  <2>1. QED
    BY <1>7
<1> HIDE DEF g
<1>9. g[len] \in V(len)
  <2> DEFINE K == {n \in 0 .. len : g[n] \in V(n)}
  <2>1. 0 \in K
    BY <1>1, <1>8
  <2>2. ASSUME NEW n \in Nat, n < len, n \in K
        PROVE  n + 1 \in K
    <3>1. n + 1 \in 1 .. len /\ n + 1 \in 0 .. len /\ (n + 1) - 1 = n /\ n + 1 # 0
      BY <1>1, <2>2
    <3>2. g[n + 1] = Body(g[n], n + 1)
      BY <1>8, <3>1
    <3>3. QED
      BY <1>2, <2>2, <3>1, <3>2
  <2> HIDE DEF K
  <2>3. 0 .. len \subseteq K
    BY <1>1, <2>1, <2>2, InductionUpTo
  <2>4. QED
    BY <1>1, <2>3 DEF K
<1>10. Greedy(s) \in V(len)
  BY <1>3, <1>9 DEF g
<1>11. QED
  BY <1>10, OneMoreElement DEF V, len

-------------------------------------------------------------------------------
(***************************************************************************)
(* consumeNodes.  What a node reads and no location keeps is put in front  *)
(* of it.                                                                  *)
(***************************************************************************)
Read(n) == {k \in NodesRead(n) : ~nodes[k].store}

Stores == {n \in DOMAIN nodes : nodes[n].store}

\* A node reads nodes of the graph, older ones.
LEMMA NodesReadOlder ==
  ASSUME TypedNodes(nodes), NEW n \in DOMAIN nodes
  PROVE  /\ n \in Nat /\ DOMAIN nodes = 1 .. Len(nodes) /\ Len(nodes) \in Nat
         /\ NodesRead(n) \subseteq DOMAIN nodes
         /\ \A k \in NodesRead(n) : k < n
         /\ nodes[n].ins \in Seq(Inputs) /\ Len(nodes[n].ins) \in Nat
         /\ DOMAIN nodes[n].ins = 1 .. Len(nodes[n].ins)
         /\ \A i \in DOMAIN nodes[n].ins :
              /\ nodes[n].ins[i].node \in Nat
              /\ nodes[n].ins[i].node # 0 => nodes[n].ins[i].node \in DOMAIN nodes
<1>1. /\ Len(nodes) \in Nat /\ DOMAIN nodes = 1 .. Len(nodes)
      /\ InputsType(nodes[n].ins, n)
  BY TypedIsFew DEF TypedNode
<1>2. PICK ins \in Seq(Inputs) : ins = nodes[n].ins
  BY <1>1 DEF InputsType
<1>3. DOMAIN ins = 1 .. Len(ins) /\ Len(ins) \in Nat
  BY LenProperties
<1>4. \A i \in DOMAIN ins : ins[i].node \in Nat /\ ins[i].node < n
  <2>1. \A i \in DOMAIN ins : ins[i] \in Inputs
    BY <1>3, ElementOfSeq
  <2>2. QED
    BY <1>1, <1>2, <2>1 DEF InputsType, Inputs
<1>5. \A k \in NodesRead(n) : k \in DOMAIN nodes /\ k < n
  BY <1>1, <1>2, <1>4 DEF NodesRead
<1>6. \A i \in DOMAIN ins : ins[i].node # 0 => ins[i].node \in DOMAIN nodes
  BY <1>1, <1>4
<1>7. QED
  BY <1>1, <1>2, <1>3, <1>4, <1>5, <1>6

\* PrevOps are the operations a node reads the temporaries of.
LEMMA PrevOpsMembers ==
  ASSUME TypedNodes(nodes), NEW n \in DOMAIN nodes
  PROVE  PrevOps(n) \in Seq(DOMAIN nodes) /\ Members(PrevOps(n)) = Read(n)
<1> DEFINE read == [i \in DOMAIN nodes[n].ins |-> nodes[n].ins[i].node]
           I == {i \in DOMAIN read : read[i] # 0 /\ ~nodes[read[i]].store}
<1>1. PrevOps(n) = Kept(read, I)
  BY DEF PrevOps
<1>2. DOMAIN read = DOMAIN nodes[n].ins
  OBVIOUS
<1>3. read \in Seq(Nat)
  BY NodesReadOlder
<1>4. \A x : x \in Read(n) <=> \E i \in DOMAIN read : i \in I /\ x = read[i]
  BY DEF Read, NodesRead
<1> HIDE DEF read
<1>5. Kept(read, I) \in Seq(Nat) /\ Members(Kept(read, I)) = {read[i] : i \in {j \in DOMAIN read : j \in I}}
  <2> HIDE DEF I
  <2>1. QED
    BY <1>3, KeptMembers
<1>6. Members(Kept(read, I)) = Read(n)
  <2> HIDE DEF I
  <2>1. QED
    BY <1>4, <1>5
<1>7. Read(n) \subseteq DOMAIN nodes
  BY NodesReadOlder DEF Read
<1>8. QED
  BY <1>1, <1>5, <1>6, <1>7, SeqOfMembers

\* AllPrevOps are those of all the nodes.
LEMMA AllPrevOpsMembers ==
  ASSUME TypedNodes(nodes), NEW s \in Seq(DOMAIN nodes)
  PROVE  /\ AllPrevOps(s) \in Seq(DOMAIN nodes)
         /\ Members(AllPrevOps(s)) = UNION {Read(n) : n \in Members(s)}
<1> DEFINE len == Len(s)
           V(n) == {t \in Seq(DOMAIN nodes) : Members(t) = UNION {Read(s[i]) : i \in 1 .. n}}
           b == <<>>
           Body(r, n) == r \o PrevOps(s[n])
           From(g, n) == IF n = 0 THEN b ELSE Body(g[n - 1], n)
           Vs == [n \in 0 .. len |-> V(n)]
           step == [n \in 1 .. len |-> [r \in V(n - 1) |-> Body(r, n)]]
<1>1. len \in Nat /\ b \in V(0)
  <2>1. UNION {Read(s[i]) : i \in 1 .. 0} = {}
    OBVIOUS
  <2>2. QED
    BY <2>1, FewMembers, LenProperties
<1>2. \A n \in 1 .. len : \A r \in V(n - 1) : Body(r, n) \in V(n)
  <2> SUFFICES ASSUME NEW n \in 1 .. len, NEW t \in V(n - 1)
               PROVE  Body(t, n) \in V(n)
    OBVIOUS
  <2>1. s[n] \in DOMAIN nodes
    BY ElementOfSeq
  <2>2. t \in Seq(DOMAIN nodes) /\ Members(t) = UNION {Read(s[i]) : i \in 1 .. n - 1}
    OBVIOUS
  <2>3. PICK u \in Seq(DOMAIN nodes) : u = PrevOps(s[n]) /\ Members(u) = Read(s[n])
    BY <2>1, PrevOpsMembers
  <2>4. t \o u \in Seq(DOMAIN nodes) /\ Members(t \o u) = Members(t) \cup Members(u)
    BY <2>2, ConcatMembers
  <2>5. \A i : i \in 1 .. n <=> i = n \/ i \in 1 .. n - 1
    BY LenProperties
  <2>6. UNION {Read(s[i]) : i \in 1 .. n} =
          (UNION {Read(s[i]) : i \in 1 .. n - 1}) \cup Read(s[n])
    BY <2>5
  <2>7. Members(t \o u) = UNION {Read(s[i]) : i \in 1 .. n}
    BY <2>2, <2>3, <2>4, <2>6
  <2>8. QED
    BY <2>3, <2>4, <2>7
<1>3. AllPrevOps(s) = (CHOOSE g : g = [n \in 0 .. len |-> From(g, n)])[len]
  BY DEF AllPrevOps, Through
<1> HIDE DEF V, len, b, Body
<1>4. /\ \A n \in 0 .. len : Vs[n] = V(n)
      /\ \A n \in 1 .. len : n - 1 \in 0 .. len /\ n \in 0 .. len
      /\ \A n \in 1 .. len : \A r \in V(n - 1) : step[n][r] = Body(r, n)
  BY <1>1
<1> HIDE DEF Vs, step
<1>5. b \in Vs[0] /\ StaysIn(step, len, Vs)
  BY <1>1, <1>2, <1>4 DEF StaysIn
<1>6. PICK f : Solution(f, len, Vs, b, step)
  BY <1>1, <1>5, Recursion
<1>7. f = [n \in 0 .. len |-> From(f, n)]
  <2>1. \A n \in 1 .. len : f[n] = Body(f[n - 1], n)
    BY <1>4, <1>6 DEF Solution
  <2>2. \A n \in 0 .. len : f[n] = From(f, n)
    <3>1. \A n \in 0 .. len : n = 0 \/ (n # 0 /\ n \in 1 .. len)
      BY <1>1
    <3>2. f[0] = b
      BY <1>6 DEF Solution
    <3>3. QED
      BY <2>1, <3>1, <3>2
  <2> HIDE DEF From
  <2>3. QED
    BY <1>6, <2>2 DEF Solution
<1> DEFINE g == CHOOSE h : h = [n \in 0 .. len |-> From(h, n)]
<1>8. g = [n \in 0 .. len |-> From(g, n)]
  <2> HIDE DEF From
  <2>1. QED
    BY <1>7
<1> HIDE DEF g
<1>9. g[len] \in V(len)
  <2> DEFINE K == {n \in 0 .. len : g[n] \in V(n)}
  <2>1. 0 \in K
    BY <1>1, <1>8
  <2>2. ASSUME NEW n \in Nat, n < len, n \in K
        PROVE  n + 1 \in K
    <3>1. n + 1 \in 1 .. len /\ n + 1 \in 0 .. len /\ (n + 1) - 1 = n /\ n + 1 # 0
      BY <1>1, <2>2
    <3>2. g[n + 1] = Body(g[n], n + 1)
      BY <1>8, <3>1
    <3>3. QED
      BY <1>2, <2>2, <3>1, <3>2
  <2> HIDE DEF K
  <2>3. 0 .. len \subseteq K
    BY <1>1, <2>1, <2>2, InductionUpTo
  <2>4. QED
    BY <1>1, <2>3 DEF K
<1>10. AllPrevOps(s) \in V(len)
  BY <1>3, <1>9 DEF g
<1>11. QED
  <2>1. UNION {Read(n) : n \in Members(s)} = UNION {Read(s[i]) : i \in 1 .. Len(s)}
    BY SeqOfMembers DEF Members
  <2>2. QED
    BY <1>10, <2>1 DEF V, len

(***************************************************************************)
(* The nodes of t stand behind the operations whose temporaries they read. *)
(***************************************************************************)
ReadsFirst(t) == \A i \in DOMAIN t : \A m \in Read(t[i]) : \E j \in 1 .. i - 1 : t[j] = m

\* Nodes behind nodes, some of which may read what the ones in front are.
LEMMA ConcatReadsFirst ==
  ASSUME NEW S, NEW t \in Seq(S), NEW u \in Seq(S), ReadsFirst(t),
         \A i \in DOMAIN u : \A m \in Read(u[i]) :
           m \in Members(t) \/ \E j \in 1 .. i - 1 : u[j] = m
  PROVE  ReadsFirst(t \o u)
<1> DEFINE v == t \o u
           k == Len(t)
           n == Len(u)
<1>1. k \in Nat /\ n \in Nat /\ DOMAIN t = 1 .. k /\ DOMAIN u = 1 .. n
  BY LenProperties
<1>2. /\ v \in Seq(S) /\ Len(v) = k + n
      /\ \A i \in 1 .. k + n : v[i] = IF i <= k THEN t[i] ELSE u[i - k]
  BY ConcatProperties
<1>3. DOMAIN v = 1 .. k + n
  BY <1>2, LenProperties
<1> HIDE DEF v, k, n
<1>4. SUFFICES ASSUME NEW i \in 1 .. k + n, NEW m \in Read(v[i])
               PROVE  \E j \in 1 .. i - 1 : v[j] = m
  BY <1>3 DEF ReadsFirst, v
<1>5. CASE i <= k
  <2>1. i \in 1 .. k /\ v[i] = t[i]
    BY <1>1, <1>2, <1>5
  <2>2. PICK j \in 1 .. i - 1 : t[j] = m
    BY <1>1, <1>4, <2>1 DEF ReadsFirst
  <2>3. j \in 1 .. k + n /\ j <= k
    BY <1>1, <2>1
  <2>4. QED
    BY <1>2, <2>2, <2>3
<1>6. CASE i > k
  <2>1. i - k \in 1 .. n /\ v[i] = u[i - k]
    BY <1>1, <1>2, <1>6
  <2>2. CASE m \in Members(t)
    <3>1. PICK j \in 1 .. k : t[j] = m
      BY <1>1, <2>2 DEF Members
    <3>2. j \in 1 .. i - 1 /\ j \in 1 .. k + n /\ j <= k
      BY <1>1, <1>6
    <3>3. QED
      BY <1>2, <3>1, <3>2
  <2>3. CASE \E j \in 1 .. (i - k) - 1 : u[j] = m
    <3>1. PICK j \in 1 .. (i - k) - 1 : u[j] = m
      BY <2>3
    <3>2. /\ k + j \in 1 .. i - 1 /\ k + j \in 1 .. k + n /\ ~(k + j <= k)
          /\ (k + j) - k = j
      BY <1>1, <2>1
    <3>3. QED
      BY <1>2, <3>1, <3>2
  <2>4. QED
    BY <1>1, <1>4, <2>1, <2>2, <2>3
<1>7. QED
  BY <1>1, <1>5, <1>6

(***************************************************************************)
(* gs packs the nodes of A, each store of them once, no other store, and   *)
(* what the nodes of A read of temporaries; in front of them, where that   *)
(* reads no temporaries in turn.                                           *)
(***************************************************************************)
PackedAs(gs, A) ==
  /\ gs \in Seq(Seq(DOMAIN nodes)) /\ AllOneOperation(gs)
  /\ FlattenSeq(gs) \in Seq(DOMAIN nodes)
  /\ A \subseteq Members(FlattenSeq(gs))
  /\ \A x \in Members(FlattenSeq(gs)) : x \in Stores => x \in A
  /\ OnceIn(FlattenSeq(gs), Stores)
  /\ \A n \in A : Read(n) \subseteq Members(FlattenSeq(gs))
  /\ (\A n \in A : \A m \in Read(n) : Read(m) = {}) => ReadsFirst(FlattenSeq(gs))

\* No groups pack no nodes.
LEMMA PacksNothing == PackedAs(<<>>, {})
<1> DEFINE e == <<>>
<1>1. e \in Seq(Seq(DOMAIN nodes)) /\ e \in Seq(DOMAIN nodes) /\ DOMAIN e = {}
  OBVIOUS
<1>2. FlattenSeq(e) = e /\ Members(e) = {} /\ OnceIn(e, Stores)
  BY FlatFew, FewMembers
<1> HIDE DEF e
<1>3. PackedAs(e, {})
  BY <1>1, <1>2 DEF PackedAs, AllOneOperation, ReadsFirst
<1>4. QED
  BY <1>3 DEF e

\* Groups behind groups pack what both pack.
LEMMA PacksBoth ==
  ASSUME NEW gs, NEW A, PackedAs(gs, A), NEW hs, NEW B, PackedAs(hs, B),
         NoneShared(A, B, Stores)
  PROVE  PackedAs(gs \o hs, A \cup B)
<1> DEFINE D == DOMAIN nodes
<1> HIDE DEF D
<1>1. gs \in Seq(Seq(D)) /\ hs \in Seq(Seq(D))
  BY DEF PackedAs, D
<1>2. PICK t \in Seq(D) : t = FlattenSeq(gs)
  BY DEF PackedAs, D
<1>3. PICK u \in Seq(D) : u = FlattenSeq(hs)
  BY DEF PackedAs, D
<1>4. FlattenSeq(gs \o hs) = t \o u
  BY <1>1, <1>2, <1>3, FlatConcat
<1>5. /\ t \o u \in Seq(D) /\ Members(t \o u) = Members(t) \cup Members(u)
      /\ OnceIn(t, Stores) /\ OnceIn(u, Stores)
         /\ NoneShared(Members(t), Members(u), Stores) => OnceIn(t \o u, Stores)
  BY ConcatMembers
<1>6. /\ A \subseteq Members(t) /\ OnceIn(t, Stores) /\ AllOneOperation(gs)
      /\ \A x \in Members(t) : x \in Stores => x \in A
      /\ \A n \in A : Read(n) \subseteq Members(t)
      /\ (\A n \in A : \A m \in Read(n) : Read(m) = {}) => ReadsFirst(t)
  BY <1>2 DEF PackedAs
<1>7. /\ B \subseteq Members(u) /\ OnceIn(u, Stores) /\ AllOneOperation(hs)
      /\ \A x \in Members(u) : x \in Stores => x \in B
      /\ \A n \in B : Read(n) \subseteq Members(u)
      /\ (\A n \in B : \A m \in Read(n) : Read(m) = {}) => ReadsFirst(u)
  BY <1>3 DEF PackedAs
<1>8. NoneShared(Members(t), Members(u), Stores)
  BY <1>6, <1>7 DEF NoneShared
<1>9. gs \o hs \in Seq(Seq(D)) /\ AllOneOperation(gs \o hs)
  <2>1. gs \o hs \in Seq(Seq(D)) /\ Members(gs \o hs) = Members(gs) \cup Members(hs)
    BY <1>1, ConcatMembers
  <2>2. \A g \in Members(gs) \cup Members(hs) : OneOperation(g)
    BY <1>6, <1>7 DEF AllOneOperation, Members
  <2>3. \A k \in DOMAIN (gs \o hs) : (gs \o hs)[k] \in Members(gs \o hs)
    BY DEF Members
  <2>4. QED
    BY <2>1, <2>2, <2>3 DEF AllOneOperation
<1>10. \A x \in Members(t \o u) : x \in Stores => x \in A \cup B
  BY <1>5, <1>6, <1>7
<1>11. \A n \in A \cup B : Read(n) \subseteq Members(t \o u)
  BY <1>5, <1>6, <1>7
<1>12. A \cup B \subseteq Members(t \o u) /\ OnceIn(t \o u, Stores)
  BY <1>5, <1>6, <1>7, <1>8
<1>13. ASSUME \A n \in A \cup B : \A m \in Read(n) : Read(m) = {}
       PROVE  ReadsFirst(t \o u)
  <2>1. ReadsFirst(t) /\ ReadsFirst(u)
    BY <1>6, <1>7, <1>13
  <2>2. \A i \in DOMAIN u : \A m \in Read(u[i]) : \E j \in 1 .. i - 1 : u[j] = m
    BY <2>1 DEF ReadsFirst
  <2>3. QED
    BY <2>1, <2>2, ConcatReadsFirst
<1>14. QED
  BY <1>4, <1>5, <1>9, <1>10, <1>11, <1>12, <1>13 DEF PackedAs, D

\* consumeNodes packs the nodes it is given.
LEMMA ConsumePacks ==
  ASSUME TypedNodes(nodes), NEW s \in Seq(DOMAIN nodes), OnceIn(s, Stores)
  PROVE  PackedAs(Consume(s), Members(s))
<1>1. PICK p \in Seq(DOMAIN nodes) :
        p = AllPrevOps(s) /\ Members(p) = UNION {Read(n) : n \in Members(s)}
  BY AllPrevOpsMembers
<1>2. PICK t \in Seq(DOMAIN nodes) : t = p \o s
  BY ConcatProperties
<1>3. /\ Members(t) = Members(p) \cup Members(s)
      /\ OnceIn(p, Stores) /\ NoneShared(Members(p), Members(s), Stores) => OnceIn(t, Stores)
  BY <1>2, ConcatMembers
<1>4. \A x \in Members(p) : x \notin Stores
  BY <1>1 DEF Read, Stores
<1>5. OnceIn(p, Stores) /\ NoneShared(Members(p), Members(s), Stores)
  BY <1>4 DEF OnceIn, NoneShared, Members
<1>6. LET gs == Greedy(t)
      IN  /\ gs \in Seq(Seq(DOMAIN nodes)) /\ AllOneOperation(gs)
          /\ FlattenSeq(gs) = t
  BY GreedyGroups
<1>7. Consume(s) = Greedy(t)
  BY <1>1, <1>2 DEF Consume
<1>8. \A n \in Members(s) : Read(n) \subseteq Members(t)
  BY <1>1, <1>3
<1>9. ASSUME \A n \in Members(s) : \A m \in Read(n) : Read(m) = {}
      PROVE  ReadsFirst(t)
  <2>1. \A i \in DOMAIN p : Read(p[i]) = {}
    <3>1. \A x \in UNION {Read(n) : n \in Members(s)} : Read(x) = {}
      BY <1>9
    <3>2. \A i \in DOMAIN p : p[i] \in Members(p)
      BY DEF Members
    <3>3. QED
      BY <1>1, <3>1, <3>2
  <2>2. ReadsFirst(p)
    BY <2>1 DEF ReadsFirst
  <2>3. \A i \in DOMAIN s : \A m \in Read(s[i]) : m \in Members(p)
    BY <1>1 DEF Members
  <2>4. QED
    BY <1>2, <2>2, <2>3, ConcatReadsFirst
<1>10. QED
  BY <1>3, <1>4, <1>5, <1>6, <1>7, <1>8, <1>9 DEF PackedAs

\* The nodes of a list that are consumed one by one are packed.
LEMMA ConsumeAlongPacks ==
  ASSUME TypedNodes(nodes), NEW s \in Seq(DOMAIN nodes), OnceIn(s, Stores)
  PROVE  PackedAs(ConsumeAlong(s), Members(s))
<1> DEFINE len == Len(s)
           V(n) == {gs \in Seq(Seq(DOMAIN nodes)) : PackedAs(gs, {s[i] : i \in 1 .. n})}
           b == <<>>
           Body(r, n) == r \o Consume(<<s[n]>>)
           From(g, n) == IF n = 0 THEN b ELSE Body(g[n - 1], n)
           Vs == [n \in 0 .. len |-> V(n)]
           step == [n \in 1 .. len |-> [r \in V(n - 1) |-> Body(r, n)]]
<1>1. len \in Nat /\ b \in V(0)
  <2>1. {s[i] : i \in 1 .. 0} = {}
    OBVIOUS
  <2>2. <<>> \in Seq(Seq(DOMAIN nodes)) /\ len \in Nat
    BY LenProperties
  <2>3. QED
    BY <2>1, <2>2, PacksNothing
<1>2. \A n \in 1 .. len : \A r \in V(n - 1) : Body(r, n) \in V(n)
  <2> SUFFICES ASSUME NEW n \in 1 .. len, NEW gs \in V(n - 1)
               PROVE  Body(gs, n) \in V(n)
    OBVIOUS
  <2>1. PICK x \in DOMAIN nodes : x = s[n]
    BY ElementOfSeq
  <2>2. PackedAs(gs, {s[i] : i \in 1 .. n - 1})
    OBVIOUS
  <2>3. <<x>> \in Seq(DOMAIN nodes) /\ Members(<<x>>) = {x} /\ OnceIn(<<x>>, Stores)
    BY FewMembers
  <2>4. PICK hs : hs = Consume(<<x>>) /\ PackedAs(hs, {x})
    <3>1. PICK u \in Seq(DOMAIN nodes) : u = <<x>>
      BY <2>3
    <3>2. PackedAs(Consume(u), Members(u))
      BY <2>3, <3>1, ConsumePacks
    <3>3. QED
      BY <2>3, <3>1, <3>2
  <2>5. \A i : i \in 1 .. n <=> i = n \/ i \in 1 .. n - 1
    BY LenProperties
  <2>6. PICK A : A = {s[i] : i \in 1 .. n - 1}
    OBVIOUS
  <2>7. {s[i] : i \in 1 .. n} = A \cup {x}
    BY <2>1, <2>5, <2>6
  <2>8. NoneShared(A, {x}, Stores)
    <3>1. \A i \in 1 .. n - 1 : i \in DOMAIN s /\ n \in DOMAIN s /\ i # n
      BY LenProperties
    <3>2. QED
      BY <2>1, <2>6, <3>1 DEF NoneShared, OnceIn
  <2>9. PackedAs(gs \o hs, A \cup {x})
    BY <2>2, <2>4, <2>6, <2>8, PacksBoth
  <2>10. gs \o hs \in Seq(Seq(DOMAIN nodes))
    BY <2>9 DEF PackedAs
  <2>11. QED
    BY <2>1, <2>4, <2>7, <2>9, <2>10
<1>3. ConsumeAlong(s) = (CHOOSE g : g = [n \in 0 .. len |-> From(g, n)])[len]
  BY DEF ConsumeAlong, Through
<1> HIDE DEF V, len, b, Body
<1>4. /\ \A n \in 0 .. len : Vs[n] = V(n)
      /\ \A n \in 1 .. len : n - 1 \in 0 .. len /\ n \in 0 .. len
      /\ \A n \in 1 .. len : \A r \in V(n - 1) : step[n][r] = Body(r, n)
  BY <1>1
<1> HIDE DEF Vs, step
<1>5. b \in Vs[0] /\ StaysIn(step, len, Vs)
  BY <1>1, <1>2, <1>4 DEF StaysIn
<1>6. PICK f : Solution(f, len, Vs, b, step)
  BY <1>1, <1>5, Recursion
<1>7. f = [n \in 0 .. len |-> From(f, n)]
  <2>1. \A n \in 1 .. len : f[n] = Body(f[n - 1], n)
    BY <1>4, <1>6 DEF Solution
  <2>2. \A n \in 0 .. len : f[n] = From(f, n)
    <3>1. \A n \in 0 .. len : n = 0 \/ (n # 0 /\ n \in 1 .. len)
      BY <1>1
    <3>2. f[0] = b
      BY <1>6 DEF Solution
    <3>3. QED
      BY <2>1, <3>1, <3>2
  <2> HIDE DEF From
  <2>3. QED
    BY <1>6, <2>2 DEF Solution
<1> DEFINE g == CHOOSE h : h = [n \in 0 .. len |-> From(h, n)]
<1>8. g = [n \in 0 .. len |-> From(g, n)]
  <2> HIDE DEF From
  <2>1. QED
    BY <1>7
<1> HIDE DEF g
<1>9. g[len] \in V(len)
  <2> DEFINE K == {n \in 0 .. len : g[n] \in V(n)}
  <2>1. 0 \in K
    BY <1>1, <1>8
  <2>2. ASSUME NEW n \in Nat, n < len, n \in K
        PROVE  n + 1 \in K
    <3>1. n + 1 \in 1 .. len /\ n + 1 \in 0 .. len /\ (n + 1) - 1 = n /\ n + 1 # 0
      BY <1>1, <2>2
    <3>2. g[n + 1] = Body(g[n], n + 1)
      BY <1>8, <3>1
    <3>3. QED
      BY <1>2, <2>2, <3>1, <3>2
  <2> HIDE DEF K
  <2>3. 0 .. len \subseteq K
    BY <1>1, <2>1, <2>2, InductionUpTo
  <2>4. QED
    BY <1>1, <2>3 DEF K
<1>10. ConsumeAlong(s) \in V(len)
  BY <1>3, <1>9 DEF g
<1>11. QED
  <2>1. Members(s) = {s[i] : i \in 1 .. Len(s)}
    BY LenProperties DEF Members
  <2>2. QED
    BY <1>10, <2>1 DEF V, len

-------------------------------------------------------------------------------
(***************************************************************************)
(* searchMapNodes.                                                         *)
(***************************************************************************)
Mapped(taken, i, j, used) ==
  /\ taken \in Seq(i .. j) /\ OnceIn(taken, Nat)
  /\ \A k \in Members(taken) : k # i => k \notin used

Mappings == [at : Seq(Nat), closed : BOOLEAN]

\* The indices mapped so far and, perhaps, one more.
LEMMA AddedToMapping ==
  ASSUME NEW s, NEW used, NEW i \in Nat, NEW j \in Nat, i <= j,
         NEW r \in Mappings, Mapped(r.at, i, j, used)
  PROVE  LET q == AddToMapping(s, used, r, j + 1)
         IN  q \in Mappings /\ Mapped(q.at, i, j + 1, used)
<1> DEFINE q == AddToMapping(s, used, r, j + 1)
           gap == IndexOf(s, j + 1) - IndexOf(s, Last(r.at))
           taken == r.at
<1>1. Mapped(taken, i, j + 1, used) /\ taken \in Seq(Nat)
  <2>1. \A k : k \in i .. j => k \in i .. j + 1
    OBVIOUS
  <2>2. i .. j \subseteq i .. j + 1 /\ i .. j \subseteq Nat
    BY <2>1
  <2>3. taken \in Seq(i .. j + 1) /\ taken \in Seq(Nat)
    BY <2>2 DEF Mapped
  <2>4. QED
    BY <2>3 DEF Mapped
<1>2. CASE r.closed \/ gap = 0 \/ j + 1 \in used
  <2>1. q = r
    BY <1>2 DEF AddToMapping
  <2>2. QED
    BY <1>1, <2>1
<1>3. CASE ~(r.closed \/ gap = 0 \/ j + 1 \in used) /\ gap # 1
  <2>1. q = [r EXCEPT !.closed = TRUE]
    BY <1>3 DEF AddToMapping
  <2>2. q \in Mappings /\ q.at = taken
    BY <2>1 DEF Mappings
  <2>3. QED
    BY <1>1, <2>2
<1>4. CASE ~(r.closed \/ gap = 0 \/ j + 1 \in used) /\ gap = 1
  <2> DEFINE a == Append(taken, j + 1)
  <2>1. q = [r EXCEPT !.at = Append(@, j + 1)]
    BY <1>4 DEF AddToMapping
  <2>2. a \in Seq(Nat)
    BY <1>1
  <2>3. q \in Mappings /\ q.at = a
    BY <2>1, <2>2 DEF Mappings
  <2>4. j + 1 \in i .. j + 1 /\ taken \in Seq(i .. j + 1)
    BY <1>1 DEF Mapped
  <2>5. j + 1 \notin Members(taken)
    <3>1. \A k \in 1 .. Len(taken) : taken[k] \in i .. j
      BY ElementOfSeq DEF Mapped
    <3>2. taken \in Seq(i .. j)
      BY DEF Mapped
    <3>3. DOMAIN taken = 1 .. Len(taken)
      BY <3>2, LenProperties
    <3>4. \A k \in DOMAIN taken : taken[k] # j + 1
      BY <3>1, <3>3
    <3>5. QED
      BY <3>4 DEF Members
  <2>6. /\ a \in Seq(i .. j + 1)
        /\ Members(a) = Members(taken) \cup {j + 1}
        /\ \A X : OnceIn(taken, X) /\ (j + 1 \in X => j + 1 \notin Members(taken))
                  => OnceIn(a, X)
    BY <2>4, AppendMembers
  <2> HIDE DEF a
  <2>7. OnceIn(a, Nat)
    BY <1>1, <2>5, <2>6 DEF Mapped
  <2>8. \A k \in Members(a) : k # i => k \notin used
    BY <1>1, <1>4, <2>6 DEF Mapped
  <2>9. Mapped(a, i, j + 1, used)
    BY <2>6, <2>7, <2>8 DEF Mapped
  <2>10. QED
    BY <2>3, <2>9
<1>5. QED
  BY <1>2, <1>3, <1>4

\* A mapping has indices from i on, each once and none but i in use.
LEMMA MappingFound ==
  ASSUME NEW s, Len(s) \in Nat, NEW used, NEW i \in 1 .. Len(s)
  PROVE  Mapped(Mapping(s, used, i), i, Len(s), used)
<1> DEFINE len == Len(s) - i
           V(n) == {r \in Mappings : Mapped(r.at, i, i + n, used)}
           b == [at |-> <<i>>, closed |-> FALSE]
           Body(r, n) == AddToMapping(s, used, r, i + n)
           From(g, n) == IF n = 0 THEN b ELSE Body(g[n - 1], n)
           Vs == [n \in 0 .. len |-> V(n)]
           step == [n \in 1 .. len |-> [r \in V(n - 1) |-> Body(r, n)]]
<1>1. len \in Nat /\ b \in V(0)
  <2>1. b \in Mappings /\ b.at = <<i>>
    BY DEF Mappings
  <2>2. i .. i + 0 = {i} /\ len \in Nat
    OBVIOUS
  <2>3. <<i>> \in Seq({i}) /\ Members(<<i>>) = {i} /\ OnceIn(<<i>>, Nat)
    BY FewMembers
  <2> HIDE DEF b
  <2>4. Mapped(b.at, i, i + 0, used)
    BY <2>1, <2>2, <2>3 DEF Mapped
  <2>5. QED
    BY <2>1, <2>2, <2>4
<1>2. \A n \in 1 .. len : \A r \in V(n - 1) : Body(r, n) \in V(n)
  <2> SUFFICES ASSUME NEW n \in 1 .. len, NEW r \in V(n - 1)
               PROVE  Body(r, n) \in V(n)
    OBVIOUS
  <2>1. PICK j \in Nat : j = i + (n - 1) /\ i <= j /\ j + 1 = i + n
    OBVIOUS
  <2>2. i \in Nat /\ r \in Mappings /\ Mapped(r.at, i, j, used)
    BY <2>1
  <2>3. LET q == AddToMapping(s, used, r, j + 1)
        IN  q \in Mappings /\ Mapped(q.at, i, j + 1, used)
    BY <2>1, <2>2, AddedToMapping
  <2>4. QED
    BY <2>1, <2>3
<1>3. Mapping(s, used, i) = (CHOOSE g : g = [n \in 0 .. len |-> From(g, n)])[len].at
  BY DEF Mapping, Through
<1> HIDE DEF V, len, b, Body
<1>4. /\ \A n \in 0 .. len : Vs[n] = V(n)
      /\ \A n \in 1 .. len : n - 1 \in 0 .. len /\ n \in 0 .. len
      /\ \A n \in 1 .. len : \A r \in V(n - 1) : step[n][r] = Body(r, n)
  BY <1>1
<1> HIDE DEF Vs, step
<1>5. b \in Vs[0] /\ StaysIn(step, len, Vs)
  BY <1>1, <1>2, <1>4 DEF StaysIn
<1>6. PICK f : Solution(f, len, Vs, b, step)
  BY <1>1, <1>5, Recursion
<1>7. f = [n \in 0 .. len |-> From(f, n)]
  <2>1. \A n \in 1 .. len : f[n] = Body(f[n - 1], n)
    BY <1>4, <1>6 DEF Solution
  <2>2. \A n \in 0 .. len : f[n] = From(f, n)
    <3>1. \A n \in 0 .. len : n = 0 \/ (n # 0 /\ n \in 1 .. len)
      BY <1>1
    <3>2. f[0] = b
      BY <1>6 DEF Solution
    <3>3. QED
      BY <2>1, <3>1, <3>2
  <2> HIDE DEF From
  <2>3. QED
    BY <1>6, <2>2 DEF Solution
<1> DEFINE g == CHOOSE h : h = [n \in 0 .. len |-> From(h, n)]
<1>8. g = [n \in 0 .. len |-> From(g, n)]
  <2> HIDE DEF From
  <2>1. QED
    BY <1>7
<1> HIDE DEF g
<1>9. g[len] \in V(len)
  <2> DEFINE K == {n \in 0 .. len : g[n] \in V(n)}
  <2>1. 0 \in K
    BY <1>1, <1>8
  <2>2. ASSUME NEW n \in Nat, n < len, n \in K
        PROVE  n + 1 \in K
    <3>1. n + 1 \in 1 .. len /\ n + 1 \in 0 .. len /\ (n + 1) - 1 = n /\ n + 1 # 0
      BY <1>1, <2>2
    <3>2. g[n + 1] = Body(g[n], n + 1)
      BY <1>8, <3>1
    <3>3. QED
      BY <1>2, <2>2, <3>1, <3>2
  <2> HIDE DEF K
  <2>3. 0 .. len \subseteq K
    BY <1>1, <2>1, <2>2, InductionUpTo
  <2>4. QED
    BY <1>1, <2>3 DEF K
<1>10. g[len] \in V(len) /\ Mapping(s, used, i) = g[len].at
  BY <1>3, <1>9 DEF g
<1>11. QED
  <2>1. i + len = Len(s)
    BY DEF len
  <2>2. QED
    BY <1>10, <2>1 DEF V

(***************************************************************************)
(* What has been found, of the orphans s.                                  *)
(***************************************************************************)
FoundIn(r, s) ==
  /\ r = [used |-> r.used, groups |-> r.groups]
  /\ r.used \subseteq DOMAIN s
  /\ PackedAs(r.groups, {s[i] : i \in r.used})

\* The orphans that count up from one of them are packed.
LEMMA SearchesFrom ==
  ASSUME TypedNodes(nodes), NEW s \in Seq(DOMAIN nodes), OnceIn(s, Stores),
         NEW r, FoundIn(r, s), NEW i \in 1 .. Len(s)
  PROVE  FoundIn(SearchFrom(s, r, i), s)
<1> DEFINE m == Mapping(s, r.used, i)
           e == ElementsAt(s, m)
           u == r.used \cup Members(m)
<1>1. CASE i \in r.used \/ Len(m) < 4
  BY <1>1 DEF SearchFrom
<1>2. CASE ~(i \in r.used \/ Len(m) < 4)
  <2>1. SearchFrom(s, r, i) = [used |-> u, groups |-> r.groups \o Consume(e)]
    BY <1>2 DEF SearchFrom
  <2>2. DOMAIN s = 1 .. Len(s) /\ Len(s) \in Nat /\ \A k \in 1 .. Len(s) : s[k] \in DOMAIN nodes
    BY LenProperties, ElementOfSeq
  <2>3. Mapped(m, i, Len(s), r.used)
    BY <2>2, MappingFound
  <2> HIDE DEF m
  <2>4. /\ m \in Seq(i .. Len(s)) /\ DOMAIN m = 1 .. Len(m) /\ Len(m) \in Nat
        /\ \A k \in DOMAIN m : m[k] \in i .. Len(s) /\ m[k] \in DOMAIN s
    <3>1. m \in Seq(i .. Len(s))
      BY <2>3 DEF Mapped
    <3>2. DOMAIN m = 1 .. Len(m) /\ Len(m) \in Nat /\ \A k \in 1 .. Len(m) : m[k] \in i .. Len(s)
      BY <3>1, LenProperties, ElementOfSeq
    <3>3. \A k \in i .. Len(s) : k \in DOMAIN s
      BY <2>2
    <3>4. QED
      BY <3>1, <3>2, <3>3
  <2>5. e = [k \in 1 .. Len(m) |-> s[m[k]]]
    BY <2>4 DEF ElementsAt
  <2>6. e \in Seq(DOMAIN nodes) /\ DOMAIN e = DOMAIN m /\ \A k \in DOMAIN m : e[k] = s[m[k]]
    <3>1. \A k \in 1 .. Len(m) : s[m[k]] \in DOMAIN nodes
      BY <2>2, <2>4
    <3>2. QED
      BY <2>4, <2>5, <3>1
  <2> HIDE DEF e
  <2>7. Members(e) = {s[k] : k \in Members(m)}
    BY <2>6 DEF Members
  <2>8. \A k \in Members(m) : k \in DOMAIN s /\ k \notin r.used
    <3>1. \A k \in Members(m) : k \in DOMAIN s
      BY <2>4 DEF Members
    <3>2. QED
      BY <1>2, <2>3, <3>1 DEF Mapped
  <2>9. OnceIn(e, Stores)
    <3>1. SUFFICES ASSUME NEW k \in DOMAIN e, NEW l \in DOMAIN e, e[k] = e[l], e[k] \in Stores
                   PROVE  k = l
      BY DEF OnceIn
    <3>2. m[k] = m[l]
      BY <2>4, <2>6, <3>1 DEF OnceIn
    <3>3. m[k] \in Nat
      BY <2>2, <2>4, <2>6
    <3>4. QED
      BY <2>3, <2>6, <3>2, <3>3 DEF Mapped, OnceIn
  <2>10. PackedAs(Consume(e), Members(e))
    BY <2>6, <2>9, ConsumePacks
  <2>11. PICK A : A = {s[k] : k \in r.used}
    OBVIOUS
  <2>12. PackedAs(r.groups, A) /\ r.used \subseteq DOMAIN s
    BY <2>11 DEF FoundIn
  <2>13. NoneShared(A, Members(e), Stores)
    <3>1. SUFFICES ASSUME NEW k \in r.used, NEW l \in Members(m), s[k] = s[l], s[k] \in Stores
                   PROVE  FALSE
      BY <2>7, <2>11 DEF NoneShared
    <3>2. k = l
      BY <2>8, <2>12, <3>1 DEF OnceIn
    <3>3. QED
      BY <2>8, <3>1, <3>2
  <2>14. PackedAs(r.groups \o Consume(e), A \cup Members(e))
    BY <2>10, <2>12, <2>13, PacksBoth
  <2>15. {s[k] : k \in u} = A \cup Members(e)
    BY <2>7, <2>11
  <2>16. u \subseteq DOMAIN s
    BY <2>8, <2>12
  <2> HIDE DEF u
  <2>17. PICK hs : hs = r.groups \o Consume(e)
    OBVIOUS
  <2>18. PICK q : q = [used |-> u, groups |-> hs]
    OBVIOUS
  <2>19. q.used = u /\ q.groups = hs
    BY <2>18
  <2>20. FoundIn(q, s)
    BY <2>14, <2>15, <2>16, <2>17, <2>18, <2>19 DEF FoundIn
  <2>21. QED
    BY <2>1, <2>17, <2>18, <2>20
<1>3. QED
  BY <1>1, <1>2

\* The search packs the orphans it takes.
LEMMA SearchPacks ==
  ASSUME TypedNodes(nodes), NEW s \in Seq(DOMAIN nodes), OnceIn(s, Stores)
  PROVE  FoundIn(SearchMapNodes(s), s)
<1> DEFINE len == Len(s)
           V(n) == {r \in [used : SUBSET (DOMAIN s), groups : Seq(Seq(DOMAIN nodes))] : FoundIn(r, s)}
           b == NothingFound
           Body(r, n) == SearchFrom(s, r, n)
           From(g, n) == IF n = 0 THEN b ELSE Body(g[n - 1], n)
           Vs == [n \in 0 .. len |-> V(n)]
           step == [n \in 1 .. len |-> [r \in V(n - 1) |-> Body(r, n)]]
<1>1. len \in Nat /\ b \in V(0)
  <2>1. b = [used |-> {}, groups |-> <<>>] /\ len \in Nat
    BY LenProperties DEF NothingFound
  <2>2. b.used = {} /\ b.groups = <<>> /\ {s[i] : i \in {}} = {}
    BY <2>1
  <2>3. FoundIn(b, s)
    BY <2>1, <2>2, PacksNothing DEF FoundIn
  <2>4. <<>> \in Seq(Seq(DOMAIN nodes))
    OBVIOUS
  <2>5. QED
    BY <2>1, <2>3, <2>4
<1>2. \A n \in 1 .. len : \A r \in V(n - 1) : Body(r, n) \in V(n)
  <2> SUFFICES ASSUME NEW n \in 1 .. len, NEW r \in V(n - 1)
               PROVE  Body(r, n) \in V(n)
    OBVIOUS
  <2>1. PICK q : q = SearchFrom(s, r, n)
    OBVIOUS
  <2>2. FoundIn(q, s)
    BY <2>1, SearchesFrom
  <2>3. q.used \subseteq DOMAIN s /\ q.groups \in Seq(Seq(DOMAIN nodes))
    BY <2>2 DEF FoundIn, PackedAs
  <2>4. q \in [used : SUBSET (DOMAIN s), groups : Seq(Seq(DOMAIN nodes))]
    BY <2>2, <2>3 DEF FoundIn
  <2>5. QED
    BY <2>1, <2>2, <2>4
<1>3. SearchMapNodes(s) = (CHOOSE g : g = [n \in 0 .. len |-> From(g, n)])[len]
  BY DEF SearchMapNodes, Through
<1> HIDE DEF V, len, b, Body
<1>4. /\ \A n \in 0 .. len : Vs[n] = V(n)
      /\ \A n \in 1 .. len : n - 1 \in 0 .. len /\ n \in 0 .. len
      /\ \A n \in 1 .. len : \A r \in V(n - 1) : step[n][r] = Body(r, n)
  BY <1>1
<1> HIDE DEF Vs, step
<1>5. b \in Vs[0] /\ StaysIn(step, len, Vs)
  BY <1>1, <1>2, <1>4 DEF StaysIn
<1>6. PICK f : Solution(f, len, Vs, b, step)
  BY <1>1, <1>5, Recursion
<1>7. f = [n \in 0 .. len |-> From(f, n)]
  <2>1. \A n \in 1 .. len : f[n] = Body(f[n - 1], n)
    BY <1>4, <1>6 DEF Solution
  <2>2. \A n \in 0 .. len : f[n] = From(f, n)
    <3>1. \A n \in 0 .. len : n = 0 \/ (n # 0 /\ n \in 1 .. len)
      BY <1>1
    <3>2. f[0] = b
      BY <1>6 DEF Solution
    <3>3. QED
      BY <2>1, <3>1, <3>2
  <2> HIDE DEF From
  <2>3. QED
    BY <1>6, <2>2 DEF Solution
<1> DEFINE g == CHOOSE h : h = [n \in 0 .. len |-> From(h, n)]
<1>8. g = [n \in 0 .. len |-> From(g, n)]
  <2> HIDE DEF From
  <2>1. QED
    BY <1>7
<1> HIDE DEF g
<1>9. g[len] \in V(len)
  <2> DEFINE K == {n \in 0 .. len : g[n] \in V(n)}
  <2>1. 0 \in K
    BY <1>1, <1>8
  <2>2. ASSUME NEW n \in Nat, n < len, n \in K
        PROVE  n + 1 \in K
    <3>1. n + 1 \in 1 .. len /\ n + 1 \in 0 .. len /\ (n + 1) - 1 = n /\ n + 1 # 0
      BY <1>1, <2>2
    <3>2. g[n + 1] = Body(g[n], n + 1)
      BY <1>8, <3>1
    <3>3. QED
      BY <1>2, <2>2, <3>1, <3>2
  <2> HIDE DEF K
  <2>3. 0 .. len \subseteq K
    BY <1>1, <2>1, <2>2, InductionUpTo
  <2>4. QED
    BY <1>1, <2>3 DEF K
<1>10. SearchMapNodes(s) \in V(len)
  BY <1>3, <1>9 DEF g
<1>11. QED
  BY <1>10 DEF V


\* The orphans are packed, those found by the search and the others.
LEMMA OrphansPacked ==
  ASSUME TypedNodes(nodes), NEW s \in Seq(DOMAIN nodes), OnceIn(s, Stores),
         NEW r, FoundIn(r, s)
  PROVE  PackedAs(r.groups \o ConsumeAlong(AllButAt(s, r.used)), Members(s))
<1> DEFINE I == DOMAIN s \ r.used
<1>1. PICK a \in Seq(DOMAIN nodes) :
        /\ a = AllButAt(s, r.used)
        /\ Members(a) = {s[i] : i \in {j \in DOMAIN s : j \in I}}
        /\ OnceIn(a, Stores)
  <2>1. AllButAt(s, r.used) = Kept(s, I)
    BY DEF AllButAt
  <2> HIDE DEF I
  <2>2. QED
    BY <2>1, KeptMembers
<1>2. PackedAs(ConsumeAlong(a), Members(a))
  BY <1>1, ConsumeAlongPacks
<1>3. PICK A : A = {s[k] : k \in r.used}
  OBVIOUS
<1>4. PackedAs(r.groups, A) /\ r.used \subseteq DOMAIN s
  BY <1>3 DEF FoundIn
<1>5. NoneShared(A, Members(a), Stores)
  BY <1>1, <1>3, <1>4 DEF NoneShared, OnceIn
<1>6. A \cup Members(a) = Members(s)
  BY <1>1, <1>3, <1>4 DEF Members
<1>7. QED
  BY <1>1, <1>2, <1>4, <1>5, <1>6, PacksBoth

-------------------------------------------------------------------------------
(***************************************************************************)
(* detectReductions.  A chain goes down to older nodes, none of which is   *)
(* in a chain yet.                                                         *)
(***************************************************************************)
GoesDown(c, top) ==
  /\ Len(c) >= 1 /\ c[1] = top
  /\ \A k, l \in 1 .. Len(c) : k < l => c[l] < c[k]
  /\ \A k \in 1 .. Len(c) : c[k] \notin Members(redux)

\* The next node of a chain.
LEMMA ChainGoesOn ==
  ASSUME TypedNodes(nodes), NEW top, NEW n \in DOMAIN nodes, Continues(top, n) # {}
  PROVE  LET k == nodes[n].ins[FirstIndex(Continues(top, n))].node
         IN  k \in DOMAIN nodes /\ k < n /\ k \notin Members(redux)
<1> DEFINE C == Continues(top, n)
           i == FirstIndex(C)
<1>1. C \subseteq DOMAIN nodes[n].ins /\ C # {}
  BY DEF Continues
<1>2. DOMAIN nodes[n].ins \subseteq {1, 2}
  BY TypedIsFew DEF TypedNode, InputsType
<1>3. i \in C
  <2> HIDE DEF C
  <2>1. QED
    BY <1>1, <1>2 DEF FirstIndex
<1>4. /\ ~IsLeaf(nodes[n].ins[i]) /\ i \in DOMAIN nodes[n].ins
      /\ nodes[n].ins[i].node \notin Members(redux)
  BY <1>3 DEF Continues
<1>5. nodes[n].ins[i].node \in NodesRead(n)
  BY <1>4 DEF NodesRead, IsLeaf
<1>6. QED
  BY <1>4, <1>5, NodesReadOlder

\* What a chain is.
LEMMA ChainGoesDown ==
  ASSUME TypedNodes(nodes), NEW top \in DOMAIN nodes, top \notin Members(redux)
  PROVE  Chain(top) \in Seq(DOMAIN nodes) /\ GoesDown(Chain(top), top)
<1> DEFINE len == Len(nodes)
           V(n) == {c \in Seq(DOMAIN nodes) : GoesDown(c, top)}
           b == <<top>>
           Body(r, n) == LET m == Last(r)
                             C == Continues(top, m)
                         IN  IF C = {} THEN r
                             ELSE Append(r, nodes[m].ins[FirstIndex(C)].node)
           From(g, n) == IF n = 0 THEN b ELSE Body(g[n - 1], n)
           Vs == [n \in 0 .. len |-> V(n)]
           step == [n \in 1 .. len |-> [r \in V(n - 1) |-> Body(r, n)]]
<1>1. len \in Nat /\ b \in V(0)
  <2>1. b \in Seq(DOMAIN nodes) /\ Len(b) = 1 /\ b[1] = top
    OBVIOUS
  <2> HIDE DEF b
  <2>2. GoesDown(b, top)
    BY <2>1 DEF GoesDown
  <2>3. QED
    BY <2>1, <2>2, TypedIsFew
<1>2. \A n \in 1 .. len : \A r \in V(n - 1) : Body(r, n) \in V(n)
  <2> SUFFICES ASSUME NEW n \in 1 .. len, NEW c \in V(n - 1)
               PROVE  Body(c, n) \in V(n)
    OBVIOUS
  <2>1. c \in Seq(DOMAIN nodes) /\ GoesDown(c, top)
    OBVIOUS
  <2>2. /\ Len(c) \in Nat /\ Len(c) >= 1 /\ DOMAIN c = 1 .. Len(c)
        /\ \A k \in 1 .. Len(c) : c[k] \in DOMAIN nodes /\ c[k] \in Nat
    BY <2>1, LenProperties, ElementOfSeq, TypedIsFew DEF GoesDown
  <2>3. PICK m \in DOMAIN nodes : m = Last(c) /\ m = c[Len(c)]
    BY <2>2 DEF Last
  <2>4. CASE Continues(top, m) = {}
    BY <2>1, <2>3, <2>4
  <2>5. CASE Continues(top, m) # {}
    <3>1. PICK k \in DOMAIN nodes :
            /\ k = nodes[m].ins[FirstIndex(Continues(top, m))].node
            /\ k < m /\ k \notin Members(redux)
      BY <2>5, ChainGoesOn
    <3> DEFINE d == Append(c, k)
    <3>2. /\ d \in Seq(DOMAIN nodes) /\ Len(d) = Len(c) + 1 /\ d[Len(c) + 1] = k
          /\ \A l \in 1 .. Len(c) : d[l] = c[l]
      BY <2>1, AppendProperties
    <3> HIDE DEF d
    <3>3. \A l \in 1 .. Len(c) + 1 : l = Len(c) + 1 \/ l \in 1 .. Len(c)
      BY <2>2
    <3>4. \A l \in 1 .. Len(c) : k < c[l]
      <4>1. SUFFICES ASSUME NEW l \in 1 .. Len(c)
                     PROVE  k < c[l]
        OBVIOUS
      <4>2. k \in Nat /\ m \in Nat /\ c[l] \in Nat
        BY <2>2, TypedIsFew
      <4>3. CASE l = Len(c)
        BY <2>3, <3>1, <4>3
      <4>4. CASE l < Len(c)
        <5>1. Len(c) \in 1 .. Len(c)
          BY <2>2
        <5>2. c[Len(c)] < c[l]
          BY <2>1, <4>4, <5>1 DEF GoesDown
        <5>3. QED
          BY <2>3, <3>1, <4>2, <5>2
      <4>5. l = Len(c) \/ l < Len(c)
        <5>1. Len(c) \in Nat
          BY <2>2
        <5>2. QED
          BY <5>1
      <4>6. QED
        BY <4>3, <4>4, <4>5
    <3>5. \A l, o \in 1 .. Len(c) + 1 : l < o => d[o] < d[l]
      <4>1. SUFFICES ASSUME NEW l \in 1 .. Len(c) + 1, NEW o \in 1 .. Len(c) + 1, l < o
                     PROVE  d[o] < d[l]
        OBVIOUS
      <4>2. l \in 1 .. Len(c)
        BY <2>2, <4>1
      <4>3. CASE o = Len(c) + 1
        BY <3>2, <3>4, <4>2, <4>3
      <4>4. CASE o \in 1 .. Len(c)
        BY <2>1, <3>2, <4>1, <4>2, <4>4 DEF GoesDown
      <4>5. QED
        BY <3>3, <4>3, <4>4
    <3>6. \A l \in 1 .. Len(c) + 1 : d[l] \notin Members(redux)
      BY <2>1, <3>1, <3>2, <3>3 DEF GoesDown
    <3>7. GoesDown(d, top)
      BY <2>1, <2>2, <3>2, <3>5, <3>6 DEF GoesDown
    <3>8. Body(c, n) = d
      BY <2>3, <2>5, <3>1 DEF d
    <3> HIDE DEF Body
    <3>9. QED
      BY <3>2, <3>7, <3>8
  <2>6. QED
    BY <2>4, <2>5
<1>3. Chain(top) = (CHOOSE g : g = [n \in 0 .. len |-> From(g, n)])[len]
  BY DEF Chain, Through
<1> HIDE DEF V, len, b, Body
<1>4. /\ \A n \in 0 .. len : Vs[n] = V(n)
      /\ \A n \in 1 .. len : n - 1 \in 0 .. len /\ n \in 0 .. len
      /\ \A n \in 1 .. len : \A r \in V(n - 1) : step[n][r] = Body(r, n)
  BY <1>1
<1> HIDE DEF Vs, step
<1>5. b \in Vs[0] /\ StaysIn(step, len, Vs)
  BY <1>1, <1>2, <1>4 DEF StaysIn
<1>6. PICK f : Solution(f, len, Vs, b, step)
  BY <1>1, <1>5, Recursion
<1>7. f = [n \in 0 .. len |-> From(f, n)]
  <2>1. \A n \in 1 .. len : f[n] = Body(f[n - 1], n)
    BY <1>4, <1>6 DEF Solution
  <2>2. \A n \in 0 .. len : f[n] = From(f, n)
    <3>1. \A n \in 0 .. len : n = 0 \/ (n # 0 /\ n \in 1 .. len)
      BY <1>1
    <3>2. f[0] = b
      BY <1>6 DEF Solution
    <3>3. QED
      BY <2>1, <3>1, <3>2
  <2> HIDE DEF From
  <2>3. QED
    BY <1>6, <2>2 DEF Solution
<1> DEFINE g == CHOOSE h : h = [n \in 0 .. len |-> From(h, n)]
<1>8. g = [n \in 0 .. len |-> From(g, n)]
  <2> HIDE DEF From
  <2>1. QED
    BY <1>7
<1> HIDE DEF g
<1>9. g[len] \in V(len)
  <2> DEFINE K == {n \in 0 .. len : g[n] \in V(n)}
  <2>1. 0 \in K
    BY <1>1, <1>8
  <2>2. ASSUME NEW n \in Nat, n < len, n \in K
        PROVE  n + 1 \in K
    <3>1. n + 1 \in 1 .. len /\ n + 1 \in 0 .. len /\ (n + 1) - 1 = n /\ n + 1 # 0
      BY <1>1, <2>2
    <3>2. g[n + 1] = Body(g[n], n + 1)
      BY <1>8, <3>1
    <3>3. QED
      BY <1>2, <2>2, <3>1, <3>2
  <2> HIDE DEF K
  <2>3. 0 .. len \subseteq K
    BY <1>1, <2>1, <2>2, InductionUpTo
  <2>4. QED
    BY <1>1, <2>3 DEF K
<1>10. Chain(top) \in V(len)
  BY <1>3, <1>9 DEF g
<1>11. QED
  BY <1>10 DEF V


\* The nodes of a chain: each once, none in a chain before.
LEMMA ChainMembers ==
  ASSUME TypedNodes(nodes), NEW top \in DOMAIN nodes, top \notin Members(redux)
  PROVE  /\ Chain(top) \in Seq(DOMAIN nodes)
         /\ OnceIn(Chain(top), Nat) /\ top \in Members(Chain(top))
         /\ \A x \in Members(Chain(top)) : x \notin Members(redux)
         /\ ~(Len(Chain(top)) > 1) => Members(Chain(top)) = {top}
<1>1. PICK c \in Seq(DOMAIN nodes) : c = Chain(top) /\ GoesDown(c, top)
  BY ChainGoesDown
<1>2. /\ Len(c) \in Nat /\ Len(c) >= 1 /\ DOMAIN c = 1 .. Len(c) /\ c[1] = top
      /\ \A k \in 1 .. Len(c) : c[k] \in Nat /\ c[k] \notin Members(redux)
      /\ \A k, l \in 1 .. Len(c) : k < l => c[l] < c[k]
  BY <1>1, LenProperties, ElementOfSeq, TypedIsFew DEF GoesDown
<1>3. OnceIn(c, Nat)
  <2>1. SUFFICES ASSUME NEW k \in 1 .. Len(c), NEW l \in 1 .. Len(c), c[k] = c[l], k < l
                 PROVE  FALSE
    <3>1. \A k, l \in 1 .. Len(c) : k < l \/ l < k \/ k = l
      BY <1>2
    <3>2. QED
      BY <1>2, <2>1, <3>1 DEF OnceIn
  <2>2. c[l] < c[k] /\ c[k] \in Nat
    BY <1>2, <2>1
  <2>3. QED
    BY <2>1, <2>2
<1>4. ~(Len(c) > 1) => Members(c) = {top}
  <2>1. SUFFICES ASSUME ~(Len(c) > 1)
                 PROVE  Members(c) = {top}
    OBVIOUS
  <2>2. DOMAIN c = {1}
    BY <1>2, <2>1
  <2>3. QED
    BY <1>2, <2>2 DEF Members
<1>5. QED
  BY <1>1, <1>2, <1>3, <1>4 DEF Members

-------------------------------------------------------------------------------
(***************************************************************************)
(* What is left of the nodes, the roots and the inner nodes.               *)
(***************************************************************************)
Splits == [roots : Seq(DOMAIN nodes), inner : Seq(DOMAIN nodes)]

SplitOf(r, L) ==
  /\ r \in Splits /\ OnceIn(r.roots, Nat) /\ OnceIn(r.inner, Nat)
  /\ NoneShared(Members(r.roots), Members(r.inner), Nat)
  /\ Members(r.roots) \cup Members(r.inner) \subseteq L

\* An input of a node becomes an inner node.
LEMMA InputAdded ==
  ASSUME NEW L, L \subseteq DOMAIN nodes, NEW r, SplitOf(r, L), NEW k
  PROVE  LET q == AddInput(r, k, L)
         IN  SplitOf(q, L) /\ q.roots = r.roots /\ Members(r.inner) \subseteq Members(q.inner)
<1>1. CASE k \notin L \ (Members(r.roots) \cup Members(r.inner))
  BY <1>1 DEF AddInput
<1>2. CASE k \in L \ (Members(r.roots) \cup Members(r.inner))
  <2> DEFINE i == Append(r.inner, k)
             q == [r EXCEPT !.inner = i]
  <2>1. AddInput(r, k, L) = q
    BY <1>2 DEF AddInput
  <2>2. r.inner \in Seq(DOMAIN nodes) /\ k \in DOMAIN nodes
    BY <1>2 DEF SplitOf, Splits
  <2>3. /\ i \in Seq(DOMAIN nodes) /\ Members(i) = Members(r.inner) \cup {k}
        /\ OnceIn(r.inner, Nat) /\ (k \in Nat => k \notin Members(r.inner)) => OnceIn(i, Nat)
    BY <2>2, AppendMembers
  <2> HIDE DEF i
  <2>4. q \in Splits /\ q.roots = r.roots /\ q.inner = i
    BY <2>3 DEF SplitOf, Splits
  <2> HIDE DEF q
  <2>5. OnceIn(i, Nat) /\ NoneShared(Members(r.roots), Members(i), Nat)
    BY <1>2, <2>3 DEF SplitOf, NoneShared
  <2>6. SplitOf(q, L)
    BY <1>2, <2>3, <2>4, <2>5 DEF SplitOf
  <2>7. QED
    BY <2>1, <2>3, <2>4, <2>6
<1>3. QED
  BY <1>1, <1>2

\* A node that is no inner node becomes a root.
Owned(r, x) == IF x \in Members(r.inner) THEN r ELSE [r EXCEPT !.roots = Append(@, x)]

\* What holds of a node and goes on to hold with each of its inputs, holds with all.
LEMMA AddNodeKeeps ==
  ASSUME NEW L, NEW r, NEW x, Len(nodes[x].ins) \in Nat, NEW V, Owned(r, x) \in V[0],
         \A n \in 1 .. Len(nodes[x].ins) : \A z \in V[n - 1] :
           AddInput(z, nodes[x].ins[n].node, L) \in V[n]
  PROVE  AddNode(r, x, L) \in V[Len(nodes[x].ins)]
<1> DEFINE len == Len(nodes[x].ins)
           b == Owned(r, x)
           Body(z, n) == AddInput(z, nodes[x].ins[n].node, L)
           From(g, n) == IF n = 0 THEN b ELSE Body(g[n - 1], n)
           Vs == [n \in 0 .. len |-> V[n]]
           step == [n \in 1 .. len |-> [z \in V[n - 1] |-> Body(z, n)]]
<1>1. len \in Nat /\ b \in V[0]
  OBVIOUS
<1>2. \A n \in 1 .. len : \A z \in V[n - 1] : Body(z, n) \in V[n]
  OBVIOUS
<1>3. AddNode(r, x, L) = (CHOOSE g : g = [n \in 0 .. len |-> From(g, n)])[len]
  BY DEF AddNode, Through, Owned
<1> HIDE DEF len, b, Body
<1>4. /\ \A n \in 0 .. len : Vs[n] = V[n]
      /\ \A n \in 1 .. len : n - 1 \in 0 .. len /\ n \in 0 .. len
      /\ \A n \in 1 .. len : \A z \in V[n - 1] : step[n][z] = Body(z, n)
  BY <1>1
<1> HIDE DEF Vs, step
<1>5. b \in Vs[0] /\ StaysIn(step, len, Vs)
  <2>1. b \in Vs[0]
    BY <1>1, <1>4
  <2>2. \A n \in 1 .. len : \A z \in Vs[n - 1] : step[n][z] \in Vs[n]
    BY <1>2, <1>4
  <2>3. QED
    BY <2>1, <2>2 DEF StaysIn
<1>6. PICK f : Solution(f, len, Vs, b, step)
  BY <1>1, <1>5, Recursion
<1>7. f = [n \in 0 .. len |-> From(f, n)]
  <2>1. \A n \in 1 .. len : f[n] = Body(f[n - 1], n)
    BY <1>4, <1>6 DEF Solution
  <2>2. \A n \in 0 .. len : f[n] = From(f, n)
    <3>1. \A n \in 0 .. len : n = 0 \/ (n # 0 /\ n \in 1 .. len)
      BY <1>1
    <3>2. f[0] = b
      BY <1>6 DEF Solution
    <3>3. QED
      BY <2>1, <3>1, <3>2
  <2> HIDE DEF From
  <2>3. QED
    BY <1>6, <2>2 DEF Solution
<1> DEFINE g == CHOOSE h : h = [n \in 0 .. len |-> From(h, n)]
<1>8. g = [n \in 0 .. len |-> From(g, n)]
  <2> HIDE DEF From
  <2>1. QED
    BY <1>7
<1> HIDE DEF g
<1>9. g[len] \in V[len]
  <2> DEFINE K == {n \in 0 .. len : g[n] \in V[n]}
  <2>1. 0 \in K
    BY <1>1, <1>8
  <2>2. ASSUME NEW n \in Nat, n < len, n \in K
        PROVE  n + 1 \in K
    <3>1. n + 1 \in 1 .. len /\ n + 1 \in 0 .. len /\ (n + 1) - 1 = n /\ n + 1 # 0
      BY <1>1, <2>2
    <3>2. g[n + 1] = Body(g[n], n + 1)
      BY <1>8, <3>1
    <3>3. QED
      BY <1>2, <2>2, <3>1, <3>2
  <2> HIDE DEF K
  <2>3. 0 .. len \subseteq K
    BY <1>1, <2>1, <2>2, InductionUpTo
  <2>4. QED
    BY <1>1, <2>3 DEF K
<1>10. QED
  BY <1>3, <1>9 DEF g, len

\* A node that no other one reads becomes a root, its inputs inner nodes.
LEMMA NodeAdded ==
  ASSUME TypedNodes(nodes), NEW L, L \subseteq DOMAIN nodes, NEW r, SplitOf(r, L),
         NEW x \in L, x \notin Members(r.roots)
  PROVE  LET q == AddNode(r, x, L)
         IN  /\ SplitOf(q, L) /\ Members(q.roots) \subseteq Members(r.roots) \cup {x}
             /\ Members(r.roots) \cup Members(r.inner) \cup {x}
                  \subseteq Members(q.roots) \cup Members(q.inner)
<1> DEFINE len == Len(nodes[x].ins)
           b == Owned(r, x)
           V(n) == {q \in Splits : /\ SplitOf(q, L) /\ q.roots = b.roots
                              /\ Members(b.inner) \subseteq Members(q.inner)}
           Body(z, n) == AddInput(z, nodes[x].ins[n].node, L)
           Vs == [n \in 0 .. len |-> V(n)]
<1>0. /\ SplitOf(b, L) /\ Members(b.roots) \subseteq Members(r.roots) \cup {x}
      /\ Members(r.roots) \cup Members(r.inner) \cup {x}
           \subseteq Members(b.roots) \cup Members(b.inner)
  <2>1. CASE x \in Members(r.inner)
    BY <2>1 DEF Owned
  <2>2. CASE x \notin Members(r.inner)
    <3> DEFINE t == Append(r.roots, x)
               q == [r EXCEPT !.roots = t]
    <3>1. r.roots \in Seq(DOMAIN nodes) /\ x \in DOMAIN nodes
      BY DEF SplitOf, Splits
    <3>2. /\ t \in Seq(DOMAIN nodes) /\ Members(t) = Members(r.roots) \cup {x}
          /\ OnceIn(r.roots, Nat) /\ (x \in Nat => x \notin Members(r.roots)) => OnceIn(t, Nat)
      BY <3>1, AppendMembers
    <3> HIDE DEF t
    <3>3. q \in Splits /\ q.roots = t /\ q.inner = r.inner
      BY <3>2 DEF SplitOf, Splits
    <3>4. b = q
      BY <2>2 DEF t, Owned
    <3> HIDE DEF q, b
    <3>5. OnceIn(t, Nat) /\ NoneShared(Members(t), Members(r.inner), Nat)
      BY <2>2, <3>2 DEF SplitOf, NoneShared
    <3>6. SplitOf(q, L)
      BY <3>2, <3>3, <3>5 DEF SplitOf
    <3>7. QED
      BY <3>2, <3>3, <3>4, <3>6
  <2>3. QED
    BY <2>1, <2>2
<1>1. len \in Nat /\ b \in V(0)
  <2>1. len \in Nat
    BY NodesReadOlder
  <2>2. SplitOf(b, L)
    BY <1>0
  <2>3. QED
    BY <2>1, <2>2 DEF SplitOf
<1>2. \A n \in 1 .. len : \A z \in V(n - 1) : Body(z, n) \in V(n)
  <2> SUFFICES ASSUME NEW n \in 1 .. len, NEW p \in V(n - 1)
               PROVE  Body(p, n) \in V(n)
    OBVIOUS
  <2>1. /\ SplitOf(p, L) /\ p.roots = b.roots
        /\ Members(b.inner) \subseteq Members(p.inner)
    OBVIOUS
  <2>2. PICK k : k = nodes[x].ins[n].node
    OBVIOUS
  <2>3. LET q == AddInput(p, k, L)
        IN  SplitOf(q, L) /\ q.roots = p.roots /\ Members(p.inner) \subseteq Members(q.inner)
    BY <2>1, InputAdded
  <2> HIDE DEF b
  <2>4. QED
    BY <2>1, <2>2, <2>3 DEF SplitOf
<1> HIDE DEF V
<1>3. /\ Vs[0] = V(0) /\ Vs[len] = V(len)
      /\ \A n \in 1 .. len : Vs[n - 1] = V(n - 1) /\ Vs[n] = V(n)
  BY <1>1
<1> HIDE DEF Vs
<1>4. AddNode(r, x, L) \in V(len)
  BY <1>1, <1>2, <1>3, AddNodeKeeps
<1>5. QED
  <2>1. PICK q : q = AddNode(r, x, L)
    OBVIOUS
  <2>2. /\ SplitOf(q, L) /\ q.roots = b.roots
        /\ Members(b.inner) \subseteq Members(q.inner)
    BY <1>4, <2>1 DEF V
  <2>3. QED
    BY <1>0, <2>1, <2>2

(***************************************************************************)
(* r has the first n nodes of s, as roots or inner nodes.                  *)
(***************************************************************************)
SplitTo(r, s, n) ==
  /\ SplitOf(r, Members(s))
  /\ \A x \in Members(r.roots) : \E i \in 1 .. n : x = s[i]
  /\ \A i \in 1 .. n : s[i] \in Members(r.roots) \cup Members(r.inner)

\* What holds of nothing and goes on to hold with each node, holds with all.
LEMMA RootsAndInnerKeeps ==
  ASSUME NEW s, Len(s) \in Nat, NEW V, NoNodes \in V[0],
         \A n \in 1 .. Len(s) : \A r \in V[n - 1] : AddNode(r, s[n], Members(s)) \in V[n]
  PROVE  RootsAndInner(s) \in V[Len(s)]
<1> DEFINE len == Len(s)
           b == NoNodes
           Body(r, n) == AddNode(r, s[n], Members(s))
           From(g, n) == IF n = 0 THEN b ELSE Body(g[n - 1], n)
           Vs == [n \in 0 .. len |-> V[n]]
           step == [n \in 1 .. len |-> [r \in V[n - 1] |-> Body(r, n)]]
<1>1. len \in Nat /\ b \in V[0]
  OBVIOUS
<1>2. \A n \in 1 .. len : \A r \in V[n - 1] : Body(r, n) \in V[n]
  OBVIOUS
<1>3. RootsAndInner(s) = (CHOOSE g : g = [n \in 0 .. len |-> From(g, n)])[len]
  BY DEF RootsAndInner, Through
<1> HIDE DEF len, b, Body
<1>4. /\ \A n \in 0 .. len : Vs[n] = V[n]
      /\ \A n \in 1 .. len : n - 1 \in 0 .. len /\ n \in 0 .. len
      /\ \A n \in 1 .. len : \A r \in V[n - 1] : step[n][r] = Body(r, n)
  BY <1>1
<1> HIDE DEF Vs, step
<1>5. b \in Vs[0] /\ StaysIn(step, len, Vs)
  BY <1>1, <1>2, <1>4 DEF StaysIn
<1>6. PICK f : Solution(f, len, Vs, b, step)
  BY <1>1, <1>5, Recursion
<1>7. f = [n \in 0 .. len |-> From(f, n)]
  <2>1. \A n \in 1 .. len : f[n] = Body(f[n - 1], n)
    BY <1>4, <1>6 DEF Solution
  <2>2. \A n \in 0 .. len : f[n] = From(f, n)
    <3>1. \A n \in 0 .. len : n = 0 \/ (n # 0 /\ n \in 1 .. len)
      BY <1>1
    <3>2. f[0] = b
      BY <1>6 DEF Solution
    <3>3. QED
      BY <2>1, <3>1, <3>2
  <2> HIDE DEF From
  <2>3. QED
    BY <1>6, <2>2 DEF Solution
<1> DEFINE g == CHOOSE h : h = [n \in 0 .. len |-> From(h, n)]
<1>8. g = [n \in 0 .. len |-> From(g, n)]
  <2> HIDE DEF From
  <2>1. QED
    BY <1>7
<1> HIDE DEF g
<1>9. g[len] \in V[len]
  <2> DEFINE K == {n \in 0 .. len : g[n] \in V[n]}
  <2>1. 0 \in K
    BY <1>1, <1>8
  <2>2. ASSUME NEW n \in Nat, n < len, n \in K
        PROVE  n + 1 \in K
    <3>1. n + 1 \in 1 .. len /\ n + 1 \in 0 .. len /\ (n + 1) - 1 = n /\ n + 1 # 0
      BY <1>1, <2>2
    <3>2. g[n + 1] = Body(g[n], n + 1)
      BY <1>8, <3>1
    <3>3. QED
      BY <1>2, <2>2, <3>1, <3>2
  <2> HIDE DEF K
  <2>3. 0 .. len \subseteq K
    BY <1>1, <2>1, <2>2, InductionUpTo
  <2>4. QED
    BY <1>1, <2>3 DEF K
<1>10. QED
  BY <1>3, <1>9 DEF g, len

\* The nodes of a list become roots or inner nodes, each one of them.
LEMMA RootsAndInnerSplit ==
  ASSUME TypedNodes(nodes), NEW s \in Seq(DOMAIN nodes), OnceIn(s, Nat)
  PROVE  LET r == RootsAndInner(s)
         IN  /\ SplitOf(r, Members(s))
             /\ Members(s) \subseteq Members(r.roots) \cup Members(r.inner)
<1> DEFINE len == Len(s)
           V(n) == {r \in Splits : SplitTo(r, s, n)}
           b == NoNodes
           Body(r, n) == AddNode(r, s[n], Members(s))
           Vs == [n \in 0 .. len |-> V(n)]
<1>1. len \in Nat /\ b \in V(0)
  <2>1. b = [roots |-> <<>>, inner |-> <<>>] /\ len \in Nat
    BY LenProperties DEF NoNodes
  <2>2. b \in Splits /\ b.roots = <<>> /\ b.inner = <<>>
    BY <2>1 DEF Splits
  <2> HIDE DEF b
  <2>3. SplitOf(b, Members(s)) /\ Members(b.roots) = {}
    BY <2>2, FewMembers DEF SplitOf, NoneShared
  <2>4. SplitTo(b, s, 0)
    BY <2>3 DEF SplitTo
  <2>5. QED
    BY <2>1, <2>2, <2>4
<1>2. \A n \in 1 .. len : \A r \in V(n - 1) : Body(r, n) \in V(n)
  <2> SUFFICES ASSUME NEW n \in 1 .. len, NEW r \in V(n - 1)
               PROVE  Body(r, n) \in V(n)
    OBVIOUS
  <2>1. /\ SplitOf(r, Members(s)) /\ r \in Splits
        /\ \A x \in Members(r.roots) : \E i \in 1 .. n - 1 : x = s[i]
        /\ \A i \in 1 .. n - 1 : s[i] \in Members(r.roots) \cup Members(r.inner)
    <3>1. SplitTo(r, s, n - 1) /\ r \in Splits
      OBVIOUS
    <3>2. QED
      BY <3>1 DEF SplitTo
  <2>2. PICK L : L = Members(s)
    OBVIOUS
  <2>3. /\ DOMAIN s = 1 .. len /\ len \in Nat
        /\ \A i \in 1 .. len : s[i] \in DOMAIN nodes /\ s[i] \in Nat /\ s[i] \in L
    BY <2>2, LenProperties, ElementOfSeq, TypedIsFew DEF Members
  <2>4. PICK x \in L : x = s[n]
    BY <2>3
  <2>5. x \notin Members(r.roots)
    <3>1. SUFFICES ASSUME NEW i \in 1 .. n - 1, s[i] = s[n]
                   PROVE  FALSE
      BY <2>1, <2>4
    <3>2. i \in 1 .. len /\ i # n
      BY <2>3
    <3>3. QED
      BY <2>3, <3>1, <3>2 DEF OnceIn
  <2>6. L \subseteq DOMAIN nodes
    BY <2>2, <2>3 DEF Members
  <2>7. PICK q :
          /\ q = AddNode(r, x, L)
          /\ SplitOf(q, L) /\ Members(q.roots) \subseteq Members(r.roots) \cup {x}
          /\ Members(r.roots) \cup Members(r.inner) \cup {x}
               \subseteq Members(q.roots) \cup Members(q.inner)
    <3>1. SplitOf(r, L)
      BY <2>1, <2>2
    <3>2. LET q == AddNode(r, x, L)
          IN  /\ SplitOf(q, L) /\ Members(q.roots) \subseteq Members(r.roots) \cup {x}
              /\ Members(r.roots) \cup Members(r.inner) \cup {x}
                   \subseteq Members(q.roots) \cup Members(q.inner)
      BY <2>5, <2>6, <3>1, NodeAdded
    <3>3. QED
      BY <3>2
  <2>8. \A i : i \in 1 .. n <=> i = n \/ i \in 1 .. n - 1
    BY <2>3
  <2>9. \A y \in Members(q.roots) : \E i \in 1 .. n : y = s[i]
    BY <2>1, <2>4, <2>7, <2>8
  <2>10. \A i \in 1 .. n : s[i] \in Members(q.roots) \cup Members(q.inner)
    BY <2>1, <2>4, <2>7, <2>8
  <2>11. q \in V(n)
    <3>1. SplitTo(q, s, n) /\ q \in Splits
      BY <2>2, <2>7, <2>9, <2>10 DEF SplitTo, SplitOf
    <3>2. QED
      BY <3>1
  <2>12. QED
    BY <2>2, <2>4, <2>7, <2>11
<1> HIDE DEF V
<1>3. /\ Vs[0] = V(0) /\ Vs[len] = V(len)
      /\ \A n \in 1 .. len : Vs[n - 1] = V(n - 1) /\ Vs[n] = V(n)
  BY <1>1
<1> HIDE DEF Vs
<1>4. RootsAndInner(s) \in V(len)
  BY <1>1, <1>2, <1>3, RootsAndInnerKeeps
<1>5. QED
  <2>1. PICK r : r = RootsAndInner(s)
    OBVIOUS
  <2>2. /\ SplitOf(r, Members(s))
        /\ \A i \in 1 .. Len(s) : s[i] \in Members(r.roots) \cup Members(r.inner)
    BY <1>4, <2>1 DEF V, SplitTo
  <2>3. Members(s) = {s[i] : i \in 1 .. Len(s)}
    BY LenProperties DEF Members
  <2>4. QED
    BY <2>1, <2>2, <2>3

\* The nodes that are left are all kept, each once.
LEMMA RestKept ==
  ASSUME TypedNodes(nodes), NEW s \in Seq(DOMAIN nodes), OnceIn(s, Nat)
  PROVE  /\ RootsBehindInner(s) \in Seq(DOMAIN nodes)
         /\ Members(RootsBehindInner(s)) = Members(s)
         /\ OnceIn(RootsBehindInner(s), Nat)
<1>1. PICK r : /\ r = RootsAndInner(s) /\ SplitOf(r, Members(s))
               /\ Members(s) \subseteq Members(r.roots) \cup Members(r.inner)
  BY RootsAndInnerSplit
<1>2. PICK a \in Seq(DOMAIN nodes), b \in Seq(DOMAIN nodes) : a = r.roots /\ b = r.inner
  BY <1>1 DEF SplitOf, Splits
<1>3. /\ OnceIn(a, Nat) /\ OnceIn(b, Nat) /\ NoneShared(Members(a), Members(b), Nat)
      /\ Members(a) \cup Members(b) = Members(s)
  BY <1>1, <1>2 DEF SplitOf
<1>4. PICK t \in Seq(DOMAIN nodes) :
        t = a \o b /\ Members(t) = Members(s) /\ OnceIn(t, Nat)
  BY <1>3, ConcatMembers
<1>5. RootsBehindInner(s) = Reverse(t)
  BY <1>1, <1>2, <1>4 DEF RootsBehindInner
<1>6. QED
  BY <1>4, <1>5, ReverseMembers

-------------------------------------------------------------------------------
\* The nodes that reduce into a location.
LEMMA ReducingMembers ==
  ASSUME NEW s \in Seq(DOMAIN nodes), NEW x
  PROVE  /\ Reducing(s, x) \in Seq(DOMAIN nodes)
         /\ Members(Reducing(s, x)) = {n \in Members(s) : nodes[n].out = x}
         /\ \A X : OnceIn(s, X) => OnceIn(Reducing(s, x), X)
<1> DEFINE I == {i \in DOMAIN s : nodes[s[i]].out = x}
<1>1. Reducing(s, x) = Kept(s, I)
  BY DEF Reducing
<1>2. {s[i] : i \in {j \in DOMAIN s : j \in I}} = {n \in Members(s) : nodes[n].out = x}
  BY DEF Members
<1> HIDE DEF I
<1>3. QED
  BY <1>1, <1>2, KeptMembers

\* mapReductions puts each node into the list of its location.
LEMMA MapReductionsMembers ==
  ASSUME TypedNodes(nodes), NEW s \in Seq(DOMAIN nodes)
  PROVE  LET m == MapReductions(s)
         IN  /\ m \in Seq(Seq(DOMAIN nodes)) /\ AllOf(m, 1) = Members(s)
             /\ \A X : OnceIn(s, X) => EachOnce(m, 1, X)
             /\ \A k \in DOMAIN m : \E x : m[k] = Reducing(s, x)
             /\ \A k, l \in DOMAIN m : k # l =>
                  \A a \in Members(m[k]), b \in Members(m[l]) : nodes[a].out # nodes[b].out
<1> DEFINE I == FirstOfLocation(s)
           m == MapReductions(s)
<1>1. DOMAIN s = 1 .. Len(s) /\ Len(s) \in Nat /\ \A i \in 1 .. Len(s) : s[i] \in DOMAIN nodes
  BY LenProperties, ElementOfSeq
<1>2. PICK f \in Seq(DOMAIN nodes) : f = Kept(s, I)
  BY KeptSelects
<1>3. PICK e : Selects(e, s, I, f, Len(s))
  BY <1>2, KeptSelects
<1>4. DOMAIN f = 1 .. Len(f) /\ Len(f) \in Nat
  BY LenProperties
<1>5. /\ \A k \in DOMAIN f : e[k] \in I /\ e[k] \in 1 .. Len(s) /\ f[k] = s[e[k]]
      /\ \A k, l \in DOMAIN f : k < l => e[k] < e[l]
      /\ \A i \in 1 .. Len(s) : i \in I => \E k \in DOMAIN f : e[k] = i
  BY <1>3, <1>4 DEF Selects
<1>6. m = [k \in DOMAIN f |-> Reducing(s, nodes[f[k]].out)]
  BY <1>2 DEF MapReductions
<1> HIDE DEF m, I
<1>7. /\ DOMAIN m = DOMAIN f
      /\ \A k \in DOMAIN f : m[k] = Reducing(s, nodes[f[k]].out)
  BY <1>6
<1>8. \A k \in DOMAIN f :
        /\ m[k] \in Seq(DOMAIN nodes)
        /\ Members(m[k]) = {n \in Members(s) : nodes[n].out = nodes[f[k]].out}
        /\ \A X : OnceIn(s, X) => OnceIn(m[k], X)
  BY <1>7, ReducingMembers
<1>9. m \in Seq(Seq(DOMAIN nodes))
  BY <1>4, <1>6, <1>7, <1>8
<1>10. \A k, l \in DOMAIN f : k < l => nodes[f[k]].out # nodes[f[l]].out
  <2>1. SUFFICES ASSUME NEW k \in DOMAIN f, NEW l \in DOMAIN f, k < l
                 PROVE  nodes[f[k]].out # nodes[f[l]].out
    OBVIOUS
  <2>2. e[k] < e[l] /\ e[k] \in 1 .. Len(s) /\ e[l] \in 1 .. Len(s) /\ e[l] \in I
    BY <1>5, <2>1
  <2>3. e[k] \in 1 .. e[l] - 1
    BY <1>1, <2>2
  <2>4. nodes[s[e[k]]].out # nodes[s[e[l]]].out
    BY <2>2, <2>3 DEF I, FirstOfLocation
  <2>5. QED
    BY <1>5, <2>4
<1>11. \A k, l \in DOMAIN f : k # l => nodes[f[k]].out # nodes[f[l]].out
  <2>1. \A k, l \in DOMAIN f : k # l => k < l \/ l < k
    BY <1>4
  <2>2. QED
    BY <1>10, <2>1
<1>12. ASSUME NEW n \in Members(s)
       PROVE  \E k \in DOMAIN f : nodes[f[k]].out = nodes[n].out
  <2> DEFINE P == {i \in 1 .. Len(s) : nodes[s[i]].out = nodes[n].out}
  <2>1. P \subseteq Nat /\ P # {}
    BY <1>1 DEF Members
  <2>2. PICK i \in P : \A j \in P : i <= j
    <3> HIDE DEF P
    <3>1. QED
      BY <2>1, LeastElement
  <2>3. \A j \in 1 .. i - 1 : nodes[s[j]].out # nodes[s[i]].out
    <3>1. SUFFICES ASSUME NEW j \in 1 .. i - 1, nodes[s[j]].out = nodes[s[i]].out
                   PROVE  FALSE
      OBVIOUS
    <3>2. j \in 1 .. Len(s) /\ ~(i <= j)
      BY <1>1
    <3>3. j \in P
      BY <3>1, <3>2
    <3>4. QED
      BY <2>2, <3>2, <3>3
  <2>4. i \in I /\ i \in 1 .. Len(s)
    BY <1>1, <2>3 DEF I, FirstOfLocation
  <2>5. PICK k \in DOMAIN f : e[k] = i
    BY <1>5, <2>4
  <2>6. f[k] = s[i]
    BY <1>5, <2>5
  <2>7. QED
    BY <2>6
<1>13. AllOf(m, 1) = Members(s)
  <2>1. {j \in DOMAIN m : j >= 1} = DOMAIN f
    BY <1>4, <1>7
  <2>2. AllOf(m, 1) = UNION {Members(m[k]) : k \in DOMAIN f}
    BY <2>1 DEF AllOf
  <2>3. \A n : n \in AllOf(m, 1) <=> n \in Members(s)
    BY <1>8, <1>12, <2>2
  <2>4. QED
    BY <2>3
<1>14. ASSUME NEW X, OnceIn(s, X)
       PROVE  EachOnce(m, 1, X)
  <2>1. \A k, l \in DOMAIN m : k # l => NoneShared(Members(m[k]), Members(m[l]), X)
    BY <1>7, <1>8, <1>11 DEF NoneShared
  <2>2. \A k \in DOMAIN m : OnceIn(m[k], X)
    BY <1>7, <1>8, <1>14
  <2>3. QED
    BY <2>1, <2>2 DEF EachOnce
<1>15. \A k, l \in DOMAIN m : k # l =>
         \A a \in Members(m[k]), b \in Members(m[l]) : nodes[a].out # nodes[b].out
  BY <1>7, <1>8, <1>11
<1>16. \A k \in DOMAIN m : \E x : m[k] = Reducing(s, x)
  BY <1>7
<1>17. QED
  BY <1>9, <1>13, <1>14, <1>15, <1>16 DEF m

-------------------------------------------------------------------------------
(***************************************************************************)
(* What is packed and what is still to be.  em are the nodes packed so far,*)
(* w those at hand, ls the lists of the window from k on, fs the lists to  *)
(* come; R are the nodes of reductions, X the stores, rd what a node reads *)
(* of temporaries.  No store is in two of these places, nor in one twice;  *)
(* and each node of a reduction is in one of them, or packed with what it  *)
(* reads.                                                                  *)
(***************************************************************************)
Balanced(X, rd, R, E, W, L, F) ==
  /\ NoneShared(E, W \cup L \cup F, X)
  /\ NoneShared(W, L \cup F, X) /\ NoneShared(L, F, X)
  /\ W \cup L \cup F \subseteq R
  /\ \A x \in E : x \in X => x \in R
  /\ \A n \in R : n \in W \cup L \cup F \/ (n \in E /\ rd[n] \subseteq E)

Conserved(X, rd, R, em, w, ls, k, fs) ==
  /\ OnceIn(em, X) /\ OnceIn(w, X) /\ EachOnce(ls, k, X) /\ EachOnce(fs, 1, X)
  /\ Balanced(X, rd, R, Members(em), Members(w), AllOf(ls, k), AllOf(fs, 1))

Reads == [n \in DOMAIN nodes |-> Read(n)]

Accounted(w, ls, k) == Conserved(Stores, Reads, Members(redux), Emitted, w, ls, k, full)

(***************************************************************************)
(* The inductive invariant.  While the nodes are visited, those behind the *)
(* cursor are in a chain, read by one, or others; then all nodes are.      *)
(***************************************************************************)
ReadByChain == UNION {NodesRead(m) : m \in Members(redux)}

Visited ==
  /\ OnceIn(redux, Nat) /\ Members(redux) \subseteq flagged
  /\ flagged \subseteq Members(redux) \cup ReadByChain
  /\ OnceIn(others, Nat)
  /\ \A x \in Members(others) : \E i \in DOMAIN order : i > cursor /\ order[i] = x
  /\ \A i \in DOMAIN order : i > cursor => order[i] \in flagged \cup Members(others)
  /\ groups = <<>>

Divided ==
  /\ DOMAIN nodes = Members(redux) \cup ReadByChain \cup Members(others)
  /\ OnceIn(others, Nat) /\ NoneShared(Members(others), Members(redux), Nat)

(***************************************************************************)
(* A packing is filled by pieces of one size and of half that size after.  *)
(***************************************************************************)
Fitting ==
  /\ size \in {0, 1, 2, 4, 8, 16} /\ size <= MaxVectorLength
  /\ Len(packing) <= MaxVectorLength
  /\ size > 0 => \E q \in 0 .. 16 : Len(packing) = q * size

NothingPacked ==
  /\ cursor = 0 /\ redux = <<>> /\ flagged = {} /\ others = <<>>
  /\ full = <<>> /\ lists = <<>> /\ packing = <<>> /\ orphans = <<>> /\ groups = <<>>

DetectionTypes ==
  /\ opts \in Options /\ cursor \in 0 .. Len(order)
  /\ redux \in Seq(DOMAIN nodes) /\ others \in Seq(DOMAIN nodes)
  /\ flagged \subseteq DOMAIN nodes

WindowTypes ==
  /\ full \in Seq(Seq(DOMAIN nodes)) /\ lists \in Seq(Seq(DOMAIN nodes))
  /\ key \in Nat /\ key <= Len(lists) + 1 /\ size \in Nat
  /\ packing \in Seq(DOMAIN nodes) /\ orphans \in Seq(DOMAIN nodes)
  /\ Len(packing) <= MaxVectorLength

GroupTypes == groups \in Seq(Seq(DOMAIN nodes)) /\ AllOneOperation(groups)

PackingPlaces == {"window", "pack", "chunks"}

PackTypes ==
  /\ DetectionTypes /\ WindowTypes /\ GroupTypes
  /\ place \in {"detect", "visit", "packed", "undefined"} \cup PackingPlaces

InWindow ==
  /\ place = "window" => Accounted(<<>>, <<>>, 1)
  /\ place = "pack" => Accounted(packing, lists, 1) /\ orphans = <<>> /\ Fitting /\ key >= 1
  /\ place = "chunks" => Accounted(orphans, lists, key) /\ key >= 1

AllPackedAtEnd ==
  /\ Members(others) \subseteq Members(Emitted)
  /\ \A n \in Members(redux) : n \in Members(Emitted) /\ Read(n) \subseteq Members(Emitted)

PackInv ==
  /\ SchedInv /\ PackTypes
  /\ IF place = "detect" THEN NothingPacked ELSE pc = "done"
  /\ place = "visit" => Visited
  /\ place \in PackingPlaces \cup {"packed"} => Divided
  /\ InWindow
  /\ place = "packed" => AllPackedAtEnd
  /\ place \in {"packed", "undefined"} => OnceIn(Emitted, Stores)

-------------------------------------------------------------------------------
\* Nodes are taken out of the window's lists.
LEMMA TakenFromLists ==
  ASSUME NEW X, NEW rd, NEW R, NEW E, NEW W, NEW L, NEW F, NEW P, NEW M,
         Balanced(X, rd, R, E, W, L, F), L = P \cup M, NoneShared(P, M, X)
  PROVE  /\ Balanced(X, rd, R, E, W \cup P, M, F)
         /\ NoneShared(W, P, X)
<1>1. NoneShared(W, P, X)
  BY DEF Balanced, NoneShared
<1>2. NoneShared(E, (W \cup P) \cup M \cup F, X)
  BY DEF Balanced, NoneShared
<1>3. NoneShared(W \cup P, M \cup F, X)
  BY DEF Balanced, NoneShared
<1>4. NoneShared(M, F, X)
  BY DEF Balanced, NoneShared
<1>5. QED
  BY <1>1, <1>2, <1>3, <1>4 DEF Balanced

\* Nodes at hand are packed, as T.
LEMMA PackedFromHand ==
  ASSUME NEW X, NEW rd, NEW R, NEW E, NEW W, NEW L, NEW F, NEW A, NEW V, NEW T,
         Balanced(X, rd, R, E, W, L, F), W = A \cup V, NoneShared(A, V, X),
         A \subseteq T, \A x \in T : x \in X => x \in A,
         \A n \in A : rd[n] \subseteq T
  PROVE  /\ Balanced(X, rd, R, E \cup T, V, L, F)
         /\ NoneShared(E, T, X)
<1>1. NoneShared(E, T, X)
  BY DEF Balanced, NoneShared
<1>2. NoneShared(E \cup T, V \cup L \cup F, X)
  <2>1. \A x \in E : x \in V \cup L \cup F => x \notin X
    BY DEF Balanced, NoneShared
  <2>2. \A x \in T : x \in V \cup L \cup F => x \notin X
    BY DEF Balanced, NoneShared
  <2>3. QED
    BY <2>1, <2>2 DEF NoneShared
<1>3. NoneShared(V, L \cup F, X) /\ NoneShared(L, F, X) /\ V \cup L \cup F \subseteq R
  BY DEF Balanced, NoneShared
<1>4. \A x \in E \cup T : x \in X => x \in R
  BY DEF Balanced
<1>5. \A n \in R : n \in V \cup L \cup F \/ (n \in E \cup T /\ rd[n] \subseteq E \cup T)
  <2>1. SUFFICES ASSUME NEW n \in R, n \notin V \cup L \cup F
                 PROVE  n \in E \cup T /\ rd[n] \subseteq E \cup T
    OBVIOUS
  <2>2. n \in A \/ (n \in E /\ rd[n] \subseteq E)
    BY <2>1 DEF Balanced
  <2>3. QED
    BY <2>2
<1>6. QED
  BY <1>1, <1>2, <1>3, <1>4, <1>5 DEF Balanced

\* A window has the first of the lists to come.
LEMMA WindowTaken ==
  ASSUME NEW S, NEW fs \in Seq(Seq(S)), NEW w \in 0 .. Len(fs), NEW X, NEW rd, NEW R,
         NEW em, Conserved(X, rd, R, em, <<>>, <<>>, 1, fs)
  PROVE  LET a == SubSeq(fs, 1, w)
             b == SubSeq(fs, w + 1, Len(fs))
         IN  /\ a \in Seq(Seq(S)) /\ b \in Seq(Seq(S)) /\ Len(a) = w /\ Len(b) = Len(fs) - w
             /\ Conserved(X, rd, R, em, <<>>, a, 1, b)
<1> DEFINE a == SubSeq(fs, 1, w)
           b == SubSeq(fs, w + 1, Len(fs))
<1>1. /\ a \in Seq(Seq(S)) /\ b \in Seq(Seq(S)) /\ Len(a) = w /\ Len(b) = Len(fs) - w
      /\ AllOf(fs, 1) = AllOf(a, 1) \cup AllOf(b, 1)
      /\ \A Y : EachOnce(fs, 1, Y) =>
           /\ EachOnce(a, 1, Y) /\ EachOnce(b, 1, Y)
           /\ NoneShared(AllOf(a, 1), AllOf(b, 1), Y)
  BY ListsCut
<1> HIDE DEF a, b
<1>2. PICK E, A, B : E = Members(em) /\ A = AllOf(a, 1) /\ B = AllOf(b, 1)
  OBVIOUS
<1>3. Members(<<>>) = {} /\ AllOf(<<>>, 1) = {}
  BY FewMembers, NoListsLeft, Len(<<>>) < 1
<1>4. NoneShared(A, B, X)
  BY <1>1, <1>2 DEF Conserved
<1>5. Balanced(X, rd, R, E, {}, {}, A \cup B)
  BY <1>1, <1>2, <1>3 DEF Conserved
<1>6. Balanced(X, rd, R, E, {}, A, B)
  BY <1>4, <1>5 DEF Balanced, NoneShared
<1>7. Conserved(X, rd, R, em, <<>>, a, 1, b)
  BY <1>1, <1>2, <1>3, <1>6 DEF Conserved
<1>8. QED
  BY <1>1, <1>7 DEF a, b

\* A piece of a list is taken.
LEMMA PieceTaken ==
  ASSUME NEW S, NEW ls \in Seq(Seq(S)), NEW k \in Nat, NEW i \in DOMAIN ls, i >= k,
         NEW n \in 0 .. Len(ls[i]), NEW w \in Seq(S), NEW X, NEW rd, NEW R, NEW em, NEW fs,
         Conserved(X, rd, R, em, w, ls, k, fs)
  PROVE  LET p == SubSeq(ls[i], 1, n)
             m == [ls EXCEPT ![i] = SubSeq(@, n + 1, Len(@))]
         IN  /\ w \o p \in Seq(S) /\ Len(w \o p) = Len(w) + n
             /\ m \in Seq(Seq(S)) /\ Len(m) = Len(ls) /\ Len(m[i]) = Len(ls[i]) - n
             /\ Conserved(X, rd, R, em, w \o p, m, k, fs)
<1> DEFINE p == SubSeq(ls[i], 1, n)
           m == [ls EXCEPT ![i] = SubSeq(@, n + 1, Len(@))]
<1>1. /\ p \in Seq(S) /\ Len(p) = n /\ m \in Seq(Seq(S)) /\ Len(m) = Len(ls)
      /\ m[i] = SubSeq(ls[i], n + 1, Len(ls[i])) /\ Len(m[i]) = Len(ls[i]) - n
      /\ AllOf(ls, k) = Members(p) \cup AllOf(m, k)
      /\ \A Y : EachOnce(ls, k, Y) =>
           /\ OnceIn(p, Y) /\ EachOnce(m, k, Y)
           /\ NoneShared(Members(p), AllOf(m, k), Y)
  BY PieceCut
<1> HIDE DEF p, m
<1>2. Balanced(X, rd, R, Members(em), Members(w), AllOf(ls, k), AllOf(fs, 1))
  BY DEF Conserved
<1>3. NoneShared(Members(p), AllOf(m, k), X) /\ OnceIn(p, X) /\ EachOnce(m, k, X)
  BY <1>1 DEF Conserved
<1>4. /\ Balanced(X, rd, R, Members(em), Members(w) \cup Members(p), AllOf(m, k), AllOf(fs, 1))
      /\ NoneShared(Members(w), Members(p), X)
  BY <1>1, <1>2, <1>3, TakenFromLists
<1>5. /\ w \o p \in Seq(S) /\ Len(w \o p) = Len(w) + Len(p)
      /\ Members(w \o p) = Members(w) \cup Members(p)
      /\ OnceIn(w, X) /\ OnceIn(p, X) /\ NoneShared(Members(w), Members(p), X)
           => OnceIn(w \o p, X)
  BY <1>1, ConcatMembers
<1>6. Conserved(X, rd, R, em, w \o p, m, k, fs)
  BY <1>3, <1>4, <1>5 DEF Conserved
<1>7. QED
  BY <1>1, <1>5, <1>6 DEF p, m

\* What is left of a list is taken.
LEMMA ListTaken ==
  ASSUME NEW S, NEW ls \in Seq(Seq(S)), NEW k \in DOMAIN ls, NEW w \in Seq(S),
         NEW X, NEW rd, NEW R, NEW em, NEW fs, Conserved(X, rd, R, em, w, ls, k, fs)
  PROVE  w \o ls[k] \in Seq(S) /\ Conserved(X, rd, R, em, w \o ls[k], ls, k + 1, fs)
<1>1. PICK p \in Seq(S) :
        /\ p = ls[k] /\ AllOf(ls, k) = Members(p) \cup AllOf(ls, k + 1)
        /\ \A Y : EachOnce(ls, k, Y) =>
             /\ OnceIn(p, Y) /\ EachOnce(ls, k + 1, Y)
             /\ NoneShared(Members(p), AllOf(ls, k + 1), Y)
  BY NextListLeft
<1>2. Balanced(X, rd, R, Members(em), Members(w), AllOf(ls, k), AllOf(fs, 1))
  BY DEF Conserved
<1>3. NoneShared(Members(p), AllOf(ls, k + 1), X) /\ OnceIn(p, X) /\ EachOnce(ls, k + 1, X)
  BY <1>1 DEF Conserved
<1>4. /\ Balanced(X, rd, R, Members(em), Members(w) \cup Members(p), AllOf(ls, k + 1), AllOf(fs, 1))
      /\ NoneShared(Members(w), Members(p), X)
  BY <1>1, <1>2, <1>3, TakenFromLists
<1>5. /\ w \o p \in Seq(S) /\ Members(w \o p) = Members(w) \cup Members(p)
      /\ OnceIn(w, X) /\ OnceIn(p, X) /\ NoneShared(Members(w), Members(p), X)
           => OnceIn(w \o p, X)
  BY ConcatMembers
<1>6. Conserved(X, rd, R, em, w \o p, ls, k + 1, fs)
  BY <1>3, <1>4, <1>5 DEF Conserved
<1>7. QED
  BY <1>1, <1>5, <1>6

(***************************************************************************)
(* t has the nodes of A, no other store and what those nodes read.         *)
(***************************************************************************)
Covers(t, A, X, rd) ==
  /\ OnceIn(t, X) /\ A \subseteq Members(t)
  /\ \A x \in Members(t) : x \in X => x \in A
  /\ \A n \in A : rd[n] \subseteq Members(t)

\* All that is at hand is packed.
LEMMA AllPacked ==
  ASSUME NEW S, NEW em \in Seq(S), NEW t \in Seq(S), NEW w, NEW ls, NEW k, NEW fs,
         NEW X, NEW rd, NEW R, Conserved(X, rd, R, em, w, ls, k, fs),
         Covers(t, Members(w), X, rd)
  PROVE  Conserved(X, rd, R, em \o t, <<>>, ls, k, fs)
<1>1. PICK W, T, E : W = Members(w) /\ T = Members(t) /\ E = Members(em)
  OBVIOUS
<1>2. /\ em \o t \in Seq(S) /\ Members(em \o t) = E \cup T
      /\ OnceIn(em, X) /\ OnceIn(t, X) /\ NoneShared(E, T, X) => OnceIn(em \o t, X)
  BY <1>1, ConcatMembers
<1>3. Balanced(X, rd, R, E, W, AllOf(ls, k), AllOf(fs, 1))
  BY <1>1 DEF Conserved
<1>4. W = W \cup {} /\ NoneShared(W, {}, X)
  BY DEF NoneShared
<1>5. Balanced(X, rd, R, E \cup T, {}, AllOf(ls, k), AllOf(fs, 1)) /\ NoneShared(E, T, X)
  <2>1. W \subseteq T /\ (\A x \in T : x \in X => x \in W) /\ \A n \in W : rd[n] \subseteq T
    BY <1>1 DEF Covers
  <2>2. QED
    BY <1>3, <1>4, <2>1, PackedFromHand
<1>6. Members(<<>>) = {} /\ OnceIn(<<>>, X)
  BY FewMembers
<1>7. QED
  BY <1>2, <1>5, <1>6 DEF Conserved, Covers

\* A piece of a list is packed.
LEMMA PiecePacked ==
  ASSUME NEW S, NEW ls \in Seq(Seq(S)), NEW k \in DOMAIN ls, NEW n \in 0 .. Len(ls[k]),
         NEW em \in Seq(S), NEW t \in Seq(S), NEW w \in Seq(S), NEW X, NEW rd, NEW R, NEW fs,
         Conserved(X, rd, R, em, w, ls, k, fs),
         Covers(t, Members(SubSeq(ls[k], 1, n)), X, rd)
  PROVE  LET m == [ls EXCEPT ![k] = SubSeq(@, n + 1, Len(@))]
         IN  /\ m \in Seq(Seq(S)) /\ Len(m) = Len(ls) /\ Len(m[k]) = Len(ls[k]) - n
             /\ Conserved(X, rd, R, em \o t, w, m, k, fs)
<1>0. k \in Nat /\ k >= k
  BY SeqOfMembers
<1> DEFINE p == SubSeq(ls[k], 1, n)
           m == [ls EXCEPT ![k] = SubSeq(@, n + 1, Len(@))]
<1>1. /\ p \in Seq(S) /\ Len(p) = n /\ m \in Seq(Seq(S)) /\ Len(m) = Len(ls)
      /\ m[k] = SubSeq(ls[k], n + 1, Len(ls[k])) /\ Len(m[k]) = Len(ls[k]) - n
      /\ AllOf(ls, k) = Members(p) \cup AllOf(m, k)
      /\ \A Y : EachOnce(ls, k, Y) =>
           /\ OnceIn(p, Y) /\ EachOnce(m, k, Y)
           /\ NoneShared(Members(p), AllOf(m, k), Y)
  BY <1>0, PieceCut
<1> HIDE DEF p, m
<1>2. PICK W, T, E, P, L, M, F :
        /\ W = Members(w) /\ T = Members(t) /\ E = Members(em) /\ P = Members(p)
        /\ L = AllOf(ls, k) /\ M = AllOf(m, k) /\ F = AllOf(fs, 1)
  OBVIOUS
<1>3. Balanced(X, rd, R, E, W, L, F) /\ OnceIn(em, X) /\ OnceIn(w, X) /\ EachOnce(fs, 1, X)
  BY <1>2 DEF Conserved
<1>4. NoneShared(P, M, X) /\ EachOnce(m, k, X) /\ L = P \cup M
  BY <1>1, <1>2 DEF Conserved
<1>5. Balanced(X, rd, R, E, W \cup P, M, F) /\ NoneShared(W, P, X)
  BY <1>3, <1>4, TakenFromLists
<1>6. OnceIn(t, X) /\ P \subseteq T /\ (\A x \in T : x \in X => x \in P) /\ \A x \in P : rd[x] \subseteq T
  BY <1>1, <1>2 DEF Covers, p
<1>7. NoneShared(P, W, X) /\ W \cup P = P \cup W
  BY <1>5 DEF NoneShared
<1>8. Balanced(X, rd, R, E \cup T, W, M, F) /\ NoneShared(E, T, X)
  BY <1>5, <1>6, <1>7, PackedFromHand
<1>9. /\ em \o t \in Seq(S) /\ Members(em \o t) = E \cup T
      /\ OnceIn(em, X) /\ OnceIn(t, X) /\ NoneShared(E, T, X) => OnceIn(em \o t, X)
  BY <1>2, ConcatMembers
<1>10. Conserved(X, rd, R, em \o t, w, m, k, fs)
  BY <1>2, <1>3, <1>4, <1>6, <1>8, <1>9 DEF Conserved
<1>11. QED
  BY <1>1, <1>10 DEF p, m

\* A window without lists is the end of it.
LEMMA WindowEnds ==
  ASSUME NEW S, NEW ls \in Seq(S), NEW k \in Nat, Len(ls) < k, NEW fs,
         NEW X, NEW rd, NEW R, NEW em, NEW w, Conserved(X, rd, R, em, w, ls, k, fs)
  PROVE  Conserved(X, rd, R, em, w, <<>>, 1, fs)
<1>1. AllOf(ls, k) = {} /\ AllOf(<<>>, 1) = {} /\ EachOnce(<<>>, 1, X)
  <2>1. <<>> \in Seq(S) /\ Len(<<>>) < 1
    OBVIOUS
  <2>2. QED
    BY <2>1, NoListsLeft
<1>2. QED
  BY <1>1 DEF Conserved

-------------------------------------------------------------------------------
\* What is read off the nodes stays while they do.
LEMMA SameNodes ==
  ASSUME nodes' = nodes
  PROVE  /\ Stores' = Stores /\ Reads' = Reads
         /\ \A n : NodesRead(n)' = NodesRead(n)
         /\ \A gs : AllOneOperation(gs)' <=> AllOneOperation(gs)
<1>1. \A n : NodesRead(n)' = NodesRead(n)
  BY DEF NodesRead
<1>2. \A n : Read(n)' = Read(n)
  BY <1>1 DEF Read
<1>3. \A g : OneOperation(g)' <=> OneOperation(g)
  BY DEF OneOperation
<1>4. \A gs : AllOneOperation(gs)' <=> AllOneOperation(gs)
  BY <1>3 DEF AllOneOperation
<1>5. QED
  BY <1>1, <1>2, <1>4 DEF Stores, Reads

\* The nodes are packed behind those that have been.
LEMMA GroupsAdded ==
  ASSUME groups \in Seq(Seq(DOMAIN nodes)), AllOneOperation(groups),
         NEW hs \in Seq(Seq(DOMAIN nodes)), AllOneOperation(hs),
         nodes' = nodes, groups' = groups \o hs
  PROVE  /\ groups' \in Seq(Seq(DOMAIN nodes)) /\ AllOneOperation(groups)'
         /\ Emitted \in Seq(DOMAIN nodes) /\ FlattenSeq(hs) \in Seq(DOMAIN nodes)
         /\ Emitted' = Emitted \o FlattenSeq(hs)
<1>1. /\ groups \o hs \in Seq(Seq(DOMAIN nodes))
      /\ Members(groups \o hs) = Members(groups) \cup Members(hs)
  BY ConcatMembers
<1>2. AllOneOperation(groups \o hs)
  <2>1. \A g \in Members(groups) \cup Members(hs) : OneOperation(g)
    BY DEF AllOneOperation, Members
  <2>2. \A k \in DOMAIN (groups \o hs) : (groups \o hs)[k] \in Members(groups \o hs)
    BY DEF Members
  <2>3. QED
    BY <1>1, <2>1, <2>2 DEF AllOneOperation
<1>3. AllOneOperation(groups)'
  <2>1. \A g : OneOperation(g)' <=> OneOperation(g)
    BY DEF OneOperation
  <2>2. PICK gs : gs = groups \o hs
    OBVIOUS
  <2>3. \A k \in DOMAIN gs : OneOperation(gs[k])
    BY <1>2, <2>2 DEF AllOneOperation
  <2>4. groups' = gs
    BY <2>2
  <2>5. QED
    BY <2>1, <2>3, <2>4 DEF AllOneOperation
<1>4. /\ FlattenSeq(groups \o hs) = FlattenSeq(groups) \o FlattenSeq(hs)
      /\ FlattenSeq(groups) \in Seq(DOMAIN nodes) /\ FlattenSeq(hs) \in Seq(DOMAIN nodes)
  BY FlatConcat
<1>5. Emitted = FlattenSeq(groups) /\ Emitted' = FlattenSeq(groups \o hs)
  BY DEF Emitted
<1>6. QED
  BY <1>1, <1>3, <1>4, <1>5

\* What packs nodes covers them.
LEMMA PackedCovers ==
  ASSUME NEW hs, NEW A, A \subseteq DOMAIN nodes, PackedAs(hs, A)
  PROVE  Covers(FlattenSeq(hs), A, Stores, Reads)
BY DEF PackedAs, Covers, Reads

\* Nothing changes in the graph once it is sorted.
LEMMA GraphStays ==
  ASSUME SchedInv, UNCHANGED vars
  PROVE  SchedInv' /\ UNCHANGED <<nodes, order, pc>>
<1>1. IInv'
  BY DEF SchedInv, IInv, Types, OutsAssigned, TempsUnique, LastComputed, vars
<1>2. QED
  BY <1>1 DEF vars, SchedInv, CopiesOfTacs, LastUnroll, FewNodes, NodeTacs,
              Sorted, UnrollsInOrder, FirstAtOne

\* The sorted nodes are all nodes, each once.
LEMMA OrderOfNodes ==
  ASSUME SchedInv, pc = "done"
  PROVE  /\ order \in Seq(DOMAIN nodes) /\ DOMAIN order = 1 .. Len(order) /\ Len(order) \in Nat
         /\ \A n \in DOMAIN nodes : \E i \in DOMAIN order : order[i] = n
         /\ \A i \in DOMAIN order : order[i] \in DOMAIN nodes
         /\ \A i, j \in DOMAIN order : order[i] = order[j] => i = j
<1>1. PICK b \in Nat : b = Len(nodes) /\ DOMAIN nodes = 1 .. b
  BY TypedIsFew DEF SchedInv
<1>2. /\ order \in Seq(1 .. b) /\ Len(order) = b
      /\ \A m \in 1 .. b : \E i \in 1 .. b : order[i] = m
  BY <1>1 DEF SchedInv, Sorted, SortedTo
<1>3. DOMAIN order = 1 .. b /\ \A i \in 1 .. b : order[i] \in 1 .. b
  <2>1. DOMAIN order = 1 .. Len(order) /\ \A i \in 1 .. Len(order) : order[i] \in 1 .. b
    BY <1>2, LenProperties, ElementOfSeq
  <2>2. QED
    BY <1>2, <2>1
<1>4. \A i, j \in 1 .. b : order[i] = order[j] => i = j
  <2>1. order \in Surjection(1 .. b, 1 .. b)
    BY <1>2, <1>3 DEF Surjection
  <2>2. IsFiniteSet(1 .. b)
    BY FS_Interval
  <2>3. order \in Injection(1 .. b, 1 .. b)
    BY <2>1, <2>2, FS_SurjSameCardinalityImpliesInj
  <2>4. QED
    BY <2>3 DEF Injection, IsInjective
<1>5. QED
  BY <1>1, <1>2, <1>3, <1>4

\* A step of the windows' work keeps the invariant if it keeps what it is about.
LEMMA WindowsGoOn ==
  ASSUME PackInv, place \in PackingPlaces, UNCHANGED <<vars, opts, detection>>,
         place' \in PackingPlaces, WindowTypes', GroupTypes', InWindow'
  PROVE  PackInv'
<1>1. SchedInv' /\ UNCHANGED <<nodes, order, pc>>
  BY GraphStays DEF PackInv
<1>2. opts' = opts /\ cursor' = cursor /\ redux' = redux /\ flagged' = flagged /\ others' = others
  BY DEF detection
<1>3. DetectionTypes'
  BY <1>1, <1>2 DEF PackInv, PackTypes, DetectionTypes
<1>4. PackTypes'
  BY <1>3 DEF PackTypes, PackingPlaces
<1>5. Divided'
  <2>1. Divided
    BY DEF PackInv
  <2>2. \A n : NodesRead(n)' = NodesRead(n)
    BY <1>1, SameNodes
  <2>3. ReadByChain' = ReadByChain
    BY <1>2, <2>2 DEF ReadByChain
  <2>4. QED
    BY <1>1, <1>2, <2>1, <2>3 DEF Divided
<1>6. pc' = "done"
  BY <1>1 DEF PackInv, PackingPlaces
<1>7. place' \notin {"detect", "visit", "packed", "undefined"}
  BY DEF PackingPlaces
<1>8. QED
  BY <1>1, <1>4, <1>5, <1>6, <1>7 DEF PackInv

\* The options a compilation has.
LEMMA OptionTypes ==
  ASSUME PackInv
  PROVE  /\ opts.min \in Nat /\ opts.min >= 1 /\ opts.window \in Int
         /\ Len(full) \in Nat /\ Len(lists) \in Nat
         /\ full # <<>> => WindowSize \in 1 .. Len(full)
<1>1. opts \in [min : Nat \ {0}, window : Int, disableOrphans : BOOLEAN]
  BY OptionsAssumption DEF PackInv, PackTypes, DetectionTypes
<1>2. opts.min \in Nat /\ opts.min >= 1 /\ opts.window \in Int
  BY <1>1
<1>3. full \in Seq(Seq(DOMAIN nodes)) /\ lists \in Seq(Seq(DOMAIN nodes))
  BY DEF PackInv, PackTypes, WindowTypes
<1>4. Len(full) \in Nat /\ Len(lists) \in Nat /\ (full # <<>> => Len(full) >= 1)
  BY <1>3
<1>5. full # <<>> => WindowSize \in 1 .. Len(full)
  BY <1>2, <1>4 DEF WindowSize
<1>6. QED
  BY <1>2, <1>4, <1>5

\* A window is begun.
LEMMA WindowBegun ==
  ASSUME PackInv, TakeWindow
  PROVE  PackInv'
<1>1. /\ place = "window" /\ full # <<>> /\ place' = "pack"
      /\ lists' = SubSeq(full, 1, WindowSize)
      /\ full' = SubSeq(full, WindowSize + 1, Len(full))
      /\ size' = MaxVectorLength /\ key' = 1 /\ packing' = <<>> /\ orphans' = <<>>
      /\ UNCHANGED <<vars, opts, detection>> /\ groups' = groups
  BY DEF TakeWindow
<1>2. /\ UNCHANGED <<nodes, order, pc>> /\ Stores' = Stores /\ Reads' = Reads
      /\ \A gs : AllOneOperation(gs)' <=> AllOneOperation(gs)
  BY <1>1, GraphStays, SameNodes DEF PackInv
<1>3. WindowTypes /\ GroupTypes /\ Accounted(<<>>, <<>>, 1)
  BY <1>1 DEF PackInv, PackTypes, InWindow
<1>4. PICK w \in 1 .. Len(full) : w = WindowSize
  BY <1>1, OptionTypes
<1>5. Len(full) \in Nat /\ w \in 0 .. Len(full)
  BY OptionTypes
<1>6. LET a == SubSeq(full, 1, w)
          b == SubSeq(full, w + 1, Len(full))
      IN  /\ a \in Seq(Seq(DOMAIN nodes)) /\ b \in Seq(Seq(DOMAIN nodes))
          /\ Len(a) = w /\ Len(b) = Len(full) - w
          /\ Conserved(Stores, Reads, Members(redux), Emitted, <<>>, a, 1, b)
  BY SMTT(30), <1>3, <1>5, WindowTaken DEF Accounted, WindowTypes
<1>7. /\ lists' \in Seq(Seq(DOMAIN nodes)) /\ full' \in Seq(Seq(DOMAIN nodes))
      /\ Conserved(Stores, Reads, Members(redux), Emitted, <<>>, lists', 1, full')
  BY <1>1, <1>4, <1>6
<1>8. redux' = redux /\ Emitted' = Emitted
  BY <1>1 DEF detection, Emitted
<1>9. Accounted(packing, lists, 1)'
  BY <1>1, <1>2, <1>7, <1>8 DEF Accounted
<1>10. MaxVectorLength \in {4, 8, 16}
  BY SlotsAssumption
<1>11. <<>> \in Seq(DOMAIN nodes) /\ Len(<<>>) = 0
  BY FewMembers
<1>12. WindowTypes'
  BY <1>1, <1>2, <1>7, <1>10, <1>11 DEF WindowTypes
<1>13. Fitting'
  <2>1. Len(packing') = 0 /\ 0 \in 0 .. 16 /\ 0 * size' = 0
    BY <1>1, <1>10, <1>11
  <2>2. QED
    BY <1>1, <1>10, <2>1 DEF Fitting
<1>14. GroupTypes'
  BY <1>1, <1>2, <1>3 DEF GroupTypes
<1>15. InWindow'
  BY <1>1, <1>9, <1>13 DEF InWindow
<1>16. QED
  BY <1>1, <1>12, <1>14, <1>15, WindowsGoOn DEF PackingPlaces

\* A piece of the size fits in a packing that is not full.
LEMMA PieceFits ==
  ASSUME NEW m \in {4, 8, 16}, NEW s \in {1, 2, 4, 8, 16}, s <= m, NEW l \in Nat, l < m,
         NEW q \in 0 .. 16, l = q * s
  PROVE  l + s <= m /\ q + 1 \in 0 .. 16 /\ l + s = (q + 1) * s
<1>1. CASE s = 1
  BY <1>1
<1>2. CASE s = 2
  BY <1>2
<1>3. CASE s = 4
  BY <1>3
<1>4. CASE s = 8
  BY <1>4
<1>5. CASE s = 16
  BY <1>5
<1>6. QED
  BY <1>1, <1>2, <1>3, <1>4, <1>5

\* Half the size fills a packing as the size does.
LEMMA HalfFits ==
  ASSUME NEW m \in {4, 8, 16}, NEW s \in {1, 2, 4, 8, 16}, s <= m, NEW l \in Nat, l <= m,
         NEW q \in 0 .. 16, l = q * s
  PROVE  /\ s \div 2 \in {0, 1, 2, 4, 8, 16} /\ s \div 2 <= m /\ s \div 2 < s
         /\ s \div 2 > 0 => \E p \in 0 .. 16 : l = p * (s \div 2)
<1>1. CASE s = 1
  BY <1>1
<1>2. CASE s # 1
  <2>1. s \div 2 \in {1, 2, 4, 8} /\ s \div 2 <= m /\ s \div 2 < s /\ 2 * (s \div 2) = s
    BY <1>2
  <2>2. 2 * q \in 0 .. 16
    <3>1. CASE s = 2
      BY <3>1
    <3>2. CASE s = 4
      BY <3>2
    <3>3. CASE s = 8
      BY <3>3
    <3>4. CASE s = 16
      BY <3>4
    <3>5. QED
      BY <1>2, <3>1, <3>2, <3>3, <3>4
  <2>3. l = (2 * q) * (s \div 2)
    <3>1. CASE s = 2
      BY <3>1
    <3>2. CASE s = 4
      BY <3>2
    <3>3. CASE s = 8
      BY <3>3
    <3>4. CASE s = 16
      BY <3>4
    <3>5. QED
      BY <1>2, <3>1, <3>2, <3>3, <3>4
  <2>4. QED
    BY <2>1, <2>2, <2>3
<1>3. QED
  BY <1>1, <1>2

\* What is known when pieces are looked for.
LEMMA LooksForPieces ==
  ASSUME PackInv, place = "pack", size >= opts.min
  PROVE  /\ MaxVectorLength \in {4, 8, 16} /\ size \in {1, 2, 4, 8, 16}
         /\ size <= MaxVectorLength /\ Len(packing) \in Nat
         /\ Len(packing) <= MaxVectorLength
         /\ \E q \in 0 .. 16 : Len(packing) = q * size
<1>1. Fitting /\ packing \in Seq(DOMAIN nodes)
  BY DEF PackInv, InWindow, PackTypes, WindowTypes
<1>2. size \in {1, 2, 4, 8, 16}
  BY <1>1, OptionTypes DEF Fitting
<1>3. size > 0 /\ Len(packing) \in Nat
  BY <1>1, <1>2, LenProperties
<1>4. QED
  BY <1>1, <1>2, <1>3, SlotsAssumption DEF Fitting

\* A piece of a list is added to the packing.
LEMMA PieceAdded ==
  ASSUME PackInv, TakePiece
  PROVE  PackInv'
<1>1. /\ place = "pack" /\ size >= opts.min /\ key <= Len(lists) /\ HasPiece
      /\ packing' = packing \o SubSeq(lists[key], 1, size)
      /\ lists' = [lists EXCEPT ![key] = SubSeq(@, size + 1, Len(@))]
      /\ UNCHANGED <<vars, opts, detection>>
      /\ place' = place /\ full' = full /\ key' = key /\ size' = size
      /\ orphans' = orphans /\ groups' = groups
  BY DEF TakePiece, Packs
<1>2. /\ UNCHANGED <<nodes, order, pc>> /\ Stores' = Stores /\ Reads' = Reads
      /\ \A gs : AllOneOperation(gs)' <=> AllOneOperation(gs)
  BY <1>1, GraphStays, SameNodes DEF PackInv
<1>3. /\ WindowTypes /\ GroupTypes /\ Accounted(packing, lists, 1)
      /\ orphans = <<>> /\ Fitting /\ key >= 1
  BY <1>1 DEF PackInv, PackTypes, InWindow
<1>4. /\ lists \in Seq(Seq(DOMAIN nodes)) /\ packing \in Seq(DOMAIN nodes) /\ key \in Nat
      /\ Len(lists) \in Nat /\ DOMAIN lists = 1 .. Len(lists)
  BY <1>3, LenProperties DEF WindowTypes
<1>5. key \in DOMAIN lists
  BY <1>1, <1>3, <1>4
<1>6. lists[key] \in Seq(DOMAIN nodes) /\ Len(lists[key]) \in Nat
  BY <1>4, <1>5, ElementOfSeq, LenProperties
<1>7. /\ MaxVectorLength \in {4, 8, 16} /\ size \in {1, 2, 4, 8, 16}
      /\ size <= MaxVectorLength /\ Len(packing) \in Nat
      /\ \E q \in 0 .. 16 : Len(packing) = q * size
  BY <1>1, LooksForPieces
<1>8. Len(packing) < MaxVectorLength /\ size \in 0 .. Len(lists[key])
  BY <1>1, <1>6, <1>7 DEF HasPiece
<1>9. PICK q \in 0 .. 16 : Len(packing) = q * size
  BY <1>7
<1>10. /\ Len(packing) + size <= MaxVectorLength /\ q + 1 \in 0 .. 16
       /\ Len(packing) + size = (q + 1) * size
  BY <1>7, <1>8, <1>9, PieceFits
<1>11. LET p == SubSeq(lists[key], 1, size)
           m == [lists EXCEPT ![key] = SubSeq(@, size + 1, Len(@))]
       IN  /\ packing \o p \in Seq(DOMAIN nodes) /\ Len(packing \o p) = Len(packing) + size
           /\ m \in Seq(Seq(DOMAIN nodes)) /\ Len(m) = Len(lists)
           /\ Len(m[key]) = Len(lists[key]) - size
           /\ Conserved(Stores, Reads, Members(redux), Emitted, packing \o p, m, 1, full)
  <2>1. PICK S : S = DOMAIN nodes
    OBVIOUS
  <2>2. PICK ls \in Seq(Seq(S)), w \in Seq(S) : ls = lists /\ w = packing
    BY <1>4, <2>1
  <2>3. PICK X, rd, R, em, i, n, fs :
          /\ X = Stores /\ rd = Reads /\ R = Members(redux) /\ em = Emitted
          /\ i = key /\ n = size /\ fs = full
    OBVIOUS
  <2>4. /\ i \in DOMAIN ls /\ i >= 1 /\ n \in 0 .. Len(ls[i])
        /\ Conserved(X, rd, R, em, w, ls, 1, fs)
    BY <1>3, <1>5, <1>8, <2>2, <2>3 DEF Accounted
  <2>5. LET p == SubSeq(ls[i], 1, n)
            m == [ls EXCEPT ![i] = SubSeq(@, n + 1, Len(@))]
        IN  /\ w \o p \in Seq(S) /\ Len(w \o p) = Len(w) + n
            /\ m \in Seq(Seq(S)) /\ Len(m) = Len(ls) /\ Len(m[i]) = Len(ls[i]) - n
            /\ Conserved(X, rd, R, em, w \o p, m, 1, fs)
    BY <2>4, 1 \in Nat, PieceTaken
  <2>6. QED
    BY <2>1, <2>2, <2>3, <2>5
<1>12. /\ packing' \in Seq(DOMAIN nodes) /\ Len(packing') = Len(packing) + size
       /\ lists' \in Seq(Seq(DOMAIN nodes))
       /\ Conserved(Stores, Reads, Members(redux), Emitted, packing', lists', 1, full)
  BY <1>1, <1>11
<1>13. redux' = redux /\ Emitted' = Emitted
  BY <1>1 DEF detection, Emitted
<1>14. Accounted(packing, lists, 1)'
  BY <1>1, <1>2, <1>12, <1>13 DEF Accounted
<1>15. WindowTypes'
  BY <1>1, <1>2, <1>3, <1>10, <1>12 DEF WindowTypes
<1>16. Fitting'
  BY <1>1, <1>3, <1>10, <1>12 DEF Fitting
<1>17. GroupTypes'
  BY <1>1, <1>2, <1>3 DEF GroupTypes
<1>18. InWindow'
  BY <1>1, <1>3, <1>14, <1>16 DEF InWindow
<1>19. QED
  BY <1>1, <1>15, <1>17, <1>18, WindowsGoOn DEF PackingPlaces

\* What is packed of nodes at hand, and what remains accounted for.
LEMMA PackedAtHand ==
  ASSUME TypedNodes(nodes), GroupTypes, nodes' = nodes, redux' = redux,
         NEW w \in Seq(DOMAIN nodes), NEW ls, NEW k,
         Conserved(Stores, Reads, Members(redux), Emitted, w, ls, k, full),
         NEW hs, PackedAs(hs, Members(w)), groups' = groups \o hs
  PROVE  /\ GroupTypes'
         /\ Conserved(Stores, Reads, Members(redux), Emitted', <<>>, ls, k, full)
<1>1. hs \in Seq(Seq(DOMAIN nodes)) /\ AllOneOperation(hs)
  BY DEF PackedAs
<1>2. /\ groups' \in Seq(Seq(DOMAIN nodes)) /\ AllOneOperation(groups)'
      /\ Emitted \in Seq(DOMAIN nodes) /\ FlattenSeq(hs) \in Seq(DOMAIN nodes)
      /\ Emitted' = Emitted \o FlattenSeq(hs)
  BY <1>1, GroupsAdded DEF GroupTypes
<1>3. Members(w) \subseteq DOMAIN nodes
  BY LenProperties, ElementOfSeq DEF Members
<1>4. Covers(FlattenSeq(hs), Members(w), Stores, Reads)
  BY <1>3, PackedCovers
<1>5. PICK t \in Seq(DOMAIN nodes) : t = FlattenSeq(hs)
  BY <1>2
<1>6. Conserved(Stores, Reads, Members(redux), Emitted \o t, <<>>, ls, k, full)
  BY <1>2, <1>4, <1>5, AllPacked
<1>7. GroupTypes'
  BY <1>2 DEF GroupTypes
<1>8. QED
  BY <1>2, <1>5, <1>6, <1>7

\* The next list is looked at; a packing that is full is consumed before.
LEMMA ListPassed ==
  ASSUME PackInv, NextList
  PROVE  PackInv'
<1>1. /\ place = "pack" /\ size >= opts.min /\ key <= Len(lists) /\ ~HasPiece
      /\ IF Len(packing) = MaxVectorLength
         THEN groups' = groups \o Consume(packing) /\ packing' = <<>>
         ELSE groups' = groups /\ packing' = packing
      /\ key' = key + 1
      /\ UNCHANGED <<vars, opts, detection>>
      /\ place' = place /\ full' = full /\ lists' = lists /\ size' = size
      /\ orphans' = orphans
  BY DEF NextList, Packs
<1>2. /\ UNCHANGED <<nodes, order, pc>> /\ Stores' = Stores /\ Reads' = Reads
      /\ \A gs : AllOneOperation(gs)' <=> AllOneOperation(gs)
  BY <1>1, GraphStays, SameNodes DEF PackInv
<1>3. /\ WindowTypes /\ GroupTypes /\ Accounted(packing, lists, 1)
      /\ orphans = <<>> /\ Fitting /\ key >= 1
  BY <1>1 DEF PackInv, PackTypes, InWindow
<1>4. redux' = redux /\ TypedNodes(nodes)
  BY <1>1 DEF detection, PackInv, SchedInv
<1>5. /\ packing \in Seq(DOMAIN nodes) /\ OnceIn(packing, Stores)
      /\ Conserved(Stores, Reads, Members(redux), Emitted, packing, lists, 1, full)
  BY <1>3 DEF WindowTypes, Accounted, Conserved
<1>6. <<>> \in Seq(DOMAIN nodes) /\ Len(<<>>) = 0
  BY FewMembers
<1>7. /\ GroupTypes'
      /\ packing' \in Seq(DOMAIN nodes) /\ (packing' = packing \/ packing' = <<>>)
      /\ Conserved(Stores, Reads, Members(redux), Emitted', packing', lists, 1, full)
  <2>1. CASE Len(packing) = MaxVectorLength
    <3>1. PICK hs : hs = Consume(packing) /\ PackedAs(hs, Members(packing))
      BY <1>4, <1>5, ConsumePacks
    <3>2. groups' = groups \o hs
      BY <1>1, <2>1, <3>1
    <3>3. /\ GroupTypes'
          /\ Conserved(Stores, Reads, Members(redux), Emitted', <<>>, lists, 1, full)
      BY <1>2, <1>3, <1>4, <1>5, <3>1, <3>2, PackedAtHand
    <3>4. QED
      BY <1>1, <1>6, <2>1, <3>3
  <2>2. CASE Len(packing) # MaxVectorLength
    <3>1. Emitted' = Emitted /\ packing' = packing
      BY <1>1, <2>2 DEF Emitted
    <3>2. GroupTypes'
      BY <1>1, <1>2, <1>3, <2>2 DEF GroupTypes
    <3>3. QED
      BY <1>5, <3>1, <3>2
  <2>3. QED
    BY <2>1, <2>2
<1>8. Accounted(packing, lists, 1)'
  BY <1>1, <1>2, <1>4, <1>7 DEF Accounted
<1>9. Len(packing') <= MaxVectorLength /\ Len(packing') \in Nat
  BY <1>3, <1>6, <1>7, SlotsAssumption, LenProperties DEF WindowTypes
<1>10. WindowTypes'
  BY <1>1, <1>2, <1>3, <1>7, <1>9 DEF WindowTypes
<1>11. Fitting'
  <2>1. 0 \in 0 .. 16 /\ 0 * size = 0
    BY <1>3 DEF WindowTypes
  <2>2. \E q \in 0 .. 16 : Len(packing') = q * size
    BY <1>1, <1>6, <1>7, <2>1, LooksForPieces
  <2>3. QED
    BY <1>1, <1>3, <1>9, <2>2 DEF Fitting
<1>12. InWindow'
  BY <1>1, <1>3, <1>8, <1>11 DEF InWindow, WindowTypes
<1>13. QED
  BY <1>1, <1>7, <1>10, <1>12, WindowsGoOn DEF PackingPlaces

\* The size of the pieces is halved.
LEMMA SizeHalved ==
  ASSUME PackInv, HalveSize
  PROVE  PackInv'
<1>1. /\ place = "pack" /\ size >= opts.min
      /\ size' = size \div 2 /\ key' = 1
      /\ UNCHANGED <<vars, opts, detection>>
      /\ place' = place /\ full' = full /\ lists' = lists /\ packing' = packing
      /\ orphans' = orphans /\ groups' = groups
  BY DEF HalveSize
<1>2. /\ UNCHANGED <<nodes, order, pc>> /\ Stores' = Stores /\ Reads' = Reads
      /\ \A gs : AllOneOperation(gs)' <=> AllOneOperation(gs)
  BY <1>1, GraphStays, SameNodes DEF PackInv
<1>3. /\ WindowTypes /\ GroupTypes /\ Accounted(packing, lists, 1)
      /\ orphans = <<>> /\ Fitting
  BY <1>1 DEF PackInv, PackTypes, InWindow
<1>4. redux' = redux /\ Emitted' = Emitted
  BY <1>1 DEF detection, Emitted
<1>5. /\ MaxVectorLength \in {4, 8, 16} /\ size \in {1, 2, 4, 8, 16}
      /\ size <= MaxVectorLength /\ Len(packing) \in Nat
      /\ Len(packing) <= MaxVectorLength
      /\ \E q \in 0 .. 16 : Len(packing) = q * size
  BY <1>1, LooksForPieces
<1>6. /\ size \div 2 \in {0, 1, 2, 4, 8, 16} /\ size \div 2 <= MaxVectorLength
      /\ size \div 2 > 0 => \E p \in 0 .. 16 : Len(packing) = p * (size \div 2)
  BY <1>5, HalfFits
<1>7. Fitting'
  BY <1>1, <1>5, <1>6 DEF Fitting
<1>8. Accounted(packing, lists, 1)'
  BY <1>1, <1>2, <1>3, <1>4 DEF Accounted
<1>9. WindowTypes'
  BY <1>1, <1>2, <1>3, <1>6 DEF WindowTypes
<1>10. GroupTypes'
  BY <1>1, <1>2, <1>3 DEF GroupTypes
<1>11. InWindow'
  BY <1>1, <1>3, <1>7, <1>8 DEF InWindow
<1>12. QED
  BY <1>1, <1>9, <1>10, <1>11, WindowsGoOn DEF PackingPlaces

\* A packing that no piece fills is consumed as it is.
LEMMA LeftoverConsumed ==
  ASSUME PackInv, ConsumeLeftover
  PROVE  PackInv'
<1>1. /\ place = "pack" /\ groups' = groups \o Consume(packing) /\ key' = 1
      /\ place' = "chunks"
      /\ UNCHANGED <<vars, opts, detection>>
      /\ full' = full /\ lists' = lists /\ size' = size /\ packing' = packing
      /\ orphans' = orphans
  BY DEF ConsumeLeftover
<1>2. /\ UNCHANGED <<nodes, order, pc>> /\ Stores' = Stores /\ Reads' = Reads
  BY <1>1, GraphStays, SameNodes DEF PackInv
<1>3. WindowTypes /\ GroupTypes /\ Accounted(packing, lists, 1) /\ orphans = <<>>
  BY <1>1 DEF PackInv, PackTypes, InWindow
<1>4. redux' = redux /\ TypedNodes(nodes)
  BY <1>1 DEF detection, PackInv, SchedInv
<1>5. /\ packing \in Seq(DOMAIN nodes) /\ OnceIn(packing, Stores)
      /\ Conserved(Stores, Reads, Members(redux), Emitted, packing, lists, 1, full)
  BY <1>3 DEF WindowTypes, Accounted, Conserved
<1>6. PICK hs : hs = Consume(packing) /\ PackedAs(hs, Members(packing))
  BY <1>4, <1>5, ConsumePacks
<1>7. groups' = groups \o hs
  BY <1>1, <1>6
<1>8. /\ GroupTypes'
      /\ Conserved(Stores, Reads, Members(redux), Emitted', <<>>, lists, 1, full)
  BY <1>2, <1>3, <1>4, <1>5, <1>6, <1>7, PackedAtHand
<1>9. Accounted(orphans, lists, key)'
  BY <1>1, <1>2, <1>3, <1>4, <1>8 DEF Accounted
<1>10. WindowTypes'
  BY <1>1, <1>2, <1>3 DEF WindowTypes
<1>11. InWindow'
  BY <1>1, <1>9 DEF InWindow
<1>12. QED
  BY <1>1, <1>8, <1>10, <1>11, WindowsGoOn DEF PackingPlaces

\* A chunk of a list is consumed.
LEMMA ChunkConsumed ==
  ASSUME PackInv, ConsumeChunk
  PROVE  PackInv'
<1> DEFINE n == IF Len(lists[key]) < MaxVectorLength THEN Len(lists[key])
                ELSE MaxVectorLength
           p == SubSeq(lists[key], 1, n)
<1>1. /\ place = "chunks" /\ key <= Len(lists)
      /\ groups' = groups \o Consume(SortNodes(p))
      /\ lists' = [lists EXCEPT ![key] = SubSeq(@, n + 1, Len(@))]
      /\ UNCHANGED <<vars, opts, detection>>
      /\ place' = place /\ full' = full /\ key' = key /\ size' = size
      /\ packing' = packing /\ orphans' = orphans
  BY DEF ConsumeChunk, Chunks
<1>2. UNCHANGED <<nodes, order, pc>> /\ Stores' = Stores /\ Reads' = Reads
  BY <1>1, GraphStays, SameNodes DEF PackInv
<1>3. WindowTypes /\ GroupTypes /\ Accounted(orphans, lists, key) /\ key >= 1
  BY <1>1 DEF PackInv, PackTypes, InWindow
<1>4. redux' = redux /\ TypedNodes(nodes)
  BY <1>1 DEF detection, PackInv, SchedInv
<1>5. /\ lists \in Seq(Seq(DOMAIN nodes)) /\ orphans \in Seq(DOMAIN nodes) /\ key \in Nat
      /\ Len(lists) \in Nat /\ DOMAIN lists = 1 .. Len(lists)
  BY <1>3, LenProperties DEF WindowTypes
<1>6. key \in DOMAIN lists
  BY <1>1, <1>3, <1>5
<1>7. lists[key] \in Seq(DOMAIN nodes) /\ Len(lists[key]) \in Nat
  BY <1>5, <1>6, ElementOfSeq, LenProperties
<1>8. n \in 0 .. Len(lists[key])
  BY <1>7, SlotsAssumption
<1> HIDE DEF n
<1>9. /\ p \in Seq(DOMAIN nodes)
      /\ OnceIn(lists[key], Stores) => OnceIn(p, Stores)
  BY <1>7, <1>8, CutMembers
<1> HIDE DEF p
<1>10. OnceIn(p, Stores)
  <2>1. EachOnce(lists, key, Stores)
    BY <1>3 DEF Accounted, Conserved
  <2>2. \A i \in DOMAIN lists : i >= key => OnceIn(lists[i], Stores)
    BY ZenonT(60), <2>1 DEF EachOnce
  <2>3. key >= key
    BY <1>5
  <2>4. OnceIn(lists[key], Stores)
    BY ZenonT(60), <2>2, <2>3, <1>6
  <2>5. QED
    BY <2>4, <1>9
<1>11. PICK s \in Seq(DOMAIN nodes) :
         s = SortNodes(p) /\ Members(s) = Members(p) /\ OnceIn(s, Stores)
  BY <1>9, <1>10, SortedMembers DEF SortNodes
<1>12. PICK hs : hs = Consume(s) /\ PackedAs(hs, Members(p))
  BY <1>4, <1>11, ConsumePacks
<1>13. hs \in Seq(Seq(DOMAIN nodes)) /\ AllOneOperation(hs) /\ groups' = groups \o hs
  BY <1>1, <1>11, <1>12 DEF PackedAs
<1>14. /\ groups' \in Seq(Seq(DOMAIN nodes)) /\ AllOneOperation(groups)'
       /\ Emitted \in Seq(DOMAIN nodes) /\ FlattenSeq(hs) \in Seq(DOMAIN nodes)
       /\ Emitted' = Emitted \o FlattenSeq(hs)
  BY <1>2, <1>3, <1>13, GroupsAdded DEF GroupTypes
<1>15. Covers(FlattenSeq(hs), Members(p), Stores, Reads)
  <2>1. Members(p) \subseteq DOMAIN nodes
    BY <1>9, LenProperties, ElementOfSeq DEF Members
  <2>2. QED
    BY <1>12, <2>1, PackedCovers
<1>16. /\ lists' \in Seq(Seq(DOMAIN nodes))
       /\ Conserved(Stores, Reads, Members(redux), Emitted', orphans, lists', key, full)
  <2>1. PICK S : S = DOMAIN nodes
    OBVIOUS
  <2>2. PICK ls \in Seq(Seq(S)), w \in Seq(S), em \in Seq(S), t \in Seq(S) :
          ls = lists /\ w = orphans /\ em = Emitted /\ t = FlattenSeq(hs)
    BY <1>5, <1>14, <2>1
  <2>3. PICK X, rd, R, k, l, fs :
          /\ X = Stores /\ rd = Reads /\ R = Members(redux)
          /\ k = key /\ l = n /\ fs = full
    OBVIOUS
  <2>4. /\ k \in DOMAIN ls /\ l \in 0 .. Len(ls[k])
        /\ Conserved(X, rd, R, em, w, ls, k, fs)
        /\ Covers(t, Members(SubSeq(ls[k], 1, l)), X, rd)
    BY <1>3, <1>6, <1>8, <1>15, <2>2, <2>3 DEF Accounted, p
  <2>5. LET m == [ls EXCEPT ![k] = SubSeq(@, l + 1, Len(@))]
        IN  /\ m \in Seq(Seq(S)) /\ Len(m) = Len(ls) /\ Len(m[k]) = Len(ls[k]) - l
            /\ Conserved(X, rd, R, em \o t, w, m, k, fs)
    BY <2>4, PiecePacked
  <2>6. QED
    BY <1>1, <1>14, <2>1, <2>2, <2>3, <2>5
<1>17. Accounted(orphans, lists, key)'
  BY <1>1, <1>2, <1>4, <1>16 DEF Accounted
<1>18. WindowTypes'
  BY <1>1, <1>2, <1>3, <1>16 DEF WindowTypes
<1>19. GroupTypes'
  BY <1>2, <1>14 DEF GroupTypes
<1>20. InWindow'
  BY <1>1, <1>3, <1>17 DEF InWindow
<1>21. QED
  BY <1>1, <1>18, <1>19, <1>20, WindowsGoOn DEF PackingPlaces

\* What is less than a chunk makes orphans.
LEMMA OrphansInserted ==
  ASSUME PackInv, InsertOrphans
  PROVE  PackInv'
<1>1. /\ place = "chunks" /\ key <= Len(lists)
      /\ orphans' = orphans \o lists[key] /\ key' = key + 1
      /\ UNCHANGED <<vars, opts, detection>>
      /\ place' = place /\ full' = full /\ lists' = lists /\ size' = size
      /\ packing' = packing /\ groups' = groups
  BY DEF InsertOrphans, Chunks
<1>2. /\ UNCHANGED <<nodes, order, pc>> /\ Stores' = Stores /\ Reads' = Reads
      /\ \A gs : AllOneOperation(gs)' <=> AllOneOperation(gs)
  BY <1>1, GraphStays, SameNodes DEF PackInv
<1>3. WindowTypes /\ GroupTypes /\ Accounted(orphans, lists, key) /\ key >= 1
  BY <1>1 DEF PackInv, PackTypes, InWindow
<1>4. redux' = redux /\ Emitted' = Emitted
  BY <1>1 DEF detection, Emitted
<1>5. /\ lists \in Seq(Seq(DOMAIN nodes)) /\ orphans \in Seq(DOMAIN nodes) /\ key \in Nat
      /\ Len(lists) \in Nat /\ DOMAIN lists = 1 .. Len(lists)
  BY <1>3, LenProperties DEF WindowTypes
<1>6. key \in DOMAIN lists
  BY <1>1, <1>3, <1>5
<1>7. /\ orphans \o lists[key] \in Seq(DOMAIN nodes)
      /\ Conserved(Stores, Reads, Members(redux), Emitted, orphans \o lists[key],
                   lists, key + 1, full)
  <2>1. PICK X, rd, R, em : X = Stores /\ rd = Reads /\ R = Members(redux) /\ em = Emitted
    OBVIOUS
  <2>2. Conserved(X, rd, R, em, orphans, lists, key, full)
    BY <1>3, <2>1 DEF Accounted
  <2>3. /\ orphans \o lists[key] \in Seq(DOMAIN nodes)
        /\ Conserved(X, rd, R, em, orphans \o lists[key], lists, key + 1, full)
    BY <1>5, <1>6, <2>2, ListTaken
  <2>4. QED
    BY <2>1, <2>3
<1>8. Accounted(orphans, lists, key)'
  BY <1>1, <1>2, <1>4, <1>7 DEF Accounted
<1>9. WindowTypes'
  BY <1>1, <1>2, <1>3, <1>7 DEF WindowTypes
<1>10. GroupTypes'
  BY <1>1, <1>2, <1>3 DEF GroupTypes
<1>11. InWindow'
  BY <1>1, <1>3, <1>5, <1>8 DEF InWindow
<1>12. QED
  BY <1>1, <1>9, <1>10, <1>11, WindowsGoOn DEF PackingPlaces

\* The orphans are packed, found by the search or one by one.
LEMMA OrphansGrouped ==
  ASSUME PackInv, ConsumeOrphans
  PROVE  \E gs : /\ PackedAs(gs, Members(orphans)) /\ groups' = groups \o gs
                 /\ opts.disableOrphans =>
                      gs = <<>> \o ConsumeAlong(AllButAt(SortNodes(orphans), {}))
<1> DEFINE s == SortNodes(orphans)
           r == IF opts.disableOrphans THEN NothingFound ELSE SearchMapNodes(s)
           hs == ConsumeAlong(AllButAt(s, r.used))
<1>1. /\ place = "chunks" /\ key > Len(lists)
      /\ groups' = groups \o r.groups \o hs
      /\ place' = "window"
      /\ UNCHANGED <<vars, opts, detection, windows>>
  BY DEF ConsumeOrphans, Orphaned
<1>2. WindowTypes /\ GroupTypes /\ Accounted(orphans, lists, key)
  BY <1>1 DEF PackInv, PackTypes, InWindow
<1>3. TypedNodes(nodes)
  BY DEF PackInv, SchedInv
<1>4. /\ lists \in Seq(Seq(DOMAIN nodes)) /\ orphans \in Seq(DOMAIN nodes) /\ key \in Nat
      /\ Conserved(Stores, Reads, Members(redux), Emitted, orphans, lists, key, full)
      /\ OnceIn(orphans, Stores)
  BY <1>2 DEF WindowTypes, Accounted, Conserved
<1>5. s \in Seq(DOMAIN nodes) /\ Members(s) = Members(orphans) /\ OnceIn(s, Stores)
  BY <1>4, SortedMembers DEF SortNodes
<1> HIDE DEF s
<1>6. FoundIn(r, s)
  <2>1. FoundIn(SearchMapNodes(s), s)
    BY <1>3, <1>5, SearchPacks
  <2>2. FoundIn(NothingFound, s)
    <3>1. NothingFound.used = {} /\ NothingFound.groups = <<>>
      BY DEF NothingFound
    <3>2. {s[i] : i \in {}} = {}
      OBVIOUS
    <3>3. QED
      BY <3>1, <3>2, PacksNothing DEF FoundIn, NothingFound
  <2>3. QED
    BY <2>1, <2>2
<1> HIDE DEF r
<1>7. PackedAs(r.groups \o hs, Members(s))
  BY <1>3, <1>5, <1>6, OrphansPacked
<1>8. groups' = groups \o (r.groups \o hs)
  <2>1. r.groups \in Seq(Seq(DOMAIN nodes))
    BY <1>6 DEF FoundIn, PackedAs
  <2>2. hs \in Seq(Seq(DOMAIN nodes))
    <3>1. AllButAt(s, r.used) \in Seq(DOMAIN nodes) /\ OnceIn(AllButAt(s, r.used), Stores)
      BY <1>5, KeptMembers DEF AllButAt
    <3>2. PackedAs(hs, Members(AllButAt(s, r.used)))
      BY <1>3, <3>1, ConsumeAlongPacks
    <3>3. QED
      BY <3>2 DEF PackedAs
  <2> HIDE DEF hs
  <2>3. groups \in Seq(Seq(DOMAIN nodes))
    BY <1>2 DEF GroupTypes
  <2>4. PICK S : S = Seq(DOMAIN nodes)
    OBVIOUS
  <2>5. PICK a, b, c \in Seq(S) : a = r.groups /\ b = hs /\ c = groups
    BY <2>1, <2>2, <2>3, <2>4
  <2>6. (c \o a) \o b = c \o (a \o b)
    BY ConcatAssociative
  <2>7. QED
    BY <1>1, <2>5, <2>6
<1>9. opts.disableOrphans =>
         r.groups \o hs = <<>> \o ConsumeAlong(AllButAt(SortNodes(orphans), {}))
  BY DEF r, s, NothingFound
<1>10. QED
  BY <1>5, <1>7, <1>8, <1>9

\* The orphans are consumed.
LEMMA OrphansConsumed ==
  ASSUME PackInv, ConsumeOrphans
  PROVE  PackInv'
<1>1. /\ place = "chunks" /\ key > Len(lists)
      /\ place' = "window"
      /\ UNCHANGED <<vars, opts, detection, windows>>
  BY DEF ConsumeOrphans, Orphaned
<1>2. UNCHANGED <<nodes, order, pc>> /\ Stores' = Stores /\ Reads' = Reads
  BY <1>1, GraphStays, SameNodes DEF PackInv
<1>3. WindowTypes /\ GroupTypes /\ Accounted(orphans, lists, key)
  BY <1>1 DEF PackInv, PackTypes, InWindow
<1>4. redux' = redux /\ TypedNodes(nodes)
  BY <1>1 DEF detection, PackInv, SchedInv
<1>5. /\ lists \in Seq(Seq(DOMAIN nodes)) /\ orphans \in Seq(DOMAIN nodes) /\ key \in Nat
      /\ Conserved(Stores, Reads, Members(redux), Emitted, orphans, lists, key, full)
      /\ OnceIn(orphans, Stores)
  BY <1>3 DEF WindowTypes, Accounted, Conserved
<1>6. PICK gs : PackedAs(gs, Members(orphans)) /\ groups' = groups \o gs
  BY OrphansGrouped
<1>7. /\ GroupTypes'
       /\ Conserved(Stores, Reads, Members(redux), Emitted', <<>>, lists, key, full)
  BY <1>2, <1>3, <1>4, <1>5, <1>6, PackedAtHand
<1>8. Conserved(Stores, Reads, Members(redux), Emitted', <<>>, <<>>, 1, full)
  <2>1. PICK X, rd, R, em : X = Stores /\ rd = Reads /\ R = Members(redux) /\ em = Emitted'
    OBVIOUS
  <2>2. Conserved(X, rd, R, em, <<>>, lists, key, full) /\ Len(lists) < key
    BY <1>1, <1>5, <1>7, <2>1, OptionTypes
  <2>3. Conserved(X, rd, R, em, <<>>, <<>>, 1, full)
    BY <1>5, <2>2, WindowEnds
  <2>4. QED
    BY <2>1, <2>3
<1>9. full' = full /\ lists' = lists /\ key' = key /\ size' = size /\ packing' = packing
       /\ orphans' = orphans
  BY <1>1 DEF windows
<1>10. Accounted(<<>>, <<>>, 1)'
  BY <1>2, <1>4, <1>8, <1>9 DEF Accounted
<1>11. WindowTypes'
  BY <1>2, <1>3, <1>9 DEF WindowTypes
<1>12. InWindow'
  BY <1>1, <1>10 DEF InWindow
<1>13. QED
  BY <1>1, <1>7, <1>11, <1>12, WindowsGoOn DEF PackingPlaces

\* A search that is undefined ends the packing.
LEMMA NoElementSearched ==
  ASSUME PackInv, SearchNoElement
  PROVE  PackInv'
<1>1. /\ place = "chunks" /\ place' = "undefined"
      /\ UNCHANGED <<vars, opts, detection, windows, groups>>
  BY DEF SearchNoElement, Orphaned
<1>2. SchedInv' /\ UNCHANGED <<nodes, order, pc>> /\ Stores' = Stores /\ Reads' = Reads
      /\ \A gs : AllOneOperation(gs)' <=> AllOneOperation(gs)
  BY <1>1, GraphStays, SameNodes DEF PackInv
<1>3. DetectionTypes /\ WindowTypes /\ GroupTypes /\ Accounted(orphans, lists, key) /\ pc = "done"
  BY <1>1 DEF PackInv, PackTypes, InWindow
<1>4. /\ opts' = opts /\ cursor' = cursor /\ redux' = redux /\ flagged' = flagged
      /\ others' = others /\ full' = full /\ lists' = lists /\ key' = key /\ size' = size
      /\ packing' = packing /\ orphans' = orphans /\ groups' = groups
  BY <1>1 DEF detection, windows
<1>5. DetectionTypes' /\ WindowTypes' /\ GroupTypes'
  BY <1>2, <1>3, <1>4 DEF DetectionTypes, WindowTypes, GroupTypes
<1>6. OnceIn(Emitted, Stores)'
  <2>1. OnceIn(Emitted, Stores)
    BY <1>3 DEF Accounted, Conserved
  <2>2. Emitted' = Emitted
    BY <1>4 DEF Emitted
  <2>3. QED
    BY <1>2, <2>1, <2>2
<1>7. QED
  BY <1>1, <1>2, <1>3, <1>5, <1>6 DEF PackInv, PackTypes, PackingPlaces, InWindow

\* What is left is consumed: then all is packed but what a reduction reads.
LEMMA OthersConsumed ==
  ASSUME PackInv, ConsumeOthers
  PROVE  PackInv'
<1>1. /\ place = "window" /\ full = <<>> /\ groups' = groups \o Greedy(others)
      /\ place' = "packed" /\ UNCHANGED <<vars, opts, detection, windows>>
  BY DEF ConsumeOthers
<1>2. /\ SchedInv' /\ UNCHANGED <<nodes, order, pc>> /\ Stores' = Stores /\ Reads' = Reads
      /\ \A n : NodesRead(n)' = NodesRead(n)
  BY <1>1, GraphStays, SameNodes DEF PackInv
<1>3. /\ DetectionTypes /\ WindowTypes /\ GroupTypes /\ Accounted(<<>>, <<>>, 1)
      /\ pc = "done" /\ Divided
  BY <1>1 DEF PackInv, PackTypes, InWindow, PackingPlaces
<1>4. /\ opts' = opts /\ cursor' = cursor /\ redux' = redux /\ flagged' = flagged
      /\ others' = others /\ full' = full /\ lists' = lists /\ key' = key /\ size' = size
      /\ packing' = packing /\ orphans' = orphans
  BY <1>1 DEF detection, windows
<1>5. PICK hs : /\ hs = Greedy(others) /\ hs \in Seq(Seq(DOMAIN nodes))
                /\ AllOneOperation(hs) /\ FlattenSeq(hs) = others
  BY <1>3, GreedyGroups DEF DetectionTypes
<1>6. /\ groups' \in Seq(Seq(DOMAIN nodes)) /\ AllOneOperation(groups)'
      /\ Emitted \in Seq(DOMAIN nodes) /\ Emitted' = Emitted \o others
  BY <1>1, <1>2, <1>3, <1>5, GroupsAdded DEF GroupTypes
<1>7. DetectionTypes' /\ WindowTypes' /\ GroupTypes'
  BY <1>2, <1>3, <1>4, <1>6 DEF DetectionTypes, WindowTypes, GroupTypes
<1>8. Divided'
  <2>1. ReadByChain' = ReadByChain
    BY <1>2, <1>4 DEF ReadByChain
  <2>2. QED
    BY <1>2, <1>3, <1>4, <2>1 DEF Divided
<1>9. /\ OnceIn(Emitted, Stores)
      /\ \A x \in Members(Emitted) : x \in Stores => x \in Members(redux)
      /\ \A n \in Members(redux) : n \in Members(Emitted) /\ Reads[n] \subseteq Members(Emitted)
  <2>1. Members(<<>>) = {} /\ AllOf(<<>>, 1) = {}
    BY FewMembers, NoListsLeft, Len(<<>>) < 1
  <2>2. /\ OnceIn(Emitted, Stores)
        /\ Balanced(Stores, Reads, Members(redux), Members(Emitted), {}, {}, {})
    BY <1>1, <1>3, <2>1 DEF Accounted, Conserved
  <2>3. QED
    BY <2>2 DEF Balanced
<1>10. Stores \subseteq Nat
  <2>1. TypedNodes(nodes)
    BY DEF PackInv, SchedInv
  <2>2. QED
    BY <2>1, NodesReadOlder DEF Stores
<1>11. /\ Members(Emitted \o others) = Members(Emitted) \cup Members(others)
       /\ OnceIn(Emitted \o others, Stores)
  <2>1. OnceIn(others, Stores) /\ NoneShared(Members(Emitted), Members(others), Stores)
    BY <1>3, <1>9, <1>10 DEF Divided, OnceIn, NoneShared
  <2>2. QED
    BY <1>3, <1>6, <1>9, <2>1, ConcatMembers DEF DetectionTypes
<1>12. AllPackedAtEnd'
  <2>1. \A n \in Members(redux) : n \in DOMAIN nodes
    BY <1>3, LenProperties, ElementOfSeq DEF DetectionTypes, Members
  <2>2. \A n \in Members(redux) : Read(n) \subseteq Members(Emitted)
    BY <1>9, <2>1 DEF Reads
  <2>3. \A n : Read(n)' = Read(n)
    BY <1>2 DEF Read
  <2>4. QED
    BY <1>4, <1>6, <1>9, <1>11, <2>2, <2>3 DEF AllPackedAtEnd
<1>13. OnceIn(Emitted, Stores)'
  BY <1>2, <1>6, <1>11
<1>14. QED
  BY <1>1, <1>2, <1>3, <1>7, <1>8, <1>12, <1>13 DEF PackInv, PackTypes, PackingPlaces, InWindow

-------------------------------------------------------------------------------
\* The visit begins behind the last node.
LEMMA VisitBegun ==
  ASSUME PackInv, BeginDetection
  PROVE  PackInv'
<1>1. /\ pc = "done" /\ place = "detect" /\ cursor' = Len(order) /\ place' = "visit"
      /\ UNCHANGED <<vars, opts, redux, flagged, others, windows, groups>>
  BY DEF BeginDetection
<1>2. /\ SchedInv' /\ UNCHANGED <<nodes, order, pc>>
      /\ \A gs : AllOneOperation(gs)' <=> AllOneOperation(gs)
  BY <1>1, GraphStays, SameNodes DEF PackInv
<1>3. /\ DetectionTypes /\ WindowTypes /\ GroupTypes
      /\ redux = <<>> /\ flagged = {} /\ others = <<>> /\ groups = <<>>
  BY <1>1 DEF PackInv, PackTypes, NothingPacked
<1>4. Len(order) \in Nat /\ DOMAIN order = 1 .. Len(order)
  BY <1>1, OrderOfNodes DEF PackInv
<1>5. full' = full /\ lists' = lists /\ key' = key /\ size' = size /\ packing' = packing
      /\ orphans' = orphans
  BY <1>1 DEF windows
<1>6. DetectionTypes' /\ WindowTypes' /\ GroupTypes'
  BY <1>1, <1>2, <1>3, <1>4, <1>5 DEF DetectionTypes, WindowTypes, GroupTypes
<1>7. Visited'
  <2>1. Members(<<>>) = {} /\ OnceIn(<<>>, Nat)
    BY FewMembers
  <2>2. redux' = <<>> /\ flagged' = {} /\ others' = <<>> /\ groups' = <<>>
        /\ order' = order /\ cursor' = Len(order)
    BY <1>1, <1>2, <1>3
  <2>3. \A i \in DOMAIN order : ~(i > Len(order))
    BY <1>4
  <2>4. QED
    BY <2>1, <2>2, <2>3 DEF Visited
<1>8. QED
  BY <1>1, <1>2, <1>6, <1>7 DEF PackInv, PackTypes, PackingPlaces, InWindow

\* A node is visited: it is in a chain, makes one, or is one of the others.
LEMMA NodeVisited ==
  ASSUME PackInv, VisitNode
  PROVE  PackInv'
<1> DEFINE n == order[cursor]
           chain == Chain(n)
<1>1. /\ place = "visit" /\ cursor > 0 /\ cursor' = cursor - 1 /\ place' = place
      /\ UNCHANGED <<vars, opts, windows, groups>>
      /\ IF n \in Members(redux) THEN redux' = redux /\ flagged' = flagged /\ others' = others
         ELSE IF Len(chain) > 1
         THEN redux' = redux \o chain /\ flagged' = flagged \cup Flags(chain) /\ others' = others
         ELSE /\ others' = IF n \in flagged THEN others ELSE Append(others, n)
              /\ redux' = redux /\ flagged' = flagged
  BY DEF VisitNode
<1>2. /\ SchedInv' /\ UNCHANGED <<nodes, order, pc>>
      /\ \A m : NodesRead(m)' = NodesRead(m)
      /\ \A gs : AllOneOperation(gs)' <=> AllOneOperation(gs)
  BY <1>1, GraphStays, SameNodes DEF PackInv
<1>3. /\ DetectionTypes /\ WindowTypes /\ GroupTypes /\ Visited /\ pc = "done"
      /\ TypedNodes(nodes)
  BY <1>1 DEF PackInv, PackTypes, SchedInv
<1>4. full' = full /\ lists' = lists /\ key' = key /\ size' = size /\ packing' = packing
      /\ orphans' = orphans
  BY <1>1 DEF windows
<1>5. /\ Len(order) \in Nat /\ DOMAIN order = 1 .. Len(order)
      /\ \A i \in DOMAIN order : order[i] \in DOMAIN nodes
      /\ \A i, j \in DOMAIN order : order[i] = order[j] => i = j
  BY <1>3, OrderOfNodes DEF PackInv
<1>6. cursor \in DOMAIN order /\ n \in DOMAIN nodes /\ cursor' \in 0 .. Len(order)
  BY <1>1, <1>3, <1>5 DEF DetectionTypes
<1>7. /\ \A i \in DOMAIN order : i > cursor' <=> i = cursor \/ i > cursor
      /\ cursor > cursor'
  BY <1>1, <1>5, <1>6
<1>8. /\ OnceIn(redux, Nat) /\ Members(redux) \subseteq flagged
      /\ flagged \subseteq Members(redux) \cup ReadByChain
      /\ OnceIn(others, Nat)
      /\ \A x \in Members(others) : \E i \in DOMAIN order : i > cursor /\ order[i] = x
      /\ \A i \in DOMAIN order : i > cursor => order[i] \in flagged \cup Members(others)
      /\ groups = <<>>
  BY <1>3 DEF Visited
<1>9. /\ redux \in Seq(DOMAIN nodes) /\ others \in Seq(DOMAIN nodes)
      /\ flagged \subseteq DOMAIN nodes /\ opts \in Options
  BY <1>3 DEF DetectionTypes
<1>10. WindowTypes' /\ GroupTypes'
  BY <1>1, <1>2, <1>3, <1>4 DEF WindowTypes, GroupTypes
<1>11. SUFFICES DetectionTypes' /\ Visited'
  BY <1>1, <1>2, <1>3, <1>10 DEF PackInv, PackTypes, PackingPlaces, InWindow
<1>12. /\ order' = order /\ nodes' = nodes /\ opts' = opts /\ groups' = <<>>
  BY <1>1, <1>2, <1>8
<1> HIDE DEF n, chain
<1>13. CASE redux' = redux /\ flagged' = flagged /\ others' = others /\ n \in flagged
  <2>1. DetectionTypes'
    BY <1>6, <1>9, <1>12, <1>13 DEF DetectionTypes
  <2>2. ReadByChain' = ReadByChain
    BY <1>2, <1>13 DEF ReadByChain
  <2>3. \A i \in DOMAIN order : i > cursor' => order[i] \in flagged \cup Members(others)
    BY <1>7, <1>8, <1>13 DEF n
  <2>4. \A x \in Members(others) : \E i \in DOMAIN order : i > cursor' /\ order[i] = x
    BY <1>7, <1>8
  <2>5. Visited'
    BY <1>8, <1>12, <1>13, <2>2, <2>3, <2>4 DEF Visited
  <2>6. QED
    BY <2>1, <2>5
<1>14. CASE /\ n \notin Members(redux) /\ n \notin flagged
            /\ others' = Append(others, n) /\ redux' = redux /\ flagged' = flagged
  <2>1. /\ others' \in Seq(DOMAIN nodes) /\ Members(others') = Members(others) \cup {n}
        /\ OnceIn(others, Nat) /\ (n \in Nat => n \notin Members(others)) => OnceIn(others', Nat)
    BY <1>6, <1>9, <1>14, AppendMembers
  <2>2. n \notin Members(others)
    <3>1. SUFFICES ASSUME n \in Members(others)
                   PROVE  FALSE
      OBVIOUS
    <3>2. PICK i \in DOMAIN order : i > cursor /\ order[i] = n
      BY <1>8, <3>1
    <3>3. i = cursor
      BY <1>5, <1>6, <3>2 DEF n
    <3>4. QED
      BY <1>3, <3>2, <3>3 DEF DetectionTypes
  <2>3. DetectionTypes'
    BY <1>6, <1>9, <1>12, <1>14, <2>1 DEF DetectionTypes
  <2>4. ReadByChain' = ReadByChain
    BY <1>2, <1>14 DEF ReadByChain
  <2>5. \A i \in DOMAIN order : i > cursor' => order[i] \in flagged \cup Members(others')
    BY <1>7, <1>8, <2>1 DEF n
  <2>6. \A x \in Members(others') : \E i \in DOMAIN order : i > cursor' /\ order[i] = x
    <3>1. \A x \in Members(others) : \E i \in DOMAIN order : i > cursor' /\ order[i] = x
      BY <1>7, <1>8
    <3>2. cursor > cursor' /\ order[cursor] = n /\ cursor \in DOMAIN order
      BY <1>6, <1>7 DEF n
    <3>3. QED
      BY <2>1, <3>1, <3>2
  <2>7. Visited'
    BY <1>8, <1>12, <1>14, <2>1, <2>2, <2>4, <2>5, <2>6 DEF Visited
  <2>8. QED
    BY <2>3, <2>7
<1>15. CASE /\ n \notin Members(redux)
            /\ redux' = redux \o chain /\ flagged' = flagged \cup Flags(chain) /\ others' = others
  <2>1. PICK c \in Seq(DOMAIN nodes) :
          /\ c = chain /\ OnceIn(c, Nat) /\ n \in Members(c)
          /\ \A x \in Members(c) : x \notin Members(redux)
    BY <1>3, <1>6, <1>15, ChainMembers DEF chain
  <2>2. /\ redux' \in Seq(DOMAIN nodes) /\ Members(redux') = Members(redux) \cup Members(c)
        /\ OnceIn(redux, Nat) /\ OnceIn(c, Nat) /\ NoneShared(Members(redux), Members(c), Nat)
             => OnceIn(redux', Nat)
    BY <1>9, <1>15, <2>1, ConcatMembers
  <2>3. NoneShared(Members(redux), Members(c), Nat)
    BY <2>1 DEF NoneShared
  <2>4. flagged' = flagged \cup Members(c) \cup UNION {NodesRead(m) : m \in Members(c)}
    BY <1>15, <2>1 DEF Flags
  <2>5. ReadByChain' = ReadByChain \cup UNION {NodesRead(m) : m \in Members(c)}
    <3>1. ReadByChain' = UNION {NodesRead(m) : m \in Members(redux')}
      BY <1>2 DEF ReadByChain
    <3>2. QED
      BY <2>2, <3>1 DEF ReadByChain
  <2>6. \A m \in Members(c) : m \in DOMAIN nodes /\ NodesRead(m) \subseteq DOMAIN nodes
    <3>1. \A m \in Members(c) : m \in DOMAIN nodes
      BY LenProperties, ElementOfSeq DEF Members
    <3>2. QED
      BY <1>3, <3>1, NodesReadOlder
  <2>7. flagged' \subseteq DOMAIN nodes
    BY <1>9, <2>4, <2>6
  <2>8. DetectionTypes'
    BY <1>6, <1>9, <1>12, <1>15, <2>2, <2>7 DEF DetectionTypes
  <2>9. \A i \in DOMAIN order : i > cursor' => order[i] \in flagged' \cup Members(others)
    BY <1>7, <1>8, <2>1, <2>4 DEF n
  <2>10. \A x \in Members(others) : \E i \in DOMAIN order : i > cursor' /\ order[i] = x
    BY <1>7, <1>8
  <2>11. /\ OnceIn(redux', Nat) /\ Members(redux') \subseteq flagged'
         /\ flagged' \subseteq Members(redux') \cup ReadByChain'
    BY <1>8, <2>1, <2>2, <2>3, <2>4, <2>5
  <2>12. Visited'
    BY <1>8, <1>12, <1>15, <2>9, <2>10, <2>11 DEF Visited
  <2>13. QED
    BY <2>8, <2>12
<1>16. QED
  BY <1>1, <1>8, <1>13, <1>14, <1>15

\* The chains are divided by location, the others put in their order.
LEMMA NodesDivided ==
  ASSUME PackInv, EndDetection
  PROVE  PackInv'
<1> DEFINE I == {i \in DOMAIN others : others[i] \notin flagged}
<1>1. /\ place = "visit" /\ cursor = 0
      /\ redux' = ByNumber(redux)
      /\ others' = RootsBehindInner(Kept(others, I))
      /\ full' = MapReductions(redux')
      /\ place' = "window"
      /\ UNCHANGED <<vars, opts, cursor, flagged, lists, key, size, packing, orphans, groups>>
  BY DEF EndDetection
<1>2. /\ SchedInv' /\ UNCHANGED <<nodes, order, pc>> /\ Stores' = Stores /\ Reads' = Reads
      /\ \A m : NodesRead(m)' = NodesRead(m)
      /\ \A gs : AllOneOperation(gs)' <=> AllOneOperation(gs)
  BY <1>1, GraphStays, SameNodes DEF PackInv
<1>3. /\ DetectionTypes /\ WindowTypes /\ GroupTypes /\ Visited /\ pc = "done"
      /\ TypedNodes(nodes)
  BY <1>1 DEF PackInv, PackTypes, SchedInv
<1>4. /\ OnceIn(redux, Nat) /\ Members(redux) \subseteq flagged
      /\ flagged \subseteq Members(redux) \cup ReadByChain
      /\ OnceIn(others, Nat)
      /\ \A i \in DOMAIN order : i > cursor => order[i] \in flagged \cup Members(others)
      /\ groups = <<>>
  BY <1>3 DEF Visited
<1>5. /\ redux \in Seq(DOMAIN nodes) /\ others \in Seq(DOMAIN nodes)
      /\ flagged \subseteq DOMAIN nodes /\ opts \in Options
  BY <1>3 DEF DetectionTypes
<1>6. /\ redux' \in Seq(DOMAIN nodes) /\ Members(redux') = Members(redux)
      /\ OnceIn(redux', Nat)
  BY <1>1, <1>4, <1>5, SortedMembers DEF ByNumber
<1>7. PICK rest \in Seq(DOMAIN nodes) :
        /\ rest = Kept(others, I) /\ Members(rest) = {others[i] : i \in {j \in DOMAIN others : j \in I}}
        /\ OnceIn(rest, Nat)
  <2> HIDE DEF I
  <2>1. QED
    BY <1>4, <1>5, KeptMembers
<1>8. /\ others' \in Seq(DOMAIN nodes) /\ Members(others') = Members(rest)
      /\ OnceIn(others', Nat)
  BY <1>1, <1>3, <1>7, RestKept
<1>9. Members(others') = Members(others) \ flagged
  BY <1>7, <1>8 DEF Members
<1>10. PICK rs \in Seq(DOMAIN nodes) : rs = redux'
  BY <1>6
<1>11. /\ full' \in Seq(Seq(DOMAIN nodes)) /\ AllOf(full', 1) = Members(redux')
       /\ EachOnce(full', 1, Stores)
  <2>1. LET m == MapReductions(rs)
        IN  /\ m \in Seq(Seq(DOMAIN nodes)) /\ AllOf(m, 1) = Members(rs)
            /\ \A X : OnceIn(rs, X) => EachOnce(m, 1, X)
    BY <1>3, MapReductionsMembers
  <2>2. \A x \in Stores : x \in Nat
    BY <1>3, NodesReadOlder DEF Stores
  <2>3. OnceIn(rs, Stores)
    BY <1>6, <1>10, <2>2 DEF OnceIn
  <2>4. QED
    BY <1>1, <1>10, <2>1, <2>3
<1>12. DetectionTypes'
  BY <1>1, <1>2, <1>3, <1>5, <1>6, <1>8 DEF DetectionTypes
<1>13. WindowTypes' /\ GroupTypes'
  BY <1>1, <1>2, <1>3, <1>11 DEF WindowTypes, GroupTypes
<1>14. ReadByChain' = ReadByChain
  BY <1>2, <1>6 DEF ReadByChain
<1>15. Divided'
  <2>1. DOMAIN nodes \subseteq flagged \cup Members(others)
    <3>1. /\ DOMAIN order = 1 .. Len(order) /\ Len(order) \in Nat
          /\ \A m \in DOMAIN nodes : \E i \in DOMAIN order : order[i] = m
      BY <1>3, OrderOfNodes DEF PackInv
    <3>2. \A i \in DOMAIN order : i > cursor
      BY <1>1, <3>1
    <3>3. QED
      BY <1>4, <3>1, <3>2
  <2>2. ReadByChain \subseteq DOMAIN nodes
    <3>1. \A m \in Members(redux) : m \in DOMAIN nodes
      BY <1>5, LenProperties, ElementOfSeq DEF Members
    <3>2. QED
      BY <1>3, <3>1, NodesReadOlder DEF ReadByChain
  <2>3. Members(redux) \subseteq DOMAIN nodes /\ Members(others') \subseteq DOMAIN nodes
    BY <1>5, <1>8, LenProperties, ElementOfSeq DEF Members
  <2>4. DOMAIN nodes = Members(redux') \cup ReadByChain' \cup Members(others')
    BY <1>4, <1>6, <1>9, <1>14, <2>1, <2>2, <2>3
  <2>5. NoneShared(Members(others'), Members(redux'), Nat)
    BY <1>4, <1>6, <1>9 DEF NoneShared
  <2>6. QED
    BY <1>2, <1>8, <2>4, <2>5 DEF Divided
<1>16. Accounted(<<>>, <<>>, 1)'
  <2>1. Emitted' = <<>>
    BY <1>1, <1>4, FlatFew DEF Emitted
  <2>2. /\ Members(<<>>) = {} /\ \A X : OnceIn(<<>>, X)
        /\ AllOf(<<>>, 1) = {} /\ \A X : EachOnce(<<>>, 1, X)
    <3>1. <<>> \in Seq({}) /\ Len(<<>>) < 1
      BY FewMembers
    <3>2. QED
      BY <3>1, FewMembers, NoListsLeft
  <2>3. PICK R : R = Members(redux')
    OBVIOUS
  <2>4. Balanced(Stores, Reads, R, {}, {}, {}, R)
    BY DEF Balanced, NoneShared
  <2>5. Conserved(Stores, Reads, R, <<>>, <<>>, <<>>, 1, full')
    BY <1>11, <2>2, <2>3, <2>4 DEF Conserved
  <2>6. QED
    BY <1>2, <2>1, <2>3, <2>5 DEF Accounted
<1>17. InWindow'
  BY <1>1, <1>16 DEF InWindow
<1>18. PackTypes'
  BY <1>1, <1>12, <1>13 DEF PackTypes, PackingPlaces
<1>19. QED
  BY <1>1, <1>2, <1>3, <1>15, <1>17, <1>18 DEF PackInv, PackingPlaces

-------------------------------------------------------------------------------
\* Nothing is packed at first.
LEMMA InitPack ==
  ASSUME PackInit
  PROVE  PackInv
<1>1. SchedInv
  BY InitSched DEF PackInit
<1>2. /\ opts \in Options /\ place = "detect" /\ cursor = 0 /\ redux = <<>> /\ flagged = {}
      /\ others = <<>> /\ full = <<>> /\ lists = <<>> /\ key = 0 /\ size = 0
      /\ packing = <<>> /\ orphans = <<>> /\ groups = <<>>
  BY DEF PackInit, packInit
<1>3. NothingPacked
  BY <1>2 DEF NothingPacked
<1>4. order = <<>> /\ Len(order) = 0
  BY DEF PackInit, Init
<1>5. /\ \A S : <<>> \in Seq(S)
      /\ Len(<<>>) = 0 /\ 0 <= MaxVectorLength /\ AllOneOperation(<<>>)
  BY FewMembers, SlotsAssumption DEF AllOneOperation
<1>6. PackTypes
  BY <1>2, <1>4, <1>5 DEF PackTypes, DetectionTypes, WindowTypes, GroupTypes
<1>7. QED
  BY <1>1, <1>2, <1>3, <1>6 DEF PackInv, PackingPlaces, InWindow

\* While the graph is built nothing is packed.
LEMMA GraphBuilt ==
  ASSUME AllWellFormed, AllUnrolledInOrder, PackInv, Step, UNCHANGED packVars
  PROVE  PackInv'
<1>1. SchedInv'
  BY NextSched DEF PackInv, Next
<1>2. pc = "insert"
  BY DEF Step, FoldAssignment, InsertNode, NameOfBrokenLeaf, SortGraph, Inserting
<1>3. /\ place = "detect" /\ NothingPacked /\ opts \in Options
      /\ key \in Nat /\ key <= Len(lists) + 1 /\ size \in Nat
  BY <1>2 DEF PackInv, PackTypes, DetectionTypes, WindowTypes
<1>4. /\ opts' = opts /\ place' = place /\ cursor' = cursor /\ redux' = redux
      /\ flagged' = flagged /\ others' = others /\ full' = full /\ lists' = lists
      /\ key' = key /\ size' = size /\ packing' = packing /\ orphans' = orphans
      /\ groups' = groups
  BY DEF packVars, detection, windows
<1>5. NothingPacked'
  BY <1>3, <1>4 DEF NothingPacked
<1>6. Len(order') \in Nat
  <2>1. order' = <<>> \/ order' \in Seq(1 .. Len(nodes'))
    BY <1>1 DEF SchedInv, Sorted, SortedTo
  <2>2. QED
    BY <2>1, LenProperties, FewMembers
<1>7. /\ \A S : <<>> \in Seq(S)
      /\ Len(<<>>) = 0 /\ 0 <= MaxVectorLength /\ AllOneOperation(<<>>)'
  BY FewMembers, SlotsAssumption DEF AllOneOperation
<1>8. PackTypes'
  BY <1>3, <1>4, <1>5, <1>6, <1>7
     DEF PackTypes, DetectionTypes, WindowTypes, GroupTypes, NothingPacked
<1>9. QED
  BY <1>1, <1>3, <1>4, <1>5, <1>8 DEF PackInv, PackingPlaces, InWindow

\* Each step of the packing keeps the invariant.
LEMMA PackingKeepsInv ==
  ASSUME PackInv, PackingStep
  PROVE  PackInv'
BY VisitBegun, NodeVisited, NodesDivided, WindowBegun, PieceAdded, ListPassed, SizeHalved,
   LeftoverConsumed, ChunkConsumed, OrphansInserted, OrphansConsumed, NoElementSearched,
   OthersConsumed DEF PackingStep

\* A step that changes nothing keeps the invariant.
LEMMA NothingChanged ==
  ASSUME PackInv, UNCHANGED <<vars, packVars>>
  PROVE  PackInv'
<1>1. /\ SchedInv' /\ UNCHANGED <<nodes, order, pc>> /\ Stores' = Stores /\ Reads' = Reads
      /\ \A n : NodesRead(n)' = NodesRead(n)
      /\ \A gs : AllOneOperation(gs)' <=> AllOneOperation(gs)
  BY GraphStays, SameNodes DEF PackInv
<1>2. /\ opts' = opts /\ place' = place /\ cursor' = cursor /\ redux' = redux
      /\ flagged' = flagged /\ others' = others /\ full' = full /\ lists' = lists
      /\ key' = key /\ size' = size /\ packing' = packing /\ orphans' = orphans
      /\ groups' = groups
  BY DEF packVars, detection, windows
<1>3. PackTypes'
  BY <1>1, <1>2 DEF PackInv, PackTypes, DetectionTypes, WindowTypes, GroupTypes
<1>4. ReadByChain' = ReadByChain /\ Emitted' = Emitted /\ \A n : Read(n)' = Read(n)
  BY <1>1, <1>2 DEF ReadByChain, Emitted, Read
<1>5. (NothingPacked' <=> NothingPacked) /\ (Visited' <=> Visited) /\ (Divided' <=> Divided)
  BY <1>1, <1>2, <1>4 DEF NothingPacked, Visited, Divided
<1>6. \A w, ls, k : Accounted(w, ls, k)' <=> Accounted(w, ls, k)
  BY <1>1, <1>2, <1>4 DEF Accounted
<1>7. (AllPackedAtEnd' <=> AllPackedAtEnd) /\ (Fitting' <=> Fitting)
  BY <1>2, <1>4 DEF AllPackedAtEnd, Fitting
<1>8. InWindow'
  <2>1. InWindow
    BY DEF PackInv
  <2>2. /\ place = "window" => Accounted(<<>>, <<>>, 1)'
        /\ place = "pack" => Accounted(packing, lists, 1)'
        /\ place = "chunks" => Accounted(orphans, lists, key)'
    BY <1>1, <1>2, <1>4, <2>1 DEF InWindow, Accounted
  <2>3. QED
    BY <1>2, <1>7, <2>1, <2>2 DEF InWindow
<1>9. OnceIn(Emitted, Stores)' <=> OnceIn(Emitted, Stores)
  BY <1>1, <1>4
<1>10. QED
  BY <1>1, <1>2, <1>3, <1>5, <1>7, <1>8, <1>9 DEF PackInv

\* Each step keeps the invariant.
LEMMA NextPack ==
  ASSUME AllWellFormed, AllUnrolledInOrder, PackInv, [PackNext]_<<vars, packVars>>
  PROVE  PackInv'
<1>1. CASE Step /\ UNCHANGED packVars
  BY <1>1, GraphBuilt
<1>2. CASE PackingStep
  BY <1>2, PackingKeepsInv
<1>3. CASE UNCHANGED <<vars, packVars>>
  BY <1>3, NothingChanged
<1>4. QED
  BY <1>1, <1>2, <1>3 DEF PackNext, CompilerStep, Stopped

\* What has been packed, each store once; nothing before the windows.
LEMMA EmittedOnce ==
  ASSUME PackInv
  PROVE  /\ Emitted \in Seq(DOMAIN nodes) /\ OnceIn(Emitted, Stores)
         /\ place \in {"detect", "visit"} => Emitted = <<>>
<1>1. Emitted \in Seq(DOMAIN nodes)
  BY FlatConcat DEF PackInv, PackTypes, GroupTypes, Emitted
<1>2. CASE place \in {"detect", "visit"}
  <2>1. groups = <<>>
    BY <1>2 DEF PackInv, NothingPacked, Visited
  <2>2. Emitted = <<>>
    BY <2>1, FlatFew DEF Emitted
  <2>3. QED
    BY <1>1, <2>2, FewMembers
<1>3. CASE place \in PackingPlaces
  BY <1>1, <1>3 DEF PackInv, InWindow, PackingPlaces, Accounted, Conserved
<1>4. CASE place \in {"packed", "undefined"}
  BY <1>1, <1>4 DEF PackInv
<1>5. QED
  BY <1>2, <1>3, <1>4 DEF PackInv, PackTypes

-------------------------------------------------------------------------------
\* The type invariant: a packing has no more nodes than a vector of floats has
\* slots, a group no more than its type's, all with one operation.
THEOREM PackingTypes ==
  ASSUME AllWellFormed, AllUnrolledInOrder
  PROVE  PackSpec => []PackTypeOK
<1>1. PackInit => PackInv
  BY InitPack
<1>2. PackInv /\ [PackNext]_<<vars, packVars>> => PackInv'
  BY NextPack
<1>3. PackInv => PackTypeOK
  <2>1. SUFFICES ASSUME PackInv
                 PROVE  PackTypeOK
    OBVIOUS
  <2>2. DetectionTypes /\ WindowTypes /\ GroupTypes
    BY <2>1 DEF PackInv, PackTypes
  <2>3. PICK D : D = DOMAIN nodes
    OBVIOUS
  <2>4. \A s \in Seq(D) : Members(s) \subseteq D
    BY LenProperties, ElementOfSeq DEF Members
  <2>5. \A ls \in Seq(Seq(D)) : \A s \in Members(ls) : s \in Seq(D)
    BY LenProperties, ElementOfSeq DEF Members
  <2>6. \A s \in {redux, others, packing, orphans} \cup Members(full) \cup Members(lists) :
          Members(s) \subseteq DOMAIN nodes
    BY <2>2, <2>3, <2>4, <2>5 DEF DetectionTypes, WindowTypes
  <2>7. \A g \in Members(groups) :
          /\ Len(g) \in 1 .. Slots /\ Members(g) \subseteq DOMAIN nodes
          /\ \A i \in DOMAIN g : nodes[g[i]].op = nodes[g[1]].op
    <3>1. \A g \in Members(groups) : OneOperation(g)
      BY <2>2 DEF GroupTypes, AllOneOperation, Members
    <3>2. \A g \in Members(groups) : Members(g) \subseteq DOMAIN nodes
      BY <2>2, <2>3, <2>4, <2>5 DEF GroupTypes
    <3>3. QED
      BY <3>1, <3>2 DEF OneOperation
  <2>8. place \in {"detect", "visit", "window", "pack", "chunks", "packed", "undefined"}
    BY <2>1 DEF PackInv, PackTypes, PackingPlaces
  <2>9. QED
    BY <2>2, <2>6, <2>7, <2>8 DEF PackTypeOK, DetectionTypes, WindowTypes
<1>4. QED
  BY <1>1, <1>2, <1>3, PTL DEF PackSpec

\* No store is packed twice, although chains, windows, pieces, chunks, orphans and
\* the greedy consumer all take nodes from one another's lists.
THEOREM StoresPackedOnce ==
  ASSUME AllWellFormed, AllUnrolledInOrder
  PROVE  PackSpec => []StoredOnce
<1>1. PackInit => PackInv
  BY InitPack
<1>2. PackInv /\ [PackNext]_<<vars, packVars>> => PackInv'
  BY NextPack
<1>3. PackInv => StoredOnce
  <2>1. SUFFICES ASSUME PackInv
                 PROVE  StoredOnce
    OBVIOUS
  <2>2. Emitted \in Seq(DOMAIN nodes) /\ OnceIn(Emitted, Stores)
    BY <2>1, EmittedOnce
  <2>3. \A i \in DOMAIN Emitted : Emitted[i] \in DOMAIN nodes
    BY <2>2, LenProperties, ElementOfSeq
  <2>4. QED
    BY <2>2, <2>3 DEF StoredOnce, OnceIn, Stores
<1>4. QED
  BY <1>1, <1>2, <1>3, PTL DEF PackSpec

\* At the end only a store whose value a reduction reads may be missing: nothing
\* else gets lost on the way through the lists.
THEOREM NothingElseLost ==
  ASSUME AllWellFormed, AllUnrolledInOrder
  PROVE  PackSpec => []LostOnlyIfReduced
<1>1. PackInit => PackInv
  BY InitPack
<1>2. PackInv /\ [PackNext]_<<vars, packVars>> => PackInv'
  BY NextPack
<1>3. PackInv => LostOnlyIfReduced
  <2>1. SUFFICES ASSUME PackInv, place = "packed", NEW n \in DOMAIN nodes,
                        n \notin Members(Emitted)
                 PROVE  nodes[n].store /\ \E m \in Members(redux) : n \in NodesRead(m)
    BY DEF LostOnlyIfReduced
  <2>2. Divided /\ AllPackedAtEnd
    BY <2>1 DEF PackInv
  <2>3. n \notin Members(others) /\ n \notin Members(redux)
    BY <2>1, <2>2 DEF AllPackedAtEnd
  <2>4. PICK m \in Members(redux) : n \in NodesRead(m)
    BY <2>1, <2>2, <2>3 DEF Divided, ReadByChain
  <2>5. nodes[n].store
    BY <2>1, <2>2, <2>4 DEF AllPackedAtEnd, Read
  <2>6. QED
    BY <2>4, <2>5
<1>4. QED
  BY <1>1, <1>2, <1>3, PTL DEF PackSpec

-------------------------------------------------------------------------------
(***************************************************************************)
(* The steps leave less to do.                                             *)
(***************************************************************************)
\* What comes first decides what is less.
LEMMA LessAtFirst ==
  ASSUME NEW a1, NEW a2, NEW a3, NEW a4, NEW a5, NEW a6,
         NEW b1, NEW b2, NEW b3, NEW b4, NEW b5, NEW b6,
         \/ a1 < b1
         \/ a1 = b1 /\ a2 < b2
         \/ a1 = b1 /\ a2 = b2 /\ a3 < b3
         \/ a1 = b1 /\ a2 = b2 /\ a3 = b3 /\ a4 < b4
         \/ a1 = b1 /\ a2 = b2 /\ a3 = b3 /\ a4 = b4 /\ a5 < b5
         \/ a1 = b1 /\ a2 = b2 /\ a3 = b3 /\ a4 = b4 /\ a5 = b5 /\ a6 < b6
  PROVE  LessWork(<<a1, a2, a3, a4, a5, a6>>, <<b1, b2, b3, b4, b5, b6>>)
<1> DEFINE v == <<a1, a2, a3, a4, a5, a6>>
           w == <<b1, b2, b3, b4, b5, b6>>
<1>1. /\ DOMAIN v = 1 .. 6
      /\ v[1] = a1 /\ v[2] = a2 /\ v[3] = a3 /\ v[4] = a4 /\ v[5] = a5 /\ v[6] = a6
      /\ w[1] = b1 /\ w[2] = b2 /\ w[3] = b3 /\ w[4] = b4 /\ w[5] = b5 /\ w[6] = b6
  OBVIOUS
<1>2. /\ \A j \in 1 .. 1 - 1 : FALSE
      /\ \A j \in 1 .. 2 - 1 : j = 1
      /\ \A j \in 1 .. 3 - 1 : j \in {1, 2}
      /\ \A j \in 1 .. 4 - 1 : j \in {1, 2, 3}
      /\ \A j \in 1 .. 5 - 1 : j \in {1, 2, 3, 4}
      /\ \A j \in 1 .. 6 - 1 : j \in {1, 2, 3, 4, 5}
  OBVIOUS
<1>3. {1, 2, 3, 4, 5, 6} \subseteq 1 .. 6
  OBVIOUS
<1> HIDE DEF v, w
<1>4. \E i \in 1 .. 6 : v[i] < w[i] /\ \A j \in 1 .. i - 1 : v[j] = w[j]
  <2>1. CASE a1 < b1
    BY <1>1, <1>2, <1>3, <2>1
  <2>2. CASE a1 = b1 /\ a2 < b2
    BY <1>1, <1>2, <1>3, <2>2
  <2>3. CASE a1 = b1 /\ a2 = b2 /\ a3 < b3
    BY <1>1, <1>2, <1>3, <2>3
  <2>4. CASE a1 = b1 /\ a2 = b2 /\ a3 = b3 /\ a4 < b4
    BY <1>1, <1>2, <1>3, <2>4
  <2>5. CASE a1 = b1 /\ a2 = b2 /\ a3 = b3 /\ a4 = b4 /\ a5 < b5
    BY <1>1, <1>2, <1>3, <2>5
  <2>6. CASE a1 = b1 /\ a2 = b2 /\ a3 = b3 /\ a4 = b4 /\ a5 = b5 /\ a6 < b6
    BY <1>1, <1>2, <1>3, <2>6
  <2>7. QED
    BY <2>1, <2>2, <2>3, <2>4, <2>5, <2>6
<1>5. LessWork(v, w)
  BY <1>1, <1>4 DEF LessWork
<1>6. QED
  BY <1>5 DEF v, w

(***************************************************************************)
(* The parts of the work.                                                  *)
(***************************************************************************)
Phase ==
  IF place = "detect" THEN 3 ELSE IF place = "visit" THEN 2
  ELSE IF place \in PackingPlaces THEN 1 ELSE 0
Part == IF place = "pack" THEN 2 ELSE IF place = "chunks" THEN 1 ELSE 0
ToCome == IF place \in PackingPlaces THEN Len(full) ELSE cursor
Behind == Len(lists) + 1 - key
NodesOf == IF key \in DOMAIN lists THEN Len(lists[key]) ELSE 0

\* These are the parts.
LEMMA PartsOfWork ==
  /\ Work = <<Phase, ToCome, Part, size, Behind, NodesOf>>
  /\ Work' = <<Phase', ToCome', Part', size', Behind', NodesOf'>>
<1>1. Work = <<Phase, ToCome, Part, size, Behind, NodesOf>>
  BY DEF Work, Phase, ToCome, Part, Behind, NodesOf, PackingPlaces
<1>2. Work' = <<Phase', ToCome', Part', size', Behind', NodesOf'>>
  BY DEF Work, Phase, ToCome, Part, Behind, NodesOf, PackingPlaces
<1>3. QED
  BY <1>1, <1>2

\* Each step leaves a smaller part of the work and none that was before it.
LEMMA StepLeavesLess ==
  ASSUME PackInv, PackInv', PackingStep
  PROVE  LessWork(Work', Work) /\ NothingNegative(Work')
<1>1. PICK a1, a2, a3, a4, a5, a6 :
        /\ a1 = Phase' /\ a2 = ToCome' /\ a3 = Part' /\ a4 = size' /\ a5 = Behind' /\ a6 = NodesOf'
  OBVIOUS
<1>2. PICK b1, b2, b3, b4, b5, b6 :
        /\ b1 = Phase /\ b2 = ToCome /\ b3 = Part /\ b4 = size /\ b5 = Behind /\ b6 = NodesOf
  OBVIOUS
<1>3. Work' = <<a1, a2, a3, a4, a5, a6>> /\ Work = <<b1, b2, b3, b4, b5, b6>>
  BY <1>1, <1>2, PartsOfWork
<1>4. NothingNegative(Work')
  <2>1. ToCome' \in Nat
    <3>1. cursor' \in 0 .. Len(order') /\ Len(order') \in Nat
      <4>1. order' = <<>> \/ order' \in Seq(1 .. Len(nodes'))
        BY DEF PackInv, SchedInv, Sorted, SortedTo
      <4>2. Len(order') \in Nat
        BY <4>1, LenProperties, FewMembers
      <4>3. QED
        BY <4>2 DEF PackInv, PackTypes, DetectionTypes
    <3>2. Len(full') \in Nat
      BY LenProperties DEF PackInv, PackTypes, WindowTypes
    <3>3. QED
      BY <3>1, <3>2 DEF ToCome
  <2>2. Phase' \in Nat /\ Part' \in Nat
    BY DEF Phase, Part
  <2>3. WindowTypes' /\ Len(lists') \in Nat
    BY LenProperties DEF PackInv, PackTypes, WindowTypes
  <2>4. size' \in Nat /\ Behind' \in Nat
    BY <2>3 DEF WindowTypes, Behind
  <2>5. NodesOf' \in Nat
    <3>1. key' \in DOMAIN lists' => Len(lists'[key']) \in Nat
      BY <2>3, ElementOfSeq, LenProperties DEF WindowTypes
    <3>2. QED
      BY <3>1 DEF NodesOf
  <2>6. /\ a1 \in Nat /\ a2 \in Nat /\ a3 \in Nat /\ a4 \in Nat /\ a5 \in Nat /\ a6 \in Nat
    BY <1>1, <2>1, <2>2, <2>4, <2>5
  <2>7. \A i \in DOMAIN <<a1, a2, a3, a4, a5, a6>> : <<a1, a2, a3, a4, a5, a6>>[i] >= 0
    BY <2>6
  <2>8. QED
    BY <1>3, <2>7 DEF NothingNegative
<1>5. SUFFICES \/ Phase' < Phase
               \/ Phase' = Phase /\ ToCome' < ToCome
               \/ Phase' = Phase /\ ToCome' = ToCome /\ Part' < Part
               \/ Phase' = Phase /\ ToCome' = ToCome /\ Part' = Part /\ size' < size
               \/ /\ Phase' = Phase /\ ToCome' = ToCome /\ Part' = Part /\ size' = size
                  /\ Behind' < Behind
               \/ /\ Phase' = Phase /\ ToCome' = ToCome /\ Part' = Part /\ size' = size
                  /\ Behind' = Behind /\ NodesOf' < NodesOf
  BY <1>1, <1>2, <1>3, <1>4, LessAtFirst
<1>6. /\ WindowTypes /\ key \in Nat /\ size \in Nat
      /\ Len(full) \in Nat /\ Len(lists) \in Nat /\ DOMAIN lists = 1 .. Len(lists)
      /\ opts.min \in Nat /\ opts.min >= 1
  BY OptionTypes, LenProperties DEF PackInv, PackTypes, WindowTypes
<1>7. /\ place = "pack" => key >= 1
      /\ place = "chunks" => key >= 1
  BY DEF PackInv, InWindow
<1>8. CASE BeginDetection
  BY <1>8 DEF BeginDetection, Phase, PackingPlaces
<1>9. CASE VisitNode
  <2>1. place = "visit" /\ place' = "visit" /\ cursor' = cursor - 1 /\ cursor \in Int
    BY <1>9 DEF VisitNode, PackInv, PackTypes, DetectionTypes
  <2>2. QED
    BY <2>1 DEF Phase, ToCome, PackingPlaces
<1>10. CASE EndDetection
  BY <1>10 DEF EndDetection, Phase, PackingPlaces
<1>11. CASE TakeWindow
  <2>1. /\ place = "window" /\ place' = "pack" /\ full # <<>>
        /\ full' = SubSeq(full, WindowSize + 1, Len(full))
    BY <1>11 DEF TakeWindow
  <2>2. PICK w \in 1 .. Len(full) : w = WindowSize
    BY <2>1, OptionTypes
  <2>3. Len(SubSeq(full, w + 1, Len(full))) = Len(full) - w
    <3>1. w \in 0 .. Len(full) /\ full \in Seq(Seq(DOMAIN nodes))
      BY <1>6 DEF WindowTypes
    <3>2. QED
      BY <3>1, CutMembers
  <2>4. Len(full') < Len(full)
    BY <1>6, <2>1, <2>2, <2>3
  <2>5. QED
    BY <2>1, <2>4 DEF Phase, ToCome, PackingPlaces
<1>12. ASSUME place = "pack" \/ place = "chunks", key <= Len(lists),
              NEW n \in Nat, n >= 1, n <= Len(lists[key]),
              lists' = [lists EXCEPT ![key] = SubSeq(@, n + 1, Len(@))], key' = key
       PROVE  Behind' = Behind /\ NodesOf' < NodesOf
  <2>1. key \in DOMAIN lists /\ lists \in Seq(Seq(DOMAIN nodes))
    BY <1>6, <1>7, <1>12 DEF WindowTypes
  <2>2. lists[key] \in Seq(DOMAIN nodes) /\ Len(lists[key]) \in Nat
    BY <2>1, ElementOfSeq, LenProperties
  <2>3. n \in 0 .. Len(lists[key]) /\ key >= 1 /\ 1 \in Nat
    BY <1>6, <1>7, <1>12, <2>2
  <2>4. LET m == [lists EXCEPT ![key] = SubSeq(@, n + 1, Len(@))]
        IN  m \in Seq(Seq(DOMAIN nodes)) /\ Len(m) = Len(lists) /\ Len(m[key]) = Len(lists[key]) - n
    BY SMTT(30), <2>1, <2>3, PieceCut
  <2>5. Len(lists') = Len(lists) /\ Len(lists'[key]) = Len(lists[key]) - n /\ key \in DOMAIN lists'
    BY <1>12, <2>1, <2>4
  <2>6. QED
    BY <1>12, <2>1, <2>2, <2>5 DEF Behind, NodesOf
<1>13. CASE TakePiece
  <2>1. /\ place = "pack" /\ place' = place /\ full' = full /\ size' = size /\ key' = key
        /\ size >= opts.min /\ key <= Len(lists) /\ Len(lists[key]) >= size
        /\ lists' = [lists EXCEPT ![key] = SubSeq(@, size + 1, Len(@))]
        /\ UNCHANGED detection
    BY <1>13 DEF TakePiece, Packs, HasPiece
  <2>2. lists[key] \in Seq(DOMAIN nodes) /\ Len(lists[key]) \in Nat
    BY <1>6, <1>7, <2>1, ElementOfSeq, LenProperties DEF WindowTypes
  <2>3. size >= 1 /\ size <= Len(lists[key])
    BY <1>6, <2>1, <2>2
  <2>4. Behind' = Behind /\ NodesOf' < NodesOf
    BY <1>6, <1>12, <2>1, <2>3
  <2>5. QED
    BY <2>1, <2>4 DEF Phase, ToCome, Part, PackingPlaces
<1>14. CASE NextList
  <2>1. /\ place = "pack" /\ place' = place /\ full' = full /\ size' = size /\ key' = key + 1
        /\ lists' = lists
    BY <1>14 DEF NextList, Packs
  <2>2. Behind' < Behind
    BY <1>6, <2>1 DEF Behind
  <2>3. QED
    BY <2>1, <2>2 DEF Phase, ToCome, Part, PackingPlaces
<1>15. CASE HalveSize
  <2>1. /\ place = "pack" /\ place' = place /\ full' = full /\ size' = size \div 2
        /\ size >= opts.min
    BY <1>15 DEF HalveSize
  <2>2. size' < size
    BY <1>6, <2>1
  <2>3. QED
    BY <2>1, <2>2 DEF Phase, ToCome, Part, PackingPlaces
<1>16. CASE ConsumeLeftover
  <2>1. place = "pack" /\ place' = "chunks" /\ full' = full
    BY <1>16 DEF ConsumeLeftover
  <2>2. QED
    BY <2>1 DEF Phase, ToCome, Part, PackingPlaces
<1>17. CASE ConsumeChunk
  <2> DEFINE n == IF Len(lists[key]) < MaxVectorLength THEN Len(lists[key])
                  ELSE MaxVectorLength
  <2>1. /\ place = "chunks" /\ place' = place /\ full' = full /\ size' = size /\ key' = key
        /\ key <= Len(lists) /\ Len(lists[key]) >= opts.min
        /\ lists' = [lists EXCEPT ![key] = SubSeq(@, n + 1, Len(@))]
    BY <1>17 DEF ConsumeChunk, Chunks
  <2>2. lists[key] \in Seq(DOMAIN nodes) /\ Len(lists[key]) \in Nat
    BY <1>6, <1>7, <2>1, ElementOfSeq, LenProperties DEF WindowTypes
  <2>3. n \in Nat /\ n >= 1 /\ n <= Len(lists[key])
    BY <1>6, <2>1, <2>2, SlotsAssumption
  <2> HIDE DEF n
  <2>4. Behind' = Behind /\ NodesOf' < NodesOf
    BY <1>12, <2>1, <2>3
  <2>5. QED
    BY <2>1, <2>4 DEF Phase, ToCome, Part, PackingPlaces
<1>18. CASE InsertOrphans
  <2>1. /\ place = "chunks" /\ place' = place /\ full' = full /\ size' = size /\ key' = key + 1
        /\ lists' = lists
    BY <1>18 DEF InsertOrphans, Chunks
  <2>2. Behind' < Behind
    BY <1>6, <2>1 DEF Behind
  <2>3. QED
    BY <2>1, <2>2 DEF Phase, ToCome, Part, PackingPlaces
<1>19. CASE ConsumeOrphans
  <2>1. place = "chunks" /\ place' = "window" /\ full' = full
    BY <1>19 DEF ConsumeOrphans, Orphaned, windows
  <2>2. QED
    BY <2>1 DEF Phase, ToCome, Part, PackingPlaces
<1>20. CASE SearchNoElement
  BY <1>20 DEF SearchNoElement, Orphaned, Phase, PackingPlaces
<1>21. CASE ConsumeOthers
  BY <1>21 DEF ConsumeOthers, Phase, PackingPlaces
<1>22. QED
  BY <1>8, <1>9, <1>10, <1>11, <1>13, <1>14, <1>15, <1>16, <1>17, <1>18, <1>19, <1>20, <1>21
     DEF PackingStep

\* The packing ends for every list of TACs, whatever its chains and windows are:
\* each step leaves less to do, in an order in which nothing gets less for ever.
THEOREM PackingEnds ==
  ASSUME AllWellFormed, AllUnrolledInOrder
  PROVE  PackSpec => StepsLeaveLess
<1>1. PackInit => PackInv
  BY InitPack
<1>2. PackInv /\ [PackNext]_<<vars, packVars>> => PackInv'
  BY NextPack
<1>3. PackInv /\ PackInv' /\ [PackNext]_<<vars, packVars>>
        => [LessWork(Work', Work) /\ NothingNegative(Work')]_packVars
  <2>1. SUFFICES ASSUME PackInv, PackInv', [PackNext]_<<vars, packVars>>, packVars' # packVars
                 PROVE  LessWork(Work', Work) /\ NothingNegative(Work')
    OBVIOUS
  <2>2. PackingStep
    BY <2>1 DEF PackNext, CompilerStep, Stopped
  <2>3. QED
    BY <2>1, <2>2, StepLeavesLess
<1>4. QED
  BY <1>1, <1>2, <1>3, PTL DEF PackSpec, StepsLeaveLess
===============================================================================
