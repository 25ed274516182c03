--------------------------- MODULE ScopHandlerProofs ---------------------------
(***************************************************************************)
(* For every command line, whatever the files: the type invariant, the     *)
(* order of the scops in the list, and that a closed scop is never touched *)
(* again.                                                                  *)
(*                                                                         *)
(* For every command line whose files leave each other's lines alone: what *)
(* is rewritten stands in a region of interest, obeys the pragma above it, *)
(* and has nothing the tool skips at in its region or above it in the      *)
(* function; every other statement of a region is rewritten, and in the    *)
(* order of the text.  A closed scop stays in the list whatever comes      *)
(* after it, a function takes every scop between its lines, and what makes *)
(* the tool skip is what stands in a region below the pragma it stands in. *)
(***************************************************************************)
EXTENDS ScopHandler, TLAPS

(***************************************************************************)
(* Between two functions nothing is left of a scan.                        *)
(***************************************************************************)
IdleInv ==
  /\ pc \in {"preprocess", "visit"} => scops = {} /\ wraps = {}
  /\ pc = "scan" => wraps = {}

(***************************************************************************)
(* The scops of the file being read lie above the line being read.         *)
(***************************************************************************)
AboveInv ==
  \A i \in DOMAIN List :
    /\ List[i].of <= file
    /\ pc = "preprocess" /\ List[i].of = file =>
         /\ List[i].start < line
         /\ List[i].end # NoEnd =>
              List[i].start < List[i].end /\ List[i].end < line

IInv == TypeOK /\ IdleInv /\ ScopsInOrder /\ AboveInv

-------------------------------------------------------------------------------
\* The lines of the file at hand.
LEMMA TextType ==
  ASSUME TypeOK
  PROVE  /\ input.files \in Seq(Seq(LineKinds)) /\ file \in 1 .. Len(input.files)
         /\ Len(input.files) \in Nat /\ file \in Nat
         /\ text \in Seq(LineKinds) /\ Len(text) \in Nat
         /\ line \in Nat \ {0}
<1>1. /\ input.files \in Seq(Seq(LineKinds)) /\ file \in 1 .. Len(input.files)
  BY DEF TypeOK, CommandLines
<1>2. text \in Seq(LineKinds)
  BY <1>1 DEF text
<1>3. QED
  BY <1>1, <1>2 DEF TypeOK

\* With an empty list, at the first line, the invariant holds.
LEMMA InitInv == Init => IInv
<1>1. SUFFICES ASSUME Init
               PROVE  IInv
  OBVIOUS
<1>2. /\ input \in CommandLines /\ input.files \in Seq(Seq(LineKinds))
      /\ input.files # <<>>
  BY <1>1, InputsAssumption DEF Init, CommandLines
<1>3. Len(input.files) \in Nat \ {0}
  BY <1>2
<1>4. file \in DOMAIN input.files
  BY <1>1, <1>2, <1>3 DEF Init
<1>5. text \in Seq(LineKinds) /\ Len(text) \in Nat
  BY <1>2, <1>4 DEF text
<1>6. TypeOK
  BY <1>1, <1>2, <1>4, <1>5 DEF Init, TypeOK, FunctionDecls
<1>7. IdleInv /\ ScopsInOrder /\ AboveInv
  BY <1>1 DEF Init, IdleInv, ScopsInOrder, AboveInv
<1>8. QED
  BY <1>6, <1>7 DEF IInv

\* The steps that neither read a line nor change the list leave the order of
\* the list alone.
LEMMA ListUnchanged ==
  ASSUME IInv, List' = List, file' = file, pc' = "preprocess" => pc = "preprocess",
         pc' = "preprocess" => line' = line
  PROVE  ScopsInOrder' /\ AboveInv'
BY DEF IInv, ScopsInOrder, AboveInv

\* Reading, visiting, scanning and rewriting keep the invariant.
LEMMA NextInv == IInv /\ [Next]_vars => IInv'
<1> SUFFICES ASSUME IInv, [Next]_vars
             PROVE  IInv'
  OBVIOUS
<1>1. TypeOK /\ IdleInv /\ ScopsInOrder /\ AboveInv
  BY DEF IInv
<1>2. /\ input.files \in Seq(Seq(LineKinds)) /\ file \in 1 .. Len(input.files)
      /\ Len(input.files) \in Nat /\ file \in Nat
      /\ text \in Seq(LineKinds) /\ Len(text) \in Nat
      /\ line \in Nat \ {0}
  BY <1>1, TextType
<1>3. List \in Seq(ScopLocs) /\ Len(List) \in Nat /\ scops \subseteq DOMAIN List
  BY <1>1 DEF TypeOK
<1>4. \A i \in DOMAIN List : List[i].of \in Nat /\ List[i].start \in Nat \ {0}
                            /\ List[i].end \in Nat
  <2>1. \A i \in DOMAIN List : List[i] \in ScopLocs
    BY <1>3
  <2>2. QED
    BY <2>1 DEF ScopLocs
<1>5. ASSUME AddStart
      PROVE  IInv'
  <2> DEFINE loc == NewScop
             n   == IF OpenScop THEN Len(List) ELSE Len(List) + 1
  <2>1. loc \in ScopLocs /\ loc.of = file /\ loc.start = line /\ loc.end = NoEnd
    BY <1>2 DEF ScopLocs, NoEnd, NewScop
  <2>2. List' = IF OpenScop THEN [List EXCEPT ![Len(List)] = loc]
                ELSE Append(List, loc)
    BY <1>5 DEF AddStart
  <2> HIDE DEF loc
  <2>3. /\ List' \in Seq(ScopLocs) /\ DOMAIN List' = 1 .. n /\ n \in Nat \ {0}
        /\ List'[n] = loc
        /\ \A i \in 1 .. n - 1 : i \in DOMAIN List /\ List'[i] = List[i]
    <3>1. CASE OpenScop
      BY <1>3, <2>1, <2>2, <3>1 DEF OpenScop
    <3>2. CASE ~OpenScop
      BY <1>3, <2>1, <2>2, <3>2
    <3>3. QED
      BY <3>1, <3>2
  <2>4. \A i \in 1 .. n - 1 : List[i].end # NoEnd
    <3>1. CASE OpenScop
      BY <1>1, <1>3, <3>1 DEF OpenScop, ScopsInOrder
    <3>2. CASE ~OpenScop
      BY <1>1, <1>3, <3>2 DEF OpenScop, ScopsInOrder
    <3>3. QED
      BY <3>1, <3>2
  <2> HIDE DEF n
  <2>5. TypeOK' /\ IdleInv'
    <3>1. scops' = {} /\ line' \in 1 .. Len(text) + 1
      BY <1>1, <1>2, <1>5 DEF AddStart, Reading, IdleInv
    <3>2. QED
      BY <1>1, <1>5, <2>3, <3>1 DEF AddStart, TypeOK, IdleInv, text
  <2>6. ScopsInOrder'
    <3>1. SUFFICES ASSUME NEW i \in 1 .. n, NEW j \in 1 .. n, i < j
                   PROVE  /\ List'[i].end # NoEnd
                          /\ List'[i].of = List'[j].of =>
                               /\ List'[i].start < List'[i].end
                               /\ List'[i].end < List'[j].start
      BY <2>3 DEF ScopsInOrder
    <3>2. i \in 1 .. n - 1 /\ List'[i] = List[i] /\ List[i].end # NoEnd
      BY <2>3, <2>4, <3>1
    <3>3. CASE j = n
      BY <1>1, <1>5, <2>1, <2>3, <3>2, <3>3 DEF AddStart, Reading, AboveInv
    <3>4. CASE j # n
      <4>1. j \in 1 .. n - 1 /\ List'[j] = List[j]
        BY <2>3, <3>4
      <4>2. QED
        BY <1>1, <2>3, <3>1, <3>2, <4>1 DEF ScopsInOrder
    <3>5. QED
      BY <3>3, <3>4
  <2>7. AboveInv'
    <3>1. SUFFICES ASSUME NEW i \in 1 .. n
                   PROVE  /\ List'[i].of <= file
                          /\ List'[i].of = file =>
                               /\ List'[i].start < line + 1
                               /\ List'[i].end # NoEnd =>
                                    /\ List'[i].start < List'[i].end
                                    /\ List'[i].end < line + 1
      BY <1>5, <2>3 DEF AddStart, AboveInv
    <3>2. CASE i = n
      BY <1>2, <2>1, <2>3, <3>2
    <3>3. CASE i # n
      <4>1. i \in DOMAIN List /\ List'[i] = List[i]
        BY <2>3, <3>3
      <4>2. QED
        BY <1>1, <1>2, <1>4, <1>5, <4>1 DEF AddStart, Reading, AboveInv
    <3>4. QED
      BY <3>2, <3>3
  <2>8. QED
    BY <2>5, <2>6, <2>7 DEF IInv
<1>6. ASSUME AddEnd
      PROVE  IInv'
  <2> DEFINE n == Len(List)
  <2>1. CASE ~OpenScop
    <3>1. List' = List /\ line' = line + 1 /\ line' \in 1 .. Len(text) + 1
      BY <1>2, <1>6, <2>1 DEF AddEnd, Reading
    <3>2. TypeOK' /\ IdleInv'
      BY <1>1, <1>6, <3>1 DEF AddEnd, TypeOK, IdleInv, text
    <3>3. ScopsInOrder'
      BY <1>1, <3>1 DEF ScopsInOrder
    <3>4. AboveInv'
      BY <1>1, <1>2, <1>4, <1>6, <3>1 DEF AddEnd, Reading, AboveInv
    <3>5. QED
      BY <3>2, <3>3, <3>4 DEF IInv
  <2>2. CASE OpenScop
    <3>1. /\ n \in DOMAIN List /\ List[n].end = NoEnd /\ n \in Nat \ {0}
          /\ DOMAIN List = 1 .. n
      BY <1>3, <2>2 DEF OpenScop
    <3>2. List' = [List EXCEPT ![n].end = line]
      BY <1>6, <2>2 DEF AddEnd
    <3>3. /\ List' \in Seq(ScopLocs) /\ DOMAIN List' = 1 .. n
          /\ List'[n].of = List[n].of /\ List'[n].start = List[n].start
          /\ List'[n].end = line
          /\ \A i \in 1 .. n - 1 : List'[i] = List[i]
      <4> DEFINE old == List[n]
                 new == [old EXCEPT !.end = line]
      <4>1. old \in ScopLocs /\ List' = [List EXCEPT ![n] = new]
        BY <1>3, <3>1, <3>2
      <4> HIDE DEF old
      <4>2. new \in ScopLocs /\ new.of = old.of /\ new.start = old.start
            /\ new.end = line
        BY <1>2, <4>1 DEF ScopLocs
      <4> HIDE DEF new
      <4>3. /\ List' \in Seq(ScopLocs) /\ DOMAIN List' = 1 .. n
            /\ List'[n] = new
            /\ \A i \in 1 .. n - 1 : List'[i] = List[i]
        <5>1. new \in ScopLocs /\ List' = [List EXCEPT ![n] = new]
          BY <4>1, <4>2
        <5>2. n \in 1 .. n /\ DOMAIN List = 1 .. n /\ List \in Seq(ScopLocs)
          BY <1>3, <3>1
        <5> HIDE DEF n
        <5>3. DOMAIN List' = 1 .. n /\ List'[n] = new
              /\ \A i \in 1 .. n - 1 : List'[i] = List[i]
          BY <3>1, <5>1, <5>2
        <5>4. List' \in Seq(ScopLocs)
          BY <5>1, <5>2
        <5>5. QED
          BY <5>3, <5>4
      <4>4. QED
        BY <4>2, <4>3 DEF old
    <3> HIDE DEF n
    <3>4. TypeOK' /\ IdleInv'
      <4>1. scops' = {} /\ line' \in 1 .. Len(text) + 1
        BY SMTT(30), <1>1, <1>2, <1>6 DEF AddEnd, Reading, IdleInv
      <4>2. QED
        BY <1>1, <1>6, <3>3, <4>1 DEF AddEnd, TypeOK, IdleInv, text
    <3>5. ScopsInOrder'
      <4>1. SUFFICES ASSUME NEW i \in 1 .. n, NEW j \in 1 .. n, i < j
                     PROVE  /\ List'[i].end # NoEnd
                            /\ List'[i].of = List'[j].of =>
                                 /\ List'[i].start < List'[i].end
                                 /\ List'[i].end < List'[j].start
        BY <3>3 DEF ScopsInOrder
      <4>2. List'[i] = List[i] /\ List'[j].of = List[j].of
            /\ List'[j].start = List[j].start
        BY <3>1, <3>3, <4>1
      <4>3. QED
        BY <1>1, <3>1, <4>1, <4>2 DEF ScopsInOrder
    <3>6. AboveInv'
      <4>1. SUFFICES ASSUME NEW i \in 1 .. n
                     PROVE  /\ List'[i].of <= file
                            /\ List'[i].of = file =>
                                 /\ List'[i].start < line + 1
                                 /\ List'[i].end # NoEnd =>
                                      /\ List'[i].start < List'[i].end
                                      /\ List'[i].end < line + 1
        BY <1>6, <3>3 DEF AddEnd, AboveInv
      <4>2. /\ List'[i].of = List[i].of /\ List'[i].start = List[i].start
            /\ List'[i].end \in {List[i].end, line}
            /\ List[i].end \in Nat /\ List[i].start \in Nat
        BY <1>4, <3>1, <3>3, <4>1
      <4>3. QED
        BY <1>1, <1>2, <1>6, <3>1, <4>1, <4>2 DEF AddEnd, Reading, AboveInv
    <3>7. QED
      BY <3>4, <3>5, <3>6 DEF IInv
  <2>3. QED
    BY <2>1, <2>2
<1>7. ASSUME OtherLine
      PROVE  IInv'
  <2>1. /\ pc = "preprocess" /\ line <= Len(text) /\ line' = line + 1
        /\ UNCHANGED <<input, file, pc, List, fd, scops, wraps, rewritten>>
    BY <1>7 DEF OtherLine, Reading
  <2>2. line' \in 1 .. Len(text) + 1
    BY <1>2, <2>1
  <2>3. TypeOK' /\ IdleInv'
    BY <1>1, <2>1, <2>2 DEF TypeOK, IdleInv, text
  <2>4. ScopsInOrder'
    BY <1>1, <2>1 DEF ScopsInOrder
  <2>5. AboveInv'
    BY <1>1, <1>2, <1>4, <2>1 DEF AboveInv
  <2>6. QED
    BY <2>3, <2>4, <2>5 DEF IInv
<1>8. ASSUME EndOfParse
      PROVE  IInv'
  <2>1. TypeOK' /\ IdleInv'
    BY <1>1, <1>2, <1>8 DEF EndOfParse, TypeOK, IdleInv, text
  <2>2. QED
    BY <1>8, <2>1, ListUnchanged DEF EndOfParse, IInv
<1>9. ASSUME VisitFunctionDecl
      PROVE  IInv'
  <2>1. PICK f \in Functions(text) :
          /\ line' = f.last + 1
          /\ IF FuncGetScops(f) # {} /\ IsTarget(f)
             THEN pc' = "scan" /\ fd' = f /\ scops' = FuncGetScops(f)
             ELSE UNCHANGED <<pc, fd, scops>>
    BY <1>9 DEF VisitFunctionDecl
  <2>2. f \in FunctionDecls /\ f.last \in 1 .. Len(text)
    <3>1. DOMAIN text = 1 .. Len(text)
      BY <1>2
    <3>2. f \in [first : 1 .. Len(text), last : 1 .. Len(text)]
      BY <3>1 DEF Functions
    <3>3. QED
      BY <1>2, <3>2 DEF FunctionDecls
  <2>3. line' \in 1 .. Len(text) + 1
    BY <1>2, <2>1, <2>2
  <2>4. TypeOK'
    BY <1>1, <1>9, <2>1, <2>2, <2>3
       DEF VisitFunctionDecl, FuncGetScops, TypeOK, text
  <2>5. IdleInv'
    BY <1>1, <1>9, <2>1 DEF VisitFunctionDecl, IdleInv
  <2>6. QED
    BY <1>9, <2>1, <2>4, <2>5, ListUnchanged DEF VisitFunctionDecl, IInv
<1>10. ASSUME ScanScop
       PROVE  IInv'
  <2>1. wraps' \subseteq DOMAIN text
    BY <1>10 DEF ScanScop, GenStmtWraps
  <2>2. TypeOK' /\ IdleInv'
    BY <1>1, <1>10, <2>1 DEF ScanScop, TypeOK, IdleInv, text
  <2>3. QED
    BY <1>10, <2>2, ListUnchanged DEF ScanScop, IInv
<1>11. ASSUME ScanEmptyScop
       PROVE  IInv'
  <2>1. TypeOK' /\ IdleInv'
    BY <1>1, <1>11 DEF ScanEmptyScop, TypeOK, IdleInv, text
  <2>2. QED
    BY <1>11, <2>1, ListUnchanged DEF ScanEmptyScop, IInv
<1>12. ASSUME SkipFunction
       PROVE  IInv'
  <2>1. TypeOK' /\ IdleInv'
    BY <1>1, <1>12 DEF SkipFunction, TypeOK, IdleInv, text
  <2>2. QED
    BY <1>12, <2>1, ListUnchanged DEF SkipFunction, IInv
<1>13. ASSUME RewriteStmt
       PROVE  IInv'
  <2>1. PICK i \in scops, l \in wraps, o \in DOMAIN List :
          /\ rewritten' = Append(rewritten,
               [file |-> file, line |-> l, scop |-> List[i], options |-> List[o]])
          /\ wraps' = wraps \ {l}
    BY <1>13 DEF RewriteStmt
  <2>2. /\ List[i] \in ScopLocs /\ List[o] \in ScopLocs /\ l \in Nat
    BY <1>1, <1>2, <1>3 DEF TypeOK
  <2>3. rewritten' \in
          Seq([file : Nat, line : Nat, scop : ScopLocs, options : ScopLocs])
    BY <1>1, <1>2, <2>1, <2>2 DEF TypeOK
  <2>4. TypeOK' /\ IdleInv'
    BY <1>1, <1>13, <2>1, <2>3 DEF RewriteStmt, TypeOK, IdleInv, text
  <2>5. QED
    BY <1>13, <2>4, ListUnchanged DEF RewriteStmt, IInv
<1>14. ASSUME EndScop
       PROVE  IInv'
  <2>1. TypeOK' /\ IdleInv'
    BY <1>1, <1>14 DEF EndScop, TypeOK, IdleInv, text
  <2>2. QED
    BY <1>14, <2>1, ListUnchanged DEF EndScop, IInv
<1>15. ASSUME EndFunction
       PROVE  IInv'
  <2>1. TypeOK' /\ IdleInv'
    BY <1>1, <1>15 DEF EndFunction, TypeOK, IdleInv, text
  <2>2. QED
    BY <1>15, <2>1, ListUnchanged DEF EndFunction, IInv
<1>16. ASSUME NextFile
       PROVE  IInv'
  <2>1. /\ pc = "visit" /\ file < Len(input.files) /\ file' = file + 1 /\ line' = 1
        /\ pc' = "preprocess" /\ UNCHANGED <<input, List, fd, scops, wraps, rewritten>>
    BY <1>16 DEF NextFile, NoFunctionLeft
  <2>2. file' \in DOMAIN input.files /\ file' \in Nat
    BY <1>2, <2>1
  <2>3. text' \in Seq(LineKinds) /\ Len(text') \in Nat
    BY <1>2, <2>1, <2>2 DEF text
  <2>4. scops = {} /\ wraps = {}
    BY <1>1, <2>1 DEF IdleInv
  <2>5. TypeOK' /\ IdleInv'
    BY <1>1, <2>1, <2>2, <2>3, <2>4 DEF TypeOK, IdleInv
  <2>6. ScopsInOrder'
    BY <1>1, <2>1 DEF ScopsInOrder
  <2>7. AboveInv'
    BY <1>1, <1>2, <1>4, <2>1 DEF AboveInv
  <2>8. QED
    BY <2>5, <2>6, <2>7 DEF IInv
<1>17. ASSUME LastFile
       PROVE  IInv'
  <2>1. TypeOK' /\ IdleInv'
    BY <1>1, <1>17 DEF LastFile, TypeOK, IdleInv, text
  <2>2. QED
    BY <1>17, <2>1, ListUnchanged DEF LastFile, IInv
<1>18. ASSUME UNCHANGED vars
       PROVE  IInv'
  <2>1. TypeOK' /\ IdleInv'
    BY <1>1, <1>18 DEF vars, TypeOK, IdleInv, text
  <2>2. QED
    BY <1>18, <2>1, ListUnchanged DEF vars, IInv
<1>19. QED
  BY <1>5, <1>6, <1>7, <1>8, <1>9, <1>10, <1>11, <1>12, <1>13, <1>14, <1>15, <1>16,
     <1>17, <1>18 DEF Next, Finished

-------------------------------------------------------------------------------
\* Every variable keeps its type, on any command line.
THEOREM TypeCorrect == Spec => []TypeOK
<1>1. IInv => TypeOK
  BY DEF IInv
<1>2. QED
  BY <1>1, InitInv, NextInv, PTL DEF Spec

\* addStart and addEnd keep the scops of each file disjoint and in the order of
\* the text, on any command line and for any sequence of pragmas.
THEOREM ListInOrder == Spec => []ScopsInOrder
<1>1. IInv => ScopsInOrder
  BY DEF IInv
<1>2. QED
  BY <1>1, InitInv, NextInv, PTL DEF Spec

\* No step changes or drops a closed scop.
LEMMA ClosedStays ==
  ASSUME IInv, [Next]_vars, NEW i \in DOMAIN List, List[i].end # NoEnd
  PROVE  i \in DOMAIN List' /\ List'[i] = List[i]
<1>1. List \in Seq(ScopLocs)
  BY DEF IInv, TypeOK
<1>2. CASE AddStart
  BY <1>1, <1>2 DEF AddStart, OpenScop
<1>3. CASE AddEnd
  BY <1>1, <1>3 DEF AddEnd, OpenScop
<1>4. CASE List' = List
  BY <1>4
<1>5. QED
  BY <1>2, <1>3, <1>4
     DEF Next, OtherLine, EndOfParse, VisitFunctionDecl, ScanScop, ScanEmptyScop,
         SkipFunction, RewriteStmt, EndScop, EndFunction, NextFile, LastFile, Finished, vars

\* No pragma after it, spurious or unfinished, changes or drops a closed scop.
THEOREM ClosedScopsStay == Spec => ClosedScopsKept
<1>1. ASSUME IInv, [Next]_vars
      PROVE  [\A i \in DOMAIN List : List[i].end # NoEnd =>
                i \in DOMAIN List' /\ List'[i] = List[i]]_vars
  BY <1>1, ClosedStays
<1>2. QED
  BY <1>1, InitInv, NextInv, PTL DEF Spec, ClosedScopsKept

-------------------------------------------------------------------------------
(***************************************************************************)
(* Files that are apart: no file leaves anything in the list that could be *)
(* taken for part of a later one.  The list holds regions of the files     *)
(* read so far, and perhaps a scop of the file at hand that is open; no    *)
(* pragma stands between that one's and the line being read.  The scops of *)
(* the function being scanned lie in it, and are of its file.              *)
(***************************************************************************)
SeparateFiles == \A c \in Inputs : AllApart(c.files)

IsPragma(kind) == kind \in StartKinds \cup {"endmacveth"}

Span(scop) == [start |-> scop.start, end |-> scop.end]

ReadTo == IF pc = "preprocess" THEN line - 1 ELSE Len(text)

Full(t, start) == t[start] = "macveth full"

ClosedRegion(scop) ==
  scop.end # NoEnd =>
    /\ scop.of \in DOMAIN input.files /\ Span(scop) \in Regions(input.files[scop.of])
    /\ scop.full = Full(input.files[scop.of], scop.start)

OpenRegion(scop) ==
  scop.end = NoEnd =>
    /\ scop.of = file
    /\ scop.start \in DOMAIN text /\ text[scop.start] \in StartKinds
    /\ scop.full = Full(text, scop.start)
    /\ \A l \in scop.start + 1 .. ReadTo : ~IsPragma(text[l])

RegionInv == \A i \in DOMAIN List : ClosedRegion(List[i]) /\ OpenRegion(List[i])

ScanInv ==
  /\ pc \in {"scan", "rewrite"} =>
       /\ fd \in Functions(text) /\ IsTarget(fd)
       /\ \A i \in scops : ScopIsOf(fd, List[i]) /\ List[i].of = file
  /\ pc = "rewrite" =>
       \A i \in scops : IsFirst(i, scops) => wraps \subseteq GenStmtWraps(List[i])

(***************************************************************************)
(* What RegionsOnly says of the regions, but for their being given up.     *)
(***************************************************************************)
OwnScop(n, scop) ==
  scop = [of |-> n, start |-> scop.start, end |-> scop.end,
          full |-> Full(input.files[n], scop.start)]

OwnInv ==
  \A k \in DOMAIN rewritten :
    LET r == rewritten[k]
    IN  /\ OwnScop(r.file, r.scop) /\ r.options = r.scop
        /\ InRegion(r.file, r.line, Span(r.scop))

SeparateInv == AllApart(input.files) /\ RegionInv /\ ScanInv /\ OwnInv

\* A function stands between two braces.
LEMMA FunctionLines ==
  ASSUME NEW t \in Seq(LineKinds), NEW f \in Functions(t)
  PROVE  /\ t[f.first] = "{" /\ t[f.last] = "}"
         /\ f.first \in 1 .. Len(t) /\ f.last \in 1 .. Len(t) /\ Len(t) \in Nat
         /\ f.first \in Nat /\ f.last \in Nat
<1>1. DOMAIN t = 1 .. Len(t) /\ Len(t) \in Nat
  OBVIOUS
<1>2. f \in [first : 1 .. Len(t), last : 1 .. Len(t)]
  BY <1>1 DEF Functions
<1>3. t[f.first] = "{" /\ t[f.last] = "}"
  BY DEF Functions
<1>4. f.first \in 1 .. Len(t) /\ f.last \in 1 .. Len(t)
  BY <1>2
<1>5. QED
  <2> DEFINE m == Len(t)
             a == f.first
             b == f.last
  <2>1. m \in Nat /\ a \in 1 .. m /\ b \in 1 .. m
    BY <1>1, <1>4
  <2>2. a \in Nat /\ b \in Nat
    <3> HIDE DEF m, a, b
    <3>1. QED
      BY <2>1
  <2>3. QED
    BY <1>1, <1>3, <1>4, <2>2

\* The pragmas of a region.
LEMMA RegionLines ==
  ASSUME NEW t \in Seq(LineKinds), NEW r \in Regions(t)
  PROVE  /\ t[r.start] \in StartKinds /\ t[r.end] = "endmacveth"
         /\ r.start \in 1 .. Len(t) /\ r.end \in 1 .. Len(t) /\ Len(t) \in Nat
         /\ r.start \in Nat /\ r.end \in Nat /\ r.start < r.end
         /\ \A l \in r.start + 1 .. r.end - 1 : ~IsPragma(t[l])
<1>1. DOMAIN t = 1 .. Len(t) /\ Len(t) \in Nat
  OBVIOUS
<1>2. r \in [start : 1 .. Len(t), end : 1 .. Len(t)]
  BY <1>1 DEF Regions
<1>3. /\ t[r.start] \in StartKinds /\ t[r.end] = "endmacveth" /\ r.start < r.end
      /\ \A l \in r.start + 1 .. r.end - 1 : ~IsPragma(t[l])
  BY DEF Regions, IsPragma
<1>4. PICK a \in 1 .. Len(t), b \in 1 .. Len(t) : a = r.start /\ b = r.end
  BY <1>2
<1>5. a \in Nat /\ b \in Nat
  BY <1>1, <1>4
<1>6. QED
  BY <1>1, <1>3, <1>4, <1>5

\* The statements of a scop of the function are in a region of it.
LEMMA InRegionOf ==
  ASSUME IInv, SeparateInv, pc = "rewrite", NEW i \in scops, IsFirst(i, scops),
         NEW l \in wraps
  PROVE  /\ OwnScop(file, List[i]) /\ List[i].end # NoEnd
         /\ l \in Nat /\ Span(List[i]) \in Regions(text) /\ Around(List[i], l)
         /\ InRegion(file, l, Span(List[i]))
<1>1. /\ List \in Seq(ScopLocs) /\ i \in DOMAIN List /\ text \in Seq(LineKinds)
  BY TextType DEF IInv, TypeOK
<1>2. List[i] \in ScopLocs
  BY <1>1
<1>3. /\ l \in DOMAIN text /\ fd.first < l /\ l < fd.last /\ text[l] \in StmtKinds
      /\ List[i].start <= l /\ l <= List[i].end
  BY DEF SeparateInv, ScanInv, GenStmtWraps
<1>4. List[i].end # NoEnd
  BY <1>1, <1>2, <1>3 DEF NoEnd, ScopLocs
<1>5. /\ List[i].of = file /\ fd \in Functions(text) /\ IsTarget(fd)
      /\ fd.first <= List[i].start /\ List[i].end <= fd.last
  BY DEF SeparateInv, ScanInv, ScopIsOf
<1> DEFINE r == Span(List[i])
<1>6. r.start = List[i].start /\ r.end = List[i].end
  BY DEF Span
<1>7. r \in Regions(text) /\ List[i].full = Full(text, List[i].start)
  BY <1>1, <1>4, <1>5 DEF SeparateInv, RegionInv, ClosedRegion, text
<1> HIDE DEF r
<1>8. PICK a \in Nat, b \in Nat, c \in Nat, d \in Nat :
        a = fd.first /\ b = fd.last /\ c = r.start /\ d = r.end
  BY <1>1, <1>5, <1>7, FunctionLines, RegionLines
<1>9. /\ text[a] = "{" /\ text[b] = "}" /\ text[c] \in StartKinds
      /\ text[d] = "endmacveth"
  BY <1>1, <1>5, <1>7, <1>8, FunctionLines, RegionLines
<1>10. l \in Nat
  BY <1>1, <1>3
<1>11. r.start < l /\ l < r.end /\ fd.first < r.start /\ r.end < fd.last
  <2>1. a < l /\ l < b /\ c <= l /\ l <= d /\ a <= c /\ d <= b
    BY <1>3, <1>5, <1>6, <1>8
  <2>2. a # c /\ b # d /\ l # c /\ l # d
    BY <1>3, <1>9 DEF StartKinds, StmtKinds
  <2>3. c < l /\ l < d /\ a < c /\ d < b
    BY <1>8, <1>10, <2>1, <2>2
  <2>4. QED
    BY <1>8, <2>3
<1>12. InRegion(file, l, r)
  BY <1>3, <1>5, <1>7, <1>11 DEF InRegion, IsTarget, text
<1>13. \A s \in ScopLocs :
         s = [of |-> s.of, start |-> s.start, end |-> s.end, full |-> s.full]
  BY DEF ScopLocs
<1>14. OwnScop(file, List[i])
  <2>1. List[i] = [of |-> List[i].of, start |-> List[i].start, end |-> List[i].end,
                   full |-> List[i].full]
    BY <1>2, <1>13
  <2>2. QED
    BY <1>5, <1>7, <2>1 DEF OwnScop, text
<1>15. QED
  BY <1>3, <1>4, <1>7, <1>10, <1>12, <1>14 DEF Around, r

\* A statement of a scop has its options from that scop: the scops of its file
\* above it in the list have ended before it starts, and those of the files
\* before lie elsewhere.
LEMMA OwnOptions ==
  ASSUME IInv, SeparateInv, NEW i \in DOMAIN List, List[i].of = file,
         List[i].end # NoEnd, NEW l \in Nat, Around(List[i], l), NEW o \in DOMAIN List
  PROVE  IsScopLoc(o, l) <=> o = i
<1>1. /\ List \in Seq(ScopLocs) /\ Len(List) \in Nat /\ DOMAIN List = 1 .. Len(List)
      /\ i \in DOMAIN List /\ file \in DOMAIN input.files /\ file \in Nat
      /\ input.files \in Seq(Seq(LineKinds))
  BY TextType DEF IInv, TypeOK
<1>2. \A j \in DOMAIN List : List[j] \in ScopLocs
  BY <1>1
<1>3. Span(List[i]) \in Regions(text)
  BY DEF SeparateInv, RegionInv, ClosedRegion, text
<1>4. ASSUME NEW j \in 1 .. i - 1, Around(List[j], l)
      PROVE  FALSE
  <2>1. j \in DOMAIN List /\ j < i
    BY <1>1
  <2>2. /\ List[j].end # NoEnd
        /\ List[j].of = file => List[j].end < List[i].start
    BY <2>1 DEF IInv, ScopsInOrder
  <2>3. /\ List[j].of \in DOMAIN input.files /\ List[j].of <= file
        /\ Span(List[j]) \in Regions(input.files[List[j].of])
    BY <2>1, <2>2 DEF SeparateInv, RegionInv, ClosedRegion, IInv, AboveInv
  <2>4. PICK a \in Nat, b \in Nat, c \in Nat, d \in Nat, n \in Nat :
          /\ a = List[j].start /\ b = List[j].end
          /\ c = List[i].start /\ d = List[i].end /\ n = List[j].of
    BY <1>2, <2>1 DEF ScopLocs
  <2>5. a <= l /\ l <= b /\ c <= l /\ l <= d
    BY <1>4, <2>4 DEF Around
  <2>6. CASE n = file
    BY <2>2, <2>4, <2>5, <2>6
  <2>7. CASE n < file
    <3>1. Apart(input.files[n], text)
      BY <1>1, <2>3, <2>4, <2>7 DEF SeparateInv, AllApart, text
    <3>2. Span(List[j]).end < Span(List[i]).start \/ Span(List[i]).end < Span(List[j]).start
      BY <1>3, <2>3, <2>4, <3>1 DEF Apart
    <3>3. b < c \/ d < a
      BY <2>4, <3>2 DEF Span
    <3>4. QED
      BY <2>4, <2>5, <3>3
  <2>8. QED
    BY <1>1, <2>3, <2>4, <2>6, <2>7
<1>5. i \in Nat \ {0} /\ o \in Nat \ {0}
  BY <1>1
<1>6. IsScopLoc(i, l)
  BY <1>4 DEF IsScopLoc
<1>7. ASSUME IsScopLoc(o, l)
      PROVE  o = i
  <2>1. i \notin 1 .. o - 1 /\ Around(List[o], l)
    BY <1>7 DEF IsScopLoc
  <2>2. o \notin 1 .. i - 1
    BY <1>4, <2>1
  <2>3. QED
    BY <1>5, <2>1, <2>2
<1>8. QED
  BY <1>6, <1>7

\* Nothing is in the list or rewritten at the start.
LEMMA SeparateInit == SeparateFiles /\ Init => SeparateInv
BY DEF SeparateFiles, Init, SeparateInv, RegionInv, ScanInv, OwnInv

\* The scops of a function of the file at hand are scops of that file.
LEMMA OwnScops ==
  ASSUME IInv, SeparateInv, NEW f \in Functions(text), NEW i \in FuncGetScops(f)
  PROVE  List[i].of = file
<1>1. i \in DOMAIN List /\ ScopIsOf(f, List[i])
  BY DEF FuncGetScops
<1>2. /\ List[i] \in ScopLocs /\ file \in DOMAIN input.files /\ file \in Nat
  BY <1>1, TextType DEF IInv, TypeOK
<1>3. SUFFICES ASSUME List[i].of # file
               PROVE  FALSE
  OBVIOUS
<1>4. /\ List[i].of \in DOMAIN input.files /\ List[i].of <= file
      /\ Span(List[i]) \in Regions(input.files[List[i].of])
  BY <1>1, <1>3 DEF SeparateInv, RegionInv, ClosedRegion, OpenRegion, IInv, AboveInv
<1>5. List[i].of < file
  BY <1>2, <1>3, <1>4 DEF ScopLocs
<1>6. Apart(input.files[List[i].of], text)
  BY <1>2, <1>4, <1>5 DEF SeparateInv, AllApart, text
<1>7. QED
  BY <1>1, <1>4, <1>6 DEF Apart, ScopIsOf, Span

\* No step takes a scop or a statement that is not the function's own, when the
\* files are apart.
LEMMA SeparateNext == IInv /\ IInv' /\ SeparateInv /\ [Next]_vars => SeparateInv'
<1> SUFFICES ASSUME IInv, IInv', SeparateInv, [Next]_vars
             PROVE  SeparateInv'
  OBVIOUS
<1>1. TypeOK /\ RegionInv /\ ScanInv /\ OwnInv /\ AllApart(input.files)
  BY DEF IInv, SeparateInv
<1>2. /\ text \in Seq(LineKinds) /\ Len(text) \in Nat /\ line \in Nat \ {0}
      /\ DOMAIN text = 1 .. Len(text) /\ List \in Seq(ScopLocs)
      /\ file \in DOMAIN input.files /\ file \in Nat
      /\ scops \subseteq DOMAIN List /\ input.files \in Seq(Seq(LineKinds))
  BY <1>1, TextType DEF TypeOK
<1>3. \A i \in DOMAIN List : List[i] \in ScopLocs
  BY <1>2
\* The steps that read no line.
<1>4. ASSUME UNCHANGED <<input, file, List>>,
             \/ pc' = pc /\ line' = line
             \/ pc # "preprocess" /\ pc' # "preprocess"
      PROVE  RegionInv'
  <2>1. ReadTo' = ReadTo /\ text' = text
    BY <1>4 DEF ReadTo, text
  <2>2. QED
    BY <1>1, <1>4, <2>1 DEF RegionInv, OpenRegion, ClosedRegion
<1>5. ASSUME UNCHANGED <<input, rewritten>>
      PROVE  OwnInv' /\ AllApart(input'.files)
  BY <1>1, <1>5 DEF OwnInv, OwnScop, InRegion
<1>6. ASSUME pc' \notin {"scan", "rewrite"}
      PROVE  ScanInv'
  BY <1>6 DEF ScanInv
<1>7. CASE AddStart
  <2> DEFINE loc == NewScop
  <2>1. /\ line \in DOMAIN text /\ text[line] \in StartKinds /\ pc = "preprocess"
        /\ UNCHANGED <<input, file, pc, fd, scops, wraps, rewritten>>
        /\ text' = text /\ line' = line + 1
    BY <1>2, <1>7 DEF AddStart, Reading, text
  <2>2. \A i \in DOMAIN List' : List'[i] = loc \/ (i \in DOMAIN List /\ List'[i] = List[i]
                                                 /\ List[i].end # NoEnd)
    <3>1. loc \in ScopLocs
      BY <1>2 DEF ScopLocs, NoEnd, NewScop
    <3>2. List' = IF OpenScop THEN [List EXCEPT ![Len(List)] = loc]
                  ELSE Append(List, loc)
      BY <1>7 DEF AddStart
    <3>3. \A i \in DOMAIN List : i < Len(List) => List[i].end # NoEnd
      BY <1>2 DEF IInv, ScopsInOrder
    <3> HIDE DEF loc
    <3>4. CASE OpenScop
      BY <1>2, <3>1, <3>2, <3>3, <3>4 DEF OpenScop
    <3>5. CASE ~OpenScop
      BY <1>2, <3>1, <3>2, <3>3, <3>5 DEF OpenScop
    <3>6. QED
      BY <3>4, <3>5
  <2>3. loc.of = file /\ loc.start = line /\ loc.end = NoEnd /\ loc.full = Full(text, line)
    BY DEF NewScop, Full
  <2> HIDE DEF loc
  <2>4. ReadTo' = line
    BY <1>2, <2>1 DEF ReadTo
  <2>5. RegionInv'
    <3>1. SUFFICES ASSUME NEW i \in DOMAIN List'
                   PROVE  ClosedRegion(List[i])' /\ OpenRegion(List[i])'
      BY DEF RegionInv
    <3>2. CASE List'[i] = loc
      <4>1. List'[i].start + 1 .. line = {}
        BY <1>2, <2>3, <3>2
      <4>2. QED
        BY <2>1, <2>3, <2>4, <3>2, <4>1 DEF ClosedRegion, OpenRegion
    <3>3. CASE i \in DOMAIN List /\ List'[i] = List[i] /\ List[i].end # NoEnd
      BY <1>1, <2>1, <3>3 DEF RegionInv, ClosedRegion, OpenRegion
    <3>4. QED
      BY <2>2, <3>2, <3>3
  <2>6. QED
    BY <1>5, <1>6, <2>1, <2>5 DEF SeparateInv
<1>8. CASE AddEnd
  <2>1. /\ line \in DOMAIN text /\ text[line] = "endmacveth" /\ pc = "preprocess"
        /\ line' = line + 1 /\ text' = text
        /\ UNCHANGED <<input, file, pc, fd, scops, wraps, rewritten>>
    BY <1>2, <1>8 DEF AddEnd, Reading, text
  <2>2. SUFFICES RegionInv'
    BY <1>5, <1>6, <2>1 DEF SeparateInv
  <2>3. CASE ~OpenScop
    <3>1. List' = List
      BY <1>8, <2>3 DEF AddEnd
    <3>2. \A i \in DOMAIN List : List[i].end # NoEnd
      BY <1>2, <2>3 DEF IInv, ScopsInOrder, OpenScop
    <3>3. QED
      BY <1>1, <2>1, <3>1, <3>2 DEF RegionInv, ClosedRegion, OpenRegion
  <2>4. CASE OpenScop
    <3> DEFINE n == Len(List)
               old == List[n]
               new == [old EXCEPT !.end = line]
    <3>1. n \in DOMAIN List /\ old.end = NoEnd /\ old \in ScopLocs
      BY <1>2, <1>3, <2>4 DEF OpenScop
    <3>2. List' = [List EXCEPT ![n] = new]
      BY <1>8, <2>4 DEF AddEnd
    <3>3. /\ old.of = file /\ old.start \in DOMAIN text /\ text[old.start] \in StartKinds
          /\ old.full = Full(text, old.start)
          /\ \A l \in old.start + 1 .. line - 1 : ~IsPragma(text[l])
      BY <1>1, <2>1, <3>1 DEF RegionInv, OpenRegion, ReadTo
    <3>4. old.start < line
      BY <1>2, <2>1, <3>1, <3>3 DEF IInv, AboveInv
    <3>5. DOMAIN List' = DOMAIN List /\ List'[n] = new
          /\ \A i \in DOMAIN List : i # n => List'[i] = List[i]
      BY <3>1, <3>2
    <3>6. \A i \in DOMAIN List : i # n => List[i].end # NoEnd
      <4>1. \A i \in DOMAIN List : i # n => i < n
        BY <1>2
      <4>2. QED
        BY <3>1, <4>1 DEF IInv, ScopsInOrder
    <3> HIDE DEF n, old
    <3>7. /\ new.of = file /\ new.start = old.start /\ new.end = line
          /\ new.full = old.full
      BY <3>1, <3>3 DEF ScopLocs
    <3>8. Span(new) \in Regions(text)
      <4>1. Span(new) = [start |-> old.start, end |-> line]
        BY <3>7 DEF Span
      <4>2. QED
        BY <2>1, <3>3, <3>4, <4>1 DEF Regions, IsPragma
    <3> HIDE DEF new
    <3>9. SUFFICES ASSUME NEW i \in DOMAIN List
                   PROVE  /\ List'[i].end # NoEnd /\ List'[i].of \in DOMAIN input.files
                          /\ Span(List'[i]) \in Regions(input.files[List'[i].of])
                          /\ List'[i].full = Full(input.files[List'[i].of], List'[i].start)
      BY <2>1, <3>5 DEF RegionInv, ClosedRegion, OpenRegion
    <3>10. CASE i = n
      BY <1>2, <3>3, <3>5, <3>7, <3>8, <3>10 DEF NoEnd, text
    <3>11. CASE i # n
      BY <1>1, <3>5, <3>6, <3>11 DEF RegionInv, ClosedRegion
    <3>12. QED
      BY <3>10, <3>11
  <2>5. QED
    BY <2>3, <2>4
<1>9. CASE OtherLine
  <2>1. /\ line' = line + 1 /\ text' = text /\ pc = "preprocess"
        /\ ~IsPragma(text[line])
        /\ UNCHANGED <<input, file, pc, List, fd, scops, wraps, rewritten>>
    BY <1>9 DEF OtherLine, Reading, text, IsPragma, StartKinds, StmtKinds
  <2>2. ReadTo = line - 1 /\ ReadTo' = line
    BY <1>2, <2>1 DEF ReadTo
  <2>3. RegionInv'
    <3>1. SUFFICES ASSUME NEW i \in DOMAIN List, List[i].end = NoEnd,
                          NEW l \in List[i].start + 1 .. line
                   PROVE  ~IsPragma(text[l])
      BY <1>1, <2>1, <2>2 DEF RegionInv, ClosedRegion, OpenRegion
    <3>2. CASE l = line
      BY <2>1, <3>2
    <3>3. CASE l # line
      <4>1. l \in List[i].start + 1 .. line - 1
        BY <1>2, <1>3, <3>1, <3>3 DEF ScopLocs
      <4>2. QED
        BY <1>1, <2>2, <3>1, <4>1 DEF RegionInv, OpenRegion
    <3>4. QED
      BY <3>2, <3>3
  <2>4. QED
    BY <1>5, <1>6, <2>1, <2>3 DEF SeparateInv
<1>10. CASE EndOfParse
  <2>1. /\ pc = "preprocess" /\ pc' = "visit" /\ line > Len(text) /\ text' = text
        /\ UNCHANGED <<input, file, List, fd, scops, wraps, rewritten>>
    BY <1>10 DEF EndOfParse, text
  <2>2. ReadTo = line - 1 /\ ReadTo' = Len(text)
    BY <2>1 DEF ReadTo
  <2>3. RegionInv'
    <3>1. SUFFICES ASSUME NEW i \in DOMAIN List, List[i].end = NoEnd,
                          NEW l \in List[i].start + 1 .. Len(text)
                   PROVE  ~IsPragma(text[l])
      BY <1>1, <2>1, <2>2 DEF RegionInv, ClosedRegion, OpenRegion
    <3>2. l \in List[i].start + 1 .. line - 1
      BY <1>2, <1>3, <2>1 DEF ScopLocs
    <3>3. QED
      BY <1>1, <2>2, <3>1, <3>2 DEF RegionInv, OpenRegion
  <2>4. QED
    BY <1>5, <1>6, <2>1, <2>3 DEF SeparateInv
<1>11. CASE VisitFunctionDecl
  <2>1. PICK f \in Functions(text) :
          IF FuncGetScops(f) # {} /\ IsTarget(f)
          THEN pc' = "scan" /\ fd' = f /\ scops' = FuncGetScops(f)
          ELSE UNCHANGED <<pc, fd, scops>>
    BY <1>11 DEF VisitFunctionDecl
  <2>2. /\ pc = "visit" /\ UNCHANGED <<input, file, List, wraps, rewritten>>
        /\ text' = text /\ pc' \in {"visit", "scan"}
    BY <1>11 DEF VisitFunctionDecl, text
  <2>3. RegionInv'
    BY <1>4, <2>2
  <2>4. \A i \in FuncGetScops(f) : List[i].of = file
    BY OwnScops
  <2>5. ScanInv'
    BY <2>1, <2>2, <2>4 DEF ScanInv, FuncGetScops, IsTarget
  <2>6. QED
    BY <1>5, <2>2, <2>3, <2>5 DEF SeparateInv
<1>12. CASE ScanScop
  <2>1. /\ pc = "scan" /\ pc' = "rewrite" /\ text' = text
        /\ UNCHANGED <<input, file, line, List, fd, scops, rewritten>>
    BY <1>12 DEF ScanScop, text
  <2>2. PICK i \in scops : IsFirst(i, scops) /\ wraps' = GenStmtWraps(List[i])
    BY <1>12 DEF ScanScop
  <2>3. \A j \in scops : IsFirst(j, scops) => j = i
    BY <1>2, <2>2 DEF IsFirst
  <2>4. ScanInv'
    BY <1>1, <2>1, <2>2, <2>3 DEF ScanInv, GenStmtWraps, IsTarget
  <2>5. QED
    BY <1>4, <1>5, <2>1, <2>4 DEF SeparateInv
<1>13. CASE ScanEmptyScop
  BY <1>4, <1>5, <1>6, <1>13 DEF ScanEmptyScop, SeparateInv
<1>14. CASE SkipFunction
  BY <1>4, <1>5, <1>6, <1>14 DEF SkipFunction, SeparateInv
<1>15. CASE RewriteStmt
  <2>1. /\ pc = "rewrite" /\ text' = text
        /\ UNCHANGED <<input, file, line, pc, List, fd, scops>>
    BY <1>15 DEF RewriteStmt, text
  <2>2. PICK i \in scops, l \in wraps, o \in DOMAIN List :
          /\ IsFirst(i, scops) /\ IsScopLoc(o, l)
          /\ rewritten' = Append(rewritten,
               [file |-> file, line |-> l, scop |-> List[i], options |-> List[o]])
          /\ wraps' = wraps \ {l}
    BY <1>15 DEF RewriteStmt
  <2>3. ScanInv'
    BY <1>1, <2>1, <2>2 DEF ScanInv, GenStmtWraps, IsTarget
  <2>4. /\ OwnScop(file, List[i]) /\ List[i].end # NoEnd /\ l \in Nat
        /\ InRegion(file, l, Span(List[i])) /\ Around(List[i], l)
    BY <2>1, <2>2, InRegionOf
  <2>5. o = i
    <3>1. List[i].of = file /\ i \in DOMAIN List
      BY <1>1, <1>2, <2>1 DEF ScanInv
    <3>2. QED
      BY <2>2, <2>4, <3>1, OwnOptions
  <2> DEFINE new == [file |-> file, line |-> l, scop |-> List[i], options |-> List[o]]
  <2>6. new \in [file : Nat, line : Nat, scop : ScopLocs, options : ScopLocs]
    BY <1>2, <1>3, <2>4, <2>5
  <2>7. /\ new.file = file /\ new.line = l /\ new.scop = List[i]
        /\ new.options = List[i]
    BY <2>5
  <2>8. rewritten' = Append(rewritten, new)
    BY <2>2
  <2> HIDE DEF new
  <2>9. \A j \in DOMAIN rewritten' :
          rewritten'[j] = new \/ (j \in DOMAIN rewritten /\ rewritten'[j] = rewritten[j])
    <3> DEFINE T == [file : Nat, line : Nat, scop : ScopLocs, options : ScopLocs]
    <3>1. rewritten \in Seq(T)
      BY <1>1 DEF TypeOK
    <3>2. new \in T
      BY <2>6
    <3> HIDE DEF T
    <3>3. QED
      BY <2>8, <3>1, <3>2
  <2>10. OwnInv'
    <3>1. SUFFICES ASSUME NEW j \in DOMAIN rewritten'
                   PROVE  LET r == rewritten'[j]
                          IN  /\ OwnScop(r.file, r.scop) /\ r.options = r.scop
                              /\ InRegion(r.file, r.line, Span(r.scop))
      BY <2>1 DEF OwnInv, OwnScop, InRegion
    <3>2. CASE rewritten'[j] = new
      BY <2>4, <2>7, <3>2
    <3>3. CASE j \in DOMAIN rewritten /\ rewritten'[j] = rewritten[j]
      BY <1>1, <3>3 DEF OwnInv
    <3>4. QED
      BY <2>9, <3>2, <3>3
  <2>11. QED
    BY <1>1, <1>4, <2>1, <2>3, <2>10 DEF SeparateInv
<1>16. CASE EndScop
  <2>1. /\ pc = "rewrite" /\ pc' = "scan" /\ scops' \subseteq scops /\ text' = text
        /\ UNCHANGED <<input, file, line, List, fd, wraps, rewritten>>
    BY <1>16 DEF EndScop, text
  <2>2. ScanInv'
    BY <1>1, <2>1 DEF ScanInv, IsTarget
  <2>3. QED
    BY <1>4, <1>5, <2>1, <2>2 DEF SeparateInv
<1>17. CASE EndFunction
  BY <1>4, <1>5, <1>6, <1>17 DEF EndFunction, SeparateInv
\* The last scop of a file that others follow is closed.
<1>18. CASE NextFile
  <2>1. /\ pc = "visit" /\ file < Len(input.files) /\ file' = file + 1
        /\ pc' = "preprocess" /\ UNCHANGED <<input, List, fd, scops, wraps, rewritten>>
    BY <1>18 DEF NextFile, NoFunctionLeft
  <2>2. Apart(text, input.files[file + 1])
    <3>1. file + 1 \in DOMAIN input.files /\ file < file + 1
      BY <1>2, <2>1
    <3>2. QED
      BY <1>1, <1>2, <3>1 DEF AllApart, text
  <2>3. \A i \in DOMAIN List : List[i].end # NoEnd
    <3>1. SUFFICES ASSUME NEW i \in DOMAIN List, List[i].end = NoEnd
                   PROVE  FALSE
      OBVIOUS
    <3>2. /\ List[i].start \in DOMAIN text /\ text[List[i].start] \in StartKinds
          /\ \A l \in List[i].start + 1 .. Len(text) : ~IsPragma(text[l])
      BY <1>1, <2>1, <3>1 DEF RegionInv, OpenRegion, ReadTo
    <3>3. QED
      BY <2>2, <3>2 DEF Apart, IsPragma
  <2>4. RegionInv'
    BY <1>1, <2>1, <2>3 DEF RegionInv, ClosedRegion, OpenRegion
  <2>5. QED
    BY <1>5, <1>6, <2>1, <2>4 DEF SeparateInv
<1>19. CASE LastFile
  <2>1. /\ pc = "visit" /\ pc' = "done"
        /\ UNCHANGED <<input, file, line, List, fd, scops, wraps, rewritten>>
    BY <1>19 DEF LastFile, NoFunctionLeft
  <2>2. QED
    BY <1>4, <1>5, <1>6, <2>1 DEF SeparateInv
<1>20. CASE UNCHANGED vars
  <2>1. ScanInv'
    BY <1>1, <1>20 DEF vars, ScanInv, GenStmtWraps, IsTarget, text
  <2>2. QED
    BY <1>4, <1>5, <1>20, <2>1 DEF vars, SeparateInv
<1>21. QED
  BY <1>7, <1>8, <1>9, <1>10, <1>11, <1>12, <1>13, <1>14, <1>15, <1>16, <1>17, <1>18,
     <1>19, <1>20 DEF Next, Finished

-------------------------------------------------------------------------------
(***************************************************************************)
(* The regions are in the list.                                            *)
(***************************************************************************)
Visiting == pc \in {"visit", "scan", "rewrite", "done"}
Scanning == pc \in {"scan", "rewrite"}

Has(n, r) ==
  \E i \in DOMAIN List : /\ List[i].of = n /\ List[i].end # NoEnd
                         /\ List[i].start = r.start /\ List[i].end = r.end

(***************************************************************************)
(* The regions that have been read are in the list, and a macveth pragma   *)
(* that has just been is the start of its last scop.                       *)
(***************************************************************************)
ReadInv ==
  /\ \A n \in DOMAIN input.files : \A r \in Regions(input.files[n]) :
       n < file \/ (n = file /\ (pc = "preprocess" => r.end < line)) => Has(n, r)
  /\ pc = "preprocess" =>
       \A l \in 1 .. line - 1 :
         /\ text[l] \in StartKinds
         /\ \A k \in l + 1 .. line - 1 : ~IsPragma(text[k])
         => OpenScop /\ List[Len(List)].of = file /\ List[Len(List)].start = l

\* Functions do not overlap: one that starts between the lines of another is
\* that other.
LEMMA FunctionsApart ==
  ASSUME NEW t \in Seq(LineKinds), NEW f \in Functions(t), NEW g \in Functions(t),
         f.first <= g.first, g.first <= f.last
  PROVE  g = f
<1>1. PICK a \in Nat, b \in Nat, c \in Nat, d \in Nat :
        a = f.first /\ b = f.last /\ c = g.first /\ d = g.last
  BY FunctionLines
<1>2. /\ t[a] = "{" /\ t[b] = "}" /\ t[c] = "{" /\ t[d] = "}"
  BY <1>1, FunctionLines
<1>3. a < b /\ c < d /\ a <= c /\ c <= b
  BY <1>1 DEF Functions
<1>4. /\ \A l \in a + 1 .. b - 1 : t[l] \notin {"{", "}"}
      /\ \A l \in c + 1 .. d - 1 : t[l] \notin {"{", "}"}
  BY <1>1 DEF Functions
<1>5. c \notin a + 1 .. b - 1 /\ c # b
  BY <1>2, <1>4
<1>6. c = a
  BY <1>3, <1>5
<1>7. d \notin a + 1 .. b - 1 /\ b \notin c + 1 .. d - 1
  BY <1>2, <1>4
<1>8. d = b
  BY <1>3, <1>6, <1>7
<1>9. f = [first |-> a, last |-> b] /\ g = [first |-> c, last |-> d]
  BY <1>1 DEF Functions
<1>10. QED
  BY <1>6, <1>8, <1>9

\* Every step leaves the command line alone, and goes on to another file only
\* from one to the next.
LEMMA InputStays ==
  ASSUME [Next]_vars
  PROVE  input' = input /\ (file' = file \/ NextFile)
BY DEF Next, AddStart, AddEnd, OtherLine, EndOfParse, VisitFunctionDecl, ScanScop,
       ScanEmptyScop, SkipFunction, RewriteStmt, EndScop, EndFunction, NextFile, LastFile,
       Finished, vars

\* What has been read stays in the list.
LEMMA HasStays ==
  ASSUME IInv, [Next]_vars, NEW n, NEW r, Has(n, r)
  PROVE  Has(n, r)'
<1>1. PICK i \in DOMAIN List : /\ List[i].of = n /\ List[i].end # NoEnd
                               /\ List[i].start = r.start /\ List[i].end = r.end
  BY DEF Has
<1>2. i \in DOMAIN List' /\ List'[i] = List[i]
  BY <1>1, ClosedStays
<1>3. QED
  BY <1>1, <1>2 DEF Has

\* Nothing has been read at the start.
LEMMA ReadInit == Init => ReadInv
<1>1. SUFFICES ASSUME Init
               PROVE  ReadInv
  OBVIOUS
<1>2. TypeOK /\ file = 1 /\ line = 1
  BY <1>1, InitInv DEF IInv, Init
<1>3. input.files \in Seq(Seq(LineKinds))
  BY <1>2, TextType
<1>4. \A n \in DOMAIN input.files : n \in Nat \ {0} /\ input.files[n] \in Seq(LineKinds)
  BY <1>3
<1>5. \A n \in DOMAIN input.files : \A r \in Regions(input.files[n]) :
        ~(n < 1) /\ ~(r.end < 1)
  <2>1. SUFFICES ASSUME NEW n \in DOMAIN input.files, NEW r \in Regions(input.files[n])
                 PROVE  ~(n < 1) /\ ~(r.end < 1)
    OBVIOUS
  <2>2. PICK e \in 1 .. Len(input.files[n]) : e = r.end
    BY <1>4, RegionLines
  <2>3. QED
    BY <1>4, <2>2
<1>6. 1 .. line - 1 = {}
  BY <1>2
<1>7. pc = "preprocess"
  BY <1>1 DEF Init
<1>8. QED
  BY <1>2, <1>5, <1>6, <1>7 DEF ReadInv

\* Every region that has been read is in the list and stays there.
LEMMA ReadNext == IInv /\ ReadInv /\ [Next]_vars => ReadInv'
<1> SUFFICES ASSUME IInv, ReadInv, [Next]_vars
             PROVE  ReadInv'
  OBVIOUS
<1>1. TypeOK
  BY DEF IInv
<1>2. /\ input.files \in Seq(Seq(LineKinds)) /\ file \in 1 .. Len(input.files)
      /\ file \in Nat /\ text \in Seq(LineKinds) /\ Len(text) \in Nat
      /\ line \in Nat \ {0} /\ input' = input
  BY <1>1, TextType, InputStays
<1>3. \A n \in DOMAIN input.files : n \in Nat \ {0} /\ input.files[n] \in Seq(LineKinds)
  BY <1>2
<1>4. \A n \in DOMAIN input.files : \A r \in Regions(input.files[n]) :
        Has(n, r) => Has(n, r)'
  BY HasStays
<1>5. \A r \in Regions(text) :
        /\ r.end \in Nat /\ r.end # 0 /\ r.end <= Len(text)
        /\ text[r.end] = "endmacveth"
  <2>1. SUFFICES ASSUME NEW r \in Regions(text)
                 PROVE  /\ r.end \in Nat /\ r.end # 0 /\ r.end <= Len(text)
                        /\ text[r.end] = "endmacveth"
    OBVIOUS
  <2>2. r.end \in 1 .. Len(text) /\ text[r.end] = "endmacveth"
    BY <1>2, RegionLines
  <2>3. PICK e \in 1 .. Len(text) : e = r.end
    BY <2>2
  <2>4. QED
    BY <1>2, <2>2, <2>3
<1>6. List \in Seq(ScopLocs)
  BY <1>1 DEF TypeOK
<1> DEFINE Open(l) == OpenScop /\ List[Len(List)].of = file /\ List[Len(List)].start = l
           After(l, k) == \A m \in l + 1 .. k : ~IsPragma(text[m])
<1>7. pc = "preprocess" =>
        \A l \in 1 .. line - 1 :
          text[l] \in StartKinds /\ After(l, line - 1) => Open(l)
  BY DEF ReadInv
\* The first half of the invariant, when one more line has been read.
<1>8. ASSUME pc = "preprocess", pc' = "preprocess", file' = file, line' = line + 1,
             \A r \in Regions(text) : r.end = line => Has(file, r)'
      PROVE  \A n \in DOMAIN input'.files : \A r \in Regions(input'.files[n]) :
               n < file' \/ (n = file' /\ (pc' = "preprocess" => r.end < line')) => Has(n, r)'
  <2>1. SUFFICES ASSUME NEW n \in DOMAIN input.files, NEW r \in Regions(input.files[n]),
                        n < file \/ (n = file /\ r.end < line + 1)
                 PROVE  Has(n, r)'
    BY <1>2, <1>8
  <2>2. CASE n < file \/ r.end < line
    BY <1>4, <1>8, <2>1, <2>2 DEF ReadInv
  <2>3. CASE n = file /\ r.end = line
    BY <1>8, <2>3 DEF text
  <2>4. QED
    <3>1. CASE n < file
      BY <2>2, <3>1
    <3>2. CASE n = file
      <4>1. r \in Regions(text)
        BY <3>2 DEF text
      <4>2. r.end < line \/ r.end = line
        BY <1>2, <1>5, <2>1, <3>2, <4>1
      <4>3. QED
        BY <2>2, <2>3, <3>2, <4>2
    <3>3. QED
      BY <2>1, <3>1, <3>2
<1>9. CASE AddStart
  <2>1. /\ pc = "preprocess" /\ pc' = "preprocess" /\ file' = file /\ line' = line + 1
        /\ text[line] \in StartKinds /\ text' = text
    BY <1>2, <1>9 DEF AddStart, Reading, text
  <2> DEFINE loc == NewScop
  <2>2. loc.of = file /\ loc.start = line /\ loc.end = NoEnd /\ loc \in ScopLocs
    BY <1>2 DEF ScopLocs, NoEnd, NewScop
  <2>3. List' = IF OpenScop THEN [List EXCEPT ![Len(List)] = loc]
                ELSE Append(List, loc)
    BY <1>9 DEF AddStart
  <2> HIDE DEF loc
  <2>4. List' # <<>> /\ List'[Len(List')] = loc
    <3>1. CASE OpenScop
      BY <1>6, <2>2, <2>3, <3>1 DEF OpenScop
    <3>2. CASE ~OpenScop
      BY <1>6, <2>2, <2>3, <3>2
    <3>3. QED
      BY <3>1, <3>2
  <2>5. \A r \in Regions(text) : r.end = line => Has(file, r)'
    BY <1>5, <2>1 DEF StartKinds
  <2>6. ASSUME NEW l \in 1 .. line, After(l, line)
        PROVE  l = line
    <3>1. IsPragma(text[line])
      BY <2>1 DEF IsPragma
    <3>2. line \notin l + 1 .. line
      BY <2>6, <3>1
    <3>3. QED
      BY <1>2, <3>2
  <2>7. \A l \in 1 .. line : text[l] \in StartKinds /\ After(l, line) =>
          OpenScop' /\ List'[Len(List')].of = file /\ List'[Len(List')].start = l
    BY <2>2, <2>4, <2>6 DEF OpenScop
  <2>8. line' - 1 = line
    BY <1>2, <2>1
  <2>9. QED
    BY <1>8, <2>1, <2>5, <2>7, <2>8 DEF ReadInv
<1>10. CASE AddEnd
  <2>1. /\ pc = "preprocess" /\ pc' = "preprocess" /\ file' = file /\ line' = line + 1
        /\ text[line] = "endmacveth" /\ text' = text
    BY <1>2, <1>10 DEF AddEnd, Reading, text
  <2>2. ASSUME NEW r \in Regions(text), r.end = line
        PROVE  Has(file, r)'
    <3>1. PICK l \in Nat : l = r.start
      BY <1>2, RegionLines
    <3>2. /\ text[l] \in StartKinds /\ l \in 1 .. Len(text) /\ l < line
          /\ \A m \in l + 1 .. line - 1 : ~IsPragma(text[m])
      BY <1>2, <2>2, <3>1, RegionLines
    <3>3. l \in 1 .. line - 1
      BY <1>2, <3>1, <3>2
    <3>4. OpenScop /\ List[Len(List)].of = file /\ List[Len(List)].start = l
      BY <1>7, <2>1, <3>2, <3>3
    <3> DEFINE n   == Len(List)
               old == List[n]
               new == [old EXCEPT !.end = line]
    <3>5. List' = [List EXCEPT ![n] = new] /\ n \in DOMAIN List /\ old \in ScopLocs
      BY <1>6, <1>10, <3>4 DEF AddEnd, OpenScop
    <3>6. old.of = file /\ old.start = l
      BY <3>4
    <3> HIDE DEF old
    <3>7. new.of = file /\ new.start = l /\ new.end = line
      BY <3>5, <3>6 DEF ScopLocs
    <3> HIDE DEF new, n
    <3>8. n \in DOMAIN List' /\ List'[n] = new
      BY <3>5
    <3>9. QED
      BY <1>2, <2>1, <2>2, <3>1, <3>7, <3>8 DEF Has, NoEnd
  <2>3. ASSUME NEW l \in 1 .. line, After(l, line)
        PROVE  l = line
    <3>1. IsPragma(text[line])
      BY <2>1 DEF IsPragma
    <3>2. line \notin l + 1 .. line
      BY <2>3, <3>1
    <3>3. QED
      BY <1>2, <3>2
  <2>4. \A l \in 1 .. line : ~(text[l] \in StartKinds /\ After(l, line))
    BY <2>1, <2>3 DEF StartKinds
  <2>5. line' - 1 = line
    BY <1>2, <2>1
  <2>6. QED
    BY <1>8, <2>1, <2>2, <2>4, <2>5 DEF ReadInv
<1>11. CASE OtherLine
  <2>1. /\ pc = "preprocess" /\ pc' = "preprocess" /\ file' = file /\ line' = line + 1
        /\ ~IsPragma(text[line]) /\ text' = text /\ List' = List
        /\ text[line] \notin StartKinds /\ text[line] # "endmacveth"
    BY <1>2, <1>11 DEF OtherLine, Reading, text, IsPragma, StartKinds, StmtKinds
  <2>2. \A r \in Regions(text) : r.end = line => Has(file, r)'
    BY <1>5, <2>1
  <2>3. ASSUME NEW l \in 1 .. line, text[l] \in StartKinds, After(l, line)
        PROVE  Open(l)
    <3>1. l \in 1 .. line - 1
      BY <1>2, <2>1, <2>3
    <3>2. After(l, line - 1)
      BY <1>2, <2>3
    <3>3. QED
      BY <1>7, <2>1, <2>3, <3>1, <3>2
  <2>4. line' - 1 = line
    BY <1>2, <2>1
  <2>5. QED
    BY <1>8, <2>1, <2>2, <2>3, <2>4 DEF ReadInv, OpenScop
<1>12. CASE EndOfParse
  <2>1. pc = "preprocess" /\ pc' = "visit" /\ file' = file /\ line > Len(text)
    BY <1>12 DEF EndOfParse
  <2>2. \A r \in Regions(text) : r.end < line
    BY <1>2, <1>5, <2>1
  <2>3. QED
    BY <1>2, <1>4, <2>1, <2>2 DEF ReadInv, text
<1>13. CASE NextFile
  <2>1. pc = "visit" /\ pc' = "preprocess" /\ file' = file + 1 /\ line' = 1
    BY <1>13 DEF NextFile, NoFunctionLeft
  <2>2. ASSUME NEW n \in DOMAIN input.files, NEW r \in Regions(input.files[n]),
               n < file' \/ (n = file' /\ r.end < line')
        PROVE  Has(n, r)'
    <3>1. PICK e \in 1 .. Len(input.files[n]) : e = r.end
      BY <1>3, RegionLines
    <3>2. ~(r.end < 1)
      BY <1>3, <3>1
    <3>3. n < file \/ n = file
      BY <1>2, <1>3, <2>1, <2>2, <3>2
    <3>4. QED
      BY <1>4, <2>1, <3>3 DEF ReadInv
  <2>3. 1 .. line' - 1 = {}
    BY <2>1
  <2>4. QED
    BY <1>2, <2>1, <2>2, <2>3 DEF ReadInv
<1>14. ASSUME pc # "preprocess", pc' # "preprocess", file' = file
       PROVE  ReadInv'
  BY <1>2, <1>4, <1>14 DEF ReadInv
<1>15. ASSUME UNCHANGED vars
       PROVE  ReadInv'
  BY <1>15 DEF vars, ReadInv, Has, OpenScop, text
<1>16. QED
  <2>1. CASE VisitFunctionDecl
    BY <1>14, <2>1 DEF VisitFunctionDecl
  <2>2. CASE ScanScop \/ ScanEmptyScop \/ SkipFunction
    BY <1>14, <2>2 DEF ScanScop, ScanEmptyScop, SkipFunction
  <2>3. CASE RewriteStmt \/ EndScop
    BY <1>14, <2>3 DEF RewriteStmt, EndScop
  <2>4. CASE EndFunction \/ LastFile
    BY <1>14, <2>4 DEF EndFunction, LastFile, NoFunctionLeft
  <2>5. QED
    BY <1>9, <1>10, <1>11, <1>12, <1>13, <1>15, <2>1, <2>2, <2>3, <2>4
       DEF Next, Finished

\* The region of a function has been read when the function is visited, and
\* its scop is one of the function's.
LEMMA RegionHasScop ==
  ASSUME IInv, ReadInv, Visiting, NEW f \in Functions(text), NEW r \in Regions(text),
         f.first < r.start, r.end < f.last
  PROVE  \E i \in FuncGetScops(f) : List[i].start = r.start /\ List[i].end = r.end
<1>1. /\ file \in DOMAIN input.files /\ text \in Seq(LineKinds)
  BY TextType DEF IInv, TypeOK
<1>2. pc # "preprocess"
  BY DEF Visiting
<1>3. Has(file, r)
  BY <1>1, <1>2 DEF ReadInv, text
<1>4. PICK i \in DOMAIN List : List[i].start = r.start /\ List[i].end = r.end
  BY <1>3 DEF Has
<1>5. f.first <= r.start /\ r.end <= f.last
  <2>1. PICK a \in Nat, b \in Nat, c \in Nat, d \in Nat :
          a = f.first /\ b = f.last /\ c = r.start /\ d = r.end
    BY <1>1, FunctionLines, RegionLines
  <2>2. QED
    BY <2>1
<1>6. i \in FuncGetScops(f)
  BY <1>4, <1>5 DEF FuncGetScops, ScopIsOf
<1>7. QED
  BY <1>4, <1>6

-------------------------------------------------------------------------------
(***************************************************************************)
(* Skipping.  The scops of the function that are no longer to be scanned,  *)
(* and the one being rewritten, have no statement to skip at; so nothing   *)
(* rewritten stands in a region that is given up.                          *)
(***************************************************************************)
Compiles(i) == \A l \in GenStmtWraps(List[i]) : ~Skips(l)

SkipInv ==
  /\ Scanning => \A i \in FuncGetScops(fd) \ scops : Compiles(i)
  /\ pc = "rewrite" => \A i \in scops : IsFirst(i, scops) => Compiles(i)

KeptInv ==
  /\ SkipInv
  /\ \A k \in DOMAIN rewritten :
       ~GivenUp(input.files[rewritten[k].file], Span(rewritten[k].scop))

\* The scop of a function is a region, and what the tool skips at in it is what
\* cannot be compiled as the region's own pragma asks.
LEMMA SkipsAsAsked ==
  ASSUME IInv, SeparateInv, fd \in Functions(text), NEW i \in FuncGetScops(fd),
         List[i].end # NoEnd
  PROVE  /\ List[i].of = file /\ Span(List[i]) \in Regions(text)
         /\ \A l \in List[i].start + 1 .. List[i].end - 1 :
              Skips(l) <=> text[l] = "foreign" \/ (text[l] = "unbounded" /\ Full(text, List[i].start))
<1>1. i \in DOMAIN List /\ List \in Seq(ScopLocs) /\ List[i].of = file
  BY OwnScops DEF FuncGetScops, IInv, TypeOK
<1>2. /\ Span(List[i]) \in Regions(text) /\ List[i].full = Full(text, List[i].start)
  BY <1>1 DEF SeparateInv, RegionInv, ClosedRegion, text
<1>3. List[i] \in ScopLocs
  BY <1>1
<1>4. PICK a \in Nat, b \in Nat : a = List[i].start /\ b = List[i].end
  BY <1>3 DEF ScopLocs
<1>5. ASSUME NEW l \in a + 1 .. b - 1
      PROVE  Skips(l) <=> text[l] = "foreign" \/ (text[l] = "unbounded" /\ Full(text, a))
  <2>1. l \in Nat /\ a <= l /\ l <= b
    BY <1>4, <1>5
  <2>2. Around(List[i], l)
    BY <1>4, <2>1 DEF Around
  <2>3. \A o \in DOMAIN List : IsScopLoc(o, l) <=> o = i
    BY <1>1, <2>1, <2>2, OwnOptions
  <2>4. (\E o \in DOMAIN List : IsScopLoc(o, l) /\ List[o].full) <=> Full(text, a)
    BY <1>1, <1>2, <1>4, <2>3
  <2>5. QED
    BY <2>4 DEF Skips
<1>6. QED
  BY <1>1, <1>2, <1>4, <1>5

\* The statements of a region are those of its scop.
LEMMA RegionWraps ==
  ASSUME NEW t \in Seq(LineKinds), NEW r \in Regions(t), NEW f \in Functions(t),
         f.first < r.start, r.end < f.last, NEW l \in r.start + 1 .. r.end - 1
  PROVE  /\ l \in DOMAIN t /\ l \in Nat /\ f.first < l /\ l < f.last
         /\ r.start <= l /\ l <= r.end
<1>1. PICK a \in Nat, b \in Nat, c \in Nat, d \in Nat :
        /\ a = f.first /\ b = f.last /\ c = r.start /\ d = r.end
        /\ a \in 1 .. Len(t) /\ b \in 1 .. Len(t)
  BY FunctionLines, RegionLines
<1>2. l \in Nat /\ a < l /\ l < b /\ c <= l /\ l <= d
  BY <1>1
<1>3. l \in 1 .. Len(t)
  BY <1>1, <1>2
<1>4. DOMAIN t = 1 .. Len(t)
  OBVIOUS
<1>5. QED
  BY <1>1, <1>2, <1>3, <1>4

\* Two regions are the same or stand one below the other.
LEMMA RegionsApart ==
  ASSUME NEW t \in Seq(LineKinds), NEW q \in Regions(t), NEW r \in Regions(t),
         q.start <= r.start
  PROVE  q = r \/ q.end < r.start
<1>1. PICK a \in Nat, b \in Nat, c \in Nat, d \in Nat :
        a = q.start /\ b = q.end /\ c = r.start /\ d = r.end
  BY RegionLines
<1>2. /\ t[b] = "endmacveth" /\ t[d] = "endmacveth" /\ t[c] \in StartKinds
      /\ a < b /\ c < d /\ a <= c
      /\ \A l \in a + 1 .. b - 1 : ~IsPragma(t[l])
      /\ \A l \in c + 1 .. d - 1 : ~IsPragma(t[l])
  BY <1>1, RegionLines
<1>3. IsPragma(t[b]) /\ IsPragma(t[c]) /\ IsPragma(t[d]) /\ b # c
  BY <1>2 DEF IsPragma, StartKinds
<1>4. c \notin a + 1 .. b - 1 /\ b \notin c + 1 .. d - 1 /\ d \notin a + 1 .. b - 1
  BY <1>2, <1>3
<1>5. CASE a = c
  <2>1. b = d
    BY <1>2, <1>4, <1>5
  <2>2. q = [start |-> a, end |-> b] /\ r = [start |-> c, end |-> d]
    BY <1>1 DEF Regions
  <2>3. QED
    BY <1>5, <2>1, <2>2
<1>6. CASE a # c
  <2>1. b < c
    BY <1>2, <1>3, <1>4, <1>6
  <2>2. QED
    BY <1>1, <2>1
<1>7. QED
  BY <1>5, <1>6

\* What is rewritten is not given up: the regions above it in the function were
\* scanned before, with no statement to skip at.
LEMMA KeptRegion ==
  ASSUME IInv, SeparateInv, ReadInv, SkipInv, pc = "rewrite",
         NEW i \in scops, IsFirst(i, scops), NEW l \in wraps
  PROVE  ~GivenUp(text, Span(List[i]))
<1>1. /\ text \in Seq(LineKinds) /\ List \in Seq(ScopLocs) /\ scops \subseteq DOMAIN List
      /\ DOMAIN List = 1 .. Len(List) /\ Len(List) \in Nat
  BY TextType DEF IInv, TypeOK
<1>2. /\ fd \in Functions(text) /\ ScopIsOf(fd, List[i]) /\ List[i].of = file
      /\ i \in FuncGetScops(fd)
  BY <1>1 DEF SeparateInv, ScanInv, FuncGetScops
<1> DEFINE r == Span(List[i])
<1>3. r \in Regions(text) /\ r.start = List[i].start /\ r.end = List[i].end
  BY InRegionOf DEF Span
<1>4. fd.first <= r.start /\ r.end <= fd.last
  BY <1>2, <1>3 DEF ScopIsOf
<1> HIDE DEF r
<1>5. SUFFICES ASSUME NEW f \in Functions(text), NEW q \in Regions(text),
                      f.first < q.start, q.start <= r.start, r.end < f.last,
                      Hopeless(text, q)
               PROVE  FALSE
  BY DEF GivenUp, r
<1>6. PICK f1 \in Nat, f2 \in Nat, d1 \in Nat, d2 \in Nat, q1 \in Nat, q2 \in Nat,
           r1 \in Nat, r2 \in Nat :
        /\ f1 = f.first /\ f2 = f.last /\ d1 = fd.first /\ d2 = fd.last
        /\ q1 = q.start /\ q2 = q.end /\ r1 = r.start /\ r2 = r.end
  BY <1>1, <1>2, <1>3, FunctionLines, RegionLines
<1>7. f1 < q1 /\ q1 <= r1 /\ r1 < r2 /\ r2 < f2 /\ d1 <= r1 /\ r2 <= d2 /\ q1 < q2
  BY <1>1, <1>3, <1>4, <1>5, <1>6, RegionLines
\* The function is the one being scanned, and the region above is one of its.
<1>8. f = fd
  <2>1. CASE f1 <= d1
    <3>1. f.first <= fd.first /\ fd.first <= f.last
      BY <1>6, <1>7, <2>1
    <3>2. QED
      BY <1>1, <1>2, <3>1, FunctionsApart
  <2>2. CASE d1 <= f1
    <3>1. fd.first <= f.first /\ f.first <= fd.last
      BY <1>6, <1>7, <2>2
    <3>2. QED
      BY <1>1, <1>2, <3>1, FunctionsApart
  <2>3. QED
    BY <1>6, <2>1, <2>2
<1>9. q = r \/ q2 < r1
  BY <1>1, <1>3, <1>5, <1>6, RegionsApart
<1>10. q2 <= r2
  BY <1>6, <1>7, <1>9
<1>11. fd.first < q.start /\ q.end < fd.last
  BY <1>6, <1>7, <1>8, <1>10
<1>12. PICK j \in FuncGetScops(fd) : List[j].start = q1 /\ List[j].end = q2
  BY <1>2, <1>6, <1>11, RegionHasScop DEF Visiting
<1>13. List[j].end # NoEnd /\ j \in DOMAIN List
  BY <1>6, <1>7, <1>12 DEF NoEnd, FuncGetScops
<1>14. Compiles(j)
  <2>1. CASE j \in scops
    <3>1. List[j].of = file /\ i \in Nat /\ j \in Nat /\ i <= j
      BY <1>1, <1>2, <1>12, <2>1, OwnScops DEF IsFirst
    <3>2. ~(i < j)
      <4>1. SUFFICES ASSUME i < j
                     PROVE  FALSE
        OBVIOUS
      <4>2. r2 < q1
        BY <1>1, <1>2, <1>3, <1>6, <1>12, <1>13, <3>1, <4>1 DEF IInv, ScopsInOrder
      <4>3. QED
        BY <1>6, <1>7, <4>2
    <3>3. j = i
      BY <3>1, <3>2
    <3>4. QED
      BY <3>3 DEF SkipInv
  <2>2. CASE j \notin scops
    BY <1>12, <2>2 DEF SkipInv, Scanning
  <2>3. QED
    BY <2>1, <2>2
<1>15. PICK m \in q1 + 1 .. q2 - 1 :
         text[m] = "foreign" \/ (text[m] = "unbounded" /\ Full(text, q1))
  BY <1>5, <1>6 DEF Hopeless, Full
<1>16. Skips(m)
  BY <1>2, <1>12, <1>13, <1>15, SkipsAsAsked
<1>17. m \in GenStmtWraps(List[j])
  <2>1. /\ m \in DOMAIN text /\ fd.first < m /\ m < fd.last /\ q1 <= m /\ m <= q2
    BY <1>1, <1>2, <1>6, <1>11, <1>15, RegionWraps
  <2>2. text[m] \in StmtKinds
    BY <1>15 DEF StmtKinds
  <2>3. QED
    BY <1>12, <2>1, <2>2 DEF GenStmtWraps
<1>18. QED
  BY <1>14, <1>16, <1>17 DEF Compiles

\* Nothing is scanned or rewritten at the start.
LEMMA KeptInit == Init => KeptInv
BY DEF Init, KeptInv, SkipInv, Scanning

\* A scop with a statement to skip at ends the function before anything of it is
\* rewritten.
LEMMA KeptNext == IInv /\ SeparateInv /\ ReadInv /\ KeptInv /\ [Next]_vars => KeptInv'
<1> SUFFICES ASSUME IInv, SeparateInv, ReadInv, KeptInv, [Next]_vars
             PROVE  KeptInv'
  OBVIOUS
<1>1. SkipInv /\ input' = input /\ scops \subseteq DOMAIN List
  BY InputStays DEF KeptInv, IInv, TypeOK
<1>2. ASSUME rewritten' = rewritten, SkipInv'
      PROVE  KeptInv'
  BY <1>1, <1>2 DEF KeptInv
<1>3. ASSUME ~Scanning', rewritten' = rewritten
      PROVE  KeptInv'
  <2>1. SkipInv'
    BY <1>3 DEF SkipInv, Scanning
  <2>2. QED
    BY <1>2, <1>3, <2>1
\* The steps within a function keep what Compiles says of a scop.
<1>4. ASSUME UNCHANGED <<input, file, List, fd>>
      PROVE  /\ FuncGetScops(fd)' = FuncGetScops(fd)
             /\ \A i \in DOMAIN List : Compiles(i) => Compiles(i)'
  BY <1>4 DEF FuncGetScops, Compiles, GenStmtWraps, Skips, IsScopLoc, text
<1>5. CASE AddStart \/ AddEnd \/ OtherLine \/ EndOfParse
  BY <1>3, <1>5 DEF AddStart, AddEnd, OtherLine, EndOfParse, Reading, Scanning
<1>6. CASE VisitFunctionDecl
  <2>1. PICK f \in Functions(text) :
          IF FuncGetScops(f) # {} /\ IsTarget(f)
          THEN pc' = "scan" /\ fd' = f /\ scops' = FuncGetScops(f)
          ELSE UNCHANGED <<pc, fd, scops>>
    BY <1>6 DEF VisitFunctionDecl
  <2>2. pc = "visit" /\ UNCHANGED <<List, rewritten>>
    BY <1>6 DEF VisitFunctionDecl
  <2>3. pc' = "visit" \/ (pc' = "scan" /\ (FuncGetScops(fd) \ scops)' = {})
    BY <2>1, <2>2 DEF FuncGetScops
  <2>4. SkipInv'
    BY <2>3 DEF SkipInv, Scanning
  <2>5. QED
    BY <1>2, <2>2, <2>4
<1>7. CASE ScanScop
  <2>1. /\ pc = "scan" /\ pc' = "rewrite"
        /\ UNCHANGED <<input, file, line, List, fd, scops, rewritten>>
    BY <1>7 DEF ScanScop
  <2>2. PICK i \in scops : IsFirst(i, scops) /\ Compiles(i)
    BY <1>7 DEF ScanScop, Compiles
  <2>3. \A j \in scops : IsFirst(j, scops) => j = i
    BY <2>2 DEF IsFirst, IInv, TypeOK
  <2>4. SkipInv'
    BY <1>1, <1>4, <2>1, <2>2, <2>3 DEF SkipInv, Scanning, FuncGetScops
  <2>5. QED
    BY <1>2, <2>1, <2>4
<1>8. CASE ScanEmptyScop \/ SkipFunction \/ EndFunction \/ NextFile \/ LastFile
  BY <1>3, <1>8 DEF ScanEmptyScop, SkipFunction, EndFunction, NextFile, LastFile, Scanning
<1>9. CASE RewriteStmt
  <2>1. pc = "rewrite" /\ UNCHANGED <<input, file, line, pc, List, fd, scops>>
    BY <1>9 DEF RewriteStmt
  <2>2. PICK i \in scops, l \in wraps, o \in DOMAIN List :
          /\ IsFirst(i, scops)
          /\ rewritten' = Append(rewritten,
               [file |-> file, line |-> l, scop |-> List[i], options |-> List[o]])
    BY <1>9 DEF RewriteStmt
  <2>3. SkipInv'
    BY <1>1, <1>4, <2>1 DEF SkipInv, Scanning, FuncGetScops
  <2>4. ~GivenUp(input.files[file], Span(List[i]))
    BY <1>1, <2>1, <2>2, KeptRegion DEF text
  <2> DEFINE new == [file |-> file, line |-> l, scop |-> List[i], options |-> List[o]]
             T == [file : Nat, line : Nat, scop : ScopLocs, options : ScopLocs]
  <2>5. new.file = file /\ new.scop = List[i]
    OBVIOUS
  <2>6. rewritten \in Seq(T) /\ rewritten' = Append(rewritten, new)
    BY <2>2 DEF IInv, TypeOK
  <2> HIDE DEF new, T
  <2>7. \A k \in DOMAIN rewritten' :
          rewritten'[k] = new \/ (k \in DOMAIN rewritten /\ rewritten'[k] = rewritten[k])
    BY <2>6
  <2>8. QED
    BY <2>1, <2>3, <2>4, <2>5, <2>7 DEF KeptInv
<1>10. CASE EndScop
  <2>1. /\ pc = "rewrite" /\ pc' = "scan"
        /\ UNCHANGED <<input, file, line, List, fd, wraps, rewritten>>
    BY <1>10 DEF EndScop
  <2>2. PICK i \in scops : IsFirst(i, scops) /\ scops' = scops \ {i}
    BY <1>10 DEF EndScop
  <2>3. \A j \in FuncGetScops(fd) \ scops' : j \in DOMAIN List /\ Compiles(j)
    <3>1. SUFFICES ASSUME NEW j \in FuncGetScops(fd), j \notin scops'
                   PROVE  j \in DOMAIN List /\ Compiles(j)
      OBVIOUS
    <3>2. j = i \/ j \notin scops
      BY <2>2, <3>1
    <3>3. QED
      BY <1>1, <2>1, <2>2, <3>1, <3>2 DEF SkipInv, Scanning, FuncGetScops
  <2>4. SkipInv'
    BY <1>4, <2>1, <2>3 DEF SkipInv
  <2>5. QED
    BY <1>2, <2>1, <2>4
<1>11. CASE UNCHANGED vars
  <2>1. SkipInv'
    BY <1>1, <1>4, <1>11 DEF vars, SkipInv, Scanning, FuncGetScops
  <2>2. QED
    BY <1>2, <1>11, <2>1 DEF vars
<1>12. QED
  BY <1>5, <1>6, <1>7, <1>8, <1>9, <1>10, <1>11 DEF Next, Finished

\* When no file of a command line leaves a scop in the list that a later one
\* could take for its own, everything the tool rewrites stands in a region of
\* interest of a target function, is compiled with the options of the pragma
\* above it, and nothing in that region or above it in the function made the
\* tool skip.
THEOREM OnlyRegionsRewritten == SeparateFiles => (Spec => []RegionsOnly)
<1>1. SUFFICES ASSUME SeparateFiles
               PROVE  Spec => []RegionsOnly
  OBVIOUS
<1>2. Init => SeparateInv
  BY <1>1, SeparateInit
<1>3. SeparateInv /\ KeptInv => RegionsOnly
  <2>1. SUFFICES ASSUME OwnInv, KeptInv
                 PROVE  RegionsOnly
    BY DEF SeparateInv
  <2>2. QED
    BY <2>1 DEF OwnInv, OwnScop, KeptInv, RegionsOnly, Span, Full
<1>4. QED
  BY <1>2, <1>3, InitInv, NextInv, SeparateNext, ReadInit, ReadNext, KeptInit, KeptNext,
     PTL DEF Spec

-------------------------------------------------------------------------------
(***************************************************************************)
(* Nothing else is left out.                                               *)
(***************************************************************************)
Rewritten(n, l) ==
  \E i \in DOMAIN rewritten : rewritten[i].file = n /\ rewritten[i].line = l

(***************************************************************************)
(* The statements of f's regions have been rewritten, but for the regions  *)
(* that are given up.                                                      *)
(***************************************************************************)
FunctionDone(n, f) ==
  LET t == input.files[n]
  IN  input.target \in {0, FunctionNumber(t, f)} =>
        \A r \in Regions(t) : f.first < r.start /\ r.end < f.last =>
          \A l \in DOMAIN t : r.start < l /\ l < r.end /\ t[l] \in StmtKinds =>
            Rewritten(n, l) \/ GivenUp(t, r)

(***************************************************************************)
(* The files before are done, and the functions visited in this one,       *)
(* except for the one being scanned; of that one the scops no longer to be *)
(* scanned are done, and of the first of those that are the statements no  *)
(* longer to be rewritten.                                                 *)
(***************************************************************************)
FilesDone ==
  \A n \in DOMAIN input.files : n < file =>
    \A f \in Functions(input.files[n]) : FunctionDone(n, f)

VisitedDone ==
  Visiting =>
    \A f \in Functions(text) : f.first < line =>
      /\ f.last < line
      /\ (Scanning /\ f = fd) \/ FunctionDone(file, f)

ScopsDone ==
  Scanning =>
    /\ fd \in Functions(text)
    /\ \A i \in FuncGetScops(fd) \ scops :
         \A l \in GenStmtWraps(List[i]) : Rewritten(file, l)

StmtsDone ==
  pc = "rewrite" =>
    \A i \in scops : IsFirst(i, scops) =>
      \A l \in GenStmtWraps(List[i]) \ wraps : Rewritten(file, l)

AllVisited ==
  pc = "done" => file = Len(input.files) /\ \A f \in Functions(text) : f.first < line

DoneInv == FilesDone /\ VisitedDone /\ ScopsDone /\ StmtsDone /\ AllVisited

CompleteInv == ReadInv /\ DoneInv

\* What has been rewritten stays so.
LEMMA RewrittenStays ==
  ASSUME IInv, [Next]_vars, NEW n, NEW l, Rewritten(n, l)
  PROVE  Rewritten(n, l)'
<1> DEFINE T == [file : Nat, line : Nat, scop : ScopLocs, options : ScopLocs]
<1>1. rewritten \in Seq(T)
  BY DEF IInv, TypeOK
<1>2. CASE RewriteStmt
  <2>1. PICK i \in scops, l1 \in wraps, o \in DOMAIN List :
          rewritten' = Append(rewritten,
            [file |-> file, line |-> l1, scop |-> List[i], options |-> List[o]])
    BY <1>2 DEF RewriteStmt
  <2>2. \A k \in DOMAIN rewritten : k \in DOMAIN rewritten' /\ rewritten'[k] = rewritten[k]
    <3> HIDE DEF T
    <3>1. QED
      BY <1>1, <2>1
  <2>3. QED
    BY <2>2 DEF Rewritten
<1>3. CASE rewritten' = rewritten
  BY <1>3 DEF Rewritten
<1>4. QED
  BY <1>2, <1>3
     DEF Next, AddStart, AddEnd, OtherLine, EndOfParse, VisitFunctionDecl, ScanScop,
         ScanEmptyScop, SkipFunction, EndScop, EndFunction, NextFile, LastFile, Finished,
         vars

\* A function whose regions have all been rewritten stays so.
LEMMA DoneStays ==
  ASSUME IInv, [Next]_vars, NEW n, NEW f, FunctionDone(n, f)
  PROVE  FunctionDone(n, f)'
<1>1. input' = input
  BY InputStays
<1>2. \A l : Rewritten(n, l) => Rewritten(n, l)'
  BY RewrittenStays
<1>3. QED
  BY <1>1, <1>2 DEF FunctionDone

\* A function is done once there is no scop of it left to scan.
LEMMA FunctionScanned ==
  ASSUME IInv, ReadInv, DoneInv, pc = "scan", scops = {}
  PROVE  FunctionDone(file, fd)
<1>1. text \in Seq(LineKinds) /\ fd \in Functions(text)
  BY TextType DEF IInv, DoneInv, ScopsDone, Scanning
<1>2. SUFFICES ASSUME NEW r \in Regions(text), fd.first < r.start, r.end < fd.last,
                      NEW l \in DOMAIN text,
                      r.start < l, l < r.end, text[l] \in StmtKinds
               PROVE  Rewritten(file, l)
  BY DEF FunctionDone, text
<1>3. PICK i \in FuncGetScops(fd) : List[i].start = r.start /\ List[i].end = r.end
  BY <1>1, <1>2, RegionHasScop DEF Visiting
<1>4. l \in GenStmtWraps(List[i])
  <2>1. PICK a \in Nat, b \in Nat, c \in Nat, d \in Nat :
          a = fd.first /\ b = fd.last /\ c = r.start /\ d = r.end
    BY <1>1, FunctionLines, RegionLines
  <2>2. l \in Nat
    BY <1>1
  <2>3. fd.first < l /\ l < fd.last /\ List[i].start <= l /\ l <= List[i].end
    BY <1>2, <1>3, <2>1, <2>2
  <2>4. QED
    BY <1>2, <2>3 DEF GenStmtWraps
<1>5. QED
  BY <1>3, <1>4 DEF DoneInv, ScopsDone, Scanning

\* A function that is left at a skip is done: the regions above the one with the
\* statement have been rewritten, and that one and those below are given up.
LEMMA FunctionSkipped ==
  ASSUME IInv, SeparateInv, ReadInv, DoneInv, SkipFunction
  PROVE  FunctionDone(file, fd)
<1>1. /\ text \in Seq(LineKinds) /\ fd \in Functions(text) /\ pc = "scan"
      /\ List \in Seq(ScopLocs) /\ DOMAIN List = 1 .. Len(List) /\ Len(List) \in Nat
      /\ scops \subseteq DOMAIN List
  BY TextType DEF IInv, TypeOK, DoneInv, ScopsDone, Scanning, SkipFunction
<1>2. PICK i \in scops, m \in DOMAIN text :
        IsFirst(i, scops) /\ m \in GenStmtWraps(List[i]) /\ Skips(m)
  BY DEF SkipFunction, GenStmtWraps
<1>3. SUFFICES ASSUME NEW r \in Regions(text), fd.first < r.start, r.end < fd.last,
                      NEW l \in DOMAIN text,
                      r.start < l, l < r.end, text[l] \in StmtKinds
               PROVE  Rewritten(file, l) \/ GivenUp(text, r)
  BY DEF FunctionDone, text
<1>4. PICK j \in FuncGetScops(fd) : List[j].start = r.start /\ List[j].end = r.end
  BY <1>1, <1>3, RegionHasScop DEF Visiting
<1>5. PICK a \in Nat, b \in Nat, c \in Nat, d \in Nat :
        /\ a = fd.first /\ b = fd.last /\ c = r.start /\ d = r.end
        /\ a < c /\ c < d /\ d < b
  BY <1>1, <1>3, FunctionLines, RegionLines
<1>6. CASE j \notin scops
  <2>1. l \in r.start + 1 .. r.end - 1
    BY <1>1, <1>3, <1>5
  <2>2. fd.first < l /\ l < fd.last /\ r.start <= l /\ l <= r.end
    BY <1>1, <1>3, <2>1, RegionWraps
  <2>3. l \in GenStmtWraps(List[j])
    BY <1>3, <1>4, <2>2 DEF GenStmtWraps
  <2>4. QED
    BY <1>1, <1>4, <1>6, <2>3 DEF DoneInv, ScopsDone, Scanning
<1>7. CASE j \in scops
  <2>1. i \in FuncGetScops(fd) /\ List[i] \in ScopLocs /\ i \in Nat /\ j \in Nat /\ i <= j
    BY <1>1, <1>2, <1>7 DEF SeparateInv, ScanInv, FuncGetScops, IsFirst
  <2>2. PICK s \in Nat, e \in Nat : s = List[i].start /\ e = List[i].end
    BY <2>1 DEF ScopLocs
  <2>3. /\ m \in DOMAIN text /\ s <= m /\ m <= e /\ a <= s /\ text[m] \in StmtKinds
    BY <1>2, <1>5, <2>1, <2>2 DEF GenStmtWraps, FuncGetScops, ScopIsOf
  <2>4. m \in Nat /\ m # 0
    BY <1>1, <2>3
  <2>5. List[i].end # NoEnd
    BY <2>2, <2>3, <2>4 DEF NoEnd
  <2>6. List[i].of = file /\ Span(List[i]) \in Regions(text)
    BY <1>1, <2>1, <2>5, SkipsAsAsked
  <2> DEFINE q == Span(List[i])
  <2>7. q.start = s /\ q.end = e /\ q \in Regions(text)
    BY <2>2, <2>6 DEF Span
  <2> HIDE DEF q
  <2>8. text[s] \in StartKinds /\ text[e] = "endmacveth" /\ text[a] = "{" /\ s < e
    BY <1>1, <1>5, <2>7, RegionLines, FunctionLines
  <2>9. m \in s + 1 .. e - 1 /\ a < s
    <3>1. m # s /\ m # e /\ a # s
      BY <2>3, <2>8 DEF StartKinds, StmtKinds
    <3>2. QED
      BY <1>5, <2>2, <2>3, <2>4, <3>1
  <2>10. Hopeless(text, q)
    <3>1. text[m] = "foreign" \/ (text[m] = "unbounded" /\ Full(text, s))
      BY <1>1, <1>2, <2>1, <2>2, <2>5, <2>9, SkipsAsAsked
    <3>2. QED
      BY <2>7, <2>9, <3>1 DEF Hopeless, Full
  <2>11. s <= c
    <3>1. CASE i = j
      BY <1>4, <1>5, <2>2, <3>1
    <3>2. CASE i # j
      <4>1. i < j /\ List[j].of = file
        BY <1>1, <1>4, <2>1, <3>2, OwnScops
      <4>2. e < c
        BY <1>1, <1>4, <1>5, <1>7, <2>1, <2>2, <2>6, <4>1 DEF IInv, ScopsInOrder, FuncGetScops
      <4>3. s \in Nat /\ e \in Nat /\ c \in Nat /\ s < e
        BY <1>5, <2>2, <2>8
      <4>4. QED
        BY ONLY <4>2, <4>3
    <3>3. QED
      BY <3>1, <3>2
  <2>12. fd.first < q.start /\ q.start <= r.start /\ r.end < fd.last
    BY <1>3, <1>5, <2>7, <2>9, <2>11
  <2>13. QED
    BY <1>1, <2>7, <2>10, <2>12 DEF GivenUp
<1>8. QED
  BY <1>6, <1>7

\* Nothing has been visited at the start.
LEMMA DoneInit == Init => DoneInv
<1>1. SUFFICES ASSUME Init
               PROVE  DoneInv
  OBVIOUS
<1>2. TypeOK /\ file = 1 /\ pc = "preprocess"
  BY <1>1, InitInv DEF IInv, Init
<1>3. \A n \in DOMAIN input.files : ~(n < file)
  <2>1. input.files \in Seq(Seq(LineKinds))
    BY <1>2, TextType
  <2>2. QED
    BY <1>2, <2>1
<1>4. QED
  BY <1>2, <1>3
     DEF DoneInv, FilesDone, VisitedDone, ScopsDone, StmtsDone, AllVisited, Visiting,
         Scanning

\* A function is left only when the statements of its regions are rewritten.
LEMMA DoneNext ==
  IInv /\ SeparateInv /\ ReadInv /\ DoneInv /\ [Next]_vars => DoneInv'
<1> SUFFICES ASSUME IInv, SeparateInv, ReadInv, DoneInv, [Next]_vars
             PROVE  DoneInv'
  OBVIOUS
<1>1. TypeOK
  BY DEF IInv
<1>2. /\ input.files \in Seq(Seq(LineKinds)) /\ file \in 1 .. Len(input.files)
      /\ file \in Nat /\ text \in Seq(LineKinds) /\ Len(text) \in Nat
      /\ line \in Nat \ {0} /\ input' = input /\ DOMAIN input.files \subseteq Nat
  BY <1>1, TextType, InputStays
<1>3. \A n, f : FunctionDone(n, f) => FunctionDone(n, f)'
  BY DoneStays
<1>4. \A n, l : Rewritten(n, l) => Rewritten(n, l)'
  BY RewrittenStays
<1>5. ASSUME file' = file
      PROVE  FilesDone'
  BY <1>2, <1>3, <1>5 DEF DoneInv, FilesDone
<1>6. ASSUME pc' = "preprocess", file' = file
      PROVE  DoneInv'
  BY <1>5, <1>6
     DEF DoneInv, VisitedDone, ScopsDone, StmtsDone, AllVisited, Visiting, Scanning
\* The functions above the line, when none of them is visited and the scan
\* is neither begun nor ended.
<1>7. ASSUME Visiting, UNCHANGED <<file, line, fd>>, Scanning => Scanning'
      PROVE  VisitedDone'
  BY <1>2, <1>3, <1>7 DEF DoneInv, VisitedDone, text
<1>8. CASE AddStart \/ AddEnd \/ OtherLine
  BY <1>6, <1>8 DEF AddStart, AddEnd, OtherLine, Reading
<1>9. CASE EndOfParse
  <2>1. pc' = "visit" /\ file' = file /\ line' = 1 /\ text' = text
    BY <1>2, <1>9 DEF EndOfParse, text
  <2>2. \A f \in Functions(text) : ~(f.first < 1)
    <3>1. SUFFICES ASSUME NEW f \in Functions(text)
                   PROVE  ~(f.first < 1)
      OBVIOUS
    <3>2. PICK a \in 1 .. Len(text) : a = f.first
      BY <1>2, FunctionLines
    <3>3. QED
      BY <1>2, <3>2
  <2>3. VisitedDone'
    BY <2>1, <2>2 DEF VisitedDone
  <2>4. QED
    BY <1>5, <2>1, <2>3 DEF DoneInv, ScopsDone, StmtsDone, AllVisited, Scanning
<1>10. CASE VisitFunctionDecl
  <2>1. PICK f \in Functions(text) :
          /\ NextFunction(f)
          /\ line' = f.last + 1
          /\ IF FuncGetScops(f) # {} /\ IsTarget(f)
             THEN pc' = "scan" /\ fd' = f /\ scops' = FuncGetScops(f)
             ELSE UNCHANGED <<pc, fd, scops>>
    BY <1>10 DEF VisitFunctionDecl
  <2>2. /\ pc = "visit" /\ UNCHANGED <<input, file, List, wraps, rewritten>>
        /\ text' = text
    BY <1>10 DEF VisitFunctionDecl, text
  <2>3. PICK first \in Nat, last \in Nat : first = f.first /\ last = f.last
    BY <1>2, FunctionLines
  <2>4. first < last /\ line <= first
    BY <1>2, <2>1, <2>3 DEF Functions, NextFunction
  <2>5. ASSUME NEW g \in Functions(text), g.first < line'
        PROVE  /\ g.last < line'
               /\ g = f \/ FunctionDone(file, g)
    <3>1. PICK a \in Nat, b \in Nat : a = g.first /\ b = g.last
      BY <1>2, FunctionLines
    <3>2. CASE a < line
      <4>1. b < line /\ FunctionDone(file, g)
        BY <2>2, <3>1, <3>2 DEF DoneInv, VisitedDone, Visiting, Scanning
      <4>2. b < last + 1
        BY <1>2, <2>4, <4>1
      <4>3. QED
        BY <2>1, <2>3, <3>1, <4>1, <4>2
    <3>3. CASE ~(a < line)
      <4>1. first <= a
        BY <1>2, <2>1, <2>3, <3>1, <3>3 DEF NextFunction
      <4>2. a <= last
        BY <2>1, <2>3, <2>5, <3>1
      <4>3. g = f
        BY <1>2, <2>3, <3>1, <4>1, <4>2, FunctionsApart
      <4>4. last < last + 1
        OBVIOUS
      <4>5. QED
        BY <2>1, <2>3, <4>3, <4>4
    <3>4. QED
      BY <3>2, <3>3
  <2>6. FilesDone'
    BY <1>5, <2>2
  <2>7. CASE FuncGetScops(f) # {} /\ IsTarget(f)
    <3>1. pc' = "scan" /\ fd' = f /\ scops' = FuncGetScops(f)
      BY <2>1, <2>7
    <3>2. VisitedDone'
      BY <1>3, <2>2, <2>5, <3>1 DEF VisitedDone, Scanning
    <3>3. ScopsDone'
      BY <2>2, <3>1 DEF ScopsDone, FuncGetScops
    <3>4. QED
      BY <2>6, <3>1, <3>2, <3>3 DEF DoneInv, StmtsDone, AllVisited
  <2>8. CASE ~(FuncGetScops(f) # {} /\ IsTarget(f))
    <3>1. pc' = "visit"
      BY <2>1, <2>2, <2>8
    <3>2. FunctionDone(file, f)
      <4>1. CASE ~IsTarget(f)
        BY <4>1 DEF FunctionDone, IsTarget, text
      <4>2. CASE FuncGetScops(f) = {}
        <5>1. \A r \in Regions(text) : ~(f.first < r.start /\ r.end < f.last)
          BY <2>2, <4>2, RegionHasScop DEF Visiting
        <5>2. QED
          BY <5>1 DEF FunctionDone, text
      <4>3. QED
        BY <2>8, <4>1, <4>2
    <3>3. VisitedDone'
      BY <1>3, <2>2, <2>5, <3>2 DEF VisitedDone
    <3>4. QED
      BY <2>6, <3>1, <3>3 DEF DoneInv, ScopsDone, StmtsDone, AllVisited, Scanning
  <2>9. QED
    BY <2>7, <2>8
<1>11. CASE ScanScop
  <2>1. /\ pc = "scan" /\ pc' = "rewrite" /\ text' = text
        /\ UNCHANGED <<input, file, line, List, fd, scops, rewritten>>
    BY <1>11 DEF ScanScop, text
  <2>2. PICK i \in scops : IsFirst(i, scops) /\ wraps' = GenStmtWraps(List[i])
    BY <1>11 DEF ScanScop
  <2>3. \A j \in scops : IsFirst(j, scops) => j = i
    BY <1>1, <2>2 DEF IsFirst, TypeOK
  <2>4. VisitedDone'
    BY <1>7, <2>1 DEF Visiting, Scanning
  <2>5. ScopsDone'
    BY <2>1 DEF DoneInv, ScopsDone, Scanning, FuncGetScops, GenStmtWraps, Rewritten
  <2>6. StmtsDone'
    BY <2>1, <2>2, <2>3 DEF StmtsDone, GenStmtWraps
  <2>7. QED
    BY <1>5, <2>1, <2>4, <2>5, <2>6 DEF DoneInv, AllVisited
<1>12. CASE ScanEmptyScop
  <2>1. pc' = "undefined" /\ file' = file
    BY <1>12 DEF ScanEmptyScop
  <2>2. QED
    BY <1>5, <2>1
       DEF DoneInv, VisitedDone, ScopsDone, StmtsDone, AllVisited, Visiting, Scanning
<1>13. CASE SkipFunction
  <2>1. /\ pc = "scan" /\ pc' = "visit" /\ text' = text
        /\ UNCHANGED <<input, file, line, List, fd, wraps, rewritten>>
    BY <1>13 DEF SkipFunction, text
  <2>2. fd \in Functions(text) /\ FunctionDone(file, fd)
    BY <1>13, FunctionSkipped DEF DoneInv, ScopsDone, Scanning, SkipFunction
  <2>3. VisitedDone'
    BY <1>3, <2>1, <2>2 DEF DoneInv, VisitedDone, Visiting
  <2>4. QED
    BY <1>5, <2>1, <2>3 DEF DoneInv, ScopsDone, StmtsDone, AllVisited, Scanning
<1>14. CASE RewriteStmt
  <2>1. /\ pc = "rewrite" /\ pc' = pc /\ text' = text
        /\ UNCHANGED <<input, file, line, pc, List, fd, scops>>
    BY <1>14 DEF RewriteStmt, text
  <2>2. PICK i \in scops, l \in wraps, o \in DOMAIN List :
          /\ rewritten' = Append(rewritten,
               [file |-> file, line |-> l, scop |-> List[i], options |-> List[o]])
          /\ wraps' = wraps \ {l}
    BY <1>14 DEF RewriteStmt
  <2>3. Rewritten(file, l)'
    <3> DEFINE new == [file |-> file, line |-> l, scop |-> List[i], options |-> List[o]]
               T == [file : Nat, line : Nat, scop : ScopLocs, options : ScopLocs]
    <3>1. rewritten \in Seq(T) /\ rewritten' = Append(rewritten, new)
      BY <1>1, <2>2 DEF TypeOK
    <3>2. new.file = file /\ new.line = l
      OBVIOUS
    <3> HIDE DEF new, T
    <3>3. Len(rewritten') \in DOMAIN rewritten' /\ rewritten'[Len(rewritten')] = new
      BY <3>1
    <3>4. QED
      BY <2>1, <3>2, <3>3 DEF Rewritten
  <2>4. VisitedDone'
    BY <1>7, <2>1 DEF Visiting, Scanning
  <2>5. ScopsDone'
    BY <1>4, <2>1 DEF DoneInv, ScopsDone, Scanning, FuncGetScops, GenStmtWraps
  <2>6. StmtsDone'
    <3>1. SUFFICES ASSUME NEW j \in scops, IsFirst(j, scops),
                          NEW k \in GenStmtWraps(List[j]), k \notin wraps'
                   PROVE  Rewritten(file, k)'
      BY <2>1 DEF StmtsDone, GenStmtWraps
    <3>2. CASE k \in wraps
      BY <2>2, <2>3, <3>1, <3>2
    <3>3. CASE k \notin wraps
      BY <1>4, <2>1, <3>1, <3>3 DEF DoneInv, StmtsDone
    <3>4. QED
      BY <3>2, <3>3
  <2>7. QED
    BY <1>5, <2>1, <2>4, <2>5, <2>6 DEF DoneInv, AllVisited
<1>15. CASE EndScop
  <2>1. /\ pc = "rewrite" /\ wraps = {} /\ pc' = "scan" /\ text' = text
        /\ UNCHANGED <<input, file, line, List, fd, wraps, rewritten>>
    BY <1>15 DEF EndScop, text
  <2>2. PICK i \in scops : IsFirst(i, scops) /\ scops' = scops \ {i}
    BY <1>15 DEF EndScop
  <2>3. VisitedDone'
    BY <1>7, <2>1 DEF Visiting, Scanning
  <2>4. \A l \in GenStmtWraps(List[i]) : Rewritten(file, l)
    BY <2>1, <2>2 DEF DoneInv, StmtsDone
  <2>5. \A j \in FuncGetScops(fd) \ scops' :
          \A l \in GenStmtWraps(List[j]) : Rewritten(file, l)
    <3>1. SUFFICES ASSUME NEW j \in FuncGetScops(fd), j \notin scops'
                   PROVE  \A l \in GenStmtWraps(List[j]) : Rewritten(file, l)
      OBVIOUS
    <3>2. CASE j = i
      BY <2>4, <3>2
    <3>3. CASE j \notin scops
      BY <2>1, <3>3 DEF DoneInv, ScopsDone, Scanning
    <3>4. QED
      BY <2>2, <3>1, <3>2, <3>3
  <2>6. ScopsDone'
    BY <1>4, <2>1, <2>5 DEF DoneInv, ScopsDone, Scanning, FuncGetScops, GenStmtWraps
  <2>7. QED
    BY <1>5, <2>1, <2>3, <2>6 DEF DoneInv, StmtsDone, AllVisited
<1>16. CASE EndFunction
  <2>1. /\ pc = "scan" /\ scops = {} /\ pc' = "visit" /\ text' = text
        /\ UNCHANGED <<input, file, line, List, fd, scops, wraps, rewritten>>
    BY <1>16 DEF EndFunction, text
  <2>2. fd \in Functions(text) /\ FunctionDone(file, fd)
    BY <2>1, FunctionScanned DEF DoneInv, ScopsDone, Scanning
  <2>3. VisitedDone'
    BY <1>3, <2>1, <2>2 DEF DoneInv, VisitedDone, Visiting
  <2>4. QED
    BY <1>5, <2>1, <2>3 DEF DoneInv, ScopsDone, StmtsDone, AllVisited, Scanning
\* In a file with no function left every function has been visited.
<1>17. ASSUME NoFunctionLeft
       PROVE  \A f \in Functions(text) : f.first < line /\ FunctionDone(file, f)
  BY <1>17 DEF NoFunctionLeft, DoneInv, VisitedDone, Visiting, Scanning
<1>18. CASE NextFile
  <2>1. pc' = "preprocess" /\ file' = file + 1 /\ NoFunctionLeft
    BY <1>18 DEF NextFile
  <2>2. \A n \in Nat : n < file' => n < file \/ n = file
    BY <1>2, <2>1
  <2>3. FilesDone'
    BY <1>2, <1>3, <1>17, <2>1, <2>2 DEF DoneInv, FilesDone, text
  <2>4. QED
    BY <2>1, <2>3 DEF DoneInv, VisitedDone, ScopsDone, StmtsDone, AllVisited, Visiting,
                      Scanning
<1>19. CASE LastFile
  <2>1. /\ pc' = "done" /\ file = Len(input.files) /\ NoFunctionLeft /\ text' = text
        /\ UNCHANGED <<input, file, line, List, fd, scops, wraps, rewritten>>
    BY <1>19 DEF LastFile, text
  <2>2. VisitedDone'
    BY <1>7, <2>1 DEF NoFunctionLeft, Visiting, Scanning
  <2>3. AllVisited'
    BY <1>17, <2>1 DEF AllVisited
  <2>4. QED
    BY <1>5, <2>1, <2>2, <2>3 DEF DoneInv, ScopsDone, StmtsDone, Scanning
<1>20. CASE UNCHANGED vars
  BY <1>20 DEF vars, DoneInv, FilesDone, VisitedDone, ScopsDone, StmtsDone, AllVisited,
               FunctionDone, Rewritten, Visiting, Scanning, FuncGetScops, GenStmtWraps,
               text
<1>21. QED
  BY <1>8, <1>9, <1>10, <1>11, <1>12, <1>13, <1>14, <1>15, <1>16, <1>18, <1>19, <1>20
     DEF Next, Finished

\* When no file of a command line leaves a scop in the list that a later one
\* could take for its own, then at the end of the tool every statement of every
\* region of every file has been rewritten, but for the regions that are given
\* up: those with a statement the tool skips at, and the ones below them in the
\* same function.  No sequence of pragmas makes the tool pass another one over.
THEOREM EveryRegionRewritten == SeparateFiles => (Spec => []AllRegions)
<1> SUFFICES ASSUME SeparateFiles
             PROVE  Spec => []AllRegions
  OBVIOUS
<1>1. ASSUME IInv, CompleteInv
      PROVE  AllRegions
  <2>1. SUFFICES ASSUME pc = "done", NEW n \in DOMAIN input.files,
                        NEW l \in DOMAIN input.files[n],
                        NEW r \in Regions(input.files[n]), InRegion(n, l, r),
                        ~GivenUp(input.files[n], r)
                 PROVE  Rewritten(n, l)
    BY DEF AllRegions, Rewritten
  <2>2. \A f \in Functions(input.files[n]) : FunctionDone(n, f)
    <3>1. n \in Nat /\ n <= Len(input.files) /\ Len(input.files) \in Nat
      <4>1. input.files \in Seq(Seq(LineKinds))
        BY <1>1, TextType DEF IInv
      <4>2. QED
        BY <4>1
    <3>2. CASE n < file
      BY <1>1, <3>2 DEF CompleteInv, DoneInv, FilesDone
    <3>3. CASE n = file
      BY <1>1, <2>1, <3>3
         DEF CompleteInv, DoneInv, AllVisited, VisitedDone, Visiting, Scanning, text
    <3>4. QED
      BY <1>1, <2>1, <3>1, <3>2, <3>3 DEF CompleteInv, DoneInv, AllVisited
  <2>3. PICK f \in Functions(input.files[n]) :
          /\ f.first < r.start /\ r.end < f.last
          /\ input.target \in {0, FunctionNumber(input.files[n], f)}
    BY <2>1 DEF InRegion
  <2>4. r.start < l /\ l < r.end /\ input.files[n][l] \in StmtKinds
    BY <2>1 DEF InRegion
  <2>5. QED
    BY <2>1, <2>2, <2>3, <2>4 DEF FunctionDone
<1>2. Init => SeparateInv /\ CompleteInv
  BY ReadInit, DoneInit, SeparateInit DEF CompleteInv
<1>3. IInv /\ SeparateInv /\ CompleteInv /\ [Next]_vars => CompleteInv'
  BY ReadNext, DoneNext DEF CompleteInv
<1>4. QED
  BY <1>1, <1>2, <1>3, InitInv, NextInv, SeparateNext, PTL DEF Spec

-------------------------------------------------------------------------------
(***************************************************************************)
(* The order of the text.  Whatever has been rewritten in the file at hand *)
(* stands above the line that functions are looked for at, above the scops *)
(* of the function that are left, and above the statements that are left   *)
(* of the first of them.                                                   *)
(***************************************************************************)
Behind(r) ==
  /\ r.file <= file
  /\ r.file = file =>
       /\ pc # "preprocess" /\ r.line < line
       /\ pc = "scan" => \A i \in scops : r.line < List[i].start
       /\ pc = "rewrite" =>
            /\ \A i \in scops : IsFirst(i, scops) \/ r.line < List[i].start
            /\ \A l \in wraps : r.line < l

OrderInv ==
  /\ \A k \in DOMAIN rewritten : Behind(rewritten[k])
  /\ Scanning => fd.last < line
  /\ InTextOrder

\* Nothing has been rewritten at the start.
LEMMA OrderInit == Init => OrderInv
BY DEF Init, OrderInv, InTextOrder, Scanning

\* Every statement is rewritten behind the ones before it.
LEMMA OrderNext == IInv /\ SeparateInv /\ OrderInv /\ [Next]_vars => OrderInv'
<1> SUFFICES ASSUME IInv, SeparateInv, OrderInv, [Next]_vars
             PROVE  OrderInv'
  OBVIOUS
<1>1. TypeOK
  BY DEF IInv
<1>2. /\ file \in Nat /\ text \in Seq(LineKinds) /\ Len(text) \in Nat
      /\ line \in Nat \ {0} /\ List \in Seq(ScopLocs) /\ scops \subseteq DOMAIN List
      /\ DOMAIN text = 1 .. Len(text)
  BY <1>1, TextType DEF TypeOK
<1>3. \A i \in DOMAIN List : List[i].start \in Nat /\ List[i].end \in Nat
  <2>1. \A i \in DOMAIN List : List[i] \in ScopLocs
    BY <1>2
  <2>2. QED
    BY <2>1 DEF ScopLocs
<1> DEFINE T == [file : Nat, line : Nat, scop : ScopLocs, options : ScopLocs]
<1>4. \A k \in DOMAIN rewritten : rewritten[k].file \in Nat /\ rewritten[k].line \in Nat
  <2>1. rewritten \in Seq(T)
    BY <1>1 DEF TypeOK
  <2>2. \A k \in DOMAIN rewritten : rewritten[k] \in T
    <3> HIDE DEF T
    <3>1. QED
      BY <2>1
  <2>3. QED
    BY <2>2
<1>5. \A k \in DOMAIN rewritten : Behind(rewritten[k])
  BY DEF OrderInv
\* It is enough to look at what the step does to the statements rewritten
\* before, when it rewrites none.
<1>6. ASSUME UNCHANGED rewritten, Scanning' => fd'.last < line',
             \A k \in DOMAIN rewritten : Behind(rewritten[k])'
      PROVE  OrderInv'
  BY <1>6 DEF OrderInv, InTextOrder
<1>7. CASE AddStart \/ AddEnd \/ OtherLine
  <2>1. pc = "preprocess" /\ pc' = pc /\ file' = file /\ rewritten' = rewritten
    BY <1>7 DEF AddStart, AddEnd, OtherLine, Reading
  <2>2. QED
    BY <1>5, <1>6, <2>1 DEF Behind, Scanning
<1>8. CASE EndOfParse
  <2>1. pc = "preprocess" /\ pc' = "visit" /\ file' = file /\ rewritten' = rewritten
    BY <1>8 DEF EndOfParse
  <2>2. QED
    BY <1>5, <1>6, <2>1 DEF Behind, Scanning
<1>9. CASE VisitFunctionDecl
  <2>1. PICK f \in Functions(text) :
          /\ NextFunction(f)
          /\ line' = f.last + 1
          /\ IF FuncGetScops(f) # {} /\ IsTarget(f)
             THEN pc' = "scan" /\ fd' = f /\ scops' = FuncGetScops(f)
             ELSE UNCHANGED <<pc, fd, scops>>
    BY <1>9 DEF VisitFunctionDecl
  <2>2. /\ pc = "visit" /\ UNCHANGED <<input, file, List, wraps, rewritten>>
    BY <1>9 DEF VisitFunctionDecl
  <2>3. PICK first \in Nat, last \in Nat : first = f.first /\ last = f.last
    BY <1>2, FunctionLines
  <2>4. first < last /\ line <= first /\ line' = last + 1
    BY <1>2, <2>1, <2>3 DEF Functions, NextFunction
  <2>5. pc' \in {"visit", "scan"} /\ (pc' = "scan" => fd' = f /\ scops' = FuncGetScops(f))
    BY <2>1, <2>2
  <2>6. Scanning' => fd'.last < line'
    BY <2>3, <2>4, <2>5 DEF Scanning
  <2>7. ASSUME NEW k \in DOMAIN rewritten
        PROVE  Behind(rewritten[k])'
    <3>1. PICK n \in Nat, l \in Nat : n = rewritten[k].file /\ l = rewritten[k].line
      BY <1>4
    <3>2. n <= file /\ (n = file => l < line)
      BY <1>5, <3>1 DEF Behind
    <3>3. n = file => l < first /\ l < line'
      BY <1>2, <2>4, <3>2
    <3>4. ASSUME NEW i \in FuncGetScops(f), n = file
          PROVE  l < List[i].start
      <4>1. first <= List[i].start /\ List[i].start \in Nat
        BY <1>3, <2>3 DEF FuncGetScops, ScopIsOf
      <4>2. QED
        BY <3>3, <3>4, <4>1
    <3>5. QED
      BY <2>2, <2>5, <3>1, <3>2, <3>3, <3>4 DEF Behind
  <2>8. QED
    BY <1>6, <2>2, <2>6, <2>7
<1>10. CASE ScanScop
  <2>1. /\ pc = "scan" /\ pc' = "rewrite"
        /\ UNCHANGED <<input, file, line, List, fd, scops, rewritten>>
    BY <1>10 DEF ScanScop
  <2>2. PICK i \in scops : IsFirst(i, scops) /\ wraps' = GenStmtWraps(List[i])
    BY <1>10 DEF ScanScop
  <2>3. Scanning' => fd'.last < line'
    BY <2>1 DEF OrderInv, Scanning
  <2>4. ASSUME NEW k \in DOMAIN rewritten, NEW l \in wraps', rewritten[k].file = file
        PROVE  rewritten[k].line < l
    <3>1. rewritten[k].line < List[i].start
      BY <1>5, <2>1, <2>2, <2>4 DEF Behind
    <3>2. List[i].start <= l /\ l \in Nat
      BY <1>2, <2>2, <2>4 DEF GenStmtWraps
    <3>3. PICK a \in Nat, b \in Nat : a = rewritten[k].line /\ b = List[i].start
      BY <1>2, <1>3, <1>4, <2>2
    <3>4. a < l
      BY <3>1, <3>2, <3>3
    <3>5. QED
      BY <3>3, <3>4
  <2>5. ASSUME NEW k \in DOMAIN rewritten
        PROVE  Behind(rewritten[k])'
    BY <1>5, <2>1, <2>4 DEF Behind
  <2>6. QED
    BY <1>6, <2>1, <2>3, <2>5
<1>11. CASE ScanEmptyScop
  <2>1. /\ pc = "scan" /\ pc' = "undefined" /\ UNCHANGED <<file, line, rewritten>>
    BY <1>11 DEF ScanEmptyScop
  <2>2. QED
    BY <1>5, <1>6, <2>1 DEF Behind, Scanning
<1>12. CASE SkipFunction
  <2>1. pc = "scan" /\ pc' = "visit" /\ UNCHANGED <<file, line, rewritten>>
    BY <1>12 DEF SkipFunction
  <2>2. QED
    BY <1>5, <1>6, <2>1 DEF Behind, Scanning
<1>13. CASE RewriteStmt
  <2>1. /\ pc = "rewrite"
        /\ UNCHANGED <<input, file, line, pc, List, fd, scops>>
    BY <1>13 DEF RewriteStmt
  <2>2. PICK i \in scops, l \in wraps, o \in DOMAIN List :
          /\ IsFirst(i, scops) /\ IsFirst(l, wraps)
          /\ rewritten' = Append(rewritten,
               [file |-> file, line |-> l, scop |-> List[i], options |-> List[o]])
          /\ wraps' = wraps \ {l}
    BY <1>13 DEF RewriteStmt
  <2> DEFINE new == [file |-> file, line |-> l, scop |-> List[i], options |-> List[o]]
  <2>3. /\ l \in DOMAIN text /\ l < fd.last /\ l <= List[i].end /\ fd \in Functions(text)
        /\ \A j \in scops : List[j].of = file
    BY <2>1, <2>2 DEF SeparateInv, ScanInv, GenStmtWraps
  <2>4. l \in Nat /\ fd.last \in Nat /\ i \in DOMAIN List
    <3>1. l \in 1 .. Len(text)
      BY <1>2, <2>3
    <3>2. l \in Nat
      BY <1>2, <3>1
    <3>3. fd.last \in Nat
      BY <1>2, <2>3, FunctionLines
    <3>4. QED
      BY <1>2, <3>2, <3>3
  <2>5. l < line
    <3>1. PICK last \in Nat : last = fd.last
      BY <2>4
    <3>2. l < last /\ last < line
      BY <2>1, <2>3, <3>1 DEF OrderInv, Scanning
    <3>3. QED
      BY <1>2, <2>4, <3>2
  <2>6. ASSUME NEW j \in scops, ~IsFirst(j, scops)
        PROVE  l < List[j].start
    <3>1. i < j
      <4>1. i <= j /\ i # j
        BY <2>2, <2>6 DEF IsFirst
      <4>2. i \in Nat /\ j \in Nat
        BY <1>2
      <4>3. QED
        BY <4>1, <4>2
    <3>2. List[i].end < List[j].start
      BY <1>2, <2>3, <3>1 DEF IInv, ScopsInOrder
    <3>3. PICK e \in Nat, a \in Nat : e = List[i].end /\ a = List[j].start
      BY <1>2, <1>3
    <3>4. l < a
      BY <2>3, <2>4, <3>2, <3>3
    <3>5. QED
      BY <3>3, <3>4
  <2>7. \A m \in wraps' : l < m
    <3>1. SUFFICES ASSUME NEW m \in wraps, m # l
                   PROVE  l < m
      BY <2>2
    <3>2. l <= m /\ m \in Nat
      BY <1>1, <1>2, <2>2 DEF IsFirst, TypeOK
    <3>3. QED
      BY <2>4, <3>1, <3>2
  <2>8. new.file = file /\ new.line = l
    OBVIOUS
  <2>9. rewritten \in Seq(T) /\ rewritten' = Append(rewritten, new)
    BY <1>1, <2>2 DEF TypeOK
  <2> HIDE DEF new
  <2>10. PICK n \in Nat : n = Len(rewritten)
    <3> HIDE DEF T
    <3>1. QED
      BY <2>9
  <2>11. /\ DOMAIN rewritten' = 1 .. n + 1 /\ DOMAIN rewritten = 1 .. n
         /\ rewritten'[n + 1] = new
         /\ \A k \in 1 .. n : rewritten'[k] = rewritten[k]
    <3> HIDE DEF T
    <3>1. QED
      BY <2>9, <2>10
  <2>12. Behind(rewritten[n + 1])'
    <3>1. rewritten'[n + 1].file = file /\ rewritten'[n + 1].line = l
      BY <2>8, <2>11
    <3>2. QED
      BY <1>2, <2>1, <2>5, <2>6, <2>7, <3>1 DEF Behind
  <2>13. ASSUME NEW k \in 1 .. n
         PROVE  /\ Behind(rewritten[k])'
                /\ \/ rewritten[k].file < file
                   \/ rewritten[k].file = file /\ rewritten[k].line < l
    <3>1. Behind(rewritten[k]) /\ rewritten'[k] = rewritten[k] /\ rewritten[k].file \in Nat
      BY <1>4, <1>5, <2>11
    <3>2. rewritten[k].file < file \/ rewritten[k].file = file
      <4>1. PICK m \in Nat : m = rewritten[k].file
        BY <3>1
      <4>2. m <= file
        BY <3>1, <4>1 DEF Behind
      <4>3. QED
        BY <1>2, <4>1, <4>2
    <3>3. rewritten[k].file = file => rewritten[k].line < l
      BY <2>1, <2>2, <3>1 DEF Behind
    <3>4. wraps' \subseteq wraps
      BY <2>2
    <3>5. Behind(rewritten[k])'
      BY <2>1, <3>1, <3>4 DEF Behind
    <3>6. QED
      BY <3>2, <3>3, <3>5
  <2>14. \A k \in DOMAIN rewritten' : Behind(rewritten[k])'
    <3>1. SUFFICES ASSUME NEW k \in 1 .. n + 1
                   PROVE  Behind(rewritten[k])'
      BY <2>11
    <3>2. CASE k = n + 1
      BY <2>12, <3>2
    <3>3. CASE k # n + 1
      <4>1. k \in 1 .. n
        BY <2>10, <3>3
      <4>2. QED
        BY <2>13, <4>1
    <3>4. QED
      BY <3>2, <3>3
  <2>15. InTextOrder'
    <3>1. SUFFICES ASSUME NEW j \in 1 .. n + 1, NEW k \in 1 .. n + 1, j < k
                   PROVE  \/ rewritten'[j].file < rewritten'[k].file
                          \/ /\ rewritten'[j].file = rewritten'[k].file
                             /\ rewritten'[j].line < rewritten'[k].line
      BY <2>11 DEF InTextOrder
    <3>2. j \in 1 .. n
      BY <2>10, <3>1
    <3>3. CASE k = n + 1
      BY <2>8, <2>11, <2>13, <3>2, <3>3
    <3>4. CASE k # n + 1
      <4>1. k \in 1 .. n
        BY <2>10, <3>4
      <4>2. QED
        BY <2>11, <3>1, <3>2, <4>1 DEF OrderInv, InTextOrder
    <3>5. QED
      BY <3>3, <3>4
  <2>16. QED
    BY <2>1, <2>14, <2>15 DEF OrderInv, Scanning
<1>14. CASE EndScop
  <2>1. /\ pc = "rewrite" /\ pc' = "scan"
        /\ UNCHANGED <<input, file, line, List, fd, wraps, rewritten>>
    BY <1>14 DEF EndScop
  <2>2. PICK i \in scops : IsFirst(i, scops) /\ scops' = scops \ {i}
    BY <1>14 DEF EndScop
  <2>3. \A j \in scops' : j \in scops /\ ~IsFirst(j, scops)
    BY <1>2, <2>2 DEF IsFirst
  <2>4. \A k \in DOMAIN rewritten : Behind(rewritten[k])'
    BY <1>5, <2>1, <2>3 DEF Behind
  <2>5. QED
    BY <1>6, <2>1, <2>4 DEF OrderInv, Scanning
<1>15. CASE EndFunction
  <2>1. pc = "scan" /\ pc' = "visit" /\ UNCHANGED <<file, line, rewritten>>
    BY <1>15 DEF EndFunction
  <2>2. QED
    BY <1>5, <1>6, <2>1 DEF Behind, Scanning
<1>16. CASE NextFile
  <2>1. pc' = "preprocess" /\ file' = file + 1 /\ rewritten' = rewritten
    BY <1>16 DEF NextFile
  <2>2. ASSUME NEW k \in DOMAIN rewritten
        PROVE  Behind(rewritten[k])'
    <3>1. PICK n \in Nat : n = rewritten[k].file
      BY <1>4
    <3>2. n <= file + 1 /\ n # file + 1
      BY <1>2, <1>5, <3>1 DEF Behind
    <3>3. QED
      BY <2>1, <3>1, <3>2 DEF Behind
  <2>3. QED
    BY <1>6, <2>1, <2>2 DEF Scanning
<1>17. CASE LastFile
  <2>1. pc = "visit" /\ pc' = "done" /\ UNCHANGED <<file, line, rewritten>>
    BY <1>17 DEF LastFile, NoFunctionLeft
  <2>2. QED
    BY <1>5, <1>6, <2>1 DEF Behind, Scanning
<1>18. CASE UNCHANGED vars
  BY <1>5, <1>6, <1>18 DEF vars, OrderInv, Behind, Scanning
<1>19. QED
  BY <1>7, <1>8, <1>9, <1>10, <1>11, <1>12, <1>13, <1>14, <1>15, <1>16, <1>17, <1>18
     DEF Next, Finished

\* When no file of a command line leaves a scop in the list that a later one
\* could take for its own, statements are rewritten in the order of the text,
\* file by file, and none of them twice.
THEOREM RewrittenInOrder == SeparateFiles => (Spec => []InTextOrder)
<1>1. SUFFICES ASSUME SeparateFiles
               PROVE  Spec => []InTextOrder
  OBVIOUS
<1>2. Init => SeparateInv
  BY <1>1, SeparateInit
<1>3. IInv /\ IInv' /\ SeparateInv /\ OrderInv /\ [Next]_vars => OrderInv'
  BY OrderNext
<1>4. OrderInv => InTextOrder
  BY DEF OrderInv
<1>5. QED
  BY <1>2, <1>3, <1>4, InitInv, NextInv, SeparateNext, OrderInit, PTL DEF Spec
===============================================================================
