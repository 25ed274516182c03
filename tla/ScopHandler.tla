------------------------------ MODULE ScopHandler ------------------------------
(***************************************************************************)
(* Which statements MACVETH takes as regions of interest, and the options  *)
(* it compiles each of them with.                                          *)
(*                                                                         *)
(* The tool runs over the files of the command line one by one.  For each  *)
(* file the preprocessor calls addStart and addEnd at the pragmas, in the  *)
(* order of the lines; when the whole file has been parsed                 *)
(* VisitFunctionDecl is called for its functions, collects the scops of    *)
(* each one (funcGetScops) and scans them (scanScops): genStmtWraps picks  *)
(* the statements of the scop, performUnrolling looks up the scop whose    *)
(* unroll options each of them gets (getScopLoc).  A statement that cannot *)
(* be compiled makes MVAssertSkip jump back to the beginning of scanScops, *)
(* which then returns.  ScopHandler::List is static and is never emptied.  *)
(*                                                                         *)
(* A file is the sequence of its lines, each of them one of LineKinds, and *)
(* a source location is a line: the lines of all files are taken to be as  *)
(* wide as each other, so that the offsets the code compares next to the   *)
(* lines say nothing else.  Main files have the same FileID in every run   *)
(* of the front end; included files are left out.                          *)
(***************************************************************************)
EXTENDS Integers, Sequences, FiniteSets

CONSTANT Inputs   \* the command lines the tool is started with

(***************************************************************************)
(* "macveth full" asks for a loop to be fully unrolled.  An "unbounded"    *)
(* statement is that loop where its bounds are not known, a "foreign" one  *)
(* calls a function that has no vector version without SVML.               *)
(***************************************************************************)
StartKinds == {"macveth", "macveth full"}

StmtKinds == {"stmt", "unbounded", "foreign"}

LineKinds == StartKinds \cup StmtKinds \cup {"endmacveth", "{", "}"}

(***************************************************************************)
(* target is the --target function, named by its place in its file, or 0.  *)
(***************************************************************************)
CommandLines == [files : Seq(Seq(LineKinds)) \ {<<>>}, target : Nat]

ASSUME InputsAssumption == Inputs \subseteq CommandLines

VARIABLES
  input,     \* the command line
  file,      \* the file being compiled
  line,      \* the next line to preprocess, or to look for a function at
  pc,        \* the phase of the front end
  List,      \* ScopHandler::List
  fd,        \* the function being visited
  scops,     \* its scops that are still to be scanned, by their place in List
  wraps,     \* the statements of the first of them still to be rewritten
  rewritten  \* the statements that have been, in order

vars == <<input, file, line, pc, List, fd, scops, wraps, rewritten>>

NoEnd == 0  \* ScopLoc.End (and EndLine) of a scop that has not been closed

(***************************************************************************)
(* full is PA.FullUnroll; "of" is the file whose pragma made the scop,     *)
(* which the code does not record: a ghost for the properties.             *)
(***************************************************************************)
ScopLocs == [of : Nat, start : Nat \ {0}, end : Nat, full : BOOLEAN]

FunctionDecls == [first : Nat, last : Nat]

text == input.files[file]

Functions(t) ==
  {f \in [first : DOMAIN t, last : DOMAIN t] :
     /\ f.first < f.last /\ t[f.first] = "{" /\ t[f.last] = "}"
     /\ \A l \in f.first + 1 .. f.last - 1 : t[l] \notin {"{", "}"}}

FunctionNumber(t, f) ==
  1 + Cardinality({g \in Functions(t) : g.first < f.first})

Init ==
  /\ input \in Inputs
  /\ file = 1 /\ line = 1 /\ pc = "preprocess"
  /\ List = <<>>
  /\ fd = [first |-> 0, last |-> 0] /\ scops = {} /\ wraps = {}
  /\ rewritten = <<>>

(***************************************************************************)
(* Preprocessing.  A start whose predecessor has no end takes its place,   *)
(* an end that follows no start is ignored.                                *)
(***************************************************************************)
OpenScop == List # <<>> /\ List[Len(List)].end = NoEnd

NewScop == [of |-> file, start |-> line, end |-> NoEnd, full |-> text[line] = "macveth full"]

Reading(kind) ==
  pc = "preprocess" /\ line <= Len(text) /\ text[line] = kind

\* Mutant: an unfinished scop is kept below the new one.
AddStartAlways ==
  /\ \E kind \in StartKinds : Reading(kind)
  /\ List' = Append(List, NewScop)
  /\ line' = line + 1
  /\ UNCHANGED <<input, file, pc, fd, scops, wraps, rewritten>>

AddStart ==
  /\ \E kind \in StartKinds : Reading(kind)
  /\ List' = IF OpenScop THEN [List EXCEPT ![Len(List)] = NewScop]
             ELSE Append(List, NewScop)
  /\ line' = line + 1
  /\ UNCHANGED <<input, file, pc, fd, scops, wraps, rewritten>>

\* Mutant: an end without a start closes the last scop again.
AddEndAlways ==
  /\ Reading("endmacveth")
  /\ List' = IF List # <<>> THEN [List EXCEPT ![Len(List)].end = line] ELSE List
  /\ line' = line + 1
  /\ UNCHANGED <<input, file, pc, fd, scops, wraps, rewritten>>

AddEnd ==
  /\ Reading("endmacveth")
  /\ List' = IF OpenScop THEN [List EXCEPT ![Len(List)].end = line] ELSE List
  /\ line' = line + 1
  /\ UNCHANGED <<input, file, pc, fd, scops, wraps, rewritten>>

OtherLine ==
  /\ \E kind \in {"{", "}"} \cup StmtKinds : Reading(kind)
  /\ line' = line + 1
  /\ UNCHANGED <<input, file, pc, List, fd, scops, wraps, rewritten>>

EndOfParse ==
  /\ pc = "preprocess" /\ line > Len(text)
  /\ pc' = "visit"
  /\ line' = 1
  /\ UNCHANGED <<input, file, List, fd, scops, wraps, rewritten>>

(***************************************************************************)
(* The functions of the translation unit, in order.                        *)
(***************************************************************************)
(***************************************************************************)
(* The line and the offset of a scop without end are both 0, which no      *)
(* function ends before.                                                   *)
(***************************************************************************)
ScopIsOf(f, scop) == f.first <= scop.start /\ scop.end <= f.last

\* Mutant: a function has one scop.
FuncGetScopsFirst(f) ==
  {i \in DOMAIN List : /\ ScopIsOf(f, List[i])
                       /\ \A j \in 1 .. i - 1 : ~ScopIsOf(f, List[j])}

FuncGetScops(f) == {i \in DOMAIN List : ScopIsOf(f, List[i])}

IsTarget(f) == input.target \in {0, FunctionNumber(text, f)}

NextFunction(f) ==
  /\ f \in Functions(text) /\ f.first >= line
  /\ \A g \in Functions(text) : g.first >= line => f.first <= g.first

VisitFunctionDecl ==
  /\ pc = "visit"
  /\ \E f \in Functions(text) :
       /\ NextFunction(f)
       /\ line' = f.last + 1
       /\ IF FuncGetScops(f) # {} /\ IsTarget(f)
          THEN pc' = "scan" /\ fd' = f /\ scops' = FuncGetScops(f)
          ELSE UNCHANGED <<pc, fd, scops>>
  /\ UNCHANGED <<input, file, List, wraps, rewritten>>

(***************************************************************************)
(* scanScops: the scops of the function in the order of the list, the      *)
(* statements of each in the order of the text.                            *)
(***************************************************************************)
IsFirst(n, S) == n \in S /\ \A m \in S : n <= m

\* Mutant: a scop goes on to the end of its function.
GenStmtWrapsToEnd(scop) ==
  {l \in DOMAIN text : /\ fd.first < l /\ l < fd.last /\ text[l] \in StmtKinds
                       /\ scop.start <= l /\ scop.end # NoEnd}

GenStmtWraps(scop) ==
  {l \in DOMAIN text : /\ fd.first < l /\ l < fd.last /\ text[l] \in StmtKinds
                       /\ scop.start <= l /\ l <= scop.end}

Around(scop, l) == scop.start <= l /\ l <= scop.end

(***************************************************************************)
(* The first scop of the list around the statement.  There is one, the     *)
(* scop being scanned at least.                                            *)
(***************************************************************************)
IsScopLoc(i, l) ==
  /\ i \in DOMAIN List /\ Around(List[i], l)
  /\ \A j \in 1 .. i - 1 : ~Around(List[j], l)

(***************************************************************************)
(* The statements at which MVAssertSkip jumps: when the statement is       *)
(* wrapped, or when its loop is unrolled with the options of its scop.     *)
(***************************************************************************)
Skips(l) ==
  \/ text[l] = "foreign"
  \/ text[l] = "unbounded" /\ \E o \in DOMAIN List : IsScopLoc(o, l) /\ List[o].full

\* Mutant: the scop is left as it was and the next one is scanned.
SkipScop ==
  /\ pc = "scan"
  /\ \E i \in scops : /\ IsFirst(i, scops)
                      /\ \E l \in GenStmtWraps(List[i]) : Skips(l)
                      /\ scops' = scops \ {i}
  /\ UNCHANGED <<input, file, line, pc, List, fd, wraps, rewritten>>

(***************************************************************************)
(* The jump comes before anything of the scop is rewritten; the rest of    *)
(* the function is left as it was, the scops before this one stay          *)
(* rewritten, and the visitor goes on.                                     *)
(***************************************************************************)
SkipFunction ==
  /\ pc = "scan"
  /\ \E i \in scops : /\ IsFirst(i, scops)
                      /\ \E l \in GenStmtWraps(List[i]) : Skips(l)
  /\ pc' = "visit" /\ scops' = {}
  /\ UNCHANGED <<input, file, line, List, fd, wraps, rewritten>>

ScanScop ==
  /\ pc = "scan"
  /\ \E i \in scops : /\ IsFirst(i, scops)
                      /\ GenStmtWraps(List[i]) # {}
                      /\ \A l \in GenStmtWraps(List[i]) : ~Skips(l)
                      /\ wraps' = GenStmtWraps(List[i])
  /\ pc' = "rewrite"
  /\ UNCHANGED <<input, file, line, List, fd, scops, rewritten>>

(***************************************************************************)
(* front() and back() of an empty list of statements: the behaviour of the *)
(* tool is undefined, and the model says nothing of what follows.          *)
(***************************************************************************)
ScanEmptyScop ==
  /\ pc = "scan"
  /\ \E i \in scops : IsFirst(i, scops) /\ GenStmtWraps(List[i]) = {}
  /\ pc' = "undefined"
  /\ UNCHANGED <<input, file, line, List, fd, scops, wraps, rewritten>>

RewriteStmt ==
  /\ pc = "rewrite"
  /\ \E i \in scops, l \in wraps, o \in DOMAIN List :
       /\ IsFirst(i, scops) /\ IsFirst(l, wraps) /\ IsScopLoc(o, l)
       /\ rewritten' = Append(rewritten,
            [file |-> file, line |-> l, scop |-> List[i], options |-> List[o]])
       /\ wraps' = wraps \ {l}
  /\ UNCHANGED <<input, file, line, pc, List, fd, scops>>

EndScop ==
  /\ pc = "rewrite" /\ wraps = {}
  /\ \E i \in scops : IsFirst(i, scops) /\ scops' = scops \ {i}
  /\ pc' = "scan"
  /\ UNCHANGED <<input, file, line, List, fd, wraps, rewritten>>

EndFunction ==
  /\ pc = "scan" /\ scops = {}
  /\ pc' = "visit"
  /\ UNCHANGED <<input, file, line, List, fd, scops, wraps, rewritten>>

(***************************************************************************)
(* EndSourceFileAction, and the tool's step to the next file.              *)
(***************************************************************************)
NoFunctionLeft == pc = "visit" /\ \A f \in Functions(text) : f.first < line

\* Mutant: the tool does not stop after the last file.
NextFileUnguarded ==
  /\ NoFunctionLeft
  /\ file' = file + 1
  /\ line' = 1
  /\ pc' = "preprocess"
  /\ UNCHANGED <<input, List, fd, scops, wraps, rewritten>>

NextFile ==
  /\ NoFunctionLeft /\ file < Len(input.files)
  /\ file' = file + 1
  /\ line' = 1
  /\ pc' = "preprocess"
  /\ UNCHANGED <<input, List, fd, scops, wraps, rewritten>>

LastFile ==
  /\ NoFunctionLeft /\ file = Len(input.files)
  /\ pc' = "done"
  /\ UNCHANGED <<input, file, line, List, fd, scops, wraps, rewritten>>

Finished ==
  /\ pc \in {"done", "undefined"}
  /\ UNCHANGED vars

Next ==
  \/ AddStart \/ AddEnd \/ OtherLine \/ EndOfParse
  \/ VisitFunctionDecl \/ ScanScop \/ ScanEmptyScop \/ SkipFunction
  \/ RewriteStmt \/ EndScop \/ EndFunction
  \/ NextFile \/ LastFile \/ Finished

Spec == Init /\ [][Next]_vars

-------------------------------------------------------------------------------
\* Every variable has its type, and the preprocessor and the visitor stay
\* within the lines of the file they are in.
TypeOK ==
  /\ input \in CommandLines
  /\ file \in DOMAIN input.files
  /\ line \in 1 .. Len(text) + 1
  /\ pc \in {"preprocess", "visit", "scan", "rewrite", "done", "undefined"}
  /\ List \in Seq(ScopLocs)
  /\ fd \in FunctionDecls
  /\ scops \subseteq DOMAIN List
  /\ wraps \subseteq DOMAIN text
  /\ rewritten \in
       Seq([file : Nat, line : Nat, scop : ScopLocs, options : ScopLocs])

\* The list holds disjoint scops in the order of the text: only the last one
\* may be without an end, and a file's next scop starts below the last one's.
ScopsInOrder ==
  \A i, j \in DOMAIN List : i < j =>
    /\ List[i].end # NoEnd
    /\ List[i].of = List[j].of =>
         List[i].start < List[i].end /\ List[i].end < List[j].start

(***************************************************************************)
(* What a region of interest is to the reader of a file: the lines between *)
(* a macveth pragma and an endmacveth one with no other pragma in between, *)
(* inside one function.                                                    *)
(***************************************************************************)
Regions(t) ==
  {r \in [start : DOMAIN t, end : DOMAIN t] :
     /\ r.start < r.end /\ t[r.start] \in StartKinds /\ t[r.end] = "endmacveth"
     /\ \A l \in r.start + 1 .. r.end - 1 : t[l] \notin StartKinds \cup {"endmacveth"}}

(***************************************************************************)
(* A file t leaves nothing in the list that the tool could take for part   *)
(* of a file u compiled after it: its last scop is closed, no scop's lines *)
(* are lines of a function of u, and none lies around a line of a region   *)
(* of u.                                                                   *)
(***************************************************************************)
Apart(t, u) ==
  /\ \A l \in DOMAIN t : t[l] \in StartKinds =>
       \E k \in l + 1 .. Len(t) : t[k] = "endmacveth"
  /\ \A r \in Regions(t), f \in Functions(u) : ~(f.first <= r.start /\ r.end <= f.last)
  /\ \A r \in Regions(t), s \in Regions(u) : r.end < s.start \/ s.end < r.start

AllApart(files) ==
  \A n, m \in DOMAIN files : n < m => Apart(files[n], files[m])

InRegion(n, l, r) ==
  LET t == input.files[n]
  IN  /\ r \in Regions(t) /\ r.start < l /\ l < r.end /\ t[l] \in StmtKinds
      /\ \E f \in Functions(t) :
           /\ f.first < r.start /\ r.end < f.last
           /\ input.target \in {0, FunctionNumber(t, f)}

(***************************************************************************)
(* A region of a file t is given up when it, or one before it in the same  *)
(* function, has a statement that cannot be compiled as its pragma asks.   *)
(***************************************************************************)
Hopeless(t, q) ==
  \E l \in q.start + 1 .. q.end - 1 :
    t[l] = "foreign" \/ (t[l] = "unbounded" /\ t[q.start] = "macveth full")

GivenUp(t, r) ==
  \E f \in Functions(t), q \in Regions(t) :
    /\ f.first < q.start /\ q.start <= r.start /\ r.end < f.last
    /\ Hopeless(t, q)

\* Whatever is rewritten stands in a region of its own file and of a target
\* function, and is compiled with the options of the pragma it stands below;
\* neither its region nor one before it in the function had to be given up.
RegionsOnly ==
  \A i \in DOMAIN rewritten :
    LET r    == rewritten[i]
        span == [start |-> r.scop.start, end |-> r.scop.end]
        own  == [of |-> r.file, start |-> span.start, end |-> span.end,
                 full |-> input.files[r.file][span.start] = "macveth full"]
    IN  /\ r.scop = own /\ r.options = own
        /\ InRegion(r.file, r.line, span)
        /\ ~GivenUp(input.files[r.file], span)

\* When the tool ends, every statement of every region has been rewritten,
\* but for the regions that are given up.
AllRegions ==
  pc = "done" =>
    \A n \in DOMAIN input.files : \A l \in DOMAIN input.files[n] :
      (\E r \in Regions(input.files[n]) :
         InRegion(n, l, r) /\ ~GivenUp(input.files[n], r)) =>
        \E i \in DOMAIN rewritten : rewritten[i].file = n /\ rewritten[i].line = l

\* Statements are rewritten in the order of the text, none of them twice.
InTextOrder ==
  \A i, j \in DOMAIN rewritten : i < j =>
    \/ rewritten[i].file < rewritten[j].file
    \/ /\ rewritten[i].file = rewritten[j].file
       /\ rewritten[i].line < rewritten[j].line

\* A scop that has its end is never changed, moved or dropped: neither by a
\* spurious endmacveth nor by a macveth that overwrites an unfinished scop.
ClosedScopsKept ==
  [][\A i \in DOMAIN List : List[i].end # NoEnd =>
       i \in DOMAIN List' /\ List'[i] = List[i]]_vars
===============================================================================
