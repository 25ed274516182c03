# MACVETH in TLA+

MACVETH is a source-to-source compiler: it reads C with clang, takes the
statements between `#pragma macveth` and `#pragma endmacveth`, and writes the
file again with AVX2 intrinsics in their place. This directory holds TLA+
models of its core logic, the TLC runs that check them on small instances, and
theorems proved with TLAPS for all values of the constants.

Paths below are relative to `src/`, the root of the repository.

## The system

The compiler is one sequential process without I/O beyond its files. What makes
it hard is not concurrency but *state that outlives the place it was made for*
(static lists, counters and maps over scops, functions and files), *order*
(copies of statements, anti-dependences, sorts) and *boundaries* (trips that do
not divide, bounds that are not known). Non-local exits (`setjmp`/`longjmp`) are
its only failures.

| Component | State it keeps | Operations | What makes it correct |
|---|---|---|---|
| Pragma handlers, `ScopHandler` (`include/MVPragmaHandler.h`) | static `List` of scops, over all files | `addStart`, `addEnd`, `funcGetScops`, `parseArguments` | scops are disjoint, in order, closed for good; each function gets its own and only its own |
| Front end (`src/MVFrontend.cpp`) | rewriter, `RegDeclLoc`, headers flag, jump buffers | `VisitFunctionDecl`, `scanScops`, `getScopLoc`, `performUnrolling`, `EndSourceFileAction` | all regions and nothing else are rewritten, with their own options, up to the one that makes the tool skip |
| Loops, `StmtWrapper` (`src/StmtWrapper.cpp`) | `LoopInfo` per loop, TAC lists per statement | `getLoop`, `unrollAndJam`, `unrollByDim`, `unroll`, `getEpilogs`, `genStmtWraps` | the unrolled loop and its epilog run the source's iterations |
| Loop rewriting (`src/MVRewriter.cpp`) | the rewrite buffer | `rewriteLoops`, `renderTACInPlace`, `renderSIMDInst...` | header, stride and epilog agree with the copies |
| Three-address code (`src/TAC.cpp`) | static counters `RegVal`, `TacUUID`, `TacScop` | `stmtToTAC`, `unrollTacList`, `renderTacAsStmt` | a list computes what its statements compute |
| CDAG and nodes (`src/CDAG.cpp`, `include/Node.h`) | `NLOps`, schedules, static `UUID`, RAW and WAR maps | `insertTac`, `findRAWDataRace`, `findWARDataRace`, `createCDAGfromTAC` | each node stands for the value its name has at that point; no cycles |
| Placement (`src/PlcmntAlgo.cpp`) | schedule and reduction flag of nodes | `computeFreeSchedule`, `sortGraph`, `detectReductions`, `setPlcmtFromFile` | operations behind their operands; a reduction is one chain |
| Consumers (`src/CostModel/MVCostModel.cpp`) | lists of nodes being packed | `greedyOpsConsumer`, `bottomUpConsumer`, `getVectorOpFromCDAG` | every node in one vector operation, none twice, none lost |
| Vector IR (`src/Vectorization/VectorIR.cpp`) | static maps of loads, stores and registers | `VectorOP`, `VOperand`, `getVectorOpType` | lanes are independent; a register is reused only while it holds the value |
| SIMD back end (`src/Vectorization/SIMD/`) | accumulators, declared registers, initialisations | `getSIMDfromVectorOP`, reductions, peephole fusions, `clear` | one accumulator per live reduction; fusion keeps the value |
| Expressions (`src/MVExpr/`) | none | `unrollExpr`, parsing of indices | a copy names the elements of its own iteration |
| Templates, cost tables, options, CPU detection, output, utilities | flags and tables | look-ups, I/O | - |

How they interact, for one file: the preprocessor calls the pragma handlers
(callbacks) as it reads; after the parse `MVConsumer` visits the functions;
`scanScops` takes each function's scops in turn, wraps the statements
(`genStmtWraps`, which breaks them into TACs), unrolls them, hands the spliced
TAC list to the cost model (CDAG, sort, packing, vector IR, back end) and
rewrites the loops and the statements in place. Static state connects the steps:
`ScopHandler::List`, the TAC counters, the maps of `VectorIR`, the accumulators.

The hazards, each at its line, are in `PROJECT.json`.

## The modules

| Module | Models | Kind |
|---|---|---|
| `SourceLoop` | what a loop of a region means: the sequence of values its body runs with | abstract specification |
| `LoopPlan` | `getLoop`, `unrollAndJam`, `unrollByDim`, `unroll`, the choice of the epilog, as operators on a loop and a pragma | operators |
| `UnrolledLoop` | one loop, from its pragma to the run of the code that is emitted for it | state machine, implements `SourceLoop` |
| `ScopHandler` | preprocessing, visiting and scanning of all files of a command line | state machine |
| `Symbolic` | symbolic values, and what a TAC computes | operators |
| `TAC` | `stmtToTAC`, `unrollTacList`, `renderTacAsStmt` | operators (RECURSIVE) |
| `StmtWrapper` | the statements of a loop nest: parsed, unrolled loop by loop, written back or spliced | state machine, composes `TAC` |
| `StraightLine` | what a list of TACs means: run one after the other | abstract specification |
| `CDAG` | `createCDAGfromTAC`, `insertTac`, the schedules, `sortGraph` | state machine, implements `StraightLine` |
| `Lists` | what loops over vectors of nodes make of them: a pass, the elements kept, a sort; as recursive functions | operators |
| `Packing` | `detectReductions`, `bottomUpConsumer`, `searchMapNodes`, `greedyOpsConsumer` | state machine, extends `CDAG`: it goes on with the sorted nodes |
| `Lanes` | the intrinsics, on registers whose lanes are symbolic values | operators |
| `Moves` | what brings operands into registers and results to memory: loads, masks, broadcasts, gathers, sets, stores, scatters | operators |
| `Maps` | one vector operation over memory, its code chosen and run | state machine, uses `Moves` |
| `Reductions` | the code that reduces one register, or several at once | operators |
| `Peephole` | the scops of a function: emission of reductions with their accumulators, grouping, fusion, products fused with sums; and the run of the code | state machine, uses `Reductions` |
| `VectorIR` | the types of vector operations, the tables of registers and stores, the final sort, the place of each instruction; and the run of the text | state machine, extends `Packing` and `Moves`: it goes on with the groups |
| `MC...`, `...Proofs` | constants for TLC; theorems and their proofs | |

### How the models correspond to the code

**UnrolledLoop.** The compiler's three phases (`PerformUnrolling`, `Skip`,
`RewriteLoops`) are actions, followed by the actions of the *emitted* program:
header test, copy, increment, epilog. `trace` is the sequence of iterations the
body has run for; the model therefore judges the four places that compute bound,
stride, copies and epilog by what they do together. A `full` unroll of a loop
with unknown bounds abandons the function (`MVAssertSkip`), which leaves the
source loop. `LoopPlan!Supported` says in terms of the source which loops the
emitted code is right for; each of its conjuncts names a case that goes wrong
otherwise. `unroll_nounroll` shows one against what the documentation says.
Another: the epilog is dropped whenever the stride equals the upper bound
(`MVRewriter.cpp:88`), so that `for (i = 1; i < 2; i++)` with factor 2 never runs;
the comment above that line takes it for a loop that has been fully unrolled.

**ScopHandler.** A file is a sequence of lines, each a pragma, a brace, or a
statement. The list is global to all files, as the static member is. Source
locations are lines; the file offsets the code also compares say the same
because lines are taken to be equally wide. The ghost field `of` of a scop
(which file it came from) is not in the code and no action reads it. A scop
without statements makes the code call `front()` of an empty vector: the model
goes to `"undefined"` and makes no claim. `Skips` says at which statements
`MVAssertSkip` jumps: at one that calls a function without a vector version, when it
is wrapped (`MVOps.h:105`), and at a loop of unknown bounds that is to be fully
unrolled, in `performUnrolling` (`StmtWrapper.cpp:316, 349`). Both come before
anything of the scop is rewritten, so that `SkipFunction` is one step: the scops
before stay rewritten, the rest of the function is given up, and the visitor goes on
(`MVFrontend.cpp:97-100`). `RewriteStmt` is what `performUnrolling` and the rewriting
do with a statement of a scop without such a statement.

**TAC and StmtWrapper.** Operands are records of a name and the offsets of the
loop dimensions its subscripts depend on; two operands are the same location
when their records are equal, as the code compares the text of expressions. A
temporary carries the number `RegVal` gave it and the offsets of its copy, as the
code appends dimension and offset to the name. `StmtWrapper` keeps `RegVal` and
`TacUUID` as variables, parses a statement per step, unrolls a statement for one
loop per step, and ends in one of the two uses of the list.

**CDAG.** A node is a record of its operation, output name, inputs, TacID, unroll
offset, free schedule and whether it is a storing node; `val`, the symbolic value
it stands for, is a ghost for the properties. Leaves are folded into the inputs.
`insertTac`'s two ways are the actions `FoldAssignment` (an assignment renames
the node that computed its right-hand side) and `InsertNode`. `std::sort` is
modelled as libstdc++ runs it on at most 16 elements, by unguarded insertion,
because the comparison is not a strict weak order and the outcome depends on
the algorithm; with more nodes the behaviour is undefined. A leaf marked as
a storing node has no output expression, and asking for its name is
a call through a null pointer: `NameOfBrokenLeaf` ends in `"undefined"`.

**Packing.** `place` says where `getVectorOpFromCDAG` is; one step visits a node,
takes a window, adds a piece to `packing`, halves the size of the pieces, cuts a
chunk or consumes the orphans. A group is the sequence of nodes a `VectorOP` is
made of. The loops within a step are recursive functions (`Lists`), so that they can
be proved about; a sort is an insertion sort, which comes to the same since `sortGraph`'s
relation is used nowhere here and the others are total orders. A vector has
4, 8 or 16 slots of floats (`SlotsAssumption`): registers have
128, 256 or 512 bits. `Visited` is not kept: it is the nodes behind `cursor` and those of
`redux`, and the code only asks for nodes that are in both lists. The indices
`searchMapNodes` converts with `atoi` are the constant operator `Index`; the
options `--min-redux-size`, `--redux-win-size` and `--novec-orphan-redux` are
chosen once in `PackInit`. An orphan whose output is no array element leads to a
cast that returns null and is not looked at: `SearchNoElement` ends in
`"undefined"`. That is what the default options do to `x[i] = a + b + c`, whose
temporary is an orphan. `consumeNodes` puts back only the operations a node reads
itself (`MVCostModel.cpp:301-312`): of `x = (a + b) * c + x`, unrolled, the product
is packed in front of the chain, but the sum with the rest, behind the product that
reads it. `TemporariesFirst` therefore speaks of lists whose chains read no deeper
(`ChainsReadShallow`); no test of the repository has such an expression.

**Lanes, Moves and Maps.** A lane is a symbolic value: a location's content, or
an operation over such values; sums and products are bags of terms, as the
source's order of adding up is not kept by vector code. `Junk` is the content of
a lane nothing defined. A location is a base, a row of subscripts (or the mark of
a scalar or a literal) and the last subscript. `MemoryOperand` is a `VOperand`
none of which is in a register; `GetSIMDVOperand` chooses as the code does between `Vload`,
`Vpack` (a recipe or `Vgather`), `Vbcast` and `Vset`; `StoreResult` between
`Vstore` and the scatters, which are pieced together of ranges, halves and single
elements. An instruction says which location each of its lanes is loaded from
or stored to; an intrinsic that does not exist is `"invalid"`. `Maps` takes one
operation through `GetSIMDfromVectorOP` and `Execute`, over every pattern. `Supported` says which
operations there is valid code for: operands that are `Loadable`, a result that is `Storable`, an operator
that is an intrinsic's, and statements none of which reads what one before it stores (`Parallel`). Memory and
registers are functions, written to by `Over` and `Only`.

**Reductions and Peephole.** `Emit` and `Vreduce` produce the instruction list of a
scop, with a `VREDUC` in the place of each reduction; `accm`, `accmOf` and `reduxOf`
are `AccmToReg`, `MapReduxVarToAccm` and `MapReduxVOp`, which live as long as the
function. `EndOfEmission`, `GroupReductions`, `FuseReductions` and
`FuseAddSubMult` are the passes of `peepholeOptimizations` in their order, and `Run`
executes what is left on the lanes of `env`. `ReductionsMeanSource` and `UsesSeeSource`
compare with the scop's statements one by one; `PassesKeepMeaning` compares the
code before and after the two passes that expand and contract it.

**VectorIR.** `BuildVectorOP` makes a `VectorOP` of the next group: `GetVectorOpType`,
then the operands in the order the code constructs them, each reading and
changing `tables` (the static maps of class `VectorIR`). `SortAndRender` is the
sort by `Order`, the code of every operation and the place in the text of each
instruction, found as `MVRewriter` finds it from the instruction's Order and Offset; instructions at the same
place keep their order. `Run` executes the text over registers and memory, and a
statement that is left in it by its copies. A `REDUCE` is executed as one
instruction that accumulates its lanes; how its code does that is `Peephole`'s
matter. `greedyOpsConsumer` reads a second input of a node that has one
(a function of one argument): `ReadSecondInput` ends in `"undefined"`.

The three `Supported` conditions (`Maps!Supported`, `Peephole!Supported`,
`VectorIR!SupportedScop`) are conjunctions whose parts each name a case in
which the emitted code is wrong. They are a list of what the models found:

- *Operands*: locations of different arrays, rows or scalars count as contiguous
  unless shown otherwise (`VectorIR.cpp:195-199, 410-422`) and are loaded from the first one on;
  different literals are set in reverse; an operand in wrong lanes of a register,
  or partly literal, gets no instruction (`SIMDBackEnd.cpp:158`); two and three contiguous doubles,
  and halves of doubles in scatters, have no valid form; AVX-512 scatters of
  halves lose them.
- *Operations*: a `MAP` may have a dependence two lanes apart (the run
  `maps_independent`); a `REDUCE` takes the second inputs for operands, whichever
  is the accumulator (`VectorIR.cpp:559`); several statements left in one group
  are rendered as one copy; the operations of a group are moved to the last of its
  statements, past others that depend on them.
- *Reductions*: two registers of four lanes fused leave their result in one
  register and are read from another (`AVX2BackEnd.cpp:603`); a difference is
  reduced with a difference; runs of equal length are always added; a cast to the old register's
  width leaves half of it undefined (2040); a variable reduced again in a later
  scop starts from the old accumulator (`SIMDBackEnd.h:361`); `std::max` is written
  `std::std::max` from the second result of a fusion on (824, 535).
- *Products that are fused*: `c - a * b` becomes `a * b - c`; a product that was
  fused is dropped whatever else reads it (`AVX2BackEnd.cpp:223`), another sum, a product, a
  reduction, a store behind the sum or a scatter. A contiguous store before the sum
  prevents the fusion (162); a scatter does not, being a `VSCATTER` (1705) or a row of
  `VOPT` (1742). One that was found as second operand stays among the
  candidates until the next sum (198-204, 211) and may be fused with that one, too.

## The runs

| Run | Question | Bounds |
|---|---|---|
| `unroll_single` | Does the emitted code run the source's iterations, in order, all, once, leave the variable right and end? (`IterationsInOrder`, `NothingLost`, `ExitValue`, `ImplementsSourceLoop`, `Terminates`) | starts 0-2, bounds 0-9, steps 1-3, factors 1-4, full, `<=`, unknown bounds; `unroll` and `unrollandjam` |
| `unroll_nounroll` | README: `nounroll` is "the same behavior as unrolling with factor 1" - **violated** | plain loops of 4 iterations or more |
| `scops` | Is what is rewritten what stands in the regions, in order, with its own options? (`ScopsInOrder`, `RegionsOnly`, `AllRegions`, `InTextOrder`, `ClosedScopsKept`) | every file of 9 lines, pairs of files of 5 lines that leave each other's lines alone; two functions, also in two files, of up to three regions of one or two statements, any of which may make the tool skip |
| `tacs` | Do breaking, copying and splicing keep what the statements compute? (`TacsConnected`, `TacsMeanCopies`, `TacsMeanNest`, `RenderedIsSource`) | one statement of five shapes under none, one or two loops; two statements under a loop of three |
| `tacs_distribution` | Does the list compute what the nest computes? - **violated**: statement by statement, whatever the dependences | two statements under a loop of three |
| `cdag` | Does the graph stand for the values of the code, without cycles, sorted behind its inputs? (`GraphMeansCode`, `DeeperThanInputs`, `InputsFirst`) | two statements, once or unrolled by two; one statement unrolled by three |
| `packing` | Is every node packed, once, behind its temporaries, in the order of its accumulation, and does the packing end? (`StoredOnce`, `TemporariesFirst`, `AccumulateInOrder`, `LostOnlyIfReduced`, `StepsLeaveLess`) | pairs and triples of short statements, an accumulation up to eight times, eight elements; four slots for floats and two for the operands; minimum 1-3, a window of one list or all |
| `packing_lost` | Comment: "get reductions first, then deal with the rest" - **violated** by `x[i] = G * 42.3; G = G + x[i];`, the text of a test of the repository | a store and a statement, unrolled by four, default options |
| `maps` | Does each location come to its lane and each result to its location, and nothing else? (`OperandsInTheirLanes`, `StoresMeanStatements`, `OnlyNamedCells`) | two to eight floats, two and four doubles; every pattern of steps 1 and 2 as loads and as stores, of -1, 0, 1 and 3 for up to four operands; with and without recipe and AVX-512 |
| `peephole` | Do variables, stores and uses get the source's values through emission, grouping and fusion? (`ReductionsMeanSource`, `UsesSeeSource`, `ReadsDefined`, `PassesKeepMeaning`) | up to four reductions spread over variables in every way, seven ways to share a register, products stored, added and subtracted, a product with up to four readers in any order, two scops; fusion and contraction on and off |
| `vector` | From TACs to memory: does the vector code compute what the statements do, and is each register written before it is used? (`VectorCodeMeansSource`, `DefinedBeforeUsed`) | one and two statements in a loop unrolled by 2 to 8; lists of four to eight statements with others before, between and behind: 2587 lists, 906 of which are supported throughout |
| `maps_independent` | Comment: a MAP has "no dependencies between operations" - **violated** by `x[i+2] = x[i] + 42` | `x[i+d] = x[i+e] + 42`, unrolled by four |

Why the bounds are enough. *Loops*: a bound of nine covers zero, one and two
whole trips of the fallback factor 4 and each remainder; steps that divide,
equal and do neither with respect to bound and stride. *Scops*: nine lines hold
two functions with a region each, two regions in one function, and any
misplaced pragma between them; the state that survives a scop is only the last
element of the list; a skip meets regions above, at and below it, in its own function
and in another. *TACs*: expressions nested on the left, on the right and on
both sides, functions, `+=` and `-=`; two loops give the offsets two dimensions;
operands over a scalar and neighbouring elements give every dependence between
two statements, within a copy and across copies. *CDAG*: at most eight nodes,
which is below the sixteen where the sort's outcome stops being defined, with
every overlap of read and written names over two statements; reads before and
after writes, double writes, and anti-dependences that raise a schedule all
occur. *Packing*: four and two slots keep the
ratio of eight floats to four doubles; eight accumulations fill two packings,
six leave a piece, a chunk or an orphan; every action fires, and every
combination of the options is tried; expressions three operations deep show
where `TemporariesFirst` ends to hold. *Maps*: eight is the widest register; the
code asks only whether neighbours are adjacent, so that two distances are all
there is to tell apart, and every sequence of them is tried. *Peephole*: four
reductions fill a fusion of registers of eight lanes and make one and a half of
registers of four; the state that survives a scop is shown by a second one. The
product of `ReadProducts` is read by up to four of two sums, a product, a store and a scatter,
with an unrelated sum between: 382 of these 1032 programs are `Supported`, and each
of the others goes wrong when it is run.
*VectorIR*: eight copies fill a register, five leave a rest, two and three a part of
one; in the lists an operation finds its operands in memory, in a register, in
part of one, and in lanes left by two others.

What the runs leave out on purpose. The files of `scops` come in pairs only when
they are `AllApart`: `ScopHandler::List` is never emptied, and a
scop of one file is otherwise applied to statements of the next. The lists
of `cdag` have no plain copy of a location the scop has computed (for
`S = a + b; x[i] = S;` the second assignment renames the node of `S`, which is then never stored,
`CDAG.cpp:82`) and no literal assigned behind a computation (which calls a method
through a null pointer, `Node.h:208`).

The two refinements (`ImplementsSourceLoop`, `GraphMeansCode`) state the abstract
specification as a property. For the CDAG the abstract environment is read off
the graph: the last node with a location's name gives its value. A temporary is
dead after its assignment in `StraightLine`, since folding takes its name away.

`TacsMeanNest` is conditional on `DependsBackwards`, which is defined from the
source alone: some statement of the nest reads or writes in a later iteration
what a *later* statement touched in an earlier one. Many pairs of the run do not
depend backwards and have forward dependences, so the condition leaves the
interesting half in.

### Fairness

Only `UnrolledLoop` has a liveness property. `FairSpec` takes weak fairness of
the compiler's and the emitted program's steps together: both are sequential
programs, which go on as long as a step is possible. `Terminates` is
about the emitted code: a stride of zero would loop for ever. Everything else is
checked without fairness. That the packing ends is stated as an action property
instead, `StepsLeaveLess`: each step lowers a tuple of natural numbers
(`PackingEnds` proves it for all lists).

## What is proved

The proofs hold for every value of the constants; each module says what it
assumes.

**`UnrolledLoopProofs`** - for every set of `Supported` loops, of any bounds,
steps and factors: `TypeCorrect`, `RunsInOrder`, `RunsAll`, `LeavesSameValue`
and the refinement `EmittedLoopImplementsSource`. The argument has two halves.
Lemmas about `LoopPlan` show that the plan of a supported loop satisfies
`PlanOK`: the copies are exactly the stride, numbered from zero only when that is
where the loop starts, and an epilog is left out only when nothing is left for
it. The inductive invariant then says, per place in the emitted code, how `dim`,
`k` and the length of the trace are related. `IterationsInOrder` alone is not
inductive: it says nothing of where the *next* iteration will be. Assumption:
all loops are `Supported` (`AllSupported`), by which the loops of `unroll_single`
are chosen; `unroll_nounroll` shows one of its conjuncts to be needed.

**`ScopHandlerProofs`** - for any command lines, any number of files of any length:
`TypeCorrect`, `ListInOrder`, `ClosedScopsStay`; and for command lines whose files
leave each other's lines alone (`SeparateFiles`), `OnlyRegionsRewritten`: nothing outside of the
regions is rewritten, and nothing in a region that is given up (`GivenUp`: it or
one above it in the function has a statement that cannot be compiled as the pragma asks). The
invariant adds to the type that the scops of the file being read end above the line
being read; for the regions also that every closed scop is a region of the file it
comes from, that there is no pragma between an open scop's start and the line, and
that a function scans scops of its own file only. About skips it says that the scops
of the function that have been scanned, and the one being rewritten, have no
statement to skip at (`SkipInv`); `SkipsAsAsked` shows that what the tool skips at in a scop
is what the pragma of that region makes it skip at. `SeparateFiles` is needed, since the
list outlives the file. It says of an earlier and a later file (`Apart`) that the
earlier one's last scop is closed, that no scop of it lies within the lines of a function
of the later one, and that their scops do not overlap. Each part excludes a case that goes
wrong; the last one because `getScopLoc` takes the options of the *first* scop of
the list around a line, also of one that belongs to no function of this file.
One file alone always satisfies it.

There too, `EveryRegionRewritten`, with `SeparateFiles`: when the tool is done, every
statement of every region within a target function has been rewritten, but for the
regions that are given up. `SeparateFiles` is needed here because a scop of an
earlier file, scanned with a function of this one, could make the tool skip. The
invariant (`CompleteInv`) says that every region read so far is in the list,
and then what is done, place by place: the files before this one, the functions visited, the
scops of this function that are no longer to be scanned, the statements of the scop
that are no longer to be rewritten; `FunctionSkipped` shows that a function left at a
skip is done. `RewrittenInOrder`, with `SeparateFiles`: the statements are
rewritten in the order of the text, which is what makes the numbers of registers and TACs
count up. Its invariant says that what has been rewritten lies above what is left.

**`CDAGProofs`** - `GraphImplementsCode`: for every set of well-formed TAC lists,
of any length and any names, each insertion changes the values the graph stands
for as executing the TAC would. `AllWellFormed` says that a temporary gets one
value and that an assignment takes the temporary computed just before it, or a
location the scop has not computed; it is what `TacsConnected` checks of the
lists that are made, and TLC evaluates it for the lists of `cdag`. The invariant
is `Types /\ OutsAssigned /\ TempsUnique /\ LastComputed`. The last is the
one that matters: when the next TAC assigns a temporary, the node of that
temporary is the *last* node of the graph. Without it renaming a node could
uncover an older node, or hide a newer one, with the same name.
`GraphAcyclic` needs no assumption on the lists: however nodes are renamed, an
input is a leaf or a node created earlier (`Acyclic`, the first half of
`DeeperThanInputs`), so that `computeMaxDepth`, which recurs through the inputs
without marking what it has visited, returns. Its invariant is `InputsInv`.

**`CDAGProofs` (second part) and `CDAGScheduleProofs`** - what the graph's recursive functions
compute, and the rest of what `cdag` checks: `GraphTypes`, `NodesDeeperThanInputs`
and `InputsSortedFirst`. `DepthsExist` shows that the recursion of
`computeMaxDepth` has a solution, `DepthsEquation` that `Depths` is one, and
`TopSortSorts` what the insertion sort returns. That a node never gets before its inputs
is not obvious, since `Node::operator<` is no order: it compares copies of a TAC by
their offset and all other nodes by their depth, and need not be transitive.
Two facts save the sort. Nodes with the same TacID are created with their offsets in
order (`UnrolledInOrder`, which the unrolling sees to), so that a later node precedes an
earlier one only by being less deep. And the first node has depth one, so that nothing
is ever put in front of it: the insertion stops at the first element it does not
precede, and would otherwise jump to the front of the list past nodes it has not been compared
with. The invariant `SchedInv` has the types, the offsets, that a node's schedule is at
least one and the first node's exactly one, through anti-dependences that raise schedules
(`WARScheduleType`). Assumptions: `AllWellFormed` and `AllUnrolledInOrder`; TLC
evaluates both for the lists of `cdag`. The theorem is about insertion sort, which is
what `std::sort` does with up to 16 nodes; with more its outcome is not defined.

**`ListProofs`** - induction as a fact about sets, and what the operators of `Lists`
return. The library's induction theorems take an operator, which the provers at hand
cannot instantiate; that a non-empty set of naturals has a least element needs none, and
`InductionUpTo` follows from it. The proofs about recursive *functions* rest on it:
a recursion has one solution, `Kept` keeps what it is to keep in its order,
`SortedBy` returns a permutation.

**`PackingProofs`** - for all lists of TACs, options, types of operands and the three
widths of registers: `PackingTypes`, `StoresPackedOnce`, `NothingElseLost` and
`PackingEnds`. The proof follows the nodes. First the operators: the groups
`greedyOpsConsumer` makes are the list it was given, cut up, each with one operation; a
chain goes on to older nodes that are in no chain yet, so that no node is in two of them or
in one twice; the mappings of
`searchMapNodes` share no orphan; roots and inner nodes are all of the list, once.
Then an account of the nodes in chains. Within a window each of them is packed, at hand
(in `packing` or `orphans`), in one of the window's lists from `key` on, or in
the lists to come (`Accounted`), and no store is in two of these places. A step moves nodes
from one place to the next. `StoredOnce` alone is not inductive, as it says nothing of what
is still in the lists; nor of detection, where `Visited` has
that nodes behind the cursor are in a chain, flagged or among the others, each once because
the sort returns a permutation.
The one place where a node could get lost is a packing that outgrows the vector: it would
never be equal to `MaxVectorLength` and would not be consumed until the end. `Fitting`
excludes it: the size of the pieces divides the width, which is a power of two, and what is
in the packing is a multiple of the size. `NothingElseLost` follows from `Divided`: what is flagged
but in no chain is read by a chain, and is packed with its reader unless it stores.
Assumptions: `AllWellFormed` and `AllUnrolledInOrder`, which TLC evaluates for the lists of
`packing` and `packing_lost` (`ListsAsMade`); and at least one node per packing
(`OptionsAssumption`), since a size of zero is halved for ever.

**`PackingOrderProofs`** - the two properties about order, `AccumulatesInOrder` and
`TemporariesPackedFirst`. Both rest on facts of `ListProofs` about pairs a sequence avoids:
what is cut, kept, sorted, turned around or put together avoids the pairs its parts do.
For `AccumulateInOrder` the pairs are those of a later and an earlier store of one location.
The invariant (`AccumulateInv`) has that what is packed, what is at hand and each list to come
avoid them (`OrderKept`), and that nodes of one name are numbered as their TacIDs are
(`NamesInOrder`), without which the sort of a chunk by operator< could turn them around.
For `TemporariesFirst` the invariant (`TemporariesInv`) follows the others: gathered with
readers first, since the sorted nodes are visited from the last to the first; put with readers last
by `RootsBehindInner` (`RestBehind`), at the end of the detection. What a chain reads is packed
with the chain, and `PackedAs` has it in front of its readers. `RootsBehindInner` does this for nodes
with one reader each only, so that `OneReader` belongs to the invariant: a node that stores
nothing holds a temporary, and a temporary is an operand once.

Both theorems take one more assumption on the lists of TACs, which TLC evaluates for the lists of `packing`
and `packing_lost` too, and each is needed. `AllLocationsInOrder`: the TACs of a location are in the order of
TacID and offset. Where two loops are unrolled they are not, as `unrollTacList` overwrites the offset of
the inner copy: of `y[i] = z * z * z` in the outer loop and `x[j] = (y[i] + c) + h` in the inner one
a chunk gets the stores to one location in the wrong order. `AllValuesReadOnce`: a location is
only assigned what an operation has computed, and no temporary is an operand twice.
Of `xs = G + H; xs = z; ys = xs * (xs + c)` the copy's node is no store and is read twice, and
`RootsBehindInner` puts `xs + c` before it.

**`MapsProofs`** - for every set of operations: `MapTypes`, `OperandsInLanes`, `StoresMean` and
`NamedCells`, all that the run `maps` checks. The run takes one row of each array and two to four
distances between elements; the theorems take any cells. They have two halves.

*The code.* `CodeIs` says what `mapOperation` generates for a `Supported` operation: one load per
operand, each bringing cell `i` to lane `i` and no other (`LoadsLanes`); the operation; then
extracts of halves and stores, each store from a lane to the cell of that lane (`StoresPart`), no
half stored before it was extracted, and every cell of the result stored by one of them.
`CodeOfSupported` proves it. `OperandLoads` goes through the loads; what it rests on is that
indices which count up are those of a row (`RowIs`), and that a gather's distances from the least index
lead to the same cells as those from the first (`GatherIs`). `ResultStored` goes through
the stores: whole registers, `FourPut` for four lanes, `LowCode`, `HighCode` and `WideCode` for
the halves of eight, where the part of an operand at an offset is shown to name
the cells behind that offset (`PartShows`), and the halves that the ranges make out to be theirs
(`HalvesMean`).

*Its run.* The inductive invariant is `MapTypeInv /\ MapDataInv`. `MapTypeInv` has that `code` is what
the operation generates and that every register is as wide as an instruction; `MapDataInv`, for a supported operation, is
`EnvHolds`: the operands loaded so far are in their lanes, the result's lanes hold what the statements
compute from the memory *before* them (`ResultHolds`), so do the halves extracted, and memory has exactly
the cells stored so far, with those values. The two properties about the end are not inductive,
being silent about what happens before it. That values computed from the memory before are those of
the statements one by one is `StatementsAre`, by induction over the statements: there `Parallel` is needed,
and that the result's cells are different. Assumption: `OperationsAssumption`, by which an operation
has one or two operands and as many statements as fit a register; the constructor of `VectorOP` makes no
other, and TLC evaluates it for the operations of `maps`.

Only model-checked: `Terminates` (liveness is beyond the prover); everything about `TAC` and
`StmtWrapper`, whose operators are RECURSIVE; all of `Peephole` and `VectorIR`, whose
lists are made by `SelectSeq` and folds, which the prover cannot expand, and whose values are
bags built up by them. `VectorIR` uses `Moves`, but the theorems about `Maps` say nothing of
operands that are in registers.

## What is not modelled, and why

The text that is written: formatting, names and declarations of registers,
headers, the patterns of intrinsic names; so is what `scanScops` keeps of declarations and headers from scop to
scop (its hazards are listed without a property). The cost figures, which decide
nothing, and the contents of the random packing tables, which are data; that a
pattern has a recipe is an input of `Moves`. CPU detection and the parsing of
options (pure input), debugging output, included files, and a placement read from
a file. `vregisterpacking`, `computeVectorOPCost`, `setAlreadyStored` and
`getInitValues` are in the code and never called. Functions of one argument are in the
expressions of `vector` only, to be undefined there; `*=` and
`/=`, and the loop variable used as an operand are outside of the expressions of
`TAC`. Headers and epilogs of nests under unroll-and-jam are not modelled:
`UnrolledLoop` has one loop, and `StmtWrapper` the copies of a nest's statements.

## Plan

1. `SourceLoop`, `LoopPlan`, `UnrolledLoop` and proofs. *Done.*
2. `ScopHandler` and proofs. *Done.*
3. `Symbolic`, `TAC`, `StmtWrapper`. *Done.*
4. `StraightLine`, `CDAG` and the refinement proof. *Done.*
5. `Packing`. *Done*, with the proofs of all its properties.
6. `Lanes`, `Moves`, `Maps`, `Reductions`, `Peephole`, `VectorIR`. *Done*, with the proofs of all
   properties of `Maps`. To prove: the invariant of the tables (`VecTypeOK`) under the constructor of an operand.
7. `Frontend`: what is accumulated for declarations and headers over the scops of a
   function, with the skip, over functions and files; composed with `ScopHandler`. Property: a register is declared before
   use, once.
8. `UnrolledNest`: nests under unroll-and-jam and unroll, with the epilogs of the
   inner loops. Abstract specification: a nest as the sequence of its index
   vectors.
9. Proofs of the types and the order of `CDAG`, of completeness and order of
   `ScopHandler`, of `Packing`, of `Maps`. *Done.*
