---------------------------------- MODULE Maps ----------------------------------
(***************************************************************************)
(* A vector operation of type MAP whose operands are in memory, from its   *)
(* operands to the effect of its code: the operands are classified, the    *)
(* instructions chosen (module Moves) and executed one after the other on  *)
(* a memory in which every cell holds a value of its own.                  *)
(*                                                                         *)
(* The operation stands for len statements  r[i] = a[i] fn b[i].           *)
(***************************************************************************)
EXTENDS Moves

CONSTANTS
  Bases,       \* arrays, scalars and literals
  Operations   \* [fn, double, args : one or two sequences of cells, r : cells]

(***************************************************************************)
(* There are as many statements as a register has floats or doubles, or    *)
(* fewer, each with one or two operands.                                   *)
(***************************************************************************)
Cells == [b : Bases, row : Int, i : Int]

IsOperation(o) ==
  /\ o.double \in BOOLEAN
  /\ \E n \in 2 .. 2 * Narrow(o.double), a \in 1 .. 2 :
       o.args \in [1 .. a -> [1 .. n -> Cells]] /\ o.r \in [1 .. n -> Cells]

ASSUME OperationsAssumption == \A o \in Operations : IsOperation(o)

VARIABLES
  vop,   \* the operation, chosen once
  opts,  \* recipe: the table has the patterns; avx512: scatters may be used
  code,  \* its instructions
  at,    \* the next one, 0 before they are generated
  env    \* registers and memory

mapVars == <<vop, opts, code, at, env>>

Options == [recipe : BOOLEAN, avx512 : BOOLEAN]

MapInit ==
  /\ vop \in Operations
  /\ opts \in Options
  /\ code = <<>> /\ at = 0 /\ env = Untouched

Name(i) == <<"opA", "opB">>[i]

Args == [i \in DOMAIN vop.args |-> MemoryOperand(Name(i), vop.args[i], FALSE, vop.double)]
ResultOperand == MemoryOperand("res", vop.r, TRUE, vop.double)

GetSIMDfromVectorOP ==
  /\ at = 0
  /\ code' = MapOperation(vop.fn, Args, ResultOperand, opts)
  /\ at' = 1
  /\ UNCHANGED <<vop, opts, env>>

Execute ==
  /\ at \in DOMAIN code
  /\ env' = Move(env, code[at])
  /\ at' = at + 1
  /\ UNCHANGED <<vop, opts, code>>

MapNext == GetSIMDfromVectorOP \/ Execute

MapSpec == MapInit /\ [][MapNext]_mapVars

-------------------------------------------------------------------------------
(***************************************************************************)
(* No statement reads what one before it stores, which is what makes the   *)
(* operation a MAP.                                                        *)
(***************************************************************************)
Parallel ==
  \A k \in DOMAIN vop.args : \A i, j \in DOMAIN vop.r : i < j => vop.args[k][j] # vop.r[i]

Supported ==
  /\ vop.fn \notin Sequential \cup {"%"}
  /\ \A i \in DOMAIN vop.args : Loadable(Args[i])
  /\ Storable(ResultOperand, opts.avx512)
  /\ Parallel

-------------------------------------------------------------------------------
Ran == at > Len(code)

CellsOf(refs) == ToSet(refs)

(***************************************************************************)
(* Memory after the statements, one by one.                                *)
(***************************************************************************)
AsStatements ==
  Through(Len(vop.r), Empty,
          LAMBDA mem, i :
            Over(Only(vop.r[i],
                      OnLane(vop.fn, [k \in DOMAIN vop.args |-> Read(mem, vop.args[k][i])])),
                 mem))

\* A register that is written has the lanes its instruction says, and memory holds
\* a value for no cell that was not touched.
MapTypeOK ==
  /\ vop \in Operations /\ opts \in Options
  /\ at \in 0 .. Len(code) + 1
  /\ \A r \in DOMAIN env.regs : Lanes(env.regs[r]) \in {2, 4, 8}
  /\ DOMAIN env.mem \subseteq env.touched

\* Whatever the instructions that were chosen - a load, a masked or half load, a
\* gather from the least index, a broadcast, a set, a recipe - when the operation
\* is done lane i of each operand's register holds what location i held.
OperandsInTheirLanes ==
  at > 1 /\ Ran /\ Supported =>
    \A k \in DOMAIN vop.args : \A i \in DOMAIN vop.args[k] :
      LaneOf(env.regs, Name(k), i - 1) = Input(vop.args[k][i])

\* The memory the code leaves is the one the statements would have left, for every
\* pattern of contiguous and single elements the stores are pieced together for;
\* in particular every result is stored, and nothing beside one.
StoresMeanStatements ==
  at > 1 /\ Ran /\ Supported => env.mem = AsStatements

\* No code reads or writes a cell the statements do not name: the neighbours of
\* an array's end are not the scop's.
OnlyNamedCells ==
  Supported => env.touched \subseteq CellsOf(vop.r) \cup UNION {CellsOf(vop.args[k]) : k \in DOMAIN vop.args}
===============================================================================
