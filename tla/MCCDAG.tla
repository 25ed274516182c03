-------------------------------- MODULE MCCDAG --------------------------------
(***************************************************************************)
(* CDAG on the lists of TACs of short statements.  The lists are the ones  *)
(* modules TAC and StmtWrapper make: statements are parsed one after the   *)
(* other, each is unrolled for the loop, and the lists are spliced.        *)
(***************************************************************************)
EXTENDS CDAG, TAC

ParsedLists(stmts) ==
  FoldLeft(LAMBDA r, s :
             LET t == StmtToTAC(s, r.reg, r.id)
             IN  [lists |-> Append(r.lists, t.tacs), reg |-> t.reg, id |-> t.id],
           [lists |-> <<>>, reg |-> 0, id |-> 0], stmts).lists

TacList(stmts, loops) ==
  FlattenSeq([n \in DOMAIN stmts |->
                FoldLeft(UnrollTacList, ParsedLists(stmts)[n], loops)])

Scalar(x) == [name |-> x, at |-> <<>>]
Element(x, c) == [name |-> x, at |-> "i" :> c]

(***************************************************************************)
(* A scalar and two neighbouring elements: over the copies of a loop each  *)
(* pair of statements may read what the other writes, in the same copy or  *)
(* the next, before or after it is written, and write it twice.            *)
(***************************************************************************)
S == Scalar("S")
X(c) == Element("x", c)
One == Scalar("1")

Locations3 == {S, X(0), X(1)}

Bin(op, e, f) == Node(op, <<e, f>>)

Assigns(L, R) == [lhs : L, op : {"="}, rhs : R]

Short ==
  Assigns(Locations3,
    {Bin(op, Leaf(q), Leaf(r)) : q, r \in Locations3, op \in {"+", "*"}})

Long ==
  {[lhs |-> p, op |-> "=", rhs |-> Bin("+", Bin("*", Leaf(q), Leaf(r)), Leaf(p))] :
     p, q, r \in Locations3}

Literals == Assigns({X(0)}, {Leaf(One)})

NoLoop == <<>>
Loop(reach) == <<[dim |-> "i", step |-> 1, reach |-> reach]>>

Lists(S1, S2, loops) == {TacList(<<s, t>>, loops) : s \in S1, t \in S2}

(***************************************************************************)
(* At most eight nodes: std::sort is an insertion sort up to sixteen.  The *)
(* lists that end in a literal's assignment reach NameOfBrokenLeaf.        *)
(***************************************************************************)
MCLists ==
  Lists(Short \cup Long, Short, NoLoop)
  \cup Lists(Short \cup Long, Short, Loop(2))
  \cup {TacList(<<s>>, Loop(3)) : s \in Short \cup Long}
  \cup Lists(Short, Literals, Loop(2))

Locations ==
  UNION {UNION {{tl[i].a, tl[i].b, tl[i].c} \ {None} : i \in DOMAIN tl} :
           tl \in MCLists}
Temporaries == {o \in Locations : IsTemp(o)}

(***************************************************************************)
(* TLC evaluates what the .cfg names once, at the start.                   *)
(***************************************************************************)
MCCodes == MCLists
MCNames == Locations
MCTemps == Temporaries

(***************************************************************************)
(* The lists the graph is right for are lists the compiler makes.          *)
(***************************************************************************)
ASSUME MCCodesWellFormed ==
  \A tl \in Codes : WellFormed(tl) /\ UnrolledInOrder(tl)
===============================================================================
