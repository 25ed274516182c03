------------------------------- MODULE MCPacking -------------------------------
(***************************************************************************)
(* Packing on the lists of TACs of short regions, made by modules TAC and  *)
(* StmtWrapper as in MCCDAG.                                               *)
(***************************************************************************)
EXTENDS Packing, TAC

ParsedLists(stmts) ==
  FoldLeft(LAMBDA r, s :
             LET t == StmtToTAC(s, r.reg, r.id)
             IN  [lists |-> Append(r.lists, t.tacs), reg |-> t.reg, id |-> t.id],
           [lists |-> <<>>, reg |-> 0, id |-> 0], stmts).lists

TacList(stmts, loops) ==
  FlattenSeq([n \in DOMAIN stmts |->
                FoldLeft(UnrollTacList, ParsedLists(stmts)[n], loops)])

Loop(reach) == <<[dim |-> "i", step |-> 1, reach |-> reach]>>

(***************************************************************************)
(* An accumulator, an array in a loop, and elements y[0] to y[3].          *)
(***************************************************************************)
G == [name |-> "G", at |-> <<>>]
H == [name |-> "H", at |-> <<>>]
X(c) == [name |-> "x", at |-> "i" :> c]
Y(k) == [name |-> "y" \o ToString(k), at |-> <<>>]
Const == [name |-> "42", at |-> <<>>]

Bin(op, p, q) == Node(op, <<Leaf(p), Leaf(q)>>)
Three(op, o, p, q, r) == Node(op, <<Bin(o, p, q), Leaf(r)>>)
Sets(x, e) == [lhs |-> x, op |-> "=", rhs |-> e]

\* Accumulations, with or without a product, stores that they read or overwrite.
Accumulations ==
  {Sets(G, Bin(op, G, X(c))) : op \in {"+", "*"}, c \in {0, 1}}
  \cup {Sets(G, Three("+", "*", X(0), Const, G)),
        Sets(G, Three("+", "+", X(0), Const, G)),
        Sets(X(0), Bin("+", X(0), Const)),
        Sets(X(1), Bin("+", X(0), Const))}

Others ==
  {Sets(X(0), Bin(op, G, Const)) : op \in {"+", "*"}}
  \cup {Sets(H, Bin("+", G, X(0))), Sets(G, Bin("*", Const, Const)),
        Sets(X(0), Three("*", "+", G, Const, H))}

\* Each element accumulates.
Elements(p) ==
  [k \in DOMAIN p |-> Sets(Y(p[k]), Bin("+", Y(p[k]), Const))]

\* Each element is computed from the one before it.
Chained(p) ==
  [k \in DOMAIN p |->
     Sets(Y(p[k]), Bin("+", IF k = 1 THEN G ELSE Y(p[k - 1]), Const))]

\* Orphans that count up, that count up to three, that skip and repeat an index.
ElementCodes ==
  {TacList(Chained(p), <<>>) :
     p \in {<<0, 1, 2, 3>>, <<0, 1, 3, 2>>, <<0, 1, 2, 3, 3>>, <<0, 1, 2>>}}
  \cup {TacList(Elements(p), <<>>) :
     p \in {<<0, 0, 1, 1, 2, 2, 3, 3>>, <<0, 1, 0, 1, 2, 3, 2, 3>>,
            <<1, 0, 1, 2, 3, 1>>}}

\* An expression three operations deep, which a chain reads or which is one.
Deep(op) == Node("*", <<Node(op, <<Bin("+", X(0), Const), Leaf(H)>>), Leaf(Const)>>)
DeepCodes ==
  {TacList(<<Sets(x, Node(op, <<Deep(o), Leaf(y)>>))>>, Loop(reach)) :
     x \in {G, X(1)}, op \in {"+", "*"}, o \in {"+", "*"}, y \in {G, X(0)},
     reach \in {1, 2, 4}}

(***************************************************************************)
(* Pairs once and twice round a loop, an accumulation up to eight times,   *)
(* which fills packings and leaves pieces, chunks and orphans.             *)
(***************************************************************************)
MCPackCodes ==
  {TacList(<<s, t>>, Loop(reach)) :
     s \in Accumulations \cup Others, t \in Accumulations \cup Others,
     reach \in {1, 2}}
  \cup {TacList(<<s>>, Loop(reach)) : s \in Accumulations, reach \in {3, 5, 6, 8}}
  \cup {TacList(<<Sets(G, Bin("+", G, X(0))), s, t>>, <<>>) :
          s, t \in Accumulations \cup Others}
  \cup ElementCodes \cup DeepCodes

\* A store and what follows it, as in test_1darray_1reduction_1before_1raw.c:
\* x[i] = G * 42.3; G = G + x[i];
MCLostCodes == {TacList(<<Sets(X(0), Bin("*", G, Const)), s>>, Loop(4)) :
                  s \in Accumulations}

AllCodes == MCPackCodes \cup MCLostCodes

MCNames ==
  UNION {UNION {{tl[i].a, tl[i].b, tl[i].c} \ {None} : i \in DOMAIN tl} :
           tl \in AllCodes}
MCTemps == {o \in MCNames : IsTemp(o)}

\* What the theorems about the packing suppose of the lists is so of these.
ASSUME ListsAsMade ==
  \A tl \in AllCodes : /\ WellFormed(tl) /\ UnrolledInOrder(tl)
                        /\ LocationsInOrder(tl) /\ ValuesReadOnce(tl)

\* The index of x[i] is no number, which atoi makes 0.
MCIndex(x) ==
  IF \E k \in 0 .. 3 : x = Y(k) THEN CHOOSE k \in 0 .. 3 : x = Y(k)
  ELSE IF ~IsTemp(x) /\ x.name = "x" THEN 0 ELSE NoIndex

MCOptions ==
  [min : {1, 2, 3}, window : {0, 1}, disableOrphans : BOOLEAN]

\* The options' defaults.
MCDefault == [min : {2}, window : {16}, disableOrphans : {FALSE}]
===============================================================================
