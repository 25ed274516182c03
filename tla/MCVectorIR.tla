------------------------------- MODULE MCVectorIR -------------------------------
(***************************************************************************)
(* The vector code of short regions, whose lists of TACs are made as in    *)
(* MCPacking: a statement or two in a loop that is unrolled, and lists of  *)
(* statements over y[0] to y[3] and w[0] to w[3] with others in between.   *)
(***************************************************************************)
EXTENDS VectorIR, MCPacking

A(c) == [name |-> "a", at |-> "i" :> c]
B(c) == [name |-> "b", at |-> "i" :> c]
W(k) == [name |-> "w" \o ToString(k), at |-> <<>>]

\* x[i] = ..: of other arrays, of what was stored before, of the accumulator.
ToArray ==
  {Sets(X(0), Bin(op, p, q)) : op \in {"+", "*"},
     p \in {A(0), A(1), X(0), X(1), G}, q \in {B(0), Const, G}}
  \cup {Sets(X(0), Three("+", "*", p, q, r)) : p \in {A(0), G}, q \in {B(0), X(0)},
          r \in {A(0), B(1), X(0), Const}}

\* G = G op ..; G = a[i] * .. + G and the other way round; x[i + d] = x[i + e] + 42.
Reducing1 ==
  {Sets(G, Bin(op, G, p)) : op \in {"+", "*", "-"}, p \in {A(0), A(1)}}
  \cup {Sets(G, Three("+", "*", A(0), q, G)) : q \in {A(0), B(0), Const}}
  \cup {Sets(G, Node("+", <<Leaf(G), Bin("*", A(0), q)>>)) : q \in {A(0), B(0), Const}}

AlongArray == {Sets(X(d), Bin("+", X(e), Const)) : d, e \in 0 .. 2}

Recurring == Reducing1 \cup AlongArray

Looped ==
  {TacList(<<s>>, Loop(n)) : s \in ToArray \cup Recurring, n \in {2, 3, 5, 8}}
  \cup {TacList(<<s, t>>, Loop(4)) : s \in ToArray, t \in Recurring}
  \cup {TacList(<<s, t>>, Loop(4)) : s \in Recurring, t \in ToArray}
  \cup {TacList(<<s, Sets(X(0), Node("sqrt", <<Leaf(A(0))>>))>>, Loop(2)) : s \in Recurring}

\* Four statements, and another one before, in between or behind.
Four(x(_), op, p(_)) == [k \in 1 .. 4 |-> Sets(x(k - 1), Bin(op, p(k - 1), Const))]
With(s, p, e) == SubSeq(s, 1, p) \o <<e>> \o SubSeq(s, p + 1, Len(s))

Fours ==
  {Four(Y, "+", W), Four(Y, "*", W), Four(Y, "+", Y),
   [k \in 1 .. 4 |-> Sets(G, Bin("+", G, Y(k - 1)))],
   [k \in 1 .. 4 |-> Sets(Y(k - 1), Bin("*", G, W(k - 1)))]}

\* Two statements that read half of what four have stored.
Twos ==
  {[k \in 1 .. 2 |-> Sets(G, Bin(op, G, Y(k)))] : op \in {"+", "*"}}
  \cup {[k \in 1 .. 2 |-> Sets(W(k), Bin(op, Y(k - e), H))] : op \in {"+", "*"}, e \in {0, 1}}

Extras ==
  {Sets(H, Bin("+", Y(1), W(0))), Sets(G, Bin("+", G, Y(1))), Sets(Y(1), Bin("*", H, Const)),
   Sets(W(1), Bin("+", H, W(1))), Sets(H, Bin("*", G, Const)), Sets(G, Bin("*", H, Const))}

Lists ==
  Fours \cup {s \o t : s \in Fours, t \in Fours \cup Twos} \cup {s \o t : s \in Twos, t \in Fours}
  \cup {With(s, p, e) : s \in Fours, p \in 0 .. 4, e \in Extras}
  \cup {With(With(s, p, e), 4, f) : s \in Fours, p \in {0, 3}, e, f \in Extras}

MCVecCodes == Looped \cup {TacList(s, <<>>) : s \in Lists}

\* For the other run: each element is computed from one before or behind it.
MCAlongCodes == {TacList(<<s>>, Loop(4)) : s \in AlongArray}

VecNames ==
  UNION {UNION {{tl[i].a, tl[i].b, tl[i].c} \ {None} : i \in DOMAIN tl} :
           tl \in MCVecCodes \cup MCAlongCodes}
VecTemps == {o \in VecNames : IsTemp(o)}

ElementIn(b, Name(_), x) == Element(b, 0, CHOOSE k \in 0 .. 3 : x = Name(k))

MCCell(x) ==
  IF IsTemp(x) THEN ScalarCell(ToString(x))
  ELSE IF x = Const THEN LiteralCell("42")
  ELSE IF \E k \in 0 .. 3 : x = Y(k) THEN ElementIn("y", Y, x)
  ELSE IF \E k \in 0 .. 3 : x = W(k) THEN ElementIn("w", W, x)
  ELSE IF x.at # <<>> THEN Element(x.name, 0, x.at["i"])
  ELSE ScalarCell(x.name)

VecIndex(x) == IF IsElement(MCCell(x)) THEN MCCell(x).i ELSE NoIndex
===============================================================================
