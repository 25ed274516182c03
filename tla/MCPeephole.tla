------------------------------- MODULE MCPeephole -------------------------------
(***************************************************************************)
(* Functions of one or two scops over four registers of input and a few of *)
(* products.  Every way to spread up to four reductions over               *)
(* variables; the runs of lanes the consumers pack; accumulated products;  *)
(* sums and differences of products; uses, stores and scatters in between. *)
(* Those that Supported excludes are left out.                             *)
(***************************************************************************)
EXTENDS Peephole

Item0 == [kind |-> "", op |-> "", to |-> "", a |-> "", b |-> "", size |-> 0, uop |-> <<>>]

O(op, to, a, b, n) ==
  [Item0 EXCEPT !.kind = "op", !.op = op, !.to = to, !.a = a, !.b = b, !.size = n]
R(op, r, n, uop) ==
  [Item0 EXCEPT !.kind = "redux", !.op = op, !.a = r, !.size = n, !.uop = uop]
S(r, n) == [Item0 EXCEPT !.kind = "store", !.a = r, !.size = n]
SC(r, n) == [Item0 EXCEPT !.kind = "scatter", !.a = r, !.size = n]
U(v) == [Item0 EXCEPT !.kind = "use", !.a = v]

All(v, n) == [i \in 1 .. n |-> v]

VarNames == <<"s", "t", "u", "v">>
RegNames == <<"r1", "r2", "r3", "r4">>

F(fuse, fma, n, scops) ==
  [fuse |-> fuse, fma |-> fma, double |-> FALSE, regs |-> [r \in ToSet(RegNames) |-> n], scops |-> scops]

(***************************************************************************)
(* Up to four reductions of whole registers: the k-th into the variable    *)
(* f[k], new variables in the order of their names.                        *)
(***************************************************************************)
Spreads ==
  {f \in UNION {[1 .. k -> 1 .. 4] : k \in 1 .. 4} :
     \A i \in DOMAIN f : f[i] = 1 \/ \E j \in 1 .. i - 1 : f[j] \in {f[i], f[i] - 1}}

Several(op, n, f) == [k \in DOMAIN f |-> R(op, RegNames[k], n, All(VarNames[f[k]], n))]

Whole ==
  {F(fuse, FALSE, n, <<Several(op, n, f)>>) :
     fuse \in BOOLEAN, n \in {4, 8}, op \in {"+", "*"}, f \in Spreads}

(***************************************************************************)
(* Pieces of several variables in one register.                            *)
(***************************************************************************)
Pieces ==
  {<<"s", "s">>, <<"s", "s", "t", "t">>, <<"s", "s", "t", "t", "u", "u">>,
   <<"s", "s", "s", "s", "t", "t">>, <<"s", "s", "s", "s", "t", "t", "t", "t">>,
   <<"s", "s", "s", "s", "t", "t", "u", "u">>,
   <<"s", "s", "t", "t", "u", "u", "v", "v">>}

SizeOf(uop) == IF Len(uop) <= 4 THEN 4 ELSE 8

InPieces ==
  {F(TRUE, FALSE, SizeOf(x), <<<<R(op, "r1", SizeOf(x), x)>>>>) : op \in {"+", "*"}, x \in Pieces}
  \cup {F(TRUE, FALSE, SizeOf(x),
          <<<<R("+", "r1", SizeOf(x), x), R("+", "r2", SizeOf(x), All("s", SizeOf(x))),
              R("+", "r3", SizeOf(x), x), U("t")>>>>) : x \in Pieces}

(***************************************************************************)
(* Products: accumulated; added or subtracted, stored before or after.     *)
(***************************************************************************)
Products ==
  {F(TRUE, fma, 8,
     <<<<O("*", "m", "r1", "r2", 8), R("+", "m", 8, All("s", 8)),
         O("*", "n", "r3", "r4", 8), R("+", "n", 8, All(v, 8)), U(v)>>>>)
     : fma \in BOOLEAN, v \in {"s", "t"}}
  \cup {F(TRUE, TRUE, 4,
          <<<<O("*", "m", "r1", "r2", 4)>>
            \o early \o <<O(op, "d", x[1], x[2], 4), S("d", 4), O("*", "n", "r1", "d", 4),
                          O(op, "e", "n", y, 4), S("e", 4)>>>>)
          : op \in {"+", "-"}, x \in {<<"m", "r3">>, <<"r3", "m">>, <<"m", "m">>},
            y \in {"r4", "r3"}, early \in {<<>>, <<S("m", 4)>>}}
  \cup {F(TRUE, TRUE, 4,
          <<<<O("*", "m", "r1", "r2", 4), O("*", "n", "r3", "r4", 4),
              O(op, "d", "m", "n", 4), S("d", 4)>>>>) : op \in {"+", "-"}}

(***************************************************************************)
(* A product and up to four readers of it in any order: sums, of which it  *)
(* is the first or the second operand, another product, its store, its     *)
(* scatter; and a sum that has nothing to do with it.  What a reader sets  *)
(* is stored behind it.                                                    *)
(***************************************************************************)
Readers(n) ==
  [sum |-> <<O("+", "d", "m", "r3", n), S("d", n)>>,
   second |-> <<O("+", "e", "r4", "m", n), SC("e", n)>>,
   product |-> <<O("*", "p", "m", "r3", n), S("p", n)>>,
   store |-> <<S("m", n)>>,
   scatter |-> <<SC("m", n)>>,
   unrelated |-> <<O("+", "u", "r3", "r4", n), S("u", n)>>]

Orders == UNION {{f \in [1 .. k -> DOMAIN Readers(4)] : IsInjective(f)} : k \in 1 .. 4}

ReadProducts ==
  {F(TRUE, TRUE, n, <<<<O("*", "m", "r1", "r2", n)>>
                      \o FlattenSeq([k \in DOMAIN f |-> Readers(n)[f[k]]])>>) :
     n \in {4, 8}, f \in Orders}

(***************************************************************************)
(* Uses between reductions, and two scops.                                 *)
(***************************************************************************)
Sequences ==
  {F(fuse, FALSE, 8,
     <<<<R("+", "r1", 8, All("s", 8))>> \o mid \o <<R("+", "r2", 8, All(v, 8)), U("s"), U("t")>>>>)
     : fuse \in BOOLEAN, v \in {"s", "t"}, mid \in {<<>>, <<U("s")>>, <<U("t")>>}}
  \cup {F(TRUE, FALSE, 8,
          <<<<R("+", "r1", 8, All("s", 8)), R("+", "r2", 8, All("s", 8))>>,
            <<U("s"), R("+", "r3", 8, All(v, 8)), R("+", "r4", 8, All("u", 8)), U(v)>>>>)
          : v \in {"s", "t"}}

(***************************************************************************)
(* Maxima, the function with and without a prefix.                         *)
(***************************************************************************)
Maxima == {F(fuse, FALSE, 8, <<Several(op, 8, f)>>) :
             fuse \in BOOLEAN, op \in {"max", "std::max"}, f \in Spreads}

AllPrograms ==
  Whole \cup InPieces \cup Products \cup ReadProducts \cup Sequences \cup Maxima

(***************************************************************************)
(* What is right of doubles: products and maxima, of an even number of     *)
(* variables.                                                              *)
(***************************************************************************)
FusedDoubles ==
  {[F(TRUE, FALSE, 4, <<Several(op, 4, f)>>) EXCEPT !.double = TRUE] :
     op \in {"*", "max"}, f \in {g \in Spreads : Cardinality(ToSet(g)) % 2 = 0}}

SupportedPrograms == {p \in AllPrograms : Supported(p)} \cup FusedDoubles
===============================================================================
