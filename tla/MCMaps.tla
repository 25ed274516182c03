--------------------------------- MODULE MCMaps ---------------------------------
(***************************************************************************)
(* Maps over every pattern of neighbours and gaps of two to eight floats   *)
(* and of doubles, as operands and as results; going back and standing     *)
(* still as operands; scalars and literals; results among the operands.    *)
(***************************************************************************)
EXTENDS Maps

X(i) == Element("x", 0, i)
Y(i) == Element("y", 0, i)

Row0(b, n) == [i \in 1 .. n |-> Element(b, 0, i)]
Same(c, n) == [i \in 1 .. n |-> c]

(***************************************************************************)
(* The elements at the given steps from each other.                        *)
(***************************************************************************)
Along(b, steps) ==
  LET place[k \in 1 .. Len(steps) + 1] ==
        IF k = 1 THEN 20 ELSE place[k - 1] + steps[k - 1]
  IN  [k \in 1 .. Len(steps) + 1 |-> Element(b, 0, place[k])]

Steps(n, S) == [1 .. n - 1 -> S]

Op(fn, double, args, r) == [fn |-> fn, double |-> double, args |-> args, r |-> r]

Stores ==
  UNION {{Op("+", FALSE, <<Row0("x", n), Row0("y", n)>>, Along("z", s)) :
            s \in Steps(n, {1, 2})} : n \in 2 .. 8}
  \cup {Op("*", TRUE, <<Row0("x", 4), Same(Element("y", 0, 1), 4)>>, Along("z", s)) :
          s \in Steps(4, {1, 2})}

Loads ==
  UNION {{Op("-", FALSE, <<Along("x", s), Row0("y", n)>>, Row0("z", n)) :
            s \in Steps(n, {1, 2})} : n \in 2 .. 8}
  \cup UNION {{Op("/", d, <<Same(c, n), Along("x", s)>>, Row0("z", n)) :
                 s \in Steps(n, {-1, 0, 1, 3}), c \in {ScalarCell("c"), Y(1), LiteralCell("2")}}
                : d \in BOOLEAN, n \in {2, 4}}
  \cup UNION {{Op("sqrt", FALSE, <<Along("x", s)>>, Row0("z", n)) :
                 s \in Steps(n, {-1, 1})} : n \in {3, 5}}

\* x[i] = x[i + k] + ..: what is read is written, before or after.
Aliases ==
  {Op("+", FALSE, <<[i \in 1 .. n |-> X(i + k)], Row0("y", n)>>, Row0("x", n)) :
     n \in {2, 3, 4, 8}, k \in {-1, 0, 1, 2}}
  \cup {Op("+", FALSE, <<Row0("x", 4), Row0("x", 4)>>, Along("x", s)) : s \in Steps(4, {1, 2})}

MCBases == {"x", "y", "z", "c", "2"}
MCOperations == Stores \cup Loads \cup Aliases
===============================================================================
