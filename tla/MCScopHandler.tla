---------------------------- MODULE MCScopHandler ----------------------------
(***************************************************************************)
(* ScopHandler on all files of so many lines, alone and in pairs, and on   *)
(* files of blocks whose statements cannot all be compiled.                *)
(***************************************************************************)
EXTENDS ScopHandler, SequencesExt

CONSTANTS
  MaxLines,   \* the lines of a file compiled alone
  PairLines   \* the lines of each of two files compiled together

(***************************************************************************)
(* Of the lines of every file there is one kind of start and of statement. *)
(* Braces open and close functions by turns, and statements stand in       *)
(* functions.                                                              *)
(***************************************************************************)
PlainKinds == {"macveth", "endmacveth", "{", "}", "stmt"}

InFunction(t) ==
  LET braces == SelectSeq(t, LAMBDA kind : kind \in {"{", "}"})
  IN  braces # <<>> /\ Last(braces) = "{"

MayFollow(t) ==
  IF InFunction(t) THEN PlainKinds \ {"{"} ELSE PlainKinds \ {"}", "stmt"}

Beginnings[n \in Nat] ==
  IF n = 0 THEN {<<>>}
  ELSE {Append(p[1], p[2]) :
          p \in {q \in Beginnings[n - 1] \X PlainKinds : q[2] \in MayFollow(q[1])}}

Texts(n) == {t \in Beginnings[n] : ~InFunction(t)}

Alone == Texts(MaxLines)

Paired == Texts(PairLines)

(***************************************************************************)
(* A target function is named when there are two to choose from.           *)
(***************************************************************************)
Single ==
  {c \in {[files |-> <<t>>, target |-> n] : t \in Alone, n \in 0 .. 2} :
     c.target # 0 => Cardinality(Functions(c.files[1])) = 2}

(***************************************************************************)
(* Pairs of a file with a region and a file with a statement.              *)
(***************************************************************************)
Firsts == {t \in Paired : Regions(t) # {}}

Seconds == {t \in Paired : \E l \in DOMAIN t : t[l] = "stmt"}

MCPairs == {[files |-> <<t, u>>, target |-> 0] : t \in Firsts, u \in Seconds}

(***************************************************************************)
(* Two functions of blocks: a pragma of either kind, one or two statements *)
(* of any kind, and the end.  Two files, too, one below the other.         *)
(***************************************************************************)
Blocks == {<<start>> \o body \o <<"endmacveth">> :
             start \in StartKinds, body \in UNION {[1 .. n -> StmtKinds] : n \in 1 .. 2}}

Function(body) == <<"{">> \o body \o <<"}">>

Plain == <<"macveth", "stmt", "endmacveth">>

Blank(n) == [i \in 1 .. n |-> "endmacveth"]

Skipping ==
  {[files |-> <<Function(a \o b) \o Function(Plain)>>, target |-> n] :
     a \in Blocks, b \in Blocks, n \in {0, 1}}
  \cup {[files |-> <<Function(Plain) \o Function(a \o <<"stmt">> \o Plain)>>, target |-> n] :
     a \in Blocks, n \in {0, 2}}
  \cup {[files |-> <<Function(a), Blank(6) \o Function(b \o Plain)>>, target |-> 0] :
     a \in Blocks, b \in Blocks}

MCInputs ==
  Single \cup {p \in MCPairs : AllApart(p.files)} \cup Skipping
===============================================================================
