------------------------------- MODULE ListProofs -------------------------------
(***************************************************************************)
(* Induction as a fact about sets, and what the operators of module Lists  *)
(* return.                                                                 *)
(*                                                                         *)
(* The induction theorems of the library take an operator as a parameter,  *)
(* which the provers at hand cannot instantiate; that every non-empty set  *)
(* of naturals has a least element is a statement they can use, and comes  *)
(* to the same.  Nor can a lemma about Through take its step as an operator*)
(* (a function will do, see Recursion), so that each use of it has a lemma *)
(* of its own, that its recursion has a solution.                          *)
(***************************************************************************)
EXTENDS Lists, SequenceTheorems, WellFoundedInduction, TLAPS

\* A non-empty set of naturals has a least element.
LEMMA LeastElement ==
  ASSUME NEW S, S \subseteq Nat, S # {}
  PROVE  \E x \in S : \A y \in S : x <= y
<1> DEFINE R == OpToRel(<, Nat)
<1>1. IsWellFoundedOn(R, Nat)
  BY NatLessThanWellFounded
<1>2. \A x, y \in Nat : y < x => <<y, x>> \in R
  BY DEF OpToRel
<1> HIDE DEF R
<1>3. PICK x \in S : \A y \in S : ~(<<y, x>> \in R)
  BY <1>1, WFMin
<1>4. ASSUME NEW y \in S
      PROVE  x <= y
  <2>1. x \in Nat /\ y \in Nat
    OBVIOUS
  <2>2. ~(y < x)
    BY <1>2, <1>3, <2>1
  <2>3. QED
    BY <2>1, <2>2
<1>5. QED
  BY <1>4

\* A non-empty set of integers with an upper bound has a greatest element.
LEMMA GreatestElement ==
  ASSUME NEW S, S \subseteq Int, S # {}, NEW b \in Int, \A y \in S : y <= b
  PROVE  \E x \in S : \A y \in S : y <= x
<1> DEFINE D == {b - y : y \in S}
<1>1. D \subseteq Nat /\ D # {}
  <2>1. \A y \in S : b - y \in Nat
    OBVIOUS
  <2>2. QED
    BY <2>1
<1>2. PICK d \in D : \A e \in D : d <= e
  <2> HIDE DEF D
  <2>1. QED
    BY <1>1, LeastElement
<1>3. PICK x \in S : d = b - x
  OBVIOUS
<1>4. ASSUME NEW y \in S
      PROVE  y <= x
  <2>1. d <= b - y
    BY <1>2
  <2>2. QED
    BY <1>3, <2>1
<1>5. QED
  BY <1>4

\* A set with zero, and with n + 1 whenever it has n < b, has all naturals up
\* to b.
LEMMA InductionUpTo ==
  ASSUME NEW b \in Nat, NEW S, 0 \in S,
         \A n \in Nat : n < b /\ n \in S => n + 1 \in S
  PROVE  0 .. b \subseteq S
<1> DEFINE T == 0 .. b \ S
<1>1. SUFFICES ASSUME T # {}
               PROVE  FALSE
  OBVIOUS
<1>2. PICK x \in T : \A y \in T : x <= y
  <2>1. T \subseteq Nat
    OBVIOUS
  <2> HIDE DEF T
  <2>2. QED
    BY <1>1, <2>1, LeastElement
<1>3. x \in Nat /\ x # 0 /\ x <= b
  OBVIOUS
<1>4. x - 1 \in Nat /\ x - 1 < b /\ x - 1 \notin T
  BY <1>2, <1>3
<1>5. x - 1 \in S
  BY <1>3, <1>4
<1>6. QED
  BY <1>4, <1>5

-------------------------------------------------------------------------------
(***************************************************************************)
(* Recursion: step[n] leads from what V has at n - 1 to what V has at n.   *)
(***************************************************************************)
StaysIn(step, N, V) == \A n \in 1 .. N : \A r \in V[n - 1] : step[n][r] \in V[n]

Solution(f, N, V, b, step) ==
  /\ f = [n \in 0 .. N |-> f[n]] /\ f[0] = b
  /\ \A n \in 0 .. N : f[n] \in V[n]
  /\ \A n \in 1 .. N : f[n] = step[n][f[n - 1]]

\* A recursion over 1 to N whose steps stay in V has a solution in V.
LEMMA Recursion ==
  ASSUME NEW N \in Nat, NEW V, NEW b \in V[0], NEW step, StaysIn(step, N, V)
  PROVE  \E f : Solution(f, N, V, b, step)
<1> DEFINE K == {k \in 0 .. N : \E f : Solution(f, k, V, b, step)}
<1>1. 0 \in K
  <2>1. Solution([n \in 0 .. 0 |-> b], 0, V, b, step)
    BY DEF Solution
  <2>2. QED
    BY <2>1
<1>2. ASSUME NEW k \in Nat, k < N, k \in K
      PROVE  k + 1 \in K
  <2>1. PICK g : Solution(g, k, V, b, step)
    BY <1>2
  <2> DEFINE e == step[k + 1][g[k]]
             f == [n \in 0 .. k + 1 |-> IF n = k + 1 THEN e ELSE g[n]]
  <2>2. k + 1 \in 1 .. N /\ (k + 1) - 1 = k /\ g[k] \in V[k]
    BY <1>2, <2>1 DEF Solution
  <2>3. e \in V[k + 1]
    BY <2>2 DEF StaysIn
  <2>4. \A n \in 0 .. k : f[n] = g[n]
    OBVIOUS
  <2>5. f[k + 1] = step[k + 1][f[k]] /\ f[k + 1] \in V[k + 1]
    BY <2>3, <2>4
  <2>6. f = [n \in 0 .. k + 1 |-> f[n]]
    OBVIOUS
  <2> HIDE DEF f, e
  <2>7. ASSUME NEW n \in 1 .. k + 1
        PROVE  f[n] = step[n][f[n - 1]] /\ f[n] \in V[n]
    <3>1. CASE n = k + 1
      BY <2>2, <2>5, <3>1
    <3>2. CASE n \in 1 .. k
      <4>1. n \in 0 .. k /\ n - 1 \in 0 .. k
        BY <3>2
      <4>2. g[n] = step[n][g[n - 1]] /\ g[n] \in V[n]
        BY <2>1, <3>2, <4>1 DEF Solution
      <4>3. QED
        BY <2>4, <4>1, <4>2
    <3>3. QED
      BY <3>1, <3>2
  <2>8. f[0] = b /\ f[0] \in V[0]
    BY <2>1, <2>4 DEF Solution
  <2>9. Solution(f, k + 1, V, b, step)
    <3>1. \A n \in 0 .. k + 1 : n = 0 \/ n \in 1 .. k + 1
      OBVIOUS
    <3>2. QED
      BY <2>6, <2>7, <2>8, <3>1 DEF Solution
  <2>10. QED
    BY <1>2, <2>9
<1>3. N \in K
  <2> HIDE DEF K
  <2>1. 0 .. N \subseteq K
    BY <1>1, <1>2, InductionUpTo
  <2>2. QED
    BY <2>1
<1>4. QED
  BY <1>3

(***************************************************************************)
(* e has the indices of the elements of t, which are those of the first n  *)
(* elements of s that are in I.                                            *)
(***************************************************************************)
Selects(e, s, I, t, n) ==
  /\ \A k \in 1 .. Len(t) : e[k] \in I /\ e[k] \in 1 .. n /\ t[k] = s[e[k]]
  /\ \A k, l \in 1 .. Len(t) : k < l => e[k] < e[l]
  /\ \A i \in 1 .. n : i \in I => \E k \in 1 .. Len(t) : e[k] = i

\* One more element is kept if its index is in I.
LEMMA KeepsNext ==
  ASSUME NEW S, NEW s \in Seq(S), NEW I, NEW n \in Nat, n < Len(s),
         NEW t \in Seq(S), NEW e, Selects(e, s, I, t, n)
  PROVE  \E d : Selects(d, s, I, IF n + 1 \in I THEN Append(t, s[n + 1]) ELSE t, n + 1)
<1>1. Len(t) \in Nat /\ s[n + 1] \in S
  BY LenProperties, ElementOfSeq
<1>2. CASE n + 1 \notin I
  <2>1. \A i \in 1 .. n + 1 : i \in I => i \in 1 .. n
    BY <1>2
  <2>2. \A k \in 1 .. Len(t) : e[k] \in 1 .. n + 1
    BY <1>1 DEF Selects
  <2>3. Selects(e, s, I, t, n + 1)
    BY <2>1, <2>2 DEF Selects
  <2>4. QED
    BY <1>2, <2>3
<1>3. CASE n + 1 \in I
  <2> DEFINE u == Append(t, s[n + 1])
             m == Len(t)
             d == [k \in 1 .. m + 1 |-> IF k = m + 1 THEN n + 1 ELSE e[k]]
  <2>1. /\ Len(u) = m + 1 /\ u[m + 1] = s[n + 1]
        /\ \A k \in 1 .. m : u[k] = t[k]
    BY <1>1, AppendProperties
  <2>2. d[m + 1] = n + 1 /\ \A k \in 1 .. m : d[k] = e[k]
    BY <1>1
  <2> HIDE DEF u, d
  <2>3. \A k \in 1 .. m + 1 : k = m + 1 \/ k \in 1 .. m
    BY <1>1
  <2>4. \A k \in 1 .. m : e[k] \in I /\ e[k] \in 1 .. n /\ t[k] = s[e[k]]
    BY DEF Selects
  <2>5. \A k \in 1 .. m + 1 : d[k] \in I /\ d[k] \in 1 .. n + 1 /\ u[k] = s[d[k]]
    <3>1. SUFFICES ASSUME NEW k \in 1 .. m + 1
                   PROVE  d[k] \in I /\ d[k] \in 1 .. n + 1 /\ u[k] = s[d[k]]
      OBVIOUS
    <3>2. CASE k = m + 1
      BY <1>3, <2>1, <2>2, <3>2
    <3>3. CASE k \in 1 .. m
      BY <2>1, <2>2, <2>4, <3>3
    <3>4. QED
      BY <2>3, <3>2, <3>3
  <2>6. \A k, l \in 1 .. m + 1 : k < l => d[k] < d[l]
    <3>1. SUFFICES ASSUME NEW k \in 1 .. m + 1, NEW l \in 1 .. m + 1, k < l
                   PROVE  d[k] < d[l]
      OBVIOUS
    <3>2. k \in 1 .. m
      BY <1>1, <3>1
    <3>3. CASE l = m + 1
      BY <2>2, <2>4, <3>2, <3>3
    <3>4. CASE l \in 1 .. m
      <4>1. e[k] < e[l]
        BY <3>1, <3>2, <3>4 DEF Selects
      <4>2. QED
        BY <2>2, <3>2, <3>4, <4>1
    <3>5. QED
      BY <2>3, <3>3, <3>4
  <2>7. \A i \in 1 .. n + 1 : i \in I => \E k \in 1 .. m + 1 : d[k] = i
    <3>1. SUFFICES ASSUME NEW i \in 1 .. n + 1, i \in I
                   PROVE  \E k \in 1 .. m + 1 : d[k] = i
      OBVIOUS
    <3>2. CASE i = n + 1
      BY <1>1, <2>2, <3>2
    <3>3. CASE i \in 1 .. n
      <4>1. PICK k \in 1 .. m : e[k] = i
        BY <3>1, <3>3 DEF Selects
      <4>2. d[k] = i /\ k \in 1 .. m + 1
        BY <1>1, <2>2, <4>1
      <4>3. QED
        BY <4>2
    <3>4. QED
      BY <3>2, <3>3
  <2>8. Selects(d, s, I, u, n + 1)
    BY <2>1, <2>5, <2>6, <2>7 DEF Selects
  <2>9. QED
    BY <1>3, <2>8 DEF u
<1>4. QED
  BY <1>2, <1>3

\* Kept has the elements at the indices in I, in their order.
LEMMA KeptSelects ==
  ASSUME NEW S, NEW s \in Seq(S), NEW I
  PROVE  Kept(s, I) \in Seq(S) /\ \E e : Selects(e, s, I, Kept(s, I), Len(s))
<1> DEFINE len == Len(s)
           V(n) == {t \in Seq(S) : \E e : Selects(e, s, I, t, n)}
           b == <<>>
           Step(r, n) == IF n \in I THEN Append(r, s[n]) ELSE r
           From(g, n) == IF n = 0 THEN b ELSE Step(g[n - 1], n)
           Vs == [n \in 0 .. len |-> V(n)]
           step == [n \in 1 .. len |-> [r \in V(n - 1) |-> Step(r, n)]]
<1>1. len \in Nat /\ b \in V(0)
  <2>1. Selects(<<>>, s, I, <<>>, 0)
    BY DEF Selects
  <2>2. QED
    BY <2>1, LenProperties
<1>2. \A n \in 1 .. len : \A r \in V(n - 1) : Step(r, n) \in V(n)
  <2> SUFFICES ASSUME NEW n \in 1 .. len, NEW r \in V(n - 1)
               PROVE  Step(r, n) \in V(n)
    OBVIOUS
  <2>1. PICK m \in Nat : m = n - 1 /\ m < Len(s) /\ m + 1 = n
    BY LenProperties
  <2>2. PICK e : Selects(e, s, I, r, m)
    BY <2>1
  <2>3. \E d : Selects(d, s, I, IF m + 1 \in I THEN Append(r, s[m + 1]) ELSE r, m + 1)
    BY <2>1, <2>2, KeepsNext
  <2>4. s[n] \in S
    BY LenProperties, ElementOfSeq
  <2>5. QED
    BY <2>1, <2>3, <2>4
<1>3. Kept(s, I) = (CHOOSE g : g = [n \in 0 .. len |-> From(g, n)])[len]
  BY DEF Kept, Through
<1> HIDE DEF V, len, b, Step
<1>4. /\ \A n \in 0 .. len : Vs[n] = V(n)
      /\ \A n \in 1 .. len : n - 1 \in 0 .. len /\ n \in 0 .. len
      /\ \A n \in 1 .. len : \A r \in V(n - 1) : step[n][r] = Step(r, n)
  BY <1>1
<1> HIDE DEF Vs, step
<1>5. b \in Vs[0] /\ StaysIn(step, len, Vs)
  BY <1>1, <1>2, <1>4 DEF StaysIn
<1>6. PICK f : Solution(f, len, Vs, b, step)
  BY <1>1, <1>5, Recursion
<1>7. f = [n \in 0 .. len |-> From(f, n)]
  <2>1. \A n \in 1 .. len : f[n] = Step(f[n - 1], n)
    BY <1>4, <1>6 DEF Solution
  <2>2. \A n \in 0 .. len : f[n] = From(f, n)
    <3>1. \A n \in 0 .. len : n = 0 \/ (n # 0 /\ n \in 1 .. len)
      BY <1>1
    <3>2. f[0] = b
      BY <1>6 DEF Solution
    <3>3. QED
      BY <2>1, <3>1, <3>2
  <2> HIDE DEF From
  <2>3. QED
    BY <1>6, <2>2 DEF Solution
<1> DEFINE g == CHOOSE h : h = [n \in 0 .. len |-> From(h, n)]
<1>8. g = [n \in 0 .. len |-> From(g, n)]
  <2> HIDE DEF From
  <2>1. QED
    BY <1>7
<1> HIDE DEF g
<1>9. g[len] \in V(len)
  <2> DEFINE K == {n \in 0 .. len : g[n] \in V(n)}
  <2>1. 0 \in K
    BY <1>1, <1>8
  <2>2. ASSUME NEW n \in Nat, n < len, n \in K
        PROVE  n + 1 \in K
    <3>1. n + 1 \in 1 .. len /\ n + 1 \in 0 .. len /\ (n + 1) - 1 = n /\ n + 1 # 0
      BY <1>1, <2>2
    <3>2. g[n + 1] = Step(g[n], n + 1)
      BY <1>8, <3>1
    <3>3. QED
      BY <1>2, <2>2, <3>1, <3>2
  <2> HIDE DEF K
  <2>3. 0 .. len \subseteq K
    BY <1>1, <2>1, <2>2, InductionUpTo
  <2>4. QED
    BY <1>1, <2>3 DEF K
<1>10. Kept(s, I) \in V(len)
  BY <1>3, <1>9 DEF g
<1>11. QED
  BY <1>10 DEF V, len

-------------------------------------------------------------------------------
(***************************************************************************)
(* What is in a sequence, and what of X is in it only once.                *)
(***************************************************************************)
OnceIn(s, X) == \A i, j \in DOMAIN s : s[i] = s[j] /\ s[i] \in X => i = j

NoneShared(A, B, X) == \A x \in A : x \in B => x \notin X

\* Kept keeps the elements at the indices, each as often as it is there.
LEMMA KeptMembers ==
  ASSUME NEW S, NEW s \in Seq(S), NEW I
  PROVE  /\ Kept(s, I) \in Seq(S)
         /\ Members(Kept(s, I)) = {s[i] : i \in {j \in DOMAIN s : j \in I}}
         /\ \A X : OnceIn(s, X) => OnceIn(Kept(s, I), X)
<1> DEFINE t == Kept(s, I)
<1>1. t \in Seq(S) /\ \E e : Selects(e, s, I, t, Len(s))
  BY KeptSelects
<1> HIDE DEF t
<1>2. PICK e : Selects(e, s, I, t, Len(s))
  BY <1>1
<1>3. DOMAIN t = 1 .. Len(t) /\ Len(t) \in Nat /\ DOMAIN s = 1 .. Len(s)
  BY <1>1, LenProperties
<1>4. \A k \in DOMAIN t : e[k] \in I /\ e[k] \in DOMAIN s /\ t[k] = s[e[k]]
  BY <1>2, <1>3 DEF Selects
<1>5. \A i \in DOMAIN s : i \in I => \E k \in DOMAIN t : e[k] = i
  BY <1>2, <1>3 DEF Selects
<1>6. Members(t) = {s[i] : i \in {j \in DOMAIN s : j \in I}}
  <2>1. ASSUME NEW x \in Members(t)
        PROVE  \E i \in {j \in DOMAIN s : j \in I} : x = s[i]
    BY <1>4 DEF Members
  <2>2. ASSUME NEW i \in {j \in DOMAIN s : j \in I}
        PROVE  s[i] \in Members(t)
    <3>1. PICK k \in DOMAIN t : e[k] = i
      BY <1>5
    <3>2. t[k] = s[i]
      BY <1>4, <3>1
    <3>3. QED
      BY <3>2 DEF Members
  <2>3. QED
    BY <2>1, <2>2
<1>7. ASSUME NEW X, OnceIn(s, X)
      PROVE  OnceIn(t, X)
  <2>1. SUFFICES ASSUME NEW k \in DOMAIN t, NEW l \in DOMAIN t, t[k] = t[l], t[k] \in X
                 PROVE  k = l
    BY DEF OnceIn
  <2>2. e[k] = e[l]
    BY <1>4, <1>7, <2>1 DEF OnceIn
  <2>3. e[k] \in Nat /\ e[l] \in Nat
    BY <1>3, <1>4
  <2>4. k < l => e[k] < e[l]
    BY <1>2, <1>3 DEF Selects
  <2>5. l < k => e[l] < e[k]
    BY <1>2, <1>3 DEF Selects
  <2>6. QED
    BY <1>3, <2>2, <2>3, <2>4, <2>5
<1>8. QED
  BY <1>1, <1>6, <1>7 DEF t

\* The elements of two sequences, one behind the other.
LEMMA ConcatMembers ==
  ASSUME NEW S, NEW s \in Seq(S), NEW t \in Seq(S)
  PROVE  /\ s \o t \in Seq(S)
         /\ Len(s \o t) = Len(s) + Len(t)
         /\ Members(s \o t) = Members(s) \cup Members(t)
         /\ \A X : OnceIn(s, X) /\ OnceIn(t, X) /\ NoneShared(Members(s), Members(t), X)
                   => OnceIn(s \o t, X)
<1> DEFINE u == s \o t
           m == Len(s)
           n == Len(t)
<1>1. /\ m \in Nat /\ n \in Nat
      /\ DOMAIN s = 1 .. m /\ DOMAIN t = 1 .. n
  BY LenProperties
<1>2. /\ u \in Seq(S) /\ Len(u) = m + n
      /\ \A i \in 1 .. m + n : u[i] = IF i <= m THEN s[i] ELSE t[i - m]
  BY ConcatProperties
<1>3. DOMAIN u = 1 .. m + n
  BY <1>2, LenProperties
<1> HIDE DEF u, m, n
<1>4. \A i \in 1 .. m : i \in 1 .. m + n /\ u[i] = s[i]
  BY <1>1, <1>2
<1>5. ASSUME NEW i \in 1 .. n
      PROVE  i + m \in 1 .. m + n /\ u[i + m] = t[i]
  <2>1. i + m \in 1 .. m + n /\ ~(i + m <= m) /\ (i + m) - m = i
    BY <1>1
  <2>2. QED
    BY <1>2, <2>1
<1>6. ASSUME NEW i \in 1 .. m + n
      PROVE  \/ i \in 1 .. m /\ u[i] = s[i]
             \/ i - m \in 1 .. n /\ u[i] = t[i - m] /\ i = (i - m) + m
  BY <1>1, <1>2
<1>7. Members(u) = Members(s) \cup Members(t)
  <2>1. ASSUME NEW x \in Members(u)
        PROVE  x \in Members(s) \cup Members(t)
    BY <1>1, <1>3, <1>6 DEF Members
  <2>2. ASSUME NEW x \in Members(s)
        PROVE  x \in Members(u)
    BY <1>1, <1>3, <1>4 DEF Members
  <2>3. ASSUME NEW x \in Members(t)
        PROVE  x \in Members(u)
    <3>1. PICK i \in 1 .. n : t[i] = x
      BY <1>1 DEF Members
    <3>2. i + m \in DOMAIN u /\ u[i + m] = x
      BY <1>3, <1>5, <3>1
    <3>3. QED
      BY <3>2 DEF Members
  <2>4. QED
    BY <2>1, <2>2, <2>3
<1>8. ASSUME NEW X, OnceIn(s, X), OnceIn(t, X), NoneShared(Members(s), Members(t), X)
      PROVE  OnceIn(u, X)
  <2>1. SUFFICES ASSUME NEW i \in 1 .. m + n, NEW j \in 1 .. m + n,
                        u[i] = u[j], u[i] \in X
                 PROVE  i = j
    BY <1>3 DEF OnceIn
  <2>2. \A k \in 1 .. m : s[k] \in Members(s)
    BY <1>1 DEF Members
  <2>3. \A k \in 1 .. n : t[k] \in Members(t)
    BY <1>1 DEF Members
  <2>4. CASE i \in 1 .. m /\ j \in 1 .. m
    BY <1>1, <1>4, <1>8, <2>1, <2>4 DEF OnceIn
  <2>5. CASE i \in 1 .. m /\ j \notin 1 .. m
    BY <1>4, <1>6, <1>8, <2>1, <2>2, <2>3, <2>5 DEF NoneShared
  <2>6. CASE i \notin 1 .. m /\ j \in 1 .. m
    BY <1>4, <1>6, <1>8, <2>1, <2>2, <2>3, <2>6 DEF NoneShared
  <2>7. CASE i \notin 1 .. m /\ j \notin 1 .. m
    <3>1. /\ i - m \in 1 .. n /\ u[i] = t[i - m] /\ i = (i - m) + m
          /\ j - m \in 1 .. n /\ u[j] = t[j - m] /\ j = (j - m) + m
      BY <1>6, <2>7
    <3>2. i - m = j - m
      BY <1>1, <1>8, <2>1, <3>1 DEF OnceIn
    <3>3. QED
      BY <1>1, <3>2
  <2>8. QED
    BY <2>4, <2>5, <2>6, <2>7
<1>9. QED
  BY <1>2, <1>7, <1>8 DEF u, m, n

\* A sequence is cut in two.
LEMMA CutMembers ==
  ASSUME NEW S, NEW s \in Seq(S), NEW k \in 0 .. Len(s)
  PROVE  LET a == SubSeq(s, 1, k)
             b == SubSeq(s, k + 1, Len(s))
         IN  /\ a \in Seq(S) /\ b \in Seq(S) /\ Len(a) = k /\ Len(b) = Len(s) - k
             /\ Members(a) \cup Members(b) = Members(s)
             /\ \A X : OnceIn(s, X) =>
                  /\ OnceIn(a, X) /\ OnceIn(b, X)
                  /\ NoneShared(Members(a), Members(b), X)
<1> DEFINE a == SubSeq(s, 1, k)
           b == SubSeq(s, k + 1, Len(s))
           n == Len(s)
<1>1. n \in Nat /\ DOMAIN s = 1 .. n /\ \A i \in 1 .. n : s[i] \in S
  BY LenProperties, ElementOfSeq
<1>2. k \in Nat /\ k <= n
  BY <1>1
<1>3. a \in Seq(S) /\ Len(a) = k /\ \A i \in 1 .. k : a[i] = s[i]
  <2>1. \A i \in 1 .. k : s[i] \in S
    BY <1>1, <1>2
  <2>2. QED
    BY <1>2, <2>1, SubSeqProperties
<1>4. b \in Seq(S) /\ Len(b) = n - k /\ \A i \in 1 .. n - k : b[i] = s[k + i]
  <2>1. \A i \in k + 1 .. n : s[i] \in S
    BY <1>1, <1>2
  <2>2. /\ b \in Seq(S)
        /\ Len(b) = IF k + 1 <= n THEN n - (k + 1) + 1 ELSE 0
        /\ \A i \in 1 .. n - (k + 1) + 1 : b[i] = s[k + 1 + i - 1]
    BY <1>1, <1>2, <2>1, SubSeqProperties
  <2>3. n - (k + 1) + 1 = n - k
    BY <1>1, <1>2
  <2>4. \A i \in 1 .. n - k : k + 1 + i - 1 = k + i
    BY <1>1, <1>2
  <2>5. \A i \in 1 .. n - k : b[i] = s[k + i]
    BY <2>2, <2>3, <2>4
  <2>6. Len(b) = n - k
    BY <1>1, <1>2, <2>2
  <2>7. QED
    BY <2>2, <2>5, <2>6
<1>5. DOMAIN a = 1 .. k /\ DOMAIN b = 1 .. n - k
  BY <1>3, <1>4, LenProperties
<1> HIDE DEF a, b, n
<1>6. \A i \in 1 .. k : i \in 1 .. n
  BY <1>1, <1>2
<1>7. \A i \in 1 .. n - k : k + i \in 1 .. n /\ k + i \notin 1 .. k
  BY <1>1, <1>2
<1>8. Members(a) \cup Members(b) = Members(s)
  <2>1. ASSUME NEW x \in Members(a)
        PROVE  x \in Members(s)
    BY <1>1, <1>3, <1>5, <1>6 DEF Members
  <2>2. ASSUME NEW x \in Members(b)
        PROVE  x \in Members(s)
    BY <1>1, <1>4, <1>5, <1>7 DEF Members
  <2>3. ASSUME NEW x \in Members(s)
        PROVE  x \in Members(a) \cup Members(b)
    <3>1. PICK i \in 1 .. n : s[i] = x
      BY <1>1 DEF Members
    <3>2. CASE i \in 1 .. k
      BY <1>3, <1>5, <3>1, <3>2 DEF Members
    <3>3. CASE i \notin 1 .. k
      <4>1. i - k \in 1 .. n - k /\ k + (i - k) = i
        BY <1>1, <1>2, <3>3
      <4>2. b[i - k] = x
        BY <1>4, <3>1, <4>1
      <4>3. QED
        BY <1>5, <4>1, <4>2 DEF Members
    <3>4. QED
      BY <3>2, <3>3
  <2>4. QED
    BY <2>1, <2>2, <2>3
<1>9. ASSUME NEW X, OnceIn(s, X)
      PROVE  OnceIn(a, X) /\ OnceIn(b, X) /\ NoneShared(Members(a), Members(b), X)
  <2>1. \A i, j \in 1 .. n : s[i] = s[j] /\ s[i] \in X => i = j
    BY <1>1, <1>9 DEF OnceIn
  <2>2. OnceIn(a, X)
    BY <1>3, <1>5, <1>6, <2>1 DEF OnceIn
  <2>3. OnceIn(b, X)
    <3>1. SUFFICES ASSUME NEW i \in 1 .. n - k, NEW j \in 1 .. n - k,
                          b[i] = b[j], b[i] \in X
                   PROVE  i = j
      BY <1>5 DEF OnceIn
    <3>2. s[k + i] = s[k + j] /\ s[k + i] \in X
      BY <1>4, <3>1
    <3>3. k + i = k + j
      BY <1>7, <2>1, <3>2
    <3>4. QED
      BY <1>2, <3>3
  <2>4. ASSUME NEW x, x \in Members(a), x \in Members(b), x \in X
        PROVE  FALSE
    <3>1. PICK i \in 1 .. k : a[i] = x
      BY <1>5, <2>4 DEF Members
    <3>2. PICK j \in 1 .. n - k : b[j] = x
      BY <1>5, <2>4 DEF Members
    <3>3. s[i] = x /\ s[k + j] = x
      BY <1>3, <1>4, <3>1, <3>2
    <3>4. i = k + j
      BY <1>6, <1>7, <2>1, <2>4, <3>3
    <3>5. QED
      BY <1>7, <3>4
  <2>5. QED
    BY <2>2, <2>3, <2>4 DEF NoneShared
<1>10. QED
  BY <1>3, <1>4, <1>8, <1>9 DEF a, b, n

\* The element of a sequence of one, and of none.
LEMMA FewMembers ==
  /\ \A S : <<>> \in Seq(S)
  /\ Len(<<>>) = 0 /\ Members(<<>>) = {} /\ \A X : OnceIn(<<>>, X)
  /\ \A S, x : x \in S =>
       /\ <<x>> \in Seq(S) /\ Len(<<x>>) = 1 /\ Members(<<x>>) = {x}
       /\ \A X : OnceIn(<<x>>, X)
<1>1. Members(<<>>) = {} /\ \A X : OnceIn(<<>>, X)
  BY DEF Members, OnceIn
<1>2. ASSUME NEW S, NEW x \in S
      PROVE  /\ <<x>> \in Seq(S) /\ Len(<<x>>) = 1 /\ Members(<<x>>) = {x}
             /\ \A X : OnceIn(<<x>>, X)
  <2>1. <<x>> \in Seq(S) /\ Len(<<x>>) = 1 /\ DOMAIN <<x>> = {1} /\ <<x>>[1] = x
    OBVIOUS
  <2>2. QED
    BY <2>1 DEF Members, OnceIn
<1>3. QED
  BY <1>1, <1>2

\* The elements of a sequence with one more at its end.
LEMMA AppendMembers ==
  ASSUME NEW S, NEW s \in Seq(S), NEW x \in S
  PROVE  /\ Append(s, x) \in Seq(S) /\ Len(Append(s, x)) = Len(s) + 1
         /\ Members(Append(s, x)) = Members(s) \cup {x}
         /\ \A X : OnceIn(s, X) /\ (x \in X => x \notin Members(s))
                   => OnceIn(Append(s, x), X)
<1>1. Append(s, x) = s \o <<x>>
  OBVIOUS
<1>2. <<x>> \in Seq(S) /\ Len(<<x>>) = 1 /\ Members(<<x>>) = {x} /\ \A X : OnceIn(<<x>>, X)
  BY FewMembers
<1> DEFINE o == <<x>>
<1> HIDE DEF o
<1>3. o \in Seq(S) /\ Len(o) = 1 /\ Members(o) = {x} /\ \A X : OnceIn(o, X)
  BY <1>2 DEF o
<1>4. /\ s \o o \in Seq(S) /\ Len(s \o o) = Len(s) + Len(o)
      /\ Members(s \o o) = Members(s) \cup Members(o)
      /\ \A X : OnceIn(s, X) /\ OnceIn(o, X) /\ NoneShared(Members(s), Members(o), X)
                => OnceIn(s \o o, X)
  BY <1>3, ConcatMembers
<1>5. ASSUME NEW X, OnceIn(s, X), x \in X => x \notin Members(s)
      PROVE  OnceIn(s \o o, X)
  BY <1>3, <1>4, <1>5 DEF NoneShared
<1>6. QED
  BY <1>1, <1>3, <1>4, <1>5 DEF o

\* A sequence turned around has the same elements.
LEMMA ReverseMembers ==
  ASSUME NEW S, NEW s \in Seq(S)
  PROVE  /\ Reverse(s) \in Seq(S)
         /\ Members(Reverse(s)) = Members(s)
         /\ \A X : OnceIn(s, X) => OnceIn(Reverse(s), X)
<1> DEFINE n == Len(s)
           r == Reverse(s)
<1>1. n \in Nat /\ DOMAIN s = 1 .. n /\ \A i \in 1 .. n : s[i] \in S
  BY LenProperties, ElementOfSeq
<1>2. r = [i \in 1 .. n |-> s[(n - i) + 1]]
  BY DEF Reverse
<1> HIDE DEF r, n
<1>3. \A i \in 1 .. n : (n - i) + 1 \in 1 .. n /\ (n - ((n - i) + 1)) + 1 = i
  BY <1>1
<1>4. DOMAIN r = 1 .. n /\ \A i \in 1 .. n : r[i] = s[(n - i) + 1]
  BY <1>2
<1>5. r \in Seq(S)
  <2>1. \A i \in 1 .. n : s[(n - i) + 1] \in S
    BY <1>1, <1>3
  <2>2. QED
    BY <1>1, <1>2, <2>1
<1>6. Members(r) = Members(s)
  <2>1. ASSUME NEW i \in 1 .. n
        PROVE  s[i] \in Members(r) /\ r[i] \in Members(s)
    <3>1. r[(n - i) + 1] = s[i]
      BY <1>3, <1>4
    <3>2. QED
      BY <1>1, <1>3, <1>4, <3>1 DEF Members
  <2>2. QED
    BY <1>1, <1>4, <2>1 DEF Members
<1>7. ASSUME NEW X, OnceIn(s, X)
      PROVE  OnceIn(r, X)
  <2>1. SUFFICES ASSUME NEW i \in 1 .. n, NEW j \in 1 .. n, r[i] = r[j], r[i] \in X
                 PROVE  i = j
    BY <1>4 DEF OnceIn
  <2>2. (n - i) + 1 = (n - j) + 1
    BY <1>1, <1>3, <1>4, <1>7, <2>1 DEF OnceIn
  <2>3. QED
    BY <1>1, <2>2
<1>8. QED
  BY <1>5, <1>6, <1>7 DEF r

-------------------------------------------------------------------------------
(***************************************************************************)
(* The sort.                                                               *)
(***************************************************************************)
\* Inserting an element adds it.
LEMMA InsertMembers ==
  ASSUME NEW S, NEW t \in Seq(S), NEW e \in S, NEW before
  PROVE  LET u == InsertBy(t, e, before)
         IN  /\ u \in Seq(S) /\ Len(u) = Len(t) + 1
             /\ Members(u) = Members(t) \cup {e}
             /\ \A X : OnceIn(t, X) /\ (e \in X => e \notin Members(t)) => OnceIn(u, X)
<1> DEFINE L == {0} \cup {i \in DOMAIN t : <<e, t[i]>> \notin before}
<1>1. Len(t) \in Nat /\ DOMAIN t = 1 .. Len(t)
  BY LenProperties
<1>2. PICK p \in 0 .. Len(t) : p = Max(L)
  <2>1. L \subseteq 0 .. Len(t) /\ L # {}
    BY <1>1
  <2>2. L \subseteq Int /\ \A y \in L : y <= Len(t)
    BY <1>1, <2>1
  <2> HIDE DEF L
  <2>3. \E x \in L : \A y \in L : y <= x
    <3>1. PICK b : b = Len(t)
      OBVIOUS
    <3>2. b \in Int /\ \A y \in L : y <= b
      BY <1>1, <2>2, <3>1
    <3>3. QED
      BY <2>1, <2>2, <3>2, GreatestElement
  <2>4. \E x \in L : \A y \in L : x >= y
    BY <2>2, <2>3
  <2>5. Max(L) \in L
    BY <2>4 DEF Max
  <2>6. QED
    BY <2>1, <2>5
<1> DEFINE a == SubSeq(t, 1, p)
           b == SubSeq(t, p + 1, Len(t))
           o == <<e>>
<1>3. InsertBy(t, e, before) = (a \o o) \o b
  <2>1. InsertBy(t, e, before) = InsertAt(t, 1 + p, e)
    BY <1>2 DEF InsertBy
  <2>2. (1 + p) - 1 = p /\ 1 + p = p + 1
    BY <1>1
  <2>3. QED
    BY <2>1, <2>2 DEF InsertAt
<1>4. /\ a \in Seq(S) /\ b \in Seq(S) /\ Len(a) = p /\ Len(b) = Len(t) - p
      /\ Members(a) \cup Members(b) = Members(t)
      /\ \A X : OnceIn(t, X) =>
           /\ OnceIn(a, X) /\ OnceIn(b, X)
           /\ NoneShared(Members(a), Members(b), X)
  BY CutMembers
<1>5. o \in Seq(S) /\ Len(o) = 1 /\ Members(o) = {e} /\ \A X : OnceIn(o, X)
  BY FewMembers
<1> HIDE DEF a, b, o
<1>6. /\ a \o o \in Seq(S) /\ Len(a \o o) = Len(a) + Len(o)
      /\ Members(a \o o) = Members(a) \cup Members(o)
      /\ \A X : OnceIn(a, X) /\ OnceIn(o, X) /\ NoneShared(Members(a), Members(o), X)
                => OnceIn(a \o o, X)
  BY ZenonT(60), <1>4, <1>5, ConcatMembers
<1> DEFINE c == a \o o
<1> HIDE DEF c
<1>7. c \in Seq(S)
  BY <1>6 DEF c
<1>8. /\ c \o b \in Seq(S) /\ Len(c \o b) = Len(c) + Len(b)
      /\ Members(c \o b) = Members(c) \cup Members(b)
      /\ \A X : OnceIn(c, X) /\ OnceIn(b, X) /\ NoneShared(Members(c), Members(b), X)
                => OnceIn(c \o b, X)
  BY <1>4, <1>7, ConcatMembers
<1>9. Len(c \o b) = Len(t) + 1
  BY <1>1, <1>2, <1>4, <1>5, <1>6, <1>8 DEF c
<1>10. Members(c \o b) = Members(t) \cup {e}
  BY <1>4, <1>5, <1>6, <1>8 DEF c
<1>11. ASSUME NEW X, OnceIn(t, X), e \in X => e \notin Members(t)
       PROVE  OnceIn(c \o b, X)
  <2>1. /\ OnceIn(a, X) /\ OnceIn(b, X) /\ OnceIn(o, X)
        /\ NoneShared(Members(a), Members(b), X)
    BY <1>4, <1>5, <1>11
  <2>2. e \in X => e \notin Members(a) /\ e \notin Members(b)
    BY <1>4, <1>11
  <2>3. NoneShared(Members(a), Members(o), X)
    BY <1>5, <2>2 DEF NoneShared
  <2>4. OnceIn(c, X) /\ Members(c) = Members(a) \cup {e}
    BY <1>5, <1>6, <2>1, <2>3 DEF c
  <2>5. NoneShared(Members(c), Members(b), X)
    BY <2>1, <2>2, <2>4 DEF NoneShared
  <2>6. QED
    BY <1>8, <2>1, <2>4, <2>5
<1>12. QED
  BY <1>3, <1>8, <1>9, <1>10, <1>11 DEF c

\* A sorted sequence has the same elements, each as often.
LEMMA SortedMembers ==
  ASSUME NEW S, NEW s \in Seq(S), NEW before
  PROVE  /\ SortedBy(s, before) \in Seq(S)
         /\ Len(SortedBy(s, before)) = Len(s)
         /\ Members(SortedBy(s, before)) = Members(s)
         /\ \A X : OnceIn(s, X) => OnceIn(SortedBy(s, before), X)
<1> DEFINE len == Len(s)
           V(n) == {t \in Seq(S) : /\ Len(t) = n
                                /\ Members(t) = {s[i] : i \in 1 .. n}
                                /\ \A X : OnceIn(s, X) => OnceIn(t, X)}
           b == <<>>
           Step(r, n) == InsertBy(r, s[n], before)
           From(g, n) == IF n = 0 THEN b ELSE Step(g[n - 1], n)
           Vs == [n \in 0 .. len |-> V(n)]
           step == [n \in 1 .. len |-> [r \in V(n - 1) |-> Step(r, n)]]
<1>1. len \in Nat /\ b \in V(0)
  <2>1. {s[i] : i \in 1 .. 0} = {}
    OBVIOUS
  <2>2. QED
    BY <2>1, FewMembers, LenProperties
<1>2. \A n \in 1 .. len : \A r \in V(n - 1) : Step(r, n) \in V(n)
  <2> SUFFICES ASSUME NEW n \in 1 .. len, NEW t \in V(n - 1)
               PROVE  Step(t, n) \in V(n)
    OBVIOUS
  <2>1. len \in Nat /\ DOMAIN s = 1 .. len /\ s[n] \in S
    BY LenProperties, ElementOfSeq
  <2>2. /\ t \in Seq(S) /\ Len(t) = n - 1
        /\ Members(t) = {s[i] : i \in 1 .. n - 1}
        /\ \A X : OnceIn(s, X) => OnceIn(t, X)
    OBVIOUS
  <2>3. PICK e \in S : e = s[n]
    BY <2>1
  <2> DEFINE u == InsertBy(t, e, before)
  <2>4. /\ u \in Seq(S) /\ Len(u) = Len(t) + 1
        /\ Members(u) = Members(t) \cup {e}
        /\ \A X : OnceIn(t, X) /\ (e \in X => e \notin Members(t)) => OnceIn(u, X)
    BY <2>2, InsertMembers
  <2> HIDE DEF u
  <2>5. Members(u) = {s[i] : i \in 1 .. n}
    <3>1. \A i : i \in 1 .. n <=> i = n \/ i \in 1 .. n - 1
      OBVIOUS
    <3>2. {s[i] : i \in 1 .. n} = {s[i] : i \in 1 .. n - 1} \cup {s[n]}
      BY <3>1
    <3>3. QED
      BY <2>2, <2>3, <2>4, <3>2
  <2>6. ASSUME NEW X, OnceIn(s, X)
        PROVE  OnceIn(u, X)
    <3>1. SUFFICES ASSUME e \in X, e \in Members(t)
                   PROVE  FALSE
      BY <2>2, <2>4, <2>6
    <3>2. PICK i \in 1 .. n - 1 : s[i] = s[n]
      BY <2>2, <2>3, <3>1
    <3>3. i \in 1 .. len /\ i # n
      BY <2>1
    <3>4. QED
      BY <2>1, <2>3, <2>6, <3>1, <3>2, <3>3 DEF OnceIn
  <2>7. Len(u) = n
    BY <2>2, <2>4
  <2>8. u \in V(n)
    BY <2>4, <2>5, <2>6, <2>7
  <2>9. QED
    BY <2>3, <2>8 DEF u
<1>3. SortedBy(s, before) = (CHOOSE g : g = [n \in 0 .. len |-> From(g, n)])[len]
  BY DEF SortedBy, Through
<1> HIDE DEF V, len, b, Step
<1>4. /\ \A n \in 0 .. len : Vs[n] = V(n)
      /\ \A n \in 1 .. len : n - 1 \in 0 .. len /\ n \in 0 .. len
      /\ \A n \in 1 .. len : \A r \in V(n - 1) : step[n][r] = Step(r, n)
  BY <1>1
<1> HIDE DEF Vs, step
<1>5. b \in Vs[0] /\ StaysIn(step, len, Vs)
  BY <1>1, <1>2, <1>4 DEF StaysIn
<1>6. PICK f : Solution(f, len, Vs, b, step)
  BY <1>1, <1>5, Recursion
<1>7. f = [n \in 0 .. len |-> From(f, n)]
  <2>1. \A n \in 1 .. len : f[n] = Step(f[n - 1], n)
    BY <1>4, <1>6 DEF Solution
  <2>2. \A n \in 0 .. len : f[n] = From(f, n)
    <3>1. \A n \in 0 .. len : n = 0 \/ (n # 0 /\ n \in 1 .. len)
      BY <1>1
    <3>2. f[0] = b
      BY <1>6 DEF Solution
    <3>3. QED
      BY <2>1, <3>1, <3>2
  <2> HIDE DEF From
  <2>3. QED
    BY <1>6, <2>2 DEF Solution
<1> DEFINE g == CHOOSE h : h = [n \in 0 .. len |-> From(h, n)]
<1>8. g = [n \in 0 .. len |-> From(g, n)]
  <2> HIDE DEF From
  <2>1. QED
    BY <1>7
<1> HIDE DEF g
<1>9. g[len] \in V(len)
  <2> DEFINE K == {n \in 0 .. len : g[n] \in V(n)}
  <2>1. 0 \in K
    BY <1>1, <1>8
  <2>2. ASSUME NEW n \in Nat, n < len, n \in K
        PROVE  n + 1 \in K
    <3>1. n + 1 \in 1 .. len /\ n + 1 \in 0 .. len /\ (n + 1) - 1 = n /\ n + 1 # 0
      BY <1>1, <2>2
    <3>2. g[n + 1] = Step(g[n], n + 1)
      BY <1>8, <3>1
    <3>3. QED
      BY <1>2, <2>2, <3>1, <3>2
  <2> HIDE DEF K
  <2>3. 0 .. len \subseteq K
    BY <1>1, <2>1, <2>2, InductionUpTo
  <2>4. QED
    BY <1>1, <2>3 DEF K
<1>10. SortedBy(s, before) \in V(len)
  BY <1>3, <1>9 DEF g
<1>11. QED
  <2>1. Members(s) = {s[i] : i \in 1 .. Len(s)}
    BY LenProperties DEF Members
  <2>2. QED
    BY <1>10, <2>1 DEF V, len

-------------------------------------------------------------------------------
(***************************************************************************)
(* A sequence of sequences and what it is flattened to; f has what the     *)
(* first of them are flattened to.                                         *)
(***************************************************************************)
FlatSoFar(f, S, gs) ==
  /\ f[0] = <<>>
  /\ \A n \in 0 .. Len(gs) : f[n] \in Seq(S)
  /\ \A n \in 1 .. Len(gs) : f[n] = f[n - 1] \o gs[n]
  /\ FlattenSeq(gs) = f[Len(gs)]

\* The recursion of FlattenSeq has a solution.
LEMMA FlatExists ==
  ASSUME NEW S, NEW gs \in Seq(Seq(S))
  PROVE  \E f : FlatSoFar(f, S, gs)
<1> DEFINE len == Len(gs)
           Vs == [n \in 0 .. len |-> Seq(S)]
           step == [n \in 1 .. len |-> [r \in Seq(S) |-> r \o gs[n]]]
           b == <<>>
<1>1. len \in Nat /\ \A n \in 1 .. len : gs[n] \in Seq(S)
  BY LenProperties, ElementOfSeq
<1>2. \A n \in 1 .. len : \A r \in Seq(S) : step[n][r] = r \o gs[n] /\ step[n][r] \in Seq(S)
  BY <1>1, ConcatProperties
<1>3. b \in Vs[0] /\ StaysIn(step, len, Vs)
  <2>1. b \in Seq(S) /\ \A n \in 0 .. len : Vs[n] = Seq(S)
    BY <1>1
  <2> HIDE DEF Vs, step, b
  <2>2. \A n \in 1 .. len : n - 1 \in 0 .. len /\ n \in 0 .. len
    BY <1>1
  <2>3. QED
    BY <1>1, <1>2, <2>1, <2>2 DEF StaysIn
<1>4. \A n \in 0 .. len : Vs[n] = Seq(S)
  OBVIOUS
<1>5. FlattenSeq(gs) =
        IF len = 0 THEN gs
        ELSE (CHOOSE h : h = [i \in 1 .. len |->
                                IF i = 1 THEN gs[i] ELSE h[i - 1] \o gs[i]])[len]
  BY DEF FlattenSeq
<1>6. b = <<>> /\ (len = 0 => gs = <<>>)
  BY EmptySeq
<1> HIDE DEF Vs, step, len, b
<1>7. PICK f : Solution(f, len, Vs, b, step)
  BY <1>1, <1>3, Recursion
<1>8. \A n \in 0 .. len : f[n] \in Seq(S)
  BY <1>4, <1>7 DEF Solution
<1>9. \A n \in 1 .. len : f[n] = f[n - 1] \o gs[n]
  <2>1. \A n \in 1 .. len : n - 1 \in 0 .. len
    BY <1>1
  <2>2. QED
    BY <1>2, <1>7, <1>8, <2>1 DEF Solution
<1>10. FlattenSeq(gs) = f[len]
  <2>1. CASE len = 0
    BY <1>5, <1>6, <1>7, <2>1 DEF Solution
  <2>2. CASE len # 0
    <3> DEFINE From(h, i) == IF i = 1 THEN gs[i] ELSE h[i - 1] \o gs[i]
               F == [i \in 1 .. len |-> f[i]]
    <3>1. \A i \in 1 .. len : f[i] = From(f, i)
      <4>1. \A i \in 1 .. len : i = 1 => f[i] = gs[i]
        <5>1. \A i \in 1 .. len : i = 1 => f[i - 1] = b
          BY <1>7 DEF Solution
        <5>2. \A s \in Seq(S) : <<>> \o s = s
          BY ConcatEmptySeq
        <5>3. QED
          BY <1>1, <1>6, <1>9, <5>1, <5>2
      <4>2. QED
        BY <1>9, <4>1
    <3>2. F = [i \in 1 .. len |-> From(F, i)]
      <4>1. \A i \in 1 .. len : i # 1 => i - 1 \in 1 .. len
        BY <1>1
      <4>2. \A i \in 1 .. len : From(F, i) = From(f, i)
        BY <4>1
      <4>3. QED
        BY <3>1, <4>2
    <3> DEFINE h == CHOOSE h : h = [i \in 1 .. len |-> From(h, i)]
    <3> HIDE DEF F
    <3>3. h = [i \in 1 .. len |-> From(h, i)]
      <4> HIDE DEF From
      <4>1. QED
        BY <3>2
    <3>4. FlattenSeq(gs) = h[len]
      BY <1>5, <2>2
    <3> HIDE DEF h
    <3> DEFINE K == {n \in 0 .. len : n = 0 \/ h[n] = f[n]}
    <3>5. 0 \in K
      BY <1>1
    <3>6. ASSUME NEW n \in Nat, n < len, n \in K
          PROVE  n + 1 \in K
      <4>1. n + 1 \in 1 .. len /\ n + 1 \in 0 .. len /\ (n + 1) - 1 = n
        BY <1>1, <3>6
      <4>2. h[n + 1] = From(h, n + 1)
        BY <3>3, <4>1
      <4>3. f[n + 1] = From(f, n + 1)
        BY <3>1, <4>1
      <4>4. h[n + 1] = f[n + 1]
        BY <3>6, <4>1, <4>2, <4>3
      <4>5. QED
        BY <4>1, <4>4
    <3> HIDE DEF K
    <3>7. 0 .. len \subseteq K
      BY <1>1, <3>5, <3>6, InductionUpTo
    <3>8. QED
      BY <1>1, <2>2, <3>4, <3>7 DEF K
  <2>3. QED
    BY <2>1, <2>2
<1>11. QED
  BY <1>6, <1>7, <1>8, <1>9, <1>10 DEF len, FlatSoFar, Solution

\* Flattening goes over the sequences one after the other.
LEMMA FlatConcat ==
  ASSUME NEW S, NEW gs \in Seq(Seq(S)), NEW hs \in Seq(Seq(S))
  PROVE  /\ FlattenSeq(gs \o hs) = FlattenSeq(gs) \o FlattenSeq(hs)
         /\ FlattenSeq(gs) \in Seq(S)
<1> DEFINE m == Len(gs)
           n == Len(hs)
           us == gs \o hs
<1>1. m \in Nat /\ n \in Nat
  BY LenProperties
<1>2. us \in Seq(Seq(S)) /\ Len(us) = m + n
  BY ConcatProperties
<1>3. (\A i \in 1 .. m : us[i] = gs[i]) /\ (\A i \in 1 .. n : us[m + i] = hs[i])
  <2>1. \A i \in 1 .. m + n : us[i] = IF i <= m THEN gs[i] ELSE hs[i - m]
    BY ConcatProperties
  <2> HIDE DEF us
  <2>2. ASSUME NEW i \in 1 .. n
        PROVE  us[m + i] = hs[i]
    <3>1. m + i \in 1 .. m + n /\ ~(m + i <= m) /\ (m + i) - m = i
      BY <1>1
    <3>2. QED
      BY <2>1, <3>1
  <2>3. \A i \in 1 .. m : i \in 1 .. m + n /\ i <= m
    BY <1>1
  <2>4. QED
    BY <2>1, <2>2, <2>3
<1>4. \A i \in 1 .. n : hs[i] \in Seq(S)
  BY ElementOfSeq
<1> HIDE DEF us
<1>5. PICK f : FlatSoFar(f, S, gs)
  BY FlatExists
<1>6. PICK e : FlatSoFar(e, S, hs)
  BY FlatExists
<1>7. PICK h : FlatSoFar(h, S, us)
  BY <1>2, FlatExists
<1> HIDE DEF m, n
<1>8. /\ f[0] = <<>> /\ FlattenSeq(gs) = f[m]
      /\ \A i \in 0 .. m : f[i] \in Seq(S)
      /\ \A i \in 1 .. m : f[i] = f[i - 1] \o gs[i]
  BY <1>5 DEF FlatSoFar, m
<1>9. /\ e[0] = <<>> /\ FlattenSeq(hs) = e[n]
      /\ \A i \in 0 .. n : e[i] \in Seq(S)
      /\ \A i \in 1 .. n : e[i] = e[i - 1] \o hs[i]
  BY <1>6 DEF FlatSoFar, n
<1>10. /\ h[0] = <<>> /\ FlattenSeq(us) = h[m + n]
       /\ \A i \in 1 .. m + n : h[i] = h[i - 1] \o us[i]
  BY <1>2, <1>7 DEF FlatSoFar
<1>11. h[m] = f[m]
  <2> DEFINE K == {i \in 0 .. m : h[i] = f[i]}
  <2>1. 0 \in K
    BY <1>1, <1>8, <1>10
  <2>2. ASSUME NEW i \in Nat, i < m, i \in K
        PROVE  i + 1 \in K
    <3>1. i + 1 \in 1 .. m /\ i + 1 \in 1 .. m + n /\ (i + 1) - 1 = i /\ i + 1 \in 0 .. m
      BY <1>1, <2>2
    <3>2. h[i + 1] = h[i] \o us[i + 1] /\ f[i + 1] = f[i] \o gs[i + 1]
      BY <1>8, <1>10, <3>1
    <3>3. h[i + 1] = f[i + 1]
      BY <1>3, <2>2, <3>1, <3>2
    <3>4. QED
      BY <3>1, <3>3
  <2> HIDE DEF K
  <2>3. 0 .. m \subseteq K
    BY <1>1, <2>1, <2>2, InductionUpTo
  <2>4. QED
    BY <1>1, <2>3 DEF K
<1>12. h[m + n] = f[m] \o e[n]
  <2> DEFINE K == {i \in 0 .. n : h[m + i] = f[m] \o e[i]}
  <2>1. 0 \in K
    <3>1. m + 0 = m /\ 0 \in 0 .. n /\ m \in 0 .. m
      BY <1>1
    <3>2. f[m] \o e[0] = f[m]
      BY <1>8, <1>9, <3>1, ConcatEmptySeq
    <3>3. QED
      BY <1>11, <3>1, <3>2
  <2>2. ASSUME NEW i \in Nat, i < n, i \in K
        PROVE  i + 1 \in K
    <3>1. /\ i + 1 \in 1 .. n /\ m + (i + 1) \in 1 .. m + n /\ (i + 1) - 1 = i
          /\ i + 1 \in 0 .. n /\ i \in 0 .. n /\ m \in 0 .. m
          /\ (m + (i + 1)) - 1 = m + i
      BY <1>1, <2>2
    <3>2. h[m + (i + 1)] = h[m + i] \o hs[i + 1]
      BY <1>3, <1>10, <3>1
    <3>3. e[i + 1] = e[i] \o hs[i + 1]
      BY <1>9, <3>1
    <3>4. f[m] \in Seq(S) /\ e[i] \in Seq(S) /\ hs[i + 1] \in Seq(S)
      BY <1>4, <1>8, <1>9, <3>1
    <3>5. PICK a \in Seq(S), b \in Seq(S), c \in Seq(S) :
            a = f[m] /\ b = e[i] /\ c = hs[i + 1]
      BY <3>4
    <3>6. (a \o b) \o c = a \o (b \o c)
      BY SMTT(30), ConcatAssociative
    <3>7. h[m + (i + 1)] = f[m] \o e[i + 1]
      BY <2>2, <3>2, <3>3, <3>5, <3>6
    <3>8. QED
      BY <3>1, <3>7
  <2> HIDE DEF K
  <2>3. 0 .. n \subseteq K
    BY <1>1, <2>1, <2>2, InductionUpTo
  <2>4. n \in K
    BY <1>1, <2>3
  <2>5. QED
    BY <2>4 DEF K
<1>13. m \in 0 .. m
  BY <1>1
<1>14. QED
  BY <1>8, <1>9, <1>10, <1>12, <1>13 DEF us

\* The flattening of no sequence and of one.
LEMMA FlatFew ==
  /\ FlattenSeq(<<>>) = <<>>
  /\ \A S : \A g \in Seq(S) : <<g>> \in Seq(Seq(S)) /\ FlattenSeq(<<g>>) = g
<1>1. FlattenSeq(<<>>) = <<>>
  BY DEF FlattenSeq
<1>2. ASSUME NEW S, NEW g \in Seq(S)
      PROVE  <<g>> \in Seq(Seq(S)) /\ FlattenSeq(<<g>>) = g
  <2>1. <<g>> \in Seq(Seq(S)) /\ Len(<<g>>) = 1 /\ <<g>>[1] = g
    OBVIOUS
  <2> DEFINE gs == <<g>>
  <2>2. gs \in Seq(Seq(S)) /\ Len(gs) = 1 /\ gs[1] = g
    BY <2>1
  <2> HIDE DEF gs
  <2>3. PICK f : FlatSoFar(f, S, gs)
    BY <2>2, FlatExists
  <2>4. f[0] = <<>> /\ f[1] = f[0] \o g /\ FlattenSeq(gs) = f[1]
    <3>1. 1 \in 1 .. Len(gs) /\ 1 - 1 = 0
      BY <2>2
    <3>2. f[1] = f[1 - 1] \o gs[1] /\ f[0] = <<>> /\ FlattenSeq(gs) = f[Len(gs)]
      BY <2>3, <3>1 DEF FlatSoFar
    <3>3. QED
      BY <2>2, <3>1, <3>2
  <2>5. <<>> \o g = g
    BY ConcatEmptySeq
  <2>6. QED
    BY <2>1, <2>4, <2>5 DEF gs
<1>3. QED
  BY <1>1, <1>2

-------------------------------------------------------------------------------
(***************************************************************************)
(* The first elements of a sequence, one by one.                           *)
(***************************************************************************)
\* One more element of a sequence is its next one.
LEMMA OneMoreElement ==
  ASSUME NEW S, NEW s \in Seq(S)
  PROVE  /\ SubSeq(s, 1, 0) = <<>> /\ SubSeq(s, 1, Len(s)) = s
         /\ \A n \in 1 .. Len(s) :
              /\ SubSeq(s, 1, n) = Append(SubSeq(s, 1, n - 1), s[n])
              /\ SubSeq(s, 1, n - 1) \in Seq(S) /\ s[n] \in S
<1>1. Len(s) \in Nat /\ \A i \in 1 .. Len(s) : s[i] \in S
  BY LenProperties, ElementOfSeq
<1>2. SubSeq(s, 1, 0) = <<>>
  BY <1>1
<1>3. SubSeq(s, 1, Len(s)) = s
  BY <1>1
<1>4. ASSUME NEW n \in 1 .. Len(s)
      PROVE  /\ SubSeq(s, 1, n) = Append(SubSeq(s, 1, n - 1), s[n])
             /\ SubSeq(s, 1, n - 1) \in Seq(S) /\ s[n] \in S
  <2> DEFINE t == SubSeq(s, 1, n - 1)
             u == SubSeq(s, 1, n)
             v == Append(t, s[n])
  <2>1. n - 1 \in 0 .. Len(s) /\ n \in 0 .. Len(s) /\ (n - 1) + 1 = n
    BY <1>1
  <2>2. t \in Seq(S) /\ Len(t) = n - 1 /\ \A i \in 1 .. n - 1 : t[i] = s[i]
    BY <1>1, <2>1
  <2>3. u \in Seq(S) /\ Len(u) = n /\ \A i \in 1 .. n : u[i] = s[i]
    BY <1>1, <2>1
  <2>4. s[n] \in S
    BY <1>1
  <2> HIDE DEF t, u
  <2>5. /\ v \in Seq(S) /\ Len(v) = n /\ v[n] = s[n]
        /\ \A i \in 1 .. n - 1 : v[i] = t[i]
    BY <2>1, <2>2, <2>4, AppendProperties
  <2>6. \A i \in 1 .. n : u[i] = v[i]
    <3>1. \A i \in 1 .. n : i = n \/ i \in 1 .. n - 1
      OBVIOUS
    <3>2. QED
      BY <2>2, <2>3, <2>5, <3>1
  <2> HIDE DEF v
  <2>7. u = v
    BY <2>3, <2>5, <2>6, SeqEqual
  <2>8. QED
    BY <2>2, <2>4, <2>7 DEF t, u, v
<1>5. QED
  BY <1>2, <1>3, <1>4

\* A sequence is one of its elements.
LEMMA SeqOfMembers ==
  ASSUME NEW S, NEW s \in Seq(S)
  PROVE  /\ DOMAIN s = 1 .. Len(s) /\ Len(s) \in Nat
         /\ \A i \in 1 .. Len(s) : s[i] \in Members(s)
         /\ \A T : Members(s) \subseteq T => s \in Seq(T)
<1>1. DOMAIN s = 1 .. Len(s) /\ Len(s) \in Nat
  BY LenProperties
<1>2. \A i \in 1 .. Len(s) : s[i] \in Members(s)
  BY <1>1 DEF Members
<1>3. ASSUME NEW T, Members(s) \subseteq T
      PROVE  s \in Seq(T)
  <2>1. \A i \in 1 .. Len(s) : s[i] \in T
    BY <1>2, <1>3
  <2>2. QED
    BY <1>1, <2>1
<1>4. QED
  BY <1>1, <1>2, <1>3

-------------------------------------------------------------------------------
(***************************************************************************)
(* The lists of ls from the one at k on: what they have, and that each     *)
(* element of X is in one of them, once.                                   *)
(***************************************************************************)
AllOf(ls, k) == UNION {Members(ls[i]) : i \in {j \in DOMAIN ls : j >= k}}

EachOnce(ls, k, X) ==
  /\ \A i \in DOMAIN ls : i >= k => OnceIn(ls[i], X)
  /\ \A i, j \in DOMAIN ls :
       i >= k /\ j >= k /\ i # j => NoneShared(Members(ls[i]), Members(ls[j]), X)

\* Behind the last list there is none.
LEMMA NoListsLeft ==
  ASSUME NEW S, NEW ls \in Seq(S), NEW k \in Nat, Len(ls) < k
  PROVE  AllOf(ls, k) = {} /\ \A X : EachOnce(ls, k, X)
<1>1. \A i \in DOMAIN ls : ~(i >= k)
  BY LenProperties
<1>2. AllOf(ls, k) = {}
  BY <1>1 DEF AllOf
<1>3. QED
  BY <1>1, <1>2 DEF EachOnce

\* Of the lists cut in two, each is on one side.
LEMMA ListsCut ==
  ASSUME NEW S, NEW fs \in Seq(Seq(S)), NEW w \in 0 .. Len(fs)
  PROVE  LET a == SubSeq(fs, 1, w)
             b == SubSeq(fs, w + 1, Len(fs))
         IN  /\ a \in Seq(Seq(S)) /\ b \in Seq(Seq(S)) /\ Len(a) = w /\ Len(b) = Len(fs) - w
             /\ AllOf(fs, 1) = AllOf(a, 1) \cup AllOf(b, 1)
             /\ \A X : EachOnce(fs, 1, X) =>
                  /\ EachOnce(a, 1, X) /\ EachOnce(b, 1, X)
                  /\ NoneShared(AllOf(a, 1), AllOf(b, 1), X)
<1> DEFINE a == SubSeq(fs, 1, w)
           b == SubSeq(fs, w + 1, Len(fs))
           n == Len(fs)
<1>1. n \in Nat /\ DOMAIN fs = 1 .. n
  BY LenProperties
<1>2. /\ a \in Seq(Seq(S)) /\ Len(a) = w /\ DOMAIN a = 1 .. w
      /\ \A i \in 1 .. w : a[i] = fs[i]
  BY <1>1
<1>3. /\ b \in Seq(Seq(S)) /\ Len(b) = n - w /\ DOMAIN b = 1 .. n - w
      /\ \A i \in 1 .. n - w : b[i] = fs[w + i]
  <2>1. b \in Seq(Seq(S)) /\ Len(b) = n - w
    BY CutMembers
  <2>2. \A i \in 1 .. n - w : b[i] = fs[(w + 1) + i - 1]
    BY <1>1
  <2>3. \A i \in 1 .. n - w : (w + 1) + i - 1 = w + i
    BY <1>1
  <2>4. QED
    BY <2>1, <2>2, <2>3, LenProperties
<1> HIDE DEF a, b, n
<1>4. AllOf(a, 1) = UNION {Members(fs[i]) : i \in 1 .. w}
  <2>1. {j \in DOMAIN a : j >= 1} = 1 .. w
    BY <1>1, <1>2
  <2>2. QED
    BY <1>2, <2>1 DEF AllOf
<1>5. AllOf(b, 1) = UNION {Members(fs[w + i]) : i \in 1 .. n - w}
  <2>1. {j \in DOMAIN b : j >= 1} = 1 .. n - w
    BY <1>1, <1>3
  <2>2. QED
    BY <1>3, <2>1 DEF AllOf
<1>6. AllOf(fs, 1) = UNION {Members(fs[i]) : i \in 1 .. n}
  <2>1. {j \in DOMAIN fs : j >= 1} = 1 .. n
    BY <1>1
  <2>2. QED
    BY <2>1 DEF AllOf
<1>7. /\ \A i \in 1 .. n : i \in 1 .. w \/ (i - w \in 1 .. n - w /\ w + (i - w) = i)
      /\ \A i \in 1 .. w : i \in 1 .. n
      /\ \A i \in 1 .. n - w : w + i \in 1 .. n
  BY <1>1 DEF n
<1>8. AllOf(fs, 1) = AllOf(a, 1) \cup AllOf(b, 1)
  <2>1. ASSUME NEW x \in AllOf(fs, 1)
        PROVE  x \in AllOf(a, 1) \cup AllOf(b, 1)
    <3>1. PICK i \in 1 .. n : x \in Members(fs[i])
      BY <1>6
    <3>2. CASE i \in 1 .. w
      BY <1>4, <3>1, <3>2
    <3>3. CASE i - w \in 1 .. n - w /\ w + (i - w) = i
      BY <1>5, <3>1, <3>3
    <3>4. QED
      BY <1>7, <3>2, <3>3
  <2>2. AllOf(a, 1) \subseteq AllOf(fs, 1)
    BY <1>4, <1>6, <1>7
  <2>3. AllOf(b, 1) \subseteq AllOf(fs, 1)
    BY <1>5, <1>6, <1>7
  <2>4. QED
    BY <2>1, <2>2, <2>3
<1>9. ASSUME NEW X, EachOnce(fs, 1, X)
      PROVE  /\ EachOnce(a, 1, X) /\ EachOnce(b, 1, X)
             /\ NoneShared(AllOf(a, 1), AllOf(b, 1), X)
  <2>1. /\ \A i \in 1 .. n : OnceIn(fs[i], X)
        /\ \A i, j \in 1 .. n : i # j => NoneShared(Members(fs[i]), Members(fs[j]), X)
    <3>1. \A i \in 1 .. n : i \in DOMAIN fs /\ i >= 1
      BY <1>1
    <3>2. QED
      BY <1>9, <3>1 DEF EachOnce
  <2>2. EachOnce(a, 1, X)
    BY <1>2, <1>7, <2>1 DEF EachOnce
  <2>3. EachOnce(b, 1, X)
    <3>1. \A i, j \in 1 .. n - w : i # j => w + i # w + j
      BY <1>1
    <3>2. QED
      BY <1>3, <1>7, <2>1, <3>1 DEF EachOnce
  <2>4. NoneShared(AllOf(a, 1), AllOf(b, 1), X)
    <3>1. SUFFICES ASSUME NEW i \in 1 .. w, NEW j \in 1 .. n - w,
                          NEW x \in Members(fs[i]), x \in Members(fs[w + j])
                   PROVE  x \notin X
      BY <1>4, <1>5 DEF NoneShared
    <3>2. i # w + j
      BY <1>1
    <3>3. QED
      BY <1>7, <2>1, <3>1, <3>2 DEF NoneShared
  <2>5. QED
    BY <2>2, <2>3, <2>4
<1>10. QED
  BY <1>2, <1>3, <1>8, <1>9 DEF a, b, n

\* A piece taken from one of the lists.
LEMMA PieceCut ==
  ASSUME NEW S, NEW ls \in Seq(Seq(S)), NEW k \in Nat, NEW i \in DOMAIN ls, i >= k,
         NEW n \in 0 .. Len(ls[i])
  PROVE  LET p == SubSeq(ls[i], 1, n)
             m == [ls EXCEPT ![i] = SubSeq(@, n + 1, Len(@))]
         IN  /\ p \in Seq(S) /\ Len(p) = n /\ m \in Seq(Seq(S)) /\ Len(m) = Len(ls)
             /\ m[i] = SubSeq(ls[i], n + 1, Len(ls[i])) /\ Len(m[i]) = Len(ls[i]) - n
             /\ AllOf(ls, k) = Members(p) \cup AllOf(m, k)
             /\ \A X : EachOnce(ls, k, X) =>
                  /\ OnceIn(p, X) /\ EachOnce(m, k, X)
                  /\ NoneShared(Members(p), AllOf(m, k), X)
<1> DEFINE p == SubSeq(ls[i], 1, n)
           q == SubSeq(ls[i], n + 1, Len(ls[i]))
           m == [ls EXCEPT ![i] = SubSeq(@, n + 1, Len(@))]
<1>1. PICK l \in Seq(S) : l = ls[i]
  BY LenProperties, ElementOfSeq
<1>2. /\ p \in Seq(S) /\ q \in Seq(S) /\ Len(p) = n /\ Len(q) = Len(l) - n
      /\ Members(p) \cup Members(q) = Members(l)
      /\ \A X : OnceIn(l, X) =>
           OnceIn(p, X) /\ OnceIn(q, X) /\ NoneShared(Members(p), Members(q), X)
  BY <1>1, CutMembers
<1>3. m = [ls EXCEPT ![i] = q]
  OBVIOUS
<1> HIDE DEF p, q, m
<1>4. /\ m \in Seq(Seq(S)) /\ Len(m) = Len(ls) /\ DOMAIN m = DOMAIN ls
      /\ m[i] = q /\ \A j \in DOMAIN ls : j # i => m[j] = ls[j]
  BY <1>2, <1>3
<1>5. AllOf(ls, k) = Members(p) \cup AllOf(m, k)
  <2>1. ASSUME NEW x
        PROVE  x \in AllOf(ls, k) <=> x \in Members(p) \/ x \in AllOf(m, k)
    <3>1. x \in AllOf(ls, k) <=> \E j \in DOMAIN ls : j >= k /\ x \in Members(ls[j])
      BY DEF AllOf
    <3>2. x \in AllOf(m, k) <=> \E j \in DOMAIN ls : j >= k /\ x \in Members(m[j])
      BY <1>4 DEF AllOf
    <3>3. x \in Members(ls[i]) <=> x \in Members(p) \/ x \in Members(m[i])
      BY <1>1, <1>2, <1>4
    <3>4. \A j \in DOMAIN ls : j # i => Members(m[j]) = Members(ls[j])
      BY <1>4
    <3>5. QED
      BY <3>1, <3>2, <3>3, <3>4
  <2>2. QED
    BY <2>1
<1>6. ASSUME NEW X, EachOnce(ls, k, X)
      PROVE  /\ OnceIn(p, X) /\ EachOnce(m, k, X)
             /\ NoneShared(Members(p), AllOf(m, k), X)
  <2>1. /\ \A j \in DOMAIN ls : j >= k => OnceIn(ls[j], X)
        /\ \A j, h \in DOMAIN ls : j >= k /\ h >= k /\ j # h =>
             NoneShared(Members(ls[j]), Members(ls[h]), X)
    BY <1>6 DEF EachOnce
  <2>2. OnceIn(p, X) /\ OnceIn(q, X) /\ NoneShared(Members(p), Members(q), X)
    BY <1>1, <1>2, <2>1
  <2>3. \A j \in DOMAIN ls : Members(m[j]) \subseteq Members(ls[j])
    BY <1>1, <1>2, <1>4
  <2>4. EachOnce(m, k, X)
    <3>1. \A j \in DOMAIN m : j >= k => OnceIn(m[j], X)
      BY <1>4, <2>1, <2>2
    <3>2. \A j, h \in DOMAIN m : j >= k /\ h >= k /\ j # h =>
            NoneShared(Members(m[j]), Members(m[h]), X)
      BY <1>4, <2>1, <2>3 DEF NoneShared
    <3>3. QED
      BY <3>1, <3>2 DEF EachOnce
  <2>5. NoneShared(Members(p), AllOf(m, k), X)
    <3>1. SUFFICES ASSUME NEW x \in Members(p), NEW j \in DOMAIN ls, j >= k, x \in Members(m[j])
                   PROVE  x \notin X
      BY <1>4 DEF NoneShared, AllOf
    <3>2. CASE j = i
      BY <1>4, <2>2, <3>1, <3>2 DEF NoneShared
    <3>3. CASE j # i
      <4>1. x \in Members(ls[i]) /\ x \in Members(ls[j])
        BY <1>1, <1>2, <1>4, <3>1, <3>3
      <4>2. QED
        BY <2>1, <3>1, <3>3, <4>1 DEF NoneShared
    <3>4. QED
      BY <3>2, <3>3
  <2>6. QED
    BY <2>2, <2>4, <2>5
<1>7. QED
  BY <1>1, <1>2, <1>4, <1>5, <1>6 DEF p, q, m

\* The lists behind the first one.
LEMMA NextListLeft ==
  ASSUME NEW S, NEW ls \in Seq(Seq(S)), NEW k \in DOMAIN ls
  PROVE  /\ ls[k] \in Seq(S)
         /\ AllOf(ls, k) = Members(ls[k]) \cup AllOf(ls, k + 1)
         /\ \A X : EachOnce(ls, k, X) =>
              /\ OnceIn(ls[k], X) /\ EachOnce(ls, k + 1, X)
              /\ NoneShared(Members(ls[k]), AllOf(ls, k + 1), X)
<1>1. DOMAIN ls = 1 .. Len(ls) /\ Len(ls) \in Nat /\ ls[k] \in Seq(S)
  BY LenProperties, ElementOfSeq
<1>2. \A j \in DOMAIN ls : j >= k <=> j = k \/ j >= k + 1
  BY <1>1
<1>3. ~(k >= k + 1) /\ k >= k
  BY <1>1
<1>4. AllOf(ls, k) = Members(ls[k]) \cup AllOf(ls, k + 1)
  <2>1. ASSUME NEW x
        PROVE  x \in AllOf(ls, k) <=> x \in Members(ls[k]) \/ x \in AllOf(ls, k + 1)
    <3>1. x \in AllOf(ls, k) <=> \E j \in DOMAIN ls : j >= k /\ x \in Members(ls[j])
      BY DEF AllOf
    <3>2. x \in AllOf(ls, k + 1) <=> \E j \in DOMAIN ls : j >= k + 1 /\ x \in Members(ls[j])
      BY DEF AllOf
    <3>3. QED
      BY <1>2, <3>1, <3>2
  <2>2. QED
    BY <2>1
<1>5. ASSUME NEW X, EachOnce(ls, k, X)
      PROVE  /\ OnceIn(ls[k], X) /\ EachOnce(ls, k + 1, X)
             /\ NoneShared(Members(ls[k]), AllOf(ls, k + 1), X)
  <2>1. OnceIn(ls[k], X) /\ EachOnce(ls, k + 1, X)
    BY <1>2, <1>3, <1>5 DEF EachOnce
  <2>2. \A j \in DOMAIN ls : j >= k + 1 => NoneShared(Members(ls[k]), Members(ls[j]), X)
    BY <1>2, <1>3, <1>5 DEF EachOnce
  <2>3. NoneShared(Members(ls[k]), AllOf(ls, k + 1), X)
    BY <2>2 DEF NoneShared, AllOf
  <2>4. QED
    BY <2>1, <2>3
<1>6. QED
  BY <1>1, <1>4, <1>5

-------------------------------------------------------------------------------
(***************************************************************************)
(* Orders.  W holds the pairs of elements of which the first is not to be  *)
(* before the second.                                                      *)
(***************************************************************************)
Avoids(s, W) == \A i, j \in DOMAIN s : i < j => <<s[i], s[j]>> \notin W

Across(A, B, W) == \A a \in A, b \in B : <<a, b>> \notin W

\* Sequences one behind the other.
LEMMA ConcatAvoids ==
  ASSUME NEW S, NEW s \in Seq(S), NEW t \in Seq(S), NEW W,
         Avoids(s, W), Avoids(t, W), Across(Members(s), Members(t), W)
  PROVE  Avoids(s \o t, W)
<1> DEFINE u == s \o t
           m == Len(s)
           n == Len(t)
<1>1. /\ m \in Nat /\ n \in Nat
      /\ DOMAIN s = 1 .. m /\ DOMAIN t = 1 .. n
  BY LenProperties
<1>2. /\ u \in Seq(S) /\ Len(u) = m + n
      /\ \A i \in 1 .. m + n : u[i] = IF i <= m THEN s[i] ELSE t[i - m]
  BY ConcatProperties
<1>3. DOMAIN u = 1 .. m + n
  BY <1>2, LenProperties
<1> HIDE DEF u, m, n
<1>4. ASSUME NEW i \in 1 .. m + n
      PROVE  \/ i \in 1 .. m /\ u[i] = s[i]
             \/ i - m \in 1 .. n /\ u[i] = t[i - m] /\ i > m
  BY <1>1, <1>2
<1>5. SUFFICES ASSUME NEW i \in 1 .. m + n, NEW j \in 1 .. m + n, i < j
               PROVE  <<u[i], u[j]>> \notin W
  BY <1>3 DEF Avoids, u
<1>6. CASE i \in 1 .. m /\ u[i] = s[i] /\ j \in 1 .. m /\ u[j] = s[j]
  BY <1>1, <1>5, <1>6 DEF Avoids
<1>7. CASE i \in 1 .. m /\ u[i] = s[i] /\ j - m \in 1 .. n /\ u[j] = t[j - m]
  <2>1. s[i] \in Members(s) /\ t[j - m] \in Members(t)
    BY <1>1, <1>7 DEF Members
  <2>2. QED
    BY <1>7, <2>1 DEF Across
<1>8. CASE i - m \in 1 .. n /\ u[i] = t[i - m] /\ j - m \in 1 .. n /\ u[j] = t[j - m]
  <2>1. i - m < j - m
    BY <1>1, <1>5
  <2>2. QED
    BY <1>1, <1>8, <2>1 DEF Avoids
<1>9. QED
  BY <1>1, <1>4, <1>5, <1>6, <1>7, <1>8

\* A sequence cut in two.
LEMMA CutAvoids ==
  ASSUME NEW S, NEW s \in Seq(S), NEW k \in 0 .. Len(s), NEW W, Avoids(s, W)
  PROVE  LET a == SubSeq(s, 1, k)
             b == SubSeq(s, k + 1, Len(s))
         IN  Avoids(a, W) /\ Avoids(b, W) /\ Across(Members(a), Members(b), W)
<1> DEFINE a == SubSeq(s, 1, k)
           b == SubSeq(s, k + 1, Len(s))
           n == Len(s)
<1>1. n \in Nat /\ DOMAIN s = 1 .. n /\ k \in Nat /\ k <= n
  BY LenProperties
<1>2. /\ a \in Seq(S) /\ Len(a) = k /\ DOMAIN a = 1 .. k
      /\ \A i \in 1 .. k : a[i] = s[i]
  BY <1>1
<1>3. /\ b \in Seq(S) /\ Len(b) = n - k /\ DOMAIN b = 1 .. n - k
      /\ \A i \in 1 .. n - k : b[i] = s[k + i]
  <2>1. b \in Seq(S) /\ Len(b) = n - k
    BY CutMembers
  <2>2. \A i \in 1 .. n - k : b[i] = s[(k + 1) + i - 1]
    BY <1>1
  <2>3. \A i \in 1 .. n - k : (k + 1) + i - 1 = k + i
    BY <1>1
  <2>4. QED
    BY <2>1, <2>2, <2>3, LenProperties
<1> HIDE DEF a, b, n
<1>4. /\ \A i \in 1 .. k : i \in 1 .. n
      /\ \A i \in 1 .. n - k : k + i \in 1 .. n
      /\ \A i \in 1 .. k, j \in 1 .. n - k : i < k + j
      /\ \A i, j \in 1 .. n - k : i < j => k + i < k + j
  BY <1>1
<1>5. \A i, j \in 1 .. n : i < j => <<s[i], s[j]>> \notin W
  BY <1>1 DEF Avoids
<1>6. Avoids(a, W)
  BY <1>2, <1>4, <1>5 DEF Avoids
<1>7. Avoids(b, W)
  BY <1>3, <1>4, <1>5 DEF Avoids
<1>8. Across(Members(a), Members(b), W)
  BY <1>2, <1>3, <1>4, <1>5 DEF Across, Members
<1>9. QED
  BY <1>6, <1>7, <1>8 DEF a, b, n

\* No element or one.
LEMMA FewAvoid ==
  \A W : Avoids(<<>>, W) /\ \A x : Avoids(<<x>>, W)
BY DEF Avoids

\* The elements that are kept, and a sequence turned around.
LEMMA KeptAvoids ==
  ASSUME NEW S, NEW s \in Seq(S), NEW I, NEW W, Avoids(s, W)
  PROVE  Avoids(Kept(s, I), W)
<1>1. PICK t \in Seq(S) : t = Kept(s, I)
  BY KeptSelects
<1>2. PICK e : Selects(e, s, I, t, Len(s))
  BY <1>1, KeptSelects
<1>3. DOMAIN t = 1 .. Len(t) /\ DOMAIN s = 1 .. Len(s)
  BY LenProperties
<1>4. /\ \A k \in DOMAIN t : e[k] \in DOMAIN s /\ t[k] = s[e[k]]
      /\ \A k, l \in DOMAIN t : k < l => e[k] < e[l]
  BY <1>2, <1>3 DEF Selects
<1>5. Avoids(t, W)
  BY <1>4 DEF Avoids
<1>6. QED
  BY <1>1, <1>5

LEMMA ReverseAvoids ==
  ASSUME NEW S, NEW s \in Seq(S), NEW W, Avoids(s, W),
         NEW V, \A a, b : <<a, b>> \in V => <<b, a>> \in W
  PROVE  Avoids(Reverse(s), V)
<1> DEFINE n == Len(s)
           r == Reverse(s)
<1>1. n \in Nat /\ DOMAIN s = 1 .. n
  BY LenProperties
<1>2. r = [i \in 1 .. n |-> s[(n - i) + 1]]
  BY DEF Reverse
<1> HIDE DEF r, n
<1>3. /\ \A i \in 1 .. n : (n - i) + 1 \in 1 .. n
      /\ \A i, j \in 1 .. n : i < j => (n - j) + 1 < (n - i) + 1
  BY <1>1
<1>4. ASSUME NEW i \in DOMAIN r, NEW j \in DOMAIN r, i < j
      PROVE  <<r[i], r[j]>> \notin V
  <2>1. <<s[(n - j) + 1], s[(n - i) + 1]>> \notin W
    BY <1>1, <1>2, <1>3, <1>4 DEF Avoids
  <2>2. QED
    BY <1>2, <1>4, <2>1
<1>5. QED
  BY <1>4 DEF Avoids, r

(***************************************************************************)
(* The relation orders S but for elements that it does not tell apart.     *)
(***************************************************************************)
Ranks(before, S) ==
  \A a, b \in S :
    <<a, b>> \in before =>
      <<b, a>> \notin before
      /\ \A c \in S : <<a, c>> \in before \/ <<c, b>> \in before

(***************************************************************************)
(* The pairs of S the wrong way round.                                     *)
(***************************************************************************)
Unsorted(before, S) == {p \in S \X S : <<p[2], p[1]>> \in before}

\* Inserting an element into a sorted sequence.
LEMMA InsertSorts ==
  ASSUME NEW S, NEW t \in Seq(S), NEW e \in S, NEW before, Ranks(before, S),
         Avoids(t, Unsorted(before, S))
  PROVE  Avoids(InsertBy(t, e, before), Unsorted(before, S))
<1> DEFINE L == {0} \cup {i \in DOMAIN t : <<e, t[i]>> \notin before}
           V == Unsorted(before, S)
<1>1. Len(t) \in Nat /\ DOMAIN t = 1 .. Len(t) /\ \A i \in 1 .. Len(t) : t[i] \in S
  BY LenProperties, ElementOfSeq
<1>2. PICK p \in 0 .. Len(t) : p = Max(L) /\ p \in L /\ \A y \in L : y <= p
  <2>1. L \subseteq 0 .. Len(t) /\ L # {}
    BY <1>1
  <2>2. L \subseteq Int /\ \A y \in L : y <= Len(t)
    BY <1>1, <2>1
  <2> HIDE DEF L
  <2>3. \E x \in L : \A y \in L : y <= x
    <3>1. PICK b : b = Len(t)
      OBVIOUS
    <3>2. b \in Int /\ \A y \in L : y <= b
      BY <1>1, <2>2, <3>1
    <3>3. QED
      BY <2>1, <2>2, <3>2, GreatestElement
  <2>4. \E x \in L : \A y \in L : x >= y
    BY <2>2, <2>3
  <2>5. Max(L) \in L /\ \A y \in L : Max(L) >= y
    BY <2>4 DEF Max
  <2>6. \A y \in L : y <= Max(L)
    BY <2>2, <2>5
  <2>7. QED
    BY <2>1, <2>5, <2>6
<1> DEFINE a == SubSeq(t, 1, p)
           b == SubSeq(t, p + 1, Len(t))
           o == <<e>>
<1>3. InsertBy(t, e, before) = (a \o o) \o b
  <2>1. InsertBy(t, e, before) = InsertAt(t, 1 + p, e)
    BY <1>2 DEF InsertBy
  <2>2. (1 + p) - 1 = p /\ 1 + p = p + 1
    BY <1>1
  <2>3. QED
    BY <2>1, <2>2 DEF InsertAt
<1>4. a \in Seq(S) /\ b \in Seq(S) /\ o \in Seq(S) /\ Members(o) = {e}
  BY CutMembers, FewMembers
<1>5. /\ Avoids(a, V) /\ Avoids(b, V) /\ Avoids(o, V)
      /\ Across(Members(a), Members(b), V)
  BY CutAvoids, FewAvoid
<1>6. \A x \in Members(a) : <<e, x>> \notin before
  <2>1. \A i \in 1 .. p : i \in DOMAIN t /\ a[i] = t[i]
    BY <1>1
  <2>2. DOMAIN a = 1 .. p
    BY <1>1, <1>4
  <2>3. SUFFICES ASSUME NEW i \in 1 .. p, <<e, t[i]>> \in before
                 PROVE  FALSE
    BY <2>1, <2>2 DEF Members
  <2>4. p \in DOMAIN t /\ <<e, t[p]>> \notin before /\ p # i
    <3>1. p # 0 /\ p \in DOMAIN t
      BY <1>1, <2>3
    <3>2. <<e, t[p]>> \notin before
      BY <1>2, <3>1
    <3>3. QED
      BY <2>3, <3>1, <3>2
  <2>5. i < p /\ i \in DOMAIN t
    BY <1>1, <2>4
  <2>6. <<t[i], t[p]>> \notin V
    BY <2>4, <2>5 DEF Avoids
  <2>7. t[i] \in S /\ t[p] \in S
    BY <1>1, <2>4, <2>5
  <2>8. <<t[p], t[i]>> \notin before
    BY <2>6, <2>7 DEF Unsorted
  <2>9. QED
    BY <2>3, <2>4, <2>7, <2>8 DEF Ranks
<1>7. \A x \in Members(b) : <<e, x>> \in before
  <2>1. DOMAIN b = 1 .. Len(t) - p /\ \A i \in 1 .. Len(t) - p : b[i] = t[p + i]
    <3>1. b \in Seq(S) /\ Len(b) = Len(t) - p
      BY CutMembers
    <3>2. \A i \in 1 .. Len(t) - p : b[i] = t[(p + 1) + i - 1]
      BY <1>1
    <3>3. \A i \in 1 .. Len(t) - p : (p + 1) + i - 1 = p + i
      BY <1>1
    <3>4. QED
      BY <3>1, <3>2, <3>3, LenProperties
  <2>2. \A i \in 1 .. Len(t) - p : p + i \in DOMAIN t /\ ~(p + i <= p)
    BY <1>1
  <2>3. \A i \in 1 .. Len(t) - p : <<e, t[p + i]>> \in before
    BY <1>2, <2>2
  <2>4. QED
    BY <2>1, <2>3 DEF Members
<1> HIDE DEF a, b, o, V, L
<1>8. Across(Members(a), Members(o), V)
  BY <1>4, <1>6 DEF Across, V, Unsorted
<1>9. Across(Members(o), Members(b), V)
  <2>1. \A x \in Members(b) : x \in S
    BY <1>4, LenProperties, ElementOfSeq DEF Members
  <2>2. \A x \in Members(b) : <<x, e>> \notin before
    BY <1>7, <2>1 DEF Ranks
  <2>3. QED
    BY <1>4, <2>2 DEF Across, V, Unsorted
<1> DEFINE c == a \o o
<1>10. c \in Seq(S) /\ Avoids(c, V) /\ Members(c) = Members(a) \cup Members(o)
  BY ZenonT(60), <1>4, <1>5, <1>8, ConcatAvoids, ConcatMembers
<1> HIDE DEF c
<1>11. Across(Members(c), Members(b), V)
  BY <1>5, <1>9, <1>10 DEF Across
<1>12. Avoids(c \o b, V)
  BY <1>4, <1>5, <1>10, <1>11, ConcatAvoids
<1>13. QED
  BY <1>3, <1>12 DEF c, V

\* A sorted sequence has no two elements the wrong way round.
LEMMA SortedAvoids ==
  ASSUME NEW S, NEW s \in Seq(S), NEW before, Ranks(before, S)
  PROVE  Avoids(SortedBy(s, before), Unsorted(before, S))
<1> DEFINE len == Len(s)
           V(n) == {t \in Seq(S) : Avoids(t, Unsorted(before, S))}
           b == <<>>
           Step(r, n) == InsertBy(r, s[n], before)
           From(g, n) == IF n = 0 THEN b ELSE Step(g[n - 1], n)
           Vs == [n \in 0 .. len |-> V(n)]
           step == [n \in 1 .. len |-> [r \in V(n - 1) |-> Step(r, n)]]
<1>1. len \in Nat /\ b \in V(0)
  BY FewMembers, FewAvoid, LenProperties
<1>2. \A n \in 1 .. len : \A r \in V(n - 1) : Step(r, n) \in V(n)
  <2> SUFFICES ASSUME NEW n \in 1 .. len, NEW t \in V(n - 1)
               PROVE  Step(t, n) \in V(n)
    OBVIOUS
  <2>1. PICK e \in S : e = s[n]
    BY LenProperties, ElementOfSeq
  <2>2. t \in Seq(S) /\ Avoids(t, Unsorted(before, S))
    OBVIOUS
  <2>3. InsertBy(t, e, before) \in Seq(S)
    BY <2>2, InsertMembers
  <2>4. Avoids(InsertBy(t, e, before), Unsorted(before, S))
    BY <2>2, InsertSorts DEF Unsorted
  <2>5. QED
    BY <2>1, <2>3, <2>4
<1>3. SortedBy(s, before) = (CHOOSE g : g = [n \in 0 .. len |-> From(g, n)])[len]
  BY DEF SortedBy, Through
<1> HIDE DEF V, len, b, Step
<1>4. /\ \A n \in 0 .. len : Vs[n] = V(n)
      /\ \A n \in 1 .. len : n - 1 \in 0 .. len /\ n \in 0 .. len
      /\ \A n \in 1 .. len : \A r \in V(n - 1) : step[n][r] = Step(r, n)
  BY <1>1
<1> HIDE DEF Vs, step
<1>5. b \in Vs[0] /\ StaysIn(step, len, Vs)
  BY <1>1, <1>2, <1>4 DEF StaysIn
<1>6. PICK f : Solution(f, len, Vs, b, step)
  BY <1>1, <1>5, Recursion
<1>7. f = [n \in 0 .. len |-> From(f, n)]
  <2>1. \A n \in 1 .. len : f[n] = Step(f[n - 1], n)
    BY <1>4, <1>6 DEF Solution
  <2>2. \A n \in 0 .. len : f[n] = From(f, n)
    <3>1. \A n \in 0 .. len : n = 0 \/ (n # 0 /\ n \in 1 .. len)
      BY <1>1
    <3>2. f[0] = b
      BY <1>6 DEF Solution
    <3>3. QED
      BY <2>1, <3>1, <3>2
  <2> HIDE DEF From
  <2>3. QED
    BY <1>6, <2>2 DEF Solution
<1> DEFINE g == CHOOSE h : h = [n \in 0 .. len |-> From(h, n)]
<1>8. g = [n \in 0 .. len |-> From(g, n)]
  <2> HIDE DEF From
  <2>1. QED
    BY <1>7
<1> HIDE DEF g
<1>9. g[len] \in V(len)
  <2> DEFINE K == {n \in 0 .. len : g[n] \in V(n)}
  <2>1. 0 \in K
    BY <1>1, <1>8
  <2>2. ASSUME NEW n \in Nat, n < len, n \in K
        PROVE  n + 1 \in K
    <3>1. n + 1 \in 1 .. len /\ n + 1 \in 0 .. len /\ (n + 1) - 1 = n /\ n + 1 # 0
      BY <1>1, <2>2
    <3>2. g[n + 1] = Step(g[n], n + 1)
      BY <1>8, <3>1
    <3>3. QED
      BY <1>2, <2>2, <3>1, <3>2
  <2> HIDE DEF K
  <2>3. 0 .. len \subseteq K
    BY <1>1, <2>1, <2>2, InductionUpTo
  <2>4. QED
    BY <1>1, <2>3 DEF K
<1>10. QED
  BY <1>3, <1>9 DEF g, V

-------------------------------------------------------------------------------
(***************************************************************************)
(* Lists from the k-th on.  No element of one is before one of another.    *)
(***************************************************************************)
ListsAvoid(ls, k, W) ==
  /\ \A i \in DOMAIN ls : i >= k => Avoids(ls[i], W)
  /\ \A i, j \in DOMAIN ls :
       i >= k /\ j >= k /\ i # j => Across(Members(ls[i]), Members(ls[j]), W)

\* Of the lists cut in two, each is on one side.
LEMMA ListsCutAvoid ==
  ASSUME NEW S, NEW fs \in Seq(Seq(S)), NEW w \in 0 .. Len(fs), NEW W,
         ListsAvoid(fs, 1, W)
  PROVE  LET a == SubSeq(fs, 1, w)
             b == SubSeq(fs, w + 1, Len(fs))
         IN  /\ ListsAvoid(a, 1, W) /\ ListsAvoid(b, 1, W)
             /\ Across(AllOf(a, 1), AllOf(b, 1), W)
<1> DEFINE a == SubSeq(fs, 1, w)
           b == SubSeq(fs, w + 1, Len(fs))
           n == Len(fs)
<1>1. n \in Nat /\ DOMAIN fs = 1 .. n
  BY LenProperties
<1>2. /\ a \in Seq(Seq(S)) /\ Len(a) = w /\ DOMAIN a = 1 .. w
      /\ \A i \in 1 .. w : a[i] = fs[i]
  BY <1>1
<1>3. /\ b \in Seq(Seq(S)) /\ Len(b) = n - w /\ DOMAIN b = 1 .. n - w
      /\ \A i \in 1 .. n - w : b[i] = fs[w + i]
  <2>1. b \in Seq(Seq(S)) /\ Len(b) = n - w
    BY CutMembers
  <2>2. \A i \in 1 .. n - w : b[i] = fs[(w + 1) + i - 1]
    BY <1>1
  <2>3. \A i \in 1 .. n - w : (w + 1) + i - 1 = w + i
    BY <1>1
  <2>4. QED
    BY <2>1, <2>2, <2>3, LenProperties
<1>4. /\ \A i \in 1 .. w : i \in 1 .. n
      /\ \A i \in 1 .. n - w : w + i \in 1 .. n
      /\ \A i \in 1 .. w, j \in 1 .. n - w : i # w + j
      /\ \A i, j \in 1 .. n - w : i # j => w + i # w + j
  BY <1>1
<1> HIDE DEF a, b, n
<1>5. /\ \A i \in 1 .. n : Avoids(fs[i], W)
      /\ \A i, j \in 1 .. n : i # j => Across(Members(fs[i]), Members(fs[j]), W)
  <2>1. \A i \in 1 .. n : i \in DOMAIN fs /\ i >= 1
    BY <1>1
  <2>2. QED
    BY <2>1 DEF ListsAvoid
<1>6. ListsAvoid(a, 1, W)
  BY <1>2, <1>4, <1>5 DEF ListsAvoid
<1>7. ListsAvoid(b, 1, W)
  BY <1>3, <1>4, <1>5 DEF ListsAvoid
<1>8. Across(AllOf(a, 1), AllOf(b, 1), W)
  <2>1. SUFFICES ASSUME NEW x \in AllOf(a, 1), NEW y \in AllOf(b, 1)
                 PROVE  <<x, y>> \notin W
    BY DEF Across
  <2> PICK i \in 1 .. w : x \in Members(a[i])
    BY <1>2, <2>1 DEF AllOf
  <2> PICK j \in 1 .. n - w : y \in Members(b[j])
    BY <1>3, <2>1 DEF AllOf
  <2>2. x \in Members(fs[i]) /\ y \in Members(fs[w + j])
    BY <1>2, <1>3, <2>1
  <2>3. QED
    BY <1>4, <1>5, <2>2 DEF Across
<1>9. QED
  BY <1>6, <1>7, <1>8 DEF a, b, n

\* A piece taken from the front of one of the lists.
LEMMA PieceCutAvoids ==
  ASSUME NEW S, NEW ls \in Seq(Seq(S)), NEW k \in Nat, NEW i \in DOMAIN ls, i >= k,
         NEW n \in 0 .. Len(ls[i]), NEW W, ListsAvoid(ls, k, W)
  PROVE  LET p == SubSeq(ls[i], 1, n)
             m == [ls EXCEPT ![i] = SubSeq(@, n + 1, Len(@))]
         IN  /\ Avoids(p, W) /\ ListsAvoid(m, k, W)
             /\ Across(Members(p), AllOf(m, k), W)
<1> DEFINE p == SubSeq(ls[i], 1, n)
           q == SubSeq(ls[i], n + 1, Len(ls[i]))
           m == [ls EXCEPT ![i] = SubSeq(@, n + 1, Len(@))]
<1>1. PICK l \in Seq(S) : l = ls[i]
  BY LenProperties, ElementOfSeq
<1>2. Avoids(l, W)
  BY <1>1 DEF ListsAvoid
<1>3. /\ p \in Seq(S) /\ q \in Seq(S)
      /\ Members(p) \cup Members(q) = Members(l)
      /\ Avoids(p, W) /\ Avoids(q, W) /\ Across(Members(p), Members(q), W)
  BY <1>1, <1>2, CutMembers, CutAvoids
<1>4. m = [ls EXCEPT ![i] = q]
  OBVIOUS
<1> HIDE DEF p, q, m
<1>5. /\ DOMAIN m = DOMAIN ls /\ m[i] = q
      /\ \A j \in DOMAIN ls : j # i => m[j] = ls[j]
  BY <1>3, <1>4
<1>6. \A j \in DOMAIN ls : Members(m[j]) \subseteq Members(ls[j])
  BY <1>1, <1>3, <1>5
<1>7. ListsAvoid(m, k, W)
  <2>1. \A j \in DOMAIN m : j >= k => Avoids(m[j], W)
    BY <1>3, <1>5 DEF ListsAvoid
  <2>2. \A j, h \in DOMAIN m : j >= k /\ h >= k /\ j # h =>
          Across(Members(m[j]), Members(m[h]), W)
    BY <1>5, <1>6 DEF ListsAvoid, Across
  <2>3. QED
    BY <2>1, <2>2 DEF ListsAvoid
<1>8. Across(Members(p), AllOf(m, k), W)
  <2>1. SUFFICES ASSUME NEW x \in Members(p), NEW j \in DOMAIN ls, j >= k,
                        NEW y \in Members(m[j])
                 PROVE  <<x, y>> \notin W
    BY <1>5 DEF Across, AllOf
  <2>2. CASE j = i
    BY <1>3, <1>5, <2>1, <2>2 DEF Across
  <2>3. CASE j # i
    <3>1. x \in Members(ls[i]) /\ y \in Members(ls[j])
      BY <1>1, <1>3, <1>5, <2>1, <2>3
    <3>2. QED
      BY <2>1, <2>3, <3>1 DEF ListsAvoid, Across
  <2>4. QED
    BY <2>2, <2>3
<1>9. QED
  BY <1>3, <1>7, <1>8 DEF p, m

\* The lists behind the first one.
LEMMA NextListAvoids ==
  ASSUME NEW S, NEW ls \in Seq(Seq(S)), NEW k \in DOMAIN ls, NEW W, ListsAvoid(ls, k, W)
  PROVE  /\ Avoids(ls[k], W) /\ ListsAvoid(ls, k + 1, W)
         /\ Across(Members(ls[k]), AllOf(ls, k + 1), W)
         /\ Across(AllOf(ls, k + 1), Members(ls[k]), W)
<1>1. DOMAIN ls = 1 .. Len(ls) /\ Len(ls) \in Nat
  BY LenProperties
<1>2. /\ \A j \in DOMAIN ls : j >= k + 1 => j >= k /\ j # k
      /\ k >= k
  BY <1>1
<1>3. Avoids(ls[k], W) /\ ListsAvoid(ls, k + 1, W)
  BY <1>2 DEF ListsAvoid
<1>4. \A j \in DOMAIN ls : j >= k + 1 =>
        /\ Across(Members(ls[k]), Members(ls[j]), W)
        /\ Across(Members(ls[j]), Members(ls[k]), W)
  BY <1>2 DEF ListsAvoid
<1>5. /\ Across(Members(ls[k]), AllOf(ls, k + 1), W)
      /\ Across(AllOf(ls, k + 1), Members(ls[k]), W)
  BY <1>4 DEF Across, AllOf
<1>6. QED
  BY <1>3, <1>5
===============================================================================
