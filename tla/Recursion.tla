------------------------------- MODULE Recursion -------------------------------
(***************************************************************************)
(* Induction over the natural numbers for sets, from the well-foundedness  *)
(* of <, and what it says of functions defined by recursion: the function  *)
(* exists, and there is only one.  The proofs about checksums, packets and *)
(* lists rest on it.                                                       *)
(***************************************************************************)
EXTENDS Integers, WellFoundedInduction, TLAPS

Less == {ss \in Nat \X Nat : ss[1] < ss[2]}

\* A set of numbers that is not empty has a least element.
LEMMA LeastNumber ==
    ASSUME NEW T, T \subseteq Nat, T # {}
    PROVE  \E x \in T : \A y \in T : ~(y < x)
<1>1. IsWellFoundedOn(Less, Nat)
  BY NatLessThanWellFounded DEF OpToRel, Less
<1>2. \E x \in T : \A y \in T : ~(<<y, x>> \in Less)
  BY <1>1, WFMin
<1>3. \A x, y \in Nat : y < x => <<y, x>> \in Less
  BY DEF Less
<1> QED
  BY <1>2, <1>3

\* Induction: a set that has 0 and every successor has every number.
LEMMA NumberInduction ==
    ASSUME NEW S, 0 \in S, \A n \in Nat : n \in S => n + 1 \in S
    PROVE  \A n \in Nat : n \in S
<1> SUFFICES ASSUME NEW n \in Nat, n \notin S
             PROVE  FALSE
  OBVIOUS
<1> DEFINE T == {k \in Nat : k \notin S}
<1>1. PICK x \in T : \A y \in T : ~(y < x)
  <2> T \subseteq Nat /\ T # {}
    OBVIOUS
  <2> HIDE DEF T
  <2> QED
    BY LeastNumber
<1>2. x \in Nat /\ x # 0
  BY <1>1
<1>3. x - 1 \in Nat /\ x - 1 \in S
  BY <1>1, <1>2
<1>4. (x - 1) + 1 \in S
  BY <1>3
<1> QED
  BY <1>1, <1>2, <1>4

-----------------------------------------------------------------------------

\* f takes the steps, one after the other, from base.
Follows(f, N, base, step) ==
    f = [n \in 0..N |-> IF n = 0 THEN base ELSE step[n][f[n - 1]]]

\* Whatever the steps are, a function takes them.
LEMMA RecursionExists ==
    ASSUME NEW Values, NEW N \in Nat, NEW base \in Values,
           NEW step \in [1..N -> [Values -> Values]]
    PROVE  \E f \in [0..N -> Values] : Follows(f, N, base, step)
<1> DEFINE Upto(m, f) == /\ f[0] = base
                         /\ \A n \in 1..m : f[n] = step[n][f[n - 1]]
           S == {m \in Nat : m <= N => \E f \in [0..m -> Values] : Upto(m, f)}
<1>1. 0 \in S
  <2>1. [n \in 0..0 |-> base] \in [0..0 -> Values]
    OBVIOUS
  <2>2. Upto(0, [n \in 0..0 |-> base])
    OBVIOUS
  <2> QED
    BY <2>1, <2>2
<1>2. ASSUME NEW m \in Nat, m \in S
      PROVE  m + 1 \in S
  <2> SUFFICES ASSUME m + 1 <= N
               PROVE  \E g \in [0..(m + 1) -> Values] : Upto(m + 1, g)
    OBVIOUS
  <2>1. PICK f \in [0..m -> Values] : Upto(m, f)
    BY <1>2
  <2> DEFINE g == [n \in 0..(m + 1) |-> IF n <= m THEN f[n] ELSE step[m + 1][f[m]]]
  <2>2. step[m + 1] \in [Values -> Values] /\ f[m] \in Values
    OBVIOUS
  <2>3. g \in [0..(m + 1) -> Values]
    BY <2>2
  <2>4. g[0] = base
    BY <2>1
  <2>5. ASSUME NEW n \in 1..(m + 1)
        PROVE  g[n] = step[n][g[n - 1]]
    <3>1. CASE n <= m
      BY <2>1, <3>1
    <3>2. CASE n = m + 1
      BY <3>2
    <3> QED
      BY <3>1, <3>2
  <2> HIDE DEF g
  <2> QED
    BY <2>3, <2>4, <2>5
<1>3. N \in S
  <2> HIDE DEF S
  <2> QED
    BY <1>1, <1>2, NumberInduction
<1>4. PICK f \in [0..N -> Values] : Upto(N, f)
  BY <1>3
<1>5. f = [n \in 0..N |-> f[n]]
  OBVIOUS
<1>6. \A n \in 0..N : f[n] = IF n = 0 THEN base ELSE step[n][f[n - 1]]
  BY <1>4
<1> QED
  BY <1>5, <1>6 DEF Follows

\* f and g begin with the same value and take the same steps up to m.
InStride(f, g, m) ==
    /\ f[0] = g[0]
    /\ \A n \in 1..m : f[n - 1] = g[n - 1] => f[n] = g[n]

\* Then they are the same up to m.
LEMMA RecursionUnique ==
    ASSUME NEW m \in Nat, NEW f, NEW g, InStride(f, g, m)
    PROVE  \A n \in 0..m : f[n] = g[n]
<1> USE DEF InStride
<1> DEFINE S == {n \in Nat : n <= m => f[n] = g[n]}
<1>1. 0 \in S
  OBVIOUS
<1>2. ASSUME NEW n \in Nat, n \in S
      PROVE  n + 1 \in S
  <2> SUFFICES ASSUME n + 1 <= m
               PROVE  f[n + 1] = g[n + 1]
    OBVIOUS
  <2>1. n + 1 \in 1..m /\ (n + 1) - 1 = n /\ f[n] = g[n]
    BY <1>2
  <2> QED
    BY <2>1
<1>3. \A n \in Nat : n \in S
  <2> HIDE DEF S
  <2> QED
    BY <1>1, <1>2, NumberInduction
<1> QED
  BY <1>3
=============================================================================
