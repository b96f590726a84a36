-------------------------- MODULE RecursionLemmas --------------------------
(* Induction and recursion on natural numbers, said with sets and functions in *)
(* place of operators, so that they can be cited about any of either.          *)
EXTENDS Integers, WellFoundedInduction, TLAPS

\* A set of numbers that has 0, and the successor of each it has, has them all.
LEMMA Induction ==
    ASSUME NEW T, T \subseteq Nat, 0 \in T, \A n \in T : n + 1 \in T
    PROVE  T = Nat
<1> SUFFICES ASSUME Nat \ T # {} PROVE FALSE
  OBVIOUS
<1> DEFINE R == OpToRel(<, Nat)
<1>1. \A i, j \in Nat : i < j => <<i, j>> \in R
  BY DEF OpToRel
<1>2. IsWellFoundedOn(R, Nat)
  BY NatLessThanWellFounded
<1> HIDE DEF R
<1>3. PICK x \in Nat \ T : \A y \in Nat \ T : ~(<<y, x>> \in R)
  BY <1>2, WFMin
<1>4. x # 0 /\ x - 1 \in Nat /\ x - 1 < x
  BY <1>3
<1>5. x - 1 \in T
  BY <1>1, <1>3, <1>4
<1>6. (x - 1) + 1 \in T
  BY <1>5
<1> QED
  BY <1>3, <1>6

\* A function that begins with first, and goes on by turns.
Follows(f, first, turn) == f[0] = first /\ \A n \in Nat : f[n + 1] = turn[n][f[n]]

\* There is one, if each turn stays within a set.
LEMMA Recursion ==
    ASSUME NEW S, NEW b \in S, NEW turn \in [Nat -> [S -> S]]
    PROVE  \E f \in [Nat -> S] : Follows(f, b, turn)
<1> DEFINE Upto(n, f) == /\ f \in [0..n -> S] /\ f[0] = b
                         /\ \A k \in 0..(n - 1) : f[k + 1] = turn[k][f[k]]
           T == {n \in Nat : \E f : Upto(n, f)}
<1>1. 0 \in T
  <2>1. Upto(0, [k \in 0..0 |-> b])
    OBVIOUS
  <2> QED
    BY <2>1
<1>2. \A n \in T : n + 1 \in T
  <2> SUFFICES ASSUME NEW n \in T PROVE n + 1 \in T
    OBVIOUS
  <2>1. PICK f : Upto(n, f)
    <3> HIDE DEF Upto
    <3> QED
      OBVIOUS
  <2> DEFINE g == [k \in 0..(n + 1) |-> IF k = n + 1 THEN turn[n][f[n]] ELSE f[k]]
  <2>2. Upto(n + 1, g)
    <3>1. n \in Nat /\ f \in [0..n -> S] /\ f[n] \in S /\ turn[n] \in [S -> S]
      BY <2>1
    <3>2. g \in [0..(n + 1) -> S] /\ g[0] = b
      BY <2>1, <3>1
    <3>3. ASSUME NEW k \in 0..n PROVE g[k + 1] = turn[k][g[k]]
      <4>1. CASE k = n
        BY <3>1, <4>1
      <4>2. CASE k \in 0..(n - 1)
        <5>1. f[k + 1] = turn[k][f[k]]
          BY <2>1, <4>2
        <5>2. g[k + 1] = f[k + 1] /\ g[k] = f[k]
          BY <3>1, <4>2
        <5> QED
          BY <5>1, <5>2
      <4> QED
        BY <3>1, <4>1, <4>2
    <3>4. (n + 1) - 1 = n
      OBVIOUS
    <3> HIDE DEF g
    <3> QED
      BY <3>2, <3>3, <3>4
  <2>3. n + 1 \in Nat
    OBVIOUS
  <2> HIDE DEF Upto
  <2>4. \E e : Upto(n + 1, e)
    BY <2>2
  <2> QED
    BY <2>3, <2>4
<1>3. T = Nat
  <2> HIDE DEF T
  <2>1. T \subseteq Nat
    BY DEF T
  <2> QED
    BY <1>1, <1>2, <2>1, Induction
<1>4. ASSUME NEW n \in Nat PROVE \E f : Upto(n, f)
  <2>1. n \in T
    BY <1>3
  <2> QED
    BY <2>1
<1> DEFINE F == [n \in Nat |-> CHOOSE f : Upto(n, f)]
<1>5. \A n \in Nat : Upto(n, F[n])
  <2> SUFFICES ASSUME NEW n \in Nat PROVE Upto(n, F[n])
    OBVIOUS
  <2> HIDE DEF Upto
  <2>1. Upto(n, CHOOSE f : Upto(n, f))
    BY <1>4
  <2> QED
    BY <2>1
<1>6. ASSUME NEW n \in Nat PROVE \A m \in Nat : m <= n => F[n][m] = F[m][m]
  <2> DEFINE U == {m \in Nat : \A p \in Nat : m <= p => F[p][m] = F[m][m]}
  <2> HIDE DEF F
  <2>1. 0 \in U
    BY <1>5
  <2>2. \A m \in U : m + 1 \in U
    <3> SUFFICES ASSUME NEW m \in U, NEW p \in Nat, m + 1 <= p
                 PROVE  F[p][m + 1] = F[m + 1][m + 1]
      OBVIOUS
    <3>1. m \in Nat /\ m \in 0..(p - 1) /\ m \in 0..(m + 1 - 1) /\ m <= p /\ m <= m + 1
      OBVIOUS
    <3>2. F[p][m + 1] = turn[m][F[p][m]]
      BY <1>5, <3>1
    <3>3. F[m + 1][m + 1] = turn[m][F[m + 1][m]]
      BY <1>5, <3>1
    <3>4. F[p][m] = F[m][m] /\ F[m + 1][m] = F[m][m]
      BY <3>1
    <3> QED
      BY <3>2, <3>3, <3>4
  <2>3. U = Nat
    <3> HIDE DEF U
    <3>1. U \subseteq Nat
      BY DEF U
    <3> QED
      BY <2>1, <2>2, <3>1, Induction
  <2> QED
    BY <2>3
<1> DEFINE h == [n \in Nat |-> F[n][n]]
<1> HIDE DEF F
<1>7. h \in [Nat -> S] /\ h[0] = b
  BY <1>5
<1>8. ASSUME NEW n \in Nat PROVE h[n + 1] = turn[n][h[n]]
  <2>1. F[n + 1][n + 1] = turn[n][F[n + 1][n]]
    <3>1. n \in 0..(n + 1 - 1) /\ n + 1 \in Nat
      OBVIOUS
    <3> QED
      BY <1>5, <3>1
  <2>2. F[n + 1][n] = F[n][n]
    BY <1>6
  <2> QED
    BY <2>1, <2>2
<1> QED
  BY <1>7, <1>8 DEF Follows

\* Induction on the numbers up to a limit.
LEMMA InductionUpto ==
    ASSUME NEW limit \in Nat, NEW T, 0 \in T, \A n \in 1..limit : n - 1 \in T => n \in T
    PROVE  \A n \in 0..limit : n \in T
<1> DEFINE U == {n \in Nat : n <= limit => n \in T}
<1>1. 0 \in U
  OBVIOUS
<1>2. ASSUME NEW n \in U PROVE n + 1 \in U
  <2>1. CASE n + 1 <= limit
    <3>1. n \in T /\ n + 1 \in 1..limit /\ (n + 1) - 1 = n
      BY <2>1
    <3> QED
      BY <3>1
  <2> QED
    BY <2>1
<1>3. U = Nat
  <2>1. U \subseteq Nat
    OBVIOUS
  <2> HIDE DEF U
  <2> QED
    BY <1>1, <1>2, <2>1, Induction
<1> QED
  BY <1>3

\* A recursive function on the numbers up to a limit.
FollowsUpto(f, limit, first, turn) ==
    f = [n \in 0..limit |-> IF n = 0 THEN first ELSE turn[n][f[n - 1]]]

\* There is one, if each turn stays within a set.
LEMMA RecursionUpto ==
    ASSUME NEW S, NEW b \in S, NEW turn \in [Nat -> [S -> S]], NEW limit \in Nat
    PROVE  \E f \in [0..limit -> S] : FollowsUpto(f, limit, b, turn)
<1> DEFINE later == [n \in Nat |-> turn[n + 1]]
<1>1. later \in [Nat -> [S -> S]]
  OBVIOUS
<1>2. PICK f \in [Nat -> S] : Follows(f, b, later)
  <2> HIDE DEF later
  <2> QED
    BY <1>1, Recursion, Zenon
<1> DEFINE g == [n \in 0..limit |-> f[n]]
<1>3. ASSUME NEW n \in 0..limit
      PROVE  g[n] = IF n = 0 THEN b ELSE turn[n][g[n - 1]]
  <2>1. CASE n = 0
    BY <1>2, <2>1 DEF Follows
  <2>2. CASE n # 0
    <3>1. n - 1 \in Nat /\ n - 1 \in 0..limit /\ (n - 1) + 1 = n
      BY <2>2
    <3>2. f[(n - 1) + 1] = turn[n][f[n - 1]]
      BY <1>2, <3>1 DEF Follows
    <3> QED
      BY <2>2, <3>1, <3>2
  <2> QED
    BY <2>1, <2>2
<1>4. g \in [0..limit -> S]
  OBVIOUS
<1>5. FollowsUpto(g, limit, b, turn)
  BY <1>3 DEF FollowsUpto
<1> HIDE DEF g
<1> QED
  BY <1>4, <1>5
============================================================================
