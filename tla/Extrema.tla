------------------------------ MODULE Extrema ------------------------------
(***************************************************************************)
(* The maximum that FiniteSetsExt chooses exists for a finite set of       *)
(* integers.  Induction is by minimal counterexample, over an enumeration  *)
(* of the set.                                                             *)
(***************************************************************************)
EXTENDS Integers, FiniteSetsExt, FiniteSetTheorems, WellFoundedInduction, TLAPS

\* m is the largest element of S.
IsMaximum(m, S) == m \in S /\ \A y \in S : m >= y

\* The first n values of f include all elements of S.
Enumerates(f, n, S) == \A x \in S : \E i \in 1 .. n : f[i] = x

\* The elements of S are d or values of h on T.
DrawnFrom(S, d, h, T) == \A x \in S : x = d \/ \E a \in T : h[a] = x

LEMMA LeastNatural ==
    ASSUME NEW T, T \subseteq Nat, T # {}
    PROVE  \E x \in T : \A y \in T : x =< y
<1>1. PICK x \in T : \A y \in T : ~ (<<y, x>> \in OpToRel(<, Nat))
  BY WFMin, NatLessThanWellFounded
<1>2. \A y \in T : ~ (y < x)
  BY <1>1 DEF OpToRel
<1>3. QED
  BY <1>2

LEMMA MaxIsMaximum ==
    ASSUME NEW S, \E m \in S : IsMaximum(m, S)
    PROVE  IsMaximum(Max(S), S)
BY DEF IsMaximum, Max

LEMMA MaxUnique ==
    ASSUME NEW S, S \subseteq Int, NEW m, IsMaximum(m, S)
    PROVE  Max(S) = m
<1>1. IsMaximum(Max(S), S)
  BY MaxIsMaximum DEF IsMaximum
<1>2. /\ m \in Int /\ Max(S) \in Int
      /\ m >= Max(S) /\ Max(S) >= m
  BY <1>1 DEF IsMaximum
<1>3. QED
  BY <1>2

LEMMA MaxOfSequence ==
    ASSUME NEW S, S \subseteq Int, S # {}, NEW n \in Nat, NEW f,
           Enumerates(f, n, S)
    PROVE  IsMaximum(Max(S), S)
<1> DEFINE Seen(k) == {x \in S : \E i \in 1 .. k : f[i] = x}
           HasMax(k) == \E m \in Seen(k) : IsMaximum(m, Seen(k))
           Bad == {k \in Nat : ~(Seen(k) = {} \/ HasMax(k))}
<1>1. Bad = {}
  <2>1. SUFFICES ASSUME Bad # {} PROVE FALSE
    OBVIOUS
  <2>2. PICK k \in Bad : \A j \in Bad : k =< j
    <3>1. Bad \subseteq Nat
      OBVIOUS
    <3> HIDE DEF Bad
    <3>2. QED
      BY <2>1, <3>1, LeastNatural
  <2>3. k \in Nat /\ ~(Seen(k) = {} \/ HasMax(k))
    OBVIOUS
  <2>4. k # 0
    BY <2>3
  <2>5. k - 1 \in Nat /\ k - 1 \notin Bad
    <3> HIDE DEF Bad
    <3>1. QED
      BY <2>2, <2>3, <2>4
  <2>6. Seen(k - 1) = {} \/ HasMax(k - 1)
    BY <2>5
  <2>7. Seen(k) = Seen(k - 1) \cup (S \cap {f[k]})
    <3>1. 1 .. k = (1 .. (k - 1)) \cup {k}
      BY <2>3, <2>4
    <3>2. QED
      BY <3>1
  <2>8. Seen(k - 1) \subseteq Int
    OBVIOUS
  <2>9. CASE f[k] \notin S
    BY <2>3, <2>6, <2>7, <2>9
  <2>10. CASE f[k] \in S /\ Seen(k - 1) = {}
    <3> HIDE DEF Seen, HasMax
    <3>1. Seen(k) = {f[k]} /\ f[k] \in Int
      BY <2>7, <2>10
    <3>2. IsMaximum(f[k], Seen(k)) /\ f[k] \in Seen(k)
      BY <3>1 DEF IsMaximum
    <3>3. QED
      BY <2>3, <3>2 DEF HasMax
  <2>11. CASE f[k] \in S /\ HasMax(k - 1)
    <3>1. PICK m \in Seen(k - 1) : IsMaximum(m, Seen(k - 1))
      BY <2>11
    <3>2. f[k] \in Int /\ Seen(k) = Seen(k - 1) \cup {f[k]}
      BY <2>7, <2>11
    <3> DEFINE x == IF f[k] > m THEN f[k] ELSE m
    <3> HIDE DEF Seen, HasMax
    <3>3. IsMaximum(x, Seen(k)) /\ x \in Seen(k)
      BY <2>8, <3>1, <3>2 DEF IsMaximum
    <3>4. QED
      BY <2>3, <3>3 DEF HasMax
  <2>12. QED
    BY <2>6, <2>9, <2>10, <2>11
<1>2. Seen(n) = S
  BY DEF Enumerates
<1>3. Seen(n) = {} \/ HasMax(n)
  BY <1>1
<1>4. \E m \in S : IsMaximum(m, S)
  BY <1>2, <1>3
<1>5. QED
  BY <1>4, MaxIsMaximum

LEMMA MaxOfImage ==
    ASSUME NEW S, S \subseteq Int, S # {}, NEW d, NEW T, IsFiniteSet(T), NEW h,
           DrawnFrom(S, d, h, T)
    PROVE  IsMaximum(Max(S), S)
<1>1. PICK n \in Nat : ExistsBijection(1 .. n, T)
  BY FS_CardinalityType
<1>2. PICK g \in [1 .. n -> T] : \A t \in T : \E i \in 1 .. n : g[i] = t
  BY <1>1 DEF ExistsBijection, Bijection, Surjection
<1>3. PICK k \in Nat : k = n + 1
  OBVIOUS
<1>4. PICK f : f = [i \in 1 .. k |-> IF i = k THEN d ELSE h[g[i]]]
  OBVIOUS
<1>5. Enumerates(f, k, S)
  <2> SUFFICES ASSUME NEW x \in S PROVE \E i \in 1 .. k : f[i] = x
    BY DEF Enumerates
  <2>1. CASE x = d
    BY <1>3, <1>4, <2>1
  <2>2. CASE \E a \in T : h[a] = x
    <3>1. PICK a \in T : h[a] = x
      BY <2>2
    <3>2. PICK i \in 1 .. n : g[i] = a
      BY <1>2
    <3>3. i \in 1 .. k /\ f[i] = x
      BY <1>3, <1>4, <3>1, <3>2
    <3>4. QED
      BY <3>3
  <2>3. QED
    BY <2>1, <2>2 DEF DrawnFrom
<1>6. QED
  BY <1>5, MaxOfSequence

LEMMA MaxOfTwo ==
    ASSUME NEW a \in Int, NEW b \in Int
    PROVE  /\ Max({a, b}) = IF a >= b THEN a ELSE b
           /\ Max({a, b}) \in Int /\ Max({a, b}) >= a /\ Max({a, b}) >= b
<1> DEFINE m == IF a >= b THEN a ELSE b
<1>1. IsMaximum(m, {a, b})
  BY DEF IsMaximum
<1>2. Max({a, b}) = m
  BY <1>1, MaxUnique
<1>3. QED
  BY <1>2
=============================================================================
