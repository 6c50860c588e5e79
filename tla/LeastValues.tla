------------------------------ MODULE LeastValues ------------------------------
(***************************************************************************)
(* A set has a member at which a natural-valued function is least: the     *)
(* proofs about prunes and label sets take the nearest point, the smallest *)
(* set or the largest label this way, where they would otherwise need an   *)
(* induction. With it a recursive function is shown to exist, which is what *)
(* allows its definition to be unfolded.                                   *)
(***************************************************************************)
EXTENDS Integers, FiniteSets, TLAPS, FiniteSetTheorems, WellFoundedInduction

\* A nonempty set of naturals has a least member.
LEMMA LeastMember ==
  ASSUME NEW T, T \subseteq Nat, T # {}
  PROVE  \E x \in T : \A y \in T : x <= y
<1>1. PICK x \in T : \A y \in T : ~(<<y, x>> \in OpToRel(<, Nat))
  BY NatLessThanWellFounded, WFMin
<1>2. \A y \in T : ~(y < x)
  BY <1>1 DEF OpToRel
<1> QED BY <1>2

\* A nonempty set has a member of least value.
LEMMA LeastValue ==
  ASSUME NEW C, C # {}, NEW f, \A a \in C : f[a] \in Nat
  PROVE  \E a \in C : \A b \in C : f[a] <= f[b]
<1> DEFINE T == {f[a] : a \in C}
<1>1. T \subseteq Nat /\ T # {}
  OBVIOUS
<1>2. PICK x \in T : \A y \in T : x <= y
  <2> HIDE DEF T
  <2> QED BY <1>1, LeastMember
<1> QED BY <1>2

\* A proper subset of a finite set has fewer members.
LEMMA FewerMembers ==
  ASSUME NEW S, IsFiniteSet(S), NEW T \in SUBSET S, T # S
  PROVE  /\ Cardinality(T) \in Nat /\ Cardinality(S) \in Nat
         /\ Cardinality(T) < Cardinality(S)
BY FS_Subset, FS_CardinalityType

\* A nonempty finite set of naturals has a largest member: the one that fewest
\* are above.
LEMMA LargestMember ==
  ASSUME NEW S, S \subseteq Nat, IsFiniteSet(S), S # {}
  PROVE  \E a \in S : \A b \in S : b <= a
<1> DEFINE over(a) == {b \in S : a < b}
           f == [a \in S |-> Cardinality(over(a))]
<1>1. \A a \in S : f[a] \in Nat
  BY FS_Subset, FS_CardinalityType
<1>2. PICK a \in S : \A b \in S : f[a] <= f[b]
  <2> HIDE DEF f
  <2> QED BY <1>1, LeastValue
<1>3. ASSUME NEW b \in S, a < b PROVE FALSE
  <2>1. over(b) \in SUBSET over(a) /\ over(b) # over(a)
    <3>1. b \in over(a) /\ b \notin over(b) BY <1>3
    <3>2. \A c \in S : b < c => a < c BY <1>3
    <3> QED BY <3>1, <3>2
  <2>2. IsFiniteSet(over(a)) BY FS_Subset
  <2>3. /\ Cardinality(over(b)) < Cardinality(over(a))
        /\ Cardinality(over(b)) \in Nat /\ Cardinality(over(a)) \in Nat
    <3> HIDE DEF over
    <3> QED BY <2>1, <2>2, FewerMembers
  <2>4. Cardinality(over(a)) <= Cardinality(over(b)) BY <1>2
  <2> HIDE DEF over
  <2> QED BY <2>3, <2>4
<1> QED BY <1>3
-----------------------------------------------------------------------------
\* A recursion from x to prev[x], which is of smaller size, and its values in V:
\* it ends at size 0.
Descends(X, V, size, base, prev, step) ==
  \A x \in X :
    /\ size[x] \in Nat
    /\ size[x] = 0 => base[x] \in V
    /\ size[x] # 0 => /\ prev[x] \in X /\ size[prev[x]] < size[x]
                      /\ \A v \in V : step[<<x, v>>] \in V

IsRecursive(f, X, size, base, prev, step) ==
  f = [x \in X |-> IF size[x] = 0 THEN base[x] ELSE step[<<x, f[prev[x]]>>]]

\* A function with such a definition exists.
LEMMA RecursionExists ==
  ASSUME NEW X, NEW V, NEW size, NEW base, NEW prev, NEW step,
         Descends(X, V, size, base, prev, step),
         NEW n \in Nat, \A x \in X : size[x] <= n
  PROVE  \E f \in [X -> V] : IsRecursive(f, X, size, base, prev, step)
<1> DEFINE Upto(k) == {x \in X : size[x] <= k}
           IsPart(f, k) == f \in [Upto(k) -> V] /\ IsRecursive(f, Upto(k), size, base, prev, step)
           T == {k \in Nat : ~\E f : IsPart(f, k)}
<1>1. ASSUME NEW x \in X
      PROVE  /\ size[x] \in Nat
             /\ size[x] = 0 => base[x] \in V
             /\ size[x] # 0 => /\ prev[x] \in X /\ size[prev[x]] < size[x]
                               /\ \A v \in V : step[<<x, v>>] \in V
  BY DEF Descends
<1>2. ASSUME NEW k \in T, \A j \in T : k <= j PROVE FALSE
  <2>1. k \in Nat BY <1>2
  <2>2. \E f : \A x \in X : size[x] < k =>
          f[x] \in V /\ f[x] = IF size[x] = 0 THEN base[x] ELSE step[<<x, f[prev[x]]>>]
    <3>1. CASE k = 0 BY <1>1, <3>1
    <3>2. CASE k # 0
      <4>1. k - 1 \in Nat /\ ~(k <= k - 1) BY <2>1, <3>2
      <4>2. k - 1 \notin T
        <5> HIDE DEF T
        <5> QED BY <1>2, <4>1
      <4>3. PICK f : IsPart(f, k - 1) BY <4>1, <4>2
      <4>4. \A x \in X : size[x] < k => x \in Upto(k - 1) BY <1>1, <2>1
      <4> HIDE DEF Upto
      <4> QED BY <4>3, <4>4 DEF IsRecursive
    <3> QED BY <3>1, <3>2
  <2>3. PICK f : \A x \in X : size[x] < k =>
          f[x] \in V /\ f[x] = IF size[x] = 0 THEN base[x] ELSE step[<<x, f[prev[x]]>>]
    BY <2>2
  <2> DEFINE value(x) == IF size[x] = 0 THEN base[x] ELSE step[<<x, f[prev[x]]>>]
             h == [x \in Upto(k) |-> value(x)]
  <2>4. ASSUME NEW x \in Upto(k), size[x] # 0
        PROVE  prev[x] \in Upto(k) /\ size[prev[x]] < k
    <3>1. x \in X /\ size[x] <= k /\ size[x] \in Nat BY <1>1, <2>4
    <3>2. prev[x] \in X /\ size[prev[x]] < size[x] BY <1>1, <2>4, <3>1
    <3>3. size[prev[x]] \in Nat BY <1>1, <3>2
    <3>4. size[prev[x]] < k /\ size[prev[x]] <= k BY <2>1, <3>1, <3>2, <3>3
    <3> QED BY <3>2, <3>4
  <2>5. ASSUME NEW x \in Upto(k) PROVE value(x) \in V
    <3>1. x \in X BY <2>5
    <3>2. CASE size[x] = 0 BY <1>1, <3>1, <3>2
    <3>3. CASE size[x] # 0
      <4>1. prev[x] \in X /\ size[prev[x]] < k BY <1>1, <2>4, <3>1, <3>3
      <4>2. f[prev[x]] \in V BY <2>3, <4>1
      <4>3. step[<<x, f[prev[x]]>>] \in V BY <1>1, <3>1, <3>3, <4>2
      <4> QED BY <3>3, <4>3
    <3> QED BY <3>2, <3>3
  <2>6. ASSUME NEW x \in Upto(k), size[x] # 0 PROVE h[prev[x]] = f[prev[x]]
    <3>1. prev[x] \in Upto(k) /\ size[prev[x]] < k BY <2>4, <2>6
    <3>2. prev[x] \in X BY <3>1
    <3>3. h[prev[x]] = value(prev[x])
      <4> HIDE DEF value, Upto
      <4> QED BY <3>1
    <3>4. f[prev[x]] = value(prev[x]) BY <2>3, <3>1, <3>2
    <3> QED BY <3>3, <3>4
  <2>7. IsPart(h, k)
    <3>1. h \in [Upto(k) -> V]
      <4> HIDE DEF value, Upto
      <4> QED BY <2>5
    <3>2. \A x \in Upto(k) : value(x) = IF size[x] = 0 THEN base[x] ELSE step[<<x, h[prev[x]]>>]
      <4> TAKE x \in Upto(k)
      <4>1. size[x] # 0 => h[prev[x]] = f[prev[x]] BY <2>6
      <4> HIDE DEF h
      <4> QED BY <4>1
    <3>3. h = [x \in Upto(k) |-> value(x)] OBVIOUS
    <3> HIDE DEF h, value, Upto
    <3> QED BY <3>1, <3>2, <3>3 DEF IsRecursive
  <2> HIDE DEF h, IsPart
  <2> QED BY <1>2, <2>7
<1>3. T = {}
  <2>1. T \subseteq Nat OBVIOUS
  <2> HIDE DEF T
  <2> QED BY <1>2, <2>1, LeastMember
<1>4. PICK f : IsPart(f, n)
  <2> HIDE DEF IsPart
  <2> QED BY <1>3
<1>5. Upto(n) = X OBVIOUS
<1> QED BY <1>4, <1>5
=============================================================================
