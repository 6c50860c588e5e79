--------------------------- MODULE HybridSearch_proofs ---------------------------
(***************************************************************************)
(* The unified graph and the searches over it, for any groups, sizes,       *)
(* distances, list lengths and numbers of edges, whatever the graphs of the *)
(* large groups are and whatever entry points are drawn.                    *)
(*                                                                         *)
(* A queue is described by the order of its candidates (Best): queues over  *)
(* parts of a set, collected, are the queue over the whole (BestOfBests). A *)
(* graph search ends with what it kept expanded (SearchResult), which is    *)
(* all that is used of it. BuildInv says what the lists hold in each phase  *)
(* of the build, SearchInv that a query admits what it meets, and ExactInv  *)
(* that its searches, closed under the edges, miss nothing it can reach.    *)
(***************************************************************************)
EXTENDS HybridSearch, LeastValues

\* A running sum over a sequence of numbers exists, whatever its length.
LEMMA RunningSum ==
  ASSUME NEW n \in Nat, NEW size, \A g \in 1 .. n : size[g] \in Nat
  PROVE  \E f : f = [g \in 1 .. n |-> IF g = 1 THEN 0 ELSE f[g - 1] + size[g - 1]]
<1> DEFINE IsSum(f, k) == f = [g \in 1 .. k |-> IF g = 1 THEN 0 ELSE f[g - 1] + size[g - 1]]
           T == {k \in Nat : ~\E f : IsSum(f, k)}
<1>1. ASSUME NEW k \in T, \A j \in T : k <= j PROVE FALSE
  <2>1. k # 0
    <3>1. IsSum([g \in 1 .. 0 |-> 0], 0) OBVIOUS
    <3> QED BY <1>1, <3>1
  <2>2. k \in Nat /\ k - 1 \in Nat /\ k - 1 \notin T
    <3>1. k \in Nat BY <1>1
    <3>2. k - 1 \in Nat /\ ~(k <= k - 1) BY <2>1, <3>1
    <3> HIDE DEF T
    <3> QED BY <1>1, <3>1, <3>2
  <2>3. PICK f : IsSum(f, k - 1) BY <2>2
  <2> DEFINE next(i) == IF i = 1 THEN 0 ELSE f[i - 1] + size[i - 1]
             h == [g \in 1 .. k |-> next(g)]
  <2>4. \A g \in 1 .. k - 1 : h[g] = f[g]
    <3> TAKE g \in 1 .. k - 1
    <3>1. g \in 1 .. k BY <2>2
    <3>2. f[g] = next(g) BY <2>3
    <3> QED BY <3>1, <3>2
  <2>5. \A g \in 1 .. k : g # 1 => g - 1 \in 1 .. k - 1 /\ h[g - 1] = f[g - 1]
    <3>1. \A g \in 1 .. k : g # 1 => g - 1 \in 1 .. k - 1 BY <2>2
    <3> HIDE DEF h
    <3> QED BY <2>4, <3>1
  <2>6. h = [g \in 1 .. k |-> IF g = 1 THEN 0 ELSE h[g - 1] + size[g - 1]]
    <3>1. \A g \in 1 .. k : next(g) = IF g = 1 THEN 0 ELSE h[g - 1] + size[g - 1]
      BY <2>5
    <3>2. h = [g \in 1 .. k |-> next(g)] OBVIOUS
    <3> HIDE DEF h, next
    <3> QED BY <3>1, <3>2
  <2>7. IsSum(h, k) BY <2>6
  <2> QED BY <1>1, <2>7
<1>2. T = {}
  <2>1. T \subseteq Nat OBVIOUS
  <2> HIDE DEF T
  <2> QED BY <1>1, <2>1, LeastMember
<1> QED BY <1>2

LEMMA FirstDef ==
  First = [g \in Groups |-> IF g = 1 THEN 0 ELSE First[g - 1] + GroupSizes[g - 1]]
<1>1. Groups = 1 .. Len(GroupLabels) /\ Len(GroupLabels) \in Nat
      /\ \A g \in Groups : GroupSizes[g] \in Nat
  BY GraphAssumption
<1>2. \E f : f = [g \in Groups |-> IF g = 1 THEN 0 ELSE f[g - 1] + GroupSizes[g - 1]]
  BY <1>1, RunningSum
<1> QED BY <1>2 DEF First

\* One group's range ends before the next one's begins.
LEMMA Ranges ==
  /\ \A g \in Groups : First[g] \in Nat /\ GroupSizes[g] \in Nat \ {0}
  /\ \A g, h \in Groups : g < h => First[g] + GroupSizes[g] <= First[h]
<1>0. /\ \A g \in Groups : g \in Nat /\ g # 0 /\ GroupSizes[g] \in Nat \ {0}
      /\ \A g \in Groups : g # 1 => g - 1 \in Groups
  BY GraphAssumption
<1>1. \A g \in Groups : First[g] = IF g = 1 THEN 0 ELSE First[g - 1] + GroupSizes[g - 1]
  BY FirstDef
<1>2. \A g \in Groups : First[g] \in Nat
  <2> DEFINE T == {g \in Groups : First[g] \notin Nat}
  <2>1. ASSUME NEW g \in T, \A h \in T : g <= h PROVE FALSE
    <3>1. g # 1 BY <1>1, <2>1
    <3>2. g - 1 \in Groups /\ ~(g <= g - 1) BY <1>0, <2>1, <3>1
    <3>3. First[g - 1] \in Nat BY <2>1, <3>2
    <3> QED BY <1>0, <1>1, <2>1, <3>1, <3>2, <3>3
  <2>2. T \subseteq Nat BY <1>0
  <2>3. T = {}
    <3> HIDE DEF T
    <3> QED BY <2>1, <2>2, LeastMember
  <2> QED BY <2>3
<1>3. ASSUME NEW g \in Groups
      PROVE  \A h \in Groups : g < h => First[g] + GroupSizes[g] <= First[h]
  <2> DEFINE T == {h \in Groups : g < h /\ ~(First[g] + GroupSizes[g] <= First[h])}
  <2>1. ASSUME NEW h \in T, \A k \in T : h <= k PROVE FALSE
    <3>1. h # 1 /\ g \in Nat /\ h \in Nat /\ g < h BY <1>0, <2>1
    <3>2. h - 1 \in Groups /\ ~(h <= h - 1) BY <1>0, <2>1, <3>1
    <3>3. First[h] = First[h - 1] + GroupSizes[h - 1] BY <1>1, <2>1, <3>1
    <3>4. CASE g = h - 1
      BY <1>0, <1>2, <2>1, <3>2, <3>3, <3>4
    <3>5. CASE g # h - 1
      <4>1. g < h - 1 BY <3>1, <3>5
      <4>2. First[g] + GroupSizes[g] <= First[h - 1] BY <2>1, <3>2, <4>1
      <4>3. ~(First[g] + GroupSizes[g] <= First[h]) BY <2>1
      <4>4. /\ First[g] \in Nat /\ First[h - 1] \in Nat
            /\ GroupSizes[g] \in Nat /\ GroupSizes[h - 1] \in Nat
        BY <1>0, <1>2, <3>2
      <4> QED BY <3>3, <4>2, <4>3, <4>4
    <3> QED BY <3>4, <3>5
  <2>2. T \subseteq Nat BY <1>0
  <2>3. T = {}
    <3> HIDE DEF T
    <3> QED BY <2>1, <2>2, LeastMember
  <2> QED BY <2>3
<1> QED BY <1>0, <1>2, <1>3

\* Every vector has one group, the one whose range its id is in.
LEMMA MembersDiffer ==
  /\ \A g \in Groups : \A v \in Members(g) : v \in Points /\ v \in Nat /\ GroupOf[v] = g
  /\ \A v \in Points : v \in Nat /\ GroupOf[v] \in Groups /\ v \in Members(GroupOf[v])
<1>1. \A g, h \in Groups : \A v \in Members(g) : v \in Members(h) => g = h
  <2> TAKE g \in Groups, h \in Groups
  <2>1. g \in Nat /\ h \in Nat BY GraphAssumption
  <2>2. g < h => First[g] + GroupSizes[g] <= First[h] BY Ranges
  <2>3. h < g => First[h] + GroupSizes[h] <= First[g] BY Ranges
  <2>4. First[g] \in Nat /\ First[h] \in Nat /\ GroupSizes[g] \in Nat /\ GroupSizes[h] \in Nat
    BY Ranges
  <2> TAKE v \in Members(g)
  <2>5. v \in First[g] .. First[g] + GroupSizes[g] - 1 BY DEF Members
  <2>6. v \in Members(h) => v \in First[h] .. First[h] + GroupSizes[h] - 1 BY DEF Members
  <2> QED BY <2>1, <2>2, <2>3, <2>4, <2>5, <2>6
<1>2. \A g \in Groups : \A v \in Members(g) : v \in Nat /\ v \in Points
  BY Ranges DEF Members, Points
<1>3. \A v \in Points : \E g \in Groups : v \in Members(g)
  BY DEF Points
<1>4. \A v \in Points : GroupOf[v] \in Groups /\ v \in Members(GroupOf[v])
  BY <1>3 DEF GroupOf
<1> QED BY <1>1, <1>2, <1>4

\* A group's first vector is its own, and an id of the group's graph becomes one
\* of its range.
LEMMA IdsInRange ==
  ASSUME NEW g \in Groups
  PROVE  /\ First[g] \in Members(g)
         /\ \A n \in 0 .. GroupSizes[g] - 1 : n + First[g] \in Members(g)
         /\ \A v \in Members(g) : v - First[g] \in 0 .. GroupSizes[g] - 1
         /\ IsFiniteSet(Members(g))
<1>1. First[g] \in Nat /\ GroupSizes[g] \in Nat \ {0} BY Ranges
<1>2. First[g] \in Int /\ First[g] + GroupSizes[g] - 1 \in Int BY <1>1
<1>3. IsFiniteSet(Members(g)) BY <1>2, FS_Interval DEF Members
<1> QED BY <1>1, <1>3 DEF Members

\* Up the label navigating graph labels are only added.
LEMMA UpTheLabels ==
  ASSUME NEW g \in Groups, NEW h \in OutNbrs[g]
  PROVE  h \in Groups /\ GroupLabels[g] \subseteq GroupLabels[h] /\ h # g
BY DEF OutNbrs, Above

-----------------------------------------------------------------------------
\* the order a queue keeps its candidates in: by distance, and by id
Nearer(dist, b, a) == dist[b] < dist[a] \/ (dist[b] = dist[a] /\ b < a)

CloserIn(dist, S, a) == {b \in S : Nearer(dist, b, a)}

LEMMA BestDef ==
  ASSUME NEW dist, NEW S, NEW n
  PROVE  Best(dist, S, n) = {a \in S : Cardinality(CloserIn(dist, S, a)) < n}
BY DEF Best, CloserIn, Nearer

LEMMA BestIsPart == ASSUME NEW dist, NEW S, NEW n PROVE Best(dist, S, n) \subseteq S
BY DEF Best

\* Some candidate is the nearest.
LEMMA NearestExists ==
  ASSUME NEW S, S \subseteq Nat, S # {}, NEW dist, \A a \in S : dist[a] \in Nat
  PROVE  \E a \in S : \A b \in S : ~Nearer(dist, b, a)
<1>1. PICK x \in S : \A b \in S : dist[x] <= dist[b]
  BY LeastValue
<1> DEFINE T == {a \in S : dist[a] = dist[x]}
<1>2. PICK a \in T : \A b \in T : a <= b
  <2>1. T \subseteq Nat /\ T # {} BY <1>1
  <2> HIDE DEF T
  <2> QED BY <2>1, LeastMember
<1>3. a \in S /\ dist[a] = dist[x] BY <1>2
<1> SUFFICES ASSUME NEW b \in S, Nearer(dist, b, a) PROVE FALSE
  BY <1>3
<1>4. dist[a] \in Nat /\ a \in Nat /\ dist[b] \in Nat /\ b \in Nat BY <1>3
<1>5. dist[a] <= dist[b] /\ (dist[b] = dist[a] => a <= b) BY <1>1, <1>2, <1>3
<1> QED BY <1>4, <1>5 DEF Nearer

\* A queue that has been offered something holds something.
LEMMA BestSome ==
  ASSUME NEW S, S \subseteq Nat, S # {}, NEW dist, \A a \in S : dist[a] \in Nat,
         NEW n \in Nat \ {0}
  PROVE  Best(dist, S, n) # {}
<1>1. PICK a \in S : \A b \in S : ~Nearer(dist, b, a) BY NearestExists
<1>2. CloserIn(dist, S, a) = {} BY <1>1 DEF CloserIn
<1>3. Cardinality(CloserIn(dist, S, a)) < n BY <1>2, FS_EmptySet
<1> QED BY <1>1, <1>3, BestDef

\* The rounds of a search over the vectors X, which keeps kept[e] of all it has
\* met when it has expanded e, and expands more[e] in the end of a round.
IsRun(f, X, kept, more) ==
  f = [e \in SUBSET X |-> IF kept[e] \subseteq e THEN kept[e] ELSE f[more[e]]]

ExpandsMore(X, kept, more) ==
  \A e \in SUBSET X : ~(kept[e] \subseteq e) =>
    more[e] \in SUBSET X /\ e \subseteq more[e] /\ more[e] # e

\* what is left to expand
Rest(X, e) == Cardinality(X \ e)

LEMMA RestIsNat ==
  ASSUME NEW X, IsFiniteSet(X), NEW e \in SUBSET X
  PROVE  Rest(X, e) \in Nat /\ Rest(X, e) <= Cardinality(X)
BY FS_Subset, FS_CardinalityType DEF Rest

LEMMA LessLeft ==
  ASSUME NEW X, IsFiniteSet(X), NEW kept, NEW more, ExpandsMore(X, kept, more),
         NEW e \in SUBSET X, ~(kept[e] \subseteq e)
  PROVE  more[e] \in SUBSET X /\ e \subseteq more[e] /\ Rest(X, more[e]) < Rest(X, e)
<1>1. more[e] \in SUBSET X /\ e \subseteq more[e] /\ more[e] # e BY DEF ExpandsMore
<1>2. X \ more[e] \in SUBSET (X \ e) /\ X \ more[e] # X \ e
  <2>1. PICK x \in more[e] : x \notin e BY <1>1
  <2>2. x \in X \ e /\ x \notin X \ more[e] BY <1>1, <2>1
  <2> QED BY <1>1, <2>2
<1>3. IsFiniteSet(X \ e) BY FS_Subset
<1> QED BY <1>1, <1>2, <1>3, FewerMembers DEF Rest

\* Such a search is defined.
LEMMA RunExists ==
  ASSUME NEW X, IsFiniteSet(X), NEW kept, NEW more, ExpandsMore(X, kept, more)
  PROVE  \E f : IsRun(f, X, kept, more)
<1> DEFINE rest(e) == Rest(X, e)
<1>1. \A e \in SUBSET X : rest(e) \in Nat BY RestIsNat
<1>2. ASSUME NEW e \in SUBSET X, ~(kept[e] \subseteq e)
      PROVE  more[e] \in SUBSET X /\ rest(more[e]) < rest(e)
  BY <1>2, LessLeft
<1> DEFINE Upto(k) == {e \in SUBSET X : rest(e) <= k}
           IsPart(f, k) == f = [e \in Upto(k) |-> IF kept[e] \subseteq e THEN kept[e] ELSE f[more[e]]]
<1> HIDE DEF rest
<1> DEFINE T == {k \in Nat : ~\E f : IsPart(f, k)}
<1>3. ASSUME NEW k \in T, \A j \in T : k <= j PROVE FALSE
  <2>0. k \in Nat BY <1>3
  <2>1. \E f : \A e \in SUBSET X : rest(e) < k =>
           f[e] = IF kept[e] \subseteq e THEN kept[e] ELSE f[more[e]]
    <3>1. CASE k = 0
      BY <1>1, <3>1
    <3>2. CASE k # 0
      <4>1. k - 1 \in Nat /\ ~(k <= k - 1) BY <2>0, <3>2
      <4>2. k - 1 \notin T
        <5> HIDE DEF T
        <5> QED BY <1>3, <4>1
      <4>3. PICK f : IsPart(f, k - 1) BY <4>1, <4>2
      <4>4. \A e \in SUBSET X : rest(e) < k => e \in Upto(k - 1)
        BY <1>1, <2>0
      <4> HIDE DEF Upto
      <4> QED BY <4>3, <4>4
    <3> QED BY <3>1, <3>2
  <2>2. PICK f : \A e \in SUBSET X : rest(e) < k =>
           f[e] = IF kept[e] \subseteq e THEN kept[e] ELSE f[more[e]]
    BY <2>1
  <2> DEFINE h == [e \in Upto(k) |-> IF kept[e] \subseteq e THEN kept[e] ELSE f[more[e]]]
  <2>3. ASSUME NEW e \in Upto(k), ~(kept[e] \subseteq e)
        PROVE  h[more[e]] = f[more[e]]
    <3>1. e \in SUBSET X /\ rest(e) <= k BY <2>3
    <3>2. more[e] \in SUBSET X /\ rest(more[e]) < rest(e) BY <1>2, <2>3, <3>1
    <3>3. rest(more[e]) < k /\ rest(more[e]) <= k BY <1>1, <2>0, <3>1, <3>2
    <3>4. more[e] \in Upto(k) BY <3>2, <3>3
    <3>5. h[more[e]] = IF kept[more[e]] \subseteq more[e] THEN kept[more[e]] ELSE f[more[more[e]]]
      <4> HIDE DEF Upto
      <4> QED BY <3>4
    <3> HIDE DEF h
    <3> QED BY <2>2, <3>2, <3>3, <3>5
  <2>4. IsPart(h, k)
    <3>1. h = [e \in Upto(k) |-> IF kept[e] \subseteq e THEN kept[e] ELSE f[more[e]]] OBVIOUS
    <3> HIDE DEF h, Upto
    <3> QED BY <2>3, <3>1
  <2> HIDE DEF h, IsPart
  <2> QED BY <1>3, <2>4
<1>4. T = {}
  <2>1. T \subseteq Nat OBVIOUS
  <2> HIDE DEF T
  <2> QED BY <1>3, <2>1, LeastMember
<1>5. Cardinality(X) \in Nat BY FS_CardinalityType
<1>6. PICK f : IsPart(f, Cardinality(X))
  <2> HIDE DEF IsPart
  <2> QED BY <1>4, <1>5
<1>7. Upto(Cardinality(X)) = SUBSET X
  <2> SUFFICES ASSUME NEW e \in SUBSET X PROVE rest(e) <= Cardinality(X)
    OBVIOUS
  <2> QED BY RestIsNat DEF rest
<1> HIDE DEF Upto
<1> QED BY <1>6, <1>7 DEF IsRun

\* what is kept at the end of a search that began with start, all of it expanded
IsEnd(result, start, X, kept) ==
  \E all \in SUBSET X : start \subseteq all /\ kept[all] \subseteq all /\ result = kept[all]

\* And what it returns it has kept and expanded.
LEMMA RunEnds ==
  ASSUME NEW X, IsFiniteSet(X), NEW kept, NEW more, ExpandsMore(X, kept, more),
         NEW f, IsRun(f, X, kept, more), NEW start \in SUBSET X
  PROVE  IsEnd(f[start], start, X, kept)
<1> DEFINE rest(e) == Rest(X, e)
<1>1. \A e \in SUBSET X : rest(e) \in Nat BY RestIsNat
<1>2. ASSUME NEW e \in SUBSET X, ~(kept[e] \subseteq e)
      PROVE  more[e] \in SUBSET X /\ e \subseteq more[e] /\ rest(more[e]) < rest(e)
  BY <1>2, LessLeft
<1> HIDE DEF rest
<1>0. \A e \in SUBSET X : f[e] = IF kept[e] \subseteq e THEN kept[e] ELSE f[more[e]]
  BY DEF IsRun
<1> DEFINE Ends(e) == IsEnd(f[e], e, X, kept)
           bad == {e \in SUBSET X : ~Ends(e)}
           size == [e \in bad |-> rest(e)]
<1>3. ASSUME bad # {} PROVE FALSE
  <2>1. PICK e \in bad : \A o \in bad : rest(e) <= rest(o)
    <3>1. \A o \in bad : size[o] \in Nat BY <1>1
    <3>2. \A o \in bad : size[o] = rest(o) OBVIOUS
    <3> HIDE DEF bad, size
    <3>3. \E e \in bad : \A o \in bad : size[e] <= size[o] BY <1>3, <3>1, LeastValue
    <3> QED BY <3>2, <3>3
  <2>2. e \in SUBSET X /\ ~Ends(e) BY <2>1
  <2>3. ~(kept[e] \subseteq e) BY <1>0, <2>2 DEF IsEnd
  <2>4. more[e] \in SUBSET X /\ e \subseteq more[e] /\ rest(more[e]) < rest(e)
    BY <1>2, <2>2, <2>3
  <2>5. Ends(more[e])
    <3>1. more[e] \notin bad
      <4>1. rest(more[e]) \in Nat /\ rest(e) \in Nat BY <1>1, <2>2, <2>4
      <4> HIDE DEF bad
      <4> QED BY <2>1, <2>4, <4>1
    <3> HIDE DEF Ends
    <3> QED BY <2>4, <3>1
  <2>6. f[e] = f[more[e]] BY <1>0, <2>2, <2>3
  <2>7. Ends(e)
    <3>1. PICK all \in SUBSET X :
            more[e] \subseteq all /\ kept[all] \subseteq all /\ f[more[e]] = kept[all]
      BY <2>5 DEF IsEnd
    <3>2. e \subseteq all BY <2>4, <3>1
    <3> QED BY <2>6, <3>1, <3>2 DEF IsEnd
  <2> HIDE DEF Ends
  <2> QED BY <2>2, <2>7
<1> HIDE DEF Ends
<1> QED BY <1>3 DEF Ends

\* Every vector's distance to the ones a queue may hold is a number.
LEMMA Distances ==
  ASSUME NEW v \in Points
  PROVE  \A w \in Points : DistFrom(v)[w] \in Nat
BY DistAssumption DEF DistFrom

LEMMA BestOfOne ==
  ASSUME NEW x \in Nat, NEW dist, dist[x] \in Nat, NEW n \in Nat \ {0}
  PROVE  Best(dist, {x}, n) = {x}
<1>1. Best(dist, {x}, n) # {} BY BestSome
<1> QED BY <1>1, BestIsPart

\* What the search of a group's graph returns: the closest of all the vectors met,
\* which all were expanded, and the group's entry point was expanded.
LEMMA SearchResult ==
  ASSUME NEW h \in Groups, NEW v \in Points, entries[h] \in Members(h),
         \A w \in Members(h) : neighbors[w] \subseteq 0 .. GroupSizes[h] - 1
  PROVE  \E all \in SUBSET Members(h) :
           /\ entries[h] \in all
           /\ GroupSearch(h, v) \subseteq all
           /\ GroupSearch(h, v) = Best(DistFrom(v), Met(h, all), Lbuild)
<1> DEFINE X == Members(h)
           dist == DistFrom(v)
           kept == [e \in SUBSET X |-> Best(dist, Met(h, e), Lbuild)]
           more == [e \in SUBSET X |-> e \union Best(dist, kept[e] \ e, 1)]
<1>1. IsFiniteSet(X) /\ X \subseteq Points /\ X \subseteq Nat
  BY IdsInRange, MembersDiffer
<1>2. \A e \in SUBSET X : Met(h, e) \subseteq X
  BY IdsInRange DEF Met
<1>3. \A e \in SUBSET X : kept[e] \subseteq X
  BY <1>2, BestIsPart
<1>4. \A w \in X : dist[w] \in Nat
  BY <1>1, Distances
<1>5. ASSUME NEW e \in SUBSET X, ~(kept[e] \subseteq e)
      PROVE  more[e] \in SUBSET X /\ e \subseteq more[e] /\ more[e] # e
  <2>1. kept[e] \ e \subseteq X /\ kept[e] \ e # {} BY <1>3, <1>5
  <2>2. \A w \in kept[e] \ e : dist[w] \in Nat BY <1>4, <2>1
  <2>3. Best(dist, kept[e] \ e, 1) \subseteq kept[e] \ e BY BestIsPart
  <2>4. Best(dist, kept[e] \ e, 1) # {}
    <3>1. kept[e] \ e \subseteq Nat BY <1>1, <2>1
    <3> HIDE DEF kept, dist
    <3> QED BY <2>1, <2>2, <3>1, BestSome
  <2>5. more[e] = e \union Best(dist, kept[e] \ e, 1) OBVIOUS
  <2> HIDE DEF kept, dist, more
  <2> QED BY <2>1, <2>3, <2>4, <2>5
<1>6. GroupSearch(h, v) = (CHOOSE f : IsRun(f, X, kept, more))[{}]
  <2>1. ASSUME NEW f
        PROVE  IsRun(f, X, kept, more) <=> f = [done \in SUBSET Members(h) |->
                 IF Best(DistFrom(v), Met(h, done), Lbuild) \subseteq done
                 THEN Best(DistFrom(v), Met(h, done), Lbuild)
                 ELSE f[done \union Best(DistFrom(v), Best(DistFrom(v), Met(h, done), Lbuild) \ done, 1)]]
    BY DEF IsRun
  <2>2. (CHOOSE f : IsRun(f, X, kept, more)) = CHOOSE f : f = [done \in SUBSET Members(h) |->
                 IF Best(DistFrom(v), Met(h, done), Lbuild) \subseteq done
                 THEN Best(DistFrom(v), Met(h, done), Lbuild)
                 ELSE f[done \union Best(DistFrom(v), Best(DistFrom(v), Met(h, done), Lbuild) \ done, 1)]]
    <3> HIDE DEF X, kept, more
    <3> QED BY <2>1, Zenon
  <2> HIDE DEF X, kept, more
  <2> QED BY <2>2 DEF GroupSearch
<1> DEFINE run == CHOOSE f : IsRun(f, X, kept, more)
<1>7. ExpandsMore(X, kept, more)
  <2> HIDE DEF X, kept, more
  <2> QED BY <1>5 DEF ExpandsMore
<1>8. IsRun(run, X, kept, more)
  <2>1. IsFiniteSet(X) BY <1>1
  <2> HIDE DEF X, kept, more
  <2>2. \E f : IsRun(f, X, kept, more) BY <1>7, <2>1, RunExists
  <2> QED BY <2>2
<1>9. kept[{}] = {entries[h]} /\ more[{}] = {entries[h]}
  <2>1. Met(h, {}) = {entries[h]} BY DEF Met
  <2>2. entries[h] \in Nat /\ dist[entries[h]] \in Nat BY <1>1, <1>4
  <2>3. Lbuild \in Nat \ {0} /\ 1 \in Nat \ {0} BY GraphAssumption
  <2>4. Best(dist, {entries[h]}, Lbuild) = {entries[h]} /\ Best(dist, {entries[h]}, 1) = {entries[h]}
    <3> HIDE DEF dist
    <3> QED BY <2>2, <2>3, BestOfOne
  <2>5. kept[{}] = {entries[h]} BY <2>1, <2>4
  <2>6. more[{}] = Best(dist, kept[{}] \ {}, 1) OBVIOUS
  <2> HIDE DEF kept, more, dist
  <2> QED BY <2>4, <2>5, <2>6
<1>10. run[{}] = run[{entries[h]}]
  <2>1. run[{}] = IF kept[{}] \subseteq {} THEN kept[{}] ELSE run[more[{}]]
    <3> HIDE DEF run, kept, more
    <3> QED BY <1>8 DEF IsRun
  <2> HIDE DEF run, kept, more
  <2> QED BY <1>9, <2>1
<1>11. PICK all \in SUBSET X :
         {entries[h]} \subseteq all /\ kept[all] \subseteq all /\ run[{entries[h]}] = kept[all]
  <2>1. {entries[h]} \in SUBSET X /\ IsFiniteSet(X) BY <1>1
  <2> DEFINE start == {entries[h]}
  <2>2. start \in SUBSET X BY <2>1
  <2> HIDE DEF run, kept, more, X, start
  <2>3. IsEnd(run[start], start, X, kept) BY <1>7, <1>8, <2>1, <2>2, RunEnds
  <2> QED BY <2>3 DEF start, IsEnd
<1>12. kept[all] = Best(DistFrom(v), Met(h, all), Lbuild)
  OBVIOUS
<1>13. GroupSearch(h, v) = kept[all]
  <2> HIDE DEF X, kept, more
  <2> QED BY <1>6, <1>10, <1>11 DEF run
<1> HIDE DEF kept, run
<1> QED BY <1>11, <1>12, <1>13

-----------------------------------------------------------------------------
\* Of a part of the candidates a queue keeps those it keeps of them all, and maybe
\* more.
LEMMA BestWithin ==
  ASSUME NEW T, IsFiniteSet(T), NEW S \in SUBSET T, NEW dist,
         NEW n \in Nat, NEW m \in Nat, n <= m
  PROVE  \A a \in Best(dist, T, n) : a \in S => a \in Best(dist, S, m)
<1> DEFINE Closer(U, a) == {b \in U : dist[b] < dist[a] \/ (dist[b] = dist[a] /\ b < a)}
<1> SUFFICES ASSUME NEW a \in Best(dist, T, n), a \in S PROVE a \in Best(dist, S, m)
  OBVIOUS
<1>1. Cardinality(Closer(T, a)) < n BY DEF Best
<1>2. Closer(S, a) \in SUBSET Closer(T, a) /\ Closer(T, a) \in SUBSET T OBVIOUS
<1>3. /\ Cardinality(Closer(S, a)) <= Cardinality(Closer(T, a))
      /\ Cardinality(Closer(S, a)) \in Nat /\ Cardinality(Closer(T, a)) \in Nat
  <2> HIDE DEF Closer
  <2> QED BY <1>2, FS_Subset, FS_CardinalityType
<1>4. Cardinality(Closer(S, a)) < m
  <2> HIDE DEF Closer
  <2> QED BY <1>1, <1>3
<1> QED BY <1>4 DEF Best

\* What was kept of some candidates and what was found among others are enough to
\* keep the closest of them all.
LEMMA KeepsBest ==
  ASSUME NEW U, NEW T, IsFiniteSet(U \union T), NEW dist, NEW n \in Nat,
         NEW kept \in SUBSET U, Best(dist, U, n) \subseteq kept,
         NEW found \in SUBSET T, Best(dist, T, n) \subseteq found
  PROVE  Best(dist, U \union T, n) \subseteq Best(dist, kept \union found, n)
<1> SUFFICES ASSUME NEW a \in Best(dist, U \union T, n) PROVE a \in Best(dist, kept \union found, n)
  OBVIOUS
<1> DEFINE all == U \union T
<1>1. a \in all BY BestIsPart
<1>2. U \in SUBSET all /\ T \in SUBSET all /\ kept \union found \in SUBSET all OBVIOUS
<1>3. n <= n /\ IsFiniteSet(all) /\ a \in Best(dist, all, n) OBVIOUS
<1>4. a \in kept \union found
  <2>1. CASE a \in U
    <3> HIDE DEF all
    <3>1. a \in Best(dist, U, n) BY <1>2, <1>3, <2>1, BestWithin
    <3> QED BY <3>1
  <2>2. CASE a \in T
    <3> HIDE DEF all
    <3>1. a \in Best(dist, T, n) BY <1>2, <1>3, <2>2, BestWithin
    <3> QED BY <3>1
  <2> QED BY <1>1, <2>1, <2>2
<1> DEFINE part == kept \union found
<1>5. part \in SUBSET all /\ a \in part BY <1>2, <1>4
<1>6. a \in Best(dist, part, n)
  <2> HIDE DEF all, part
  <2> QED BY <1>3, <1>5, BestWithin
<1> QED BY <1>6

\* finitely many vectors with a distance each
Measured(dist, S) == S \subseteq Nat /\ IsFiniteSet(S) /\ \A a \in S : dist[a] \in Nat

\* Two queues' results, collected into one: nothing of what the one queue would have
\* kept of both is lost, and nothing else gets in.
LEMMA BestOfBests ==
  ASSUME NEW S, NEW T, NEW dist, Measured(dist, S \union T), NEW n \in Nat
  PROVE  Best(dist, Best(dist, S, n) \union Best(dist, T, n), n) = Best(dist, S \union T, n)
<1>0. /\ S \subseteq Nat /\ T \subseteq Nat /\ IsFiniteSet(S \union T)
      /\ \A a \in S \union T : dist[a] \in Nat
  BY DEF Measured
<1> DEFINE U == S \union T
           P == Best(dist, S, n) \union Best(dist, T, n)
           B == Best(dist, U, n)
<1>1. B \subseteq Best(dist, P, n)
  <2>1. Best(dist, S, n) \in SUBSET S /\ Best(dist, T, n) \in SUBSET T BY BestIsPart
  <2> DEFINE kept == Best(dist, S, n)
             found == Best(dist, T, n)
  <2>2. kept \in SUBSET S /\ found \in SUBSET T
        /\ Best(dist, S, n) \subseteq kept /\ Best(dist, T, n) \subseteq found
    BY <2>1
  <2> HIDE DEF kept, found
  <2>3. Best(dist, S \union T, n) \subseteq Best(dist, kept \union found, n) BY <1>0, <2>2, KeepsBest
  <2> QED BY <2>3 DEF kept, found
<1>2. P \subseteq U /\ U \subseteq Nat /\ IsFiniteSet(U) /\ \A a \in U : a \in Nat /\ dist[a] \in Nat
  BY <1>0, BestIsPart
<1>3. B \subseteq U /\ B \subseteq P /\ IsFiniteSet(B) /\ IsFiniteSet(P)
  <2> HIDE DEF U, P
  <2>1. B \subseteq U /\ Best(dist, P, n) \subseteq P BY BestIsPart
  <2>2. B \subseteq U /\ B \subseteq P BY <1>1, <2>1
  <2> HIDE DEF B
  <2> QED BY <1>2, <2>2, FS_Subset
<1> SUFFICES ASSUME NEW a \in Best(dist, P, n), a \notin B PROVE FALSE
  BY <1>1
<1> HIDE DEF U, P
<1>4. a \in P /\ a \in U BY <1>2, BestIsPart
<1>5. ASSUME NEW V, NEW e
      PROVE  CloserIn(dist, V, e) \subseteq V
  BY DEF CloserIn
<1>6. PICK x \in U \ B : \A b \in U \ B : ~Nearer(dist, b, x)
  <2> DEFINE W == U \ B
  <2>1. W \subseteq Nat /\ W # {} /\ \A b \in W : dist[b] \in Nat BY <1>2, <1>4
  <2> HIDE DEF W
  <2>2. \E y \in W : \A b \in W : ~Nearer(dist, b, y) BY <2>1, NearestExists
  <2> QED BY <2>2 DEF W
<1>7. CloserIn(dist, U, x) \subseteq B
  <2>1. \A b \in U : Nearer(dist, b, x) => b \in B BY <1>6
  <2> QED BY <2>1 DEF CloserIn
<1>8. ~(Cardinality(CloserIn(dist, U, x)) < n) BY <1>6, BestDef DEF B
<1>9. B \subseteq CloserIn(dist, P, a)
  <2> SUFFICES ASSUME NEW b \in B PROVE Nearer(dist, b, a)
    BY <1>3 DEF CloserIn
  <2>1. b \in U /\ b # a BY <1>3
  <2>2. Cardinality(CloserIn(dist, U, b)) < n BY BestDef DEF B
  <2>3. ASSUME Nearer(dist, a, b) PROVE FALSE
    <3>1. \A y \in U : Nearer(dist, y, a) => Nearer(dist, y, b)
      <4> SUFFICES ASSUME NEW y \in U, Nearer(dist, y, a) PROVE Nearer(dist, y, b)
        OBVIOUS
      <4>1. /\ y \in Nat /\ a \in Nat /\ b \in Nat
            /\ dist[y] \in Nat /\ dist[a] \in Nat /\ dist[b] \in Nat
        BY <1>2, <1>4, <2>1
      <4> QED BY <2>3, <4>1 DEF Nearer
    <3>2. CloserIn(dist, U, a) \in SUBSET CloserIn(dist, U, b) BY <3>1 DEF CloserIn
    <3>3. IsFiniteSet(CloserIn(dist, U, b)) BY <1>2, <1>5, FS_Subset
    <3>4. /\ Cardinality(CloserIn(dist, U, a)) <= Cardinality(CloserIn(dist, U, b))
          /\ Cardinality(CloserIn(dist, U, a)) \in Nat /\ Cardinality(CloserIn(dist, U, b)) \in Nat
      BY <3>2, <3>3, FS_Subset, FS_CardinalityType
    <3>5. Cardinality(CloserIn(dist, U, a)) < n BY <2>2, <3>4
    <3> QED BY <1>4, <3>5, BestDef DEF B
  <2>4. /\ a \in Nat /\ b \in Nat /\ dist[a] \in Nat /\ dist[b] \in Nat BY <1>2, <1>4, <2>1
  <2> QED BY <2>1, <2>3, <2>4 DEF Nearer
<1>10. Cardinality(CloserIn(dist, P, a)) < n BY BestDef
<1>11. /\ Cardinality(CloserIn(dist, U, x)) <= Cardinality(B)
       /\ Cardinality(B) <= Cardinality(CloserIn(dist, P, a))
       /\ Cardinality(CloserIn(dist, U, x)) \in Nat /\ Cardinality(B) \in Nat
       /\ Cardinality(CloserIn(dist, P, a)) \in Nat
  <2>1. IsFiniteSet(CloserIn(dist, P, a)) /\ IsFiniteSet(CloserIn(dist, U, x))
    BY <1>2, <1>3, <1>5, FS_Subset
  <2> HIDE DEF B
  <2> QED BY <1>3, <1>7, <1>9, <2>1, FS_Subset, FS_CardinalityType
<1> HIDE DEF B
<1> QED BY <1>8, <1>10, <1>11

\* A queue with room for all candidates keeps them all.
LEMMA RoomForAll ==
  ASSUME NEW S, IsFiniteSet(S), NEW dist, \A a \in S : dist[a] \in Nat /\ a \in Nat,
         NEW n \in Nat, Cardinality(S) <= n
  PROVE  Best(dist, S, n) = S
<1> SUFFICES ASSUME NEW a \in S PROVE Cardinality(CloserIn(dist, S, a)) < n
  BY BestDef
<1>1. a \notin CloserIn(dist, S, a)
  <2>1. ~Nearer(dist, a, a) BY DEF Nearer
  <2> QED BY <2>1 DEF CloserIn
<1>2. CloserIn(dist, S, a) \in SUBSET S /\ CloserIn(dist, S, a) # S BY <1>1 DEF CloserIn
<1>3. /\ Cardinality(CloserIn(dist, S, a)) < Cardinality(S)
      /\ Cardinality(CloserIn(dist, S, a)) \in Nat /\ Cardinality(S) \in Nat
  BY <1>2, FewerMembers
<1> QED BY <1>3

\* A search of a group's graph finds vectors of the group, at least one, and in a
\* complete graph the closest ones.
LEMMA SearchFinds ==
  ASSUME NEW h \in Groups, NEW v \in Points, entries[h] \in Members(h),
         \A w \in Members(h) : neighbors[w] \subseteq 0 .. GroupSizes[h] - 1
  PROVE  /\ GroupSearch(h, v) \subseteq Members(h)
         /\ GroupSearch(h, v) # {}
         /\ (\A w \in Members(h) : neighbors[w] = (0 .. GroupSizes[h] - 1) \ {w - First[h]})
              => Best(DistFrom(v), Members(h), NumCross) \subseteq GroupSearch(h, v)
<1>1. PICK all \in SUBSET Members(h) :
        /\ entries[h] \in all
        /\ GroupSearch(h, v) \subseteq all
        /\ GroupSearch(h, v) = Best(DistFrom(v), Met(h, all), Lbuild)
  BY SearchResult
<1>2. Met(h, all) \subseteq Members(h) /\ entries[h] \in Met(h, all)
  BY <1>1, IdsInRange DEF Met
<1>3. Members(h) \subseteq Points /\ Members(h) \subseteq Nat /\ IsFiniteSet(Members(h))
  BY MembersDiffer, IdsInRange
<1>4. NumCross \in Nat /\ Lbuild \in Nat \ {0} /\ NumCross <= Lbuild
  BY GraphAssumption
<1>5. GroupSearch(h, v) # {}
  <2>1. \A a \in Met(h, all) : DistFrom(v)[a] \in Nat BY <1>2, <1>3, Distances
  <2>2. Met(h, all) \subseteq Nat /\ Met(h, all) # {} BY <1>2, <1>3
  <2>3. Best(DistFrom(v), Met(h, all), Lbuild) # {} BY <1>4, <2>1, <2>2, BestSome
  <2> QED BY <1>1, <2>3
<1>6. ASSUME \A w \in Members(h) : neighbors[w] = (0 .. GroupSizes[h] - 1) \ {w - First[h]}
      PROVE  Best(DistFrom(v), Members(h), NumCross) \subseteq GroupSearch(h, v)
  <2>1. Members(h) \subseteq Met(h, all)
    <3> SUFFICES ASSUME NEW w \in Members(h), w # entries[h] PROVE w \in Met(h, all)
      BY <1>2
    <3>1. First[h] \in Nat /\ w \in Nat /\ entries[h] \in Nat BY Ranges, <1>3
    <3>2. w - First[h] \in 0 .. GroupSizes[h] - 1 BY IdsInRange
    <3>3. w - First[h] # entries[h] - First[h] BY <3>1
    <3>4. w - First[h] \in neighbors[entries[h]] BY <1>6, <3>2, <3>3
    <3>5. w - First[h] \in UNION {neighbors[u] : u \in all} BY <1>1, <3>4
    <3>6. w = (w - First[h]) + First[h] BY <3>1
    <3> QED BY <3>5, <3>6 DEF Met
  <2>2. Met(h, all) = Members(h) BY <1>2, <2>1
  <2>3. \A a \in Best(DistFrom(v), Members(h), NumCross) :
          a \in Members(h) => a \in Best(DistFrom(v), Members(h), Lbuild)
    BY <1>3, <1>4, BestWithin
  <2>4. Best(DistFrom(v), Members(h), NumCross) \subseteq Members(h) BY BestIsPart
  <2> QED BY <1>1, <2>2, <2>3, <2>4
<1>7. GroupSearch(h, v) \subseteq Members(h) BY <1>1
<1> QED BY <1>5, <1>6, <1>7

-----------------------------------------------------------------------------
\* the vectors of the groups next above g, and of the ones among them whose
\* graphs the vectors of g have been searched for in
UpMembers(g) == UNION {Members(h) : h \in OutNbrs[g]}

Searched(g) ==
  IF phase = "groups" THEN {}
  ELSE IF phase = "cross" THEN OutNbrs[g] \ left
  ELSE OutNbrs[g]

SearchedMembers(g) == UNION {Members(h) : h \in Searched(g)}

\* a vector's neighbors in its group's graph, as ids of the group and of the whole
LocalIds(v) == 0 .. GroupSizes[GroupOf[v]] - 1
Own(v) == {n + First[GroupOf[v]] : n \in local[v]}

BeforeOffset == phase \in {"groups", "cross", "extra", "offset"}

PhaseInv ==
  /\ phase \in {"groups", "cross", "extra", "offset", "merge", "merge extra", "built"}
  /\ buildScenario \in {"general", "equality"}
  /\ buildScenario = "equality" => phase \in {"groups", "offset", "built"}

\* Ids of a group are in use until the offset is added, once, and then the list of
\* a vector is that of its group's graph, with edges up the label navigating graph.
EdgesInv ==
  /\ DOMAIN entries = Groups
  /\ \A g \in Groups : entries[g] \in Members(g)
  /\ \A v \in Points :
       /\ local[v] \subseteq LocalIds(v)
       /\ BeforeOffset => neighbors[v] \subseteq LocalIds(v)
       /\ BeforeOffset /\ phase # "groups" => local[v] = neighbors[v]
       /\ crossNbrs[v] \subseteq SearchedMembers(GroupOf[v])
       /\ ~BeforeOffset => /\ Own(v) \subseteq neighbors[v]
                           /\ neighbors[v] \subseteq Own(v) \union UpMembers(GroupOf[v])
       /\ phase = "built" /\ buildScenario = "equality" => neighbors[v] \subseteq Own(v)
  /\ \A g \in Groups : \A e \in extra[g] : e[1] \in Members(g) /\ e[2] \in UpMembers(g)

SmallAbove(g) == \A h \in OutNbrs[g] : GroupSizes[h] <= MaxDegree

\* Small groups have complete graphs until the offset is added, and a vector below
\* small groups only has the closest of all searched so far and keeps them.
ClosestInv ==
  \A v \in Points :
    /\ /\ GroupSizes[GroupOf[v]] <= MaxDegree
       /\ (phase = "groups" /\ GroupOf[v] \notin left) \/ phase \in {"cross", "extra"}
       => neighbors[v] = LocalIds(v) \ {v - First[GroupOf[v]]}
    /\ buildScenario = "general" /\ SmallAbove(GroupOf[v]) =>
         Best(DistFrom(v), SearchedMembers(GroupOf[v]), NumCross) \subseteq crossNbrs[v]
    /\ phase \in {"merge extra", "built"} /\ buildScenario = "general" =>
         crossNbrs[v] \subseteq neighbors[v]

\* With more than one cross-group edge a group without an edge to one next above it
\* has an additional one, and keeps it.
ConnectInv ==
  /\ phase \in {"offset", "merge", "merge extra", "built"} /\ buildScenario = "general"
       /\ NumCross # 1 =>
       \A g \in Groups : \A h \in OutNbrs[g] :
         h \in Connected(g) \/ \E e \in extra[g] : e[2] \in Members(h)
  /\ phase = "built" /\ buildScenario = "general" =>
       \A v \in Points : ExtraOf(v) \subseteq neighbors[v]

BuildInv == PhaseInv /\ EdgesInv /\ ClosestInv /\ ConnectInv

LEMMA BuildInit == Init => BuildInv
<1> SUFFICES ASSUME Init PROVE BuildInv
  OBVIOUS
<1>1. PhaseInv BY GraphAssumption DEF Init, PhaseInv
<1>2. EdgesInv
  <2>1. \A g \in Groups : First[g] \in Members(g) BY IdsInRange
  <2> QED BY <2>1 DEF Init, EdgesInv, BeforeOffset
<1>3. ClosestInv
  <2>1. \A v \in Points : GroupOf[v] \in left BY MembersDiffer DEF Init
  <2>2. \A v \in Points : SearchedMembers(GroupOf[v]) = {} BY DEF Init, SearchedMembers, Searched
  <2>3. \A v \in Points : Best(DistFrom(v), {}, NumCross) = {} BY BestIsPart
  <2>4. phase = "groups" BY DEF Init
  <2> QED BY <2>1, <2>2, <2>3, <2>4 DEF ClosestInv
<1>4. ConnectInv BY DEF Init, ConnectInv
<1> QED BY <1>1, <1>2, <1>3, <1>4 DEF BuildInv

\* The graph of a group has its ids only, and all of them when the group is small.
LEMMA GroupGraphIds ==
  ASSUME NEW g \in Groups, NEW graph \in GroupGraphs[g], NEW v \in Members(g)
  PROVE  /\ graph[v - First[g]] \subseteq LocalIds(v)
         /\ GroupSizes[g] <= MaxDegree =>
              graph[v - First[g]] = LocalIds(v) \ {v - First[GroupOf[v]]}
<1> DEFINE ids == 0 .. GroupSizes[g] - 1
<1>1. v - First[g] \in ids BY IdsInRange
<1>2. GroupOf[v] = g BY MembersDiffer
<1>3. LocalIds(v) = ids BY <1>2 DEF LocalIds
<1>4. CASE GroupSizes[g] <= MaxDegree
  <2>1. graph = [i \in ids |-> ids \ {i}] BY <1>4 DEF GroupGraphs
  <2> HIDE DEF ids
  <2> QED BY <1>1, <1>2, <1>3, <2>1
<1>5. CASE ~(GroupSizes[g] <= MaxDegree)
  <2>1. graph \in [ids -> SUBSET ids] BY <1>5 DEF GroupGraphs
  <2> HIDE DEF ids
  <2> QED BY <1>1, <1>3, <1>5, <2>1
<1> QED BY <1>4, <1>5

LEMMA BuildGroupStep ==
  ASSUME BuildInv, NEW g \in Groups, BuildGroup(g)
  PROVE  BuildInv'
<1>1. PICK graph \in GroupGraphs[g] :
        neighbors' = [v \in Points |-> IF v \in Members(g) THEN graph[v - First[g]] ELSE neighbors[v]]
  BY DEF BuildGroup
<1>2. PICK e \in EntryPoints(g) : entries' = [entries EXCEPT ![g] = e]
  BY DEF BuildGroup
<1>3. /\ phase = "groups" /\ phase' = "groups" /\ left' = left \ {g}
      /\ UNCHANGED <<buildScenario, local, crossNbrs, extra>>
  BY DEF BuildGroup
<1>4. PhaseInv' BY <1>3 DEF BuildInv, PhaseInv
<1>5. EdgesInv'
  <2>1. e \in Members(g) BY IdsInRange DEF EntryPoints
  <2>2. DOMAIN entries' = Groups /\ \A h \in Groups : entries'[h] \in Members(h)
    BY <1>2, <2>1 DEF BuildInv, EdgesInv
  <2>3. ASSUME NEW v \in Points PROVE neighbors'[v] \subseteq LocalIds(v)
    <3>1. v \in Members(g) => graph[v - First[g]] \subseteq LocalIds(v) BY GroupGraphIds
    <3>2. neighbors[v] \subseteq LocalIds(v) BY <1>3 DEF BuildInv, EdgesInv, BeforeOffset
    <3> QED BY <1>1, <3>1, <3>2
  <2>4. \A v \in Points : LocalIds(v)' = LocalIds(v) /\ Own(v)' = Own(v)
    BY <1>3 DEF LocalIds, Own
  <2>5. \A v \in Points : SearchedMembers(GroupOf[v])' = SearchedMembers(GroupOf[v])
    BY <1>3 DEF SearchedMembers, Searched
  <2>6. BeforeOffset /\ BeforeOffset' BY <1>3 DEF BeforeOffset
  <2>7. ASSUME NEW v \in Points PROVE local'[v] \subseteq LocalIds(v) /\ crossNbrs'[v] \subseteq SearchedMembers(GroupOf[v])
    BY <1>3 DEF BuildInv, EdgesInv
  <2>8. \A h \in Groups : \A x \in extra'[h] : x[1] \in Members(h) /\ x[2] \in UpMembers(h)
    BY <1>3 DEF BuildInv, EdgesInv
  <2>9. \A v \in Points :
          /\ local'[v] \subseteq LocalIds(v)'
          /\ neighbors'[v] \subseteq LocalIds(v)'
          /\ crossNbrs'[v] \subseteq SearchedMembers(GroupOf[v])'
    BY <2>3, <2>4, <2>5, <2>7
  <2> QED BY <1>3, <2>2, <2>6, <2>8, <2>9 DEF EdgesInv
<1>6. ClosestInv'
  <2>1. ASSUME NEW v \in Points, GroupSizes[GroupOf[v]] <= MaxDegree, GroupOf[v] \notin left'
        PROVE  neighbors'[v] = LocalIds(v) \ {v - First[GroupOf[v]]}
    <3>1. CASE v \in Members(g)
      <4>1. GroupOf[v] = g BY <3>1, MembersDiffer
      <4>2. graph[v - First[g]] = LocalIds(v) \ {v - First[GroupOf[v]]}
        BY <2>1, <3>1, <4>1, GroupGraphIds
      <4> QED BY <1>1, <3>1, <4>2
    <3>2. CASE v \notin Members(g)
      <4>1. GroupOf[v] # g BY <3>2, MembersDiffer
      <4>2. GroupOf[v] \notin left BY <1>3, <2>1, <4>1
      <4>3. neighbors[v] = LocalIds(v) \ {v - First[GroupOf[v]]}
        BY <1>3, <2>1, <4>2 DEF BuildInv, ClosestInv
      <4> QED BY <1>1, <3>2, <4>3
    <3> QED BY <3>1, <3>2
  <2>2. \A v \in Points : SearchedMembers(GroupOf[v])' = {}
    BY <1>3 DEF SearchedMembers, Searched
  <2>3. \A v \in Points : Best(DistFrom(v), {}, NumCross) = {} BY BestIsPart
  <2>4. \A v \in Points : LocalIds(v)' = LocalIds(v) BY DEF LocalIds
  <2>5. \A v \in Points : GroupSizes[GroupOf[v]] <= MaxDegree /\ GroupOf[v] \notin left' =>
          neighbors'[v] = LocalIds(v)' \ {v - First[GroupOf[v]]}
    BY <2>1, <2>4
  <2> QED BY <1>3, <2>2, <2>3, <2>5 DEF ClosestInv
<1>7. ConnectInv' BY <1>3 DEF ConnectInv
<1> QED BY <1>4, <1>5, <1>6, <1>7 DEF BuildInv

LEMMA GroupsBuiltStep ==
  ASSUME BuildInv, GroupsBuilt
  PROVE  BuildInv'
<1>1. /\ phase = "groups" /\ left = {} /\ local' = neighbors /\ left' = Groups
      /\ phase' = IF buildScenario = "equality" THEN "offset" ELSE "cross"
      /\ UNCHANGED <<buildScenario, neighbors, entries, crossNbrs, extra>>
  BY DEF GroupsBuilt
<1>2. PhaseInv' BY <1>1 DEF BuildInv, PhaseInv
<1>3. \A v \in Points : SearchedMembers(GroupOf[v]) = {}
  BY <1>1 DEF SearchedMembers, Searched
<1>4. EdgesInv'
  <2>1. DOMAIN entries' = Groups /\ \A h \in Groups : entries'[h] \in Members(h)
    BY <1>1 DEF BuildInv, EdgesInv
  <2>2. \A v \in Points : local'[v] = neighbors'[v] /\ neighbors'[v] \subseteq LocalIds(v)'
    BY <1>1 DEF BuildInv, EdgesInv, BeforeOffset, LocalIds
  <2>3. \A v \in Points : crossNbrs'[v] = {}
    BY <1>1, <1>3 DEF BuildInv, EdgesInv
  <2>4. \A h \in Groups : \A x \in extra'[h] : x[1] \in Members(h) /\ x[2] \in UpMembers(h)
    BY <1>1 DEF BuildInv, EdgesInv
  <2>5. BeforeOffset' /\ phase' # "built" BY <1>1 DEF BeforeOffset
  <2> QED BY <2>1, <2>2, <2>3, <2>4, <2>5 DEF EdgesInv
<1>5. ClosestInv'
  <2>1. ASSUME NEW v \in Points, GroupSizes[GroupOf[v]] <= MaxDegree
        PROVE  neighbors'[v] = LocalIds(v)' \ {v - First[GroupOf[v]]}
    BY <1>1, <2>1 DEF BuildInv, ClosestInv, LocalIds
  <2>2. \A v \in Points : buildScenario' = "general" => SearchedMembers(GroupOf[v])' = {}
    <3>1. \A v \in Points : OutNbrs[GroupOf[v]] \subseteq Groups
      <4> TAKE v \in Points
      <4>1. GroupOf[v] \in Groups BY MembersDiffer
      <4> QED BY <4>1, UpTheLabels
    <3>2. buildScenario' = "general" => phase' = "cross" BY <1>1
    <3> QED BY <1>1, <3>1, <3>2 DEF SearchedMembers, Searched
  <2>3. \A v \in Points : Best(DistFrom(v), {}, NumCross) = {} BY BestIsPart
  <2>4. phase' \notin {"merge extra", "built"} BY <1>1
  <2> QED BY <2>1, <2>2, <2>3, <2>4 DEF ClosestInv
<1>6. ConnectInv'
  BY <1>1 DEF ConnectInv
<1> QED BY <1>2, <1>4, <1>5, <1>6 DEF BuildInv

\* The searched members of a group with a group more above it searched.
LEMMA OneMoreSearched ==
  ASSUME NEW h \in Groups, phase = "cross", phase' = "cross", h \in left, left' = left \ {h},
         NEW g \in Groups
  PROVE  /\ h \in OutNbrs[g] => SearchedMembers(g)' = SearchedMembers(g) \union Members(h)
         /\ h \notin OutNbrs[g] => SearchedMembers(g)' = SearchedMembers(g)
<1>1. Searched(g)' = OutNbrs[g] \ (left \ {h}) /\ Searched(g) = OutNbrs[g] \ left
  BY DEF Searched
<1>2. h \in OutNbrs[g] => Searched(g)' = Searched(g) \union {h} BY <1>1
<1>3. h \notin OutNbrs[g] => Searched(g)' = Searched(g) BY <1>1
<1>4. SearchedMembers(g)' = UNION {Members(k) : k \in Searched(g)'} BY DEF SearchedMembers
<1> QED BY <1>2, <1>3, <1>4 DEF SearchedMembers

LEMMA SearchedAreUp ==
  ASSUME NEW g \in Groups
  PROVE  /\ SearchedMembers(g) \subseteq UpMembers(g)
         /\ UpMembers(g) \subseteq Points /\ OutNbrs[g] \subseteq Groups
<1>1. OutNbrs[g] \subseteq Groups BY UpTheLabels
<1>2. Searched(g) \subseteq OutNbrs[g] BY DEF Searched
<1> QED BY <1>1, <1>2, MembersDiffer DEF SearchedMembers, UpMembers

LEMMA PointsFinite == IsFiniteSet(Points)
<1> DEFINE N == Len(GroupLabels)
<1>1. Groups = 1 .. N /\ N \in Nat BY GraphAssumption
<1>2. CASE N = 0
  <2>1. Points = {} BY <1>1, <1>2 DEF Points
  <2> QED BY <2>1, FS_EmptySet
<1>3. CASE N # 0
  <2> HIDE DEF N
  <2>1. N \in Groups BY <1>1, <1>3
  <2>2. First[N] \in Nat /\ GroupSizes[N] \in Nat BY <2>1, Ranges
  <2>3. ASSUME NEW v \in Points PROVE v \in 0 .. First[N] + GroupSizes[N]
    <3>1. PICK g \in Groups : v \in Members(g) BY DEF Points
    <3>2. g \in Nat /\ g <= N BY <1>1
    <3>3. First[g] \in Nat /\ GroupSizes[g] \in Nat BY Ranges
    <3>4. v \in Nat /\ v <= First[g] + GroupSizes[g] BY <3>1, <3>3 DEF Members
    <3>5. g # N => First[g] + GroupSizes[g] <= First[N]
      BY <1>1, <2>1, <3>2, Ranges
    <3> QED BY <2>2, <3>3, <3>4, <3>5
  <2>4. IsFiniteSet(0 .. First[N] + GroupSizes[N]) BY <2>2, FS_Interval
  <2> QED BY <2>3, <2>4, FS_Subset
<1> QED BY <1>2, <1>3

LEMMA CrossSearchStep ==
  ASSUME BuildInv, NEW h \in Groups, CrossSearch(h)
  PROVE  BuildInv'
<1>1. /\ phase = "cross" /\ phase' = "cross" /\ h \in left /\ left' = left \ {h}
      /\ UNCHANGED <<buildScenario, neighbors, local, entries, extra>>
  BY DEF CrossSearch
<1>2. \A v \in Points : crossNbrs'[v] = IF GroupOf[v] \in InNbrs(h)
                                        THEN KeepClosest(v, GroupSearch(h, v)) ELSE crossNbrs[v]
  BY DEF CrossSearch
<1>3. \A v \in Points : GroupOf[v] \in Groups /\ (GroupOf[v] \in InNbrs(h) <=> h \in OutNbrs[GroupOf[v]])
  BY MembersDiffer DEF InNbrs
<1>4. \A v \in Points :
        /\ GroupSearch(h, v) \subseteq Members(h)
        /\ GroupSizes[h] <= MaxDegree =>
             Best(DistFrom(v), Members(h), NumCross) \subseteq GroupSearch(h, v)
  <2> TAKE v \in Points
  <2>1. \A w \in Members(h) : w \in Points /\ GroupOf[w] = h BY MembersDiffer
  <2>2. \A w \in Members(h) : neighbors[w] \subseteq 0 .. GroupSizes[h] - 1
    BY <1>1, <2>1 DEF BuildInv, EdgesInv, BeforeOffset, LocalIds
  <2>3. GroupSizes[h] <= MaxDegree =>
          \A w \in Members(h) : neighbors[w] = (0 .. GroupSizes[h] - 1) \ {w - First[h]}
    BY <1>1, <2>1 DEF BuildInv, ClosestInv, LocalIds
  <2>4. entries[h] \in Members(h) BY DEF BuildInv, EdgesInv
  <2> QED BY <2>2, <2>3, <2>4, SearchFinds
<1>5. PhaseInv' BY <1>1 DEF BuildInv, PhaseInv
<1>6. \A v \in Points : crossNbrs[v] \subseteq SearchedMembers(GroupOf[v])
  BY DEF BuildInv, EdgesInv
<1>7. \A v \in Points : crossNbrs'[v] \subseteq SearchedMembers(GroupOf[v])'
  <2> TAKE v \in Points
  <2>1. CASE h \in OutNbrs[GroupOf[v]]
    <3>1. crossNbrs'[v] \subseteq crossNbrs[v] \union GroupSearch(h, v)
      <4>1. crossNbrs'[v] = Best(DistFrom(v), crossNbrs[v] \union GroupSearch(h, v), NumCross)
        BY <1>2, <1>3, <2>1 DEF KeepClosest
      <4> DEFINE found == crossNbrs[v] \union GroupSearch(h, v)
      <4> HIDE DEF found
      <4>2. Best(DistFrom(v), found, NumCross) \subseteq found BY BestIsPart
      <4> QED BY <4>1, <4>2 DEF found
    <3>2. SearchedMembers(GroupOf[v])' = SearchedMembers(GroupOf[v]) \union Members(h)
      BY <1>1, <1>3, <2>1, OneMoreSearched
    <3> QED BY <1>4, <1>6, <3>1, <3>2
  <2>2. CASE h \notin OutNbrs[GroupOf[v]]
    BY <1>1, <1>2, <1>3, <1>6, <2>2, OneMoreSearched
  <2> QED BY <2>1, <2>2
<1>8. EdgesInv'
  <2>1. BeforeOffset /\ BeforeOffset' BY <1>1 DEF BeforeOffset
  <2>2. ASSUME NEW v \in Points
        PROVE  /\ local'[v] \subseteq LocalIds(v)'
               /\ neighbors'[v] \subseteq LocalIds(v)'
               /\ local'[v] = neighbors'[v]
    BY <1>1, <2>1 DEF BuildInv, EdgesInv, LocalIds
  <2>3. /\ DOMAIN entries' = Groups /\ \A g \in Groups : entries'[g] \in Members(g)
        /\ \A g \in Groups : \A x \in extra'[g] : x[1] \in Members(g) /\ x[2] \in UpMembers(g)
    BY <1>1 DEF BuildInv, EdgesInv
  <2> QED BY <1>1, <1>7, <2>1, <2>2, <2>3 DEF EdgesInv
<1>9. ASSUME NEW v \in Points, SmallAbove(GroupOf[v])
      PROVE  Best(DistFrom(v), SearchedMembers(GroupOf[v])', NumCross) \subseteq crossNbrs'[v]
  <2> DEFINE dv == DistFrom(v)
             U == SearchedMembers(GroupOf[v])
  <2>0. Best(dv, U, NumCross) \subseteq crossNbrs[v] /\ crossNbrs[v] \in SUBSET U
    BY <1>1, <1>6, <1>9 DEF BuildInv, ClosestInv, PhaseInv
  <2>1. CASE h \in OutNbrs[GroupOf[v]]
    <3> DEFINE T == Members(h)
               found == GroupSearch(h, v)
    <3>1. SearchedMembers(GroupOf[v])' = U \union T
      BY <1>1, <1>3, <2>1, OneMoreSearched
    <3>2. crossNbrs'[v] = Best(dv, crossNbrs[v] \union found, NumCross)
      BY <1>2, <1>3, <2>1 DEF KeepClosest
    <3>3. IsFiniteSet(U \union T)
      <4>1. U \subseteq Points BY <1>3, SearchedAreUp
      <4>2. T \subseteq Points BY MembersDiffer
      <4> HIDE DEF U, T
      <4>3. U \union T \in SUBSET Points BY <4>1, <4>2
      <4> QED BY <4>3, PointsFinite, FS_Subset
    <3>4. GroupSizes[h] <= MaxDegree BY <1>9, <2>1 DEF SmallAbove
    <3>5. found \in SUBSET T /\ Best(dv, T, NumCross) \subseteq found
      BY <1>4, <3>4
    <3>6. NumCross \in Nat BY GraphAssumption
    <3> DEFINE kept == crossNbrs[v]
    <3>7. kept \in SUBSET U /\ Best(dv, U, NumCross) \subseteq kept BY <2>0
    <3>8. Best(dv, U \union T, NumCross) \subseteq Best(dv, kept \union found, NumCross)
      <4> HIDE DEF dv, U, T, found, kept
      <4> QED BY <3>3, <3>5, <3>6, <3>7, KeepsBest
    <3> QED BY <3>1, <3>2, <3>8
  <2>2. CASE h \notin OutNbrs[GroupOf[v]]
    <3>1. SearchedMembers(GroupOf[v])' = U BY <1>1, <1>3, <2>2, OneMoreSearched
    <3>2. crossNbrs'[v] = crossNbrs[v] BY <1>2, <1>3, <2>2
    <3> QED BY <2>0, <3>1, <3>2
  <2> QED BY <2>1, <2>2
<1>10. ClosestInv'
  <2>1. \A v \in Points : GroupSizes[GroupOf[v]] <= MaxDegree =>
          neighbors'[v] = LocalIds(v)' \ {v - First[GroupOf[v]]}
    BY <1>1 DEF BuildInv, ClosestInv, LocalIds
  <2>2. \A v \in Points : SmallAbove(GroupOf[v]) =>
          Best(DistFrom(v), SearchedMembers(GroupOf[v])', NumCross) \subseteq crossNbrs'[v]
    BY <1>9
  <2>3. phase' = "cross" BY <1>1
  <2> QED BY <2>1, <2>2, <2>3 DEF ClosestInv
<1>11. ConnectInv' BY <1>1 DEF ConnectInv
<1> QED BY <1>5, <1>8, <1>10, <1>11 DEF BuildInv

LEMMA CrossSearchedStep ==
  ASSUME BuildInv, CrossSearched
  PROVE  BuildInv'
<1>1. /\ phase = "cross" /\ left = {} /\ phase' = "extra"
      /\ UNCHANGED <<buildScenario, neighbors, local, entries, left, crossNbrs, extra>>
  BY DEF CrossSearched
<1>2. PhaseInv' BY <1>1 DEF BuildInv, PhaseInv
<1>3. \A v \in Points : /\ SearchedMembers(GroupOf[v])' = SearchedMembers(GroupOf[v])
                        /\ LocalIds(v)' = LocalIds(v)
  BY <1>1 DEF SearchedMembers, Searched, LocalIds
<1>4. EdgesInv'
  <2>1. BeforeOffset /\ BeforeOffset' BY <1>1 DEF BeforeOffset
  <2>2. ASSUME NEW v \in Points
        PROVE  /\ local'[v] \subseteq LocalIds(v)'
               /\ neighbors'[v] \subseteq LocalIds(v)'
               /\ local'[v] = neighbors'[v]
               /\ crossNbrs'[v] \subseteq SearchedMembers(GroupOf[v])'
    BY <1>1, <1>3, <2>1 DEF BuildInv, EdgesInv
  <2>3. /\ DOMAIN entries' = Groups /\ \A g \in Groups : entries'[g] \in Members(g)
        /\ \A g \in Groups : \A x \in extra'[g] : x[1] \in Members(g) /\ x[2] \in UpMembers(g)
    BY <1>1 DEF BuildInv, EdgesInv
  <2> QED BY <1>1, <2>1, <2>2, <2>3 DEF EdgesInv
<1>5. ClosestInv'
  <2>1. ASSUME NEW v \in Points
        PROVE  /\ GroupSizes[GroupOf[v]] <= MaxDegree =>
                    neighbors'[v] = LocalIds(v)' \ {v - First[GroupOf[v]]}
               /\ SmallAbove(GroupOf[v]) =>
                    Best(DistFrom(v), SearchedMembers(GroupOf[v])', NumCross) \subseteq crossNbrs'[v]
    BY <1>1, <1>3 DEF BuildInv, ClosestInv, PhaseInv
  <2> QED BY <1>1, <2>1 DEF ClosestInv
<1>6. ConnectInv' BY <1>1 DEF ConnectInv
<1> QED BY <1>2, <1>4, <1>5, <1>6 DEF BuildInv

\* A pair of groups without an edge gets one of the first vector's, if NumCross
\* allows for it.
LEMMA ExtraEdgesConnect ==
  ASSUME BuildInv, phase = "extra", NEW g \in Groups, NEW h \in OutNbrs[g]
  PROVE  /\ \A e \in ExtraEdges(g, h) : e[1] \in Members(g) /\ e[2] \in Members(h)
         /\ NumCross # 1 => \E e \in ExtraEdges(g, h) : e[2] \in Members(h)
<1> DEFINE Found(v) == Best(DistFrom(v), GroupSearch(h, v), NumCross \div 2)
           Before(v) == UNION {{<<u, w>> : w \in Found(u)} : u \in First[g] .. v - 1}
<1>1. h \in Groups BY UpTheLabels
<1>2. \A v \in Points : GroupSearch(h, v) \subseteq Members(h) /\ GroupSearch(h, v) # {}
  <2> TAKE v \in Points
  <2>1. \A w \in Members(h) : w \in Points /\ GroupOf[w] = h BY <1>1, MembersDiffer
  <2>2. \A w \in Members(h) : neighbors[w] \subseteq 0 .. GroupSizes[h] - 1
    BY <2>1 DEF BuildInv, EdgesInv, BeforeOffset, LocalIds
  <2>3. entries[h] \in Members(h) BY <1>1 DEF BuildInv, EdgesInv
  <2> QED BY <1>1, <2>2, <2>3, SearchFinds
<1>3. \A v \in Points : Found(v) \subseteq Members(h)
  BY <1>2, BestIsPart
<1>4. Members(g) \subseteq Points /\ Members(h) \subseteq Nat /\ Members(h) \subseteq Points
  BY <1>1, MembersDiffer
<1>5. ExtraEdges(g, h) = UNION {{<<v, w>> : w \in Found(v)} :
                           v \in {u \in Members(g) : Cardinality(Before(u)) < NumCross}}
  BY DEF ExtraEdges
<1>6. ASSUME NEW e \in ExtraEdges(g, h) PROVE e[1] \in Members(g) /\ e[2] \in Members(h)
  <2> HIDE DEF Found, Before
  <2>1. PICK v \in Members(g) : e \in {<<v, w>> : w \in Found(v)} BY <1>5, <1>6
  <2>2. PICK w \in Found(v) : e = <<v, w>> BY <2>1
  <2>3. w \in Members(h) BY <1>3, <1>4
  <2> QED BY <2>2, <2>3
<1>7. ASSUME NumCross # 1 PROVE \E e \in ExtraEdges(g, h) : e[2] \in Members(h)
  <2> DEFINE v == First[g]
  <2>1. v \in Members(g) /\ v \in Points /\ v \in Nat BY <1>4, IdsInRange, Ranges
  <2>2. Before(v) = {}
    <3>1. First[g] .. First[g] - 1 = {} BY <2>1
    <3> HIDE DEF Found
    <3> QED BY <3>1
  <2>3. NumCross \in Nat \ {0} /\ NumCross \div 2 \in Nat \ {0} BY <1>7, GraphAssumption
  <2>4. Cardinality(Before(v)) < NumCross
    <3>1. 0 < NumCross BY <2>3
    <3> HIDE DEF Before, v
    <3> QED BY <2>2, <3>1, FS_EmptySet
  <2>5. Found(v) # {}
    <3> DEFINE S == GroupSearch(h, v)
               n == NumCross \div 2
               dv == DistFrom(v)
    <3>1. S # {} /\ S \subseteq Nat /\ S \subseteq Points BY <1>2, <1>4, <2>1
    <3>2. \A a \in S : dv[a] \in Nat BY <2>1, <3>1, Distances
    <3>3. n \in Nat \ {0} BY <2>3
    <3> HIDE DEF S, n, dv
    <3>4. Best(dv, S, n) # {} BY <3>1, <3>2, <3>3, BestSome
    <3> QED BY <3>4 DEF S, n, dv
  <2> HIDE DEF Found, Before, v
  <2>6. PICK w \in Found(v) : TRUE BY <2>5
  <2>7. <<v, w>> \in ExtraEdges(g, h)
    <3>1. v \in {u \in Members(g) : Cardinality(Before(u)) < NumCross} BY <2>1, <2>4
    <3>2. <<v, w>> \in {<<v, x>> : x \in Found(v)} OBVIOUS
    <3> QED BY <1>5, <3>1, <3>2
  <2>8. w \in Members(h) BY <1>3, <2>1
  <2> QED BY <2>7, <2>8
<1> QED BY <1>6, <1>7

LEMMA AddExtraStep ==
  ASSUME BuildInv, AddExtra
  PROVE  BuildInv'
<1>1. /\ phase = "extra" /\ phase' = "offset"
      /\ UNCHANGED <<buildScenario, neighbors, local, entries, left, crossNbrs>>
  BY DEF AddExtra
<1>2. extra' = [g \in Groups |-> UNION {ExtraEdges(g, h) : h \in OutNbrs[g] \ Connected(g)}]
  BY DEF AddExtra
<1>3. PhaseInv' BY <1>1 DEF BuildInv, PhaseInv
<1>4. \A v \in Points : /\ SearchedMembers(GroupOf[v])' = SearchedMembers(GroupOf[v])
                        /\ LocalIds(v)' = LocalIds(v)
  BY <1>1 DEF SearchedMembers, Searched, LocalIds
<1>5. EdgesInv'
  <2>1. BeforeOffset /\ BeforeOffset' BY <1>1 DEF BeforeOffset
  <2>2. ASSUME NEW v \in Points
        PROVE  /\ local'[v] \subseteq LocalIds(v)'
               /\ neighbors'[v] \subseteq LocalIds(v)'
               /\ local'[v] = neighbors'[v]
               /\ crossNbrs'[v] \subseteq SearchedMembers(GroupOf[v])'
    BY <1>1, <1>4, <2>1 DEF BuildInv, EdgesInv
  <2>3. DOMAIN entries' = Groups /\ \A g \in Groups : entries'[g] \in Members(g)
    BY <1>1 DEF BuildInv, EdgesInv
  <2>4. ASSUME NEW g \in Groups, NEW x \in extra'[g]
        PROVE  x[1] \in Members(g) /\ x[2] \in UpMembers(g)
    <3>1. PICK h \in OutNbrs[g] : x \in ExtraEdges(g, h) BY <1>2, <2>4
    <3>2. x[1] \in Members(g) /\ x[2] \in Members(h) BY <1>1, <3>1, ExtraEdgesConnect
    <3> QED BY <3>2 DEF UpMembers
  <2> QED BY <1>1, <2>1, <2>2, <2>3, <2>4 DEF EdgesInv
<1>6. ClosestInv'
  <2>1. ASSUME NEW v \in Points
        PROVE  SmallAbove(GroupOf[v]) =>
                 Best(DistFrom(v), SearchedMembers(GroupOf[v])', NumCross) \subseteq crossNbrs'[v]
    BY <1>1, <1>4 DEF BuildInv, ClosestInv, PhaseInv
  <2> QED BY <1>1, <2>1 DEF ClosestInv
<1>7. ConnectInv'
  <2>1. \A g \in Groups : Connected(g)' = Connected(g) BY <1>1 DEF Connected
  <2>2. ASSUME NumCross # 1, NEW g \in Groups, NEW h \in OutNbrs[g], h \notin Connected(g)
        PROVE  \E e \in extra'[g] : e[2] \in Members(h)
    <3>1. PICK e \in ExtraEdges(g, h) : e[2] \in Members(h) BY <1>1, <2>2, ExtraEdgesConnect
    <3>2. e \in extra'[g] BY <1>2, <2>2
    <3> QED BY <3>1, <3>2
  <2> QED BY <1>1, <2>1, <2>2 DEF ConnectInv
<1> QED BY <1>3, <1>5, <1>6, <1>7 DEF BuildInv

LEMMA AddOffsetStep ==
  ASSUME BuildInv, AddOffset
  PROVE  BuildInv'
<1>1. /\ phase = "offset"
      /\ phase' = IF buildScenario = "equality" THEN "built" ELSE "merge"
      /\ UNCHANGED <<buildScenario, local, entries, left, crossNbrs, extra>>
  BY DEF AddOffset, AfterOffset
<1>2. \A v \in Points : neighbors'[v] = Own(v)'
  <2> TAKE v \in Points
  <2>1. neighbors'[v] = Offset(v) BY DEF AddOffset
  <2>2. local[v] = neighbors[v] BY <1>1 DEF BuildInv, EdgesInv, BeforeOffset
  <2> QED BY <1>1, <2>1, <2>2 DEF Offset, Own
<1>3. PhaseInv' BY <1>1 DEF BuildInv, PhaseInv
<1>4. \A v \in Points : /\ SearchedMembers(GroupOf[v])' = SearchedMembers(GroupOf[v])
                        /\ LocalIds(v)' = LocalIds(v)
  BY <1>1 DEF SearchedMembers, Searched, LocalIds
<1>5. EdgesInv'
  <2>1. ~BeforeOffset' BY <1>1 DEF BeforeOffset
  <2>2. ASSUME NEW v \in Points
        PROVE  /\ local'[v] \subseteq LocalIds(v)'
               /\ crossNbrs'[v] \subseteq SearchedMembers(GroupOf[v])'
               /\ Own(v)' \subseteq neighbors'[v] /\ neighbors'[v] \subseteq Own(v)'
    BY <1>1, <1>2, <1>4 DEF BuildInv, EdgesInv
  <2>3. /\ DOMAIN entries' = Groups /\ \A g \in Groups : entries'[g] \in Members(g)
        /\ \A g \in Groups : \A x \in extra'[g] : x[1] \in Members(g) /\ x[2] \in UpMembers(g)
    BY <1>1 DEF BuildInv, EdgesInv
  <2> QED BY <1>1, <2>1, <2>2, <2>3 DEF EdgesInv
<1>6. ClosestInv'
  <2>1. ASSUME NEW v \in Points, buildScenario' = "general", SmallAbove(GroupOf[v])
        PROVE  Best(DistFrom(v), SearchedMembers(GroupOf[v])', NumCross) \subseteq crossNbrs'[v]
    BY <1>1, <1>4, <2>1 DEF BuildInv, ClosestInv
  <2> QED BY <1>1, <2>1 DEF ClosestInv
<1>7. ConnectInv'
  <2>1. \A g \in Groups : Connected(g)' = Connected(g) BY <1>1 DEF Connected
  <2> QED BY <1>1, <2>1 DEF BuildInv, ConnectInv
<1> QED BY <1>3, <1>5, <1>6, <1>7 DEF BuildInv

LEMMA MergeCrossStep ==
  ASSUME BuildInv, MergeCross
  PROVE  BuildInv'
<1>1. /\ phase = "merge" /\ phase' = "merge extra"
      /\ UNCHANGED <<buildScenario, local, entries, left, crossNbrs, extra>>
  BY DEF MergeCross
<1>2. \A v \in Points : neighbors'[v] = neighbors[v] \union crossNbrs[v]
  BY DEF MergeCross
<1>3. PhaseInv' BY <1>1 DEF BuildInv, PhaseInv
<1>4. \A v \in Points : /\ SearchedMembers(GroupOf[v])' = SearchedMembers(GroupOf[v])
                        /\ LocalIds(v)' = LocalIds(v) /\ Own(v)' = Own(v)
                        /\ SearchedMembers(GroupOf[v]) \subseteq UpMembers(GroupOf[v])
  <2>1. \A v \in Points : SearchedMembers(GroupOf[v]) \subseteq UpMembers(GroupOf[v])
    BY MembersDiffer, SearchedAreUp
  <2> QED BY <1>1, <2>1 DEF SearchedMembers, Searched, LocalIds, Own
<1>5. EdgesInv'
  <2>1. ~BeforeOffset /\ ~BeforeOffset' BY <1>1 DEF BeforeOffset
  <2>2. ASSUME NEW v \in Points
        PROVE  /\ local'[v] \subseteq LocalIds(v)'
               /\ crossNbrs'[v] \subseteq SearchedMembers(GroupOf[v])'
               /\ Own(v)' \subseteq neighbors'[v]
               /\ neighbors'[v] \subseteq Own(v)' \union UpMembers(GroupOf[v])
    <3>1. /\ local[v] \subseteq LocalIds(v) /\ crossNbrs[v] \subseteq SearchedMembers(GroupOf[v])
          /\ Own(v) \subseteq neighbors[v]
          /\ neighbors[v] \subseteq Own(v) \union UpMembers(GroupOf[v])
      BY <2>1 DEF BuildInv, EdgesInv
    <3> QED BY <1>1, <1>2, <1>4, <3>1
  <2>3. /\ DOMAIN entries' = Groups /\ \A g \in Groups : entries'[g] \in Members(g)
        /\ \A g \in Groups : \A x \in extra'[g] : x[1] \in Members(g) /\ x[2] \in UpMembers(g)
    BY <1>1 DEF BuildInv, EdgesInv
  <2> QED BY <1>1, <2>1, <2>2, <2>3 DEF EdgesInv
<1>6. ClosestInv'
  <2>1. ASSUME NEW v \in Points, buildScenario' = "general", SmallAbove(GroupOf[v])
        PROVE  Best(DistFrom(v), SearchedMembers(GroupOf[v])', NumCross) \subseteq crossNbrs'[v]
    BY <1>1, <1>4, <2>1 DEF BuildInv, ClosestInv
  <2>2. \A v \in Points : crossNbrs'[v] \subseteq neighbors'[v] BY <1>1, <1>2
  <2> QED BY <1>1, <2>1, <2>2 DEF ClosestInv
<1>7. ConnectInv'
  <2>1. \A g \in Groups : Connected(g)' = Connected(g) BY <1>1 DEF Connected
  <2> QED BY <1>1, <2>1 DEF BuildInv, ConnectInv
<1> QED BY <1>3, <1>5, <1>6, <1>7 DEF BuildInv

LEMMA MergeExtraStep ==
  ASSUME BuildInv, MergeExtra
  PROVE  BuildInv'
<1>1. /\ phase = "merge extra" /\ phase' = "built"
      /\ UNCHANGED <<buildScenario, local, entries, left, crossNbrs, extra>>
  BY DEF MergeExtra
<1>2. \A v \in Points : neighbors'[v] = neighbors[v] \union ExtraOf(v)
  BY DEF MergeExtra
<1>3. PhaseInv' BY <1>1 DEF BuildInv, PhaseInv
<1>4. \A v \in Points : /\ SearchedMembers(GroupOf[v])' = SearchedMembers(GroupOf[v])
                        /\ LocalIds(v)' = LocalIds(v) /\ Own(v)' = Own(v)
                        /\ ExtraOf(v)' = ExtraOf(v)
  BY <1>1 DEF SearchedMembers, Searched, LocalIds, Own, ExtraOf
<1>5. ASSUME NEW v \in Points PROVE ExtraOf(v) \subseteq UpMembers(GroupOf[v])
  <2> SUFFICES ASSUME NEW w \in ExtraOf(v) PROVE w \in UpMembers(GroupOf[v])
    OBVIOUS
  <2>1. PICK g \in Groups : \E e \in extra[g] : e[1] = v /\ e[2] = w BY DEF ExtraOf
  <2>2. v \in Members(g) /\ w \in UpMembers(g) BY <2>1 DEF BuildInv, EdgesInv
  <2> QED BY <2>2, MembersDiffer
<1>6. buildScenario # "equality" BY <1>1 DEF BuildInv, PhaseInv
<1>7. EdgesInv'
  <2>1. ~BeforeOffset /\ ~BeforeOffset' BY <1>1 DEF BeforeOffset
  <2>2. ASSUME NEW v \in Points
        PROVE  /\ local'[v] \subseteq LocalIds(v)'
               /\ crossNbrs'[v] \subseteq SearchedMembers(GroupOf[v])'
               /\ Own(v)' \subseteq neighbors'[v]
               /\ neighbors'[v] \subseteq Own(v)' \union UpMembers(GroupOf[v])
    <3>1. /\ local[v] \subseteq LocalIds(v) /\ crossNbrs[v] \subseteq SearchedMembers(GroupOf[v])
          /\ Own(v) \subseteq neighbors[v]
          /\ neighbors[v] \subseteq Own(v) \union UpMembers(GroupOf[v])
      BY <2>1 DEF BuildInv, EdgesInv
    <3> QED BY <1>1, <1>2, <1>4, <1>5, <3>1
  <2>3. /\ DOMAIN entries' = Groups /\ \A g \in Groups : entries'[g] \in Members(g)
        /\ \A g \in Groups : \A x \in extra'[g] : x[1] \in Members(g) /\ x[2] \in UpMembers(g)
    BY <1>1 DEF BuildInv, EdgesInv
  <2> QED BY <1>1, <1>6, <2>1, <2>2, <2>3 DEF EdgesInv
<1>8. ClosestInv'
  <2>1. ASSUME NEW v \in Points, buildScenario' = "general", SmallAbove(GroupOf[v])
        PROVE  Best(DistFrom(v), SearchedMembers(GroupOf[v])', NumCross) \subseteq crossNbrs'[v]
    BY <1>1, <1>4, <2>1 DEF BuildInv, ClosestInv
  <2>2. \A v \in Points : buildScenario = "general" => crossNbrs[v] \subseteq neighbors[v]
    BY <1>1 DEF BuildInv, ClosestInv
  <2>3. \A v \in Points : buildScenario' = "general" => crossNbrs'[v] \subseteq neighbors'[v]
    BY <1>1, <1>2, <2>2
  <2> QED BY <1>1, <2>1, <2>3 DEF ClosestInv
<1>9. ConnectInv'
  <2>1. \A g \in Groups : Connected(g)' = Connected(g) BY <1>1 DEF Connected
  <2>2. \A v \in Points : ExtraOf(v)' \subseteq neighbors'[v] BY <1>2, <1>4
  <2> QED BY <1>1, <2>1, <2>2 DEF BuildInv, ConnectInv
<1> QED BY <1>3, <1>7, <1>8, <1>9 DEF BuildInv

\* The invariant of the build holds in every state, a query's steps included.
LEMMA BuildStepKeeps ==
  ASSUME BuildInv, BuildStep
  PROVE  BuildInv'
BY BuildGroupStep, GroupsBuiltStep, CrossSearchStep, CrossSearchedStep, AddExtraStep,
   AddOffsetStep, MergeCrossStep, MergeExtraStep
DEF BuildStep

LEMMA QueriesKeepGraph ==
  ASSUME BuildInv, UNCHANGED vars
  PROVE  BuildInv'
<1>1. PhaseInv' BY DEF BuildInv, PhaseInv, vars
<1>2. EdgesInv'
  BY DEF BuildInv, EdgesInv, vars, BeforeOffset, LocalIds, Own, SearchedMembers, Searched
<1>3. ClosestInv'
  BY DEF BuildInv, ClosestInv, vars, LocalIds, SearchedMembers, Searched
<1>4. ConnectInv' BY DEF BuildInv, ConnectInv, vars, Connected, ExtraOf
<1> QED BY <1>1, <1>2, <1>3, <1>4 DEF BuildInv

LEMMA BuildOrQuery ==
  ASSUME [HybridNext]_<<vars, queryVars, hybridVars>>
  PROVE  (BuildStep /\ UNCHANGED <<queryVars, hybridVars>>) \/ UNCHANGED vars
BY DEF HybridNext, HybridStart, StartQuery, OriginalNoEntry, NoEntry, OriginalEnter, EnterAll,
       OverlapBegin, OriginalNextGroup, OverlapEnter, Fault, GlobalSearch, LocalOverlap,
       LocalNoEntry, LocalEnter, Expand, ExpandClosest, Over, SearchOver

LEMMA BuildInvHolds == HybridSpec => []BuildInv
<1>1. HybridInit => BuildInv BY BuildInit DEF HybridInit, SearchInit
<1>2. BuildInv /\ [HybridNext]_<<vars, queryVars, hybridVars>> => BuildInv'
  BY BuildOrQuery, BuildStepKeeps, QueriesKeepGraph
<1> QED BY <1>1, <1>2, PTL DEF HybridSpec

\* A vector's neighbors in its group's graph are vectors of the group, and those of
\* groups above it are not.
LEMMA OwnMembers ==
  ASSUME BuildInv, NEW v \in Points
  PROVE  /\ Own(v) \subseteq Members(GroupOf[v])
         /\ UpMembers(GroupOf[v]) \intersect Members(GroupOf[v]) = {}
<1>1. GroupOf[v] \in Groups BY MembersDiffer
<1>2. local[v] \subseteq LocalIds(v) BY DEF BuildInv, EdgesInv
<1>3. Own(v) \subseteq Members(GroupOf[v]) BY <1>1, <1>2, IdsInRange DEF Own, LocalIds
<1>4. UpMembers(GroupOf[v]) \intersect Members(GroupOf[v]) = {}
  <2> SUFFICES ASSUME NEW w \in UpMembers(GroupOf[v]), w \in Members(GroupOf[v]) PROVE FALSE
    OBVIOUS
  <2>1. PICK h \in OutNbrs[GroupOf[v]] : w \in Members(h) BY DEF UpMembers
  <2>2. h \in Groups /\ h # GroupOf[v] BY <1>1, UpTheLabels
  <2> QED BY <1>1, <2>1, <2>2, MembersDiffer
<1> QED BY <1>3, <1>4

\* For any groups, sizes and distances, and whatever the graphs of the large groups
\* look like: the finished graph has the edges of the group graphs, each moved to
\* its group's range once, and otherwise edges one step up the label navigating
\* graph (build_cross_group_edges, add_offset_for_uni_nav_graph).
THEOREM EdgesAlwaysFollowLabels == HybridSpec => []EdgesFollowLabels
<1>1. BuildInv => EdgesFollowLabels
  <2> SUFFICES ASSUME BuildInv, phase = "built", NEW v \in Points
               PROVE  /\ neighbors[v] \intersect Members(GroupOf[v]) = Own(v)
                      /\ neighbors[v] \subseteq Members(GroupOf[v]) \union UpMembers(GroupOf[v])
    BY DEF EdgesFollowLabels, Own, UpMembers
  <2>1. Own(v) \subseteq neighbors[v] /\ neighbors[v] \subseteq Own(v) \union UpMembers(GroupOf[v])
    BY DEF BuildInv, EdgesInv, BeforeOffset
  <2> QED BY <2>1, OwnMembers
<1> QED BY <1>1, BuildInvHolds, PTL

\* A vector below small groups has edges to the closest NumCross of all their vectors,
\* though the groups are searched one after the other and every search keeps Lbuild.
THEOREM CrossEdgesAlwaysClosest == HybridSpec => []CrossEdgesClosest
<1>1. BuildInv => CrossEdgesClosest
  <2> SUFFICES ASSUME BuildInv, phase = "built", buildScenario = "general",
                      NEW v \in Points, SmallAbove(GroupOf[v])
               PROVE  Best(DistFrom(v), UpMembers(GroupOf[v]), NumCross) \subseteq neighbors[v]
    BY DEF CrossEdgesClosest, UpMembers, SmallAbove
  <2>1. SearchedMembers(GroupOf[v]) = UpMembers(GroupOf[v])
    BY DEF SearchedMembers, Searched, UpMembers
  <2>2. /\ Best(DistFrom(v), SearchedMembers(GroupOf[v]), NumCross) \subseteq crossNbrs[v]
        /\ crossNbrs[v] \subseteq neighbors[v]
    BY DEF BuildInv, ClosestInv
  <2> QED BY <2>1, <2>2
<1> QED BY <1>1, BuildInvHolds, PTL

LEMMA ConnectedInBuild ==
  ASSUME BuildInv, NumCross # 1
  PROVE  GroupsConnected
<1> SUFFICES ASSUME phase = "built", buildScenario = "general",
                    NEW g \in Groups, NEW h \in OutNbrs[g]
             PROVE  \E v \in Members(g) : neighbors[v] \intersect Members(h) # {}
  BY DEF GroupsConnected
<1>1. \A v \in Points : crossNbrs[v] \subseteq neighbors[v] /\ ExtraOf(v) \subseteq neighbors[v]
  BY DEF BuildInv, ClosestInv, ConnectInv
<1>2. h \in Groups BY UpTheLabels
<1>3. CASE h \in Connected(g)
  <2>1. PICK v \in Members(g) : \E w \in crossNbrs[v] : GroupOf[w] = h
    BY <1>3 DEF Connected
  <2>2. PICK w \in crossNbrs[v] : GroupOf[w] = h BY <2>1
  <2>3. v \in Points /\ GroupOf[v] = g BY MembersDiffer
  <2>4. w \in Points
    <3>1. crossNbrs[v] \subseteq SearchedMembers(g) BY <2>3 DEF BuildInv, EdgesInv
    <3> QED BY <2>2, <3>1, SearchedAreUp
  <2>5. w \in Members(h) BY <2>2, <2>4, MembersDiffer
  <2> QED BY <1>1, <2>2, <2>3, <2>5
<1>4. CASE h \notin Connected(g)
  <2>1. PICK e \in extra[g] : e[2] \in Members(h) BY <1>4 DEF BuildInv, ConnectInv
  <2>2. e[1] \in Members(g) BY DEF BuildInv, EdgesInv
  <2>3. e[1] \in Points BY <2>2, MembersDiffer
  <2>4. e[2] \in ExtraOf(e[1]) BY DEF ExtraOf
  <2> QED BY <1>1, <2>1, <2>2, <2>3, <2>4
<1> QED BY <1>3, <1>4

\* With more than one cross-group edge to a vector, no two groups next to each other in
\* the label navigating graph stay without an edge between their vectors, whatever
\* the searches found.
THEOREM GroupsAlwaysConnected ==
  ASSUME NumCross # 1
  PROVE  HybridSpec => []GroupsConnected
<1>1. BuildInv => GroupsConnected BY ConnectedInBuild
<1> QED BY <1>1, BuildInvHolds, PTL

-----------------------------------------------------------------------------
\* A query is answered over the finished graph, enters the groups EntryGroups says,
\* and writes its places of the results with the last step.
QueryInv ==
  /\ mode \in {"wait", "enter", "next group", "search", "done", "fault"}
  /\ mode = "wait" => scenario = "none" /\ offered = {} /\ toEnter = {}
  /\ mode # "wait" => phase = "built" /\ scenario \in QueryScenarios /\ labels \in QueryLabels
  /\ mode \in {"wait", "enter"} => curResult = {}
  /\ toEnter \subseteq EntryGroups
  /\ mode # "done" => results = Unwritten /\ ~isGlobal
  /\ mode = "done" => results = Written(curResult) \/ LeftUnwritten

SearchInv == QueryInv /\ OnlyAdmitted

\* The entry points taken from a group are vectors of it.
LEMMA SampledInGroup ==
  ASSUME BuildInv, NEW g \in Groups, NEW seen, NEW samples \in Samples(g)
  PROVE  Sampling(g, seen, samples).points \subseteq Members(g)
<1>1. entries[g] \in Members(g) BY DEF BuildInv, EdgesInv
<1>2. First[g] \in Nat /\ GroupSizes[g] \in Nat /\ NumEntry \in Nat
  BY Ranges, SearchAssumption
<1>3. DOMAIN samples = 1 .. NumEntry - 1 BY DEF Samples
<1>4. ~(GroupSizes[g] <= NumEntry) => \A i \in DOMAIN samples : First[g] + i \in Members(g)
  BY <1>2, <1>3 DEF Members
<1>5. CASE GroupSizes[g] <= NumEntry
  BY <1>5 DEF Sampling
<1>6. CASE ~(GroupSizes[g] <= NumEntry)
  <2> DEFINE drawn == {j \in DOMAIN samples :
               samples[j] \notin seen \union {entries[g]} \union {samples[k] : k \in 1 .. j - 1}}
  <2>1. Sampling(g, seen, samples).points = {entries[g]} \union {First[g] + i : i \in drawn}
    BY <1>6 DEF Sampling
  <2>2. drawn \subseteq DOMAIN samples OBVIOUS
  <2> HIDE DEF drawn
  <2> QED BY <1>1, <1>4, <1>6, <2>1, <2>2
<1> QED BY <1>5, <1>6

\* A query admits the vectors of a group that it admits, and every group that
\* satisfies it.
LEMMA GroupAdmitted ==
  ASSUME NEW g \in Groups, Admits(g) \/ Satisfies(g)
  PROVE  Members(g) \subseteq Admitted
<1>1. Satisfies(g) => Admits(g) BY DEF Satisfies, Admits
<1> QED BY <1>1, MembersDiffer DEF Admitted

\* From a vector that the query admits edges lead to vectors that it admits: up the
\* label navigating graph labels are only added.
LEMMA EdgesKeepAdmitted ==
  ASSUME BuildInv, QueryInv, mode # "wait", NEW c \in Admitted
  PROVE  neighbors[c] \subseteq Admitted
<1> DEFINE g == GroupOf[c]
<1>1. c \in Points /\ g \in Groups /\ Admits(g) BY MembersDiffer DEF Admitted
<1>2. phase = "built" /\ scenario \in QueryScenarios BY DEF QueryInv
<1>3. Own(c) \subseteq Admitted
  <2>1. Own(c) \subseteq Members(g) BY <1>1, OwnMembers
  <2> QED BY <1>1, <2>1, GroupAdmitted
<1>4. CASE buildScenario = "equality"
  <2>1. neighbors[c] \subseteq Own(c) BY <1>1, <1>2, <1>4 DEF BuildInv, EdgesInv
  <2> QED BY <1>3, <2>1
<1>5. CASE buildScenario # "equality"
  <2>1. ASSUME NEW h \in OutNbrs[g] PROVE Members(h) \subseteq Admitted
    <3>1. h \in Groups /\ GroupLabels[g] \subseteq GroupLabels[h] BY <1>1, UpTheLabels
    <3>2. CASE scenario = "equality"
      <4>1. labels \subseteq GroupLabels[g] BY <1>1, <1>5, <3>2 DEF Admits
      <4>2. Admits(h) BY <1>5, <3>1, <3>2, <4>1 DEF Admits
      <4> QED BY <3>1, <4>2, GroupAdmitted
    <3>3. CASE scenario # "equality"
      <4>1. scenario \in {"containment", "overlap"} BY <1>2, <3>3 DEF QueryScenarios
      <4>2. Satisfies(g) BY <1>1, <3>3 DEF Admits
      <4>3. Satisfies(h) BY <3>1, <4>1, <4>2 DEF Satisfies
      <4> QED BY <3>1, <4>3, GroupAdmitted
    <3> QED BY <3>2, <3>3
  <2>2. UpMembers(g) \subseteq Admitted BY <2>1 DEF UpMembers
  <2>3. neighbors[c] \subseteq Own(c) \union UpMembers(g)
    BY <1>1, <1>2 DEF BuildInv, EdgesInv, BeforeOffset
  <2> QED BY <1>3, <2>2, <2>3
<1> QED BY <1>4, <1>5

\* A vector with all labels of the query matches it, an equality query's bitmap
\* compares the label sets as well.
LEMMA ValidMatches ==
  ASSUME QueryInv, mode # "wait", NEW v \in Points, IsValid(v)
  PROVE  v \in Matches /\ v \in Admitted
<1>1. scenario \in {"containment", "overlap", "equality"} /\ labels # {}
  BY SearchAssumption DEF QueryInv, QueryScenarios
<1>2. Satisfies(GroupOf[v]) BY <1>1 DEF IsValid, Satisfies
<1>3. GroupOf[v] \in Groups /\ v \in Members(GroupOf[v]) BY MembersDiffer
<1> QED BY <1>2, <1>3, GroupAdmitted DEF Matches

LEMMA SameQuery ==
  ASSUME UNCHANGED <<vars, scenario, labels>>
  PROVE  UNCHANGED <<phase, buildScenario, EntryGroups, Matches, Admitted>>
BY DEF EntryGroups, Entered, Matches, Satisfies, Admitted, Admits, vars

LEMMA SearchInitHolds == HybridInit => SearchInv
BY DEF HybridInit, SearchInit, SearchInv, QueryInv, OnlyAdmitted

\* While the graph is built no query has begun.
LEMMA SearchBuild ==
  ASSUME BuildInv, SearchInv, BuildStep, UNCHANGED <<queryVars, hybridVars>>
  PROVE  SearchInv'
<1>1. phase # "built"
  BY DEF BuildStep, BuildGroup, GroupsBuilt, CrossSearch, CrossSearched, AddExtra, AddOffset,
         MergeCross, MergeExtra
<1>2. mode = "wait" BY <1>1 DEF SearchInv, QueryInv
<1>3. UNCHANGED <<mode, scenario, labels, toEnter, offered, curResult, results, isGlobal>>
  BY DEF queryVars, hybridVars
<1>4. QueryInv'
  <2>1. toEnter' = {} BY <1>2, <1>3 DEF SearchInv, QueryInv
  <2> QED BY <1>2, <1>3, <2>1 DEF SearchInv, QueryInv
<1>5. scenario' = "none" BY <1>2, <1>3 DEF SearchInv, QueryInv
<1> QED BY <1>4, <1>5 DEF SearchInv, OnlyAdmitted

LEMMA SearchStart ==
  ASSUME BuildInv, SearchInv, HybridStart
  PROVE  SearchInv'
<1>1. /\ phase = "built" /\ mode = "wait" /\ mode' = "enter"
      /\ scenario' \in QueryScenarios /\ labels' \in QueryLabels
      /\ UNCHANGED <<vars, toEnter, offered, curResult, results, isGlobal>>
  BY DEF HybridStart, StartQuery
<1>2. offered' = {} /\ curResult' = {} /\ toEnter' = {} /\ results' = Unwritten /\ ~isGlobal'
  BY <1>1 DEF SearchInv, QueryInv
<1>3. QueryInv'
  <2>1. phase' = "built" BY <1>1 DEF vars
  <2> QED BY <1>1, <1>2, <2>1 DEF QueryInv, Unwritten
<1> QED BY <1>2, <1>3 DEF SearchInv, OnlyAdmitted

\* A step of a query that goes on: what it offers and collects has to be admitted.
LEMMA GoesOn ==
  ASSUME SearchInv, mode # "wait", mode # "done", mode' \in {"next group", "search"},
         UNCHANGED <<vars, scenario, labels, results, isGlobal>>, toEnter' \subseteq EntryGroups,
         offered' \subseteq Admitted, curResult' \subseteq Admitted
  PROVE  SearchInv'
<1>1. UNCHANGED <<phase, EntryGroups, Matches, Admitted>> BY SameQuery
<1>2. results = Unwritten /\ ~isGlobal BY DEF SearchInv, QueryInv
<1>3. QueryInv'
  BY <1>1, <1>2 DEF SearchInv, QueryInv, Unwritten
<1>4. OnlyAdmitted' BY <1>1, <1>2 DEF OnlyAdmitted
<1> QED BY <1>3, <1>4 DEF SearchInv

\* The last step of a query.
LEMMA Ends ==
  ASSUME SearchInv, mode # "wait", mode' = "done",
         UNCHANGED <<vars, scenario, labels, toEnter, offered>>,
         curResult' \subseteq Admitted, isGlobal' => curResult' \subseteq Matches,
         results' = Written(curResult') \/ LeftUnwritten'
  PROVE  SearchInv'
<1>1. UNCHANGED <<phase, EntryGroups, Matches, Admitted>> BY SameQuery
<1>2. (results = Written(curResult))' <=> results' = Written(curResult') BY DEF Written
<1>3. QueryInv' BY <1>1, <1>2 DEF SearchInv, QueryInv
<1>4. scenario # "none" BY DEF SearchInv, QueryInv, QueryScenarios
<1>5. OnlyAdmitted' BY <1>1, <1>4 DEF SearchInv, OnlyAdmitted
<1> QED BY <1>3, <1>5 DEF SearchInv

\* Once begun, a query has offered and collected what it admits.
LEMMA OfferedAdmitted ==
  ASSUME SearchInv, mode # "wait"
  PROVE  /\ offered \subseteq Admitted /\ curResult \subseteq Admitted
         /\ toEnter \subseteq EntryGroups
         /\ mode = "enter" => curResult = {} /\ results = Unwritten
         /\ mode # "done" => ~isGlobal
BY DEF SearchInv, QueryInv, OnlyAdmitted, QueryScenarios

LEMMA EntriesAdmitted ==
  ASSUME NEW g \in EntryGroups
  PROVE  g \in Groups /\ Members(g) \subseteq Admitted
<1>1. g \in Groups /\ Satisfies(g) BY DEF EntryGroups, Entered
<1> QED BY <1>1, GroupAdmitted

LEMMA SearchEnterAll ==
  ASSUME BuildInv, SearchInv, EnterAll, UNCHANGED hybridVars
  PROVE  SearchInv'
<1>1. /\ mode = "enter" /\ mode' = "search"
      /\ UNCHANGED <<vars, scenario, labels, results, isGlobal, toEnter, curResult>>
  BY DEF EnterAll, hybridVars
<1>2. PICK samples \in [EntryGroups -> UNION {Samples(g) : g \in EntryGroups}] :
        /\ \A g \in EntryGroups : samples[g] \in Samples(g)
        /\ offered' = UNION {Sampling(g, {}, samples[g]).points : g \in EntryGroups}
  BY DEF EnterAll
<1>3. offered' \subseteq Admitted
  <2>1. ASSUME NEW g \in EntryGroups PROVE Sampling(g, {}, samples[g]).points \subseteq Admitted
    <3>1. g \in Groups /\ Members(g) \subseteq Admitted BY EntriesAdmitted
    <3>2. Sampling(g, {}, samples[g]).points \subseteq Members(g) BY <1>2, <3>1, SampledInGroup
    <3> QED BY <3>1, <3>2
  <2> QED BY <1>2, <2>1
<1> QED BY <1>1, <1>3, OfferedAdmitted, GoesOn

LEMMA SearchOverlapBegin ==
  ASSUME BuildInv, SearchInv, OverlapBegin, UNCHANGED hybridVars
  PROVE  SearchInv'
<1>1. /\ mode = "enter" /\ mode' = "next group" /\ toEnter' = EntryGroups
      /\ UNCHANGED <<vars, scenario, labels, results, isGlobal, offered, curResult>>
  BY DEF OverlapBegin, hybridVars
<1> QED BY <1>1, OfferedAdmitted, GoesOn

LEMMA SearchOverlapEnter ==
  ASSUME BuildInv, SearchInv, NEW g \in Groups, OriginalNextGroup(g)
  PROVE  SearchInv'
<1>1. /\ mode = "next group" /\ g \in toEnter /\ mode' = "search" /\ toEnter' = toEnter \ {g}
      /\ UNCHANGED <<vars, scenario, labels, results, isGlobal, curResult>>
  BY DEF OriginalNextGroup, OverlapEnter, hybridVars
<1>2. PICK samples \in Samples(g) : offered' = Sampling(g, marked, samples).points
  BY DEF OriginalNextGroup, OverlapEnter
<1>3. toEnter \subseteq EntryGroups BY <1>1, OfferedAdmitted
<1>4. offered' \subseteq Admitted
  <2>1. Members(g) \subseteq Admitted BY <1>1, <1>3, EntriesAdmitted
  <2>2. Sampling(g, marked, samples).points \subseteq Members(g) BY SampledInGroup
  <2> QED BY <1>2, <2>1, <2>2
<1> QED BY <1>1, <1>3, <1>4, OfferedAdmitted, GoesOn

LEMMA SearchExpand ==
  ASSUME BuildInv, SearchInv, Expand
  PROVE  SearchInv'
<1>1. /\ mode = "search" /\ mode' = "search"
      /\ UNCHANGED <<vars, scenario, labels, results, isGlobal, curResult, toEnter>>
  BY DEF Expand, ExpandClosest, hybridVars
<1>2. PICK c \in ClosestUnexpanded : offered' = offered \union Unmarked(c)
  BY DEF Expand, ExpandClosest
<1>3. c \in offered
  <2>1. Best(d, offered, Lsearch) \subseteq offered BY BestIsPart
  <2> QED BY <1>2, <2>1 DEF ClosestUnexpanded
<1>4. offered' \subseteq Admitted
  <2>1. offered \subseteq Admitted BY <1>1, OfferedAdmitted
  <2>2. neighbors[c] \subseteq Admitted BY <1>1, <1>3, <2>1, EdgesKeepAdmitted DEF SearchInv
  <2> QED BY <1>2, <2>1, <2>2 DEF Unmarked
<1> QED BY <1>1, <1>4, OfferedAdmitted, GoesOn

LEMMA SearchCollects ==
  ASSUME BuildInv, SearchInv, Over
  PROVE  SearchInv'
<1>1. /\ mode = "search" /\ mode' \in {"done", "next group"}
      /\ UNCHANGED <<vars, scenario, labels, offered, toEnter, isGlobal>>
      /\ curResult' = MergeResult(Best(d, offered, K))
      /\ results' = IF mode' = "done" THEN Written(curResult') ELSE results
  BY DEF Over, SearchOver
<1>2. /\ offered \subseteq Admitted /\ curResult \subseteq Admitted /\ toEnter \subseteq EntryGroups
      /\ ~isGlobal
  BY <1>1, OfferedAdmitted
<1>3. curResult' \subseteq Admitted
  <2> DEFINE found == Best(d, offered, K)
             all == curResult \union found
  <2>1. found \subseteq offered BY BestIsPart
  <2>2. curResult' = Best(d, all, K) BY <1>1 DEF MergeResult
  <2>3. all \subseteq Admitted BY <1>2, <2>1
  <2> HIDE DEF all
  <2> QED BY <2>2, <2>3, BestIsPart
<1>4. CASE mode' = "done"
  BY <1>1, <1>2, <1>3, <1>4, Ends
<1>5. CASE mode' # "done"
  BY <1>1, <1>2, <1>3, <1>5, GoesOn
<1> QED BY <1>4, <1>5

LEMMA SearchNoEntry ==
  ASSUME BuildInv, SearchInv, OriginalNoEntry \/ LocalNoEntry
  PROVE  SearchInv'
<1>1. /\ mode = "enter" /\ mode' = "done" /\ EntryGroups = {}
      /\ UNCHANGED <<vars, scenario, labels, offered, toEnter, curResult, isNewMethod, isGlobal>>
  BY DEF OriginalNoEntry, LocalNoEntry, NoEntry, hybridVars
<1>2. curResult = {} /\ ~isGlobal BY <1>1, OfferedAdmitted
<1>3. results' = Written(curResult') \/ LeftUnwritten'
  <2>1. CASE OriginalNoEntry
    <3>1. results' = {} BY <2>1 DEF OriginalNoEntry, PlacesCleared
    <3> QED BY <1>1, <1>2, <3>1 DEF Written
  <2>2. CASE LocalNoEntry
    <3>1. isNewMethod /\ scenario # "overlap" BY <2>2 DEF LocalNoEntry
    <3>2. EntryGroups' = {} BY <1>1, SameQuery
    <3> QED BY <1>1, <3>1, <3>2 DEF LeftUnwritten
  <2> QED BY <2>1, <2>2
<1> QED BY <1>1, <1>2, <1>3, Ends

LEMMA SearchFault ==
  ASSUME BuildInv, SearchInv, Fault
  PROVE  SearchInv'
<1>1. /\ mode = "enter" /\ mode' = "fault"
      /\ UNCHANGED <<vars, scenario, labels, offered, toEnter, curResult, results, isGlobal>>
  BY DEF Fault, hybridVars
<1>2. UNCHANGED <<phase, EntryGroups, Matches, Admitted>> BY <1>1, SameQuery
<1>3. QueryInv' BY <1>1, <1>2 DEF SearchInv, QueryInv, Unwritten
<1>4. OnlyAdmitted' BY <1>1, <1>2 DEF SearchInv, OnlyAdmitted
<1> QED BY <1>3, <1>4 DEF SearchInv

LEMMA SearchGlobal ==
  ASSUME BuildInv, SearchInv, GlobalSearch
  PROVE  SearchInv'
<1>1. /\ mode = "enter" /\ mode' = "done"
      /\ UNCHANGED <<vars, scenario, labels, offered, toEnter>>
      /\ results' = Written(curResult')
  BY DEF GlobalSearch
<1>2. PICK points \in GlobalEntryPoints :
        curResult' = Best(d, {v \in GlobalKept(points) : IsValid(v)}, K)
  BY DEF GlobalSearch
<1>3. points \subseteq Points
  <2>1. PICK s \in [1 .. NumEntry -> Points] : points = {s[i] : i \in 1 .. NumEntry}
    BY DEF GlobalEntryPoints
  <2> QED BY <2>1
<1>4. GlobalKept(points) \subseteq Points BY <1>3, BestIsPart DEF GlobalKept
<1>5. {v \in GlobalKept(points) : IsValid(v)} \subseteq Matches \intersect Admitted
  BY <1>1, <1>4, ValidMatches DEF SearchInv
<1>6. curResult' \subseteq Matches /\ curResult' \subseteq Admitted
  <2> DEFINE valid == {v \in GlobalKept(points) : IsValid(v)}
  <2>1. curResult' = Best(d, valid, K) /\ valid \subseteq Matches \intersect Admitted BY <1>2, <1>5
  <2> HIDE DEF valid
  <2>2. Best(d, valid, K) \subseteq valid BY BestIsPart
  <2> QED BY <2>1, <2>2
<1> QED BY <1>1, <1>6, Ends

LEMMA SearchLocalOverlap ==
  ASSUME BuildInv, SearchInv, LocalOverlap
  PROVE  SearchInv'
<1>1. /\ mode = "enter" /\ mode' = "search" /\ scenario = "overlap"
      /\ UNCHANGED <<vars, scenario, labels, results, isGlobal, toEnter, curResult>>
  BY DEF LocalOverlap, hybridVars
<1>2. PICK samples \in [OverlapGroups -> UNION {Samples(g) : g \in OverlapGroups}] :
        /\ \A g \in OverlapGroups : samples[g] \in Samples(g)
        /\ offered' = UNION {Sampling(g, {}, samples[g]).points : g \in OverlapGroups}
  BY DEF LocalOverlap
<1>3. labels # {} BY <1>1, SearchAssumption DEF SearchInv, QueryInv
<1>4. offered' \subseteq Admitted
  <2>1. ASSUME NEW g \in OverlapGroups PROVE Sampling(g, {}, samples[g]).points \subseteq Admitted
    <3>1. g \in Groups /\ labels \subseteq GroupLabels[g] BY DEF OverlapGroups, FlagGroups
    <3>2. Satisfies(g) BY <1>1, <1>3, <3>1 DEF Satisfies
    <3>3. Members(g) \subseteq Admitted BY <3>1, <3>2, GroupAdmitted
    <3>4. Sampling(g, {}, samples[g]).points \subseteq Members(g) BY <1>2, <3>1, SampledInGroup
    <3> QED BY <3>3, <3>4
  <2> QED BY <1>2, <2>1
<1> QED BY <1>1, <1>4, OfferedAdmitted, GoesOn

LEMMA SearchStutters ==
  ASSUME BuildInv, SearchInv, UNCHANGED <<vars, queryVars, hybridVars>>
  PROVE  SearchInv'
<1>1. /\ UNCHANGED <<vars, mode, scenario, labels, toEnter, offered, curResult>>
      /\ UNCHANGED <<isNewMethod, isGlobal, results>>
  BY DEF queryVars, hybridVars
<1>2. UNCHANGED <<phase, EntryGroups, Matches, Admitted>> BY <1>1, SameQuery
<1>3. QueryInv' BY <1>1, <1>2 DEF SearchInv, QueryInv, Unwritten, Written, LeftUnwritten
<1>4. OnlyAdmitted' BY <1>1, <1>2 DEF SearchInv, OnlyAdmitted
<1> QED BY <1>3, <1>4 DEF SearchInv

LEMMA SearchInvHolds == HybridSpec => [](BuildInv /\ SearchInv)
<1>1. HybridInit => SearchInv BY SearchInitHolds
<1>2. BuildInv /\ SearchInv /\ [HybridNext]_<<vars, queryVars, hybridVars>> => SearchInv'
  <2> SUFFICES ASSUME BuildInv, SearchInv, [HybridNext]_<<vars, queryVars, hybridVars>>
               PROVE  SearchInv'
    OBVIOUS
  <2>1. CASE BuildStep /\ UNCHANGED <<queryVars, hybridVars>> BY <2>1, SearchBuild
  <2>2. CASE HybridStart BY <2>2, SearchStart
  <2>3. CASE OriginalNoEntry \/ LocalNoEntry BY <2>3, SearchNoEntry
  <2>4. CASE OriginalEnter
    BY <2>4, SearchEnterAll, SearchOverlapBegin DEF OriginalEnter
  <2>5. CASE \E g \in Groups : OriginalNextGroup(g) BY <2>5, SearchOverlapEnter
  <2>6. CASE GlobalSearch BY <2>6, SearchGlobal
  <2>7. CASE LocalOverlap BY <2>7, SearchLocalOverlap
  <2>8. CASE LocalEnter BY <2>8, SearchEnterAll DEF LocalEnter
  <2>9. CASE Expand BY <2>9, SearchExpand
  <2>10. CASE Over BY <2>10, SearchCollects
  <2>11. CASE UNCHANGED <<vars, queryVars, hybridVars>> BY <2>11, SearchStutters
  <2>12. CASE Fault BY <2>12, SearchFault
  <2> QED BY <2>1, <2>2, <2>3, <2>4, <2>5, <2>6, <2>7, <2>8, <2>9, <2>10, <2>11,
            <2>12 DEF HybridNext
<1> QED BY <1>1, <1>2, BuildInvHolds, PTL DEF HybridSpec

\* Whatever the graphs of the groups look like, whichever entry points are drawn and
\* whichever way the flag sends a query of any scenario on an index of either kind:
\* only vectors with labels the query admits are offered to its queue inside the
\* unified graph and collected, and only vectors that match when it is answered by
\* the global graph.
THEOREM OnlyAdmittedAlways == HybridSpec => []OnlyAdmitted
<1>1. BuildInv /\ SearchInv => OnlyAdmitted BY DEF SearchInv
<1> QED BY <1>1, SearchInvHolds, PTL

-----------------------------------------------------------------------------
\* what AnswersExact asks of a query and of the graphs; none of it changes after
\* the query began
Exactable ==
  /\ Cardinality(Reachable) <= Lsearch
  /\ \A g \in ReachableGroups : Complete(g)
  /\ SampledGroups = {}

\* the vectors in the queue of the search under way, and those expanded
InQueue == IF mode = "search" THEN offered ELSE {}
Expanded == IF mode = "search" THEN expanded ELSE {}

\* The searches so far have seen seen, of which the closest are the result, and
\* the one under way what is in its queue: all neighbors of those expanded, and
\* some vector of every group that was entered. A marked vector is one of them, so
\* that no mark hides one.
Covers(seen) ==
  /\ InQueue \subseteq Reachable
  /\ curResult = Best(d, seen, K)
  /\ mode # "done" => marked \subseteq seen \union InQueue
  /\ \A c \in seen \union Expanded : neighbors[c] \subseteq seen \union InQueue
  /\ \A g \in EnteredGroups \ toEnter : Members(g) \intersect (seen \union InQueue) # {}

ExactInv ==
  /\ toEnter # {} => mode \in {"next group", "search"} /\ scenario = "overlap" /\ ~isNewMethod
  /\ mode # "wait" => Lsearch \in LsearchList /\ d \in QueryDist
  /\ mode \in {"next group", "search", "done"} /\ ~isGlobal /\ Exactable =>
       \E seen \in SUBSET Reachable : Covers(seen)

LEMMA ReachableAreGroups == EnteredGroups \subseteq Groups /\ ReachableGroups \subseteq Groups
<1>1. EnteredGroups \subseteq Groups BY DEF EnteredGroups, FlagGroups, EntryGroups
<1> QED BY <1>1 DEF ReachableGroups

LEMMA ReachablePoints == Reachable \subseteq Points
BY ReachableAreGroups, MembersDiffer DEF Reachable

LEMMA ReachableByGroup ==
  ASSUME NEW v \in Points
  PROVE  v \in Reachable <=> GroupOf[v] \in ReachableGroups
BY ReachableAreGroups, MembersDiffer DEF Reachable

LEMMA ReachableMembers ==
  ASSUME NEW g \in ReachableGroups
  PROVE  g \in Groups /\ Members(g) \subseteq Reachable /\ Members(g) # {}
<1>1. g \in Groups BY ReachableAreGroups
<1>2. First[g] \in Members(g) BY <1>1, IdsInRange
<1> QED BY <1>1, <1>2 DEF Reachable

\* A group next above one that a query can reach can be reached as well, but in an
\* index built for equality, whose graph has no edge between groups.
LEMMA ReachableUp ==
  ASSUME QueryInv, mode # "wait", buildScenario # "equality",
         NEW g \in ReachableGroups, NEW h \in Groups, GroupLabels[g] \subseteq GroupLabels[h]
  PROVE  h \in ReachableGroups
<1>1. scenario \in {"containment", "equality", "overlap"} BY DEF QueryInv, QueryScenarios
<1>2. CASE scenario = "equality" BY <1>2 DEF ReachableGroups
<1>3. CASE scenario = "overlap" /\ isNewMethod BY <1>3 DEF ReachableGroups
<1>4. CASE scenario # "equality" /\ ~(scenario = "overlap" /\ isNewMethod)
  <2>1. ReachableGroups = {x \in Groups : Satisfies(x)} BY <1>4 DEF ReachableGroups
  <2>2. Satisfies(g) BY <2>1
  <2>3. Satisfies(h) BY <1>1, <1>4, <2>2 DEF Satisfies
  <2> QED BY <2>1, <2>3
<1> QED BY <1>2, <1>3, <1>4

\* The groups entered can be reached, and below every other one that can is one
\* that can.
LEMMA EnteredOrAbove ==
  /\ EnteredGroups \subseteq ReachableGroups
  /\ \A g \in ReachableGroups \ EnteredGroups : \E h \in ReachableGroups : g \in Above[h]
<1>1. CASE buildScenario = "equality"
  BY <1>1 DEF ReachableGroups
<1>2. CASE buildScenario # "equality" /\ scenario = "equality"
  <2>1. /\ EnteredGroups = EntryGroups
        /\ ReachableGroups = {g \in Groups : labels \subseteq GroupLabels[g] /\ EntryGroups # {}}
    BY <1>2 DEF EnteredGroups, ReachableGroups
  <2>2. \A e \in EntryGroups : e \in Groups /\ labels = GroupLabels[e]
    BY <1>2 DEF EntryGroups, Entered, Satisfies
  <2>3. ASSUME NEW g \in ReachableGroups, g \notin EntryGroups
        PROVE  \E h \in ReachableGroups : g \in Above[h]
    <3>1. PICK e \in EntryGroups : e # g BY <2>1, <2>3
    <3>2. g \in Above[e] BY <2>1, <2>2, <3>1 DEF Above
    <3>3. e \in ReachableGroups BY <2>1, <2>2
    <3> QED BY <3>2, <3>3
  <2> QED BY <2>1, <2>2, <2>3
<1>3. CASE buildScenario # "equality" /\ scenario = "overlap" /\ isNewMethod
  <2>1. /\ EnteredGroups = FlagGroups
        /\ ReachableGroups =
             {g \in Groups : labels \subseteq GroupLabels[g] /\ labels # GroupLabels[g]}
    BY <1>3 DEF EnteredGroups, ReachableGroups
  <2>2. FlagGroups \subseteq ReachableGroups BY <2>1 DEF FlagGroups
  <2>3. ASSUME NEW g \in ReachableGroups, g \notin FlagGroups
        PROVE  \E h \in ReachableGroups : g \in Above[h]
    <3>1. PICK h \in ReachableGroups : GroupLabels[h] \subseteq GroupLabels[g] /\ h # g
      BY <2>1, <2>3 DEF FlagGroups
    <3>2. g \in Groups /\ h \in Groups BY <2>1
    <3> QED BY <3>1, <3>2 DEF Above
  <2> QED BY <2>1, <2>2, <2>3
<1>4. CASE /\ buildScenario # "equality" /\ scenario # "equality"
           /\ ~(scenario = "overlap" /\ isNewMethod)
  <2>1. EnteredGroups = EntryGroups /\ ReachableGroups = {g \in Groups : Satisfies(g)}
    BY <1>4 DEF EnteredGroups, ReachableGroups
  <2>2. EntryGroups \subseteq ReachableGroups BY <2>1 DEF EntryGroups, Entered
  <2>3. ASSUME NEW g \in ReachableGroups, g \notin EntryGroups
        PROVE  \E h \in ReachableGroups : g \in Above[h]
    <3>1. PICK h \in ReachableGroups : GroupLabels[h] \subseteq GroupLabels[g] /\ h # g
      BY <2>1, <2>3 DEF EntryGroups, Entered
    <3>2. g \in Groups /\ h \in Groups BY <2>1
    <3> QED BY <3>1, <3>2 DEF Above
  <2> QED BY <2>1, <2>2, <2>3
<1> QED BY <1>1, <1>2, <1>3, <1>4

LEMMA AboveChain ==
  ASSUME NEW g \in Groups, NEW h \in Above[g], NEW k \in Above[h]
  PROVE  h \in Groups /\ k \in Above[g] /\ h \notin Above[h] /\ k # h /\ k # g
<1>1. h \in Groups /\ GroupLabels[g] \subseteq GroupLabels[h] /\ h # g BY DEF Above
<1>2. k \in Groups /\ GroupLabels[h] \subseteq GroupLabels[k] /\ k # h BY <1>1 DEF Above
<1>3. k # g
  <2>1. k = g => GroupLabels[g] = GroupLabels[h] BY <1>1, <1>2
  <2>2. \A x, y \in Groups : GroupLabels[x] = GroupLabels[y] => x = y BY GraphAssumption
  <2> QED BY <1>1, <2>1, <2>2
<1> QED BY <1>1, <1>2, <1>3 DEF Above

LEMMA GroupsFinite == IsFiniteSet(Groups)
<1>1. Groups = 1 .. Len(GroupLabels) /\ Len(GroupLabels) \in Nat BY GraphAssumption
<1> QED BY <1>1, FS_Interval

\* A chain up the label navigating graph ends with a step to its last group: below a
\* group of H is one of H that the group is next above.
LEMMA LastStepUp ==
  ASSUME NEW H \in SUBSET Groups, NEW g \in Groups, \E h \in H : g \in Above[h],
         \A h \in H : \A k \in Above[h] : k \in H
  PROVE  \E h \in H : g \in OutNbrs[h]
<1> DEFINE C == {h \in H : g \in Above[h]}
           f == [h \in C |-> Cardinality(Above[h])]
<1>0. \A h \in Groups : IsFiniteSet(Above[h]) /\ Above[h] \subseteq Groups
  BY GroupsFinite, FS_Subset DEF Above
<1>1. \A h \in C : f[h] \in Nat BY <1>0, FS_CardinalityType
<1>2. PICK h \in C : \A k \in C : Cardinality(Above[h]) <= Cardinality(Above[k])
  <2>1. C # {} OBVIOUS
  <2>2. \A k \in C : f[k] = Cardinality(Above[k]) OBVIOUS
  <2> HIDE DEF C, f
  <2>3. \E x \in C : \A k \in C : f[x] <= f[k] BY <1>1, <2>1, LeastValue
  <2> QED BY <2>2, <2>3
<1>3. ASSUME NEW k \in Above[h], g \in Above[k] PROVE FALSE
  <2>1. h \in Groups /\ k \in Groups /\ k \in C BY <1>0, <1>3
  <2>2. Above[k] \in SUBSET Above[h] /\ Above[k] # Above[h]
    <3>1. k \notin Above[k] BY <2>1, <1>3, AboveChain
    <3>2. \A x \in Above[k] : x \in Above[h] BY <2>1, <1>3, AboveChain
    <3> QED BY <1>3, <3>1, <3>2
  <2>3. /\ Cardinality(Above[k]) < Cardinality(Above[h])
        /\ Cardinality(Above[k]) \in Nat /\ Cardinality(Above[h]) \in Nat
    BY <1>0, <2>1, <2>2, FewerMembers
  <2>4. Cardinality(Above[h]) <= Cardinality(Above[k]) BY <1>2, <2>1
  <2> QED BY <2>3, <2>4
<1>4. h \in Groups /\ g \in Above[h] OBVIOUS
<1> QED BY <1>3, <1>4 DEF OutNbrs

\* Vectors that have all their neighbors among them, and some in every group entered,
\* are all a query can reach: complete graphs lead to the whole group, and
\* cross-group edges from group to group.
LEMMA ClosedReachesAll ==
  ASSUME BuildInv, QueryInv, mode # "wait", Exactable, NumCross # 1,
         NEW seen \in SUBSET Reachable, \A c \in seen : neighbors[c] \subseteq seen,
         \A g \in EnteredGroups : Members(g) \intersect seen # {}
  PROVE  seen = Reachable
<1>1. phase = "built" BY DEF QueryInv
<1>2. Reachable \subseteq Points BY ReachablePoints
<1>3. ASSUME NEW g \in ReachableGroups, Members(g) \intersect seen # {}
      PROVE  Members(g) \subseteq seen
  <2>1. g \in Groups /\ Members(g) \subseteq Reachable /\ Members(g) # {} BY ReachableMembers
  <2>2. Complete(g) BY DEF Exactable
  <2>3. PICK c \in Members(g) : c \in seen BY <1>3
  <2>4. c \in Points /\ c \in Nat /\ GroupOf[c] = g BY <2>1, MembersDiffer
  <2>5. Own(c) \subseteq neighbors[c] BY <1>1, <2>4 DEF BuildInv, EdgesInv, BeforeOffset
  <2> SUFFICES ASSUME NEW w \in Members(g), w # c PROVE w \in seen
    BY <2>3
  <2>6. w \in Nat /\ First[g] \in Nat BY <2>1, MembersDiffer, Ranges
  <2>7. w - First[g] \in 0 .. GroupSizes[g] - 1 BY <2>1, IdsInRange
  <2>8. w - First[g] # c - First[g] BY <2>4, <2>6
  <2>9. w - First[g] \in local[c] BY <2>2, <2>7, <2>8 DEF Complete
  <2>10. w = (w - First[g]) + First[g] BY <2>6
  <2>11. w \in Own(c) BY <2>4, <2>9, <2>10 DEF Own
  <2> QED BY <2>3, <2>5, <2>11
<1>4. \A g \in ReachableGroups : Members(g) \subseteq seen
  <2>1. CASE buildScenario = "equality"
    <3>1. ReachableGroups = EnteredGroups BY <2>1 DEF ReachableGroups
    <3> QED BY <1>3, <3>1
  <2>2. CASE buildScenario # "equality"
    <3> DEFINE below(g) == {h \in Groups : g \in Above[h]}
               bad == {g \in ReachableGroups : ~(Members(g) \subseteq seen)}
               f == [g \in bad |-> Cardinality(below(g))]
    <3>1. \A g \in bad : f[g] \in Nat BY GroupsFinite, FS_Subset, FS_CardinalityType
    <3> SUFFICES ASSUME bad # {} PROVE FALSE
      OBVIOUS
    <3>2. PICK g \in bad : \A h \in bad : Cardinality(below(g)) <= Cardinality(below(h))
      <4>1. \A h \in bad : f[h] = Cardinality(below(h)) OBVIOUS
      <4> HIDE DEF bad, f, below
      <4>2. \E x \in bad : \A h \in bad : f[x] <= f[h] BY <3>1, LeastValue
      <4> QED BY <4>1, <4>2
    <3>3. g \in ReachableGroups /\ ~(Members(g) \subseteq seen) /\ g \in Groups
      BY <3>2, ReachableMembers
    <3>4. g \notin EnteredGroups BY <1>3, <3>3
    <3>5. PICK h \in ReachableGroups : g \in OutNbrs[h]
      <4>1. \E h \in ReachableGroups : g \in Above[h] BY <3>3, <3>4, EnteredOrAbove
      <4>2. ReachableGroups \in SUBSET Groups BY ReachableMembers
      <4>3. ASSUME NEW h \in ReachableGroups, NEW k \in Above[h] PROVE k \in ReachableGroups
        <5>1. k \in Groups /\ GroupLabels[h] \subseteq GroupLabels[k] BY <4>2 DEF Above
        <5> QED BY <2>2, <5>1, ReachableUp
      <4> HIDE DEF bad, f, below
      <4> DEFINE H == ReachableGroups
      <4>4. H \in SUBSET Groups /\ (\E x \in H : g \in Above[x])
            /\ \A x \in H : \A k \in Above[x] : k \in H
        BY <4>1, <4>2, <4>3
      <4> HIDE DEF H
      <4>5. \E x \in H : g \in OutNbrs[x] BY <3>3, <4>4, LastStepUp
      <4> QED BY <4>5 DEF H
    <3>6. h \in Groups /\ g \in Above[h] BY ReachableMembers, <3>5 DEF OutNbrs
    <3>7. Cardinality(below(h)) < Cardinality(below(g))
          /\ Cardinality(below(h)) \in Nat /\ Cardinality(below(g)) \in Nat
      <4>1. below(h) \in SUBSET below(g) /\ below(h) # below(g)
        <5>1. h \notin Above[h] BY <3>6 DEF Above
        <5>2. \A k \in below(h) : g \in Above[k] BY <3>6, AboveChain
        <5>3. h \in below(g) /\ h \notin below(h) BY <3>6, <5>1
        <5> QED BY <5>2, <5>3
      <4>2. IsFiniteSet(below(g)) BY GroupsFinite, FS_Subset
      <4> HIDE DEF below
      <4> QED BY <4>1, <4>2, FewerMembers
    <3>8. h \notin bad
      <4> HIDE DEF bad, below
      <4> QED BY <3>2, <3>7
    <3>9. Members(h) \subseteq seen BY <3>8
    <3>10. PICK v \in Members(h) : neighbors[v] \intersect Members(g) # {}
      <4>1. buildScenario = "general" BY <2>2 DEF BuildInv, PhaseInv
      <4>2. GroupsConnected BY ConnectedInBuild
      <4> QED BY <1>1, <3>5, <3>6, <4>1, <4>2 DEF GroupsConnected
    <3>11. Members(g) \intersect seen # {} BY <3>9, <3>10
    <3> QED BY <1>3, <3>3, <3>11
  <2> QED BY <2>1, <2>2
<1>5. \A v \in Reachable : v \in seen
  <2> TAKE v \in Reachable
  <2>1. v \in Points /\ GroupOf[v] \in ReachableGroups BY <1>2, ReachableByGroup
  <2>2. v \in Members(GroupOf[v]) BY <2>1, MembersDiffer
  <2> QED BY <1>4, <2>1, <2>2
<1> QED BY <1>5

LEMMA SameExactable ==
  ASSUME UNCHANGED <<vars, scenario, labels, Lsearch, isNewMethod>>
  PROVE  UNCHANGED <<Reachable, ReachableGroups, EnteredGroups, Exactable>>
<1>1. UNCHANGED <<buildScenario, EntryGroups>> BY SameQuery
<1>2. FlagGroups' = FlagGroups BY DEF FlagGroups
<1>3. EnteredGroups' = EnteredGroups BY <1>1, <1>2 DEF EnteredGroups
<1>4. ReachableGroups' = ReachableGroups BY <1>1, <1>3 DEF ReachableGroups, Satisfies
<1>5. Reachable' = Reachable BY <1>4 DEF Reachable
<1>6. SampledGroups' = SampledGroups BY <1>3 DEF SampledGroups
<1>7. \A g \in Groups : Complete(g)' = Complete(g) BY DEF Complete, vars
<1>8. Exactable' = Exactable BY <1>4, <1>5, <1>6, <1>7, ReachableAreGroups DEF Exactable
<1> QED BY <1>3, <1>4, <1>5, <1>8

\* A query whose searches cover what they are to keeps the invariant.
LEMMA CoverGoesOn ==
  ASSUME ExactInv, mode # "wait", UNCHANGED <<vars, scenario, labels, Lsearch, d, isNewMethod, isGlobal>>,
         toEnter' # {} => mode' \in {"next group", "search"} /\ scenario = "overlap" /\ ~isNewMethod,
         ~isGlobal /\ Exactable => \E seen \in SUBSET Reachable : Covers(seen)'
  PROVE  ExactInv'
<1>1. Reachable' = Reachable /\ Exactable' = Exactable BY SameExactable
<1> QED BY <1>1 DEF ExactInv

LEMMA SmallEntered ==
  ASSUME Exactable, scenario = "overlap", NEW g \in EnteredGroups, NEW marks, NEW samples
  PROVE  /\ Sampling(g, marks, samples).points = Members(g)
         /\ Sampling(g, marks, samples).seen = marks
<1>1. g \in Groups BY ReachableAreGroups
<1>2. GroupSizes[g] <= NumEntry
  <2>1. GroupSizes[g] \in Nat /\ NumEntry \in Nat BY <1>1, Ranges, SearchAssumption
  <2>2. g \notin SampledGroups BY DEF Exactable
  <2>3. ~(GroupSizes[g] > NumEntry) BY <2>2 DEF SampledGroups
  <2> QED BY <2>1, <2>3
<1> QED BY <1>2 DEF Sampling

LEMMA NothingBest == ASSUME NEW e, NEW n PROVE Best(e, {}, n) = {}
BY BestIsPart

LEMMA ExactEnterAll ==
  ASSUME BuildInv, SearchInv, ExactInv, EnterAll, UNCHANGED hybridVars
  PROVE  ExactInv'
<1>1. /\ mode = "enter" /\ mode' = "search" /\ scenario # "overlap"
      /\ marked' = {} /\ expanded' = {} /\ curResult' = curResult
      /\ UNCHANGED <<vars, scenario, labels, Lsearch, d, isNewMethod, isGlobal, toEnter>>
  BY DEF EnterAll, hybridVars
<1>2. PICK samples \in [EntryGroups -> UNION {Samples(g) : g \in EntryGroups}] :
        /\ \A g \in EntryGroups : samples[g] \in Samples(g)
        /\ offered' = UNION {Sampling(g, {}, samples[g]).points : g \in EntryGroups}
  BY DEF EnterAll
<1>3. toEnter = {} /\ curResult = {} BY <1>1 DEF ExactInv, SearchInv, QueryInv
<1>4. EnteredGroups = EntryGroups BY <1>1 DEF EnteredGroups
<1>5. ASSUME NEW g \in EntryGroups
      PROVE  LET points == Sampling(g, {}, samples[g]).points
             IN points \subseteq Members(g) /\ points # {} /\ Members(g) \subseteq Reachable
  <2>1. g \in ReachableGroups BY <1>4, EnteredOrAbove
  <2>2. g \in Groups /\ Members(g) \subseteq Reachable /\ Members(g) # {}
    BY <2>1, ReachableMembers
  <2>3. Sampling(g, {}, samples[g]).points \subseteq Members(g) BY <1>2, <2>2, SampledInGroup
  <2>4. Sampling(g, {}, samples[g]).points # {} BY <2>2 DEF Sampling
  <2> QED BY <2>2, <2>3, <2>4
<1>6. Covers({})'
  <2>1. InQueue' = offered' /\ Expanded' = {} BY <1>1 DEF InQueue, Expanded
  <2>2. Reachable' = Reachable /\ EnteredGroups' = EntryGroups BY <1>1, <1>4, SameExactable
  <2>3. offered' \subseteq Reachable BY <1>2, <1>5
  <2>4. curResult' = Best(d', {}, K) BY <1>1, <1>3, NothingBest
  <2>5. \A g \in EntryGroups : Members(g) \intersect offered' # {} BY <1>2, <1>5
  <2> QED BY <1>1, <2>1, <2>2, <2>3, <2>4, <2>5 DEF Covers
<1> QED BY <1>1, <1>3, <1>6, CoverGoesOn

LEMMA ExactOverlapBegin ==
  ASSUME BuildInv, SearchInv, ExactInv, ~isNewMethod, OverlapBegin, UNCHANGED hybridVars
  PROVE  ExactInv'
<1>1. /\ mode = "enter" /\ mode' = "next group" /\ scenario = "overlap"
      /\ toEnter' = EntryGroups /\ marked' = {} /\ curResult' = curResult
      /\ UNCHANGED <<vars, scenario, labels, Lsearch, d, isNewMethod, isGlobal>>
  BY DEF OverlapBegin, hybridVars
<1>2. curResult = {} BY <1>1 DEF SearchInv, QueryInv
<1>3. Covers({})'
  <2>1. InQueue' = {} /\ Expanded' = {} BY <1>1 DEF InQueue, Expanded
  <2>2. EnteredGroups' = EntryGroups BY <1>1, SameExactable DEF EnteredGroups
  <2>3. curResult' = Best(d', {}, K) BY <1>1, <1>2, NothingBest
  <2> QED BY <1>1, <2>1, <2>2, <2>3 DEF Covers
<1> QED BY <1>1, <1>3, CoverGoesOn

LEMMA ExactOverlapEnter ==
  ASSUME BuildInv, SearchInv, ExactInv, NEW g \in Groups, OriginalNextGroup(g)
  PROVE  ExactInv'
<1>1. /\ mode = "next group" /\ g \in toEnter /\ mode' = "search" /\ toEnter' = toEnter \ {g}
      /\ expanded' = {} /\ curResult' = curResult
      /\ UNCHANGED <<vars, scenario, labels, Lsearch, d, isNewMethod, isGlobal>>
  BY DEF OriginalNextGroup, OverlapEnter, hybridVars
<1>2. PICK samples \in Samples(g) : /\ offered' = Sampling(g, marked, samples).points
                                    /\ marked' = Sampling(g, marked, samples).seen
  BY DEF OriginalNextGroup, OverlapEnter
<1>3. scenario = "overlap" /\ ~isNewMethod BY <1>1 DEF ExactInv
<1>4. g \in EnteredGroups BY <1>1, <1>3 DEF SearchInv, QueryInv, EnteredGroups
<1>5. ASSUME ~isGlobal, Exactable PROVE \E seen \in SUBSET Reachable : Covers(seen)'
  <2>1. PICK seen \in SUBSET Reachable : Covers(seen) BY <1>1, <1>5 DEF ExactInv
  <2>2. offered' = Members(g) /\ marked' = marked BY <1>2, <1>3, <1>4, <1>5, SmallEntered
  <2>3. Members(g) \subseteq Reachable /\ Members(g) # {} BY <1>4, EnteredOrAbove, ReachableMembers
  <2>4. InQueue = {} /\ Expanded = {} /\ InQueue' = Members(g) /\ Expanded' = {}
    BY <1>1, <2>2 DEF InQueue, Expanded
  <2>5. Reachable' = Reachable /\ EnteredGroups' = EnteredGroups BY <1>1, SameExactable
  <2>6. /\ curResult = Best(d, seen, K) /\ marked \subseteq seen
        /\ \A c \in seen : neighbors[c] \subseteq seen
        /\ \A h \in EnteredGroups \ toEnter : Members(h) \intersect seen # {}
    BY <1>1, <2>1, <2>4 DEF Covers
  <2>7. curResult' = Best(d', seen, K) BY <1>1, <2>6
  <2>8. \A c \in seen : neighbors'[c] \subseteq seen BY <1>1, <2>6 DEF vars
  <2>9. \A h \in EnteredGroups \ toEnter' : Members(h) \intersect (seen \union Members(g)) # {}
    BY <1>1, <2>3, <2>6
  <2> QED BY <2>2, <2>3, <2>4, <2>5, <2>6, <2>7, <2>8, <2>9 DEF Covers
<1> QED BY <1>1, <1>3, <1>5, CoverGoesOn

LEMMA ExactLocalOverlap ==
  ASSUME BuildInv, SearchInv, ExactInv, LocalOverlap
  PROVE  ExactInv'
<1>1. /\ mode = "enter" /\ mode' = "search" /\ scenario = "overlap" /\ isNewMethod
      /\ expanded' = {} /\ curResult' = curResult
      /\ UNCHANGED <<vars, scenario, labels, Lsearch, d, isNewMethod, isGlobal, toEnter>>
  BY DEF LocalOverlap, hybridVars
<1>2. PICK samples \in [OverlapGroups -> UNION {Samples(g) : g \in OverlapGroups}] :
        /\ offered' = UNION {Sampling(g, {}, samples[g]).points : g \in OverlapGroups}
        /\ marked' = UNION {Sampling(g, {}, samples[g]).seen : g \in OverlapGroups}
  BY DEF LocalOverlap
<1>3. toEnter = {} /\ curResult = {} BY <1>1 DEF ExactInv, SearchInv, QueryInv
<1>4. EnteredGroups = OverlapGroups BY <1>1 DEF EnteredGroups, OverlapGroups
<1>5. ASSUME Exactable PROVE Covers({})'
  <2>1. \A g \in OverlapGroups : /\ Sampling(g, {}, samples[g]).points = Members(g)
                                 /\ Sampling(g, {}, samples[g]).seen = {}
    BY <1>1, <1>4, <1>5, SmallEntered
  <2>2. \A g \in OverlapGroups : Members(g) \subseteq Reachable /\ Members(g) # {}
    BY <1>4, EnteredOrAbove, ReachableMembers
  <2>3. offered' = UNION {Members(g) : g \in OverlapGroups} /\ marked' = {} BY <1>2, <2>1
  <2>4. InQueue' = offered' /\ Expanded' = {} BY <1>1 DEF InQueue, Expanded
  <2>5. Reachable' = Reachable /\ EnteredGroups' = OverlapGroups BY <1>1, <1>4, SameExactable
  <2>6. curResult' = Best(d', {}, K) BY <1>1, <1>3, NothingBest
  <2>7. offered' \subseteq Reachable BY <2>2, <2>3
  <2>8. \A g \in OverlapGroups : Members(g) \intersect offered' # {} BY <2>2, <2>3
  <2> QED BY <1>1, <2>3, <2>4, <2>5, <2>6, <2>7, <2>8 DEF Covers
<1> QED BY <1>1, <1>3, <1>5, CoverGoesOn

\* From a vector a query can reach edges lead to vectors it can reach.
LEMMA EdgesStayReachable ==
  ASSUME BuildInv, QueryInv, mode # "wait", NEW c \in Reachable
  PROVE  neighbors[c] \subseteq Reachable
<1> DEFINE g == GroupOf[c]
<1>1. c \in Points BY ReachablePoints
<1>2. g \in ReachableGroups /\ g \in Groups BY <1>1, ReachableByGroup, MembersDiffer
<1>3. phase = "built" BY DEF QueryInv
<1>4. Own(c) \subseteq Reachable
  <2>1. Own(c) \subseteq Members(g) BY <1>1, OwnMembers
  <2>2. Members(g) \subseteq Reachable BY <1>2, ReachableMembers
  <2> QED BY <2>1, <2>2
<1>5. CASE buildScenario = "equality"
  <2>1. neighbors[c] \subseteq Own(c) BY <1>1, <1>3, <1>5 DEF BuildInv, EdgesInv
  <2> QED BY <1>4, <2>1
<1>6. CASE buildScenario # "equality"
  <2>1. ASSUME NEW h \in OutNbrs[g] PROVE Members(h) \subseteq Reachable
    <3>1. h \in Groups /\ GroupLabels[g] \subseteq GroupLabels[h] BY <1>2, UpTheLabels
    <3>2. h \in ReachableGroups BY <1>2, <1>6, <3>1, ReachableUp
    <3> QED BY <3>2, ReachableMembers
  <2>2. UpMembers(g) \subseteq Reachable BY <2>1 DEF UpMembers
  <2>3. neighbors[c] \subseteq Own(c) \union UpMembers(g)
    BY <1>1, <1>3 DEF BuildInv, EdgesInv, BeforeOffset
  <2> QED BY <1>4, <2>2, <2>3
<1> QED BY <1>5, <1>6

LEMMA ExactExpand ==
  ASSUME BuildInv, SearchInv, ExactInv, Expand
  PROVE  ExactInv'
<1>1. /\ mode = "search" /\ mode' = "search" /\ curResult' = curResult
      /\ UNCHANGED <<vars, scenario, labels, Lsearch, d, isNewMethod, isGlobal, toEnter>>
  BY DEF Expand, ExpandClosest, hybridVars
<1>2. PICK c \in ClosestUnexpanded :
        /\ expanded' = expanded \union {c}
        /\ offered' = offered \union (neighbors[c] \ marked)
        /\ marked' = marked \union neighbors[c]
  BY DEF Expand, ExpandClosest, Flags, Unmarked
<1>3. c \in offered
  <2>1. Best(d, offered, Lsearch) \subseteq offered BY BestIsPart
  <2> QED BY <1>2, <2>1 DEF ClosestUnexpanded
<1>4. ASSUME ~isGlobal, Exactable PROVE \E seen \in SUBSET Reachable : Covers(seen)'
  <2>1. PICK seen \in SUBSET Reachable : Covers(seen) BY <1>1, <1>4 DEF ExactInv
  <2>2. /\ InQueue = offered /\ Expanded = expanded
        /\ InQueue' = offered' /\ Expanded' = expanded'
    BY <1>1 DEF InQueue, Expanded
  <2>3. /\ offered \subseteq Reachable /\ curResult = Best(d, seen, K)
        /\ marked \subseteq seen \union offered
        /\ \A x \in seen \union expanded : neighbors[x] \subseteq seen \union offered
        /\ \A g \in EnteredGroups \ toEnter : Members(g) \intersect (seen \union offered) # {}
    BY <1>1, <2>1, <2>2 DEF Covers
  <2>4. neighbors[c] \subseteq Reachable BY <1>1, <1>3, <2>3, EdgesStayReachable DEF SearchInv
  <2>5. offered' \subseteq Reachable BY <1>2, <2>3, <2>4
  <2>6. marked' \subseteq seen \union offered' BY <1>2, <2>3
  <2>7. neighbors[c] \subseteq seen \union offered' BY <1>2, <2>3
  <2>8. \A x \in seen \union expanded' : neighbors[x] \subseteq seen \union offered'
    BY <1>2, <2>3, <2>7
  <2>9. \A g \in EnteredGroups \ toEnter : Members(g) \intersect (seen \union offered') # {}
    BY <1>2, <2>3
  <2>10. UNCHANGED <<neighbors, toEnter, d, Reachable, EnteredGroups>>
    BY <1>1, SameExactable DEF vars
  <2>11. curResult' = Best(d', seen, K) BY <1>1, <2>3
  <2> QED BY <2>2, <2>5, <2>6, <2>8, <2>9, <2>10, <2>11 DEF Covers
<1>5. toEnter' # {} => mode' \in {"next group", "search"} /\ scenario = "overlap" /\ ~isNewMethod
  BY <1>1 DEF ExactInv
<1> QED BY <1>1, <1>4, <1>5, CoverGoesOn

\* When the queue has room for all that a query can reach, a search ends with all
\* of it expanded.
LEMMA AllExpanded ==
  ASSUME BuildInv, SearchInv, ExactInv, mode = "search", ClosestUnexpanded = {}, Exactable,
         offered \subseteq Reachable
  PROVE  offered \subseteq expanded
<1>1. Reachable \subseteq Points BY ReachablePoints
<1>2. offered \subseteq Nat /\ IsFiniteSet(offered) /\ IsFiniteSet(Reachable)
  BY <1>1, PointsFinite, FS_Subset, MembersDiffer
<1>3. Lsearch \in Nat /\ d \in QueryDist BY SearchAssumption DEF ExactInv
<1>4. \A a \in offered : d[a] \in Nat /\ a \in Nat BY <1>1, <1>2, <1>3, QueryDistAssumption
<1>5. Cardinality(offered) <= Lsearch
  <2>1. /\ Cardinality(offered) <= Cardinality(Reachable)
        /\ Cardinality(offered) \in Nat /\ Cardinality(Reachable) \in Nat
    BY <1>2, FS_Subset, FS_CardinalityType
  <2>2. Cardinality(Reachable) <= Lsearch BY DEF Exactable
  <2> QED BY <1>3, <2>1, <2>2
<1>6. Best(d, offered, Lsearch) = offered BY <1>2, <1>3, <1>4, <1>5, RoomForAll
<1> DEFINE rest == offered \ expanded
<1>7. rest \subseteq offered /\ rest \subseteq Nat /\ \A a \in rest : d[a] \in Nat BY <1>2, <1>4
<1>8. Best(d, rest, 1) \intersect offered = {} BY <1>6 DEF ClosestUnexpanded
<1>9. rest = {}
  <2> HIDE DEF rest
  <2>1. 1 \in Nat \ {0} OBVIOUS
  <2>2. rest # {} => Best(d, rest, 1) # {} BY <1>7, <2>1, BestSome
  <2>3. Best(d, rest, 1) \subseteq rest BY BestIsPart
  <2> QED BY <1>7, <1>8, <2>2, <2>3
<1> QED BY <1>9

LEMMA ExactOver ==
  ASSUME BuildInv, SearchInv, ExactInv, Over
  PROVE  ExactInv'
<1>1. /\ mode = "search" /\ mode' = IF toEnter = {} THEN "done" ELSE "next group"
      /\ ClosestUnexpanded = {}
      /\ curResult' = Best(d, curResult \union Best(d, offered, K), K)
      /\ UNCHANGED <<vars, scenario, labels, Lsearch, d, isNewMethod, isGlobal, toEnter, marked>>
  BY DEF Over, SearchOver, MergeResult
<1>2. ASSUME ~isGlobal, Exactable PROVE \E seen \in SUBSET Reachable : Covers(seen)'
  <2>1. PICK seen \in SUBSET Reachable : Covers(seen) BY <1>1, <1>2 DEF ExactInv
  <2>2. InQueue = offered /\ Expanded = expanded /\ InQueue' = {} /\ Expanded' = {}
    BY <1>1 DEF InQueue, Expanded
  <2>3. /\ offered \subseteq Reachable /\ curResult = Best(d, seen, K)
        /\ marked \subseteq seen \union offered
        /\ \A x \in seen \union expanded : neighbors[x] \subseteq seen \union offered
        /\ \A g \in EnteredGroups \ toEnter : Members(g) \intersect (seen \union offered) # {}
    BY <1>1, <2>1, <2>2 DEF Covers
  <2>4. offered \subseteq expanded BY <1>1, <1>2, <2>3, AllExpanded
  <2>0. PICK now : now = seen \union offered OBVIOUS
  <2>5. curResult' = Best(d, now, K)
    <3>1. Reachable \subseteq Points BY ReachablePoints
    <3>2. now \in SUBSET Points BY <2>0, <2>3, <3>1
    <3>3. IsFiniteSet(now) BY <3>2, PointsFinite, FS_Subset
    <3>4. seen \subseteq Nat /\ offered \subseteq Nat BY <3>1, <2>3, MembersDiffer
    <3>5. d \in QueryDist /\ K \in Nat BY <1>1, SearchAssumption DEF ExactInv
    <3>6. \A a \in now : d[a] \in Nat BY <3>2, <3>5, QueryDistAssumption
    <3>7. Measured(d, seen \union offered) BY <2>0, <3>3, <3>4, <3>6 DEF Measured
    <3>8. Best(d, Best(d, seen, K) \union Best(d, offered, K), K) = Best(d, seen \union offered, K)
      BY <3>5, <3>7, BestOfBests
    <3> QED BY <1>1, <2>0, <2>3, <3>8
  <2>6. now \in SUBSET Reachable BY <2>0, <2>3
  <2>7. \A x \in now : neighbors[x] \subseteq now BY <2>0, <2>3, <2>4
  <2>8. marked \subseteq now /\ \A g \in EnteredGroups \ toEnter : Members(g) \intersect now # {}
    BY <2>0, <2>3
  <2>9. UNCHANGED <<neighbors, toEnter, marked, d, Reachable, EnteredGroups>>
    BY <1>1, SameExactable DEF vars
  <2>10. Covers(now)' BY <2>2, <2>5, <2>7, <2>8, <2>9 DEF Covers
  <2> QED BY <2>6, <2>10
<1>3. toEnter' # {} => mode' \in {"next group", "search"} /\ scenario = "overlap" /\ ~isNewMethod
  BY <1>1 DEF ExactInv
<1> QED BY <1>1, <1>2, <1>3, CoverGoesOn

LEMMA ExactNoEntry ==
  ASSUME BuildInv, SearchInv, ExactInv, OriginalNoEntry \/ LocalNoEntry
  PROVE  ExactInv'
<1>1. /\ mode = "enter" /\ mode' = "done" /\ EntryGroups = {} /\ curResult' = curResult
      /\ UNCHANGED <<vars, scenario, labels, Lsearch, d, isNewMethod, isGlobal, toEnter>>
  BY DEF OriginalNoEntry, LocalNoEntry, NoEntry, hybridVars
<1>2. toEnter = {} /\ curResult = {} BY <1>1 DEF ExactInv, SearchInv, QueryInv
<1>3. ~(isNewMethod /\ scenario = "overlap") BY DEF OriginalNoEntry, LocalNoEntry
<1>4. Covers({})'
  <2>1. InQueue' = {} /\ Expanded' = {} BY <1>1 DEF InQueue, Expanded
  <2>2. EnteredGroups' = {} BY <1>1, <1>3, SameExactable DEF EnteredGroups
  <2>3. curResult' = Best(d', {}, K) BY <1>1, <1>2, NothingBest
  <2> QED BY <1>1, <2>1, <2>2, <2>3 DEF Covers
<1> QED BY <1>1, <1>2, <1>4, CoverGoesOn

LEMMA ExactGlobal ==
  ASSUME BuildInv, SearchInv, ExactInv, GlobalSearch
  PROVE  ExactInv'
<1>1. /\ mode = "enter" /\ mode' = "done" /\ isGlobal'
      /\ UNCHANGED <<Lsearch, d, toEnter>>
  BY DEF GlobalSearch
<1>2. toEnter = {} BY <1>1 DEF ExactInv
<1> QED BY <1>1, <1>2 DEF ExactInv

LEMMA ExactFault ==
  ASSUME BuildInv, SearchInv, ExactInv, Fault
  PROVE  ExactInv'
<1>1. mode = "enter" /\ mode' = "fault" /\ UNCHANGED <<Lsearch, d, toEnter>>
  BY DEF Fault
<1>2. toEnter = {} BY <1>1 DEF ExactInv
<1> QED BY <1>1, <1>2 DEF ExactInv

LEMMA ExactStart ==
  ASSUME BuildInv, SearchInv, ExactInv, HybridStart
  PROVE  ExactInv'
<1>1. /\ mode = "wait" /\ mode' = "enter" /\ toEnter' = toEnter
      /\ Lsearch' \in LsearchList /\ d' \in QueryDist
  BY DEF HybridStart, StartQuery
<1>2. toEnter = {} BY <1>1 DEF ExactInv
<1> QED BY <1>1, <1>2 DEF ExactInv

LEMMA ExactBuild ==
  ASSUME BuildInv, SearchInv, ExactInv, BuildStep, UNCHANGED <<queryVars, hybridVars>>
  PROVE  ExactInv'
<1>1. phase # "built"
  BY DEF BuildStep, BuildGroup, GroupsBuilt, CrossSearch, CrossSearched, AddExtra, AddOffset,
         MergeCross, MergeExtra
<1>2. mode = "wait" BY <1>1 DEF SearchInv, QueryInv
<1>3. mode' = "wait" /\ toEnter' = toEnter BY <1>2 DEF queryVars
<1> QED BY <1>2, <1>3 DEF ExactInv

LEMMA ExactStutters ==
  ASSUME BuildInv, SearchInv, ExactInv, UNCHANGED <<vars, queryVars, hybridVars>>
  PROVE  ExactInv'
<1>1. UNCHANGED <<vars, mode, scenario, labels, Lsearch, d, toEnter, marked, offered, expanded,
                  curResult, isNewMethod, isGlobal>>
  BY DEF queryVars, hybridVars
<1>2. UNCHANGED <<Reachable, EnteredGroups, Exactable>> BY <1>1, SameExactable
<1>3. UNCHANGED <<InQueue, Expanded, neighbors>> BY <1>1 DEF InQueue, Expanded, vars
<1>4. \A seen \in SUBSET Reachable : Covers(seen) => Covers(seen)'
  BY <1>1, <1>2, <1>3 DEF Covers
<1> QED BY <1>1, <1>2, <1>4 DEF ExactInv

LEMMA ExactInvHolds == HybridSpec => [](BuildInv /\ SearchInv /\ ExactInv)
<1>1. HybridInit => ExactInv BY DEF HybridInit, SearchInit, ExactInv
<1>2. BuildInv /\ SearchInv /\ ExactInv /\ [HybridNext]_<<vars, queryVars, hybridVars>> => ExactInv'
  <2> SUFFICES ASSUME BuildInv, SearchInv, ExactInv, [HybridNext]_<<vars, queryVars, hybridVars>>
               PROVE  ExactInv'
    OBVIOUS
  <2>1. CASE BuildStep /\ UNCHANGED <<queryVars, hybridVars>> BY <2>1, ExactBuild
  <2>2. CASE HybridStart BY <2>2, ExactStart
  <2>3. CASE OriginalNoEntry \/ LocalNoEntry BY <2>3, ExactNoEntry
  <2>4. CASE OriginalEnter
    BY <2>4, ExactEnterAll, ExactOverlapBegin DEF OriginalEnter
  <2>5. CASE \E g \in Groups : OriginalNextGroup(g) BY <2>5, ExactOverlapEnter
  <2>6. CASE GlobalSearch BY <2>6, ExactGlobal
  <2>7. CASE LocalOverlap BY <2>7, ExactLocalOverlap
  <2>8. CASE LocalEnter BY <2>8, ExactEnterAll DEF LocalEnter
  <2>9. CASE Expand BY <2>9, ExactExpand
  <2>10. CASE Over BY <2>10, ExactOver
  <2>11. CASE UNCHANGED <<vars, queryVars, hybridVars>> BY <2>11, ExactStutters
  <2>12. CASE Fault BY <2>12, ExactFault
  <2> QED BY <2>1, <2>2, <2>3, <2>4, <2>5, <2>6, <2>7, <2>8, <2>9, <2>10, <2>11,
            <2>12 DEF HybridNext
<1> QED BY <1>1, <1>2, SearchInvHolds, PTL DEF HybridSpec

\* When the groups a query can reach are complete graphs, its queue has room for all
\* their vectors and no group it enters is sampled, the caller's array gets the base's
\* ids of exactly the K closest of them, from search, and from search_hybrid unless it
\* goes to the global graph or writes nothing, however many groups, vectors and edges
\* there are; the graphs of the other groups may be anything. With a single cross-group
\* edge to a vector groups may stay unconnected.
THEOREM AnswersAlwaysExact ==
  ASSUME NumCross # 1
  PROVE  HybridSpec => []AnswersExact
<1>1. BuildInv /\ SearchInv /\ ExactInv => AnswersExact
  <2> SUFFICES ASSUME BuildInv, SearchInv, ExactInv, mode = "done", ~isGlobal, ~LeftUnwritten,
                      Exactable
               PROVE  results = {NewToOld[v] : v \in Best(d, Reachable, K)}
    BY DEF AnswersExact, Exactable
  <2>1. PICK seen \in SUBSET Reachable : Covers(seen) BY DEF ExactInv
  <2>2. toEnter = {} /\ InQueue = {} /\ Expanded = {} BY DEF ExactInv, InQueue, Expanded
  <2>3. /\ curResult = Best(d, seen, K)
        /\ \A c \in seen : neighbors[c] \subseteq seen
        /\ \A g \in EnteredGroups : Members(g) \intersect seen # {}
    BY <2>1, <2>2 DEF Covers
  <2>4. seen = Reachable BY <2>3, ClosedReachesAll DEF SearchInv
  <2>5. results = Written(curResult) BY DEF SearchInv, QueryInv
  <2> QED BY <2>3, <2>4, <2>5 DEF Written
<1> QED BY <1>1, ExactInvHolds, PTL
=============================================================================
