---------------------------- MODULE VamanaLink_proofs ----------------------------
(***************************************************************************)
(* The construction keeps its lists bounded and strands no point, for every*)
(* number of threads and points, every distance and every degree; built by *)
(* one thread it loses no edge unweighed, and data that the prune treats   *)
(* well gives a graph that can be searched from the entry point.           *)
(*                                                                         *)
(* What prune_neighbors takes fits in a list (PrunesBounded), because the  *)
(* candidate taken last was taken while there was room, and is not empty   *)
(* (PrunesSome), because the candidate at the first place is always taken. *)
(* SafetyInv is inductive for any threads: the invariants of VamanaLink,   *)
(* with what a thread's search and its copy are sure to hold. AloneInv is, *)
(* for one thread: its copies are fresh and its search closed. With it     *)
(* ReachInv is: every two points in the graph are joined by edges no longer*)
(* than the two are apart, since a candidate that a prune drops is nearer  *)
(* to one it keeps than to the point pruned for (DroppedIsHidden). The last*)
(* part counts the steps a thread has left (StepsLeft).                    *)
(***************************************************************************)
EXTENDS VamanaLink, LeastValues, FunctionTheorems, TLAPS
-----------------------------------------------------------------------------
LEMMA PointsFinite ==
  /\ IsFiniteSet(Points)
  /\ \A C \in SUBSET Points : IsFiniteSet(C) /\ Cardinality(C) \in Nat
<1>1. IsFiniteSet(Points)
  <2>1. 0 \in Int /\ NumPoints - 1 \in Int BY SizesAssumption
  <2> QED BY <2>1, FS_Interval DEF Points
<1>2. ASSUME NEW C \in SUBSET Points
      PROVE  IsFiniteSet(C) /\ Cardinality(C) \in Nat
  BY <1>1, FS_Subset, FS_CardinalityType
<1> QED BY <1>1, <1>2

\* The places of the candidates are positive, and no two share one.
LEMMA OrderPlaces ==
  ASSUME NEW p \in Points, NEW C \in SUBSET Points, NEW o \in Orders(p, C)
  PROVE  /\ \A a \in C : o[a] \in Nat \ {0}
         /\ \A a, b \in C : a # b => o[a] # o[b]
<1> DEFINE Nearer(a) == {b \in C : Dist[<<p, b>>] < Dist[<<p, a>>]}
           Tied(a) == {b \in C : Dist[<<p, b>>] = Dist[<<p, a>>]}
           ranks == UNION {1 .. Cardinality(Tied(a)) : a \in C}
<1>1. PICK r \in [C -> ranks] : o = [a \in C |-> Cardinality(Nearer(a)) + r[a]]
  BY DEF Orders
<1>2. \A a \in C : Cardinality(Nearer(a)) \in Nat
  BY PointsFinite
<1>3. \A a \in C : r[a] \in Nat \ {0}
  <2> SUFFICES ASSUME NEW a \in C PROVE r[a] \in Nat \ {0}
    OBVIOUS
  <2>1. PICK b \in C : r[a] \in 1 .. Cardinality(Tied(b)) OBVIOUS
  <2>2. Cardinality(Tied(b)) \in Nat BY PointsFinite
  <2> HIDE DEF Tied
  <2> QED BY <2>1, <2>2
<1>4. \A a, b \in C : a # b => o[a] # o[b]
  BY DEF Orders
<1>5. \A a \in C : o[a] \in Nat \ {0}
  <2> SUFFICES ASSUME NEW a \in C PROVE o[a] \in Nat \ {0}
    OBVIOUS
  <2>1. o[a] = Cardinality(Nearer(a)) + r[a] BY <1>1
  <2>2. Cardinality(Nearer(a)) \in Nat /\ r[a] \in Nat \ {0} BY <1>2, <1>3
  <2> HIDE DEF Nearer
  <2> QED BY <2>1, <2>2
<1> QED BY <1>4, <1>5

\* One of the nearest candidates comes first.
LEMMA OrderFirst ==
  ASSUME NEW p \in Points, NEW C \in SUBSET Points, C # {}, NEW o \in Orders(p, C)
  PROVE  \E a \in C : o[a] = 1
<1> DEFINE Nearer(a) == {b \in C : Dist[<<p, b>>] < Dist[<<p, a>>]}
           Tied(a) == {b \in C : Dist[<<p, b>>] = Dist[<<p, a>>]}
           far == [a \in C |-> Dist[<<p, a>>]]
<1>1. PICK m \in C : \A b \in C : Dist[<<p, m>>] <= Dist[<<p, b>>]
  <2>1. \A a \in C : far[a] \in Nat BY SizesAssumption
  <2>2. PICK m \in C : \A b \in C : far[m] <= far[b]
    <3> HIDE DEF far
    <3> QED BY <2>1, LeastValue
  <2> QED BY <2>2
<1>2. \A a \in C : Dist[<<p, a>>] \in Nat BY SizesAssumption
<1> DEFINE k == Cardinality(Tied(m))
<1>3. k \in Nat /\ IsFiniteSet(Tied(m)) BY PointsFinite
<1>4. \A a \in Tied(m) : Nearer(a) = {} /\ Tied(a) = Tied(m)
  BY <1>1, <1>2
<1>5. \A a \in Tied(m) : o[a] \in 1 .. k
  <2>1. \A a \in C : o[a] <= Cardinality(Nearer(a)) + Cardinality(Tied(a))
    BY DEF Orders
  <2>2. Cardinality({}) = 0 BY FS_EmptySet
  <2>3. \A a \in Tied(m) : o[a] <= 0 + k
    BY <1>4, <2>1, <2>2
  <2>4. \A a \in Tied(m) : o[a] \in Nat \ {0} BY OrderPlaces
  <2> HIDE DEF k, Tied
  <2> QED BY <1>3, <2>3, <2>4
<1> DEFINE f == [a \in Tied(m) |-> o[a]]
<1>6. f \in Injection(Tied(m), 1 .. k)
  <2>1. \A a, b \in Tied(m) : a # b => o[a] # o[b] BY OrderPlaces
  <2> HIDE DEF k, Tied
  <2> QED BY <1>5, <2>1 DEF Injection, IsInjective
<1>7. f \in Surjection(Tied(m), 1 .. k)
  <2>1. IsFiniteSet(1 .. k) /\ Cardinality(1 .. k) = k
    <3> HIDE DEF k
    <3>1. 1 \in Int /\ k \in Int BY <1>3
    <3>2. /\ IsFiniteSet(1 .. k)
          /\ Cardinality(1 .. k) = IF 1 > k THEN 0 ELSE k - 1 + 1
      BY <3>1, FS_Interval
    <3> QED BY <1>3, <3>2
  <2> HIDE DEF f
  <2> QED BY <1>6, <2>1, FS_Injection
<1>8. m \in Tied(m) OBVIOUS
<1>9. 1 \in 1 .. k
  <2> HIDE DEF k, Tied
  <2> QED BY <1>3, <1>5, <1>8
<1>10. PICK a \in Tied(m) : f[a] = 1
  <2> HIDE DEF k, Tied, f
  <2> QED BY <1>7, <1>9 DEF Surjection
<1> QED BY <1>10

-----------------------------------------------------------------------------
\* Of a nonempty finite choice, one candidate was taken last: in the last pass
\* that took any, and there at the last place.
LEMMA TakenLast ==
  ASSUME NEW S \in SUBSET Points, NEW o,
         \A a \in S : o[a] \in 1 .. MaxCandidates,
         \A a, b \in S : a # b => o[a] # o[b],
         NEW chosenIn \in [S -> {0} \union DOMAIN Alphas],
         NEW P \in SUBSET {a \in S : chosenIn[a] # 0}, P # {}
  PROVE  \E a \in P : P \ {a} \subseteq TakenBefore(S, o, chosenIn, chosenIn[a], a)
<1> DEFINE L == Len(Alphas)
           late == [a \in P |-> L - chosenIn[a]]
<1>1. L \in Nat /\ \A a \in P : chosenIn[a] \in 1 .. L
  BY SizesAssumption
<1>2. PICK u \in P : \A b \in P : chosenIn[b] <= chosenIn[u]
  <2> HIDE DEF L
  <2>1. \A a \in P : late[a] \in Nat BY <1>1
  <2>2. PICK u \in P : \A b \in P : late[u] <= late[b]
    <3> HIDE DEF late
    <3> QED BY <2>1, LeastValue
  <2>3. \A b \in P : chosenIn[b] <= chosenIn[u]
    BY <1>1, <2>2
  <2> QED BY <2>3
<1> DEFINE Q == {a \in P : chosenIn[a] = chosenIn[u]}
           back == [a \in Q |-> MaxCandidates - o[a]]
<1>3. PICK a \in Q : \A b \in Q : o[b] <= o[a]
  <2>1. MaxCandidates \in Nat BY SizesAssumption
  <2>2. \A a \in Q : back[a] \in Nat BY <2>1
  <2>3. Q # {} OBVIOUS
  <2>4. PICK a \in Q : \A b \in Q : back[a] <= back[b]
    <3> HIDE DEF back, Q
    <3> QED BY <2>2, <2>3, LeastValue
  <2>5. \A b \in Q : o[b] \in 1 .. MaxCandidates OBVIOUS
  <2>6. \A b \in Q : o[b] <= o[a]
    <3> HIDE DEF Q
    <3> QED BY <2>1, <2>4, <2>5
  <2> QED BY <2>6
<1>4. ASSUME NEW b \in P \ {a}
      PROVE  b \in TakenBefore(S, o, chosenIn, chosenIn[a], a)
  <2>1. chosenIn[a] = chosenIn[u] /\ chosenIn[b] <= chosenIn[a] BY <1>2
  <2>2. chosenIn[a] \in 1 .. L /\ chosenIn[b] \in 1 .. L BY <1>1
  <2>3. CASE chosenIn[b] < chosenIn[a]
    <3>1. chosenIn[b] \in 1 .. chosenIn[a] - 1
      <4> HIDE DEF L
      <4> QED BY <1>1, <2>2, <2>3
    <3> QED BY <3>1 DEF TakenBefore
  <2>4. CASE chosenIn[b] = chosenIn[a]
    <3>1. b \in Q BY <2>1, <2>4
    <3>2. o[b] <= o[a] /\ o[b] # o[a] BY <1>3, <3>1
    <3>3. o[b] \in Int /\ o[a] \in Int OBVIOUS
    <3>4. o[b] < o[a] BY <3>2, <3>3
    <3> QED BY <2>4, <3>4 DEF TakenBefore
  <2> QED
    <3> HIDE DEF L
    <3> QED BY <1>1, <2>1, <2>2, <2>3, <2>4
<1> QED BY <1>4

\* What prune_neighbors takes for p fits in a list, and is of the candidates.
LEMMA PrunesBounded ==
  ASSUME NEW p \in Points, NEW C \in SUBSET Points, NEW pruned \in Prunes(p, C)
  PROVE  /\ pruned \subseteq C \ {p}
         /\ Cardinality(pruned) <= MaxDegree
<1>1. PICK o \in Orders(p, C) :
        pruned \in LET S == {a \in C : o[a] <= MaxCandidates}
                  IN {{a \in S \ {p} : chosenIn[a] # 0} : chosenIn \in Choices(p, S, o)}
  BY DEF Prunes
<1> DEFINE S == {a \in C : o[a] <= MaxCandidates}
<1>2. PICK chosenIn \in Choices(p, S, o) : pruned = {a \in S \ {p} : chosenIn[a] # 0}
  BY <1>1
<1>3. chosenIn \in [S -> {0} \union DOMAIN Alphas] /\ IsChoice(p, S, o, chosenIn)
  BY <1>2 DEF Choices
<1>4. CASE pruned = {}
  BY <1>4, FS_EmptySet, SizesAssumption
<1>5. CASE pruned # {}
  <2>1. \A a \in S : o[a] \in 1 .. MaxCandidates
    <3>1. \A a \in C : o[a] \in Nat \ {0} BY OrderPlaces
    <3> QED BY <3>1, SizesAssumption
  <2>2. \A a, b \in S : a # b => o[a] # o[b] BY OrderPlaces
  <2>3. PICK a \in pruned : pruned \ {a} \subseteq TakenBefore(S, o, chosenIn, chosenIn[a], a)
    <3>1. S \in SUBSET Points OBVIOUS
    <3>2. pruned \in SUBSET {x \in S : chosenIn[x] # 0} BY <1>2
    <3> HIDE DEF S
    <3> QED BY <1>3, <1>5, <2>1, <2>2, <3>1, <3>2, TakenLast
  <2> DEFINE earlier == TakenBefore(S, o, chosenIn, chosenIn[a], a)
  <2>4. ~Full(p, earlier)
    <3>1. a \in S /\ chosenIn[a] \in DOMAIN Alphas BY <1>2, <1>3
    <3> HIDE DEF S
    <3> QED BY <1>3, <3>1 DEF IsChoice
  <2>5. pruned \ {a} \subseteq earlier \ {p} BY <1>2, <2>3
  <2>6. earlier \ {p} \in SUBSET Points BY DEF TakenBefore
  <2>7. /\ IsFiniteSet(earlier \ {p})
        /\ Cardinality(earlier \ {p}) \in Nat
        /\ IsFiniteSet(pruned) /\ Cardinality(pruned) \in Nat
    <3>1. pruned \in SUBSET Points BY <1>2
    <3> HIDE DEF earlier
    <3> QED BY <2>6, <3>1, PointsFinite
  <2>8. Cardinality(pruned \ {a}) <= Cardinality(earlier \ {p})
    <3> HIDE DEF earlier
    <3> QED BY <2>5, <2>7, FS_Subset
  <2>9. Cardinality(pruned \ {a}) = Cardinality(pruned) - 1
    BY <2>7, FS_RemoveElement
  <2>10. MaxDegree \in Nat /\ ~(Cardinality(earlier \ {p}) >= MaxDegree)
    BY <2>4, SizesAssumption DEF Full
  <2>11. Cardinality(pruned) <= MaxDegree
    <3> HIDE DEF earlier
    <3> QED BY <2>7, <2>8, <2>9, <2>10
  <2>12. pruned \subseteq C \ {p} BY <1>2
  <2> QED BY <2>11, <2>12
<1> QED BY <1>4, <1>5

\* prune_neighbors takes the first candidate, so that none are lost altogether.
LEMMA PrunesSome ==
  ASSUME NEW p \in Points, NEW C \in SUBSET Points, C # {}, p \notin C,
         NEW pruned \in Prunes(p, C)
  PROVE  pruned # {}
<1>1. PICK o \in Orders(p, C) :
        pruned \in LET S == {a \in C : o[a] <= MaxCandidates}
                  IN {{a \in S \ {p} : chosenIn[a] # 0} : chosenIn \in Choices(p, S, o)}
  BY DEF Prunes
<1> DEFINE S == {a \in C : o[a] <= MaxCandidates}
<1>2. PICK chosenIn \in Choices(p, S, o) : pruned = {a \in S \ {p} : chosenIn[a] # 0}
  BY <1>1
<1>3. chosenIn \in [S -> {0} \union DOMAIN Alphas] /\ IsChoice(p, S, o, chosenIn)
  BY <1>2 DEF Choices
<1>4. PICK a \in C : o[a] = 1 BY OrderFirst
<1>5. a \in S \ {p} BY <1>4, SizesAssumption
<1>6. 1 \in DOMAIN Alphas BY SizesAssumption
<1> DEFINE earlier == TakenBefore(S, o, chosenIn, 1, a)
<1>7. earlier = {}
  <2>1. \A b \in S : o[b] \in Nat \ {0} BY OrderPlaces
  <2>2. \A b \in S : ~(o[b] < o[a]) BY <1>4, <2>1
  <2>3. 1 .. 1 - 1 = {} OBVIOUS
  <2> HIDE DEF S
  <2> QED BY <2>2, <2>3 DEF TakenBefore
<1>8. ~Full(p, {})
  <2>1. {} \ {p} = {} OBVIOUS
  <2> QED BY <2>1, FS_EmptySet, SizesAssumption DEF Full
<1>9. chosenIn[a] = 1
  <2>1. chosenIn[a] \notin 1 .. 1 - 1 OBVIOUS
  <2>2. chosenIn[a] = 1 <=>
          LET e == TakenBefore(S, o, chosenIn, 1, a)
          IN /\ chosenIn[a] \notin 1 .. 1 - 1
             /\ \A b \in e : o[b] < o[a] => ~Occludes(p, b, a, 1)
             /\ ~Full(p, e)
    <3> HIDE DEF S
    <3> QED BY <1>3, <1>5, <1>6 DEF IsChoice
  <2> QED BY <1>7, <1>8, <2>1, <2>2
<1> QED BY <1>2, <1>5, <1>9
-----------------------------------------------------------------------------
\* A search starts at the entry point, which is what it expands first.
SearchEnters ==
  \A t \in Threads :
    pc[t] = "search" => offered[t] = {EntryPoint} \/ EntryPoint \in expanded[t]

\* No list holds its own point, and no thread links a point to itself.
NoLoops ==
  /\ \A p \in Points : p \notin neighbors[p]
  /\ \A t \in Threads : /\ point[t] \notin todo[t]
                        /\ pc[t] \in {"idle", "search"} => todo[t] = {}

\* The copy a thread prunes holds its point, and not the list's own.
CopyHasPoint ==
  \A t \in Threads :
    pc[t] = "prune" =>
      point[t] \in candidates[t] /\ target[t] \notin candidates[t]

\* The cleanup begins after the barrier.
CleanupLast == cleaned # {} => AllLinked

SafetyInv ==
  /\ TypeOK
  /\ DegreeBound
  /\ NeverStranded
  /\ SearchEnters
  /\ NoLoops
  /\ CopyHasPoint
  /\ CleanupLast

LEMMA InitSafety == Init => SafetyInv
<1> SUFFICES ASSUME Init PROVE SafetyInv
  OBVIOUS
<1>1. TypeOK BY SizesAssumption DEF Init, TypeOK, Points
<1>2. DegreeBound BY FS_EmptySet, SizesAssumption DEF Init, DegreeBound
<1>3. NeverStranded BY DEF Init, NeverStranded
<1>4. SearchEnters /\ NoLoops /\ CopyHasPoint /\ CleanupLast
  BY DEF Init, SearchEnters, NoLoops, CopyHasPoint, CleanupLast
<1> QED BY <1>1, <1>2, <1>3, <1>4 DEF SafetyInv

LEMMA TakenArePoints == TypeOK => \A p \in 0 .. next - 1 : p \in Points
BY SizesAssumption DEF TypeOK, Points

\* While a thread is at work nothing has been cleaned.
LEMMA BusyNotCleaned ==
  ASSUME SafetyInv, NEW t \in Threads, pc[t] # "idle"
  PROVE  cleaned = {}
BY DEF SafetyInv, CleanupLast, AllLinked

LEMMA TakeSafety ==
  ASSUME SafetyInv, NEW t \in Threads, Take(t)
  PROVE  SafetyInv'
<1> USE DEF SafetyInv
<1>0. /\ pc[t] = "idle" /\ next \in Nat /\ next < NumPoints
      /\ next \in Points /\ next' = next + 1
      /\ UNCHANGED <<neighbors, todo, target, candidates, cleaned>>
      /\ point' = [point EXCEPT ![t] = next]
      /\ pc' = [pc EXCEPT ![t] = "search"]
      /\ offered' = [offered EXCEPT ![t] = {EntryPoint}]
  BY SizesAssumption DEF Take, MoreToTake, TypeOK, Points
<1>1. TypeOK' BY SizesAssumption DEF Take, TypeOK, Points, MoreToTake
<1>2. DegreeBound' BY <1>0 DEF DegreeBound
<1>3. NeverStranded'
  <2> SUFFICES ASSUME NEW p \in (0 .. next' - 1) \ {EntryPoint},
                      \A u \in Threads : pc'[u] = "search" => point'[u] # p
               PROVE  neighbors[p] # {}
    BY <1>0 DEF NeverStranded
  <2>1. p # next BY <1>0 DEF TypeOK
  <2>2. p \in (0 .. next - 1) \ {EntryPoint} BY <1>0, <2>1
  <2>3. \A u \in Threads : pc[u] = "search" => point[u] # p BY <1>0 DEF TypeOK
  <2> QED BY <2>2, <2>3 DEF NeverStranded
<1>4. SearchEnters' BY <1>0 DEF SearchEnters, TypeOK, Take
<1>5. NoLoops' BY <1>0 DEF NoLoops, TypeOK
<1>6. CopyHasPoint' BY <1>0 DEF CopyHasPoint, TypeOK
<1>7. CleanupLast' BY <1>0 DEF CleanupLast, AllLinked
<1> QED BY <1>1, <1>2, <1>3, <1>4, <1>5, <1>6, <1>7

\* What the search takes from its queue keeps the entry point expanded.
LEMMA ExpandClosestSafety ==
  ASSUME SafetyInv, NEW t \in Threads, ExpandClosest(t)
  PROVE  SafetyInv'
<1> USE DEF SafetyInv
<1>0. PICK c \in Unexpanded(t) :
        /\ expanded' = [expanded EXCEPT ![t] = @ \union {c}]
        /\ offered' = [offered EXCEPT ![t] = @ \union neighbors[c]]
  BY DEF ExpandClosest, Marks
<1>1. /\ pc[t] = "search"
      /\ UNCHANGED <<neighbors, next, pc, point, todo, target, candidates, cleaned>>
  BY DEF ExpandClosest
<1>2. c \in offered[t] /\ c \in Points
  BY <1>0 DEF Unexpanded, Kept, TypeOK
<1>3. TypeOK' BY <1>0, <1>1, <1>2 DEF TypeOK
<1>4. DegreeBound' BY <1>1 DEF DegreeBound
<1>5. NeverStranded' BY <1>1 DEF NeverStranded
<1>6. SearchEnters'
  <2> SUFFICES ASSUME NEW u \in Threads, pc[u] = "search"
               PROVE  offered'[u] = {EntryPoint} \/ EntryPoint \in expanded'[u]
    BY <1>1 DEF SearchEnters
  <2>1. CASE u = t BY <1>0, <1>1, <1>2, <2>1 DEF SearchEnters, TypeOK
  <2>2. CASE u # t BY <1>0, <2>2 DEF SearchEnters, TypeOK
  <2> QED BY <2>1, <2>2
<1>7. NoLoops' /\ CopyHasPoint' /\ CleanupLast'
  BY <1>1 DEF NoLoops, CopyHasPoint, CleanupLast, AllLinked
<1> QED BY <1>3, <1>4, <1>5, <1>6, <1>7

\* A search that is over has expanded the entry point: were nothing else
\* offered, the entry point would be kept, and unexpanded.
LEMMA EntryExpanded ==
  ASSUME SafetyInv, NEW t \in Threads, pc[t] = "search", Unexpanded(t) = {}
  PROVE  EntryPoint \in expanded[t]
<1> SUFFICES ASSUME offered[t] = {EntryPoint} PROVE EntryPoint \in expanded[t]
  BY DEF SafetyInv, SearchEnters
<1>1. ~Closer(point[t], EntryPoint, EntryPoint)
  BY SizesAssumption DEF Closer, SafetyInv, TypeOK, Points
<1>2. {b \in {EntryPoint} : Closer(point[t], b, EntryPoint)} = {}
  BY <1>1
<1>3. EntryPoint \in Kept(point[t], offered[t])
  <2>1. Cardinality({}) = 0 BY FS_EmptySet
  <2>2. 0 < Lbuild BY SizesAssumption
  <2>3. Kept(point[t], {EntryPoint})
          = {a \in {EntryPoint} :
               Cardinality({b \in {EntryPoint} : Closer(point[t], b, a)}) < Lbuild}
    BY DEF Kept
  <2> QED BY <1>2, <2>1, <2>2, <2>3
<1> QED BY <1>3 DEF Unexpanded

LEMMA CommitSafety ==
  ASSUME SafetyInv, NEW t \in Threads, Commit(t)
  PROVE  SafetyInv'
<1> USE DEF SafetyInv
<1>0. PICK pruned \in Prunes(point[t], expanded[t] \ {point[t]}) :
        /\ neighbors' = [neighbors EXCEPT ![point[t]] = pruned]
        /\ todo' = [todo EXCEPT ![t] = pruned]
  BY DEF Commit
<1>1. /\ pc[t] = "search" /\ Unexpanded(t) = {}
      /\ pc' = [pc EXCEPT ![t] = "reverse"]
      /\ UNCHANGED <<next, point, offered, expanded, target, candidates, cleaned>>
  BY DEF Commit
<1>2. /\ point[t] \in Points
      /\ expanded[t] \ {point[t]} \in SUBSET Points
  BY DEF TypeOK
<1>3. /\ pruned \subseteq Points /\ point[t] \notin pruned
      /\ Cardinality(pruned) <= MaxDegree
  BY <1>0, <1>2, PrunesBounded
<1>4. cleaned = {} BY <1>1, BusyNotCleaned
<1>5. TypeOK' BY <1>0, <1>1, <1>2, <1>3 DEF TypeOK
<1>6. DegreeBound'
  <2> SUFFICES ASSUME NEW p \in Points
               PROVE  Cardinality(neighbors'[p]) <= SlackDegree
    BY <1>1, <1>4 DEF DegreeBound
  <2>1. CASE p = point[t]
    <3>1. neighbors'[p] = pruned BY <1>0, <2>1 DEF TypeOK
    <3>2. Cardinality(pruned) \in Nat BY <1>3, PointsFinite
    <3> QED BY <1>3, <3>1, <3>2, SizesAssumption
  <2>2. CASE p # point[t] BY <1>0, <2>2 DEF DegreeBound, TypeOK
  <2> QED BY <2>1, <2>2
<1>7. NeverStranded'
  <2> SUFFICES ASSUME NEW p \in (0 .. next - 1) \ {EntryPoint},
                      \A u \in Threads : pc'[u] = "search" => point[u] # p
               PROVE  neighbors'[p] # {}
    BY <1>1 DEF NeverStranded
  <2>1. CASE p = point[t]
    <3>1. EntryPoint \in expanded[t] \ {point[t]}
      BY <1>1, <2>1, EntryExpanded
    <3>2. pruned # {} BY <1>0, <1>2, <3>1, PrunesSome
    <3> QED BY <1>0, <1>2, <2>1, <3>2 DEF TypeOK
  <2>2. CASE p # point[t]
    <3>1. \A u \in Threads : pc[u] = "search" => point[u] # p
      BY <1>1, <2>2 DEF TypeOK
    <3>2. neighbors'[p] = neighbors[p] BY <1>0, <2>2 DEF TypeOK
    <3> QED BY <3>1, <3>2 DEF NeverStranded
  <2> QED BY <2>1, <2>2
<1>8. SearchEnters' BY <1>1 DEF SearchEnters, TypeOK
<1>9. NoLoops' BY <1>0, <1>1, <1>3 DEF NoLoops, TypeOK
<1>10. CopyHasPoint' BY <1>1 DEF CopyHasPoint, TypeOK
<1>11. CleanupLast' BY <1>1, <1>4 DEF CleanupLast
<1> QED BY <1>5, <1>6, <1>7, <1>8, <1>9, <1>10, <1>11

\* A reverse edge is added only where there is room, and a copy gets the point.
LEMMA AddReverseSafety ==
  ASSUME SafetyInv, NEW t \in Threads, NEW dst \in Points, AddReverse(t, dst)
  PROVE  SafetyInv'
<1> USE DEF SafetyInv
<1>0. /\ pc[t] = "reverse" /\ dst \in todo[t] /\ point[t] # dst
      /\ todo' = [todo EXCEPT ![t] = @ \ {dst}]
      /\ UNCHANGED <<next, point, offered, expanded, cleaned>>
  BY DEF AddReverse, NoLoops
<1>1. cleaned = {} BY <1>0, BusyNotCleaned
<1>2. point[t] \in Points BY DEF TypeOK
<1>3. CASE UNCHANGED <<neighbors, pc, target, candidates>>
  <2>1. TypeOK' BY <1>0, <1>3 DEF TypeOK
  <2>2. DegreeBound' BY <1>0, <1>3 DEF DegreeBound
  <2>3. NeverStranded' BY <1>0, <1>3 DEF NeverStranded
  <2>4. SearchEnters' /\ CopyHasPoint' BY <1>0, <1>3 DEF SearchEnters, CopyHasPoint
  <2>5. NoLoops' BY <1>0, <1>3 DEF NoLoops, TypeOK
  <2>6. CleanupLast' BY <1>0, <1>1 DEF CleanupLast
  <2> QED BY <2>1, <2>2, <2>3, <2>4, <2>5, <2>6
<1>4. CASE /\ HasRoom(dst)
           /\ neighbors' = [neighbors EXCEPT ![dst] = @ \union {point[t]}]
           /\ UNCHANGED <<pc, target, candidates>>
  <2>1. TypeOK' BY <1>0, <1>2, <1>4 DEF TypeOK
  <2>2. DegreeBound'
    <3> SUFFICES ASSUME NEW p \in Points
                 PROVE  Cardinality(neighbors'[p]) <= SlackDegree
      BY <1>0, <1>1 DEF DegreeBound
    <3>1. CASE p = dst
      <4>1. neighbors'[p] = neighbors[dst] \union {point[t]} BY <1>4, <3>1 DEF TypeOK
      <4>2. neighbors[dst] \in SUBSET Points BY DEF TypeOK
      <4>3. IsFiniteSet(neighbors[dst]) /\ Cardinality(neighbors[dst]) \in Nat
        BY <4>2, PointsFinite
      <4>4. Cardinality(neighbors[dst] \union {point[t]})
              = IF point[t] \in neighbors[dst] THEN Cardinality(neighbors[dst])
                ELSE Cardinality(neighbors[dst]) + 1
        BY <4>3, FS_AddElement
      <4>5. Cardinality(neighbors[dst]) < SlackDegree BY <1>4 DEF HasRoom
      <4> QED BY <4>1, <4>3, <4>4, <4>5, SizesAssumption
    <3>2. CASE p # dst BY <1>4, <3>2 DEF DegreeBound, TypeOK
    <3> QED BY <3>1, <3>2
  <2>3. NeverStranded'
    <3>1. \A p \in Points : neighbors[p] \subseteq neighbors'[p] BY <1>4 DEF TypeOK
    <3>2. \A p \in 0 .. next - 1 : p \in Points BY TakenArePoints
    <3> QED BY <1>0, <1>4, <3>1, <3>2 DEF NeverStranded
  <2>4. SearchEnters' /\ CopyHasPoint' BY <1>0, <1>4 DEF SearchEnters, CopyHasPoint
  <2>5. NoLoops' BY <1>0, <1>4 DEF NoLoops, TypeOK
  <2>6. CleanupLast' BY <1>0, <1>1 DEF CleanupLast
  <2> QED BY <2>1, <2>2, <2>3, <2>4, <2>5, <2>6
<1>5. CASE /\ candidates' = [candidates EXCEPT ![t] = CopyWithPoint(t, dst)]
           /\ target' = [target EXCEPT ![t] = dst]
           /\ pc' = [pc EXCEPT ![t] = "prune"]
           /\ UNCHANGED neighbors
  <2>1. /\ CopyWithPoint(t, dst) \subseteq Points
        /\ point[t] \in CopyWithPoint(t, dst)
        /\ dst \notin CopyWithPoint(t, dst)
    BY <1>0, <1>2 DEF CopyWithPoint, TypeOK, NoLoops
  <2>2. TypeOK' BY <1>0, <1>5, <2>1 DEF TypeOK
  <2>3. DegreeBound' BY <1>0, <1>5 DEF DegreeBound
  <2>4. NeverStranded'
    <3>1. \A u \in Threads : pc'[u] = "search" <=> pc[u] = "search"
      BY <1>0, <1>5 DEF TypeOK
    <3> QED BY <1>0, <1>5, <3>1 DEF NeverStranded
  <2>5. SearchEnters' BY <1>0, <1>5 DEF SearchEnters, TypeOK
  <2>6. NoLoops' BY <1>0, <1>5 DEF NoLoops, TypeOK
  <2>7. CopyHasPoint' BY <1>0, <1>5, <2>1 DEF CopyHasPoint, TypeOK
  <2>8. CleanupLast' BY <1>0, <1>1 DEF CleanupLast
  <2> QED BY <2>2, <2>3, <2>4, <2>5, <2>6, <2>7, <2>8
<1> QED BY <1>3, <1>4, <1>5 DEF AddReverse

\* A prune of a copy never leaves a list empty: the copy has the thread's point.
LEMMA PruneReverseSafety ==
  ASSUME SafetyInv, NEW t \in Threads, PruneReverse(t)
  PROVE  SafetyInv'
<1> USE DEF SafetyInv
<1>0. PICK pruned \in Prunes(target[t], candidates[t]) :
        neighbors' = [neighbors EXCEPT ![target[t]] = pruned]
  BY DEF PruneReverse
<1>1. /\ pc[t] = "prune" /\ pc' = [pc EXCEPT ![t] = "reverse"]
      /\ UNCHANGED <<next, point, offered, expanded, todo, target, candidates, cleaned>>
  BY DEF PruneReverse
<1>2. target[t] \in Points /\ candidates[t] \in SUBSET Points BY DEF TypeOK
<1>3. /\ pruned \subseteq Points /\ target[t] \notin pruned
      /\ Cardinality(pruned) <= MaxDegree
  BY <1>2, PrunesBounded
<1>4. pruned # {} BY <1>1, <1>2, PrunesSome DEF CopyHasPoint
<1>5. cleaned = {} BY <1>1, BusyNotCleaned
<1>6. TypeOK' BY <1>0, <1>1, <1>2, <1>3 DEF TypeOK
<1>7. DegreeBound'
  <2> SUFFICES ASSUME NEW p \in Points
               PROVE  Cardinality(neighbors'[p]) <= SlackDegree
    BY <1>1, <1>5 DEF DegreeBound
  <2>1. CASE p = target[t]
    <3>1. neighbors'[p] = pruned BY <1>0, <2>1 DEF TypeOK
    <3>2. Cardinality(pruned) \in Nat BY <1>3, PointsFinite
    <3> QED BY <1>3, <3>1, <3>2, SizesAssumption
  <2>2. CASE p # target[t] BY <1>0, <2>2 DEF DegreeBound, TypeOK
  <2> QED BY <2>1, <2>2
<1>8. NeverStranded'
  <2>1. \A u \in Threads : pc'[u] = "search" <=> pc[u] = "search" BY <1>1 DEF TypeOK
  <2>2. \A p \in Points : neighbors[p] # {} => neighbors'[p] # {}
    BY <1>0, <1>4 DEF TypeOK
  <2>3. \A p \in 0 .. next - 1 : p \in Points BY TakenArePoints
  <2> QED BY <1>1, <2>1, <2>2, <2>3 DEF NeverStranded
<1>9. SearchEnters' BY <1>1 DEF SearchEnters, TypeOK
<1>10. NoLoops' BY <1>0, <1>1, <1>3 DEF NoLoops, TypeOK
<1>11. CopyHasPoint' BY <1>1 DEF CopyHasPoint, TypeOK
<1>12. CleanupLast' BY <1>1, <1>5 DEF CleanupLast
<1> QED BY <1>6, <1>7, <1>8, <1>9, <1>10, <1>11, <1>12

LEMMA LinkedSafety ==
  ASSUME SafetyInv, NEW t \in Threads, Linked(t)
  PROVE  SafetyInv'
<1> USE DEF SafetyInv
<1>0. /\ pc[t] = "reverse" /\ todo[t] = {} /\ pc' = [pc EXCEPT ![t] = "idle"]
      /\ UNCHANGED <<neighbors, next, point, offered, expanded, todo, target, candidates, cleaned>>
  BY DEF Linked
<1>1. cleaned = {} BY <1>0, BusyNotCleaned
<1>2. TypeOK' BY <1>0 DEF TypeOK
<1>3. DegreeBound' BY <1>0 DEF DegreeBound
<1>4. NeverStranded'
  <2>1. \A u \in Threads : pc'[u] = "search" <=> pc[u] = "search" BY <1>0 DEF TypeOK
  <2> QED BY <1>0, <2>1 DEF NeverStranded
<1>5. SearchEnters' /\ NoLoops' /\ CopyHasPoint' /\ CleanupLast'
  BY <1>0, <1>1 DEF SearchEnters, NoLoops, CopyHasPoint, CleanupLast, TypeOK
<1> QED BY <1>2, <1>3, <1>4, <1>5

\* The cleanup prunes what is over the degree, which is not empty.
LEMMA CleanupSafety ==
  ASSUME SafetyInv, NEW p \in Points, Cleanup(p)
  PROVE  SafetyInv'
<1> USE DEF SafetyInv
<1>0. /\ AllLinked /\ cleaned' = cleaned \union {p}
      /\ UNCHANGED <<next, pc, point, offered, expanded, todo, target, candidates>>
  BY DEF Cleanup, locals
<1>1. neighbors[p] \in SUBSET Points /\ p \notin neighbors[p] BY DEF TypeOK, NoLoops
<1>2. CASE ~OverDegree(p)
  <2>0. UNCHANGED neighbors BY <1>2 DEF Cleanup
  <2>1. Cardinality(neighbors[p]) <= MaxDegree
    <3>1. Cardinality(neighbors[p]) \in Nat BY <1>1, PointsFinite
    <3> QED BY <1>2, <3>1, SizesAssumption DEF OverDegree
  <2>2. TypeOK' BY <1>0, <2>0 DEF TypeOK
  <2>3. DegreeBound' BY <1>0, <2>0, <2>1 DEF DegreeBound
  <2>4. NeverStranded' BY <1>0, <2>0 DEF NeverStranded
  <2>5. SearchEnters' /\ NoLoops' /\ CopyHasPoint' /\ CleanupLast'
    BY <1>0, <2>0 DEF SearchEnters, NoLoops, CopyHasPoint, CleanupLast, AllLinked
  <2> QED BY <2>2, <2>3, <2>4, <2>5
<1>3. CASE OverDegree(p)
  <2>0. PICK pruned \in Prunes(p, neighbors[p]) :
          neighbors' = [neighbors EXCEPT ![p] = pruned]
    BY <1>3 DEF Cleanup
  <2>1. /\ pruned \subseteq Points /\ p \notin pruned
        /\ Cardinality(pruned) <= MaxDegree /\ Cardinality(pruned) \in Nat
    <3>1. pruned \subseteq neighbors[p] \ {p} /\ Cardinality(pruned) <= MaxDegree
      BY <1>1, PrunesBounded
    <3>2. pruned \in SUBSET Points BY <1>1, <3>1
    <3> QED BY <3>1, <3>2, PointsFinite
  <2>2. neighbors[p] # {}
    <3>1. Cardinality({}) = 0 BY FS_EmptySet
    <3>2. ~(0 > MaxDegree) BY SizesAssumption
    <3> QED BY <1>3, <3>1, <3>2 DEF OverDegree
  <2>3. pruned # {} BY <1>1, <2>2, PrunesSome
  <2>4. TypeOK' BY <1>0, <2>0, <2>1 DEF TypeOK
  <2>5. DegreeBound'
    <3> SUFFICES ASSUME NEW q \in Points
                 PROVE  /\ Cardinality(neighbors'[q]) <= SlackDegree
                        /\ q \in cleaned' => Cardinality(neighbors'[q]) <= MaxDegree
      BY DEF DegreeBound
    <3>1. CASE q = p
      <4>1. neighbors'[q] = pruned BY <2>0, <3>1 DEF TypeOK
      <4> QED BY <2>1, <4>1, SizesAssumption
    <3>2. CASE q # p BY <1>0, <2>0, <3>2 DEF DegreeBound, TypeOK
    <3> QED BY <3>1, <3>2
  <2>6. NeverStranded'
    <3>1. \A q \in Points : neighbors[q] # {} => neighbors'[q] # {}
      BY <2>0, <2>3 DEF TypeOK
    <3>2. \A q \in 0 .. next - 1 : q \in Points BY TakenArePoints
    <3> QED BY <1>0, <3>1, <3>2 DEF NeverStranded
  <2>7. NoLoops' BY <1>0, <2>0, <2>1 DEF NoLoops, TypeOK
  <2>8. SearchEnters' /\ CopyHasPoint' /\ CleanupLast'
    BY <1>0 DEF SearchEnters, CopyHasPoint, CleanupLast, AllLinked
  <2> QED BY <2>4, <2>5, <2>6, <2>7, <2>8
<1> QED BY <1>2, <1>3

LEMMA StutterSafety == SafetyInv /\ UNCHANGED vars => SafetyInv'
BY DEF vars, locals, SafetyInv, TypeOK, DegreeBound, NeverStranded, SearchEnters, NoLoops,
       CopyHasPoint, CleanupLast, AllLinked

LEMMA NextSafety == SafetyInv /\ [Next]_vars => SafetyInv'
BY TakeSafety, ExpandClosestSafety, CommitSafety, AddReverseSafety,
   PruneReverseSafety, LinkedSafety, CleanupSafety, StutterSafety
   DEF Next, Step

THEOREM SafetyInvariant == Spec => []SafetyInv
BY InitSafety, NextSafety, PTL DEF Spec

\* Whatever the threads do to each other's lists, every list holds points, and
\* every thread is in one of the phases of link.
THEOREM TypeCorrect == Spec => []TypeOK
BY SafetyInvariant, PTL DEF SafetyInv

\* For every number of threads and points, in every interleaving of the locked
\* sections of link and inter_insert, no list grows over the slack, and none is
\* over the degree after the cleanup.
THEOREM DegreeAlwaysBounded == Spec => []DegreeBound
BY SafetyInvariant, PTL DEF SafetyInv

\* Although threads overwrite each other's lists, a linked point other than the
\* medoid never loses its last out-edge.
THEOREM NoPointStranded == Spec => []NeverStranded
BY SafetyInvariant, PTL DEF SafetyInv
-----------------------------------------------------------------------------
\* One thread builds: what it copied is still there when it overwrites.

\* the points a search from the entry point may find: linked, or being linked
InGraph ==
  {EntryPoint} \union {p \in 0 .. next - 1 : \A t \in Threads : pc[t] = "search" => point[t] # p}

\* a thread at work has a point that was taken
Working == \A t \in Threads : pc[t] # "idle" => point[t] \in 0 .. next - 1

\* lists hold points in the graph, and points outside of it have empty lists
ListsInGraph ==
  /\ \A u \in Points : neighbors[u] \subseteq InGraph
  /\ \A u \in Points : u \notin InGraph => neighbors[u] = {}
  /\ \A t \in Threads : todo[t] \subseteq InGraph

\* the copy is what the list holds, and the point
CopyFresh ==
  \A t \in Threads :
    pc[t] = "prune" => /\ target[t] \in InGraph
                       /\ candidates[t] = neighbors[target[t]] \union {point[t]}

\* what a search has expanded is offered, and so are its neighbours
SearchClosed ==
  \A t \in Threads :
    pc[t] = "search" =>
      /\ EntryPoint \in offered[t] /\ offered[t] \subseteq InGraph
      /\ expanded[t] \subseteq offered[t]
      /\ \A c \in expanded[t] : neighbors[c] \subseteq offered[t]

AloneInv == SafetyInv /\ Working /\ ListsInGraph /\ CopyFresh /\ SearchClosed

LEMMA InitAlone == Init => AloneInv
<1> SUFFICES ASSUME Init PROVE AloneInv
  OBVIOUS
<1>1. SafetyInv BY InitSafety
<1>2. Working /\ CopyFresh /\ SearchClosed BY DEF Init, Working, CopyFresh, SearchClosed
<1>3. ListsInGraph BY DEF Init, ListsInGraph
<1> QED BY <1>1, <1>2, <1>3 DEF AloneInv

LEMMA TakeAlone ==
  ASSUME OneThread, AloneInv, NEW t \in Threads, Take(t)
  PROVE  AloneInv' /\ InGraph' = InGraph
<1> USE DEF AloneInv
<1>1. SafetyInv' BY TakeSafety
<1>2. \A u \in Threads : u = t BY DEF OneThread
<1>3. /\ pc[t] = "idle" /\ next \in Nat /\ next' = next + 1 /\ next' \in Nat
      /\ UNCHANGED <<neighbors, todo, target, candidates>>
      /\ point'[t] = next /\ pc'[t] = "search"
      /\ offered'[t] = {EntryPoint} /\ expanded'[t] = {}
  BY DEF Take, SafetyInv, TypeOK
<1>4. InGraph' = InGraph
  <2>1. InGraph' = {EntryPoint} \union {p \in 0 .. next : p # next}
    BY <1>2, <1>3 DEF InGraph
  <2>2. InGraph = {EntryPoint} \union (0 .. next - 1)
    BY <1>2, <1>3 DEF InGraph
  <2>3. {p \in 0 .. next : p # next} = 0 .. next - 1 BY <1>3
  <2> QED BY <2>1, <2>2, <2>3
<1>5. Working' BY <1>2, <1>3 DEF Working
<1>6. ListsInGraph' BY <1>3, <1>4 DEF ListsInGraph
<1>7. CopyFresh' BY <1>2, <1>3 DEF CopyFresh
<1>8. SearchClosed'
  <2>1. EntryPoint \in InGraph' BY DEF InGraph
  <2> QED BY <1>2, <1>3, <2>1 DEF SearchClosed
<1> QED BY <1>1, <1>4, <1>5, <1>6, <1>7, <1>8

LEMMA ExpandAlone ==
  ASSUME OneThread, AloneInv, NEW t \in Threads, ExpandClosest(t)
  PROVE  AloneInv' /\ InGraph' = InGraph
<1> USE DEF AloneInv
<1>1. SafetyInv' BY ExpandClosestSafety
<1>2. \A u \in Threads : u = t BY DEF OneThread
<1>3. PICK c \in Unexpanded(t) :
        /\ expanded' = [expanded EXCEPT ![t] = @ \union {c}]
        /\ offered' = [offered EXCEPT ![t] = @ \union neighbors[c]]
  BY DEF ExpandClosest, Marks
<1>4. /\ pc[t] = "search"
      /\ UNCHANGED <<neighbors, next, pc, point, todo, target, candidates, cleaned>>
  BY DEF ExpandClosest
<1>5. /\ expanded'[t] = expanded[t] \union {c} /\ offered'[t] = offered[t] \union neighbors[c]
      /\ c \in offered[t] /\ c \in Points
  BY <1>3 DEF SafetyInv, TypeOK, Unexpanded, Kept
<1>6. InGraph' = InGraph BY <1>4 DEF InGraph
<1>7. Working' BY <1>4 DEF Working
<1>8. ListsInGraph' BY <1>4, <1>6 DEF ListsInGraph
<1>9. CopyFresh' BY <1>4, <1>6 DEF CopyFresh
<1>10. SearchClosed'
  <2>1. neighbors[c] \subseteq InGraph BY <1>5 DEF ListsInGraph
  <2> QED BY <1>2, <1>4, <1>5, <1>6, <2>1 DEF SearchClosed
<1> QED BY <1>1, <1>6, <1>7, <1>8, <1>9, <1>10

LEMMA CommitAlone ==
  ASSUME OneThread, AloneInv, NEW t \in Threads, Commit(t)
  PROVE  AloneInv' /\ InGraph' = InGraph \union {point[t]}
<1> USE DEF AloneInv
<1>1. SafetyInv' BY CommitSafety
<1>2. \A u \in Threads : u = t BY DEF OneThread
<1>3. PICK pruned \in Prunes(point[t], expanded[t] \ {point[t]}) :
        /\ neighbors' = [neighbors EXCEPT ![point[t]] = pruned]
        /\ todo' = [todo EXCEPT ![t] = pruned]
  BY DEF Commit
<1>4. /\ pc[t] = "search" /\ pc'[t] = "reverse"
      /\ UNCHANGED <<next, point, offered, expanded, target, candidates, cleaned>>
      /\ point[t] \in Points /\ expanded[t] \subseteq Points /\ point[t] \in 0 .. next - 1
      /\ todo'[t] = pruned
      /\ \A u \in Points : neighbors'[u] = IF u = point[t] THEN pruned ELSE neighbors[u]
  BY <1>3 DEF Commit, SafetyInv, TypeOK, Working
<1>5. InGraph' = InGraph \union {point[t]}
  <2>1. InGraph' = {EntryPoint} \union (0 .. next - 1) BY <1>2, <1>4 DEF InGraph
  <2>2. InGraph = {EntryPoint} \union {p \in 0 .. next - 1 : p # point[t]}
    BY <1>2, <1>4 DEF InGraph
  <2> QED BY <1>4, <2>1, <2>2
<1>6. pruned \subseteq InGraph
  <2>1. expanded[t] \ {point[t]} \in SUBSET Points BY <1>4
  <2>2. pruned \subseteq expanded[t] BY <1>4, <2>1, PrunesBounded
  <2> QED BY <1>4, <2>2 DEF SearchClosed
<1>7. Working' BY <1>2, <1>4 DEF Working
<1>8. ListsInGraph' BY <1>2, <1>4, <1>5, <1>6 DEF ListsInGraph
<1>9. CopyFresh' /\ SearchClosed' BY <1>2, <1>4 DEF CopyFresh, SearchClosed
<1> QED BY <1>1, <1>5, <1>7, <1>8, <1>9

LEMMA AddReverseAlone ==
  ASSUME OneThread, AloneInv, NEW t \in Threads, NEW dst \in Points, AddReverse(t, dst)
  PROVE  AloneInv' /\ InGraph' = InGraph
<1> USE DEF AloneInv
<1>1. SafetyInv' BY AddReverseSafety
<1>2. \A u \in Threads : u = t BY DEF OneThread
<1>3. /\ pc[t] = "reverse" /\ dst \in todo[t] /\ todo'[t] = todo[t] \ {dst}
      /\ UNCHANGED <<next, point, offered, expanded, cleaned>>
      /\ pc'[t] \in {"reverse", "prune"}
  BY DEF AddReverse, SafetyInv, TypeOK
<1>4. InGraph' = InGraph BY <1>2, <1>3 DEF InGraph
<1>5. Working' BY <1>2, <1>3 DEF Working
<1>6. SearchClosed' BY <1>2, <1>3 DEF SearchClosed
<1>7. dst \in InGraph /\ point[t] \in InGraph
  <2>1. point[t] \in 0 .. next - 1 BY <1>3 DEF Working
  <2> QED BY <1>2, <1>3, <2>1 DEF ListsInGraph, InGraph
<1>8. CASE UNCHANGED <<neighbors, pc, target, candidates>>
  BY <1>1, <1>2, <1>3, <1>4, <1>5, <1>6, <1>8 DEF ListsInGraph, CopyFresh
<1>9. CASE /\ neighbors' = [neighbors EXCEPT ![dst] = @ \union {point[t]}]
           /\ UNCHANGED <<pc, target, candidates>>
  <2>1. \A u \in Points : neighbors'[u] = IF u = dst THEN neighbors[u] \union {point[t]} ELSE neighbors[u]
    BY <1>9 DEF SafetyInv, TypeOK
  <2>2. ListsInGraph' BY <1>2, <1>3, <1>4, <1>7, <2>1 DEF ListsInGraph
  <2>3. CopyFresh' BY <1>2, <1>3, <1>9 DEF CopyFresh
  <2> QED BY <1>1, <1>4, <1>5, <1>6, <2>2, <2>3
<1>10. CASE /\ candidates' = [candidates EXCEPT ![t] = CopyWithPoint(t, dst)]
            /\ target' = [target EXCEPT ![t] = dst]
            /\ UNCHANGED neighbors
  <2>1. candidates'[t] = neighbors[dst] \union {point[t]} /\ target'[t] = dst
    BY <1>10 DEF CopyWithPoint, SafetyInv, TypeOK
  <2>2. ListsInGraph' BY <1>2, <1>3, <1>4, <1>10 DEF ListsInGraph
  <2>3. CopyFresh' BY <1>2, <1>3, <1>4, <1>7, <1>10, <2>1 DEF CopyFresh
  <2> QED BY <1>1, <1>4, <1>5, <1>6, <2>2, <2>3
<1> QED BY <1>8, <1>9, <1>10 DEF AddReverse

LEMMA PruneReverseAlone ==
  ASSUME OneThread, AloneInv, NEW t \in Threads, PruneReverse(t)
  PROVE  AloneInv' /\ InGraph' = InGraph
<1> USE DEF AloneInv
<1>1. SafetyInv' BY PruneReverseSafety
<1>2. \A u \in Threads : u = t BY DEF OneThread
<1>3. PICK pruned \in Prunes(target[t], candidates[t]) :
        neighbors' = [neighbors EXCEPT ![target[t]] = pruned]
  BY DEF PruneReverse
<1>4. /\ pc[t] = "prune" /\ pc'[t] = "reverse"
      /\ UNCHANGED <<next, point, offered, expanded, todo, target, candidates, cleaned>>
      /\ target[t] \in Points /\ candidates[t] \in SUBSET Points
      /\ \A u \in Points : neighbors'[u] = IF u = target[t] THEN pruned ELSE neighbors[u]
  BY <1>3 DEF PruneReverse, SafetyInv, TypeOK
<1>5. InGraph' = InGraph BY <1>2, <1>4 DEF InGraph
<1>6. pruned \subseteq InGraph
  <2>1. pruned \subseteq candidates[t] BY <1>4, PrunesBounded
  <2>2. point[t] \in InGraph BY <1>2, <1>4 DEF Working, InGraph
  <2> QED BY <1>4, <2>1, <2>2 DEF CopyFresh, ListsInGraph
<1>7. ListsInGraph' BY <1>4, <1>5, <1>6 DEF ListsInGraph, CopyFresh
<1>8. Working' /\ CopyFresh' /\ SearchClosed'
  BY <1>2, <1>4 DEF Working, CopyFresh, SearchClosed
<1> QED BY <1>1, <1>5, <1>7, <1>8

LEMMA LinkedAlone ==
  ASSUME OneThread, AloneInv, NEW t \in Threads, Linked(t)
  PROVE  AloneInv' /\ InGraph' = InGraph
<1> USE DEF AloneInv
<1>1. SafetyInv' BY LinkedSafety
<1>2. \A u \in Threads : u = t BY DEF OneThread
<1>3. /\ pc[t] = "reverse" /\ pc'[t] = "idle"
      /\ UNCHANGED <<neighbors, next, point, offered, expanded, todo, target, candidates, cleaned>>
  BY DEF Linked, SafetyInv, TypeOK
<1>4. InGraph' = InGraph BY <1>2, <1>3 DEF InGraph
<1>5. Working' /\ ListsInGraph' /\ CopyFresh' /\ SearchClosed'
  BY <1>2, <1>3, <1>4 DEF Working, ListsInGraph, CopyFresh, SearchClosed
<1> QED BY <1>1, <1>4, <1>5

LEMMA CleanupAlone ==
  ASSUME OneThread, AloneInv, NEW p \in Points, Cleanup(p)
  PROVE  AloneInv' /\ InGraph' = InGraph
<1> USE DEF AloneInv
<1>1. SafetyInv' BY CleanupSafety
<1>2. /\ AllLinked /\ UNCHANGED <<next, pc, point, offered, expanded, todo, target, candidates>>
  BY DEF Cleanup, locals
<1>3. InGraph' = InGraph BY <1>2 DEF InGraph
<1>4. \A t \in Threads : pc[t] = "idle" BY <1>2 DEF AllLinked
<1>5. Working' /\ CopyFresh' /\ SearchClosed'
  BY <1>2, <1>4 DEF Working, CopyFresh, SearchClosed
<1>6. \A u \in Points : neighbors'[u] \subseteq neighbors[u]
  <2>1. neighbors[p] \in SUBSET Points BY DEF SafetyInv, TypeOK
  <2>2. \A pruned \in Prunes(p, neighbors[p]) : pruned \subseteq neighbors[p]
    BY <2>1, PrunesBounded
  <2> QED BY <2>2 DEF Cleanup, SafetyInv, TypeOK
<1>7. ListsInGraph' BY <1>2, <1>3, <1>6 DEF ListsInGraph
<1> QED BY <1>1, <1>3, <1>5, <1>7

LEMMA StutterAlone == AloneInv /\ UNCHANGED vars => AloneInv'
BY StutterSafety DEF vars, locals, AloneInv, InGraph, Working, ListsInGraph, CopyFresh, SearchClosed

LEMMA NextAlone == OneThread /\ AloneInv /\ [Next]_vars => AloneInv'
BY TakeAlone, ExpandAlone, CommitAlone, AddReverseAlone, PruneReverseAlone, LinkedAlone,
   CleanupAlone, StutterAlone
   DEF Next, Step

LEMMA PointsCount == Cardinality(Points) = NumPoints /\ NumPoints \in Nat
<1>1. NumPoints \in Nat \ {0} /\ 0 \in Int /\ NumPoints - 1 \in Int BY SizesAssumption
<1>2. Cardinality(0 .. NumPoints - 1) = IF 0 > NumPoints - 1 THEN 0 ELSE NumPoints - 1 - 0 + 1
  BY <1>1, FS_Interval
<1> QED BY <1>1, <1>2 DEF Points

\* A queue that keeps everything has expanded everything when it is done.
LEMMA ExpandedAll ==
  ASSUME QueueKeepsAll, AloneInv, NEW t \in Threads, pc[t] = "search", Unexpanded(t) = {}
  PROVE  expanded[t] = offered[t]
<1>1. offered[t] \in SUBSET Points /\ IsFiniteSet(Points) /\ Cardinality(Points) = NumPoints
  BY PointsFinite, PointsCount DEF AloneInv, SafetyInv, TypeOK
<1>2. ASSUME NEW a \in offered[t] PROVE a \in Kept(point[t], offered[t])
  <2> DEFINE nearer == {b \in offered[t] : Closer(point[t], b, a)}
  <2>1. point[t] \in Points /\ a \in Points BY <1>1 DEF AloneInv, SafetyInv, TypeOK
  <2>2. a \notin nearer BY <2>1, SizesAssumption DEF Closer, Points
  <2>3. nearer \in SUBSET Points /\ nearer # Points BY <1>1, <2>1, <2>2
  <2>4. Cardinality(nearer) < Cardinality(Points) /\ Cardinality(nearer) \in Nat /\ Cardinality(Points) \in Nat
    <3> HIDE DEF nearer
    <3> QED BY <1>1, <2>3, FewerMembers, PointsFinite
  <2>5. Cardinality(nearer) < Lbuild
    <3> HIDE DEF nearer
    <3> QED BY <1>1, <2>4, SizesAssumption DEF QueueKeepsAll
  <2> QED BY <2>5 DEF Kept
<1>3. expanded[t] \subseteq offered[t] BY DEF AloneInv, SearchClosed
<1> QED BY <1>2, <1>3 DEF Unexpanded

LEMMA StepLosesNoEdge ==
  ASSUME OneThread, QueueKeepsAll, AloneInv, NEW t \in Threads
  PROVE  /\ Commit(t) => neighbors[point[t]] \subseteq expanded[t]
         /\ PruneReverse(t) => neighbors[target[t]] \subseteq candidates[t]
<1>1. ASSUME Commit(t) PROVE neighbors[point[t]] \subseteq expanded[t]
  <2>1. pc[t] = "search" /\ Unexpanded(t) = {} BY <1>1 DEF Commit
  <2>2. expanded[t] = offered[t] BY <2>1, ExpandedAll
  <2>3. point[t] \in Points BY DEF AloneInv, SafetyInv, TypeOK
  <2>4. CASE point[t] = EntryPoint
    BY <2>1, <2>2, <2>4 DEF AloneInv, SearchClosed
  <2>5. CASE point[t] # EntryPoint
    <3>1. point[t] \notin InGraph BY <2>1, <2>5 DEF InGraph
    <3> QED BY <2>3, <3>1 DEF AloneInv, ListsInGraph
  <2> QED BY <2>4, <2>5
<1>2. ASSUME PruneReverse(t) PROVE neighbors[target[t]] \subseteq candidates[t]
  BY <1>2 DEF PruneReverse, AloneInv, CopyFresh
<1> QED BY <1>1, <1>2

LEMMA AloneInvariant == OneThread => (Spec => []AloneInv)
<1> SUFFICES ASSUME OneThread PROVE Spec => []AloneInv
  OBVIOUS
<1>1. AloneInv /\ [Next]_vars => AloneInv' BY NextAlone
<1> QED BY InitAlone, <1>1, PTL DEF Spec

\* Built by one thread with a queue that keeps everything, a graph loses no edge
\* that a prune did not weigh.
THEOREM LosesNoEdge == OneThread /\ QueueKeepsAll => (Spec => NoLostEdge)
<1> SUFFICES ASSUME OneThread, QueueKeepsAll PROVE Spec => NoLostEdge
  OBVIOUS
<1> DEFINE A == \A t \in Threads :
                  /\ Commit(t) => neighbors[point[t]] \subseteq expanded[t]
                  /\ PruneReverse(t) => neighbors[target[t]] \subseteq candidates[t]
<1>1. AloneInv => A BY StepLosesNoEdge
<1>2. Spec => []AloneInv BY AloneInvariant
<1>3. AloneInv /\ [Next]_vars => [A]_vars BY <1>1
<1> QED BY <1>2, <1>3, PTL DEF Spec, NoLostEdge
-----------------------------------------------------------------------------
\* std::sort: a candidate at an earlier place is as near, and the places are no
\* more than the candidates.
LEMMA OrderByDistance ==
  ASSUME NEW p \in Points, NEW C \in SUBSET Points, NEW o \in Orders(p, C)
  PROVE  /\ \A a, b \in C : o[a] < o[b] => Dist[<<p, a>>] <= Dist[<<p, b>>]
         /\ \A a \in C : o[a] <= Cardinality(C)
<1> DEFINE Nearer(a) == {b \in C : Dist[<<p, b>>] < Dist[<<p, a>>]}
           Tied(a) == {b \in C : Dist[<<p, b>>] = Dist[<<p, a>>]}
           n(a) == Cardinality(Nearer(a))
           m(a) == Cardinality(Tied(a))
           ranks == UNION {1 .. Cardinality(Tied(a)) : a \in C}
<1>1. PICK r \in [C -> ranks] : o = [a \in C |-> Cardinality(Nearer(a)) + r[a]]
  BY DEF Orders
<1>2. \A a \in C : n(a) \in Nat /\ m(a) \in Nat /\ IsFiniteSet(Nearer(a)) /\ IsFiniteSet(Tied(a))
  BY PointsFinite
<1>3. \A a \in C : n(a) < o[a] /\ o[a] <= n(a) + m(a) /\ o[a] \in Nat
  <2> SUFFICES ASSUME NEW a \in C PROVE n(a) < o[a] /\ o[a] <= n(a) + m(a) /\ o[a] \in Nat
    OBVIOUS
  <2>1. o[a] <= n(a) + m(a) BY DEF Orders
  <2>2. o[a] = n(a) + r[a] BY <1>1
  <2>3. PICK b \in C : r[a] \in 1 .. m(b) OBVIOUS
  <2>4. m(b) \in Nat /\ n(a) \in Nat /\ m(a) \in Nat BY <1>2
  <2> HIDE DEF n, m
  <2> QED BY <2>1, <2>2, <2>3, <2>4
<1>4. \A a \in C : Cardinality(Nearer(a) \union Tied(a)) = n(a) + m(a)
  <2> SUFFICES ASSUME NEW a \in C PROVE Cardinality(Nearer(a) \union Tied(a)) = n(a) + m(a)
    OBVIOUS
  <2>1. Nearer(a) \cap Tied(a) = {}
    <3>1. \A b \in C : Dist[<<p, b>>] \in Nat BY SizesAssumption
    <3> QED BY <3>1
  <2>2. IsFiniteSet(Nearer(a)) /\ IsFiniteSet(Tied(a)) BY <1>2
  <2>3. n(a) \in Nat /\ m(a) \in Nat BY <1>2
  <2>4. Cardinality(Nearer(a) \union Tied(a)) = n(a) + m(a) - Cardinality(Nearer(a) \cap Tied(a))
    <3> HIDE DEF Nearer, Tied
    <3> QED BY <2>2, FS_Union
  <2>5. Cardinality(Nearer(a) \cap Tied(a)) = 0 BY <2>1, FS_EmptySet
  <2> HIDE DEF Nearer, Tied, n, m
  <2> QED BY <2>3, <2>4, <2>5
<1>5. ASSUME NEW a \in C, NEW b \in C, o[a] < o[b] PROVE Dist[<<p, a>>] <= Dist[<<p, b>>]
  <2>1. Dist[<<p, a>>] \in Nat /\ Dist[<<p, b>>] \in Nat BY SizesAssumption
  <2> SUFFICES ASSUME Dist[<<p, b>>] < Dist[<<p, a>>] PROVE FALSE
    BY <2>1
  <2>2. Nearer(b) \union Tied(b) \subseteq Nearer(a)
    <3>1. \A c \in C : Dist[<<p, c>>] \in Nat BY SizesAssumption
    <3> QED BY <2>1, <3>1
  <2>3. n(b) + m(b) <= n(a)
    <3>1. IsFiniteSet(Nearer(a)) /\ Cardinality(Nearer(b) \union Tied(b)) = n(b) + m(b)
      BY <1>2, <1>4
    <3> HIDE DEF Nearer, Tied
    <3> QED BY <2>2, <3>1, FS_Subset DEF n
  <2>4. o[b] <= n(b) + m(b) /\ n(a) < o[a] /\ o[a] \in Nat /\ o[b] \in Nat /\ n(a) \in Nat
        /\ n(b) \in Nat /\ m(b) \in Nat
    BY <1>2, <1>3
  <2> HIDE DEF n, m
  <2> QED BY <1>5, <2>3, <2>4
<1>6. ASSUME NEW a \in C PROVE o[a] <= Cardinality(C)
  <2>1. Nearer(a) \union Tied(a) \subseteq C OBVIOUS
  <2>2. n(a) + m(a) <= Cardinality(C) /\ Cardinality(C) \in Nat
    <3>1. IsFiniteSet(C) /\ Cardinality(C) \in Nat BY PointsFinite
    <3>2. Cardinality(Nearer(a) \union Tied(a)) = n(a) + m(a) BY <1>4
    <3> HIDE DEF Nearer, Tied
    <3> QED BY <2>1, <3>1, <3>2, FS_Subset
  <2>3. o[a] <= n(a) + m(a) /\ o[a] \in Nat /\ n(a) \in Nat /\ m(a) \in Nat BY <1>2, <1>3
  <2> HIDE DEF n, m
  <2> QED BY <2>2, <2>3
<1> QED BY <1>5, <1>6

\* What hides b from p in the first pass is nearer to b than p is.
LEMMA HidesNearer ==
  ASSUME GoodData, NEW p \in Points, NEW a \in Points, NEW b \in Points, a # b, Occludes(p, a, b, 1)
  PROVE  Dist[<<a, b>>] < Dist[<<p, b>>]
<1> DEFINE x == Dist[<<a, b>>]
           y == Dist[<<p, b>>]
           num == Alphas[1][1]
           den == Alphas[1][2]
<1>1. x \in Nat /\ y \in Nat BY SizesAssumption
<1>2. num \in Nat /\ den \in Nat \ {0} /\ den <= num BY DEF GoodData, PlainFirstPass
<1>3. x # 0 BY DEF GoodData, AllDiffer
<1>4. y * den > num * x BY <1>3 DEF Occludes
<1> HIDE DEF x, y, num, den
<1>5. SUFFICES ASSUME y <= x PROVE FALSE
  BY <1>1 DEF x, y
<1>6. y * den <= x * den BY <1>1, <1>2, <1>5
<1>7. x * den <= x * num BY <1>1, <1>2
<1>8. y * den \in Nat /\ x * den \in Nat /\ x * num \in Nat /\ num * x = x * num BY <1>1, <1>2
<1> QED BY <1>4, <1>6, <1>7, <1>8

\* A candidate that a prune drops is hidden by one it keeps, nearer to p and
\* nearer to it: none is dropped for want of room.
LEMMA DroppedIsHidden ==
  ASSUME GoodData, NEW p \in Points, NEW C \in SUBSET Points, p \notin C,
         NEW pruned \in Prunes(p, C), NEW b \in C, b \notin pruned
  PROVE  \E a \in pruned : Dist[<<p, a>>] <= Dist[<<p, b>>] /\ Dist[<<a, b>>] < Dist[<<p, b>>]
<1>1. PICK o \in Orders(p, C) :
        pruned \in LET S == {a \in C : o[a] <= MaxCandidates}
                  IN {{a \in S \ {p} : chosenIn[a] # 0} : chosenIn \in Choices(p, S, o)}
  BY DEF Prunes
<1>2. {a \in C : o[a] <= MaxCandidates} = C
  <2>1. Cardinality(C) <= NumPoints - 1 /\ Cardinality(C) \in Nat
    <3>1. C # Points /\ IsFiniteSet(Points) /\ Cardinality(C) \in Nat BY PointsFinite
    <3>2. Cardinality(C) < Cardinality(Points) BY <3>1, FewerMembers
    <3>3. Cardinality(Points) = NumPoints /\ NumPoints \in Nat BY PointsCount
    <3> QED BY <3>1, <3>2, <3>3
  <2>2. \A a \in C : o[a] <= Cardinality(C) /\ o[a] \in Nat BY OrderByDistance, OrderPlaces
  <2>3. NumPoints - 1 <= MaxCandidates BY DEF GoodData, AllWeighed
  <2>4. NumPoints \in Nat /\ MaxCandidates \in Nat BY SizesAssumption
  <2> QED BY <2>1, <2>2, <2>3, <2>4
<1>3. PICK chosenIn \in Choices(p, C, o) : pruned = {a \in C \ {p} : chosenIn[a] # 0}
  BY <1>1, <1>2
<1>4. IsChoice(p, C, o, chosenIn) BY <1>3 DEF Choices
<1>5. 1 \in DOMAIN Alphas BY SizesAssumption
<1> DEFINE before(x) == {y \in C : chosenIn[y] = 1 /\ o[y] < o[x]}
<1>6. ASSUME NEW x \in C
      PROVE  chosenIn[x] = 1 <=> /\ \A y \in before(x) : ~Occludes(p, y, x, 1)
                                 /\ ~Full(p, before(x))
  <2>1. chosenIn[x] = 1 <=>
          LET earlier == TakenBefore(C, o, chosenIn, 1, x)
          IN /\ chosenIn[x] \notin 1 .. 1 - 1
             /\ \A y \in earlier : o[y] < o[x] => ~Occludes(p, y, x, 1)
             /\ ~Full(p, earlier)
    BY <1>4, <1>5 DEF IsChoice
  <2>2. 1 .. 1 - 1 = {} OBVIOUS
  <2>3. TakenBefore(C, o, chosenIn, 1, x) = before(x) BY <2>2 DEF TakenBefore
  <2> HIDE DEF before
  <2>4. \A y \in before(x) : o[y] < o[x] BY DEF before
  <2> QED BY <2>1, <2>2, <2>3, <2>4
<1>7. chosenIn[b] # 1 BY <1>3
<1>8. ~Full(p, before(b)) \/ \E a \in before(b) : Occludes(p, a, b, 1)
  <2> SUFFICES ASSUME Full(p, before(b)), \A a \in before(b) : ~Occludes(p, a, b, 1) PROVE FALSE
    OBVIOUS
  <2> DEFINE Q == before(b) \union {b}
  <2>1. ASSUME NEW x \in Q, NEW y \in Q, o[x] < o[y] PROVE ~Occludes(p, x, y, 1)
    <3>1. \A u \in C : o[u] \in Nat BY OrderPlaces
    <3>2. x # b BY <2>1, <3>1
    <3>3. x \in C /\ chosenIn[x] = 1 /\ x \in before(y) BY <2>1, <3>2
    <3>4. CASE y = b BY <3>2, <3>4
    <3>5. CASE y # b
      <4>1. y \in C /\ chosenIn[y] = 1 BY <3>5
      <4> HIDE DEF before, Q
      <4> QED BY <1>6, <3>3, <4>1
    <3> QED BY <3>4, <3>5
  <2>2. ASSUME NEW x \in Q, NEW y \in Q, x # y, Dist[<<p, x>>] <= Dist[<<p, y>>]
        PROVE  ~Occludes(p, x, y, 1)
    <3>1. x \in C /\ y \in C /\ o[x] \in Nat /\ o[y] \in Nat /\ o[x] # o[y] BY <2>2, OrderPlaces
    <3>2. CASE o[x] < o[y] BY <2>1, <3>2
    <3>3. CASE o[y] < o[x]
      <4>1. ~Occludes(p, y, x, 1) BY <2>1, <3>3
      <4>2. Dist[<<p, y>>] <= Dist[<<p, x>>] BY <3>1, <3>3, OrderByDistance
      <4>3. Dist[<<p, x>>] \in Nat /\ Dist[<<p, y>>] \in Nat BY <3>1, SizesAssumption
      <4>4. Dist[<<p, y>>] = Dist[<<p, x>>] BY <2>2, <4>2, <4>3
      <4>5. Dist[<<x, y>>] = Dist[<<y, x>>] BY <3>1 DEF GoodData, AllDiffer
      <4> QED BY <4>1, <4>4, <4>5 DEF Occludes
    <3> HIDE DEF Q
    <3> QED BY <3>1, <3>2, <3>3
  <2>3. Q \in SUBSET (Points \ {p}) /\ before(b) \in SUBSET Points /\ b \notin before(b)
    <3>1. o[b] \in Nat BY OrderPlaces
    <3> QED BY <3>1
  <2>4. Cardinality(Q) <= MaxDegree
    <3> HIDE DEF Q
    <3> QED BY <2>2, <2>3 DEF GoodData, FewInSight
  <2>5. Cardinality(Q) = Cardinality(before(b)) + 1 /\ Cardinality(before(b)) \in Nat
    <3> HIDE DEF before
    <3> QED BY <2>3, PointsFinite, FS_AddElement
  <2>6. Cardinality(before(b)) >= MaxDegree
    <3>1. before(b) \ {p} = before(b) OBVIOUS
    <3> HIDE DEF before
    <3> QED BY <3>1 DEF Full
  <2> HIDE DEF Q, before
  <2> QED BY <2>4, <2>5, <2>6, SizesAssumption
<1>9. PICK a \in before(b) : Occludes(p, a, b, 1)
  <2> HIDE DEF before
  <2> QED BY <1>6, <1>7, <1>8
<1>10. a \in pruned /\ a # b /\ a \in C BY <1>3, <1>7
<1>11. Dist[<<p, a>>] <= Dist[<<p, b>>] BY <1>10, OrderByDistance
<1>12. Dist[<<a, b>>] < Dist[<<p, b>>] BY <1>9, <1>10, HidesNearer
<1> QED BY <1>10, <1>11, <1>12
-----------------------------------------------------------------------------
\* Every point of a graph is reached from every other by edges no longer than
\* the two are apart: any set that holds one and is closed under such edges
\* holds the other.
ClosedWithin(S, edges, r) == \A u \in S : \A v \in edges[u] : Dist[<<u, v>>] <= r => v \in S

Reaches(edges, x, y) ==
  \A S \in SUBSET Points : x \in S /\ ClosedWithin(S, edges, Dist[<<x, y>>]) => y \in S

AllReach(edges, P) == \A x, y \in P : Reaches(edges, x, y)

\* Pruning one list keeps that: what it drops is still reached, by what is kept
\* and edges that are shorter.
LEMMA PrunedStillReach ==
  ASSUME GoodData, NEW edges \in [Points -> SUBSET Points], NEW P \in SUBSET Points,
         AllReach(edges, P), NEW p \in Points, NEW C \in SUBSET P, edges[p] \subseteq C, p \notin C,
         NEW pruned \in Prunes(p, C)
  PROVE  AllReach([edges EXCEPT ![p] = pruned], P)
<1> DEFINE new == [edges EXCEPT ![p] = pruned]
<1>1. \A u \in Points : new[u] = IF u = p THEN pruned ELSE edges[u] OBVIOUS
<1>2. C \in SUBSET Points OBVIOUS
<1>3. pruned \subseteq C BY <1>2, PrunesBounded
<1> HIDE DEF new
<1> SUFFICES ASSUME NEW x \in P, NEW y \in P, NEW S \in SUBSET Points, x \in S,
                    ClosedWithin(S, new, Dist[<<x, y>>])
             PROVE  y \in S
  BY DEF AllReach, Reaches, new
<1> DEFINE r == Dist[<<x, y>>]
<1>4. \A u, v \in Points : Dist[<<u, v>>] \in Nat BY SizesAssumption
<1>5. ASSUME p \in S PROVE \A b \in C : Dist[<<p, b>>] <= r => b \in S
  <2> DEFINE bad == {b \in C : Dist[<<p, b>>] <= r /\ b \notin S}
             far == [b \in bad |-> Dist[<<p, b>>]]
  <2> SUFFICES ASSUME bad # {} PROVE FALSE
    OBVIOUS
  <2>1. PICK b \in bad : \A c \in bad : Dist[<<p, b>>] <= Dist[<<p, c>>]
    <3>1. \A c \in bad : far[c] \in Nat BY <1>4
    <3>2. \A c \in bad : far[c] = Dist[<<p, c>>] OBVIOUS
    <3>3. \E b \in bad : \A c \in bad : far[b] <= far[c]
      <4> HIDE DEF far, bad
      <4> QED BY <3>1, LeastValue
    <3> HIDE DEF far, bad
    <3> QED BY <3>2, <3>3
  <2>2. b \in C /\ Dist[<<p, b>>] <= r /\ b \notin S BY <2>1
  <2>3. \A c \in C : Dist[<<p, c>>] < Dist[<<p, b>>] => c \in S
    <3> SUFFICES ASSUME NEW c \in C, Dist[<<p, c>>] < Dist[<<p, b>>], c \notin S PROVE FALSE
      OBVIOUS
    <3>1. Dist[<<p, c>>] \in Nat /\ Dist[<<p, b>>] \in Nat /\ r \in Nat BY <1>2, <1>4, <2>2
    <3>2. Dist[<<p, c>>] <= r BY <2>2, <3>1
    <3>3. Dist[<<p, b>>] <= Dist[<<p, c>>] BY <2>1, <3>2
    <3> QED BY <3>1, <3>3
  <2> HIDE DEF bad, far
  <2>4. b \notin pruned BY <1>1, <1>5, <2>2 DEF ClosedWithin
  <2>5. PICK a \in pruned : Dist[<<p, a>>] <= Dist[<<p, b>>] /\ Dist[<<a, b>>] < Dist[<<p, b>>]
    BY <1>2, <2>2, <2>4, DroppedIsHidden
  <2>6. a \in S
    <3>1. Dist[<<p, a>>] \in Nat /\ Dist[<<p, b>>] \in Nat /\ r \in Nat BY <1>2, <1>3, <1>4, <2>2
    <3>2. Dist[<<p, a>>] <= r BY <2>2, <2>5, <3>1
    <3> QED BY <1>1, <1>5, <3>2 DEF ClosedWithin
  <2>7. ClosedWithin(S, edges, Dist[<<a, b>>])
    <3> SUFFICES ASSUME NEW u \in S, NEW v \in edges[u], Dist[<<u, v>>] <= Dist[<<a, b>>]
                 PROVE  v \in S
      BY DEF ClosedWithin
    <3>1. /\ Dist[<<u, v>>] \in Nat /\ Dist[<<a, b>>] \in Nat /\ Dist[<<p, b>>] \in Nat /\ r \in Nat
      BY <1>2, <1>3, <1>4, <2>2
    <3>2. Dist[<<u, v>>] < Dist[<<p, b>>] /\ Dist[<<u, v>>] <= r BY <2>2, <2>5, <3>1
    <3>3. CASE u = p BY <2>3, <3>2, <3>3
    <3>4. CASE u # p BY <1>1, <3>2, <3>4 DEF ClosedWithin
    <3> QED BY <3>3, <3>4
  <2>8. a \in P /\ b \in P BY <1>3, <2>2
  <2>9. Reaches(edges, a, b) BY <2>8 DEF AllReach
  <2> QED BY <2>2, <2>6, <2>7, <2>9 DEF Reaches
<1>6. ClosedWithin(S, edges, r)
  <2> SUFFICES ASSUME NEW u \in S, NEW v \in edges[u], Dist[<<u, v>>] <= r
               PROVE  v \in S
    BY DEF ClosedWithin
  <2>1. CASE u = p BY <1>5, <2>1
  <2>2. CASE u # p BY <1>1, <2>2 DEF ClosedWithin
  <2> QED BY <2>1, <2>2
<1>7. Reaches(edges, x, y) BY DEF AllReach
<1> QED BY <1>6, <1>7 DEF Reaches

\* More edges reach no less.
LEMMA MoreReach ==
  ASSUME NEW edges, NEW more, \A u \in Points : edges[u] \subseteq more[u],
         NEW P, AllReach(edges, P)
  PROVE  AllReach(more, P)
<1> SUFFICES ASSUME NEW x \in P, NEW y \in P, NEW S \in SUBSET Points, x \in S,
                    ClosedWithin(S, more, Dist[<<x, y>>])
             PROVE  y \in S
  BY DEF AllReach, Reaches
<1>1. ClosedWithin(S, edges, Dist[<<x, y>>]) BY DEF ClosedWithin
<1>2. Reaches(edges, x, y) BY DEF AllReach
<1> QED BY <1>1, <1>2 DEF Reaches

\* A new point, with what a prune keeps of all the others and the edges back.
LEMMA NewPointReaches ==
  ASSUME GoodData, NEW edges \in [Points -> SUBSET Points], NEW P \in SUBSET Points,
         AllReach(edges, P), NEW p \in Points, p \notin P,
         NEW pruned \in Prunes(p, P), NEW new \in [Points -> SUBSET Points],
         \A u \in Points : edges[u] \subseteq new[u],
         pruned \subseteq new[p], \A a \in pruned : p \in new[a]
  PROVE  AllReach(new, P \union {p})
<1>1. pruned \subseteq P BY PrunesBounded
<1>2. \A u, v \in Points : Dist[<<u, v>>] \in Nat /\ Dist[<<u, v>>] = Dist[<<v, u>>]
  BY SizesAssumption DEF GoodData, AllDiffer
<1>3. \A u \in Points : new[u] \subseteq Points OBVIOUS
<1>4. AllReach(new, P) BY MoreReach
<1>5. ASSUME NEW y \in P PROVE y \in pruned \/ \E a \in pruned :
             Dist[<<p, a>>] <= Dist[<<p, y>>] /\ Dist[<<a, y>>] < Dist[<<p, y>>]
  BY DroppedIsHidden
<1>6. ASSUME NEW y \in P PROVE Reaches(new, p, y)
  <2> SUFFICES ASSUME NEW S \in SUBSET Points, p \in S, ClosedWithin(S, new, Dist[<<p, y>>])
               PROVE  y \in S
    BY DEF Reaches
  <2>1. CASE y \in pruned
    <3>1. Dist[<<p, y>>] <= Dist[<<p, y>>]
      <4>1. Dist[<<p, y>>] \in Nat BY SizesAssumption
      <4> QED BY <4>1
    <3>2. p \in S /\ y \in new[p] BY <2>1
    <3> QED BY <3>1, <3>2 DEF ClosedWithin
  <2>2. CASE \E a \in pruned : Dist[<<p, a>>] <= Dist[<<p, y>>] /\ Dist[<<a, y>>] < Dist[<<p, y>>]
    <3>1. PICK a \in pruned : Dist[<<p, a>>] <= Dist[<<p, y>>] /\ Dist[<<a, y>>] < Dist[<<p, y>>]
      BY <2>2
    <3>2. a \in S BY <3>1 DEF ClosedWithin
    <3>3. ClosedWithin(S, new, Dist[<<a, y>>])
      <4> SUFFICES ASSUME NEW u \in S, NEW v \in new[u], Dist[<<u, v>>] <= Dist[<<a, y>>]
                   PROVE  v \in S
        BY DEF ClosedWithin
      <4>1. v \in Points BY <1>3
      <4>2. Dist[<<u, v>>] \in Nat /\ Dist[<<a, y>>] \in Nat /\ Dist[<<p, y>>] \in Nat BY <1>1, <1>2, <4>1
      <4>3. Dist[<<u, v>>] <= Dist[<<p, y>>] BY <3>1, <4>2
      <4> QED BY <4>3 DEF ClosedWithin
    <3>4. Reaches(new, a, y) BY <1>1, <1>4 DEF AllReach
    <3> QED BY <3>2, <3>3, <3>4 DEF Reaches
  <2> QED BY <1>5, <2>1, <2>2
<1>7. ASSUME NEW x \in P PROVE Reaches(new, x, p)
  <2> SUFFICES ASSUME NEW S \in SUBSET Points, x \in S, ClosedWithin(S, new, Dist[<<x, p>>])
               PROVE  p \in S
    BY DEF Reaches
  <2>1. CASE x \in pruned
    <3>1. p \in new[x] BY <2>1
    <3>2. Dist[<<x, p>>] <= Dist[<<x, p>>]
      <4>1. Dist[<<x, p>>] \in Nat BY SizesAssumption
      <4> QED BY <4>1
    <3> QED BY <3>1, <3>2 DEF ClosedWithin
  <2>2. CASE \E a \in pruned : Dist[<<p, a>>] <= Dist[<<p, x>>] /\ Dist[<<a, x>>] < Dist[<<p, x>>]
    <3>1. PICK a \in pruned : Dist[<<p, a>>] <= Dist[<<p, x>>] /\ Dist[<<a, x>>] < Dist[<<p, x>>]
      BY <2>2
    <3>2. a \in Points /\ Dist[<<a, p>>] <= Dist[<<x, p>>] /\ Dist[<<x, a>>] < Dist[<<x, p>>]
      BY <1>1, <1>2, <3>1
    <3>3. ClosedWithin(S, new, Dist[<<x, a>>])
      <4> SUFFICES ASSUME NEW u \in S, NEW v \in new[u], Dist[<<u, v>>] <= Dist[<<x, a>>]
                   PROVE  v \in S
        BY DEF ClosedWithin
      <4>1. v \in Points BY <1>3
      <4>2. Dist[<<u, v>>] \in Nat /\ Dist[<<x, a>>] \in Nat /\ Dist[<<x, p>>] \in Nat BY <1>2, <3>2, <4>1
      <4>3. Dist[<<u, v>>] <= Dist[<<x, p>>] BY <3>2, <4>2
      <4> QED BY <4>3 DEF ClosedWithin
    <3>4. Reaches(new, x, a) BY <1>1, <1>4 DEF AllReach
    <3>5. a \in S BY <3>2, <3>3, <3>4 DEF Reaches
    <3>6. p \in new[a] BY <1>1
    <3> QED BY <3>2, <3>5, <3>6 DEF ClosedWithin
  <2> QED BY <1>5, <2>1, <2>2
<1>8. Reaches(new, p, p) BY DEF Reaches
<1> QED BY <1>4, <1>6, <1>7, <1>8 DEF AllReach
-----------------------------------------------------------------------------
\* The edges of the graph and those that inter_insert is about to add: the
\* reverse edges still to be added, and the one a full list is pruned for.
Pending(u) ==
  {point[t] : t \in {s \in Threads : u \in todo[s] \/ (pc[s] = "prune" /\ u = target[s])}}

Links == [u \in Points |-> neighbors[u] \union Pending(u)]

\* With them, all that is in the graph reaches all.
ReachInv == AllReach(Links, InGraph)

LEMMA LinksType == AloneInv => /\ Links \in [Points -> SUBSET Points] /\ InGraph \in SUBSET Points
                               /\ EntryPoint \in InGraph
<1> SUFFICES ASSUME AloneInv PROVE /\ Links \in [Points -> SUBSET Points] /\ InGraph \in SUBSET Points
                                   /\ EntryPoint \in InGraph
  OBVIOUS
<1>1. TypeOK BY DEF AloneInv, SafetyInv
<1>2. \A u \in Points : neighbors[u] \union Pending(u) \in SUBSET Points BY <1>1 DEF TypeOK, Pending
<1>3. InGraph \in SUBSET Points /\ EntryPoint \in InGraph
  BY <1>1, TakenArePoints, SizesAssumption DEF InGraph
<1> QED BY <1>2, <1>3 DEF Links

LEMMA InitReach == Init => ReachInv
<1> SUFFICES ASSUME Init PROVE ReachInv
  OBVIOUS
<1>1. InGraph = {EntryPoint} BY DEF Init, InGraph
<1> QED BY <1>1 DEF ReachInv, AllReach, Reaches

\* Steps that write no list and start or end no reverse edge.
LEMMA KeepReach ==
  ASSUME ReachInv, InGraph' = InGraph, \A u \in Points : neighbors'[u] \union Pending(u)' = neighbors[u] \union Pending(u)
  PROVE  ReachInv'
<1>1. Links' = Links BY DEF Links
<1> QED BY <1>1 DEF ReachInv, AllReach, Reaches, ClosedWithin

LEMMA TakeReach ==
  ASSUME OneThread, AloneInv, ReachInv, NEW t \in Threads, Take(t)
  PROVE  ReachInv'
<1>1. InGraph' = InGraph BY TakeAlone
<1>2. \A u \in Threads : u = t BY DEF OneThread
<1>3. /\ neighbors' = neighbors /\ todo[t] = {} /\ todo' = todo
      /\ pc[t] = "idle" /\ pc'[t] = "search"
  BY DEF Take, AloneInv, SafetyInv, TypeOK, NoLoops
<1>4. \A u \in Points : Pending(u) = {} /\ Pending(u)' = {} BY <1>2, <1>3 DEF Pending
<1> QED BY <1>1, <1>3, <1>4, KeepReach

LEMMA ExpandReach ==
  ASSUME OneThread, AloneInv, ReachInv, NEW t \in Threads, ExpandClosest(t)
  PROVE  ReachInv'
<1>1. InGraph' = InGraph BY ExpandAlone
<1>2. UNCHANGED <<neighbors, pc, point, todo, target>> BY DEF ExpandClosest
<1>3. \A u \in Points : Pending(u)' = Pending(u) BY <1>2 DEF Pending
<1> QED BY <1>1, <1>2, <1>3, KeepReach

LEMMA LinkedReach ==
  ASSUME OneThread, AloneInv, ReachInv, NEW t \in Threads, Linked(t)
  PROVE  ReachInv'
<1>1. InGraph' = InGraph BY LinkedAlone
<1>2. \A u \in Threads : u = t BY DEF OneThread
<1>3. /\ neighbors' = neighbors /\ todo[t] = {} /\ todo' = todo
      /\ pc[t] = "reverse" /\ pc'[t] = "idle"
  BY DEF Linked, AloneInv, SafetyInv, TypeOK
<1>4. \A u \in Points : Pending(u) = {} /\ Pending(u)' = {} BY <1>2, <1>3 DEF Pending
<1> QED BY <1>1, <1>3, <1>4, KeepReach

LEMMA AddReverseReach ==
  ASSUME OneThread, AloneInv, ReachInv, NEW t \in Threads, NEW dst \in Points, AddReverse(t, dst)
  PROVE  ReachInv'
<1>1. InGraph' = InGraph BY AddReverseAlone
<1>2. \A u \in Threads : u = t BY DEF OneThread
<1>3. /\ pc[t] = "reverse" /\ dst \in todo[t] /\ todo'[t] = todo[t] \ {dst} /\ point' = point
  BY DEF AddReverse, AloneInv, SafetyInv, TypeOK
<1>4. \A u \in Points : Pending(u) = IF u \in todo[t] THEN {point[t]} ELSE {}
  BY <1>2, <1>3 DEF Pending
<1>5. \A u \in Points : neighbors'[u] \union Pending(u)' = neighbors[u] \union Pending(u)
  <2>1. CASE point[t] \in neighbors[dst] /\ UNCHANGED <<neighbors, pc, target>>
    <3>1. \A u \in Points : Pending(u)' = IF u \in todo[t] \ {dst} THEN {point[t]} ELSE {}
      BY <1>2, <1>3, <2>1 DEF Pending
    <3> QED BY <1>4, <2>1, <3>1
  <2>2. CASE neighbors' = [neighbors EXCEPT ![dst] = @ \union {point[t]}] /\ UNCHANGED <<pc, target>>
    <3>1. \A u \in Points : Pending(u)' = IF u \in todo[t] \ {dst} THEN {point[t]} ELSE {}
      BY <1>2, <1>3, <2>2 DEF Pending
    <3>2. \A u \in Points : neighbors'[u] = IF u = dst THEN neighbors[u] \union {point[t]} ELSE neighbors[u]
      BY <2>2 DEF AloneInv, SafetyInv, TypeOK
    <3> QED BY <1>3, <1>4, <3>1, <3>2
  <2>3. CASE neighbors' = neighbors /\ target' = [target EXCEPT ![t] = dst] /\ pc' = [pc EXCEPT ![t] = "prune"]
    <3>1. pc'[t] = "prune" /\ target'[t] = dst BY <2>3 DEF AloneInv, SafetyInv, TypeOK
    <3>2. \A u \in Points : Pending(u)' = IF u \in todo[t] THEN {point[t]} ELSE {}
      BY <1>2, <1>3, <3>1 DEF Pending
    <3> QED BY <1>4, <2>3, <3>2
  <2> QED BY <2>1, <2>2, <2>3 DEF AddReverse
<1> QED BY <1>1, <1>5, KeepReach

\* The list that overflowed: its copy, which is the list and the new edge, is
\* pruned, and all is reached as before.
LEMMA PruneReverseReach ==
  ASSUME OneThread, GoodData, AloneInv, ReachInv, NEW t \in Threads, PruneReverse(t)
  PROVE  ReachInv'
<1>1. InGraph' = InGraph BY PruneReverseAlone
<1>2. \A u \in Threads : u = t BY DEF OneThread
<1>3. PICK pruned \in Prunes(target[t], candidates[t]) :
        neighbors' = [neighbors EXCEPT ![target[t]] = pruned]
  BY DEF PruneReverse
<1>4. /\ pc[t] = "prune" /\ pc'[t] = "reverse" /\ UNCHANGED <<point, todo, target>>
      /\ target[t] \in Points
      /\ \A u \in Points : neighbors'[u] = IF u = target[t] THEN pruned ELSE neighbors[u]
  BY <1>3 DEF PruneReverse, AloneInv, SafetyInv, TypeOK
<1>5. /\ candidates[t] = neighbors[target[t]] \union {point[t]}
      /\ target[t] \in InGraph /\ target[t] \notin candidates[t]
  BY <1>4 DEF AloneInv, SafetyInv, CopyFresh, CopyHasPoint
<1>6. Links[target[t]] = candidates[t]
  <2>1. Pending(target[t]) = {point[t]} BY <1>2, <1>4 DEF Pending
  <2> QED BY <1>4, <1>5, <2>1 DEF Links
<1>7. candidates[t] \in SUBSET InGraph
  <2>1. point[t] \in InGraph BY <1>2, <1>4 DEF AloneInv, Working, InGraph
  <2> QED BY <1>4, <1>5, <2>1 DEF AloneInv, ListsInGraph
<1> DEFINE kept == [Links EXCEPT ![target[t]] = pruned]
<1>8. AllReach(kept, InGraph)
  BY <1>4, <1>5, <1>6, <1>7, LinksType, PrunedStillReach DEF ReachInv
<1>9. \A u \in Points : kept[u] \subseteq Links'[u]
  <2> TAKE u \in Points
  <2>1. Links'[u] = neighbors'[u] \union Pending(u)' BY DEF Links
  <2>2. CASE u = target[t]
    <3>1. kept[u] = pruned BY <2>2, LinksType
    <3> QED BY <1>4, <2>1, <2>2, <3>1
  <2>3. CASE u # target[t]
    <3>1. kept[u] = neighbors[u] \union Pending(u) BY <2>3 DEF Links
    <3>2. Pending(u) \subseteq Pending(u)' BY <1>2, <1>4, <2>3 DEF Pending
    <3> QED BY <1>4, <2>1, <2>3, <3>1, <3>2
  <2> QED BY <2>2, <2>3
<1>10. AllReach(Links', InGraph)
  <2> HIDE DEF kept
  <2> QED BY <1>8, <1>9, MoreReach
<1> QED BY <1>1, <1>10 DEF ReachInv, AllReach, Reaches, ClosedWithin

\* The cleanup prunes a list, when no edge is pending.
LEMMA CleanupReach ==
  ASSUME OneThread, GoodData, AloneInv, ReachInv, NEW p \in Points, Cleanup(p)
  PROVE  ReachInv'
<1>1. InGraph' = InGraph BY CleanupAlone
<1>2. UNCHANGED <<next, pc, point, todo, target>> /\ \A t \in Threads : pc[t] = "idle"
  BY DEF Cleanup, locals, AllLinked
<1>3. \A u \in Points : Pending(u) = {} /\ Pending(u)' = {}
  BY <1>2 DEF Pending, AloneInv, SafetyInv, NoLoops
<1>4. CASE UNCHANGED neighbors BY <1>1, <1>3, <1>4, KeepReach
<1>5. CASE \E pruned \in Prunes(p, neighbors[p]) : neighbors' = [neighbors EXCEPT ![p] = pruned]
  <2>1. PICK pruned \in Prunes(p, neighbors[p]) : neighbors' = [neighbors EXCEPT ![p] = pruned] BY <1>5
  <2>2. /\ neighbors \in [Points -> SUBSET Points] /\ neighbors[p] \in SUBSET InGraph
        /\ p \notin neighbors[p]
    BY DEF AloneInv, SafetyInv, TypeOK, ListsInGraph, NoLoops
  <2>3. Links = neighbors /\ Links' = neighbors' BY <1>3, <2>1, <2>2 DEF Links
  <2>4. AllReach(neighbors', InGraph)
    BY <2>1, <2>2, <2>3, LinksType, PrunedStillReach DEF ReachInv
  <2> QED BY <1>1, <2>3, <2>4 DEF ReachInv, AllReach, Reaches, ClosedWithin
<1> QED BY <1>4, <1>5 DEF Cleanup

\* The search of one thread, whose queue keeps everything, expands the graph.
LEMMA ExpandedGraph ==
  ASSUME OneThread, QueueKeepsAll, AloneInv, ReachInv, NEW t \in Threads, pc[t] = "search",
         Unexpanded(t) = {}
  PROVE  expanded[t] = InGraph
<1>1. expanded[t] = offered[t] BY ExpandedAll
<1>2. /\ EntryPoint \in expanded[t] /\ expanded[t] \subseteq InGraph
      /\ \A c \in expanded[t] : neighbors[c] \subseteq expanded[t]
  BY <1>1 DEF AloneInv, SearchClosed
<1>3. \A u \in Points : Links[u] = neighbors[u]
  <2>1. \A u \in Threads : u = t BY DEF OneThread
  <2>2. todo[t] = {} BY DEF AloneInv, SafetyInv, NoLoops
  <2>3. \A u \in Points : Pending(u) = {} BY <2>1, <2>2 DEF Pending
  <2> QED BY <2>3 DEF Links
<1>4. ASSUME NEW y \in InGraph PROVE y \in expanded[t]
  <2>1. EntryPoint \in InGraph /\ expanded[t] \in SUBSET Points BY <1>2, LinksType
  <2>2. ClosedWithin(expanded[t], Links, Dist[<<EntryPoint, y>>])
    BY <1>2, <1>3, <2>1 DEF ClosedWithin
  <2>3. Reaches(Links, EntryPoint, y) BY <2>1 DEF ReachInv, AllReach
  <2> QED BY <1>2, <2>1, <2>2, <2>3 DEF Reaches
<1> QED BY <1>2, <1>4

\* A point joins the graph, or the entry point's list is overwritten.
LEMMA CommitReach ==
  ASSUME OneThread, QueueKeepsAll, GoodData, AloneInv, ReachInv, NEW t \in Threads, Commit(t)
  PROVE  ReachInv'
<1> DEFINE p == point[t]
           C == InGraph \ {p}
<1>1. InGraph' = InGraph \union {p} BY CommitAlone
<1>2. \A u \in Threads : u = t BY DEF OneThread
<1>3. pc[t] = "search" /\ Unexpanded(t) = {} BY DEF Commit
<1>4. expanded[t] = InGraph BY <1>3, ExpandedGraph
<1>5. PICK pruned \in Prunes(p, C) :
        /\ neighbors' = [neighbors EXCEPT ![p] = pruned]
        /\ todo' = [todo EXCEPT ![t] = pruned]
  BY <1>4 DEF Commit
<1>6. /\ p \in Points /\ todo[t] = {} /\ todo'[t] = pruned /\ pc'[t] = "reverse" /\ point'[t] = p
      /\ \A u \in Points : neighbors'[u] = IF u = p THEN pruned ELSE neighbors[u]
      /\ C \in SUBSET Points /\ C \in SUBSET InGraph /\ p \notin C
  BY <1>3, <1>5, LinksType DEF Commit, AloneInv, SafetyInv, TypeOK, NoLoops
<1> HIDE DEF p
<1>7. pruned \subseteq C BY <1>6, PrunesBounded
<1>8. \A u \in Points : Pending(u) = {} /\ Pending(u)' = IF u \in pruned THEN {p} ELSE {}
  <2>1. \A u \in Points : Pending(u) = {} BY <1>2, <1>3, <1>6 DEF Pending
  <2>2. \A u \in Points : Pending(u)' = IF u \in pruned THEN {p} ELSE {}
    BY <1>2, <1>6 DEF Pending
  <2> QED BY <2>1, <2>2
<1>9. \A u \in Points : /\ Links[u] = neighbors[u]
                        /\ Links'[u] = neighbors'[u] \union IF u \in pruned THEN {p} ELSE {}
  BY <1>8 DEF Links
<1>10. CASE p = EntryPoint
  <2> DEFINE kept == [Links EXCEPT ![p] = pruned]
  <2>1. p \in InGraph /\ InGraph' = InGraph BY <1>1, <1>10, LinksType
  <2>2. Links[p] \subseteq C BY <1>6, <1>9 DEF AloneInv, SafetyInv, NoLoops, ListsInGraph
  <2>3. AllReach(kept, InGraph) BY <1>6, <2>2, LinksType, PrunedStillReach DEF ReachInv
  <2>4. \A u \in Points : kept[u] \subseteq Links'[u] BY <1>6, <1>9, LinksType
  <2>5. AllReach(Links', InGraph)
    <3> HIDE DEF kept
    <3> QED BY <2>3, <2>4, MoreReach
  <2> QED BY <2>1, <2>5 DEF ReachInv, AllReach, Reaches, ClosedWithin
<1>11. CASE p # EntryPoint
  <2>1. p \notin InGraph BY <1>3, <1>11 DEF InGraph, p
  <2>2. C = InGraph BY <2>1
  <2>3. pruned \in Prunes(p, InGraph) BY <1>5, <2>2
  <2>4. Links' \in [Points -> SUBSET Points]
    <3>1. \A u \in Points : neighbors[u] \subseteq Points BY DEF AloneInv, SafetyInv, TypeOK
    <3>2. \A u \in Points : Links'[u] \in SUBSET Points BY <1>6, <1>7, <1>9, <3>1
    <3>3. Links' = [u \in Points |-> Links'[u]] BY DEF Links
    <3> QED BY <3>2, <3>3
  <2>5. \A u \in Points : Links[u] \subseteq Links'[u]
    <3> SUFFICES ASSUME NEW u \in Points PROVE Links[u] \subseteq Links'[u]
      OBVIOUS
    <3>1. CASE u = p BY <1>9, <2>1, <3>1 DEF AloneInv, ListsInGraph
    <3>2. CASE u # p BY <1>6, <1>9, <3>2
    <3> QED BY <3>1, <3>2
  <2>6. pruned \subseteq Links'[p] /\ \A a \in pruned : p \in Links'[a] BY <1>6, <1>7, <1>9
  <2>7. Links \in [Points -> SUBSET Points] /\ InGraph \in SUBSET Points BY LinksType
  <2>8. AllReach(Links, InGraph) BY DEF ReachInv
  <2> HIDE DEF C
  <2>9. AllReach(Links', InGraph \union {p})
    BY <1>6, <2>1, <2>3, <2>4, <2>5, <2>6, <2>7, <2>8, NewPointReaches
  <2> QED BY <1>1, <2>9 DEF ReachInv, AllReach, Reaches, ClosedWithin
<1> QED BY <1>10, <1>11

LEMMA NextReach ==
  OneThread /\ QueueKeepsAll /\ GoodData /\ AloneInv /\ ReachInv /\ [Next]_vars => ReachInv'
<1> SUFFICES ASSUME OneThread, QueueKeepsAll, GoodData, AloneInv, ReachInv, [Next]_vars PROVE ReachInv'
  OBVIOUS
<1>1. CASE Next
  BY <1>1, TakeReach, ExpandReach, CommitReach, AddReverseReach, PruneReverseReach, LinkedReach,
     CleanupReach, KeepReach
     DEF Next, Step, vars, locals, InGraph, Pending
<1>2. CASE UNCHANGED vars
  BY <1>2, KeepReach DEF vars, locals, InGraph, Pending
<1> QED BY <1>1, <1>2
-----------------------------------------------------------------------------
\* What is reached holds the start, and the neighbours of all it holds.
LEMMA ReachCloses ==
  ASSUME TypeOK, NEW S \in SUBSET Points
  PROVE  S \subseteq Reach[S] /\ Reach[S] \in SUBSET Points
         /\ \A u \in Reach[S] : neighbors[u] \subseteq Reach[S]
<1> DEFINE X == SUBSET Points
           more(T) == T \union UNION {neighbors[p] : p \in T}
           IsReach(f) == f = [T \in X |-> IF more(T) = T THEN T ELSE f[more(T)]]
           IsClosed(T, R) == T \subseteq R /\ \A u \in R : neighbors[u] \subseteq R
           V == SUBSET Points
           size == [T \in X |-> IF more(T) = T THEN 0 ELSE Cardinality(Points \ T)]
           base == [T \in X |-> T]
           prev == [T \in X |-> more(T)]
           step == [q \in X \X V |-> q[2]]
<1>1. \A T \in X : more(T) \in X /\ T \subseteq more(T) BY DEF TypeOK
<1> HIDE DEF more
<1>2. ASSUME NEW T \in X, more(T) # T
      PROVE  /\ Cardinality(Points \ T) \in Nat /\ Cardinality(Points \ more(T)) \in Nat
             /\ Cardinality(Points \ more(T)) < Cardinality(Points \ T)
  <2>1. Points \ more(T) \in SUBSET (Points \ T) /\ Points \ more(T) # Points \ T BY <1>1, <1>2
  <2>2. IsFiniteSet(Points \ T) BY PointsFinite
  <2> QED BY <2>1, <2>2, FewerMembers
<1>3. \A T \in X : Cardinality(Points \ T) \in Nat BY PointsFinite
<1>4. \A T \in X : size[T] \in Nat /\ (size[T] = 0 <=> more(T) = T)
  <2> SUFFICES ASSUME NEW T \in X PROVE size[T] \in Nat /\ (size[T] = 0 <=> more(T) = T)
    OBVIOUS
  <2>1. size[T] = IF more(T) = T THEN 0 ELSE Cardinality(Points \ T) OBVIOUS
  <2>2. CASE more(T) = T BY <2>1, <2>2
  <2>3. CASE more(T) # T
    <3>1. size[T] = Cardinality(Points \ T) BY <2>1, <2>3
    <3>2. Cardinality(Points \ T) # 0
      <4>1. PICK m \in Nat, n \in Nat : n = Cardinality(Points \ T) /\ m < n BY <1>2, <2>3
      <4> QED BY <4>1
    <3> HIDE DEF size
    <3> QED BY <1>3, <2>3, <3>1, <3>2
  <2> QED BY <2>2, <2>3
<1>5. \E f \in [X -> V] : IsReach(f)
  <2>1. Descends(X, V, size, base, prev, step)
    <3> SUFFICES ASSUME NEW T \in X
                 PROVE  /\ size[T] \in Nat /\ base[T] \in V
                        /\ size[T] # 0 => /\ prev[T] \in X /\ size[prev[T]] < size[T]
                                          /\ \A v \in V : step[<<T, v>>] \in V
      BY DEF Descends
    <3>1. base[T] = T /\ prev[T] = more(T) /\ more(T) \in X BY <1>1
    <3>2. \A v \in V : step[<<T, v>>] = v OBVIOUS
    <3>3. ASSUME more(T) # T PROVE size[more(T)] < size[T]
      <4>1. size[T] = Cardinality(Points \ T) BY <3>3
      <4>2. size[more(T)] \in {0, Cardinality(Points \ more(T))} BY <1>1
      <4> HIDE DEF size
      <4> QED BY <1>2, <3>3, <4>1, <4>2
    <3> HIDE DEF size, base, prev, step
    <3> QED BY <1>4, <3>1, <3>2, <3>3
  <2>2. Cardinality(Points) \in Nat /\ \A T \in X : size[T] <= Cardinality(Points)
    <3>1. Cardinality(Points) \in Nat BY PointsFinite
    <3>2. \A T \in X : Cardinality(Points \ T) <= Cardinality(Points) BY PointsFinite, FS_Subset
    <3>3. \A T \in X : size[T] = 0 \/ size[T] = Cardinality(Points \ T) OBVIOUS
    <3>4. ASSUME NEW T \in X PROVE size[T] <= Cardinality(Points)
      <4>1. PICK n \in Nat : n = Cardinality(Points) BY <3>1
      <4>2. 0 <= n BY <4>1
      <4>3. size[T] = 0 \/ size[T] = Cardinality(Points \ T) BY <3>3
      <4>4. Cardinality(Points \ T) <= n BY <3>2, <4>1
      <4> HIDE DEF X, size
      <4> QED BY <4>1, <4>2, <4>3, <4>4
    <3> HIDE DEF X, size
    <3> QED BY <3>1, <3>4
  <2>3. PICK f \in [X -> V] : IsRecursive(f, X, size, base, prev, step)
    <3> HIDE DEF X, V, size, base, prev, step
    <3> QED BY <2>1, <2>2, RecursionExists
  <2>4. \A T \in X : f[T] = IF more(T) = T THEN T ELSE f[more(T)]
    <3> SUFFICES ASSUME NEW T \in X PROVE f[T] = IF more(T) = T THEN T ELSE f[more(T)]
      OBVIOUS
    <3>1. f[T] = IF size[T] = 0 THEN base[T] ELSE step[<<T, f[prev[T]]>>]
      <4> HIDE DEF X, size, base, prev, step
      <4> QED BY <2>3 DEF IsRecursive
    <3>2. CASE more(T) = T BY <1>4, <3>1, <3>2
    <3>3. CASE more(T) # T
      <4>1. prev[T] = more(T) /\ more(T) \in X /\ f[more(T)] \in V BY <1>1, <2>3
      <4>2. step[<<T, f[more(T)]>>] = f[more(T)] BY <4>1
      <4>3. size[T] # 0 BY <1>4, <3>3
      <4> HIDE DEF X, V, size, base, prev, step
      <4> QED BY <3>1, <3>3, <4>1, <4>2, <4>3
    <3> QED BY <3>2, <3>3
  <2>5. IsReach(f) BY <2>3, <2>4
  <2> QED BY <2>3, <2>5
<1>6. Reach = CHOOSE f : IsReach(f) BY DEF Reach, more
<1>7. IsReach(Reach)
  <2>1. \E f : IsReach(f) BY <1>5
  <2> HIDE DEF IsReach
  <2> QED BY <1>6, <2>1
<1>8. \A T \in X : Reach[T] = IF more(T) = T THEN T ELSE Reach[more(T)] BY <1>7
<1> DEFINE bad == {T \in X : ~(Reach[T] \in X /\ IsClosed(T, Reach[T]))}
<1>9. bad = {}
  <2> SUFFICES ASSUME bad # {} PROVE FALSE
    OBVIOUS
  <2>1. PICK T \in bad : \A U \in bad : size[T] <= size[U]
    <3>1. \A U \in bad : size[U] \in Nat BY <1>4
    <3> HIDE DEF bad, size
    <3> QED BY <3>1, LeastValue
  <2>2. T \in X /\ ~(Reach[T] \in X /\ IsClosed(T, Reach[T])) BY <2>1
  <2>3. CASE more(T) = T
    <3>1. Reach[T] = T BY <1>8, <2>2, <2>3
    <3>2. IsClosed(T, T) BY <2>3 DEF more
    <3> QED BY <2>2, <3>1, <3>2
  <2>4. CASE more(T) # T
    <3>1. Reach[T] = Reach[more(T)] /\ more(T) \in X /\ T \subseteq more(T) BY <1>1, <1>8, <2>2, <2>4
    <3>2. more(T) \in bad BY <2>2, <3>1
    <3>3. size[more(T)] < size[T]
      <4>1. size[T] = Cardinality(Points \ T) BY <2>2, <2>4
      <4>2. size[more(T)] \in {0, Cardinality(Points \ more(T))} BY <3>1
      <4> HIDE DEF size
      <4> QED BY <1>2, <2>2, <2>4, <4>1, <4>2
    <3>4. size[more(T)] \in Nat /\ size[T] \in Nat /\ size[T] <= size[more(T)] BY <1>4, <2>1, <2>2, <3>1, <3>2
    <3> HIDE DEF size
    <3> QED BY <3>3, <3>4
  <2> QED BY <2>3, <2>4
<1> QED BY <1>9

\* Built by one thread with a queue that keeps everything, from data the prune
\* treats well, the graph can be searched from the medoid to every point.
THEOREM AlwaysConnected == OneThread /\ QueueKeepsAll /\ GoodData => (Spec => []Connected)
<1> SUFFICES ASSUME OneThread, QueueKeepsAll, GoodData PROVE Spec => []Connected
  OBVIOUS
<1>1. ASSUME AloneInv, ReachInv PROVE Connected
  <2> SUFFICES ASSUME AllLinked PROVE Reach[{EntryPoint}] = Points
    BY DEF Connected
  <2>1. TypeOK BY <1>1 DEF AloneInv, SafetyInv
  <2>2. InGraph = Points BY SizesAssumption DEF AllLinked, InGraph, Points
  <2>3. \A u \in Points : Links[u] = neighbors[u]
    <3>1. \A u \in Points : Pending(u) = {} BY <1>1 DEF AllLinked, Pending, AloneInv, SafetyInv, NoLoops
    <3> QED BY <3>1 DEF Links
  <2>4. {EntryPoint} \in SUBSET Points BY SizesAssumption
  <2> DEFINE R == Reach[{EntryPoint}]
  <2>5. EntryPoint \in R /\ R \in SUBSET Points /\ \A u \in R : neighbors[u] \subseteq R
    BY <2>1, <2>4, ReachCloses
  <2> HIDE DEF R
  <2>6. ASSUME NEW y \in Points PROVE y \in R
    <3>1. ClosedWithin(R, Links, Dist[<<EntryPoint, y>>]) BY <2>3, <2>5 DEF ClosedWithin
    <3>2. Reaches(Links, EntryPoint, y) BY <1>1, <2>2, <2>4 DEF ReachInv, AllReach
    <3> QED BY <2>5, <3>1, <3>2 DEF Reaches
  <2> QED BY <2>5, <2>6 DEF R
<1>2. AloneInv /\ ReachInv /\ [Next]_vars => ReachInv' BY NextReach
<1>3. Init => ReachInv BY InitReach
<1>4. Spec => []AloneInv BY AloneInvariant
<1> QED BY <1>1, <1>2, <1>3, <1>4, PTL DEF Spec
-----------------------------------------------------------------------------
LEMMA CountsIn ==
  ASSUME TypeOK, NEW t \in Threads
  PROVE  /\ Cardinality(expanded[t]) \in 0 .. NumPoints /\ NumPoints \in Nat
         /\ Cardinality(todo[t]) \in 0 .. NumPoints
         /\ \A c \in Points : /\ c \notin expanded[t] =>
                                   Cardinality(expanded[t] \union {c}) = Cardinality(expanded[t]) + 1
                              /\ c \in todo[t] => Cardinality(todo[t] \ {c}) = Cardinality(todo[t]) - 1
<1>1. ASSUME NEW S \in SUBSET Points PROVE Cardinality(S) \in 0 .. NumPoints /\ IsFiniteSet(S)
  <2>1. IsFiniteSet(Points) /\ Cardinality(Points) = NumPoints BY PointsFinite, PointsCount
  <2>2. IsFiniteSet(S) /\ Cardinality(S) <= Cardinality(Points) BY <2>1, FS_Subset
  <2>3. Cardinality(S) \in Nat /\ NumPoints \in Nat BY <2>2, FS_CardinalityType, PointsCount
  <2> QED BY <2>1, <2>2, <2>3
<1>2. expanded[t] \in SUBSET Points /\ todo[t] \in SUBSET Points BY DEF TypeOK
<1>3. IsFiniteSet(expanded[t]) /\ IsFiniteSet(todo[t]) BY <1>1, <1>2
<1>4. ASSUME NEW c \in Points, c \notin expanded[t]
      PROVE  Cardinality(expanded[t] \union {c}) = Cardinality(expanded[t]) + 1
  BY <1>3, <1>4, FS_AddElement
<1>5. ASSUME NEW c \in Points, c \in todo[t]
      PROVE  Cardinality(todo[t] \ {c}) = Cardinality(todo[t]) - 1
  BY <1>3, <1>5, FS_RemoveElement
<1> QED BY <1>1, <1>2, <1>4, <1>5, PointsCount

\* the steps left, from what they depend on
StepsFrom(where, found, rest) ==
  CASE where = "idle" -> 0
    [] where = "search" -> 3 * NumPoints + 2 - found
    [] where = "reverse" -> 2 * rest + 1
    [] where = "prune" -> 2 * rest + 2

LEMMA StepsAre ==
  \A t \in Threads :
    /\ StepsLeft(t) = StepsFrom(pc[t], Cardinality(expanded[t]), Cardinality(todo[t]))
    /\ StepsLeft(t)' = StepsFrom(pc'[t], Cardinality(expanded'[t]), Cardinality(todo'[t]))
BY DEF StepsLeft, StepsFrom

\* A thread's step leaves it fewer.
LEMMA ThreadAdvances ==
  ASSUME SafetyInv, NEW t \in Threads,
         ExpandClosest(t) \/ Commit(t) \/ (\E dst \in Points : AddReverse(t, dst)) \/ PruneReverse(t) \/ Linked(t)
  PROVE  /\ next' = next /\ cleaned' = cleaned
         /\ StepsLeft(t)' \in 0 .. StepsLeft(t) - 1
         /\ \A u \in Threads \ {t} : StepsLeft(u)' = StepsLeft(u)
<1>1. TypeOK BY DEF SafetyInv
<1>2. TypeOK' BY ExpandClosestSafety, CommitSafety, AddReverseSafety, PruneReverseSafety, LinkedSafety DEF SafetyInv
<1>3. PICK n : n = NumPoints OBVIOUS
<1>4. PICK e, r, e2, r2 : /\ e = Cardinality(expanded[t]) /\ r = Cardinality(todo[t])
                          /\ e2 = Cardinality(expanded'[t]) /\ r2 = Cardinality(todo'[t])
  OBVIOUS
<1>5. n \in Nat /\ e \in 0 .. n /\ r \in 0 .. n BY <1>1, <1>3, <1>4, CountsIn
<1>6. /\ StepsLeft(t) = StepsFrom(pc[t], e, r)
      /\ StepsLeft(t)' = StepsFrom(pc'[t], e2, r2)
  BY <1>4, StepsAre
<1>7. CASE ExpandClosest(t)
  <2>1. PICK c \in Unexpanded(t) : expanded' = [expanded EXCEPT ![t] = @ \union {c}]
    BY <1>7 DEF ExpandClosest, Marks
  <2>2. /\ pc[t] = "search" /\ pc' = pc /\ todo' = todo /\ next' = next /\ cleaned' = cleaned
        /\ expanded'[t] = expanded[t] \union {c} /\ c \notin expanded[t] /\ c \in Points
        /\ \A u \in Threads \ {t} : expanded'[u] = expanded[u]
    BY <1>1, <1>7, <2>1 DEF ExpandClosest, TypeOK, Unexpanded, Kept
  <2>3. e2 = e + 1 BY <1>1, <1>4, <2>2, CountsIn
  <2>4. e2 \in 0 .. n
    <3>1. expanded'[t] \in SUBSET Points BY <1>1, <2>2 DEF TypeOK
    <3>2. Cardinality(expanded'[t]) <= Cardinality(Points) /\ Cardinality(expanded'[t]) \in Nat
      BY <3>1, PointsFinite, FS_Subset
    <3> QED BY <1>3, <1>4, <3>2, PointsCount
  <2>5. StepsLeft(t) = 3 * n + 2 - e /\ StepsLeft(t)' = 3 * n + 2 - e2
    BY <1>3, <1>6, <2>2 DEF StepsFrom
  <2>6. StepsLeft(t)' \in 0 .. StepsLeft(t) - 1 BY <1>5, <2>3, <2>4, <2>5
  <2> QED BY <2>2, <2>6, StepsAre
<1>8. CASE Commit(t)
  <2>1. /\ pc[t] = "search" /\ pc'[t] = "reverse" /\ next' = next /\ cleaned' = cleaned /\ expanded' = expanded
        /\ \A u \in Threads \ {t} : pc'[u] = pc[u] /\ todo'[u] = todo[u]
    BY <1>1, <1>8 DEF Commit, TypeOK
  <2>2. r2 \in 0 .. n
    <3>1. todo'[t] \in SUBSET Points BY <1>2 DEF TypeOK
    <3>2. Cardinality(todo'[t]) <= Cardinality(Points) /\ Cardinality(todo'[t]) \in Nat
      BY <3>1, PointsFinite, FS_Subset
    <3> QED BY <1>3, <1>4, <3>2, PointsCount
  <2>3. StepsLeft(t) = 3 * n + 2 - e /\ StepsLeft(t)' = 2 * r2 + 1
    BY <1>3, <1>6, <2>1 DEF StepsFrom
  <2>4. StepsLeft(t)' \in 0 .. StepsLeft(t) - 1 BY <1>5, <2>2, <2>3
  <2> QED BY <2>1, <2>4, StepsAre
<1>9. ASSUME NEW dst \in Points, AddReverse(t, dst)
      PROVE  /\ next' = next /\ cleaned' = cleaned
             /\ StepsLeft(t)' \in 0 .. StepsLeft(t) - 1
             /\ \A u \in Threads \ {t} : StepsLeft(u)' = StepsLeft(u)
  <2>1. /\ pc[t] = "reverse" /\ pc'[t] \in {"reverse", "prune"} /\ next' = next /\ cleaned' = cleaned
        /\ expanded' = expanded /\ dst \in todo[t] /\ todo'[t] = todo[t] \ {dst}
        /\ \A u \in Threads \ {t} : pc'[u] = pc[u] /\ todo'[u] = todo[u]
    BY <1>1, <1>9 DEF AddReverse, TypeOK
  <2>2. r2 = r - 1 BY <1>1, <1>4, <2>1, CountsIn
  <2>3. r2 \in Nat
    <3>1. todo'[t] \in SUBSET Points BY <1>1, <2>1 DEF TypeOK
    <3> QED BY <1>4, <3>1, PointsFinite
  <2>4. StepsLeft(t) = 2 * r + 1 /\ StepsLeft(t)' \in {2 * r2 + 1, 2 * r2 + 2}
    BY <1>6, <2>1 DEF StepsFrom
  <2>5. StepsLeft(t)' \in 0 .. StepsLeft(t) - 1 BY <1>5, <2>2, <2>3, <2>4
  <2> QED BY <2>1, <2>5, StepsAre
<1>10. CASE PruneReverse(t)
  <2>1. /\ pc[t] = "prune" /\ pc'[t] = "reverse" /\ next' = next /\ cleaned' = cleaned
        /\ expanded' = expanded /\ todo' = todo /\ \A u \in Threads \ {t} : pc'[u] = pc[u]
    BY <1>1, <1>10 DEF PruneReverse, TypeOK
  <2>2. StepsLeft(t) = 2 * r + 2 /\ StepsLeft(t)' = 2 * r + 1
    BY <1>4, <1>6, <2>1 DEF StepsFrom
  <2>3. StepsLeft(t)' \in 0 .. StepsLeft(t) - 1 BY <1>5, <2>2
  <2> QED BY <2>1, <2>3, StepsAre
<1>11. CASE Linked(t)
  <2>1. /\ pc[t] = "reverse" /\ pc'[t] = "idle" /\ next' = next /\ cleaned' = cleaned
        /\ expanded' = expanded /\ todo' = todo /\ \A u \in Threads \ {t} : pc'[u] = pc[u]
    BY <1>1, <1>11 DEF Linked, TypeOK
  <2>2. StepsLeft(t) = 2 * r + 1 /\ StepsLeft(t)' = 0
    BY <1>6, <2>1 DEF StepsFrom
  <2>3. StepsLeft(t)' \in 0 .. StepsLeft(t) - 1 BY <1>5, <2>2
  <2> QED BY <2>1, <2>3, StepsAre
<1> QED BY <1>7, <1>8, <1>9, <1>10, <1>11

\* Whatever the threads do to each other's lists, every step of the construction
\* uses up one that was left: no schedule keeps it going for ever.
THEOREM AlwaysAdvances == Spec => Advances
<1> DEFINE Forward ==
             \/ next' = next + 1
             \/ /\ next' = next
                /\ \/ \E t \in Threads :
                        /\ StepsLeft(t)' \in 0 .. StepsLeft(t) - 1
                        /\ \A u \in Threads \ {t} : StepsLeft(u)' = StepsLeft(u)
                        /\ cleaned' = cleaned
                   \/ /\ \A u \in Threads : StepsLeft(u)' = StepsLeft(u)
                      /\ cleaned \subseteq cleaned' /\ cleaned' # cleaned
<1>1. ASSUME SafetyInv, Next PROVE Forward \/ UNCHANGED vars
  <2>1. ASSUME NEW t \in Threads, Step(t) PROVE Forward
    <3>1. CASE Take(t) BY <3>1 DEF Take
    <3>2. CASE ~Take(t)
      <4>1. ExpandClosest(t) \/ Commit(t) \/ (\E dst \in Points : AddReverse(t, dst)) \/ PruneReverse(t) \/ Linked(t)
        BY <2>1, <3>2 DEF Step
      <4>2. /\ next' = next /\ cleaned' = cleaned
            /\ StepsLeft(t)' \in 0 .. StepsLeft(t) - 1
            /\ \A u \in Threads \ {t} : StepsLeft(u)' = StepsLeft(u)
        BY <1>1, <4>1, ThreadAdvances
      <4> QED BY <4>2
    <3> QED BY <3>1, <3>2
  <2>2. ASSUME NEW p \in Points, Cleanup(p) PROVE Forward
    <3>1. next' = next /\ cleaned' = cleaned \union {p} /\ p \notin cleaned /\ UNCHANGED <<pc, expanded, todo>>
      BY <2>2 DEF Cleanup, locals
    <3>2. \A u \in Threads : StepsLeft(u)' = StepsLeft(u) BY <3>1 DEF StepsLeft
    <3> QED BY <3>1, <3>2
  <2> QED BY <1>1, <2>1, <2>2 DEF Next
<1>2. SafetyInv /\ [Next]_vars => [Forward]_vars BY <1>1
<1> QED BY <1>2, SafetyInvariant, PTL DEF Spec, Advances
=============================================================================
