-------------------------- MODULE SearchCaches_proofs --------------------------
(***************************************************************************)
(* For any number of threads, caches, queries and vectors, and any width of *)
(* the mark counter: no cache has two users, the pool and its users stay    *)
(* within the caches of the constructor, and what a query reads as visited  *)
(* is what it marked. The last rests on a fact about every cache, whoever   *)
(* works with it: no mark is ahead of the counter (MarksBehind), which     *)
(* holds for the memory of a new cache because init() leaves the counter at *)
(* its last value.                                                          *)
(***************************************************************************)
EXTENDS SearchCaches, FiniteSetTheorems, SequenceTheorems, TLAPS

MarksBehind(vs) == vs.curValue >= 1 /\ \A i \in Elements : vs.marks[i] <= vs.curValue

\* A cleared set has no element: below its last value the counter moves to a
\* value no mark has, at the last value every mark is zeroed.
LEMMA ClearedIsEmpty ==
  ASSUME NEW vs \in VisitedSets, MarksBehind(vs)
  PROVE  /\ Cleared(vs) \in VisitedSets /\ MarksBehind(Cleared(vs))
         /\ \A i \in Elements : ~Check(Cleared(vs), i)
<1>1. CASE vs.curValue = Modulus - 1
  <2>1. Cleared(vs) = [curValue |-> 1, marks |-> [i \in Elements |-> 0]]
    BY <1>1, ModulusAssumption DEF Cleared, Increment
  <2> QED BY <2>1, ModulusAssumption DEF VisitedSets, MarkType, MarksBehind, Check
<1>2. CASE vs.curValue # Modulus - 1
  <2>1. /\ Cleared(vs) = [vs EXCEPT !.curValue = vs.curValue + 1]
        /\ vs.curValue \in Nat /\ vs.curValue + 1 < Modulus
    BY <1>2, ModulusAssumption DEF Cleared, Increment, VisitedSets, MarkType
  <2>2. Cleared(vs).curValue = vs.curValue + 1 /\ Cleared(vs).marks = vs.marks
    BY <2>1 DEF VisitedSets
  <2>3. \A i \in Elements : vs.marks[i] \in Nat /\ vs.marks[i] <= vs.curValue
    <3>1. vs.marks \in [Elements -> 0 .. Modulus - 1] BY DEF VisitedSets, MarkType
    <3>2. \A i \in Elements : vs.marks[i] \in 0 .. Modulus - 1 BY <3>1
    <3>3. \A i \in Elements : vs.marks[i] <= vs.curValue BY DEF MarksBehind
    <3>4. \A n \in 0 .. Modulus - 1 : n \in Nat BY ModulusAssumption
    <3> QED BY <3>2, <3>3, <3>4
  <2>4. Cleared(vs) \in VisitedSets
    BY <2>1, ModulusAssumption DEF VisitedSets, MarkType
  <2> QED BY <2>1, <2>2, <2>3, <2>4 DEF MarksBehind, Check
<1> QED BY <1>1, <1>2

\* Marking adds one element.
LEMMA MarkedAdds ==
  ASSUME NEW vs \in VisitedSets, MarksBehind(vs), NEW i \in Elements
  PROVE  /\ Marked(vs, i) \in VisitedSets /\ MarksBehind(Marked(vs, i))
         /\ \A j \in Elements : Check(Marked(vs, i), j) <=> j = i \/ Check(vs, j)
<1>1. /\ Marked(vs, i).curValue = vs.curValue
      /\ Marked(vs, i).marks = [vs.marks EXCEPT ![i] = vs.curValue]
      /\ Marked(vs, i) \in VisitedSets
  BY DEF Marked, VisitedSets
<1> QED BY <1>1, ModulusAssumption DEF MarksBehind, Check, VisitedSets, MarkType

\* A cache nobody used yet is ready for its first clear.
LEMMA InitialisedBehind ==
  ASSUME NEW memory \in Memory
  PROVE  Initialised(memory) \in VisitedSets /\ MarksBehind(Initialised(memory))
BY ModulusAssumption, CachesAssumption
   DEF Initialised, VisitedSets, MarksBehind, MarkType
-----------------------------------------------------------------------------
AllBehind == \A c \in CacheIds : MarksBehind(caches[c])

Inv == TypeOK /\ OneHolder /\ PoolBounded /\ AllBehind /\ OwnMarks

LEMMA HoldersFinite ==
  /\ IsFiniteSet(Holders) /\ Cardinality(Holders) \in Nat
  /\ Cardinality(Holders) <= Cardinality(Threads)
BY CachesAssumption, FS_Subset, FS_CardinalityType DEF Holders

LEMMA InitInv == Init => Inv
<1> SUFFICES ASSUME Init PROVE Inv
  OBVIOUS
<1>1. Holders = {}
  BY DEF Init, Holders
<1>2. FirstCaches \in Seq(CacheIds) /\ Len(FirstCaches) \in Nat
      /\ \A i \in 1 .. Len(FirstCaches) : FirstCaches[i] \in CacheIds
  BY CachesAssumption
<1>3. \A c \in CacheIds : caches[c] \in VisitedSets /\ MarksBehind(caches[c])
  <2> SUFFICES ASSUME NEW c \in CacheIds
               PROVE  caches[c] \in VisitedSets /\ MarksBehind(caches[c])
    OBVIOUS
  <2>1. PICK memory \in Memory : caches[c] = Initialised(memory) BY DEF Init
  <2> QED BY <2>1, InitialisedBehind
<1>4. TypeOK
  <2>1. caches \in [CacheIds -> VisitedSets] BY <1>3 DEF Init
  <2>2. used \subseteq CacheIds BY <1>2 DEF Init
  <2> QED BY <1>2, <2>1, <2>2, CachesAssumption DEF Init, TypeOK
<1>5. OneHolder BY <1>1, CachesAssumption DEF Init, OneHolder, InPool
<1>6. PoolBounded
  <2>1. Cardinality(Holders) = 0 BY <1>1, FS_EmptySet
  <2> QED BY <2>1, <1>2 DEF Init, PoolBounded
<1> QED BY <1>3, <1>4, <1>5, <1>6 DEF Inv, AllBehind, OwnMarks, Init

\* A thread that takes a cache is one holder more.
LEMMA TakesCache ==
  ASSUME TypeOK, NEW t \in Threads, held[t] = NoCache, NEW c \in CacheIds,
         held' = [held EXCEPT ![t] = c]
  PROVE  /\ Holders' = Holders \union {t} /\ t \notin Holders
         /\ Cardinality(Holders') = Cardinality(Holders) + 1
<1>1. c # NoCache BY CachesAssumption
<1>2. Holders' = Holders \union {t} /\ t \notin Holders
  BY <1>1 DEF Holders, TypeOK
<1> QED BY <1>2, HoldersFinite, FS_AddElement

\* One that gives its cache up is one less.
LEMMA LeavesCache ==
  ASSUME TypeOK, NEW t \in Threads, t \in Holders,
         held' = [held EXCEPT ![t] = NoCache]
  PROVE  /\ Holders' = Holders \ {t}
         /\ Cardinality(Holders') = Cardinality(Holders) - 1
<1>1. Holders' = Holders \ {t}
  BY DEF Holders, TypeOK
<1> QED BY <1>1, HoldersFinite, FS_RemoveElement
-----------------------------------------------------------------------------
\* get_free_cache: the front of the pool has no holder, and no second place
LEMMA GetPooledInv ==
  ASSUME Inv, NEW t \in Threads, GetPooled(t)
  PROVE  Inv'
<1> USE DEF Inv
<1>1. /\ pool \in Seq(CacheIds) /\ pool # <<>> /\ Len(pool) \in Nat \ {0}
      /\ Len(Tail(pool)) = Len(pool) - 1
      /\ \A i \in 1 .. Len(Tail(pool)) : Tail(pool)[i] = pool[i + 1]
      /\ Tail(pool) \in Seq(CacheIds)
      /\ Head(pool) = pool[1] /\ Head(pool) \in CacheIds
  BY DEF GetPooled, TypeOK
<1>2. /\ held[t] = NoCache /\ held' = [held EXCEPT ![t] = Head(pool)]
      /\ pool' = Tail(pool) /\ queriesLeft > 0 /\ queriesLeft' = queriesLeft - 1
      /\ UNCHANGED <<caches, used, searching, members>>
  BY DEF GetPooled, PoolAfterGet
<1>3. /\ Holders' = Holders \union {t} /\ t \notin Holders
      /\ Cardinality(Holders') = Cardinality(Holders) + 1
  BY <1>1, <1>2, TakesCache
<1>4. TypeOK'
  BY <1>1, <1>2, <1>3 DEF TypeOK
<1>5. OneHolder'
  <2>1. \A u \in Holders : held'[u] = held[u] /\ held[u] # Head(pool)
    BY <1>1, <1>2, <1>3 DEF OneHolder, InPool, Holders, TypeOK
  <2>2. held'[t] = Head(pool) BY <1>2 DEF TypeOK
  <2>3. \A i, j \in 1 .. Len(pool) : pool[i] = pool[j] => i = j BY DEF OneHolder
  <2>4. \A i \in 1 .. Len(pool') : i + 1 \in 1 .. Len(pool) /\ pool'[i] = pool[i + 1]
    BY <1>1, <1>2
  <2>5. InPool' \subseteq InPool /\ Head(pool) \in InPool /\ Head(pool) \notin InPool'
    BY <1>1, <1>2, <2>3, <2>4 DEF InPool
  <2>6. \A u, v \in Holders' : held'[u] = held'[v] => u = v
    BY <1>3, <2>1, <2>2 DEF OneHolder
  <2>7. \A u \in Holders' : held'[u] \notin InPool'
    BY <1>3, <2>1, <2>2, <2>5 DEF OneHolder
  <2>8. \A i, j \in 1 .. Len(pool') : pool'[i] = pool'[j] => i = j
    <3> SUFFICES ASSUME NEW i \in 1 .. Len(pool'), NEW j \in 1 .. Len(pool'), pool'[i] = pool'[j]
                 PROVE  i = j
      OBVIOUS
    <3>1. i + 1 = j + 1 BY <2>3, <2>4
    <3> QED BY <3>1
  <2>9. (InPool \union {held[u] : u \in Holders})' \subseteq used'
    BY <1>2, <1>3, <2>1, <2>2, <2>5 DEF OneHolder
  <2> QED BY <2>6, <2>7, <2>8, <2>9 DEF OneHolder
<1>6. PoolBounded'
  BY <1>1, <1>2, <1>3, HoldersFinite, CachesAssumption DEF PoolBounded
<1>7. AllBehind' BY <1>2 DEF AllBehind
<1>8. OwnMarks'
  <2>1. \A u \in searching : u # t /\ held'[u] = held[u]
    BY <1>2, <1>3 DEF TypeOK, Holders
  <2> QED BY <1>2, <2>1 DEF OwnMarks
<1> QED BY <1>4, <1>5, <1>6, <1>7, <1>8

\* An empty pool: the new cache is nobody's, and a caller without a cache
\* leaves room under the bound.
LEMMA GetNewInv ==
  ASSUME Inv, NEW t \in Threads, GetNew(t)
  PROVE  Inv'
<1> USE DEF Inv
<1>1. PICK c \in CacheIds \ used : held' = [held EXCEPT ![t] = c] /\ used' = used \union {c}
  BY DEF GetNew
<1>2. /\ held[t] = NoCache /\ pool = <<>> /\ queriesLeft > 0 /\ queriesLeft' = queriesLeft - 1
      /\ UNCHANGED <<pool, caches, searching, members>>
  BY DEF GetNew, Allocates
<1>3. /\ Holders' = Holders \union {t} /\ t \notin Holders
      /\ Cardinality(Holders') = Cardinality(Holders) + 1
  BY <1>1, <1>2, TakesCache
<1>4. TypeOK' BY <1>1, <1>2, <1>3 DEF TypeOK
<1>5. OneHolder'
  <2>1. \A u \in Holders : held'[u] = held[u] /\ held[u] # c
    BY <1>1, <1>3 DEF OneHolder, TypeOK, Holders
  <2>2. held'[t] = c BY <1>1 DEF TypeOK
  <2>3. InPool' = InPool /\ c \notin InPool BY <1>1, <1>2 DEF InPool, OneHolder
  <2> QED BY <1>1, <1>2, <1>3, <2>1, <2>2, <2>3 DEF OneHolder
<1>6. PoolBounded'
  <2>1. Holders' \subseteq Threads BY DEF Holders
  <2>2. Cardinality(Holders') <= Cardinality(Threads) /\ Cardinality(Threads) \in Nat
    BY <2>1, CachesAssumption, FS_Subset, FS_CardinalityType
  <2>3. Len(pool') = 0 BY <1>2
  <2> QED BY <1>3, <2>2, <2>3, HoldersFinite, CachesAssumption DEF PoolBounded
<1>7. AllBehind' BY <1>2 DEF AllBehind
<1>8. OwnMarks'
  <2>1. \A u \in searching : held'[u] = held[u]
    BY <1>1, <1>3 DEF TypeOK, Holders
  <2> QED BY <1>2, <2>1 DEF OwnMarks
<1> QED BY <1>4, <1>5, <1>6, <1>7, <1>8

\* What a thread does to its cache nobody else's search sees.
LEMMA OnlyItsCache ==
  ASSUME Inv, NEW t \in Holders, NEW vs \in VisitedSets,
         caches' = [caches EXCEPT ![held[t]] = vs]
  PROVE  /\ caches'[held[t]] = vs
         /\ caches' \in [CacheIds -> VisitedSets]
         /\ \A u \in Holders : u # t => caches'[held[u]] = caches[held[u]]
         /\ \A c \in CacheIds : c # held[t] => caches'[c] = caches[c]
<1>1. \A u \in Holders : held[u] \in CacheIds
  BY DEF Inv, TypeOK, Holders
<1> QED BY <1>1 DEF Inv, TypeOK, OneHolder

LEMMA ClearInv ==
  ASSUME Inv, NEW t \in Threads, Clear(t)
  PROVE  Inv'
<1> USE DEF Inv
<1> DEFINE vs == Cleared(caches[held[t]])
<1>1. /\ t \in Holders /\ held[t] \in CacheIds
      /\ caches' = [caches EXCEPT ![held[t]] = vs]
      /\ searching' = searching \union {t} /\ members' = [members EXCEPT ![t] = {}]
      /\ UNCHANGED <<pool, held, used, queriesLeft>>
  BY DEF Clear, Holders, TypeOK
<1>2. vs \in VisitedSets /\ MarksBehind(vs) /\ \A i \in Elements : ~Check(vs, i)
  BY <1>1, ClearedIsEmpty DEF TypeOK, AllBehind
<1> HIDE DEF vs
<1>3. /\ caches'[held[t]] = vs /\ caches' \in [CacheIds -> VisitedSets]
      /\ \A u \in Holders : u # t => caches'[held[u]] = caches[held[u]]
      /\ \A c \in CacheIds : c # held[t] => caches'[c] = caches[c]
  BY <1>1, <1>2, OnlyItsCache
<1>4. Holders' = Holders BY <1>1 DEF Holders
<1>5. TypeOK' BY <1>1, <1>3, <1>4 DEF TypeOK
<1>6. OneHolder' BY <1>1, <1>4 DEF OneHolder, InPool
<1>7. PoolBounded' BY <1>1, <1>4 DEF PoolBounded
<1>8. AllBehind' BY <1>2, <1>3 DEF AllBehind
<1>9. OwnMarks'
  <2>1. members'[t] = {} /\ \A u \in Threads : u # t => members'[u] = members[u]
    BY <1>1 DEF TypeOK
  <2>2. \A u \in searching : u \in Holders BY DEF TypeOK
  <2> QED BY <1>1, <1>2, <1>3, <2>1, <2>2 DEF OwnMarks, Holders
<1> QED BY <1>5, <1>6, <1>7, <1>8, <1>9

LEMMA MarkInv ==
  ASSUME Inv, NEW t \in Threads, NEW i \in Elements, Mark(t, i)
  PROVE  Inv'
<1> USE DEF Inv
<1> DEFINE vs == Marked(caches[held[t]], i)
<1>1. /\ t \in searching /\ t \in Holders /\ held[t] \in CacheIds
      /\ caches' = [caches EXCEPT ![held[t]] = vs]
      /\ members' = [members EXCEPT ![t] = members[t] \union {i}]
      /\ UNCHANGED <<pool, held, used, queriesLeft, searching>>
  BY DEF Mark, Holders, TypeOK
<1>2. /\ vs \in VisitedSets /\ MarksBehind(vs)
      /\ \A j \in Elements : Check(vs, j) <=> j = i \/ Check(caches[held[t]], j)
  BY <1>1, MarkedAdds DEF TypeOK, AllBehind
<1> HIDE DEF vs
<1>3. /\ caches'[held[t]] = vs /\ caches' \in [CacheIds -> VisitedSets]
      /\ \A u \in Holders : u # t => caches'[held[u]] = caches[held[u]]
      /\ \A c \in CacheIds : c # held[t] => caches'[c] = caches[c]
  BY <1>1, <1>2, OnlyItsCache
<1>4. Holders' = Holders BY <1>1 DEF Holders
<1>5. TypeOK' BY <1>1, <1>3, <1>4 DEF TypeOK
<1>6. OneHolder' BY <1>1, <1>4 DEF OneHolder, InPool
<1>7. PoolBounded' BY <1>1, <1>4 DEF PoolBounded
<1>8. AllBehind' BY <1>2, <1>3 DEF AllBehind
<1>9. OwnMarks'
  <2>1. members'[t] = members[t] \union {i} /\ \A u \in Threads : u # t => members'[u] = members[u]
    BY <1>1 DEF TypeOK
  <2>2. \A u \in searching : u \in Holders /\ u \in Threads BY DEF TypeOK, Holders
  <2>3. \A j \in Elements : Check(caches[held[t]], j) <=> j \in members[t]
    BY <1>1 DEF OwnMarks
  <2>4. \A j \in Elements : Check(caches'[held'[t]], j) <=> j \in members'[t]
    BY <1>1, <1>2, <1>3, <2>1, <2>3
  <2>5. \A u \in searching : u # t =>
          caches'[held'[u]] = caches[held[u]] /\ members'[u] = members[u]
    BY <1>1, <1>3, <2>1, <2>2
  <2> QED BY <1>1, <2>4, <2>5 DEF OwnMarks
<1> QED BY <1>5, <1>6, <1>7, <1>8, <1>9

\* A cache given up changes from a holder's to the pool's, or is nobody's.
LEMMA ReleaseInv ==
  ASSUME Inv, NEW t \in Threads, Release(t)
  PROVE  Inv'
<1> USE DEF Inv
<1>1. /\ t \in searching /\ t \in Holders /\ held[t] \in CacheIds
      /\ pool' = Append(pool, held[t]) /\ held' = [held EXCEPT ![t] = NoCache]
      /\ searching' = searching \ {t}
      /\ UNCHANGED <<caches, used, queriesLeft, members>>
  BY DEF Release, TypeOK, Holders
<1>2. /\ pool \in Seq(CacheIds) /\ Len(pool) \in Nat /\ pool' \in Seq(CacheIds)
      /\ Len(pool') = Len(pool) + 1
      /\ \A i \in 1 .. Len(pool) : pool'[i] = pool[i]
      /\ pool'[Len(pool) + 1] = held[t]
  BY <1>1 DEF TypeOK
<1>3. Holders' = Holders \ {t} /\ Cardinality(Holders') = Cardinality(Holders) - 1
  BY <1>1, LeavesCache
<1>4. \A u \in Holders' : held'[u] = held[u] /\ u # t BY <1>1, <1>3 DEF TypeOK
<1>5. TypeOK' BY <1>1, <1>2, <1>3 DEF TypeOK
<1>6. OneHolder'
  <2>1. held[t] \notin InPool BY <1>1 DEF OneHolder
  <2>2. InPool' = InPool \union {held[t]}
    <3>1. \A i \in 1 .. Len(pool') : i \in 1 .. Len(pool) \/ i = Len(pool) + 1 BY <1>2
    <3>2. 1 .. Len(pool) \subseteq 1 .. Len(pool') /\ Len(pool) + 1 \in 1 .. Len(pool')
      BY <1>2
    <3> QED BY <1>2, <3>1, <3>2 DEF InPool
  <2>3. \A i, j \in 1 .. Len(pool') : pool'[i] = pool'[j] => i = j
    <3>1. \A i \in 1 .. Len(pool) : pool[i] # held[t] BY <2>1 DEF InPool
    <3>2. \A i \in 1 .. Len(pool') : i \in 1 .. Len(pool) \/ i = Len(pool) + 1 BY <1>2
    <3> QED BY <1>2, <3>1, <3>2 DEF OneHolder
  <2>4. \A u \in Holders' : held'[u] \notin InPool'
    BY <1>1, <1>3, <1>4, <2>2 DEF OneHolder
  <2>5. \A u, v \in Holders' : held'[u] = held'[v] => u = v
    BY <1>3, <1>4 DEF OneHolder
  <2>6. (InPool \union {held[u] : u \in Holders})' \subseteq used'
    BY <1>1, <1>3, <1>4, <2>2 DEF OneHolder
  <2> QED BY <2>3, <2>4, <2>5, <2>6 DEF OneHolder
<1>7. PoolBounded' BY <1>2, <1>3, HoldersFinite, CachesAssumption DEF PoolBounded
<1>8. AllBehind' BY <1>1 DEF AllBehind
<1>9. OwnMarks'
  <2>1. \A u \in searching' : u \in searching /\ held'[u] = held[u]
    BY <1>1 DEF TypeOK, Holders
  <2> QED BY <1>1, <2>1 DEF OwnMarks
<1> QED BY <1>5, <1>6, <1>7, <1>8, <1>9

LEMMA AbandonInv ==
  ASSUME Inv, NEW t \in Threads, Abandon(t)
  PROVE  Inv'
<1> USE DEF Inv
<1>1. /\ t \in searching /\ t \in Holders
      /\ held' = [held EXCEPT ![t] = NoCache] /\ searching' = searching \ {t}
      /\ UNCHANGED <<pool, caches, used, queriesLeft, members>>
  BY DEF Abandon, TypeOK
<1>2. Holders' = Holders \ {t} /\ Cardinality(Holders') = Cardinality(Holders) - 1
  BY <1>1, LeavesCache
<1>3. \A u \in Holders' : held'[u] = held[u] /\ u # t BY <1>1, <1>2 DEF TypeOK
<1>4. TypeOK' BY <1>1, <1>2 DEF TypeOK
<1>5. OneHolder' BY <1>1, <1>2, <1>3 DEF OneHolder, InPool
<1>6. PoolBounded'
  <2>1. Len(pool) \in Nat BY DEF TypeOK
  <2> QED BY <1>1, <1>2, <2>1, HoldersFinite, CachesAssumption DEF PoolBounded
<1>7. AllBehind' BY <1>1 DEF AllBehind
<1>8. OwnMarks'
  <2>1. \A u \in searching' : u \in searching /\ held'[u] = held[u]
    BY <1>1 DEF TypeOK, Holders
  <2> QED BY <1>1, <2>1 DEF OwnMarks
<1> QED BY <1>4, <1>5, <1>6, <1>7, <1>8

LEMMA SpecInv == Spec => []Inv
<1>1. Inv /\ [Next]_vars => Inv'
  <2> SUFFICES ASSUME Inv, [Next]_vars PROVE Inv'
    OBVIOUS
  <2>1. CASE UNCHANGED vars
    BY <2>1 DEF vars, Inv, TypeOK, OneHolder, InPool, Holders, PoolBounded, AllBehind, OwnMarks
  <2>2. ASSUME NEW t \in Threads, Get(t) PROVE Inv'
    BY <2>2, GetPooledInv, GetNewInv DEF Get
  <2> QED BY <2>1, <2>2, ClearInv, ReleaseInv, AbandonInv, MarkInv DEF Next
<1> QED BY <1>1, InitInv, PTL DEF Spec
-----------------------------------------------------------------------------
\* Every variable keeps its type: the counters of all caches stay in MarkType.
THEOREM TypeCorrect == Spec => []TypeOK
<1>1. Inv => TypeOK BY DEF Inv
<1> QED BY <1>1, SpecInv, PTL

\* No cache is ever at work for two threads (get_free_cache, release_cache).
THEOREM CachesNotShared == Spec => []OneHolder
<1>1. Inv => OneHolder BY DEF Inv
<1> QED BY <1>1, SpecInv, PTL

\* The turns that keep their caches never make the pool grow.
THEOREM PoolAlwaysBounded == Spec => []PoolBounded
<1>1. Inv => PoolBounded BY DEF Inv
<1> QED BY <1>1, SpecInv, PTL

\* check() is membership in what the query marked since its last clear(),
\* whatever cache it got and however often that cache's counter wrapped.
THEOREM ChecksOwnMarks == Spec => []OwnMarks
<1>1. Inv => OwnMarks BY DEF Inv
<1> QED BY <1>1, SpecInv, PTL
=============================================================================
