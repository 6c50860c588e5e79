---------------------------- MODULE SearchQueue_proofs ----------------------------
(***************************************************************************)
(* The candidate list is correct for every capacity, set of ids and set of *)
(* distances. SafetyInv is inductive: the five invariants of SearchQueue   *)
(* with ProbeBounds, the loop invariant of the binary search.              *)
(***************************************************************************)
EXTENDS SearchQueue, FiniteSetTheorems, TLAPS

\* Inside insert the candidate belongs between the slots below lo and those
\* from hi on, and it is not the one the first test turned away.
ProbeBounds ==
  pc = "probe" =>
    /\ new.id \in Ids
    /\ new = Fresh(new.id)
    /\ ~WorseThanAll(new)
    /\ lo <= hi /\ hi <= size
    /\ \A i \in 0 .. lo - 1 : Less(data[i], new)
    /\ \A i \in hi .. size - 1 : Less(new, data[i])

SafetyInv ==
  /\ TypeOK
  /\ Sorted
  /\ SlotsAgree
  /\ CursorFirstUnexpanded
  /\ KeepsClosest
  /\ expanded \subseteq offered
  /\ ProbeBounds
-----------------------------------------------------------------------------
\* Candidate::operator< is a strict total order on candidates of distinct ids.
LEMMA LessOrder ==
  ASSUME NEW a \in Candidate, NEW b \in Candidate, NEW c \in Candidate
  PROVE  /\ ~Less(a, a)
         /\ Less(a, b) /\ Less(b, c) => Less(a, c)
         /\ Less(a, b) => ~Less(b, a)
         /\ a.id # b.id => Less(a, b) \/ Less(b, a)
BY DEF Less, Candidate

\* The candidate insert builds is well typed.
LEMMA FreshType ==
  ASSUME TypeOK, NEW id \in Ids
  PROVE  /\ Fresh(id) \in Candidate
         /\ Fresh(id).id = id
         /\ Fresh(id).distance = dist[id]
         /\ ~Fresh(id).expanded
BY IdsAssumption, DistsAssumption DEF TypeOK, Fresh, Candidate

LEMMA InitSafety == Init => SafetyInv
BY CapacityAssumption
   DEF Init, SafetyInv, TypeOK, Sorted, SlotsAgree, CursorFirstUnexpanded,
       KeepsClosest, ProbeBounds, Slots, Candidate, EmptySlot

\* Inside the array every slot below size has a candidate.
LEMMA SlotRange ==
  ASSUME TypeOK
  PROVE  /\ Capacity \in Nat \ {0} /\ size \in Nat /\ curUnexpanded \in Nat
         /\ size <= Capacity /\ curUnexpanded <= size
         /\ \A i \in 0 .. size : i \in Slots /\ data[i] \in Candidate
BY CapacityAssumption DEF TypeOK, Slots

LEMMA ClearSafety == SafetyInv /\ Clear => SafetyInv'
BY CapacityAssumption
   DEF Clear, SafetyInv, TypeOK, Sorted, SlotsAgree, CursorFirstUnexpanded,
       KeepsClosest, ProbeBounds, Slots, Candidate

LEMMA InsertRejectedSafety ==
  ASSUME SafetyInv, NEW id \in Ids, InsertRejected(id)
  PROVE  SafetyInv'
<1> USE DEF SafetyInv
<1>0. /\ UNCHANGED <<dist, data, size, curUnexpanded, pc, new, lo, hi, expanded>>
      /\ offered' = offered \union {id} /\ pc = "idle"
  BY DEF InsertRejected
<1>1. TypeOK' BY <1>0 DEF TypeOK
<1>2. Sorted' BY <1>0 DEF Sorted, Less
<1>3. SlotsAgree' BY <1>0 DEF SlotsAgree
<1>4. CursorFirstUnexpanded' BY <1>0 DEF CursorFirstUnexpanded
<1>5. KeepsClosest'
  <2>1. \A i \in 0 .. size - 1 : Less(data[i], Fresh(id))
    <3> SUFFICES ASSUME NEW i \in 0 .. size - 1 PROVE Less(data[i], Fresh(id))
      OBVIOUS
    <3>1. Less(data[size - 1], Fresh(id)) /\ size = Capacity
      BY DEF InsertRejected, WorseThanAll
    <3>2. CASE i = size - 1 BY <3>1, <3>2
    <3>3. CASE i # size - 1
      <4>1. Less(data[i], data[size - 1]) BY <3>3, SlotRange DEF Sorted
      <4> QED BY <3>1, <4>1, SlotRange, FreshType, LessOrder
    <3> QED BY <3>2, <3>3
  <2>2. size = Capacity BY DEF InsertRejected, WorseThanAll
  <2> QED BY <1>0, <2>1, <2>2 DEF KeepsClosest, InQueue, Fresh, Less
<1>6. expanded' \subseteq offered' BY <1>0
<1>7. ProbeBounds' BY <1>0 DEF ProbeBounds
<1> QED BY <1>1, <1>2, <1>3, <1>4, <1>5, <1>6, <1>7

LEMMA InsertBeginSafety ==
  ASSUME SafetyInv, NEW id \in Ids, InsertBegin(id)
  PROVE  SafetyInv'
<1> USE DEF SafetyInv
<1>0. /\ UNCHANGED <<dist, data, size, curUnexpanded, offered, expanded>>
      /\ new' = Fresh(id) /\ lo' = 0 /\ hi' = size /\ pc' = "probe"
      /\ ~WorseThanAll(Fresh(id))
  BY DEF InsertBegin
<1>1. TypeOK' BY <1>0, FreshType, SlotRange DEF TypeOK
<1>2. Sorted' BY <1>0 DEF Sorted, Less
<1>3. SlotsAgree' BY <1>0 DEF SlotsAgree
<1>4. CursorFirstUnexpanded' BY <1>0 DEF CursorFirstUnexpanded
<1>5. KeepsClosest' BY <1>0 DEF KeepsClosest, InQueue, Fresh, Less
<1>6. expanded' \subseteq offered' BY <1>0
<1>7. ProbeBounds'
  <2>1. new' = Fresh(new.id)' /\ new'.id = id BY <1>0, FreshType DEF Fresh
  <2>2. ~WorseThanAll(new)' BY <1>0 DEF WorseThanAll, Less
  <2> QED BY <1>0, <2>1, <2>2, SlotRange DEF ProbeBounds
<1> QED BY <1>1, <1>2, <1>3, <1>4, <1>5, <1>6, <1>7

\* A probe that goes left keeps every slot from the new hi on farther.
LEMMA ProbeLeftSafety == ASSUME SafetyInv, ProbeLeft PROVE SafetyInv'
<1> USE DEF SafetyInv
<1>0. /\ UNCHANGED <<dist, data, size, curUnexpanded, pc, new, lo, offered, expanded>>
      /\ pc = "probe" /\ lo < hi /\ hi' = Mid /\ Less(new, data[Mid])
  BY DEF ProbeLeft
<1>1. /\ Mid \in Nat /\ lo <= Mid /\ Mid < hi /\ hi <= size
      /\ lo \in Nat /\ hi \in Nat /\ size \in Nat /\ size <= Capacity
  BY <1>0, SlotRange DEF Mid, TypeOK, ProbeBounds
<1>2. TypeOK' BY <1>0, <1>1, SlotRange DEF TypeOK
<1>3. Sorted' /\ SlotsAgree' /\ CursorFirstUnexpanded' /\ KeepsClosest'
  BY <1>0 DEF Sorted, SlotsAgree, CursorFirstUnexpanded, KeepsClosest, InQueue, Fresh, Less
<1>4. \A i \in Mid .. size - 1 : Less(new, data[i])
  <2> SUFFICES ASSUME NEW i \in Mid .. size - 1, i # Mid PROVE Less(new, data[i])
    BY <1>0
  <2>1. Less(data[Mid], data[i]) BY <1>1 DEF Sorted
  <2> QED BY <1>0, <1>1, <2>1, SlotRange, LessOrder DEF TypeOK
<1>5. ProbeBounds'
  BY <1>0, <1>1, <1>4 DEF ProbeBounds, Fresh, WorseThanAll, Less
<1> QED BY <1>0, <1>2, <1>3, <1>5

\* A probe that goes right keeps every slot below the new lo closer.
LEMMA ProbeRightSafety == ASSUME SafetyInv, ProbeRight PROVE SafetyInv'
<1> USE DEF SafetyInv
<1>0. /\ UNCHANGED <<dist, data, size, curUnexpanded, pc, new, hi, offered, expanded>>
      /\ pc = "probe" /\ lo < hi /\ lo' = Mid + 1
      /\ ~Less(new, data[Mid]) /\ data[Mid].id # new.id
  BY DEF ProbeRight
<1>1. /\ Mid \in Nat /\ lo <= Mid /\ Mid < hi /\ hi <= size
      /\ lo \in Nat /\ hi \in Nat /\ size \in Nat /\ size <= Capacity
  BY <1>0, SlotRange DEF Mid, TypeOK, ProbeBounds
<1>2. TypeOK' BY <1>0, <1>1, SlotRange DEF TypeOK
<1>3. Sorted' /\ SlotsAgree' /\ CursorFirstUnexpanded' /\ KeepsClosest'
  BY <1>0 DEF Sorted, SlotsAgree, CursorFirstUnexpanded, KeepsClosest, InQueue, Fresh, Less
<1>4. Less(data[Mid], new)
  BY <1>0, <1>1, SlotRange, LessOrder DEF TypeOK
<1>5. \A i \in 0 .. Mid : Less(data[i], new)
  <2> SUFFICES ASSUME NEW i \in 0 .. Mid, i # Mid PROVE Less(data[i], new)
    BY <1>4
  <2>1. Less(data[i], data[Mid]) BY <1>1 DEF Sorted
  <2> QED BY <1>1, <1>4, <2>1, SlotRange, LessOrder DEF TypeOK
<1>6. ProbeBounds'
  BY <1>0, <1>1, <1>5 DEF ProbeBounds, Fresh, WorseThanAll, Less
<1> QED BY <1>0, <1>2, <1>3, <1>6

LEMMA ProbeFoundSafety == ASSUME SafetyInv, ProbeFound PROVE SafetyInv'
<1> USE DEF SafetyInv
<1>0. /\ UNCHANGED <<dist, data, size, curUnexpanded, new, lo, hi, expanded>>
      /\ pc = "probe" /\ lo < hi /\ pc' = "idle"
      /\ data[Mid].id = new.id /\ offered' = offered \union {new.id}
  BY DEF ProbeFound
<1>1. new.id \in Ids /\ Mid \in 0 .. size - 1
  BY <1>0, SlotRange DEF ProbeBounds, Mid, TypeOK
<1>2. TypeOK' BY <1>0, <1>1 DEF TypeOK
<1>3. Sorted' /\ SlotsAgree' /\ CursorFirstUnexpanded'
  BY <1>0 DEF Sorted, SlotsAgree, CursorFirstUnexpanded, Less
<1>4. InQueue(new.id) BY <1>0, <1>1 DEF InQueue
<1>5. KeepsClosest' BY <1>0, <1>4 DEF KeepsClosest, InQueue, Fresh, Less
<1>6. ProbeBounds' /\ expanded' \subseteq offered' BY <1>0 DEF ProbeBounds
<1> QED BY <1>2, <1>3, <1>5, <1>6

\* When the bounds meet, the candidate is not in the list, its slot is not the
\* spare one, and it was never handed out: what a full list pushed out is
\* farther than all of it and would have been turned away.
LEMMA InsertEndFresh ==
  ASSUME SafetyInv, InsertEnd
  PROVE  /\ lo \in 0 .. size /\ lo < Capacity
         /\ \A i \in 0 .. lo - 1 : Less(data[i], new)
         /\ \A i \in lo .. size - 1 : Less(new, data[i])
         /\ new = Fresh(new.id) /\ new.id \in Ids
         /\ \A i \in 0 .. size - 1 : data[i].id # new.id
         /\ new.id \notin expanded
<1> USE DEF SafetyInv
<1>1. /\ lo = hi /\ lo \in 0 .. size /\ new.id \in Ids /\ new = Fresh(new.id)
      /\ ~WorseThanAll(new)
      /\ \A i \in 0 .. lo - 1 : Less(data[i], new)
      /\ \A i \in lo .. size - 1 : Less(new, data[i])
  BY SlotRange DEF InsertEnd, ProbeBounds, TypeOK
<1>2. lo < Capacity
  <2> SUFFICES ASSUME lo = size, size = Capacity PROVE FALSE
    BY <1>1, SlotRange
  <2>1. Less(data[size - 1], new) BY <1>1, SlotRange
  <2> QED BY <1>1, <2>1 DEF WorseThanAll
<1>3. \A i \in 0 .. size - 1 : data[i].id # new.id
  <2> SUFFICES ASSUME NEW i \in 0 .. size - 1, data[i].id = new.id PROVE FALSE
    OBVIOUS
  <2>1. data[i].distance = new.distance BY <1>1, FreshType DEF SlotsAgree
  <2>2. ~Less(data[i], new) /\ ~Less(new, data[i])
    BY <2>1, SlotRange DEF Less, Candidate, TypeOK
  <2> QED BY <1>1, <2>2, SlotRange
<1>4. new.id \notin expanded
  <2> SUFFICES ASSUME new.id \in expanded PROVE FALSE
    OBVIOUS
  <2>1. ~InQueue(new.id) BY <1>3 DEF InQueue
  <2>2. size = Capacity /\ \A i \in 0 .. size - 1 : Less(data[i], new)
    BY <1>1, <2>1 DEF KeepsClosest
  <2>3. Less(data[size - 1], new) BY <2>2, SlotRange
  <2> QED BY <1>1, <2>2, <2>3 DEF WorseThanAll
<1> QED BY <1>1, <1>2, <1>3, <1>4

LEMMA InsertEndSafety == ASSUME SafetyInv, InsertEnd PROVE SafetyInv'
<1> USE DEF SafetyInv
<1>0. /\ UNCHANGED <<dist, new, lo, hi, expanded>>
      /\ data' = Shifted(lo, new) /\ pc' = "idle"
      /\ size' = IF size < Capacity THEN size + 1 ELSE size
      /\ curUnexpanded' = IF lo < curUnexpanded THEN lo ELSE curUnexpanded
      /\ offered' = offered \union {new.id}
  BY DEF InsertEnd, SizeAfterInsert, CursorAfterInsert
<1>1. /\ lo \in 0 .. size /\ lo < Capacity
      /\ \A i \in 0 .. lo - 1 : Less(data[i], new)
      /\ \A i \in lo .. size - 1 : Less(new, data[i])
      /\ new = Fresh(new.id) /\ new.id \in Ids
      /\ \A i \in 0 .. size - 1 : data[i].id # new.id
      /\ new.id \notin expanded
  BY InsertEndFresh
<1>t. /\ size \in Nat /\ Capacity \in Nat /\ curUnexpanded \in Nat /\ lo \in Nat
      /\ size <= Capacity /\ curUnexpanded <= size
      /\ \A i \in 0 .. size - 1 : data[i] \in Candidate
  BY <1>1, SlotRange
<1> DEFINE n == IF size < Capacity THEN size + 1 ELSE size
<1>n. size' = n BY <1>0
<1>2. /\ n \in Nat /\ n <= Capacity /\ size <= n /\ n <= size + 1
      /\ lo < n /\ (size < Capacity => n = size + 1)
  BY <1>1, <1>t
<1> HIDE DEF n
<1>3. \A i \in Slots :
        data'[i] = IF i = lo THEN new
                   ELSE IF lo < i /\ i <= size THEN data[i - 1] ELSE data[i]
  BY <1>0, <1>1 DEF Shifted
<1>4. \A i \in 0 .. n - 1 :
        /\ i \in Slots
        /\ i < lo => data'[i] = data[i] /\ i \in 0 .. size - 1
        /\ i = lo => data'[i] = new
        /\ i > lo => data'[i] = data[i - 1] /\ i - 1 \in lo .. size - 1
  <2> SUFFICES ASSUME NEW i \in 0 .. n - 1
               PROVE  /\ i \in Slots
                      /\ i < lo => data'[i] = data[i] /\ i \in 0 .. size - 1
                      /\ i = lo => data'[i] = new
                      /\ i > lo => data'[i] = data[i - 1] /\ i - 1 \in lo .. size - 1
    OBVIOUS
  <2>1. i \in Slots /\ i <= size BY <1>2, <1>t DEF Slots
  <2>2. i < lo => data'[i] = data[i] /\ i \in 0 .. size - 1
    BY <1>1, <1>3, <2>1, <1>t
  <2>3. i = lo => data'[i] = new BY <1>3, <2>1
  <2>4. i > lo => data'[i] = data[i - 1] BY <1>1, <1>3, <2>1, <1>t
  <2>5. i > lo => i - 1 \in lo .. size - 1 BY <1>1, <2>1, <1>t
  <2> QED BY <2>1, <2>2, <2>3, <2>4, <2>5
<1>5. TypeOK'
  <2>1. data' \in [Slots -> Candidate]
    BY <1>0, <1>1, <1>t DEF Shifted, TypeOK, Slots
  <2>2. curUnexpanded' \in 0 .. n BY <1>0, <1>1, <1>2, <1>t
  <2> QED BY <1>0, <1>1, <1>2, <1>n, <2>1, <2>2 DEF TypeOK
<1>6. Sorted'
  <2> SUFFICES ASSUME NEW i \in 0 .. n - 1, NEW j \in 0 .. n - 1, i < j
               PROVE  Less(data'[i], data'[j])
    BY <1>0, <1>n DEF Sorted, Less
  <2>1. CASE i < lo /\ j < lo BY <1>4, <2>1 DEF Sorted
  <2>2. CASE i < lo /\ j = lo BY <1>1, <1>4, <2>2
  <2>3. CASE i < lo /\ j > lo
    BY <1>1, <1>4, <2>3, <1>t DEF Sorted
  <2>4. CASE i = lo /\ j > lo BY <1>1, <1>4, <2>4
  <2>5. CASE i > lo /\ j > lo
    <3>1. i - 1 < j - 1 /\ i - 1 \in 0 .. size - 1 /\ j - 1 \in 0 .. size - 1
      BY <1>1, <1>4, <2>5, <1>t
    <3> QED BY <1>4, <2>5, <3>1 DEF Sorted
  <2> QED BY <1>1, <1>2, <2>1, <2>2, <2>3, <2>4, <2>5
<1>7. SlotsAgree'
  <2> SUFFICES ASSUME NEW i \in 0 .. n - 1
               PROVE  /\ data'[i].id \in offered'
                      /\ data'[i].distance = dist[data'[i].id]
                      /\ data'[i].expanded <=> data'[i].id \in expanded
    BY <1>0, <1>n DEF SlotsAgree
  <2>1. CASE i < lo BY <1>0, <1>4, <2>1 DEF SlotsAgree
  <2>2. CASE i = lo BY <1>0, <1>1, <1>4, <2>2, FreshType
  <2>3. CASE i > lo
    <3>1. i - 1 \in 0 .. size - 1 BY <1>1, <1>4, <2>3
    <3> QED BY <1>0, <1>4, <2>3, <3>1 DEF SlotsAgree
  <2> QED BY <1>1, <1>2, <2>1, <2>2, <2>3
<1>8. CursorFirstUnexpanded'
  <2>1. CASE lo < curUnexpanded
    <3>1. curUnexpanded' = lo BY <1>0, <2>1
    <3>2. \A i \in 0 .. lo - 1 : data'[i].expanded
      <4> SUFFICES ASSUME NEW i \in 0 .. lo - 1 PROVE data'[i].expanded
        OBVIOUS
      <4>1. data'[i] = data[i] BY <1>1, <1>t, <1>2, <1>4
      <4> QED BY <1>1, <2>1, <4>1, <1>t DEF CursorFirstUnexpanded
    <3>3. ~data'[lo].expanded
      <4>1. data'[lo] = new BY <1>1, <1>t, <1>2, <1>4
      <4> QED BY <1>1, <4>1, FreshType
    <3> QED BY <1>n, <3>1, <3>2, <3>3 DEF CursorFirstUnexpanded
  <2>2. CASE ~(lo < curUnexpanded)
    <3>1. curUnexpanded' = curUnexpanded BY <1>0, <2>2
    <3>2. \A i \in 0 .. curUnexpanded - 1 : data'[i].expanded
      <4> SUFFICES ASSUME NEW i \in 0 .. curUnexpanded - 1 PROVE data'[i].expanded
        OBVIOUS
      <4>1. data'[i] = data[i] BY <1>1, <1>t, <1>2, <1>4, <2>2, <1>t
      <4> QED BY <4>1 DEF CursorFirstUnexpanded
    <3>3. ASSUME curUnexpanded < n PROVE ~data'[curUnexpanded].expanded
      <4>1. CASE curUnexpanded = lo
        <5>1. data'[curUnexpanded] = new BY <1>1, <1>t, <1>2, <1>4, <4>1
        <5> QED BY <1>1, <5>1, FreshType
      <4>2. CASE curUnexpanded # lo
        <5>1. curUnexpanded < lo BY <1>1, <2>2, <4>2, <1>t
        <5>2. data'[curUnexpanded] = data[curUnexpanded] /\ curUnexpanded < size
          BY <1>1, <1>t, <1>2, <1>4, <5>1, <1>t
        <5> QED BY <5>2 DEF CursorFirstUnexpanded
      <4> QED BY <4>1, <4>2
    <3> QED BY <1>n, <3>1, <3>2, <3>3 DEF CursorFirstUnexpanded
  <2> QED BY <2>1, <2>2
<1>9. KeepsClosest'
  <2> SUFFICES ASSUME NEW id \in offered', ~InQueue(id)'
               PROVE  /\ n = Capacity
                      /\ \A i \in 0 .. n - 1 : Less(data'[i], Fresh(id)')
    BY <1>n DEF KeepsClosest, Less, Fresh
  <2>1. Fresh(id)' = Fresh(id) BY <1>0 DEF Fresh
  <2>2. \A i \in 0 .. n - 1 : data'[i].id # id BY <1>n DEF InQueue
  <2>3. id \in offered /\ id # new.id /\ id \in Ids
    BY <1>0, <1>1, <1>t, <1>2, <1>4, <2>2 DEF TypeOK
  <2>4. CASE InQueue(id)
    <3>1. PICK k \in 0 .. size - 1 : data[k].id = id BY <2>4 DEF InQueue
    <3>2. ~(k < lo)
      <4> SUFFICES ASSUME k < lo PROVE FALSE
        OBVIOUS
      <4>1. k \in 0 .. n - 1 /\ data'[k] = data[k] BY <1>1, <1>t, <1>2, <1>4
      <4> QED BY <2>2, <3>1, <4>1
    <3>3. n = size /\ size = Capacity /\ k = size - 1
      <4>1. ~(k + 1 \in 0 .. n - 1)
        <5> SUFFICES ASSUME k + 1 \in 0 .. n - 1 PROVE FALSE
          OBVIOUS
        <5>1. k + 1 > lo /\ (k + 1) - 1 = k BY <1>1, <3>2
        <5>2. data'[k + 1] = data[k] BY <1>4, <5>1
        <5> QED BY <2>2, <3>1, <5>2
      <4> QED BY <1>2, <3>1, <4>1, <1>t
    <3>4. data[k] \in Candidate /\ data[k].id = id /\ data[k].distance = dist[id]
      BY <3>1, <1>t DEF SlotsAgree
    <3>5. \A i \in 0 .. size - 1 : Less(data'[i], data[k])
      <4> SUFFICES ASSUME NEW i \in 0 .. size - 1 PROVE Less(data'[i], data[k])
        OBVIOUS
      <4>1. CASE i < lo
        <5>1. i < k /\ data'[i] = data[i] BY <1>1, <1>4, <3>1, <3>2, <3>3, <4>1
        <5> QED BY <5>1 DEF Sorted
      <4>2. CASE i = lo
        BY <1>1, <1>4, <3>1, <3>2, <3>3, <4>2
      <4>3. CASE i > lo
        <5>1. data'[i] = data[i - 1] /\ i - 1 \in 0 .. size - 1 /\ i - 1 < k
          BY <1>1, <1>4, <3>3, <4>3, <1>t
        <5> QED BY <5>1 DEF Sorted
      <4> QED BY <1>1, <4>1, <4>2, <4>3
    <3> QED BY <2>1, <2>3, <3>3, <3>4, <3>5, FreshType DEF Less
  <2>5. CASE ~InQueue(id)
    <3>1. size = Capacity /\ \A i \in 0 .. size - 1 : Less(data[i], Fresh(id))
      BY <2>3, <2>5 DEF KeepsClosest
    <3>2. Fresh(id) \in Candidate /\ new \in Candidate
      BY <2>3, FreshType DEF TypeOK
    <3>3. n = Capacity BY <1>2, <1>t, <3>1
    <3>4. Less(new, Fresh(id))
      <4>1. Less(new, data[lo]) /\ Less(data[lo], Fresh(id)) /\ data[lo] \in Candidate
        BY <1>1, <1>t, <3>1
      <4> QED BY <3>2, <4>1, LessOrder
    <3>5. \A i \in 0 .. n - 1 : Less(data'[i], Fresh(id))
      <4> SUFFICES ASSUME NEW i \in 0 .. n - 1 PROVE Less(data'[i], Fresh(id))
        OBVIOUS
      <4>1. CASE i < lo BY <1>4, <3>1, <4>1
      <4>2. CASE i = lo BY <1>4, <3>4, <4>2
      <4>3. CASE i > lo
        <5>1. i - 1 \in 0 .. size - 1 BY <1>1, <1>t, <1>4, <4>3
        <5> QED BY <1>4, <3>1, <4>3, <5>1
      <4> QED BY <1>1, <1>2, <4>1, <4>2, <4>3
    <3> QED BY <2>1, <3>3, <3>5
  <2> QED BY <2>4, <2>5
<1>10. ProbeBounds' /\ expanded' \subseteq offered' BY <1>0 DEF ProbeBounds
<1> QED BY <1>5, <1>6, <1>7, <1>8, <1>9, <1>10

\* Handing out a candidate only raises its own flag.
LEMMA ExpandSafety == ASSUME SafetyInv, Expand PROVE SafetyInv'
<1> USE DEF SafetyInv
<1>0. /\ UNCHANGED <<dist, size, pc, new, lo, hi, offered>>
      /\ curUnexpanded < size /\ pc = "idle"
      /\ data' = [data EXCEPT ![curUnexpanded].expanded = TRUE]
      /\ expanded' = expanded \union {data[curUnexpanded].id}
  BY DEF Expand, FirstUnexpandedFrom
<1>1. PICK next \in curUnexpanded .. size :
        /\ \A i \in curUnexpanded .. next - 1 : data'[i].expanded
        /\ next < size => ~data'[next].expanded
        /\ curUnexpanded' = next
  BY DEF Expand, FirstUnexpandedFrom
<1>t. /\ size \in Nat /\ Capacity \in Nat /\ curUnexpanded \in Nat
      /\ size <= Capacity /\ curUnexpanded <= size
      /\ \A i \in 0 .. size - 1 : data[i] \in Candidate /\ i \in Slots
  BY SlotRange
<1>2. \A i \in 0 .. size - 1 :
        /\ data'[i].id = data[i].id /\ data'[i].distance = data[i].distance
        /\ i # curUnexpanded => data'[i] = data[i]
        /\ i = curUnexpanded => data'[i].expanded
  BY <1>0, <1>t DEF TypeOK, Candidate
<1>3. data[curUnexpanded].id \in offered
  BY <1>0, <1>t DEF SlotsAgree
<1>4. TypeOK'
  <2>1. data' \in [Slots -> Candidate] BY <1>0, <1>t DEF TypeOK, Candidate
  <2>2. curUnexpanded' \in 0 .. size BY <1>1, <1>t
  <2> QED BY <1>0, <1>3, <2>1, <2>2 DEF TypeOK
<1>5. Sorted' BY <1>0, <1>2 DEF Sorted, Less
<1>6. SlotsAgree'
  <2> SUFFICES ASSUME NEW i \in 0 .. size - 1
               PROVE  /\ data'[i].id \in offered
                      /\ data'[i].distance = dist[data'[i].id]
                      /\ data'[i].expanded <=> data'[i].id \in expanded'
    BY <1>0 DEF SlotsAgree
  <2>1. data[i].id \in offered /\ data[i].distance = dist[data[i].id]
        /\ (data[i].expanded <=> data[i].id \in expanded)
    BY DEF SlotsAgree
  <2>2. CASE i = curUnexpanded BY <1>0, <1>2, <2>1, <2>2
  <2>3. CASE i # curUnexpanded
    <3>1. curUnexpanded \in 0 .. size - 1 BY <1>0, <1>t
    <3>2. Less(data[i], data[curUnexpanded]) \/ Less(data[curUnexpanded], data[i])
      BY <2>3, <3>1, <1>t DEF Sorted
    <3>3. data[curUnexpanded].distance = dist[data[curUnexpanded].id]
      BY <3>1 DEF SlotsAgree
    <3>4. data[i].id # data[curUnexpanded].id
      <4> SUFFICES ASSUME data[i].id = data[curUnexpanded].id PROVE FALSE
        OBVIOUS
      <4>1. data[i].distance = data[curUnexpanded].distance BY <2>1, <3>3
      <4> QED BY <3>1, <3>2, <4>1, <1>t DEF Less, Candidate
    <3> QED BY <1>0, <1>2, <2>1, <2>3, <3>4
  <2> QED BY <2>2, <2>3
<1>7. CursorFirstUnexpanded'
  <2>1. \A i \in 0 .. next - 1 : data'[i].expanded
    <3> SUFFICES ASSUME NEW i \in 0 .. next - 1, i < curUnexpanded PROVE data'[i].expanded
      BY <1>1, <1>t
    <3>1. data'[i] = data[i] BY <1>0, <1>2, <1>t
    <3> QED BY <1>t, <3>1 DEF CursorFirstUnexpanded
  <2> QED BY <1>0, <1>1, <2>1 DEF CursorFirstUnexpanded
<1>8. KeepsClosest'
  <2> SUFFICES ASSUME NEW id \in offered, ~InQueue(id)'
               PROVE  /\ size = Capacity
                      /\ \A i \in 0 .. size - 1 : Less(data'[i], Fresh(id))
    BY <1>0 DEF KeepsClosest, Less, Fresh
  <2>1. ~InQueue(id) BY <1>0, <1>2 DEF InQueue
  <2> QED BY <1>2, <2>1 DEF KeepsClosest, Less
<1>9. ProbeBounds' /\ expanded' \subseteq offered'
  BY <1>0, <1>3 DEF ProbeBounds
<1> QED BY <1>4, <1>5, <1>6, <1>7, <1>8, <1>9

LEMMA NextSafety == SafetyInv /\ [Next]_vars => SafetyInv'
<1> SUFFICES ASSUME SafetyInv, [Next]_vars PROVE SafetyInv'
  OBVIOUS
<1>1. CASE Clear BY <1>1, ClearSafety
<1>2. CASE \E id \in Ids : InsertRejected(id) BY <1>2, InsertRejectedSafety
<1>3. CASE \E id \in Ids : InsertBegin(id) BY <1>3, InsertBeginSafety
<1>4. CASE ProbeLeft BY <1>4, ProbeLeftSafety
<1>5. CASE ProbeFound BY <1>5, ProbeFoundSafety
<1>6. CASE ProbeRight BY <1>6, ProbeRightSafety
<1>7. CASE InsertEnd BY <1>7, InsertEndSafety
<1>8. CASE Expand BY <1>8, ExpandSafety
<1>9. CASE UNCHANGED vars
  BY <1>9 DEF vars, SafetyInv, TypeOK, Sorted, SlotsAgree, CursorFirstUnexpanded,
              KeepsClosest, InQueue, ProbeBounds, Fresh, WorseThanAll, Less
<1> QED BY <1>1, <1>2, <1>3, <1>4, <1>5, <1>6, <1>7, <1>8, <1>9 DEF Next

LEMMA SpecSafety == Spec => []SafetyInv
BY InitSafety, NextSafety, PTL DEF Spec
-----------------------------------------------------------------------------
\* The list of a search is well typed: in particular the cursor never leaves
\* the live slots and no store leaves the array.
THEOREM TypeCorrect == Spec => []TypeOK
<1>1. SafetyInv => TypeOK BY DEF SafetyInv
<1> QED BY <1>1, SpecSafety, PTL

\* insert keeps the list in strict order, whatever is offered.
THEOREM AlwaysSorted == Spec => []Sorted
<1>1. SafetyInv => Sorted BY DEF SafetyInv
<1> QED BY <1>1, SpecSafety, PTL

\* The cursor is always on the closest candidate not handed out yet.
THEOREM CursorCorrect == Spec => []CursorFirstUnexpanded
<1>1. SafetyInv => CursorFirstUnexpanded BY DEF SafetyInv
<1> QED BY <1>1, SpecSafety, PTL

\* The list is at all times the Capacity closest ids offered to it.
THEOREM AlwaysClosest == Spec => []KeepsClosest
<1>1. SafetyInv => KeepsClosest BY DEF SafetyInv
<1> QED BY <1>1, SpecSafety, PTL

\* For every capacity and whatever is offered, the array is a bounded best-first
\* set: in strict order, every flag with its candidate, the cursor on the closest
\* not handed out, and nothing closer left out.
THEOREM ListAlwaysBestFirst == Spec => []ListIsBestFirst
<1>1. SafetyInv => ListIsBestFirst BY DEF SafetyInv, ListIsBestFirst
<1> QED BY <1>1, SpecSafety, PTL

\* get_closest_unexpanded hands out an id at most once per query, so a graph
\* search expands at most as many nodes as the graph has.
THEOREM AtMostOneExpansion == Spec => ExpandsOnce
<1>1. SafetyInv /\ [Next]_vars => [Expand => data[curUnexpanded].id \notin expanded]_vars
  <2> SUFFICES ASSUME SafetyInv, Expand PROVE data[curUnexpanded].id \notin expanded
    OBVIOUS
  <2>1. curUnexpanded \in 0 .. size - 1 /\ ~data[curUnexpanded].expanded
    BY SlotRange DEF SafetyInv, Expand, CursorFirstUnexpanded
  <2> QED BY <2>1 DEF SafetyInv, SlotsAgree
<1> QED BY <1>1, SpecSafety, PTL DEF Spec, ExpandsOnce
-----------------------------------------------------------------------------
\* For the abstract queue: only finitely many ids were offered, and the list is
\* what it calls Kept.
Kept == BestFirstSet!Kept
Closer(a, b) == BestFirstSet!Closer(a, b)

RefinementInv == SafetyInv /\ IsFiniteSet(offered)

CloserThan(a) == {b \in offered : BestFirstSet!Closer(b, a)}

\* FiniteSets counts alike in the abstract queue's module.
LEMMA SameCount == \A S : BestFirstSet!Cardinality(S) = Cardinality(S)
BY DEF Cardinality, BestFirstSet!Cardinality

LEMMA KeptAre == Kept = {a \in offered : Cardinality(CloserThan(a)) < Capacity}
<1>1. Kept = {a \in offered : BestFirstSet!Cardinality(CloserThan(a)) < Capacity}
  BY Zenon DEF Kept, CloserThan, BestFirstSet!Kept
<1> QED BY <1>1, SameCount

LEMMA FiniteStep == SafetyInv /\ IsFiniteSet(offered) /\ [Next]_vars => IsFiniteSet(offered')
<1> SUFFICES ASSUME SafetyInv, IsFiniteSet(offered), [Next]_vars PROVE IsFiniteSet(offered')
  OBVIOUS
<1>1. offered' = offered \/ offered' = {} \/ \E id : offered' = offered \union {id}
  BY DEF Next, vars, Clear, InsertRejected, InsertBegin, ProbeLeft, ProbeFound, ProbeRight,
         InsertEnd, Expand
<1> QED BY <1>1, FS_EmptySet, FS_AddElement

LEMMA RefinementInvHolds == Spec => []RefinementInv
<1>1. Init => RefinementInv
  BY InitSafety, FS_EmptySet DEF RefinementInv, Init
<1>2. RefinementInv /\ [Next]_vars => RefinementInv'
  BY NextSafety, FiniteStep DEF RefinementInv
<1> QED BY <1>1, <1>2, PTL DEF Spec

\* In the list, the order of the slots is the order of the ids.
LEMMA SlotOrder ==
  ASSUME SafetyInv, NEW i \in 0 .. size - 1, NEW j \in 0 .. size - 1
  PROVE  /\ data[i].id \in Ids /\ data[i].id \in offered
         /\ Closer(data[i].id, data[j].id) <=> i < j
         /\ data[i].id = data[j].id => i = j
<1> USE DEF SafetyInv
<1>1. \A k \in 0 .. size - 1 : /\ data[k] \in Candidate /\ data[k].id \in offered
                               /\ data[k].distance = dist[data[k].id]
  BY SlotRange DEF SlotsAgree
<1>2. size \in Nat /\ offered \subseteq Ids
  BY DEF TypeOK
<1>3. i < j => Less(data[i], data[j])
  BY DEF Sorted
<1>4. j < i => Less(data[j], data[i])
  BY DEF Sorted
<1>5. i = j \/ i < j \/ j < i
  BY <1>2
<1>6. Less(data[i], data[j]) <=> Closer(data[i].id, data[j].id)
  BY <1>1 DEF Less, Closer, BestFirstSet!Closer
<1>7. Less(data[j], data[i]) => ~Less(data[i], data[j])
  BY <1>1, LessOrder
<1>8. ~Less(data[i], data[i]) /\ ~Less(data[j], data[j])
  BY <1>1, LessOrder
<1>9. i = j => ~(i < j)
  BY <1>2
<1>10. j < i => ~(i < j)
  BY <1>2
<1>11. Closer(data[i].id, data[j].id) <=> i < j
  BY <1>3, <1>4, <1>5, <1>6, <1>7, <1>8, <1>9, <1>10
<1>12. data[i].id = data[j].id => ~Less(data[i], data[j]) /\ ~Less(data[j], data[i])
  BY <1>1 DEF Less, Candidate
<1>13. data[i].id = data[j].id => i = j
  BY <1>3, <1>4, <1>5, <1>12
<1> QED BY <1>1, <1>2, <1>11, <1>13

\* The ids of the first n slots are n.
FirstIds(n) == {data[i].id : i \in 0 .. n - 1}

LEMMA CountFirst ==
  ASSUME SafetyInv, NEW n \in 0 .. size
  PROVE  IsFiniteSet(FirstIds(n)) /\ Cardinality(FirstIds(n)) = n
<1> DEFINE f == [k \in 1 .. n |-> data[k - 1].id]
<1>1. size \in Nat /\ n \in Nat /\ n <= size
  BY SlotRange DEF SafetyInv
<1>2. \A k \in 1 .. n : k - 1 \in 0 .. n - 1 /\ k - 1 \in 0 .. size - 1
  BY <1>1
<1>3. \A i \in 0 .. n - 1 : i + 1 \in 1 .. n /\ (i + 1) - 1 = i
  BY <1>1
<1>4. f \in Injection(1 .. n, FirstIds(n))
  <2>1. f \in [1 .. n -> FirstIds(n)]
    BY <1>2 DEF FirstIds
  <2>2. \A k, l \in 1 .. n : data[k - 1].id = data[l - 1].id => k - 1 = l - 1
    BY <1>2, SlotOrder
  <2>3. \A k, l \in 1 .. n : f[k] = f[l] => k = l
    BY <2>2
  <2> QED BY <2>1, <2>3 DEF Injection, IsInjective
<1>5. f \in Surjection(1 .. n, FirstIds(n))
  <2>1. f \in [1 .. n -> FirstIds(n)]
    BY <1>2 DEF FirstIds
  <2>2. \A x \in FirstIds(n) : \E k \in 1 .. n : f[k] = x
    BY <1>3 DEF FirstIds
  <2> QED BY <2>1, <2>2 DEF Surjection
<1>6. ExistsBijection(1 .. n, FirstIds(n))
  <2> HIDE DEF f
  <2> QED BY <1>4, <1>5 DEF Bijection, ExistsBijection
<1>7. IsFiniteSet(1 .. n)
  <2>1. 1 \in Int /\ n \in Int BY <1>1
  <2> QED BY <2>1, FS_Interval
<1> QED BY <1>1, <1>6, <1>7, FS_CountingElements, FS_Bijection

\* The list holds what the abstract queue keeps.
LEMMA ListIsKept ==
  ASSUME RefinementInv
  PROVE  Kept = {data[i].id : i \in 0 .. size - 1}
<1> USE DEF RefinementInv, SafetyInv
<1>1. /\ size \in Nat /\ Capacity \in Nat /\ size <= Capacity /\ offered \subseteq Ids
      /\ \A i \in 0 .. size - 1 : data[i] \in Candidate /\ data[i].distance = dist[data[i].id]
  BY SlotRange DEF TypeOK, SlotsAgree
<1>2. \A a \in offered : ~InQueue(a) =>
        /\ size = Capacity
        /\ \A i \in 0 .. size - 1 : Closer(data[i].id, a) /\ ~Closer(a, data[i].id)
  <2> SUFFICES ASSUME NEW a \in offered, ~InQueue(a), NEW i \in 0 .. size - 1
               PROVE  Closer(data[i].id, a) /\ ~Closer(a, data[i].id)
    BY DEF KeepsClosest
  <2>1. Less(data[i], Fresh(a))
    BY DEF KeepsClosest
  <2>2. Fresh(a) \in Candidate /\ Fresh(a).id = a /\ Fresh(a).distance = dist[a]
    BY <1>1, FreshType
  <2>3. ~Less(Fresh(a), data[i])
    BY <1>1, <2>1, <2>2, LessOrder
  <2> QED BY <1>1, <2>1, <2>2, <2>3 DEF Less, Closer, BestFirstSet!Closer
<1>3. ASSUME NEW k \in 0 .. size - 1
      PROVE  data[k].id \in Kept
  <2>1. CloserThan(data[k].id) = FirstIds(k)
    <3>1. ASSUME NEW b \in offered, Closer(b, data[k].id) PROVE b \in FirstIds(k)
      <4>1. PICK i \in 0 .. size - 1 : data[i].id = b
        BY <1>2, <3>1 DEF InQueue
      <4>2. i < k BY <3>1, <4>1, SlotOrder
      <4> QED BY <1>1, <4>1, <4>2 DEF FirstIds
    <3>2. ASSUME NEW i \in 0 .. k - 1 PROVE data[i].id \in offered /\ Closer(data[i].id, data[k].id)
      <4>1. i \in 0 .. size - 1 /\ i < k BY <1>1
      <4> QED BY <4>1, SlotOrder
    <3> QED BY <3>1, <3>2 DEF FirstIds, CloserThan, Closer
  <2>2. k \in 0 .. size /\ k < Capacity BY <1>1
  <2>3. Cardinality(CloserThan(data[k].id)) < Capacity
    BY <2>1, <2>2, CountFirst
  <2>4. data[k].id \in offered BY SlotOrder
  <2> QED BY <2>3, <2>4, KeptAre
<1>4. ASSUME NEW a \in Kept, ~InQueue(a) PROVE FALSE
  <2>1. a \in offered /\ Cardinality(CloserThan(a)) < Capacity
    BY KeptAre
  <2>2. size = Capacity /\ FirstIds(size) \subseteq CloserThan(a)
    BY <1>2, <1>4, <2>1, SlotOrder DEF FirstIds, CloserThan, Closer
  <2>3. IsFiniteSet(CloserThan(a))
    BY FS_Subset DEF CloserThan
  <2>4. size \in 0 .. size BY <1>1
  <2>5. Cardinality(FirstIds(size)) <= Cardinality(CloserThan(a)) /\ Cardinality(CloserThan(a)) \in Nat
    BY <2>2, <2>3, FS_Subset, FS_CardinalityType
  <2> QED BY <1>1, <2>1, <2>2, <2>4, <2>5, CountFirst
<1>5. \A a \in Kept : a \in {data[i].id : i \in 0 .. size - 1}
  BY <1>4 DEF InQueue
<1> QED BY <1>3, <1>5

\* What is handed out is the closest of what is kept and was not handed out.
LEMMA ExpandRefines ==
  ASSUME RefinementInv, Expand
  PROVE  \E id \in Ids : BestFirstSet!Expand(id)
<1> DEFINE id == data[curUnexpanded].id
<1>1. /\ curUnexpanded \in 0 .. size - 1 /\ ~data[curUnexpanded].expanded /\ size \in Nat
      /\ expanded' = expanded \union {id} /\ UNCHANGED <<dist, offered>>
  BY SlotRange DEF RefinementInv, SafetyInv, Expand, CursorFirstUnexpanded
<1>2. id \in Ids /\ id \in Kept /\ id \notin expanded
  BY <1>1, ListIsKept, SlotOrder DEF RefinementInv, SafetyInv, SlotsAgree
<1>3. ASSUME NEW other \in Kept \ expanded PROVE other = id \/ Closer(id, other)
  <2>1. PICK j \in 0 .. size - 1 : data[j].id = other
    BY ListIsKept
  <2>2. ~data[j].expanded
    BY <1>3, <2>1 DEF RefinementInv, SafetyInv, SlotsAgree
  <2>3. ~(j \in 0 .. curUnexpanded - 1)
    BY <2>2 DEF RefinementInv, SafetyInv, CursorFirstUnexpanded
  <2>4. j = curUnexpanded \/ curUnexpanded < j
    BY <1>1, <2>3
  <2> QED BY <1>1, <2>1, <2>4, SlotOrder DEF RefinementInv
<1> HIDE DEF id
<1>4. BestFirstSet!Expand(id)
  BY <1>1, <1>2, <1>3 DEF BestFirstSet!Expand, Kept, Closer
<1> QED BY <1>2, <1>4

\* Every step is an offer, a hand-out, a new query, or nothing to the callers.
LEMMA NextRefines ==
  ASSUME RefinementInv, [Next]_vars
  PROVE  [BestFirstSet!Next]_(BestFirstSet!vars)
<1>1. CASE Clear
  BY <1>1 DEF Clear, BestFirstSet!Next, BestFirstSet!NewQuery
<1>2. ASSUME NEW id \in Ids, offered' = offered \union {id}, UNCHANGED <<dist, expanded>>
      PROVE  BestFirstSet!Next
  BY <1>2 DEF BestFirstSet!Next, BestFirstSet!Offer
<1>3. CASE \E id \in Ids : InsertRejected(id)
  BY <1>2, <1>3 DEF InsertRejected
<1>4. CASE ProbeFound \/ InsertEnd
  <2>1. new.id \in Ids
    BY <1>4 DEF RefinementInv, SafetyInv, ProbeBounds, ProbeFound, InsertEnd
  <2> QED BY <1>2, <1>4, <2>1 DEF ProbeFound, InsertEnd
<1>5. CASE Expand
  BY <1>5, ExpandRefines DEF BestFirstSet!Next
<1>6. CASE (\E id \in Ids : InsertBegin(id)) \/ ProbeLeft \/ ProbeRight \/ UNCHANGED vars
  BY <1>6 DEF InsertBegin, ProbeLeft, ProbeRight, vars, BestFirstSet!vars
<1> QED BY <1>1, <1>3, <1>4, <1>5, <1>6 DEF Next

\* For every capacity and whatever is offered in whatever order, the array with
\* its binary search and its cursor is the bounded best-first set the searches
\* take it for: it keeps the closest and hands out the closest of those.
THEOREM ImplementsBestFirst == Spec => RefinesBestFirst
<1>1. Init => BestFirstSet!Init
  BY DEF Init, BestFirstSet!Init
<1>2. RefinementInv /\ [Next]_vars => [BestFirstSet!Next]_(BestFirstSet!vars)
  BY NextRefines
<1> QED BY <1>1, <1>2, RefinementInvHolds, PTL DEF Spec, RefinesBestFirst, BestFirstSet!Spec
=============================================================================
