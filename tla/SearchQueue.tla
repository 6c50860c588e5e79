------------------------------- MODULE SearchQueue -------------------------------
(***************************************************************************)
(* The bounded candidate list of every graph search (UNG/codes/src/        *)
(* search_queue.cpp): a sorted array with one spare slot, filled by binary *)
(* search and memmove, with a cursor on the closest unexpanded candidate.  *)
(* A queue belongs to one thread, so its steps interleave with nobody; the *)
(* binary search is a step per probe because its loop is what can be wrong.*)
(* data[Capacity] is the spare slot that a full queue shifts its worst     *)
(* candidate into, and slots from size on keep stale candidates.           *)
(***************************************************************************)
EXTENDS Integers

CONSTANTS
  Capacity,   \* reserve()'s argument: Lbuild, Lsearch, K or num_cross_edges
  Ids,        \* vector ids
  Dists       \* possible distances to a query

ASSUME CapacityAssumption == Capacity \in Nat \ {0}
ASSUME IdsAssumption == Ids \subseteq Nat
ASSUME DistsAssumption == Dists \subseteq Int

VARIABLES
  dist,           \* distance of every id to the query: equal ids, equal distances
  data,           \* _data
  size,           \* _size
  curUnexpanded,  \* _cur_unexpanded
  pc,             \* "idle", or "probe" inside insert's binary search
  new,            \* insert's new_candidate
  lo, hi,         \* insert's bounds
  offered,        \* history: ids whose insert returned since the last clear
  expanded        \* history: ids handed out since the last clear

vars == <<dist, data, size, curUnexpanded, pc, new, lo, hi, offered, expanded>>

Slots == 0 .. Capacity
Candidate == [id : Nat, distance : Int, expanded : BOOLEAN]
EmptySlot == [id |-> 0, distance |-> 0, expanded |-> FALSE]

\* Candidate::operator<
Less(a, b) ==
  \/ a.distance < b.distance
  \/ a.distance = b.distance /\ a.id < b.id

Fresh(id) == [id |-> id, distance |-> dist[id], expanded |-> FALSE]

\* (mutant: a list with room turns candidates away too)
WorseThanLast(c) == size > 0 /\ Less(data[size - 1], c)

\* insert's first test: the list is full and ends closer than the candidate
WorseThanAll(c) == size = Capacity /\ Less(data[size - 1], c)

\* (mutant: memmove of one candidate too few)
ShiftedShort(slot, c) ==
  [i \in Slots |->
     IF i = slot THEN c
     ELSE IF slot < i /\ i < size /\ slot < Capacity THEN data[i - 1]
     ELSE data[i]]

\* the array after memmove from slot to slot + 1 and the store
Shifted(slot, c) ==
  [i \in Slots |->
     IF i = slot THEN c
     ELSE IF slot < i /\ i <= size /\ slot < Capacity THEN data[i - 1]
     ELSE data[i]]

\* (mutant: a full list grows into its spare slot)
SizeUnchecked == size + 1

SizeAfterInsert == IF size < Capacity THEN size + 1 ELSE size

\* (mutants: the cursor stays, or goes back to the first slot)
CursorKept(slot) == curUnexpanded
CursorRestarted(slot) == IF slot < curUnexpanded THEN 0 ELSE curUnexpanded

CursorAfterInsert(slot) == IF slot < curUnexpanded THEN slot ELSE curUnexpanded

\* (mutant: the cursor moves one slot, expanded or not)
StopsAt(d, next) == next = curUnexpanded + 1

\* get_closest_unexpanded's loop over the array d ends at next
FirstUnexpandedFrom(d, next) ==
  /\ \A i \in curUnexpanded .. next - 1 : d[i].expanded
  /\ next < size => ~d[next].expanded
-----------------------------------------------------------------------------
Init ==
  /\ dist \in [Ids -> Dists]
  /\ data = [i \in Slots |-> EmptySlot]
  /\ size = 0
  /\ curUnexpanded = 0
  /\ pc = "idle"
  /\ new = EmptySlot
  /\ lo = 0
  /\ hi = 0
  /\ offered = {}
  /\ expanded = {}

\* clear(), called before the search of the next query
Clear ==
  /\ pc = "idle"
  /\ size' = 0
  /\ curUnexpanded' = 0
  /\ dist' \in [Ids -> Dists]
  /\ offered' = {}
  /\ expanded' = {}
  /\ UNCHANGED <<data, pc, new, lo, hi>>

InsertRejected(id) ==
  /\ pc = "idle"
  /\ WorseThanAll(Fresh(id))
  /\ offered' = offered \union {id}
  /\ UNCHANGED <<dist, data, size, curUnexpanded, pc, new, lo, hi, expanded>>

InsertBegin(id) ==
  /\ pc = "idle"
  /\ ~WorseThanAll(Fresh(id))
  /\ pc' = "probe"
  /\ new' = Fresh(id)
  /\ lo' = 0
  /\ hi' = size
  /\ UNCHANGED <<dist, data, size, curUnexpanded, offered, expanded>>

Mid == (lo + hi) \div 2

\* (mutant: the probed slot is excluded)
ProbeLeftPast ==
  /\ pc = "probe" /\ lo < hi
  /\ Less(new, data[Mid])
  /\ hi' = IF Mid = 0 THEN 0 ELSE Mid - 1
  /\ UNCHANGED <<dist, data, size, curUnexpanded, pc, new, lo, offered, expanded>>

ProbeLeft ==
  /\ pc = "probe" /\ lo < hi
  /\ Less(new, data[Mid])
  /\ hi' = Mid
  /\ UNCHANGED <<dist, data, size, curUnexpanded, pc, new, lo, offered, expanded>>

\* the same id is already in the list: insert returns
ProbeFound ==
  /\ pc = "probe" /\ lo < hi
  /\ ~Less(new, data[Mid])
  /\ data[Mid].id = new.id
  /\ pc' = "idle"
  /\ offered' = offered \union {new.id}
  /\ UNCHANGED <<dist, data, size, curUnexpanded, new, lo, hi, expanded>>

ProbeRight ==
  /\ pc = "probe" /\ lo < hi
  /\ ~Less(new, data[Mid])
  /\ data[Mid].id # new.id
  /\ lo' = Mid + 1
  /\ UNCHANGED <<dist, data, size, curUnexpanded, pc, new, hi, offered, expanded>>

InsertEnd ==
  /\ pc = "probe" /\ lo >= hi
  /\ data' = Shifted(lo, new)
  /\ size' = SizeAfterInsert
  /\ curUnexpanded' = CursorAfterInsert(lo)
  /\ pc' = "idle"
  /\ offered' = offered \union {new.id}
  /\ UNCHANGED <<dist, new, lo, hi, expanded>>

\* get_closest_unexpanded(), called when has_unexpanded_node()
Expand ==
  /\ pc = "idle"
  /\ curUnexpanded < size
  /\ data' = [data EXCEPT ![curUnexpanded].expanded = TRUE]
  /\ \E next \in curUnexpanded .. size :
       /\ FirstUnexpandedFrom(data', next)
       /\ curUnexpanded' = next
  /\ expanded' = expanded \union {data[curUnexpanded].id}
  /\ UNCHANGED <<dist, size, pc, new, lo, hi, offered>>

Next ==
  \/ Clear
  \/ \E id \in Ids : InsertRejected(id) \/ InsertBegin(id)
  \/ ProbeLeft \/ ProbeFound \/ ProbeRight \/ InsertEnd
  \/ Expand

Spec == Init /\ [][Next]_vars
-----------------------------------------------------------------------------
TypeOK ==
  /\ dist \in [Ids -> Dists]
  /\ data \in [Slots -> Candidate]
  /\ size \in 0 .. Capacity
  /\ curUnexpanded \in 0 .. size
  /\ pc \in {"idle", "probe"}
  /\ new \in Candidate
  /\ lo \in 0 .. Capacity
  /\ hi \in 0 .. Capacity
  /\ offered \subseteq Ids
  /\ expanded \subseteq Ids

\* The list is strictly ordered, so an id at its one distance occurs once.
Sorted == \A i, j \in 0 .. size - 1 : i < j => Less(data[i], data[j])

\* Every live slot is an offered id at its distance, flagged expanded exactly
\* when it was handed out: no shift loses or moves a flag.
SlotsAgree ==
  \A i \in 0 .. size - 1 :
    /\ data[i].id \in offered
    /\ data[i].distance = dist[data[i].id]
    /\ data[i].expanded <=> data[i].id \in expanded

\* The cursor sits on the first unexpanded candidate, or at the end.
CursorFirstUnexpanded ==
  /\ \A i \in 0 .. curUnexpanded - 1 : data[i].expanded
  /\ curUnexpanded < size => ~data[curUnexpanded].expanded

InQueue(id) == \E i \in 0 .. size - 1 : data[i].id = id

\* An offered id that is not in the list is farther than all of a full list:
\* the list holds the Capacity closest ids offered, whatever their order.
KeepsClosest ==
  \A id \in offered :
    \/ InQueue(id)
    \/ /\ size = Capacity
       /\ \A i \in 0 .. size - 1 : Less(data[i], Fresh(id))

\* The array is at all times what its callers take it for, a bounded best-first
\* set: whatever insert shifts, rejects or drops, and wherever it moves the
\* cursor, the next candidate is the closest not handed out of the closest offered.
ListIsBestFirst == Sorted /\ SlotsAgree /\ CursorFirstUnexpanded /\ KeepsClosest

\* A query never hands out an id twice, although neither insert nor the
\* callers' visited sets exclude an id that was pushed out of the list.
ExpandsOnce == [][Expand => data[curUnexpanded].id \notin expanded]_vars

\* The list implements the bounded best-first set.
BestFirstSet == INSTANCE BestFirst WITH
  Capacity <- Capacity, Ids <- Ids, Dists <- Dists,
  dist <- dist, offered <- offered, expanded <- expanded
RefinesBestFirst == BestFirstSet!Spec
=============================================================================
