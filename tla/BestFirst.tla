-------------------------------- MODULE BestFirst --------------------------------
(***************************************************************************)
(* What a search queue promises to the searches that use it, without any   *)
(* array: of the ids offered since the query began it keeps the Capacity   *)
(* closest, and it hands out for expansion, closest first, kept ids that   *)
(* were not handed out before.                                             *)
(***************************************************************************)
EXTENDS Integers, FiniteSets

CONSTANTS
  Capacity,   \* how many candidates are kept
  Ids,        \* vector ids
  Dists       \* possible distances to a query

VARIABLES
  dist,       \* distance of every id to the current query
  offered,    \* ids offered since the query began
  expanded    \* ids handed out since the query began

vars == <<dist, offered, expanded>>

\* Candidate order: by distance, then by id, so that it is total.
Closer(a, b) == dist[a] < dist[b] \/ (dist[a] = dist[b] /\ a < b)

Kept == {a \in offered : Cardinality({b \in offered : Closer(b, a)}) < Capacity}

Init ==
  /\ dist \in [Ids -> Dists]
  /\ offered = {}
  /\ expanded = {}

Offer(id) ==
  /\ offered' = offered \union {id}
  /\ UNCHANGED <<dist, expanded>>

Expand(id) ==
  /\ id \in Kept \ expanded
  /\ \A other \in Kept \ expanded : other = id \/ Closer(id, other)
  /\ expanded' = expanded \union {id}
  /\ UNCHANGED <<dist, offered>>

NewQuery ==
  /\ dist' \in [Ids -> Dists]
  /\ offered' = {}
  /\ expanded' = {}

Next == NewQuery \/ \E id \in Ids : Offer(id) \/ Expand(id)

Spec == Init /\ [][Next]_vars
=============================================================================
