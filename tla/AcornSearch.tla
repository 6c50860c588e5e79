------------------------------- MODULE AcornSearch -------------------------------
(***************************************************************************)
(* IndexACORN::search with a filter, over the index AcornAdd builds: down   *)
(* the upper levels to the nearest vector that passes the filter, and on    *)
(* the base level a search through a MinimaxHeap, which keeps the slots of  *)
(* vectors it has handed out. Queries only read the index, so one is enough.*)
(***************************************************************************)
EXTENDS AcornAdd

CONSTANTS
  QueryDist,   \* the distances to all vectors, for each query vector
  Filters,     \* the sets of vectors filter_map lets pass
  Sizes        \* pairs of efSearch and k

ASSUME SearchAssumption ==
  /\ \A d \in QueryDist : \A x, y \in Points : d[x] \in Nat /\ (d[x] = d[y] => x = y)
  /\ \A filter \in Filters : IsFiniteSet(filter)
  /\ \A size \in Sizes : size[1] \in Nat \ {0} /\ size[2] \in Nat \ {0}

VARIABLE query

NoQuery == [mode |-> "none"]

Closest(d, S, n) == {x \in S : Cardinality({y \in S : d[y] < d[x]}) < n}
Passes(v) == v \in query.filter
-----------------------------------------------------------------------------
SearchInit == Init /\ query = NoQuery

AddOn == AddStep /\ UNCHANGED query

Ask ==
  /\ Built /\ fault = "none"
  /\ query = NoQuery
  /\ \E d \in QueryDist, filter \in Filters, size \in Sizes, bfs \in BOOLEAN :
       query' = [mode |-> "greedy", d |-> d, filter |-> filter, ef |-> size[1], k |-> size[2],
                 bfs |-> bfs, nearest |-> entryPoint, level |-> maxLevel,
                 heap |-> {}, taken |-> {}, nvalid |-> 0, lost |-> 0, seen |-> {}, found |-> {}]
  /\ UNCHANGED vars

\* (mutant: what fails the filter is taken, too)
LookAtAll(acc, v) ==
  IF acc.stop THEN acc
  ELSE [nearest |-> IF query.d[v] < query.d[acc.nearest] \/ ~Passes(acc.nearest) THEN v ELSE acc.nearest,
        num |-> acc.num + 1,
        stop |-> acc.num + 1 >= M]

\* a vector that passes counts, and is taken if it is nearer or the one in hand fails
Look(acc, v) ==
  IF acc.stop \/ ~Passes(v) THEN acc
  ELSE [nearest |-> IF query.d[v] < query.d[acc.nearest] \/ ~Passes(acc.nearest) THEN v ELSE acc.nearest,
        num |-> acc.num + 1,
        stop |-> acc.num + 1 >= M]

\* with gamma = 1 the neighbor's list is looked at as well, M at least once more
LookBeyond(acc, v) ==
  LET looked == Look(acc, v)
  IN IF looked.stop \/ gamma > 1 THEN looked
     ELSE [Fold(Look, looked, Links(neighbors, v, query.level)) EXCEPT !.stop = FALSE]

\* one round of hybrid_greedy_update_nearest
GreedyFiltered ==
  /\ query.mode = "greedy"
  /\ query.level >= 1
  /\ \E best \in {Fold(LookBeyond, [nearest |-> query.nearest, num |-> 0, stop |-> FALSE],
                       Links(neighbors, query.nearest, query.level)).nearest} :
       query' = IF best # query.nearest THEN [query EXCEPT !.nearest = best]
                ELSE [query EXCEPT !.level = query.level - 1]
  /\ UNCHANGED vars

\* the first candidate goes into the results whether it passes or not
Bottom ==
  /\ query.mode = "greedy"
  /\ query.level = 0
  /\ query' = [query EXCEPT !.mode = "search", !.heap = {query.nearest}, !.nvalid = 1,
                            !.seen = {query.nearest}, !.found = {query.nearest}]
  /\ UNCHANGED vars

Slots(q) == IF q.ef > q.k THEN q.ef ELSE q.k

\* (mutant: a push into a full heap counts)
OneMore(q) == q.nvalid + 1

\* a push into a full heap: one less for the slot it frees, one more for the vector
SlotForSlot(q) == q.nvalid

\* MinimaxHeap::push. A full heap frees the slot of its farthest vector, and
\* counts one vector less even if that one was handed out before.
Push(q, v) ==
  LET far == CHOOSE x \in q.heap : \A y \in q.heap : q.d[y] <= q.d[x]
  IN IF Cardinality(q.heap) < Slots(q) THEN [q EXCEPT !.heap = @ \union {v}, !.nvalid = @ + 1]
     ELSE IF q.d[v] >= q.d[far] THEN q
     ELSE [q EXCEPT !.heap = (@ \ {far}) \union {v}, !.taken = @ \ {far}, !.nvalid = SlotForSlot(q),
                    !.lost = IF far \in q.taken THEN @ + 1 ELSE @]

\* (mutant: what fails the filter is collected, too)
CollectedAll(q, v) == Closest(q.d, q.found \union {v}, q.k)

Collected(q, v) == IF Passes(v) THEN Closest(q.d, q.found \union {v}, q.k) ELSE q.found

\* A neighbor is counted (if_bfs_filter: seen or not) when it passes, and visited
\* if it is new (if_bfs_filter: and passes). 2 * M end the loop over a list.
Hop(acc, v) ==
  LET q == acc.q
      num == IF Passes(v) /\ (q.bfs \/ v \notin q.seen) THEN acc.num + 1 ELSE acc.num
  IN IF acc.stop THEN acc
     ELSE IF v \in q.seen \/ (q.bfs /\ ~Passes(v)) THEN [acc EXCEPT !.num = num]
     ELSE [acc EXCEPT !.q = Push([q EXCEPT !.seen = @ \union {v}, !.found = Collected(q, v)], v),
                      !.num = num, !.stop = num >= 2 * M]

\* and a new neighbor's own list, when M_beta or more came before it, until such
\* a list ended the loop once; with gamma = 1 always
HopBeyond(acc, v) ==
  LET hop == Hop(acc, v)
      beyond == Fold(Hop, hop, Links(neighbors, v, 0))
  IN IF acc.stop THEN acc
     ELSE IF ~hop.stop /\ v \notin acc.q.seen /\ (gamma = 1 \/ (acc.at >= MBeta /\ acc.keep))
     THEN [beyond EXCEPT !.at = @ + 1, !.keep = @ /\ ~beyond.stop, !.stop = FALSE]
     ELSE [hop EXCEPT !.at = @ + 1]

\* pop_min: the nearest of the vectors not handed out, if size() says there is one
PopMin ==
  {v \in query.heap \ query.taken :
     /\ query.nvalid > 0
     /\ \A x \in query.heap \ query.taken : query.d[v] <= query.d[x]}

CountBelow(v) == Cardinality({x \in query.heap : query.d[x] < query.d[v]})

\* one round of hybrid_search_from_candidates
Hybrid ==
  /\ query.mode = "search"
  /\ \E v \in PopMin :
       LET q == [query EXCEPT !.taken = @ \union {v}, !.nvalid = @ - 1]
       IN query' = IF CountBelow(v) >= query.ef THEN [q EXCEPT !.mode = "done"]
                   ELSE Fold(HopBeyond, [q |-> q, num |-> 0, stop |-> FALSE, keep |-> TRUE, at |-> 0],
                                 Links(neighbors, v, 0)).q
  /\ UNCHANGED vars

Exhausted ==
  /\ query.mode = "search"
  /\ query.nvalid = 0
  /\ query' = [query EXCEPT !.mode = "done"]
  /\ UNCHANGED vars

SearchStep == Ask \/ GreedyFiltered \/ Bottom \/ Hybrid \/ Exhausted

Ended == fault # "none" \/ query.mode = "done"

SearchNext ==
  \/ AddOn \/ SearchStep
  \/ Ended /\ UNCHANGED <<vars, query>>

SearchSpec ==
  /\ SearchInit /\ [][SearchNext]_<<vars, query>>
  /\ WF_<<vars, query>>(AddOn \/ SearchStep)
-----------------------------------------------------------------------------
\* What size() calls the number of candidates is as much below the number of
\* those not handed out as slots of handed out vectors were freed by pushes: it
\* never lets pop_min look for a candidate in vain, but a search may end, as
\* exhausted, with candidates nobody looked at.
HeapCounts ==
  query.mode = "search" =>
    /\ query.nvalid >= 0
    /\ query.nvalid + query.lost = Cardinality(query.heap \ query.taken)

\* the vectors the links of the base level lead to
Reach(S) ==
  LET links == [v \in Points |-> ToSet(Links(neighbors, v, 0))]
      closed == {R \in SUBSET Points : S \subseteq R /\ \A v \in R : links[v] \subseteq R}
  IN {v \in Points : \A R \in closed : v \in R}

\* A vector that fails the filter is an answer only if it is the entry point,
\* which the upper levels did not lead away from. And where the heap has room for
\* all vectors, and too few pass to end the loop over a list, the search that
\* goes on through vectors that fail ("只在添加结果时检查条件", check the condition
\* only for results) answers with the k closest that pass of all it can reach.
FilteredExact ==
  query.mode = "done" =>
    /\ query.found \subseteq query.filter \union {entryPoint}
    /\ ~query.bfs /\ query.ef >= NumPoints /\ Cardinality(query.filter) < 2 * M =>
         query.found = Closest(query.d, {query.nearest} \union (Reach({query.nearest}) \intersect query.filter),
                               query.k)

\* a round of a query gets it on: down a level, or to a vector that passes from
\* one that fails or is farther; to a vector not seen before, or with one
\* candidate less; to the next part of the search, or the end
Onward ==
  \/ /\ query.mode = "greedy" /\ query'.mode = "greedy"
     /\ \/ query'.level \in 0 .. query.level - 1 /\ query'.nearest = query.nearest
        \/ /\ query'.level = query.level /\ query'.nearest \in query.filter
           /\ query.nearest \in query.filter => query.d[query'.nearest] < query.d[query.nearest]
  \/ query.mode = "greedy" /\ query'.mode = "search"
  \/ /\ query.mode = "search" /\ query'.mode = "search"
     /\ query.seen \subseteq query'.seen
     /\ query'.seen = query.seen => query'.nvalid = query.nvalid - 1
  \/ query.mode = "search" /\ query'.mode = "done"

\* The loops of a search end without a bound on their rounds: no walk comes back
\* to a vector it left for a nearer one, although the filter makes it leave
\* vectors for others that are farther, and no vector is pushed twice, although
\* a full heap forgets some.
RoundsAdvance == [][query.mode \in {"greedy", "search"} => Onward]_query

\* Every call of add ends, and so does every query, unless memory was damaged.
AddedAndAnswered == <>Ended
=============================================================================
