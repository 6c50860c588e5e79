-------------------------------- MODULE AcornAdd --------------------------------
(***************************************************************************)
(* The construction of an ACORN index: IndexACORN::add, any number of       *)
(* times, and the threads that link a batch of vectors in parallel. A batch *)
(* is the vectors of one call that have the same top level; the batches go  *)
(* from the highest level down, with a barrier between two.                 *)
(*                                                                         *)
(* All links are in one array: neighbors[offsets[v] .. offsets[v + 1] - 1]  *)
(* holds the lists of v, level after level. The array has one slot more     *)
(* here, for a write behind it. A list is read, and written, as a whole;    *)
(* schedule(static) fixes which thread takes which vector, here any takes   *)
(* any. Distances to one vector are distinct.                               *)
(***************************************************************************)
EXTENDS Integers, Sequences, FiniteSets, SequencesExt, TLC

CONSTANTS
  CallEnds,       \* ntotal after each call of add
  Levels,         \* levels[v], 1 for a vector of the base level only
  Dist,           \* distance of two vectors
  M,
  Gammas,         \* the values of gamma an index is constructed with
  MBeta,          \* M_beta
  Threads,
  ParallelAbove   \* larger batches run in parallel: 100 in the code

NumPoints == CallEnds[Len(CallEnds)]
Points == 0 .. NumPoints - 1
NoPoint == -1

CallPoints(c) == (IF c = 1 THEN 0 ELSE CallEnds[c - 1]) .. CallEnds[c] - 1
TopOf(S) == Max({Levels[v] : v \in S}) - 1

\* When the first call has no vector above the base level, the second vector
\* is linked through an empty array of entry points: the program ends there.
ASSUME AcornAssumption ==
  /\ CallEnds \in Seq(Nat \ {0}) /\ CallEnds # <<>>
  /\ \A c, e \in 1 .. Len(CallEnds) : c < e => CallEnds[c] < CallEnds[e]
  /\ M \in Nat \ {0, 1} /\ MBeta \in Nat /\ Gammas \subseteq Nat \ {0}
  /\ \A g \in Gammas : MBeta <= 2 * M * g
  /\ Levels \in [Points -> Nat \ {0}]
  /\ TopOf(CallPoints(1)) > 0
  /\ \A v, x \in Points : Dist[<<v, x>>] \in Nat
  /\ \A v, x, y \in Points : Dist[<<v, x>>] = Dist[<<v, y>>] => x = y

VARIABLES
  gamma,
  call,        \* calls of add begun
  ptLevel,     \* pt_level of the batch
  todo,        \* vectors of the batch no thread has taken
  neighbors,
  entryPoint,  \* entry_point
  maxLevel,    \* max_level
  th,          \* the threads in add_with_locks
  fault        \* what the memory was damaged by, if it was: nothing is said
               \* of what comes after it

vars == <<gamma, call, ptLevel, todo, neighbors, entryPoint, maxLevel, th, fault>>

\* a thread between two vectors
Idle == [pc |-> "idle", pt |-> NoPoint, nearest |-> NoPoint, level |-> 0,
         cands |-> {}, found |-> {}, seen |-> {}, iters |-> 0, back |-> <<>>]
-----------------------------------------------------------------------------
\* cum_nneighbor_per_level
Cum(g, level) == IF level = 0 THEN 0 ELSE MBeta + (3 * M) \div 2 + (level - 1) * M * g

Offsets ==
  [g \in Gammas |->
     LET from[v \in 0 .. NumPoints] ==
           IF v = 0 THEN 0 ELSE from[v - 1] + Cum(g, Levels[v - 1])
     IN [v \in 0 .. NumPoints |-> from[v]]]

\* neighbor_range, without the check that v has the level
Begin(v, level) == Offsets[gamma][v] + Cum(gamma, level)
End(v, level) == Begin(v, level + 1)

NbNeighbors(level) == Cum(gamma, level + 1) - Cum(gamma, level)

ListOf(nbrs, v, level) ==
  [i \in 1 .. NbNeighbors(level) |-> nbrs[Begin(v, level) + i - 1]]

\* a list as the loops read it, up to the first -1
Links(nbrs, v, level) ==
  LET gaps == {i \in Begin(v, level) .. End(v, level) - 1 : nbrs[i] = NoPoint}
  IN SubSeq(ListOf(nbrs, v, level), 1,
            (IF gaps = {} THEN End(v, level) ELSE Min(gaps)) - Begin(v, level))

\* The member of a singleton. A value named by such a set, and not by LET, TLC
\* evaluates once.
The(S) == CHOOSE x \in S : TRUE

\* op over a list from the left
Fold(op(_, _), base, list) ==
  The({LET upTo[i \in 0 .. Len(l)] ==
             IF i = 0 THEN base ELSE The({op(acc, l[i]) : acc \in {upTo[i - 1]}})
       IN upTo[Len(l)] : l \in {list}})

Nearest(v, S) == CHOOSE x \in S : \A y \in S : Dist[<<v, x>>] <= Dist[<<v, y>>]
Farthest(v, S) == CHOOSE x \in S : \A y \in S : Dist[<<v, x>>] >= Dist[<<v, y>>]

\* a list with the nearest first, and what is inserted behind all as near
Inserted(v, sorted, x) ==
  InsertAt(sorted, Cardinality({i \in DOMAIN sorted : Dist[<<v, sorted[i]>>] <= Dist[<<v, x>>]}) + 1, x)
NearestFirst(v, s) == Fold(LAMBDA sorted, x : Inserted(v, sorted, x), <<>>, s)

\* shrink_neighbor_list, of a list with the nearest first: behind the first
\* M_beta, what is a neighbor of something kept is dropped
Keep(nbrs, maxSize, acc, v) ==
  LET num == acc.num + 1
      near == acc.near \union {v} \union
                (IF num > MBeta THEN ToSet(Links(nbrs, v, 0)) ELSE {})
      kept == Append(acc.kept, v)
  IN IF acc.full \/ (num > MBeta /\ v \in acc.near) THEN [acc EXCEPT !.num = num]
     ELSE [kept |-> kept, near |-> near, num |-> num,
           full |-> Len(kept) >= maxSize \/ Cardinality(near) >= maxSize]

Shrink(nbrs, list, maxSize) ==
  Fold(LAMBDA acc, v : Keep(nbrs, maxSize, acc, v),
       [kept |-> <<>>, near |-> {}, num |-> 0, full |-> FALSE], list).kept

HasRoom(nbrs, src, level) == nbrs[End(src, level) - 1] = NoPoint

\* add_link: behind the last link, or else what remains of all of them, the
\* farthest first; above level 0 all remain, one more than there are slots
AddLink(nbrs, src, dest, level) ==
  LET b == Begin(src, level)
      slots == b .. End(src, level) - 1
      used == {i \in slots : nbrs[i] # NoPoint}
      all == NearestFirst(src, <<dest>> \o ListOf(nbrs, src, level))
      kept == Reverse(IF level = 0 THEN Shrink(nbrs, all, NbNeighbors(0)) ELSE all)
  IN IF HasRoom(nbrs, src, level)
     THEN [nbrs EXCEPT ![IF used = {} THEN b ELSE Max(used) + 1] = dest]
     ELSE The({[i \in DOMAIN nbrs |->
                  IF i - b + 1 \in DOMAIN list THEN list[i - b + 1]
                  ELSE IF i \in slots THEN NoPoint ELSE nbrs[i]] : list \in {kept}})

Spills(nbrs, src, level) == level > 0 /\ ~HasRoom(nbrs, src, level)
-----------------------------------------------------------------------------
Init ==
  /\ gamma \in Gammas
  /\ call = 0 /\ ptLevel = 0 /\ todo = {}
  /\ neighbors = <<>>
  /\ entryPoint = NoPoint /\ maxLevel = -1
  /\ th = [t \in Threads |-> Idle]
  /\ fault = "none"

AtBarrier == todo = {} /\ \A t \in Threads : th[t].pc = "idle"

\* (mutant: a batch does not end where the one before began)
BatchFrom(c, level) == {v \in CallPoints(c) : Levels[v] > level}

Batch(c, level) == {v \in CallPoints(c) : Levels[v] = level + 1}

\* prepare_level_tab: the array grows, its new slots are empty
NextCall ==
  /\ fault = "none" /\ AtBarrier /\ ptLevel = 0 /\ call < Len(CallEnds)
  /\ call' = call + 1
  /\ ptLevel' = TopOf(CallPoints(call'))
  /\ todo' = Batch(call', ptLevel')
  /\ neighbors' =
       [i \in 0 .. Offsets[gamma][CallEnds[call']] |->
          IF call > 0 /\ i < Offsets[gamma][CallEnds[call]] THEN neighbors[i] ELSE NoPoint]
  /\ UNCHANGED <<gamma, entryPoint, maxLevel, th, fault>>

NextLevel ==
  /\ fault = "none" /\ AtBarrier /\ ptLevel > 0
  /\ ptLevel' = ptLevel - 1
  /\ todo' = Batch(call, ptLevel')
  /\ UNCHANGED <<gamma, call, neighbors, entryPoint, maxLevel, th, fault>>

Parallel == Cardinality(Batch(call, ptLevel)) > ParallelAbove

\* the critical section of add_with_locks; a small batch has one thread
Take(t, v) ==
  /\ fault = "none"
  /\ th[t].pc = "idle"
  /\ v \in todo
  /\ Parallel \/ \A u \in Threads : th[u].pc = "idle"
  /\ todo' = todo \ {v}
  /\ IF entryPoint = NoPoint
     THEN /\ maxLevel' = ptLevel
          /\ entryPoint' = v
          /\ UNCHANGED th
     ELSE /\ th' = [th EXCEPT ![t] = [Idle EXCEPT !.pc = "entered", !.pt = v, !.nearest = entryPoint]]
          /\ UNCHANGED <<maxLevel, entryPoint>>
  /\ UNCHANGED <<gamma, call, ptLevel, neighbors, fault>>

\* a thread holds the lock of its own vector until its links are there
Locked(v) == \E t \in Threads : th[t].pt = v /\ th[t].pc \in {"greedy", "search"}

\* search_neighbors_to_add begins at the level
Searching(r) == [r EXCEPT !.pc = "search", !.cands = {r.nearest}, !.found = {r.nearest},
                          !.seen = {r.nearest}]

\* the lock, and max_level, which may be another than at the critical section
Start(t) ==
  /\ fault = "none"
  /\ th[t].pc = "entered"
  /\ ~Locked(th[t].pt)
  /\ LET r == [th[t] EXCEPT !.level = maxLevel]
     IN th' = [th EXCEPT ![t] = IF maxLevel > ptLevel THEN [r EXCEPT !.pc = "greedy"]
                                ELSE Searching(r)]
  /\ fault' = IF Levels[th[t].nearest] <= maxLevel THEN "torn" ELSE "none"
  /\ UNCHANGED <<gamma, call, ptLevel, todo, neighbors, entryPoint, maxLevel>>

\* (mutant: the last vector read is taken, nearer or not)
LastOf(r, list) == IF list = <<>> THEN r.nearest ELSE list[Len(list)]

NearestOf(r, list) == Nearest(r.pt, {r.nearest} \union ToSet(list))

\* one round of greedy_update_nearest, over at most M links
Greedy(t) ==
  /\ fault = "none"
  /\ th[t].pc = "greedy"
  /\ LET r == th[t]
         list == Links(neighbors, r.nearest, r.level)
         best == NearestOf(r, SubSeq(list, 1, Min({M, Len(list)})))
         down == [r EXCEPT !.level = r.level - 1]
     IN th' = [th EXCEPT ![t] =
                 IF best # r.nearest THEN [r EXCEPT !.nearest = best]
                 ELSE IF r.level - 1 > ptLevel THEN down ELSE Searching(down)]
  /\ UNCHANGED <<gamma, call, ptLevel, todo, neighbors, entryPoint, maxLevel, fault>>

\* the candidate search_neighbors_to_add looks at next, unless it ends: for want
\* of candidates, or with enough found
NextCandidate(r) ==
  {v \in r.cands :
     /\ v = Nearest(r.pt, r.cands)
     /\ gamma = 1 => Dist[<<r.pt, v>>] <= Dist[<<r.pt, Farthest(r.pt, r.found)>>]
     /\ Cardinality(r.found) < IF r.level = 0 THEN 2 * M * gamma ELSE NbNeighbors(r.level)}

\* A vector that is not seen yet counts twice, before and after it is weighed:
\* the one that exceeds M before is marked, and not weighed.
Weigh(r, v) ==
  LET iters == r.iters + 1
      better == \/ Cardinality(r.found) < M * gamma
                \/ Dist[<<r.pt, v>>] < Dist[<<r.pt, Farthest(r.pt, r.found)>>]
      found == r.found \union {v}
  IN IF r.iters > M \/ v \in r.seen THEN r
     ELSE IF iters > M THEN [r EXCEPT !.seen = @ \union {v}, !.iters = iters]
     ELSE [r EXCEPT !.seen = @ \union {v}, !.iters = iters + 1,
                    !.cands = IF better THEN @ \union {v} ELSE @,
                    !.found = IF ~better THEN @
                              ELSE IF Cardinality(found) <= M * gamma THEN found
                              ELSE found \ {Farthest(r.pt, found)}]

\* one round of it: the nearest candidate's list, read without a lock
Expand(t) ==
  /\ fault = "none"
  /\ th[t].pc = "search"
  /\ \E v \in NextCandidate(th[t]) :
       \E r \in {Fold(Weigh, [th[t] EXCEPT !.cands = @ \ {v}], Links(neighbors, v, th[t].level))} :
         th' = [th EXCEPT ![t].cands = r.cands, ![t].found = r.found, ![t].seen = r.seen]
  /\ UNCHANGED <<gamma, call, ptLevel, todo, neighbors, entryPoint, maxLevel, fault>>

\* whom a thread links its vector to, the farthest first
Targets(r) ==
  LET all == NearestFirst(r.pt, SetToSeq(r.found))
  IN Reverse(IF r.level = 0 THEN Shrink(neighbors, all, NbNeighbors(0)) ELSE all)

LinkTo(acc, r, v) ==
  [nbrs |-> AddLink(acc.nbrs, r.pt, v, r.level),
   spilled |-> acc.spilled \/ Spills(acc.nbrs, r.pt, r.level)]

LinkToAll(r, list) ==
  Fold(LAMBDA acc, v : LinkTo(acc, r, v), [nbrs |-> neighbors, spilled |-> FALSE], list)

\* the rest of add_links_starting_from up to the unlock
LinkOwn(t) ==
  /\ fault = "none"
  /\ th[t].pc = "search"
  /\ NextCandidate(th[t]) = {}
  /\ \E list \in {Targets(th[t])} :
       /\ \E linked \in {LinkToAll(th[t], list)} :
            /\ neighbors' = linked.nbrs
            /\ fault' = IF linked.spilled THEN "spilled" ELSE "none"
       /\ th' = [th EXCEPT ![t] = [th[t] EXCEPT !.pc = "back", !.back = list,
                                                !.cands = {}, !.found = {}, !.seen = {}]]
  /\ UNCHANGED <<gamma, call, ptLevel, todo, entryPoint, maxLevel>>

\* a link from a neighbor back, under the neighbor's lock
LinkBack(t) ==
  /\ fault = "none"
  /\ th[t].pc = "back"
  /\ th[t].back # <<>>
  /\ LET r == th[t]
         other == Head(r.back)
     IN /\ ~Locked(other)
        /\ neighbors' = AddLink(neighbors, other, r.pt, r.level)
        /\ fault' = IF Spills(neighbors, other, r.level) THEN "spilled" ELSE "none"
        /\ th' = [th EXCEPT ![t].back = Tail(r.back)]
  /\ UNCHANGED <<gamma, call, ptLevel, todo, entryPoint, maxLevel>>

\* (mutant: a vector one level above all others does not count)
AboveAllByTwo == ptLevel > maxLevel + 1

AboveAll == ptLevel > maxLevel

\* the own lock again, and the next level down from the same vector; or the end
\* of the last, and the first comparison with max_level
Down(t) ==
  /\ fault = "none"
  /\ th[t].pc = "back"
  /\ th[t].back = <<>>
  /\ LET r == th[t]
     IN th' = [th EXCEPT ![t] = IF r.level > 0 THEN Searching([r EXCEPT !.level = r.level - 1])
                                ELSE IF AboveAll THEN [r EXCEPT !.pc = "raise"]
                                ELSE Idle]
  /\ UNCHANGED <<gamma, call, ptLevel, todo, neighbors, entryPoint, maxLevel, fault>>

\* the two writes of a thread whose vector is above all others, with no lock
RaiseLevel(t) ==
  /\ fault = "none"
  /\ th[t].pc = "raise"
  /\ maxLevel' = ptLevel
  /\ th' = [th EXCEPT ![t].pc = "point"]
  /\ UNCHANGED <<gamma, call, ptLevel, todo, neighbors, entryPoint, fault>>

RaisePoint(t) ==
  /\ fault = "none"
  /\ th[t].pc = "point"
  /\ entryPoint' = th[t].pt
  /\ th' = [th EXCEPT ![t] = Idle]
  /\ UNCHANGED <<gamma, call, ptLevel, todo, neighbors, maxLevel, fault>>

Link(t) ==
  \/ Start(t) \/ Greedy(t) \/ Expand(t) \/ LinkOwn(t) \/ LinkBack(t) \/ Down(t)
  \/ RaiseLevel(t) \/ RaisePoint(t)

AddStep ==
  \/ NextCall \/ NextLevel
  \/ \E t \in Threads : Link(t) \/ \E v \in todo : Take(t, v)

Built == call = Len(CallEnds) /\ ptLevel = 0 /\ AtBarrier
-----------------------------------------------------------------------------
\* the vectors of the batches so far that a thread has taken
Added ==
  {v \in Points : /\ call > 0 /\ v < CallEnds[call] /\ v \notin todo
                  /\ v \in CallPoints(call) => Levels[v] > ptLevel}

\* While batches are linked in parallel, the lists of every vector hold, without
\* gaps, vectors that were added and have the level of the list, none twice and
\* never the vector itself, although lists are read without locks: a thread's
\* search meets no vector of its own batch that is not linked on that level yet.
ListsSound ==
  fault = "none" /\ call > 0 =>
    LET added == Added
        sound(v, level) ==
          LET list == Links(neighbors, v, level)
              linked == ToSet(list)
          IN /\ linked \subseteq {x \in added : x # v /\ Levels[x] > level}
             /\ Cardinality(linked) = Len(list)
             /\ \A i \in Begin(v, level) + Len(list) .. End(v, level) - 1 : neighbors[i] = NoPoint
    IN \A v \in 0 .. CallEnds[call] - 1 : \A level \in 0 .. Levels[v] - 1 : sound(v, level)

\* ACORN.h calls the entry point "one of the points with maximum level". It is
\* one after every batch, also when several threads raised the top level without
\* a lock. During such a batch, and only then, a thread may find the top level
\* raised and the entry point it read below it.
EntryAtTop ==
  /\ AtBarrier /\ call > 0 /\ fault = "none" =>
       maxLevel = TopOf(Added) /\ Levels[entryPoint] = maxLevel + 1
  /\ fault = "torn" => call > 1 /\ Parallel /\ \A c \in 1 .. call - 1 : ptLevel > TopOf(CallPoints(c))

\* ACORN.h: "neighbors[offsets[i]:offsets[i+1]] is the list of neighbors of vector
\* i for all levels. this is where all storage goes", and add_link shrinks a list
\* "to make room for it": no link is written behind the list it belongs to.
LinksInPlace == fault # "spilled"

AddSpec == Init /\ [][AddStep]_vars
=============================================================================
