------------------------------- MODULE VamanaLink -------------------------------
(***************************************************************************)
(* The construction of a Vamana graph (UNG/codes/vamana/vamana.cpp): the   *)
(* threads of an OpenMP loop take the points in turn, and for each point   *)
(* search the graph built so far, prune what the search expanded into the  *)
(* point's neighbours, and add the reverse edges. Each neighbour list has  *)
(* a lock, held only while the list is copied or replaced: every locked    *)
(* section is one step here, and what a thread does with a copy after the  *)
(* unlock is a later step.                                                 *)
(*                                                                         *)
(* Lists are sets: the searches and the prunes read them in an order that  *)
(* the distances or std::sort decide, and no list gets an id twice since   *)
(* every push is preceded by a find. A search's queue and visited set are  *)
(* the bounded best-first set of module BestFirst.                         *)
(***************************************************************************)
EXTENDS Integers, FiniteSets, Sequences

CONSTANTS
  NumPoints,      \* points of the storage
  Threads,        \* OpenMP threads
  Dist,           \* Dist[<<a, b>>]: distance of two points
  EntryPoint,     \* the medoid
  MaxDegree,      \* _max_degree
  SlackDegree,    \* (IdxType)(GRAPH_SLACK_FACTOR * _max_degree), in floats
  Lbuild,         \* _Lbuild
  MaxCandidates,  \* _max_candidate_size
  Alphas          \* the values <<num, den>> cur_alpha takes up to _alpha

Points == 0 .. NumPoints - 1

ASSUME SizesAssumption ==
  /\ NumPoints \in Nat \ {0}
  /\ MaxDegree \in Nat \ {0}
  /\ SlackDegree \in Nat /\ SlackDegree >= MaxDegree
  /\ Lbuild \in Nat \ {0}
  /\ MaxCandidates \in Nat \ {0}
  /\ EntryPoint \in Points
  /\ \A a, b \in Points : Dist[<<a, b>>] \in Nat
  /\ Len(Alphas) \in Nat \ {0} /\ DOMAIN Alphas = 1 .. Len(Alphas)

VARIABLES
  neighbors,  \* _graph->neighbors
  next,       \* the first point no thread has taken
  pc,         \* where each thread is
  point,      \* the point each thread links
  offered,    \* points each thread's search has met
  expanded,   \* points each thread's search has expanded
  todo,       \* neighbours of point whose reverse edge is still to be added
  target,     \* the neighbour whose full list the thread prunes
  candidates, \* the copy of that list
  cleaned     \* points the final cleanup has passed

locals == <<pc, point, offered, expanded, todo, target, candidates>>
vars == <<neighbors, next, locals, cleaned>>
-----------------------------------------------------------------------------
\* The candidate queue of a search for p.
Closer(p, a, b) == Dist[<<p, a>>] < Dist[<<p, b>>] \/ (Dist[<<p, a>>] = Dist[<<p, b>>] /\ a < b)

Kept(p, S) == {a \in S : Cardinality({b \in S : Closer(p, b, a)}) < Lbuild}

\* The places std::sort may give the candidates: those nearer first, equally
\* distant ones in any order.
Orders(p, C) ==
  LET Nearer(a) == {b \in C : Dist[<<p, b>>] < Dist[<<p, a>>]}
      Tied(a) == {b \in C : Dist[<<p, b>>] = Dist[<<p, a>>]}
      ranks == UNION {1 .. Cardinality(Tied(a)) : a \in C}
  IN {o \in {[a \in C |-> Cardinality(Nearer(a)) + r[a]] : r \in [C -> ranks]} :
        /\ \A a \in C : o[a] <= Cardinality(Nearer(a)) + Cardinality(Tied(a))
        /\ \A a, b \in C : a # b => o[a] # o[b]}

\* chosen a hides b from p in a pass: d(p, b) / d(a, b) exceeds its alpha
Occludes(p, a, b, pass) ==
  \/ Dist[<<a, b>>] = 0
  \/ Dist[<<p, b>>] * Alphas[pass][2] > Alphas[pass][1] * Dist[<<a, b>>]

\* what the loop has taken when pass comes to candidate a
TakenBefore(S, o, chosenIn, pass, a) ==
  {b \in S : \/ chosenIn[b] \in 1 .. pass - 1
             \/ chosenIn[b] = pass /\ o[b] < o[a]}

\* (mutant: the list is full one candidate early)
FullEarly(p, taken) == Cardinality(taken \ {p}) >= MaxDegree - 1

Full(p, taken) == Cardinality(taken \ {p}) >= MaxDegree

\* chosenIn[a] is the pass in which prune_neighbors takes a, 0 if none does: a
\* is taken in the first pass where nothing taken before and nearer hides it
\* while the list has room.
IsChoice(p, S, o, chosenIn) ==
  \A a \in S, pass \in DOMAIN Alphas :
    chosenIn[a] = pass <=>
      LET earlier == TakenBefore(S, o, chosenIn, pass, a)
      IN /\ chosenIn[a] \notin 1 .. pass - 1
         /\ \A b \in earlier : o[b] < o[a] => ~Occludes(p, b, a, pass)
         /\ ~Full(p, earlier)

\* prune_neighbors: the lists it may return for p and the candidates C.
Choices(p, S, o) ==
  {chosenIn \in [S -> {0} \union DOMAIN Alphas] : IsChoice(p, S, o, chosenIn)}

Prunes(p, C) ==
  UNION {LET S == {a \in C : o[a] <= MaxCandidates}
         IN {{a \in S \ {p} : chosenIn[a] # 0} : chosenIn \in Choices(p, S, o)} :
         o \in Orders(p, C)}
-----------------------------------------------------------------------------
Init ==
  /\ neighbors = [p \in Points |-> {}]
  /\ next = 0
  /\ pc = [t \in Threads |-> "idle"]
  /\ point = [t \in Threads |-> EntryPoint]
  /\ offered = [t \in Threads |-> {}]
  /\ expanded = [t \in Threads |-> {}]
  /\ todo = [t \in Threads |-> {}]
  /\ target = [t \in Threads |-> EntryPoint]
  /\ candidates = [t \in Threads |-> {}]
  /\ cleaned = {}

\* (mutant: the loop runs one point too far)
SomeLeft == next <= NumPoints

MoreToTake == next < NumPoints

\* schedule(dynamic, 1): an idle thread takes the next point
Take(t) ==
  /\ pc[t] = "idle"
  /\ MoreToTake
  /\ point' = [point EXCEPT ![t] = next]
  /\ next' = next + 1
  /\ offered' = [offered EXCEPT ![t] = {EntryPoint}]
  /\ expanded' = [expanded EXCEPT ![t] = {}]
  /\ pc' = [pc EXCEPT ![t] = "search"]
  /\ UNCHANGED <<neighbors, todo, target, candidates, cleaned>>

Unexpanded(t) == Kept(point[t], offered[t]) \ expanded[t]

\* (mutant: the candidate is handed out without being flagged)
MarksNothing(t, c) == expanded' = expanded

Marks(t, c) == expanded' = [expanded EXCEPT ![t] = @ \union {c}]

\* one round of iterate_to_fixed_point: the closest unexpanded candidate's
\* list is copied under its lock
ExpandClosest(t) ==
  /\ pc[t] = "search"
  /\ \E c \in Unexpanded(t) :
       /\ \A a \in Unexpanded(t) : a = c \/ Closer(point[t], c, a)
       /\ Marks(t, c)
       /\ offered' = [offered EXCEPT ![t] = @ \union neighbors[c]]
  /\ UNCHANGED <<neighbors, next, pc, point, todo, target, candidates, cleaned>>

\* (mutant: the reverse edges are forgotten)
CommitOneWay(t) ==
  /\ pc[t] = "search"
  /\ Unexpanded(t) = {}
  /\ \E pruned \in Prunes(point[t], expanded[t] \ {point[t]}) :
       neighbors' = [neighbors EXCEPT ![point[t]] = pruned]
  /\ pc' = [pc EXCEPT ![t] = "reverse"]
  /\ UNCHANGED <<next, point, offered, expanded, todo, target, candidates, cleaned>>

\* the search is over: prune, and replace the point's list under its lock
Commit(t) ==
  /\ pc[t] = "search"
  /\ Unexpanded(t) = {}
  /\ \E pruned \in Prunes(point[t], expanded[t] \ {point[t]}) :
       /\ neighbors' = [neighbors EXCEPT ![point[t]] = pruned]
       /\ todo' = [todo EXCEPT ![t] = pruned]
  /\ pc' = [pc EXCEPT ![t] = "reverse"]
  /\ UNCHANGED <<next, point, offered, expanded, target, candidates, cleaned>>

\* (mutant: the slack is exceeded by one)
HasRoomForOneMore(dst) == Cardinality(neighbors[dst]) <= SlackDegree

HasRoom(dst) == Cardinality(neighbors[dst]) < SlackDegree

\* (mutant: the copy of the previous neighbour's list is not replaced)
StaleCopy(t, dst) == candidates[t] \union {point[t]}

CopyWithPoint(t, dst) == neighbors[dst] \union {point[t]}

\* inter_insert's locked section, for the next neighbour in any order: add
\* dst -> point, or copy dst's full list
AddReverse(t, dst) ==
  /\ pc[t] = "reverse"
  /\ dst \in todo[t]
  /\ todo' = [todo EXCEPT ![t] = @ \ {dst}]
  /\ \/ /\ point[t] \in neighbors[dst]
        /\ UNCHANGED <<neighbors, pc, target, candidates>>
     \/ /\ point[t] \notin neighbors[dst]
        /\ HasRoom(dst)
        /\ neighbors' = [neighbors EXCEPT ![dst] = @ \union {point[t]}]
        /\ UNCHANGED <<pc, target, candidates>>
     \/ /\ point[t] \notin neighbors[dst]
        /\ ~HasRoom(dst)
        /\ candidates' = [candidates EXCEPT ![t] = CopyWithPoint(t, dst)]
        /\ target' = [target EXCEPT ![t] = dst]
        /\ pc' = [pc EXCEPT ![t] = "prune"]
        /\ UNCHANGED neighbors
  /\ UNCHANGED <<next, point, offered, expanded, cleaned>>

\* (mutant: the neighbour is tried again, whether or not the edge was kept)
PruneAndRetry(t) ==
  /\ pc[t] = "prune"
  /\ \E pruned \in Prunes(target[t], candidates[t]) :
       neighbors' = [neighbors EXCEPT ![target[t]] = pruned]
  /\ todo' = [todo EXCEPT ![t] = @ \union {target[t]}]
  /\ pc' = [pc EXCEPT ![t] = "reverse"]
  /\ UNCHANGED <<next, point, offered, expanded, target, candidates, cleaned>>

\* the copy, pruned without the lock, replaces dst's list
PruneReverse(t) ==
  /\ pc[t] = "prune"
  /\ \E pruned \in Prunes(target[t], candidates[t]) :
       neighbors' = [neighbors EXCEPT ![target[t]] = pruned]
  /\ pc' = [pc EXCEPT ![t] = "reverse"]
  /\ UNCHANGED <<next, point, offered, expanded, todo, target, candidates, cleaned>>

Linked(t) ==
  /\ pc[t] = "reverse"
  /\ todo[t] = {}
  /\ pc' = [pc EXCEPT ![t] = "idle"]
  /\ UNCHANGED <<neighbors, next, point, offered, expanded, todo, target, candidates, cleaned>>

AllLinked == next = NumPoints /\ \A t \in Threads : pc[t] = "idle"

\* (mutant: only lists over the slack are cleaned)
OverSlack(p) == Cardinality(neighbors[p]) > SlackDegree

OverDegree(p) == Cardinality(neighbors[p]) > MaxDegree

\* after the loop's barrier: lists over the degree are pruned, in any order,
\* each by one thread alone
Cleanup(p) ==
  /\ AllLinked
  /\ p \in Points \ cleaned
  /\ IF OverDegree(p)
     THEN \E pruned \in Prunes(p, neighbors[p]) :
            neighbors' = [neighbors EXCEPT ![p] = pruned]
     ELSE UNCHANGED neighbors
  /\ cleaned' = cleaned \union {p}
  /\ UNCHANGED <<next, locals>>

Built == cleaned = Points

Step(t) ==
  \/ Take(t) \/ ExpandClosest(t) \/ Commit(t)
  \/ \E dst \in Points : AddReverse(t, dst)
  \/ PruneReverse(t) \/ Linked(t)

Next ==
  \/ \E t \in Threads : Step(t)
  \/ \E p \in Points : Cleanup(p)
  \/ Built /\ UNCHANGED vars

\* OpenMP's threads run until the loop is done, and the cleanup's do.
Fairness ==
  /\ \A t \in Threads : WF_vars(Step(t))
  /\ WF_vars(\E p \in Points : Cleanup(p))

Spec == Init /\ [][Next]_vars /\ Fairness
-----------------------------------------------------------------------------
TypeOK ==
  /\ neighbors \in [Points -> SUBSET Points]
  /\ next \in 0 .. NumPoints
  /\ pc \in [Threads -> {"idle", "search", "reverse", "prune"}]
  /\ point \in [Threads -> Points]
  /\ offered \in [Threads -> SUBSET Points]
  /\ expanded \in [Threads -> SUBSET Points]
  /\ todo \in [Threads -> SUBSET Points]
  /\ target \in [Threads -> Points]
  /\ candidates \in [Threads -> SUBSET Points]
  /\ cleaned \subseteq Points

\* No list grows over the slack while threads race on it, and none is over the
\* degree once the cleanup has passed it.
DegreeBound ==
  \A p \in Points :
    /\ Cardinality(neighbors[p]) <= SlackDegree
    /\ p \in cleaned => Cardinality(neighbors[p]) <= MaxDegree

\* A point whose own list was written keeps an out-edge through every later
\* overwrite, the entry point excepted.
NeverStranded ==
  \A p \in 0 .. next - 1 \ {EntryPoint} :
    (\A t \in Threads : pc[t] = "search" => point[t] # p) => neighbors[p] # {}

\* When the construction is as if sequential: one thread builds, and its queue
\* keeps everything it meets.
OneThread == \A t, u \in Threads : t = u

QueueKeepsAll == NumPoints <= Lbuild

\* An edge is dropped only by a prune that weighed it: nothing another thread
\* added between a copy and the overwrite is lost. It holds when one thread
\* builds and its queue keeps everything it meets; two threads lose edges.
NoLostEdge ==
  [][\A t \in Threads :
       /\ Commit(t) => neighbors[point[t]] \subseteq expanded[t]
       /\ PruneReverse(t) => neighbors[target[t]] \subseteq candidates[t]]_vars

\* The steps a thread may still take for its point, at most: a search expands
\* each point once, and each reverse edge takes two steps if the list is full.
StepsLeft(t) ==
  CASE pc[t] = "idle" -> 0
    [] pc[t] = "search" -> 3 * NumPoints + 2 - Cardinality(expanded[t])
    [] pc[t] = "reverse" -> 2 * Cardinality(todo[t]) + 1
    [] pc[t] = "prune" -> 2 * Cardinality(todo[t]) + 2

\* What a thread does to the lists, whenever it does it, never gives another
\* more to do, or itself: every step takes a point that was left, or is one of
\* the steps one thread has left, or cleans a list. So no schedule keeps the
\* construction going for ever.
Advances ==
  [][\/ next' = next + 1
     \/ /\ next' = next
        /\ \/ \E t \in Threads :
                /\ StepsLeft(t)' \in 0 .. StepsLeft(t) - 1
                /\ \A u \in Threads \ {t} : StepsLeft(u)' = StepsLeft(u)
                /\ cleaned' = cleaned
           \/ /\ \A u \in Threads : StepsLeft(u)' = StepsLeft(u)
              /\ cleaned \subseteq cleaned' /\ cleaned' # cleaned]_vars

\* Every run of the construction ends.
Terminates == <>Built

\* The data a prune treats well: no two vectors are the same, all candidates are
\* weighed, the first pass lets a candidate hide only what is nearer to it than
\* to p (cur_alpha starts at 1), and no point has more neighbours than fit in its
\* list of which none hides another.
AllDiffer ==
  \A a, b \in Points : /\ Dist[<<a, b>>] = Dist[<<b, a>>]
                       /\ a # b => Dist[<<a, b>>] # 0

AllWeighed == NumPoints - 1 <= MaxCandidates

PlainFirstPass ==
  /\ Alphas[1][1] \in Nat /\ Alphas[1][2] \in Nat \ {0}
  /\ Alphas[1][2] <= Alphas[1][1]

FewInSight ==
  \A p \in Points : \A Q \in SUBSET (Points \ {p}) :
    (\A a, b \in Q : a # b /\ Dist[<<p, a>>] <= Dist[<<p, b>>] => ~Occludes(p, a, b, 1))
      => Cardinality(Q) <= MaxDegree

GoodData == AllDiffer /\ AllWeighed /\ PlainFirstPass /\ FewInSight

\* One thread, a queue that keeps everything it meets, and such data: every
\* point can be reached from the entry point, although lists overflow and are
\* pruned, and the entry point's own is overwritten when its turn comes.
Reach[S \in SUBSET Points] ==
  LET more == S \union UNION {neighbors[p] : p \in S}
  IN IF more = S THEN S ELSE Reach[more]

Connected == AllLinked => Reach[{EntryPoint}] = Points
=============================================================================
