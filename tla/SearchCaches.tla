------------------------------ MODULE SearchCaches ------------------------------
(***************************************************************************)
(* The pool of search caches (UNG/codes/include/search_cache.h) and the     *)
(* threads of a parallel loop that take a cache from it for every query.    *)
(* A cache goes from query to query and from thread to thread with the      *)
(* marks of all searches before. Some turns of the loops leave by a         *)
(* continue and never give their cache back; the pool then allocates.       *)
(*                                                                         *)
(* The pool's mutex makes its two operations single steps. A query is what  *)
(* the searches do to the visited set: clear it, as often as they like, and *)
(* mark what they meet unmarked.                                            *)
(***************************************************************************)
EXTENDS VisitedSet, FiniteSets, Sequences

CONSTANTS
  Threads,
  CacheIds,    \* numbers for the caches a run of the loop may allocate
  FirstCaches, \* those the constructor allocates, in the pool's order
  Memory,      \* what new[] may return for the marks of a cache
  NumQueries

NoCache == 0

ASSUME CachesAssumption ==
  /\ IsFiniteSet(Threads)
  /\ FirstCaches \in Seq(CacheIds)
  /\ \A i, j \in 1 .. Len(FirstCaches) : FirstCaches[i] = FirstCaches[j] => i = j
  /\ Cardinality(Threads) <= Len(FirstCaches)
  /\ CacheIds \subseteq Nat \ {NoCache}
  /\ Memory \subseteq [Elements -> MarkType]
  /\ NumQueries \in Nat

VARIABLES
  pool,         \* SearchCacheList::pool
  held,         \* the cache a thread's query works with
  caches,       \* the caches' visited sets; of one not allocated yet, its memory
  used,         \* caches allocated so far
  queriesLeft,  \* turns of the loop nobody has taken yet
  searching,    \* threads whose query has cleared its visited set
  members       \* history: what a thread's query marked since it last cleared

vars == <<pool, held, caches, used, queriesLeft, searching, members>>

InPool == {pool[i] : i \in 1 .. Len(pool)}
Holders == {t \in Threads : held[t] # NoCache}
-----------------------------------------------------------------------------
Init ==
  /\ pool = FirstCaches
  /\ held = [t \in Threads |-> NoCache]
  /\ caches \in [CacheIds -> {Initialised(memory) : memory \in Memory}]
  /\ used = {FirstCaches[i] : i \in 1 .. Len(FirstCaches)}
  /\ queriesLeft = NumQueries
  /\ searching = {}
  /\ members = [t \in Threads |-> {}]

\* (mutant: the front of the pool is handed out and stays)
PoolKept == pool

PoolAfterGet == Tail(pool)

\* get_free_cache of a pool that has one
GetPooled(t) ==
  /\ queriesLeft > 0 /\ held[t] = NoCache
  /\ pool # <<>>
  /\ held' = [held EXCEPT ![t] = Head(pool)]
  /\ pool' = PoolAfterGet
  /\ queriesLeft' = queriesLeft - 1
  /\ UNCHANGED <<caches, used, searching, members>>

\* (mutant: the pool keeps its last cache)
AllocatesAtOne == Len(pool) <= 1

Allocates == pool = <<>>

\* (mutant: an empty pool makes its caller try again)
GetRetries(t) ==
  /\ queriesLeft > 0 /\ held[t] = NoCache
  /\ Allocates
  /\ UNCHANGED vars

\* get_free_cache of an empty pool
GetNew(t) ==
  /\ queriesLeft > 0 /\ held[t] = NoCache
  /\ Allocates
  /\ \E c \in CacheIds \ used :
       /\ held' = [held EXCEPT ![t] = c]
       /\ used' = used \union {c}
  /\ queriesLeft' = queriesLeft - 1
  /\ UNCHANGED <<pool, caches, searching, members>>

\* visited_set.clear(), at the start of every search and again within it
Clear(t) ==
  /\ held[t] # NoCache
  /\ caches' = [caches EXCEPT ![held[t]] = Cleared(@)]
  /\ searching' = searching \union {t}
  /\ members' = [members EXCEPT ![t] = {}]
  /\ UNCHANGED <<pool, held, used, queriesLeft>>

\* an entry point sampled, or a neighbour met, that was not visited yet
Mark(t, i) ==
  /\ t \in searching
  /\ ~Check(caches[held[t]], i)
  /\ caches' = [caches EXCEPT ![held[t]] = Marked(@, i)]
  /\ members' = [members EXCEPT ![t] = @ \union {i}]
  /\ UNCHANGED <<pool, held, used, queriesLeft, searching>>

\* release_cache at the end of a turn
Release(t) ==
  /\ t \in searching
  /\ pool' = Append(pool, held[t])
  /\ held' = [held EXCEPT ![t] = NoCache]
  /\ searching' = searching \ {t}
  /\ UNCHANGED <<caches, used, queriesLeft, members>>

\* a query without entry points leaves its turn before the release: only
\* get_entry_points' clear has been called
Abandon(t) ==
  /\ t \in searching
  /\ members[t] = {}
  /\ held' = [held EXCEPT ![t] = NoCache]
  /\ searching' = searching \ {t}
  /\ UNCHANGED <<pool, caches, used, queriesLeft, members>>

Get(t) == GetPooled(t) \/ GetNew(t)

Done == queriesLeft = 0 /\ Holders = {}

Next ==
  \/ \E t \in Threads :
       \/ Get(t) \/ Clear(t) \/ Release(t) \/ Abandon(t)
       \/ \E i \in Elements : Mark(t, i)
  \/ Done /\ UNCHANGED vars

\* A thread goes on with its query, whose search ends (Answered, module
\* HybridSearch), and with the next turn of the loop.
Fairness ==
  \A t \in Threads :
    /\ WF_vars(Get(t))
    /\ WF_vars(t \notin searching /\ Clear(t))
    /\ WF_vars(Release(t) \/ Abandon(t))

Spec == Init /\ [][Next]_vars /\ Fairness
-----------------------------------------------------------------------------
TypeOK ==
  /\ pool \in Seq(CacheIds)
  /\ held \in [Threads -> CacheIds \union {NoCache}]
  /\ caches \in [CacheIds -> VisitedSets]
  /\ used \subseteq CacheIds
  /\ queriesLeft \in Nat
  /\ searching \subseteq Holders
  /\ members \in [Threads -> SUBSET Elements]

\* No cache is at work for two threads, or waits in the pool while one works
\* with it, or waits there twice: the searches use it without a lock.
OneHolder ==
  /\ \A t, u \in Holders : held[t] = held[u] => t = u
  /\ \A t \in Holders : held[t] \notin InPool
  /\ \A i, j \in 1 .. Len(pool) : pool[i] = pool[j] => i = j
  /\ InPool \union {held[t] : t \in Holders} \subseteq used

\* However many turns keep their cache, the caches alive, each with a mark for
\* every vector, are never more than the constructor allocated.
PoolBounded == Len(pool) + Cardinality(Holders) <= Len(FirstCaches)

\* What a query reads as visited is what it marked itself since its last clear:
\* never a mark of an earlier query, of this thread or another, however often
\* the counter of the cache has wrapped, nor what new[] left in a new cache.
OwnMarks ==
  \A t \in searching : \A i \in Elements : Check(caches[held[t]], i) <=> i \in members[t]

\* Every turn of the loop is taken and ends: a thread that finds the pool empty
\* does not wait for a cache that a turn before it never gave back.
QueriesFinish == <>[]Done
=============================================================================
