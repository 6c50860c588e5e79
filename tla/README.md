# FilterVectorCode: specifications, model checks and proofs

The repository answers *filtered* nearest-neighbour queries: find the K vectors closest to a
query vector among those whose label set contains, overlaps or equals the query's label set.
It holds two such systems and their experiment drivers:

* **UNG** (`UNG/codes`), the unified navigating graph: vectors with the same label set form a
  *group*, every group gets a Vamana graph of its own, the groups are ordered by inclusion of
  their label sets (the *label navigating graph*), and cross-group edges along that order merge
  the group graphs into one graph, on which a query never compares labels.
* **ACORN** (`ACORN/faiss/impl/ACORN.*`, `ACORN/faiss/IndexACORN.*`), a hierarchical graph with
  pruned neighbour lists inside a fork of faiss.

There is no README in the repository; the reference is the code under `src/`. This directory
models UNG from the queue every search stands on to the way of an index through the disk into
another process: the parallel graph construction, the label side of the build, the merge into one
graph, the two searches (`search`, `search_hybrid`), the pool of caches they draw from, and the
exhaustive scan that yields the ground truth; and ACORN's parallel construction and filtered
search. Eight modules of theorems establish its central invariants for all sizes.

`PROJECT.json` lists components, runs, mutants, hazards and theorems, and maps every
definition to the source lines it stands for.

## 1. Inventory

Paths are relative to `src/UNG/codes` unless they start with another directory.

| Component | State it keeps | Operations | Used by |
|---|---|---|---|
| `SearchQueue` (`src/search_queue.cpp`) | sorted array with one spare slot, size, cursor on the first unexpanded candidate | `reserve`, `insert`, `clear`, `get_closest_unexpanded` | every graph search, cross-group edges, filtered scan |
| `VisitedSet` (`include/visited_set.h`) | one 16-bit mark per vector, a current mark | `init`, `clear`, `set`, `check` | every graph search |
| `SearchCacheList` (`include/search_cache.h`) | pool of queue + visited set pairs under a lock | `get_free_cache`, `release_cache` | threads of a build or search |
| `Graph` (`include/graph.h`) | neighbour list and lock per vector | direct access, `save`, `load` | Vamana, UniNavGraph |
| `Vamana` (`vamana/vamana.cpp`) | graph, medoid, limits | `build` (`link`, `prune_neighbors`, `inter_insert`, cleanup), `iterate_to_fixed_point`, `search`, `save`, `load` | group graphs |
| `TrieIndex` (`src/trie.cpp`) | trie over sorted label sets; per label the list of its nodes | `insert`, `find_exact_match`, `get_super_set_entrances`, `save`, `load` | UniNavGraph, FilteredScan |
| `Storage` (`src/storage.cpp`) | vectors and their label sets | `reorder_data`, `choose_medoid`, `load_from_file`, `write_to_file` | all |
| `UniNavGraph` build (`src/uni_nav_graph.cpp`) | groups, permutation and ranges, label navigating graph, descendants, coverage, bitmaps, graph, entry points | `build` and the phases it calls | `build_UNG_index` |
| `UniNavGraph` search | per query: a cache, results | `search`, `search_hybrid`, `get_entry_points`, `iterate_to_fixed_point`, `compute_attribute_bitmap` | `search_UNG_index` |
| `UniNavGraph` save and load | index directory | `save`, `load` | apps |
| `UniNavGraph` query generators | none | functions that write query files | apps |
| `FilteredScan` (`src/filtered_scan.cpp`) | tries of base and queries, vectors per group | `run`, `search` | `compute_groundtruth`, `filtered_scan` |
| `Distance`, apps, tools, tests | none | numeric code, command lines | |
| `ACORN` (`ACORN/faiss/impl/ACORN.cpp`, `ACORN/faiss/IndexACORN.cpp`) | levels, all neighbour lists in one array, entry point, top level | `add` (`add_with_locks`, `search_neighbors_to_add`, `add_link`, `shrink_neighbor_list`), `search` with a filter (`hybrid_search`, `MinimaxHeap`), `search` without one | `demos/test_acorn.cpp` |
| `third_party/CRoaring`, the rest of faiss | | vendored | |
| `DataTools`, shell and Python scripts | | experiment drivers | |

**How they interact.** `build` calls its phases one after the other: the trie divides the
vectors into groups, the storage is permuted so that a group is a range of ids, group graphs
are built over the ranges with ids that start at 0, the trie gives each group its minimal super
sets, the walks over that graph give descendants and coverage, each vector is searched for in
the graphs of the groups above its own, and only then the offset of the range is added to the
ids and the edges are merged. Inside a phase OpenMP threads share arrays and write only the
slots of their own iteration; the one place where threads write each other's data is the Vamana
construction, where a neighbour list is guarded by its lock. A search takes a cache from the
pool, enters some groups, and follows edges until the queue has nothing unexpanded; the search
app calls `search` or `search_hybrid` with one array of results for all its runs.

ACORN shares nothing with UNG but the experiments. Its `add` assigns a level to each vector and
links batch after batch, the highest level first, each batch in parallel; threads read lists
without their locks, and write the entry point and the top level without any.

**What is hard here.**

* Threads that copy a neighbour list, unlock, prune, lock again and overwrite (`vamana.cpp:75`,
  `vamana.cpp:234`).
* A queue with a cursor that must follow inserts before it, and a search that never checks
  whether an id was handed out already.
* A mark that wraps to zero in the middle of a long-lived process.
* The filter by labels is *never* evaluated during a search: the entry groups, the edges and the
  id arithmetic of the merge have to be right together.
* Minimal super sets are found by a walk that stops early, and filtered by a rule that holds only
  on candidates sorted by size.
* Numbering from 0 and from 1 side by side (groups from 1, vectors and some arrays from 0).
* The overlap search shares one visited set among several searches.
* `search_hybrid` decides from members that nobody sets, or that `load` does not restore, which
  graph a query goes to, and leaves its loop without writing a result.
* Nothing compares the scenario an index was built for with the one it is searched in.
* Turns of parallel loops that keep their cache.
* ACORN's lists, entry point and top level, read by threads while others write them
  (`ACORN.cpp:886`, `ACORN.cpp:1286`), and a heap whose `size()` is not the number of its entries.

What makes each component correct: the queue holds exactly the closest ids it was offered and
hands out each at most once; `check` is membership since the last clear; lists stay within
their bounds and no vector is cut off however threads interleave; the trie returns exactly the
minimal super sets; the label graph is the Hasse diagram of inclusion and coverage and
descendants are the closures along it; merged edges only lead from a group to one above it, and
to each of those; a search ends, meets only vectors with labels the query admits, and is exact when it can be; the
ground truth is the true answer; ACORN's lists hold only vectors that have the list's level and
were added, its entry point has the top level, its filtered search answers with what passes. `hazards` in `PROJECT.json` gives the line where each can fail.

## 2. Modules

| Module | Models | State and actions |
|---|---|---|
| `BestFirst` | what a queue promises, without any array | `offered`, `expanded`; `Offer`, `Expand`, `NewQuery` |
| `SearchQueue` | `search_queue.cpp` | the array with its spare slot, `size`, `curUnexpanded`, and the binary search as a step per probe |
| `VisitedSet` | `visited_set.h` | a value: marks of arbitrary initial content and the current mark; `Initialised`, `Cleared`, `Marked`, `Check` |
| `SearchCaches` | `search_cache.h` and the loops that use it | extends `VisitedSet`; `pool`, `held`, `caches`; `GetPooled`, `GetNew`, `Clear`, `Mark`, `Release`, `Abandon` |
| `VamanaLink` | `Vamana::build`, `link`, `prune_neighbors`, `inter_insert`, cleanup | `neighbors` and per-thread locals; a step per locked section |
| `LabelTrie` | `trie.cpp`, `get_min_super_sets` | `nodes`, `groupId`, `groupSize`, `newGroupId`; `Insert`, and the queries as operators |
| `LabelNavGraph` | the label side of `UniNavGraph::build` | extends `LabelTrie`; one action per iteration of each phase |
| `UnifiedGraph` | group graphs, cross-group edges, additional edges, offsets, merge | one action per iteration; both build scenarios |
| `GraphSearch` | `UniNavGraph::search` | extends `UnifiedGraph`; one query from entry to the collected queue |
| `HybridSearch` | `UniNavGraph::search_hybrid`, the results array of the search app | extends `GraphSearch`; the choice of the graph, the search of the global graph, the overlap search with one queue, `results` |
| `FilteredScan` | `filtered_scan.cpp` | extends `LabelNavGraph`, whose loop over the base is the scan's |
| `Persistence` | `save` and `load` of index, trie and labels, the vector-attribute graph, the build app and the search app around them | extends `LabelNavGraph`; `written` files, `loaded` contents; a step per file, `Crash`, `SaveAborts`, `Load` |
| `AcornAdd` | `IndexACORN::add` down to `add_link` and `shrink_neighbor_list` | `neighbors` as one array, `entryPoint`, `maxLevel`, the vectors of the batch, a record per thread; a step per critical section, round of a search, or unlocked write |
| `AcornSearch` | `IndexACORN::search` with a filter | extends `AcornAdd`; one query over the finished index, a step per round |
| `LeastValues`, `*_proofs` | proofs, see section 5 | |
| `MC*` | instances for TLC | |

The modules are composed by what they establish, or by extension. `SearchQueue` implements
`BestFirst` (`RefinesBestFirst`), and the larger modules use the best-first set where the code uses
a queue: `Kept` in `VamanaLink`, `Best` in `UnifiedGraph` and `GraphSearch`. `SearchCaches` shows that
`check` is membership in what the query marked, whichever cache it got (`OwnMarks`), and the larger
modules use a set. `LabelTrie` shows what `get_min_super_sets` returns, and `GraphSearch` enters the
minimal matching groups. `LabelNavGraph` shows ranges and the Hasse diagram, and `UnifiedGraph`
defines `First` and `OutNbrs` that way. `Persistence` shows that the bitmap of a query marks the
vectors with all its labels (`BitmapExact`), and `HybridSearch` filters by that. `HybridSearch`,
`FilteredScan`, `Persistence` and `AcornSearch` extend the modules they run on, so that their steps
are steps of one behaviour: what is searched is what was built.

### Correspondence worth knowing

* **SearchQueue.** Slots from `size` on keep stale candidates, as in the code. `dist` gives every id
  one distance per query: callers compute it from the id, so two inserts of an id agree. The
  memmove's guard (`slot < Capacity`) and the growth (`size < Capacity`) are two operators.
* **VisitedSet, SearchCaches.** `Modulus` is 2^16 in the code. `init` allocates with `new[]`, so the
  first marks are any values, and so are those of a cache the pool allocates later. `set` before
  the first `clear` happens nowhere in the code. The pool's mutex makes its operations single
  steps. A query is what all searches do to a visited set: clear, mark what is unmarked, clear again.
* **VamanaLink.** Lists are sets: no list holds an id twice because every push follows a `find`,
  and their order does not reach a later decision. `std::sort` is not stable and compares only
  distances, so ties may fall in any order (`Orders`). The occlusion factor is compared as a
  product of integers, `Alphas` are the values `cur_alpha` takes. A thread's copy of a list and its
  pruning are separate from the locked sections: `ExpandClosest` (locked copy), `Commit` (locked
  overwrite), `AddReverse` (locked test, push or copy), `PruneReverse` (locked overwrite).
* **LabelTrie.** Label sets are sorted, so a trie node is the set of labels on its path. The
  recursion of the walk is stated by what it visits: the terminal nodes reachable from a start
  without passing another terminal node. The filter is a fixed point over the candidates in
  order of size.
* **LabelNavGraph.** `descendants` is indexed by the group, for the code's `group_id - 1`;
  `initialize_roaring_bitsets` reads the code's array at `group_id`, hence at `g + 1` in the model.
  The depth-first walk is a step per pop, because its counter counts pushes.
* **UnifiedGraph.** Ids of `neighbors` are local to a group until `AddOffset`, as in the code.
  Groups larger than a neighbour list get *any* graph within the degree, which contains all
  `VamanaLink` builds. `ExtraEdges` keeps the code's order: the first vectors of the group, until
  enough edges are there, `NumCross \div 2` for each.
* **GraphSearch.** `Sampling` keeps what `get_entry_points_given_group_id` does: it marks the sample
  and queues the vector at the loop counter's place. A containment or equality query clears the
  marks before its search, an overlap query does not. Any scenario is searched in an index of either
  kind (`QueryScenarios`), since no code compares the two: the app loads a general index and accepts
  equality; a program that keeps an equality index in memory may ask it for containment. Queries ask
  for labels up to the base's largest (`SearchAssumption`), which the code takes for granted.
* **HybridSearch.** An equality build fills neither bitmap of a group. When `search_hybrid` counts a
  group on such an index, which it does before it looks at `is_ori_ung`, it indexes empty vectors, and
  the query ends in `fault` (`NoBitmaps`); without a group to count it goes on. `curResult` holds ids
  of the reordered vectors, `results` those of the base, by any one-to-one `NewToOld`. Members that no code sets (`_global_vamana_entry_point`), or that `load` leaves
  out (`_num_groups`), hold any value a build may leave there, and the read behind the array of
  descendants any set: `Flag` is the set of outcomes. A value that sends the program behind its
  vectors is not modelled. The global graph has no edges, so its search keeps of the entry points
  what the queue has room for, in one step. `results` starts as the app makes it, `(0, 0)` in each
  place.
* **AcornAdd.** Lists are in one array, and a write behind the last slot of a list goes where it goes
  in the code: into the next list. A list is read, and written, as a whole. `schedule(static)` fixes
  which thread takes which vector; in the model any takes any. Distances to a vector are distinct,
  which makes an insertion into a sorted list (`NearestFirst`) and the code's heaps agree; they are
  naturals, since only their order matters. The two unlocked writes of `add_with_locks`
  (`max_level`, then `entry_point`) are steps in the code's order. Batches up to 100 vectors have one
  thread (`ParallelAbove`). When a list is written past its end (`"spilled"`) or a thread would read
  a list its entry point does not have (`"torn"`), the behaviour ends there, in `fault`: what the
  program does next depends on memory the model has not. `AcornAssumption` leaves out a first call
  without a vector above the base level, where the program ends. `Fold` and `The` only make TLC
  evaluate a value once.
* **AcornSearch.** A query reads and does not write the index, so one is enough. `lost` is history:
  how often a push into the full heap freed the slot of a candidate handed out before.
* **Persistence.** The builder's memory does not change while it saves, so that the content of a
  file is an expression in it. Three files are modelled by what is in them: the trie's (numbered
  nodes, parents, children), the labels' (one line per vector, none for a vector without labels)
  and the attributes' (numbers of attributes and both directions of the edges). The others are
  written and read back as they are, and only their presence counts. `load` gives up without
  `meta`, `vecs.bin` and `vector_attr_graph`; it goes on without any other file.

## 3. Runs

| Run | Question | Bounds, and why they are enough |
|---|---|---|
| `search_queue` | is the array a bounded best-first set? | 4 ids, 2 distances, capacity 2: more ids than slots (rejections, evictions, a candidate shifted into the spare slot), ties, every order of inserts, expansions and clears |
| `search_caches` | does a query read only its own marks, from a pool that is enough? | 2 threads, 4 queries, 2 pooled caches, marks of 3 values: caches change hands, wraps come at every second clear, any turn may keep its cache, and the pool runs dry |
| `vamana_threads` | are lists bounded and points attached in every interleaving, and does the construction get on? | 2 threads, 5 points, lists of 1: nearly every reverse edge meets a full list and the copy-prune-overwrite window is always open |
| `vamana_one_thread` | is the graph connected, and are edges dropped only by a decision? | 8 scattered points, degree 2, slack 3: lists fill to the slack, reverse prunes and the cleanup take place. `MCConditions` has TLC evaluate that the data meet the conditions of the theorems |
| `label_groups` | do groups, entrances, ranges, Hasse diagram, descendants, coverage and ground truth agree with the labels? | all sequences of 4 label sets over 3 labels, all queries: branches, inner terminal nodes, diamonds, the empty group, several vectors per group, sets that hide each other |
| `graph_search` | does the merged graph follow and connect the labels, and does either search end, meet only what a query admits, and give the caller all it can reach? | 5 groups with a diamond, 8 vectors, one group larger than a list with any graph; queries that miss the global graph, that go to it, that may do either, and without an entry group; a queue of 2 (it drops candidates) and of 8 (it drops none), any samples, both kinds of index in all three scenarios |
| `persistence` | is what the search app loads what the build app had? | all sequences of 3 label sets over 3 labels, both build scenarios, a crash between any two files: empty label sets, several vectors per group, three attributes |
| `acorn` | are lists, entry point, heap and answers right in every interleaving, and does every round of a query get it on? | calls of 4 and 3 vectors; the second has two vectors above all others, linked by 2 threads (`ParallelAbove` 1 for 100). M = 2, M_beta = 1, gamma 1 and 2: base lists fill and shrink, a thread meets a torn entry point. Queries with a heap of two slots (pushes evict) up to one with room for all, both ways of filtering |
| `descendant_bits` | *violation*, see findings | all sequences of 3 label sets over 2 labels |
| `sampled_entry_points` | *violation*, see findings | as `graph_search`, queue of 2 |
| `acorn_links` | *violation*, see findings | one call of 4 vectors with two levels, M = 2, one thread |
| `equality_on_general` | *violation*, see findings | as `graph_search`, general index, queue of 2 |

Bounds named in the models: `NumVectors`, `NumQueries` and `CallEnds` limit insertions, queries and
calls. No other counter is unbounded. A crash falls between two files, not within one: a file cut
short is the last one written, and the loader gives up over the attributes' file behind it, or
over its checksum. An index is saved into an empty directory. Deadlock is checked in every run:
the modules end in a named final state that stutters explicitly, so that any other state without
a step is an error.

### What the properties say

* `ListIsBestFirst` (`Sorted`, `SlotsAgree`, `CursorFirstUnexpanded` and `KeepsClosest` together),
  `ExpandsOnce`, `RefinesBestFirst`: for any order of calls the queue keeps the `Capacity` closest
  ids offered, in order and each with its flag, hands them out closest first, and none twice,
  although an id that was pushed out may be offered again. Each conjunct has a mutant of its own.
* `OneHolder`, `PoolBounded`, `OwnMarks`, `QueriesFinish`: a cache has one user, however many turns
  keep theirs; the caches alive never exceed those the constructor allocated, as long as there
  are no more threads; a query sees its own marks only; nobody waits for a cache that never
  comes back.
* `DegreeBound`, `NeverStranded`, `Advances`: with any number of threads. `Advances` counts the steps a
  thread has left (`StepsLeft`): each step of the construction takes a point that was left, uses up
  one of its thread's and of no other's, or cleans a list. It is what `Terminates` needs beside fairness.
* `NoLostEdge` and `Connected` hold for **one** thread and fail for two (TLC finds both): between a
  thread's copy and its overwrite another thread's edge can vanish, and with it the only path to a
  point. UNG builds each group with one thread (`uni_nav_graph.cpp:253` passes 1 and parallelises over
  groups), which is why the one-thread run is the one that matters; `test/test_build_vamana.cpp` builds
  with many. Both need a queue that keeps all it meets (`QueueKeepsAll`: the group has at most
  `Lbuild` points); in a larger group a list is overwritten with what a search expanded, and that need
  not have been all of it. `Connected` needs data as well (`GoodData`), and TLC refutes it without: no two
  vectors the same, since of copies of the medoid one may be dropped for the sake of another that is
  then not linked to it; all candidates weighed; and no more neighbours that do not hide each
  other (`FewInSight`) than a list holds, since a list that is full drops what nothing hides. Vectors of
  many dimensions need not be like that, and nothing in the code checks it.
* `MinSuperSetsExact`, `OverlapExact`: the entry groups of a query. The query must ask for labels
  the trie knows (`Known`: the array of `_label_to_nodes` is not bounds-checked), and for at
  least one label: an empty query starts below the root and does not meet the group of vectors
  without labels.
* `RangesSound`, `IsHasseDiagram`, `DescendantsExact`, `CoverageExact`: what the search and the
  thresholds of `search_hybrid` take for granted.
* `EdgesFollowLabels` and `OnlyAdmitted`: no edge leaves the groups above, and hence no search those
  a query admits (`Admits`). These are the groups that satisfy it, but for an equality query of
  a general index, which the cross-group edges lead on to all groups above its own. Whatever
  decides where `search_hybrid` sends a query, what the global graph returns is filtered to
  vectors that match. `GroupsConnected`: every edge of the label graph has an edge
  between vectors. It fails with `num_cross_edges = 1`, where the number of extra edges, 1 / 2, is 0.
* `AnswersExact`: with complete group graphs and a queue with room for all their vectors, the caller's
  array gets the base's ids of the K closest of all vectors the query can reach
  (`ReachableGroups`), and of none when it can reach none. It is the strongest claim one can make of a
  greedy search. What can be reached is what matches, with two exceptions: the equality query of a general
  index reaches more, and an overlap query of `search_hybrid` only the vectors that have *all* labels
  of the query and more, since it enters the groups of the flag; an overlap or containment query of an
  index built for equality stays in the groups it enters. Left out are an overlap query
  that samples (finding 2), the global graph, which has no edges, and the query of
  `search_hybrid` that writes nothing: its places keep what they held, vector 0 or an older answer (section 6).
* `EqualityExact`: what the code says of equality queries, and does not do; see finding 4.
* `GroundTruth`: the scan equals a look at every vector's labels.
* `NoTornIndex`: after a crash the search app refuses the index or has all that `search` reads.
  It rests on the order of `save` alone: the attributes' file, whose absence `load_bipartite_graph`
  reports, is written behind the others. The bitmaps of descendants and coverage are written
  behind it, so that an index torn there is loaded and only `search_hybrid` meets the gap.
* `TrieSurvives`, `BitmapExact`: ids travel through two renumberings, the reorder of the vectors and
  the numbering of the trie's nodes, and still lead every label set to its group and mark for every
  query exactly the vectors that have its labels. `LabelsSurvive` excepts vectors without labels,
  behind which the loaded labels are shifted by a line.
* `ListsSound`: lists are read without locks while batches are linked, and still no list holds a
  vector that is not added, has not the list's level, is the list's own, or is there already, and none
  has a gap. It rests on the order of the batches: a vector is met by its own batch only once it has links.
* `EntryAtTop`: several threads may raise the top level and the entry point without a lock, and
  after every batch they agree and are the highest. During such a batch, and only then, a thread may
  pair the new top level with the old entry point.
* `HeapCounts`: `size()` never promises a candidate that `pop_min` does not find, but it is less
  than the number of candidates by the slots pushed over after they were handed out: a search
  may end as exhausted too early. `FilteredExact`: an answer passes the filter, unless it is the
  entry point, and with room for all vectors the answer is exact among those the base level's
  links lead to. `RoundsAdvance`: the loops of a search have no bound on their rounds, a walk leaves
  vectors that fail for others that are farther, and a full heap forgets what it held; but each round
  leads down a level, to a vector that passes from one that fails or is farther, to one not seen
  before, to one candidate less, or to the end.
* `Answered`, `Terminates`, `AddedAndAnswered`: the loops end, see section 4. A query may end the process
  only on an index built for equality, which has no bitmaps (`Fault`).

Every property has a mutant in `PROJECT.json`: a definition changed the way a plausible bug would
change the code, under which the same run reports the property violated.

## 4. Fairness

* `SearchCaches`: per thread, weak fairness of taking a cache while turns are left, of the first
  clear, and of the end of a turn, by release or by leaving it. The pool's mutex is held for a few
  instructions, and a search ends (`Answered`), so a thread that can go on does.
* `VamanaLink`: weak fairness of each thread's steps and of the cleanup. The threads are OpenMP
  workers that run until the loop has no iteration left; locks are held for a copy or an
  overwrite and never while waiting for another, so a thread that can step is never disabled
  by others for good, and weak fairness is enough for `Terminates`.
* `HybridSearch`: weak fairness of the whole next-state relation. A query is one thread's loop and
  shares nothing that changes with the others. `Answered` then says the loop ends, although
  `iterate_to_fixed_point` may be offered expanded vectors again.
* `AcornSearch`: weak fairness of the construction and the query together: some thread that can step
  does. A thread that waits for another's lock of a vector (`LinkBack`) never holds its own then, so
  this is enough for `AddedAndAnswered`, which would find a deadlock or an endless greedy descent.

No other specification states fairness, and no other run checks liveness.

## 5. Proofs

All theorems are checked by TLAPS for every value of the constants allowed by the named
assumptions, which TLC evaluates on the instances.

**`SearchQueue_proofs`** (`CapacityAssumption`, `IdsAssumption`, `DistsAssumption`): `TypeCorrect`,
`ListAlwaysBestFirst` (and its parts `AlwaysSorted`, `CursorCorrect`, `AlwaysClosest`), `AtMostOneExpansion`,
`ImplementsBestFirst`. The inductive invariant
`SafetyInv` is the conjunction of the run's invariants, `expanded \subseteq offered`, and
`ProbeBounds`: while the binary search runs, everything below `lo` is less than the new
candidate and everything from `hi` on is greater. Without it nothing says the slot found
keeps the array sorted; with it an exit at `lo = hi` also shows the id is not in the array.
`AtMostOneExpansion` needs `KeepsClosest`: an id pushed out of a full queue is farther than all
of it and is rejected when offered again. For `ImplementsBestFirst` the list is what `BestFirst` calls
`Kept` (`ListIsKept`): since the list is sorted and holds the closest, a candidate in slot k has k - 1
closer ones, and one outside a full list has at least the capacity; only finiteness of what was
offered is added to the invariant (`RefinementInv`).

**`SearchCaches_proofs`** (`ModulusAssumption`, `CachesAssumption`): `TypeCorrect`,
`CachesNotShared`, `PoolAlwaysBounded`, `ChecksOwnMarks`. The strengthening `AllBehind` says that in
every cache, whoever has it, no mark is ahead of the current value, so that an increment always
reaches a value no mark has, and a wrap is met by zeroing. It holds of a new cache whatever
`new[]` returned, because `init` leaves the current value at its last. `PoolBounded` counts: the
pool only allocates when it is empty, and then fewer threads than there were first caches hold one.

**`VamanaLink_proofs`** (`SizesAssumption`): `TypeCorrect`, `DegreeAlwaysBounded`,
`NoPointStranded`, `AlwaysAdvances` for any number of threads, `LosesNoEdge` and `AlwaysConnected`
for one. Two lemmas on `prune_neighbors` carry it. `PrunesBounded`: take the candidate
chosen last; it was taken while the list had room, so all of them fit. `PrunesSome`: the
candidate at the first place has nothing before it that could hide it or fill the list, so a
prune of a nonempty candidate set is nonempty. The inductive invariant adds that a search
starts at the entry point, which it expands first (`SearchEnters`), that no list and no copy holds its own point
(`NoLoops`), that a copy holds the point it was made for (`CopyHasPoint`), and that the cleanup
starts when all threads are idle (`CleanupLast`). `AlwaysAdvances` needs no more: a search expands a
point once (`ThreadAdvances` counts what is expanded and what is to do).

*One thread.* `LosesNoEdge` assumes `OneThread` and `QueueKeepsAll`. `AloneInv` adds to `SafetyInv`
that lists lead to points already in the graph, that a copy is the list it was made of and the new
point (`CopyFresh`), and that the search has been offered the neighbours of all it expanded
(`SearchClosed`), so that at its end everything it could reach is a candidate.

`AlwaysConnected` assumes `GoodData` too. That the medoid reaches every point is not inductive: a prune
drops edges that paths went over. `ReachInv` is stronger: from each point in the graph to each other there is
a path whose edges are no longer than the two are apart. It is stated with closed sets (`Reaches`), as no
induction along paths is at hand, and over `Links`, the lists and the reverse edges still to be
added. An edge to b that a prune of p drops is hidden by one to a that is kept, and b is nearer to a than
to p (`DroppedIsHidden`); so the way from a to b, of edges shorter than the one dropped, stands in for it, and
among all pairs that a prune would part there would be a closest one (`PrunedStillReach`). Here `AllDiffer`
is used: of copies of p, all at distance 0, one hides another without being nearer to it. A new point is linked
to what a prune keeps of all others (`NewPointReaches`), because the search, which reaches all, had them all
as candidates. When all are linked nothing is pending, and what is reached from the medoid (`ReachCloses`) is all.

**`LabelNavGraph_proofs`** (`LabelsAssumption`, `NumVectorsAssumption`) has one
invariant per phase of the label side, each on those before it.
The trie first: `TrieTypeCorrect`, `GroupIdsDense`, `EntersMinimalSuperSets`,
`EntersMinimalOverlaps`. The invariant adds that ids in use are below
`newGroupId` and that a group's set is a node. The argument for the queries is in three lemmas.
`FilterExact`: the filter by size leaves exactly the minimal candidates, and its fixed point is
unique. `MinimalThroughFilter`: if every candidate matches, and every minimal match is a
candidate, then the filter leaves the minimal matches. `EntersMinimal`: the walk meets every
minimal match, because a terminal node that stopped it earlier would be a smaller match.
Then the build: `RangesAlwaysSound`, `GraphIsHasseDiagram`, `DescendantsAreSuperSets`,
`CoverageAlwaysExact`.
`BaseInv`: the groups are the trie's terminal nodes, a vector is in its label set's group once, and
the ids handed out point back into their group; counting then shows that the ids are a permutation.
`HasseInv`: `EntersMinimalSuperSets`, applied to a group's own labels, gives the groups next above it.
`DescendInv`: the walk has found what it has seen or stacked, and no group on the stack lies
above one nearer the top. A child that is on the stack already would lie above the group on
top of it, so each unseen child is new and the counter is right; that needs the Hasse diagram, with a
shortcut edge a group would be counted twice. What is closed under the edges holds all
above (`ClosedIsAll`). `CoverInv`: the out-degree counts the groups next above that have
not left the queue. When it is empty none is waiting, since the waiting group with most labels
would wait for one with more (`QueueEmptied`).
And the scan: `ScanIsGroundTruth`. `ScanInv` is `BaseInv` for the scan's own trie. A node that holds
the labels of a query lies below an entrance, the first node on its path that holds them
(`EntranceBelow`), so the groups below the entrances are those whose labels match
(`TargetsMatch`), and their vectors those that match, each once.

**`HybridSearch_proofs`** (`GraphAssumption`, `DistAssumption`, `SearchAssumption`,
`QueryDistAssumption`): `EdgesAlwaysFollowLabels`, `CrossEdgesAlwaysClosest`, `GroupsAlwaysConnected`,
`OnlyAdmittedAlways`, `AnswersAlwaysExact`, for any label graph, group sizes,
distances, list lengths and entry points, with any graph in the groups that are larger than a
list, and for queries of any scenario on an index of either kind. `GroupsAlwaysConnected` and `AnswersAlwaysExact` have the hypothesis `NumCross # 1`, without
which they are false (section 3), and `AnswersAlwaysExact` those in the property itself: complete groups, room in the
queue, no samples, not the global graph, and a query that writes. The search of a group is a recursive function over the sets
of candidates met; `RecursionExists` (below) shows that it has a value, and a least counterexample
that it ends with all it kept expanded (`SearchResult`), which is all the proofs use of it. A
queue is `Best(d, S, n)`, the `n` closest of what it was offered: the best of a union is the best of the
bests of its parts (`BestOfBests`), so several queues, collected, are one over all. `BuildInv` says
per phase what lists hold: ids of the group before the offset is added and of its range
afterwards (`EdgesInv`), the closest vectors of the small groups above (`ClosestInv`), and an
edge, or an additional one that the merge keeps, into each group next above (`ConnectInv`).
`SearchInv`: what a query has offered, marked or collected lies in groups above those it
entered. `ExactInv`: where a queue has room for all that can be reached, the searches so far cover a
set that is closed under the edges; at the end it contains all that can be reached, because each
reachable group is entered or above one that is (`EnteredOrAbove`), an edge leads into
each group next above, and a closed set with one vector of a complete group has all of it
(`ClosedReachesAll`).

**`Acorn_proofs`** (`AcornAssumption`, `SearchAssumption`): `EntryPointAtTop`, `ListsAlwaysSound`,
`HeapAlwaysCounts`, `FilteredAlwaysExact`, `RoundsAlwaysAdvance`, for any levels, distances, calls, batches, number of
threads and queries.

*The entry point* needs only who is where in `add_with_locks`, and nothing of
what the searches find. `AtWork`: the threads at work have vectors of the batch, and beside another
thread only if the batch is parallel. `TopLevel`: the top level covers every vector added on which
nobody is at work, and the entry point has it, but between the two writes of a thread. `Raising`: a
thread that is about to write has a vector above all calls before, and one that has read an entry
point below the top level was beside such a thread. The key step is the end of a vector above the
top level (`AboveAllIs`): the entry point is then of an earlier call, because the vectors added in
this call are at least as high as the batch; and everything of earlier calls is covered, so the
batch is above all of it. At a barrier nobody is at work, which leaves `EntryAtTop`.

*The lists* (`LinksInv`, as long as `fault = "none"`). A list of a vector on a level is `Unlinked` until a thread has
written the vector's own links there, and `Linkable` for a list are the other vectors that have its level
and are linked on it. `AllSound`: every list is a sequence without repetition of
linkable vectors followed by empty slots, and empty if it is unlinked itself. This is stronger than
`ListsSound`, which is not inductive: nothing in it keeps a thread from meeting, in another's list, the vector it
is about to link, and from linking it to itself or twice. `AllSane`: what a thread has found, or
may look at next, is linkable for its vector and level, and the links it still has to write back
are not there yet. `Apart`: no two threads work on one vector. `EntryReady`: nobody works on the entry
point. Below it is arithmetic on offsets (`SlotsApart`: a write to one list changes no other),
and what the folds over lists do: insertion into a sorted list, `shrink_neighbor_list`,
`add_link` (`AddLinkIs`: nothing gets into a list but the new link), the weighing of a search.

*The query* (`SearchInv`). Once a query is asked no step of `add` is possible (`BuiltStays`), so it
reads lists that are sound, from an entry point of the top level. `Stand`: on the way down it
is at a vector of the level that passes, or at the entry point. `Counted`: the count of the heap is right up to
`lost`. A push into a full heap frees the slot of the farthest; if that was handed out, a candidate is
added without the count saying so, otherwise one replaces one (`PushIs`). `Exhaustive` is the
hypothesis of `FilteredExact`. Under it the heap never fills and no loop over a list is cut
short, because what counts against the limit is as many vectors seen that pass (`FewPass`);
so the heap is what was seen, `found` the closest that pass of it (`ClosestAdds`: the closest of the
closest so far and one more are the closest of all), and the lists of what was handed out are in what was
seen (`Complete`, `Looked`). When no candidate is left, what was seen is closed under links
and inside of what can be reached, hence all of it. `RoundsAlwaysAdvance` has what a loop over a list
carries along: on an upper level, that the vector in hand is the one the round began with or better
(`Improves`); on the base level, that nothing is forgotten, and that a push is of a vector not seen before, so
that without one the count is as `pop_min` left it (`Further`).

**`Persistence_proofs`** (`LabelsAssumption`, `NumVectorsAssumption`): `NeverTorn`, `BitmapAlwaysExact`,
`LabelsAlwaysSurvive`, `TrieAlwaysSurvives`, for any base and query labels. The invariant of `NeverTorn` says
that the files on disk, and so the files a load finds, are always a first part of `SaveOrder`. The
attributes are a file every load requires, and all that the search reads is saved before them, so a
load that does not fail has it all. For the contents `MemoryInv` adds to it that the builder has
built (`BaseInv`) when it saves, and that what was loaded is what its files say. `TrieAlwaysSurvives`:
the nodes get numbers by rank, which differ (`RanksDiffer`), so the parents and children read back
lead from a group up its labels, and down them again. `BitmapAlwaysExact`: the numbers of
attributes are a bijection by their first place of use (`SeenBefore`); a bitmap is then the intersection of the vectors
of the query's attributes, ids permuted by the reorder as `BaseInv` has it. `LabelsAlwaysSurvive`: with
no vector without labels the file has a line for every vector, which counting along `LinesOf` shows.

**`LeastValues`**: nonempty sets of naturals have least and finite sets of naturals largest
members; stated once because induction schemata take an operator and cannot be instantiated.
`RecursionExists`: a recursion that descends in a natural size defines a function, shown with a
least size at which it would not; the step is a function of a pair, for the same reason.

**Only model-checked.** Liveness (`Terminates`, `QueriesFinish`, `Answered`, `AddedAndAnswered`): it needs
`ENABLED` of actions under fairness, which the prover does not support. `Advances` and `RoundsAdvance` are
the part of it that needs no fairness, and are proved. Every other property of a passing run is
proved, `Connected` and `NoLostEdge` under the conditions named.

## 6. Findings

1. **The descendants bitmaps are those of the next group** (`descendant_bits`).
   `get_descendants_info` stores the descendants of `group_id` at `[group_id - 1]`
   (`uni_nav_graph.cpp:901`); `initialize_roaring_bitsets` reads them at `[group_id]`
   (`uni_nav_graph.cpp:1064`). Every bitmap is off by one group and the last one is read past the
   end. `search_hybrid` compares the size of their union with a threshold.
2. **A sampled entry point is marked but another vector is queued** (`sampled_entry_points`).
   `uni_nav_graph.cpp:1603` pushes the id at the loop counter's place, not the sampled one. In an
   overlap query the mark survives, and the sampled vector is never looked at; its answer may
   be lost.

3. **A full upper list is written back with one link more than it has slots** (`acorn_links`).
   `ACORN.h:122-123` says of `neighbors[offsets[i]:offsets[i+1]]` "is the list of neighbors of vector i
   for all levels. this is where all storage goes", and `add_link` is to shrink a list "to make room"
   (`ACORN.cpp:755-756`). Above level 0 nothing is shrunk: the old links and the new one are all
   written (`ACORN.cpp:815-820`), the last one into the next list or, for the last vector, behind the array.
4. **Equality queries are answered with super sets** (`equality_on_general`). "obtain entry points for
   label-equality scenario" (`uni_nav_graph.cpp:1552`) enters the group of exactly the query's labels, and
   the ground truth is of the vectors whose labels "are equal" (`filtered_scan.cpp:34`); the global branch
   compares them (`uni_nav_graph.cpp:1447`). In the unified graph nothing does: the search follows the
   cross-group edges of a general index (`uni_nav_graph.cpp:1287`, `1516`) into the groups above, and their
   vectors push matching ones out of the answer. The search app offers the scenario
   (`search_UNG_index.cpp:80`), and a general index is all it can load, since saving one built for
   equality ends the process (`SaveAborts`).

Two more things the code says and does not do are steps of the models, without a run of their own:

* *An index built for equality cannot be saved* (`SaveAborts` in `Persistence`). The build app offers
  "<equality/general>" (`build_UNG_index.cpp:53`). An equality build never allocates `_label_nav_graph`,
  and `save` reads `_label_nav_graph->coverage_ratio` (`uni_nav_graph.cpp:1789`): the process dies before
  the attributes' file is written. `NoTornIndex` says that the search app refuses what is left.
* *A query of `search_hybrid` without an entry group leaves its results unwritten* (`LocalNoEntry` in
  `HybridSearch`). It continues with the next query (`uni_nav_graph.cpp:1513`) before "5. 记录结果", record
  the results (`uni_nav_graph.cpp:1522`), where `search` writes -1. Its places keep what they held:
  vector 0 in the app's new array, or the answers of the run with the `Lsearch` before, and the
  app takes what is not -1 for an answer (`search_UNG_index.cpp:33`). No answer is missed, since
  nothing matches such a query.

Observed and not counted as findings, since no text of the repository says otherwise: a parallel
Vamana build may lose edges and cut points off; so may one by one thread, if vectors are the same as the
medoid or a list is too short for what a point has in sight; `num_cross_edges = 1` leaves groups
unconnected; label 0 and labels above the base's largest index outside `_label_to_nodes`; an
index built for equality and kept in memory can be searched for containment, without cross-group
edges, and `search_hybrid` reads behind its empty bitmaps (`uni_nav_graph.cpp:1376`, `1393`); an overlap
query of `search_hybrid` never enters groups that share only some of its labels; labels behind a
vector without any are loaded with the wrong vector (`storage.cpp:160`); an ACORN thread may start at a
level its entry point does not have; `ep_per_level` is written one place behind its end
(`ACORN.cpp:1260`); the first candidate of ACORN's base level is an answer without a look at the
filter; a neighbour not seen yet counts twice in `search_neighbors_to_add`; `MinimaxHeap::push` counts
a slot that held no candidate any more.

## 7. Not modelled

* **ACORN's search without a filter**, which the demo does not call, `reset`, statistics,
  `calculate_distances`, `upper_beam` above 1, and random links. `IndexACORN`'s other index types
  delegate to the parts of faiss they are named after.
* **The global graph with edges**: `build` does not build it (the call is commented out).
* **Two indexes in one directory**: a save over an older index that crashes leaves files of both, and
  nothing in the code tells them apart. `Vamana::save`, `load` and its stand-alone `search`, which
  only the Vamana tests call.
* **`nofilter`** of `search`: the search app refuses the scenario.
* **`FilteredScan::run`**: groups the queries as the base and answers each the same way.
* **Distances, `choose_medoid`**: floating-point arithmetic. The models take any distance function
  over the naturals and any medoid. **Query generators, apps, tools, tests, DataTools, scripts**:
  file formats, timing and random inputs.
* **CRoaring, faiss**: third-party. They are more than nine tenths of the lines under `src/`, so the map covers
  a small share of all lines, and about a third of those of the repository's own C++ sources
  (`UNG/codes/{src,include,vamana,apps}`, `ACORN.*`, `IndexACORN.*`), of which the query generators,
  statistics, logging and argument parsing are most of the rest. A bitmap is a set here.

## 8. Plan

The order is by how much of the system's answers rests on a part.

| Step | Work | State |
|---|---|---|
| 1 | `BestFirst`, `SearchQueue`, `VisitedSet` with their proofs | done |
| 2 | `VamanaLink`: construction, interleavings, proofs of the bounds | done |
| 3 | `LabelTrie`: the groups a query enters, proved exact | done |
| 4 | `LabelNavGraph`, `UnifiedGraph`, `GraphSearch`: build and search end to end | done |
| 5 | `FilteredScan`: the ground truth | done |
| 6 | `HybridSearch`: the choice of the graph, the bitmap filter, results left unwritten, every scenario on either kind of index | done |
| 7 | `Persistence`: save in one process with crashes, load in another; vector-attribute graph and bitmaps | done |
| 8 | `SearchCaches`: the pool with the turns that keep their cache, proved | done |
| 9 | `AcornAdd`, `AcornSearch`: parallel insertion, filtered search, the heap; the entry point proved | done |
| 10 | Proofs: `SearchQueue` implements `BestFirst`; the label side of `build`; no torn index is loaded | done |
| 11 | Proofs: the ground truth; bitmap, labels and trie after a load; edges, cross-group edges and connection of the merged graph; what `search` and `search_hybrid` return | done |
| 12 | Proofs: ACORN's lists under parallel insertion, the heap's count, the filtered search | done |
| 13 | Proofs: what a Vamana build by one thread never loses, and on which data it is connected; that no schedule keeps a construction, and no filter a search, going for ever | done |

Modules meant for proofs have no recursive operators; recursion is by recursive functions
(`First`, `Reach`, `GroupSearch`).
