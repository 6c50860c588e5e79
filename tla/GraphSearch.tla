------------------------------ MODULE GraphSearch ------------------------------
(***************************************************************************)
(* UniNavGraph::search over the finished graph, one query at a time: a      *)
(* query has its own cache and results, and the graph no longer changes, so *)
(* that queries running in parallel do not meet. The groups it enters are   *)
(* what module LabelTrie establishes (MinSuperSetsExact, OverlapExact); the *)
(* search queue is the best-first set of module BestFirst.                  *)
(***************************************************************************)
EXTENDS UnifiedGraph

CONSTANTS
  QueryLabels,  \* label sets queries ask for
  QueryDist,    \* the distances to every vector, for each query vector
  LsearchList,  \* the values of Lsearch the app searches with
  K,
  NumEntry      \* num_entry_points

ASSUME SearchAssumption ==
  /\ K \in Nat \ {0} /\ \A L \in LsearchList : L \in Nat /\ K <= L
  /\ NumEntry \in Nat \ {0}
  /\ \A Q \in QueryLabels : Q # {}
  \* _label_to_nodes has a place for the labels up to the base's largest
  /\ \A Q \in QueryLabels : \A l \in Q : \E g \in Groups : \E m \in GroupLabels[g] : l <= m

ASSUME QueryDistAssumption == \A q \in QueryDist : \A v \in Points : q[v] \in Nat

VARIABLES
  mode,       \* what the query's thread is doing
  scenario,   \* search's scenario
  Lsearch,    \* capacity of its search queue
  labels,     \* the query's label set
  d,          \* the distances to its vector
  toEnter,    \* entry groups the overlap loop has still to take
  marked,     \* visited_set
  offered,    \* ids inserted into search_queue since it was cleared
  expanded,   \* ids get_closest_unexpanded has handed out since
  curResult   \* cur_result, then the results

queryVars == <<mode, scenario, Lsearch, labels, d, toEnter, marked, offered, expanded, curResult>>

Satisfies(g) ==
  CASE scenario = "containment" -> labels \subseteq GroupLabels[g]
    [] scenario = "overlap" -> labels \intersect GroupLabels[g] # {}
    [] scenario = "equality" -> labels = GroupLabels[g]

\* the groups a query enters are the minimal ones of these
\* (mutant: a containment query may enter where one label matches)
SatisfiesSome(g) ==
  CASE scenario = "containment" -> labels \intersect GroupLabels[g] # {}
    [] scenario = "overlap" -> labels \intersect GroupLabels[g] # {}
    [] scenario = "equality" -> labels = GroupLabels[g]

Entered(g) == Satisfies(g)

EntryGroups ==
  {g \in Groups : Entered(g) /\ \A h \in Groups :
                    Entered(h) /\ GroupLabels[h] \subseteq GroupLabels[g] => h = g}

\* get_entry_points_given_group_id: all of a small group, and of a large one its
\* entry point and, for every sample not seen before, the vector whose place in
\* the group is the sample's number. samples[i] is what rand() gives, and seen
\* the visited set.
Sampling(g, seen, samples) ==
  IF GroupSizes[g] <= NumEntry
  THEN [points |-> Members(g), seen |-> seen]
  ELSE LET seenAt(i) == seen \union {entries[g]} \union {samples[j] : j \in 1 .. i - 1}
       IN [points |-> {entries[g]} \union
                        {First[g] + i : i \in {j \in DOMAIN samples : samples[j] \notin seenAt(j)}},
           seen |-> seenAt(NumEntry)]

Samples(g) == [1 .. NumEntry - 1 -> Members(g)]
-----------------------------------------------------------------------------
SearchInit ==
  /\ Init
  /\ mode = "wait" /\ scenario = "none" /\ Lsearch = 0 /\ labels = {} /\ d = <<>>
  /\ toEnter = {} /\ marked = {} /\ offered = {} /\ expanded = {} /\ curResult = {}

\* those the search app accepts, of an index of either kind: nothing compares a
\* query's scenario with the one the index was built for
QueryScenarios == {"containment", "equality", "overlap"}

StartQuery ==
  /\ phase = "built"
  /\ mode = "wait"
  /\ scenario' \in QueryScenarios
  /\ Lsearch' \in LsearchList
  /\ labels' \in QueryLabels
  /\ d' \in QueryDist
  /\ mode' = "enter"
  /\ UNCHANGED <<vars, toEnter, marked, offered, expanded, curResult>>

NoEntry ==
  /\ mode = "enter"
  /\ EntryGroups = {}
  /\ mode' = "done"
  /\ UNCHANGED <<vars, scenario, Lsearch, labels, d, toEnter, marked, offered, expanded, curResult>>

\* get_entry_points, and iterate_to_fixed_point clearing the visited set that
\* the sampling marked. The groups' samples are drawn one after the other, but
\* no vector is in two groups.
EnterAll ==
  /\ mode = "enter" /\ scenario # "overlap"
  /\ EntryGroups # {}
  /\ \E samples \in [EntryGroups -> UNION {Samples(g) : g \in EntryGroups}] :
       /\ \A g \in EntryGroups : samples[g] \in Samples(g)
       /\ offered' = UNION {Sampling(g, {}, samples[g]).points : g \in EntryGroups}
  /\ marked' = {}
  /\ expanded' = {}
  /\ mode' = "search"
  /\ UNCHANGED <<vars, scenario, Lsearch, labels, d, toEnter, curResult>>

OverlapBegin ==
  /\ mode = "enter" /\ scenario = "overlap"
  /\ EntryGroups # {}
  /\ toEnter' = EntryGroups
  /\ marked' = {}
  /\ mode' = "next group"
  /\ UNCHANGED <<vars, scenario, Lsearch, labels, d, offered, expanded, curResult>>

\* an overlap query enters its groups in the order get_min_super_sets leaves
\* them, with a cleared queue but the visited set of the groups before
OverlapEnter(g) ==
  /\ mode = "next group"
  /\ g \in toEnter
  /\ \A h \in toEnter : Cardinality(GroupLabels[g]) <= Cardinality(GroupLabels[h])
  /\ \E samples \in Samples(g) :
       /\ offered' = Sampling(g, marked, samples).points
       /\ marked' = Sampling(g, marked, samples).seen
  /\ toEnter' = toEnter \ {g}
  /\ expanded' = {}
  /\ mode' = "search"
  /\ UNCHANGED <<vars, scenario, Lsearch, labels, d, curResult>>

\* get_closest_unexpanded: the closest of the unexpanded, if the queue kept it
ClosestUnexpanded == Best(d, offered \ expanded, 1) \intersect Best(d, offered, Lsearch)

Unmarked(c) == neighbors[c] \ marked

\* (mutant: the candidate is handed out without being flagged)
FlagsNothing(c) == expanded' = expanded

Flags(c) == expanded' = expanded \union {c}

\* one round of iterate_to_fixed_point
ExpandClosest ==
  /\ mode = "search"
  /\ \E c \in ClosestUnexpanded :
       /\ Flags(c)
       /\ offered' = offered \union Unmarked(c)
       /\ marked' = marked \union neighbors[c]
  /\ UNCHANGED <<vars, mode, scenario, Lsearch, labels, d, toEnter, curResult>>

\* (mutant: the results of the groups before are overwritten)
KeepNewest(found) == Best(d, found, K)

\* the queue's K closest go into cur_result, which has K places
MergeResult(found) == Best(d, curResult \union found, K)

SearchOver ==
  /\ mode = "search"
  /\ ClosestUnexpanded = {}
  /\ curResult' = MergeResult(Best(d, offered, K))
  /\ mode' = IF toEnter = {} THEN "done" ELSE "next group"
  /\ UNCHANGED <<vars, scenario, Lsearch, labels, d, toEnter, marked, offered, expanded>>

-----------------------------------------------------------------------------
Matches == {v \in Points : Satisfies(GroupOf[v])}

Complete(g) == \A v \in Members(g) : local[v] = (0 .. GroupSizes[g] - 1) \ {v - First[g]}

\* uni_nav_graph.cpp:1596 says "randomly sample the other entry points": a
\* vector marked as sampled is one of the entry points. An overlap query keeps
\* the marks, and does not look at a marked vector again.
SamplesOffered ==
  [][\A g \in Groups : OverlapEnter(g) => marked' \ marked \subseteq offered']_<<vars, queryVars>>
=============================================================================
