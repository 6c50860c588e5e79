------------------------------ MODULE HybridSearch ------------------------------
(***************************************************************************)
(* UniNavGraph::search_hybrid over the graph module UnifiedGraph builds: a  *)
(* query whose minimal super sets have many descendants, or cover most      *)
(* vectors, goes to the global graph and has its answers filtered by the    *)
(* attribute bitmap; the others go the way of search, with overlap queries  *)
(* entering all their groups at once. Expanding a vector and collecting the *)
(* queue are GraphSearch's own actions. The search app calls search or      *)
(* search_hybrid (is_new_method) with the same array of results: the        *)
(* specification takes either for a query.                                  *)
(*                                                                         *)
(* Either may be called on an index built for equality, too, which only a   *)
(* program that keeps it in memory can do (SaveAborts). It has no bitmaps   *)
(* to choose a graph by: search_hybrid reads behind empty vectors, and the  *)
(* query ends in "fault".                                                   *)
(*                                                                         *)
(* Nothing in the repository gives _global_graph an edge or sets            *)
(* _global_vamana_entry_point, and load leaves _num_groups unset: what is   *)
(* read of the last two is any value a build may hold. A value of the entry *)
(* point that is no vector's id is not modelled: the search reads behind    *)
(* the vectors.                                                             *)
(***************************************************************************)
EXTENDS GraphSearch

CONSTANT NewToOld  \* _new_to_old_vec_ids

ASSUME NewToOldAssumption ==
  /\ DOMAIN NewToOld = Points
  /\ \A v, w \in Points : NewToOld[v] = NewToOld[w] => v = w

VARIABLES
  isNewMethod, \* is_new_method: search_hybrid answers the query, not search
  isOriUng,   \* is_ori_ung
  isGlobal,   \* use_global_search
  results     \* the ids in the query's places of the caller's array, those of the base

hybridVars == <<isNewMethod, isOriUng, isGlobal, results>>

NumGroups == Cardinality(Groups)
NumPoints == Cardinality(Points)

\* the app's array is made of pairs (0, 0): vector 0 in all places
Unwritten == {0}

\* no vector: -1
NoPoint == -1

\* get_min_super_sets(labels, ids, avoid_self, need_containment), both true:
\* see MinSuperSetsExact
FlagGroups ==
  LET over == {g \in Groups : labels \subseteq GroupLabels[g] /\ labels # GroupLabels[g]}
  IN {g \in over : \A h \in over : GroupLabels[h] \subseteq GroupLabels[g] => h = g}

\* _lng_descendants_rb[g] holds the next group's set, see LabelNavGraph
DescendantBits(g, stray) == IF g + 1 \in Groups THEN Above[g + 1] ELSE stray

CoveredBits(g) == UNION {Members(h) : h \in Above[g] \union {g}}

\* The first group counted needs the bitmaps, which only a general build fills.
\* An index not loaded has the number of its groups.
NoBitmaps == buildScenario = "equality" /\ FlagGroups # {}

\* the flag when _num_groups is read as n: more than 0.8 of the vectors are
\* covered, or the descendants outnumber _num_points / 2.5
UseGlobal(n, stray) ==
  LET counted == FlagGroups \intersect (1 .. n)
      covered == UNION {CoveredBits(g) : g \in counted}
      descendants == UNION {DescendantBits(g, stray) : g \in counted}
  IN \/ 5 * Cardinality(covered) > 4 * NumPoints
     \/ Cardinality(descendants) > (2 * NumPoints) \div 5

\* what lies behind the array counts at the least nothing, at the most all groups
Flag ==
  CASE NoBitmaps -> {}
    [] ~NoBitmaps /\ isOriUng -> {FALSE}
    [] OTHER -> {UseGlobal(n, stray) : n \in 0 .. NumGroups, stray \in {{}, Groups}}

MayBeGlobal == TRUE \in Flag
MayBeLocal == FALSE \in Flag

\* (mutant: the bitmap alone filters an equality query)
HasLabels(v) == labels \subseteq GroupLabels[GroupOf[v]]

\* the filter: the query's bitmap, which has a vector when it has all labels of
\* the query, and for an equality query the label sets as well
IsValid(v) ==
  /\ labels \subseteq GroupLabels[GroupOf[v]]
  /\ scenario = "equality" => GroupLabels[GroupOf[v]] = labels

\* any vector, or what NumEntry draws leave of them
GlobalEntryPoints == {{s[i] : i \in 1 .. NumEntry} : s \in [1 .. NumEntry -> Points]}

\* iterate_to_fixed_point_global: the global graph has no edges, so the queue
\* keeps of the entry points what it has room for, and expands it all
GlobalKept(points) == Best(d, points, Lsearch)

\* (mutant: the ids of the reordered vectors are written)
WrittenAsIs(found) == found

Written(found) == {NewToOld[v] : v \in found}
-----------------------------------------------------------------------------
HybridInit ==
  /\ SearchInit
  /\ isNewMethod = FALSE /\ isOriUng = FALSE /\ isGlobal = FALSE
  /\ results = Unwritten

HybridStart ==
  /\ StartQuery
  /\ isNewMethod' \in BOOLEAN
  /\ isOriUng' \in BOOLEAN
  /\ ~isNewMethod' => ~isOriUng'
  /\ UNCHANGED <<isGlobal, results>>

\* (mutant: search goes on without writing, too)
PlacesLeft == results

\* search writes -1 into every place of a query without entry points
PlacesCleared == {}

OriginalNoEntry ==
  /\ ~isNewMethod
  /\ NoEntry
  /\ results' = PlacesCleared
  /\ UNCHANGED <<isNewMethod, isOriUng, isGlobal>>

OriginalEnter ==
  /\ ~isNewMethod
  /\ EnterAll \/ OverlapBegin
  /\ UNCHANGED hybridVars

OriginalNextGroup(g) == OverlapEnter(g) /\ UNCHANGED hybridVars

\* whatever is_ori_ung says: it is looked at when the flag is there
Fault ==
  /\ isNewMethod
  /\ mode = "enter"
  /\ NoBitmaps
  /\ mode' = "fault"
  /\ UNCHANGED <<vars, scenario, Lsearch, labels, d, toEnter, marked, offered, expanded,
                 curResult, hybridVars>>

\* one step: what its queue holds is not used after it
GlobalSearch ==
  /\ isNewMethod
  /\ mode = "enter"
  /\ MayBeGlobal
  /\ isGlobal' = TRUE
  /\ \E points \in GlobalEntryPoints :
       curResult' = Best(d, {v \in GlobalKept(points) : IsValid(v)}, K)
  /\ results' = Written(curResult')
  /\ mode' = "done"
  /\ UNCHANGED <<vars, scenario, Lsearch, labels, d, toEnter, marked, offered, expanded,
                 isNewMethod, isOriUng>>

\* (mutant: an overlap query enters the groups it enters in search)
OverlapAsSearch == EntryGroups

\* the groups an overlap query enters are those of the flag
OverlapGroups == FlagGroups

\* the entry points of all groups go into one queue; the marks stay
LocalOverlap ==
  /\ isNewMethod
  /\ mode = "enter" /\ scenario = "overlap"
  /\ MayBeLocal
  /\ \E samples \in [OverlapGroups -> UNION {Samples(g) : g \in OverlapGroups}] :
       /\ \A g \in OverlapGroups : samples[g] \in Samples(g)
       /\ offered' = UNION {Sampling(g, {}, samples[g]).points : g \in OverlapGroups}
       /\ marked' = UNION {Sampling(g, {}, samples[g]).seen : g \in OverlapGroups}
  /\ expanded' = {}
  /\ mode' = "search"
  /\ UNCHANGED <<vars, scenario, Lsearch, labels, d, toEnter, curResult, hybridVars>>

\* containment and equality without a group to enter: the loop goes on with the
\* next query, and this one's places keep what they held
LocalNoEntry ==
  /\ isNewMethod
  /\ scenario # "overlap"
  /\ MayBeLocal
  /\ NoEntry
  /\ UNCHANGED hybridVars

LocalEnter ==
  /\ isNewMethod
  /\ MayBeLocal
  /\ EnterAll
  /\ UNCHANGED hybridVars

Expand == ExpandClosest /\ UNCHANGED hybridVars

Over ==
  /\ SearchOver
  /\ results' = IF mode' = "done" THEN Written(curResult') ELSE results
  /\ UNCHANGED <<isNewMethod, isOriUng, isGlobal>>

HybridNext ==
  \/ BuildStep /\ UNCHANGED <<queryVars, hybridVars>>
  \/ HybridStart
  \/ OriginalNoEntry \/ OriginalEnter \/ \E g \in Groups : OriginalNextGroup(g)
  \/ Fault \/ GlobalSearch \/ LocalOverlap \/ LocalNoEntry \/ LocalEnter
  \/ Expand \/ Over
  \/ mode \in {"done", "fault"} /\ UNCHANGED <<vars, queryVars, hybridVars>>

HybridSpec ==
  /\ HybridInit /\ [][HybridNext]_<<vars, queryVars, hybridVars>>
  /\ WF_<<vars, queryVars, hybridVars>>(HybridNext)
-----------------------------------------------------------------------------
\* The groups whose vectors a query may meet inside the unified graph, where no
\* vector is ever compared with the query's labels: an equality query enters its
\* own group, and the cross-group edges of a general index lead it on.
Admits(g) ==
  IF scenario = "equality" /\ buildScenario # "equality" THEN labels \subseteq GroupLabels[g]
  ELSE Satisfies(g)

Admitted == {v \in Points : Admits(GroupOf[v])}

\* Whatever the graphs of large groups look like, no step of a search inside the
\* unified graph meets a vector with labels the query does not admit: it is only
\* entered at the right groups and led by the edges. What the global graph gives is
\* filtered to the vectors that match. So it is whichever way the flag sends a query
\* of search_hybrid, and whatever is read of the members nobody sets.
OnlyAdmitted ==
  scenario # "none" =>
    /\ offered \union curResult \subseteq Admitted
    /\ isGlobal => curResult \subseteq Matches

\* "obtain entry points for label-equality scenario" (uni_nav_graph.cpp:1552), the
\* ground truth "locate the base vector ids that are equal" (filtered_scan.cpp:34)
\* and the comparison of the label sets in the global graph (uni_nav_graph.cpp:1447)
\* say what an equality query is for: only vectors with just its labels answer it.
EqualityExact ==
  mode = "done" /\ scenario = "equality" => curResult \subseteq Matches

EnteredGroups == IF isNewMethod /\ scenario = "overlap" THEN FlagGroups ELSE EntryGroups

\* The groups whose vectors a query can find without the global graph: without
\* cross-group edges those it enters, with them all above these. In search_hybrid
\* an overlap query enters only groups above its own label set.
ReachableGroups ==
  CASE buildScenario = "equality" -> EnteredGroups
    [] buildScenario # "equality" /\ scenario = "equality" ->
         {g \in Groups : labels \subseteq GroupLabels[g] /\ EntryGroups # {}}
    [] buildScenario # "equality" /\ scenario = "overlap" /\ isNewMethod ->
         {g \in Groups : labels \subseteq GroupLabels[g] /\ labels # GroupLabels[g]}
    [] OTHER -> {g \in Groups : Satisfies(g)}

Reachable == UNION {Members(g) : g \in ReachableGroups}

SampledGroups ==
  {g \in EnteredGroups : scenario = "overlap" /\ GroupSizes[g] > NumEntry}

\* search_hybrid goes on with the next query before it has written anything
LeftUnwritten == isNewMethod /\ scenario # "overlap" /\ EntryGroups = {}

\* When the groups of what a query can reach are complete graphs and the queue
\* has room for all their vectors, the caller's array gets the base's ids of the K
\* closest of them: each can be reached over the cross-group edges, the groups an
\* overlap query of search enters one by one lose none to each other's marks, and
\* neither does the one queue search_hybrid fills from all its groups. Left out are
\* the queries sent to the global graph, overlap queries that sample, which lose
\* vectors (SamplesOffered), and those of which nothing is written.
\* For an equality query of a general index this is more than
\* it asks for (EqualityExact).
AnswersExact ==
  mode = "done" /\ ~isGlobal /\ ~LeftUnwritten /\ Cardinality(Reachable) <= Lsearch
    /\ SampledGroups = {} /\ (\A g \in ReachableGroups : Complete(g))
  => results = {NewToOld[v] : v \in Best(d, Reachable, K)}

\* A query of either method ends, although expanded vectors may be offered again,
\* and only without bitmaps does it end the process.
Answered == phase = "built" ~> mode = "done" \/ (mode = "fault" /\ buildScenario = "equality")
=============================================================================
