----------------------------- MODULE UnifiedGraph -----------------------------
(***************************************************************************)
(* From the graphs of the groups to one graph over all vectors              *)
(* (UniNavGraph::build_cross_group_edges and add_offset_for_uni_nav_graph): *)
(* every vector is searched for in the graphs of the groups above its own,  *)
(* groups of the label navigating graph left without an edge between them   *)
(* get extra ones, and only then the ids of the group graphs, which start   *)
(* at 0 in each group, become ids of the whole and the edges are merged.    *)
(*                                                                         *)
(* Groups, their ranges of ids and the edges of the label navigating graph  *)
(* are what module LabelNavGraph establishes (RangesSound, IsHasseDiagram). *)
(* A graph search is the best-first set of module BestFirst.                *)
(***************************************************************************)
EXTENDS Integers, FiniteSets, Sequences

CONSTANTS
  GroupLabels,  \* label sets of the groups, in the order of their ids
  GroupSizes,   \* vectors of every group
  Dist,         \* Dist[<<v, w>>]: distance of two vectors
  MaxDegree,    \* _max_degree
  Lbuild,       \* _Lbuild
  NumCross,     \* _num_cross_edges
  Scenarios     \* the scenarios build is called with

Groups == DOMAIN GroupLabels

ASSUME GraphAssumption ==
  /\ Groups = 1 .. Len(GroupLabels) /\ Len(GroupLabels) \in Nat
  /\ DOMAIN GroupSizes = Groups
  /\ \A g \in Groups : GroupSizes[g] \in Nat \ {0}
  /\ \A g, h \in Groups : GroupLabels[g] = GroupLabels[h] => g = h
  /\ MaxDegree \in Nat \ {0} /\ NumCross \in Nat \ {0}
  /\ Lbuild \in Nat /\ NumCross <= Lbuild
  /\ Scenarios \subseteq {"general", "equality"}

\* _group_id_to_range
First[g \in Groups] == IF g = 1 THEN 0 ELSE First[g - 1] + GroupSizes[g - 1]
Members(g) == First[g] .. First[g] + GroupSizes[g] - 1
Points == UNION {Members(g) : g \in Groups}

ASSUME DistAssumption == \A v, w \in Points : Dist[<<v, w>>] \in Nat

GroupOf == [v \in Points |-> CHOOSE g \in Groups : v \in Members(g)]

Above == [g \in Groups |-> {h \in Groups : GroupLabels[g] \subseteq GroupLabels[h] /\ h # g}]
OutNbrs == [g \in Groups |-> {h \in Above[g] : ~\E k \in Above[g] : h \in Above[k]}]
InNbrs(h) == {g \in Groups : h \in OutNbrs[g]}

VARIABLES
  buildScenario,
  phase,
  neighbors,   \* _graph->neighbors, in ids of the group until the offset is added
  local,       \* history: neighbors as the group graphs left it
  entries,     \* _group_entry_points
  left,        \* groups the loop has still to take
  crossNbrs,   \* cross_group_neighbors
  extra        \* additional_edges

vars == <<buildScenario, phase, neighbors, local, entries, left, crossNbrs, extra>>

\* what a search queue of n slots keeps of the candidates S
Best(d, S, n) ==
  {a \in S : Cardinality({b \in S : d[b] < d[a] \/ (d[b] = d[a] /\ b < a)}) < n}

DistFrom(v) == [w \in Points |-> Dist[<<v, w>>]]

\* the vectors a search of group h has met, as ids of the whole, when it has
\* expanded some
Met(h, expanded) ==
  {entries[h]} \union {n + First[h] : n \in UNION {neighbors[w] : w \in expanded}}

\* Vamana::iterate_to_fixed_point in the group graph h: the vectors left in
\* the queue when all of it is expanded, the closest first
GroupSearch(h, v) ==
  LET d == DistFrom(v)
      Run[expanded \in SUBSET Members(h)] ==
        LET kept == Best(d, Met(h, expanded), Lbuild)
        IN IF kept \subseteq expanded THEN kept
           ELSE Run[expanded \union Best(d, kept \ expanded, 1)]
  IN Run[{}]

\* build_complete_graph for groups no larger than a list; for the others the
\* lists module VamanaLink builds, within the degree, and any medoid
GroupGraphs == [g \in Groups |->
  LET ids == 0 .. GroupSizes[g] - 1
  IN IF GroupSizes[g] <= MaxDegree
     THEN {[i \in ids |-> ids \ {i}]}
     ELSE {f \in [ids -> SUBSET ids] :
             \A i \in ids : i \notin f[i] /\ Cardinality(f[i]) <= MaxDegree}]

EntryPoints(g) == IF GroupSizes[g] <= MaxDegree THEN {First[g]} ELSE Members(g)

Init ==
  /\ buildScenario \in Scenarios
  /\ phase = "groups"
  /\ neighbors = [v \in Points |-> {}]
  /\ local = neighbors
  /\ entries = [g \in Groups |-> First[g]]
  /\ left = Groups
  /\ crossNbrs = [v \in Points |-> {}]
  /\ extra = [g \in Groups |-> {}]
-----------------------------------------------------------------------------
\* build_graph_for_all_groups, each group on its own in parallel
BuildGroup(g) ==
  /\ phase = "groups"
  /\ g \in left
  /\ \E graph \in GroupGraphs[g] :
       neighbors' = [v \in Points |-> IF v \in Members(g) THEN graph[v - First[g]]
                                      ELSE neighbors[v]]
  /\ \E e \in EntryPoints(g) : entries' = [entries EXCEPT ![g] = e]
  /\ left' = left \ {g}
  /\ UNCHANGED <<buildScenario, phase, local, crossNbrs, extra>>

\* the equality scenario needs no label navigating graph, nor cross edges
GroupsBuilt ==
  /\ phase = "groups"
  /\ left = {}
  /\ local' = neighbors
  /\ left' = Groups
  /\ phase' = IF buildScenario = "equality" THEN "offset" ELSE "cross"
  /\ UNCHANGED <<buildScenario, neighbors, entries, crossNbrs, extra>>

\* (mutant: a vector keeps what the last group's search found)
KeepLast(v, found) == Best(DistFrom(v), found, NumCross)

KeepClosest(v, found) ==
  Best(DistFrom(v), crossNbrs[v] \union found, NumCross)

\* the groups in order; the vectors of the groups below h search h in
\* parallel, each inserting into its own queue
CrossSearch(h) ==
  /\ phase = "cross"
  /\ h \in left /\ \A g \in left : h <= g
  /\ crossNbrs' = [v \in Points |-> IF GroupOf[v] \in InNbrs(h)
                                    THEN KeepClosest(v, GroupSearch(h, v))
                                    ELSE crossNbrs[v]]
  /\ left' = left \ {h}
  /\ UNCHANGED <<buildScenario, phase, neighbors, local, entries, extra>>

CrossSearched ==
  /\ phase = "cross"
  /\ left = {}
  /\ phase' = "extra"
  /\ UNCHANGED <<buildScenario, neighbors, local, entries, left, crossNbrs, extra>>

\* (mutant: every group counts as connected)
ConnectedToAll(g) == OutNbrs[g]

Connected(g) == {GroupOf[w] : w \in UNION {crossNbrs[v] : v \in Members(g)}}

\* the first vectors of g, until NumCross edges are there, get the closest
\* NumCross / 2 found in h
ExtraEdges(g, h) ==
  LET Found(v) == Best(DistFrom(v), GroupSearch(h, v), NumCross \div 2)
      Before(v) == UNION {{<<u, w>> : w \in Found(u)} : u \in First[g] .. v - 1}
  IN UNION {{<<v, w>> : w \in Found(v)} :
              v \in {u \in Members(g) : Cardinality(Before(u)) < NumCross}}

\* in parallel, each group into its own list
AddExtra ==
  /\ phase = "extra"
  /\ extra' = [g \in Groups |-> UNION {ExtraEdges(g, h) : h \in OutNbrs[g] \ Connected(g)}]
  /\ phase' = "offset"
  /\ UNCHANGED <<buildScenario, neighbors, local, entries, left, crossNbrs>>

AfterOffset == IF buildScenario = "equality" THEN "built" ELSE "merge"

Offset(v) == {n + First[GroupOf[v]] : n \in neighbors[v]}

AddOffset ==
  /\ phase = "offset"
  /\ neighbors' = [v \in Points |-> Offset(v)]
  /\ phase' = AfterOffset
  /\ UNCHANGED <<buildScenario, local, entries, left, crossNbrs, extra>>

MergeCross ==
  /\ phase = "merge"
  /\ neighbors' = [v \in Points |-> neighbors[v] \union crossNbrs[v]]
  /\ phase' = "merge extra"
  /\ UNCHANGED <<buildScenario, local, entries, left, crossNbrs, extra>>

\* (mutant: the additional edges are added at their other end)
ExtraReversed(v) == {e[1] : e \in {x \in UNION {extra[g] : g \in Groups} : x[2] = v}}

ExtraOf(v) == {e[2] : e \in {x \in UNION {extra[g] : g \in Groups} : x[1] = v}}

MergeExtra ==
  /\ phase = "merge extra"
  /\ neighbors' = [v \in Points |-> neighbors[v] \union ExtraOf(v)]
  /\ phase' = "built"
  /\ UNCHANGED <<buildScenario, local, entries, left, crossNbrs, extra>>

BuildStep ==
  \/ \E g \in Groups : BuildGroup(g) \/ CrossSearch(g)
  \/ GroupsBuilt \/ CrossSearched \/ AddExtra \/ AddOffset \/ MergeCross \/ MergeExtra

-----------------------------------------------------------------------------
\* The finished graph has the edges of the group graphs, each moved to its
\* group's range once, and otherwise edges to groups one step up the label
\* navigating graph: a search never reaches a vector with a label missing.
EdgesFollowLabels ==
  phase = "built" =>
    \A v \in Points :
      LET g == GroupOf[v]
      IN /\ neighbors[v] \intersect Members(g) = {n + First[g] : n \in local[v]}
         /\ neighbors[v] \subseteq Members(g) \union UNION {Members(h) : h \in OutNbrs[g]}

\* A vector whose groups above are all complete graphs has edges to the
\* NumCross closest of all their vectors, though it searched them one by one.
CrossEdgesClosest ==
  phase = "built" /\ buildScenario = "general" =>
    \A v \in Points :
      LET up == OutNbrs[GroupOf[v]]
      IN (\A h \in up : GroupSizes[h] <= MaxDegree) =>
           Best(DistFrom(v), UNION {Members(h) : h \in up}, NumCross)
             \subseteq neighbors[v]

\* What uni_nav_graph.cpp:1174 says of the additional edges, "add additional
\* cross-group edges for unconnected groups": no two groups next to each other
\* in the label navigating graph stay without an edge between their vectors. With
\* NumCross = 1 the extra edges number 1 / 2 = 0 and this fails.
GroupsConnected ==
  phase = "built" /\ buildScenario = "general" =>
    \A g \in Groups : \A h \in OutNbrs[g] :
      \E v \in Members(g) : neighbors[v] \intersect Members(h) # {}
=============================================================================
