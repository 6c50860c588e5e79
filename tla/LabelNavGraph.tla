----------------------------- MODULE LabelNavGraph -----------------------------
(***************************************************************************)
(* The label side of UniNavGraph::build (UNG/codes/src/uni_nav_graph.cpp),  *)
(* phase after phase: vectors are divided into groups, the storage is       *)
(* reordered so that a group is a range of ids, every group gets edges to   *)
(* its minimal super sets (the label navigating graph), its descendants     *)
(* there, the vectors it covers, and the bitmaps of both that search_hybrid *)
(* reads. Vector ids start at 0 and sequences at 1: id v is at v + 1.       *)
(* The iterations of a parallel loop write only their own group's slot, and *)
(* are taken at once or in the order of the groups.                         *)
(***************************************************************************)
EXTENDS LabelTrie, Sequences, Functions

CONSTANT NumVectors

ASSUME NumVectorsAssumption == NumVectors \in Nat

VARIABLES
  phase,        \* the phase of build
  labelSets,    \* _base_storage's label sets
  groupVecs,    \* _group_id_to_vec_ids
  groupLabels,  \* _group_id_to_label_set
  newToOld,     \* _new_to_old_vec_ids
  newToGroup,   \* _new_vec_id_to_group_id
  range,        \* _group_id_to_range
  left,         \* groups the loop of the phase has still to take
  outNbrs,      \* out_neighbors
  inNbrs,       \* in_neighbors
  dfs,          \* get_descendants_info's locals, for the group it works on
  descendants,  \* _lng_descendants, [g] for the code's [g - 1]
  descCount,    \* _lng_descendants_num
  covered,      \* covered_sets
  outDegree,    \* cal_f_coverage_ratio's out_degree
  ready,        \* and its queue
  descBits,     \* _lng_descendants_rb
  covBits       \* _covered_sets_rb

divideVars == <<labelSets, groupVecs, groupLabels>>
reorderVars == <<newToOld, newToGroup, range>>
lngVars == <<outNbrs, inNbrs>>
descVars == <<dfs, descendants, descCount>>
covVars == <<covered, outDegree, ready>>
bitVars == <<descBits, covBits>>
vars == <<trieVars, divideVars, reorderVars, lngVars, descVars, covVars, bitVars, phase, left>>

Groups == DOMAIN groupLabels
NoGroup == 0
IdleDfs == [group |-> NoGroup, stack |-> <<>>, visited |-> {}, found |-> {}, count |-> 0]

\* the sequences that hold each element of a finite set once
Orderings(S) == Bijection(1 .. Cardinality(S), S)

Init ==
  /\ TrieInit
  /\ phase = "divide" /\ left = {}
  /\ labelSets = <<>> /\ groupVecs = <<>> /\ groupLabels = <<>>
  /\ newToOld = <<>> /\ newToGroup = <<>> /\ range = <<>>
  /\ outNbrs = <<>> /\ inNbrs = <<>>
  /\ dfs = IdleDfs /\ descendants = <<>> /\ descCount = <<>>
  /\ covered = <<>> /\ outDegree = <<>> /\ ready = {}
  /\ descBits = <<>> /\ covBits = <<>>
-----------------------------------------------------------------------------
\* build_trie_and_divide_groups, for the next vector, whatever its labels
Divide ==
  /\ phase = "divide"
  /\ Len(labelSets) < NumVectors
  /\ \E S \in SUBSET Labels :
       /\ Insert(S)
       /\ labelSets' = Append(labelSets, S)
       /\ LET v == Len(labelSets)
          IN IF groupId'[S] > Len(groupVecs)
             THEN /\ groupVecs' = Append(groupVecs, <<v>>)
                  /\ groupLabels' = Append(groupLabels, S)
             ELSE /\ groupVecs' = [groupVecs EXCEPT ![groupId'[S]] = Append(@, v)]
                  /\ UNCHANGED groupLabels
  /\ UNCHANGED <<phase, left, reorderVars, lngVars, descVars, covVars, bitVars>>

Divided ==
  /\ phase = "divide"
  /\ Len(labelSets) = NumVectors
  /\ phase' = "prepare"
  /\ UNCHANGED <<trieVars, divideVars, reorderVars, lngVars, descVars, covVars, bitVars, left>>

\* prepare_group_storages_graphs: the next group's vectors get the next ids
PrepareGroup ==
  /\ phase = "prepare"
  /\ Len(range) < Len(groupLabels)
  /\ LET g == Len(range) + 1
         first == Len(newToOld)
     IN /\ range' = Append(range, <<first, first + Len(groupVecs[g])>>)
        /\ newToOld' = newToOld \o groupVecs[g]
        /\ newToGroup' = newToGroup \o [i \in DOMAIN groupVecs[g] |-> g]
  /\ UNCHANGED <<trieVars, divideVars, lngVars, descVars, covVars, bitVars, phase, left>>

\* (mutant: the permutation is applied the wrong way round)
ReorderedBackwards == [i \in DOMAIN labelSets |->
                         labelSets[CHOOSE j \in DOMAIN newToOld : newToOld[j] = i - 1]]

\* Storage::reorder_data
Reordered == [i \in DOMAIN labelSets |-> labelSets[newToOld[i] + 1]]

Reorder ==
  /\ phase = "prepare"
  /\ Len(range) = Len(groupLabels)
  /\ labelSets' = Reordered
  /\ phase' = "navigate"
  /\ UNCHANGED <<trieVars, groupVecs, groupLabels, reorderVars, lngVars, descVars, covVars, bitVars, left>>

\* build_label_nav_graph: the parallel loop, then the one over its edges;
\* get_descendants_info allocates its results
Navigate ==
  /\ phase = "navigate"
  /\ outNbrs' = [g \in Groups |-> {groupId[S] : S \in MinSuperSets(groupLabels[g], TRUE, TRUE)}]
  /\ inNbrs' = [h \in Groups |-> {g \in Groups : h \in outNbrs'[g]}]
  /\ descendants' = [g \in Groups |-> {}]
  /\ descCount' = [g \in Groups |-> 0]
  /\ left' = Groups
  /\ phase' = "descend"
  /\ UNCHANGED <<trieVars, divideVars, reorderVars, dfs, covVars, bitVars>>

DescendFrom(g) ==
  /\ phase = "descend"
  /\ dfs.group = NoGroup
  /\ g \in left /\ \A h \in left : g <= h
  /\ dfs' = [IdleDfs EXCEPT !.group = g, !.stack = <<g>>]
  /\ left' = left \ {g}
  /\ UNCHANGED <<trieVars, divideVars, reorderVars, lngVars, descendants, descCount, covVars, bitVars, phase>>

Top == Head(dfs.stack)

\* (mutant: children are pushed and counted though already visited)
FreshOrSeen == {c \in outNbrs[Top] : c # Top}

Fresh == {c \in outNbrs[Top] : c # Top /\ c \notin dfs.visited}

\* one round of the depth-first walk: the group on top of the stack is left
\* out when seen before, and its unseen children are pushed otherwise
DescendPop ==
  /\ phase = "descend"
  /\ dfs.group # NoGroup
  /\ dfs.stack # <<>>
  /\ IF Top \in dfs.visited
     THEN dfs' = [dfs EXCEPT !.stack = Tail(@)]
     ELSE \E order \in Orderings(Fresh) :
            dfs' = [dfs EXCEPT !.stack = order \o Tail(@),
                               !.visited = @ \union {Top},
                               !.found = @ \union Fresh,
                               !.count = @ + Cardinality(Fresh)]
  /\ UNCHANGED <<trieVars, divideVars, reorderVars, lngVars, descendants, descCount, covVars, bitVars, phase, left>>

Descended ==
  /\ phase = "descend"
  /\ dfs.group # NoGroup
  /\ dfs.stack = <<>>
  /\ descendants' = [descendants EXCEPT ![dfs.group] = dfs.found]
  /\ descCount' = [descCount EXCEPT ![dfs.group] = dfs.count]
  /\ dfs' = IdleDfs
  /\ UNCHANGED <<trieVars, divideVars, reorderVars, lngVars, covVars, bitVars, phase, left>>

\* cal_f_coverage_ratio starts: groups with no out-edge are queued
CoverLeaves ==
  /\ phase = "descend"
  /\ dfs.group = NoGroup
  /\ left = {}
  /\ covered' = [g \in Groups |-> Range(groupVecs[g])]
  /\ outDegree' = [g \in Groups |-> Cardinality(outNbrs[g])]
  /\ ready' = {g \in Groups : outNbrs[g] = {}}
  /\ phase' = "cover"
  /\ UNCHANGED <<trieVars, divideVars, reorderVars, lngVars, descVars, bitVars, left>>

\* (mutant: a parent is queued by its first child)
FirstReached(g) == {p \in inNbrs[g] : outDegree[p] = Cardinality(outNbrs[p])}

\* the parents whose last child g is
Completed(g) == {p \in inNbrs[g] : outDegree[p] = 1}

\* a queued group passes what it covers to its parents
CoverParents(g) ==
  /\ phase = "cover"
  /\ g \in ready
  /\ covered' = [h \in Groups |-> covered[h] \union (IF h \in inNbrs[g] THEN covered[g] ELSE {})]
  /\ outDegree' = [h \in Groups |-> IF h \in inNbrs[g] THEN outDegree[h] - 1 ELSE outDegree[h]]
  /\ ready' = (ready \ {g}) \union Completed(g)
  /\ UNCHANGED <<trieVars, divideVars, reorderVars, lngVars, descVars, bitVars, phase, left>>

\* initialize_roaring_bitsets. The vectors of _lng_descendants start at 0, the
\* loop reads them at the group id: a group gets the next one's descendants,
\* and the last one whatever lies behind the array.
InitBitsets ==
  /\ phase = "cover"
  /\ ready = {}
  /\ covBits' = covered
  /\ \E stray \in SUBSET Groups :
       descBits' = [g \in Groups |-> IF g + 1 \in Groups THEN descendants[g + 1] ELSE stray]
  /\ phase' = "done"
  /\ UNCHANGED <<trieVars, divideVars, reorderVars, lngVars, descVars, covVars, left>>

Next ==
  \/ Divide \/ Divided \/ PrepareGroup \/ Reorder
  \/ \E g \in Groups : DescendFrom(g) \/ CoverParents(g)
  \/ Navigate \/ DescendPop \/ Descended \/ CoverLeaves \/ InitBitsets
  \/ phase = "done" /\ UNCHANGED vars

Spec == Init /\ [][Next]_vars
-----------------------------------------------------------------------------
\* After the reorder the ids of a group are a range of their own, the storage
\* holds the group's labels there, and no vector is lost or doubled.
RangesSound ==
  phase \in {"navigate", "descend", "cover", "done"} =>
    /\ {newToOld[i] : i \in DOMAIN newToOld} = 0 .. NumVectors - 1
    /\ Len(newToOld) = NumVectors
    /\ \A g \in Groups : \A v \in 0 .. NumVectors - 1 :
         range[g][1] <= v /\ v < range[g][2] <=> labelSets[v + 1] = groupLabels[g]
    /\ \A i \in DOMAIN newToGroup : labelSets[i] = groupLabels[newToGroup[i]]

Above(g) == {h \in Groups : groupLabels[g] \subseteq groupLabels[h] /\ h # g}

\* The label navigating graph is the transitive reduction of inclusion among
\* the groups' label sets: search walks it from a query's minimal super sets.
IsHasseDiagram ==
  phase \in {"descend", "cover", "done"} =>
    \A g \in Groups : outNbrs[g] = {h \in Above(g) : ~\E k \in Above(g) : h \in Above(k)}

\* The walk finds every super set of a group, and its counter, incremented when
\* an unseen child is pushed, counts none twice although a group may be on the
\* stack more than once: the threshold of search_hybrid relies on it.
DescendantsExact ==
  phase \in {"cover", "done"} =>
    \A g \in Groups : descendants[g] = Above(g) /\ descCount[g] = Cardinality(Above(g))

\* When the queue has run empty every group covers the vectors of its super
\* sets: no parent was queued before all its children had passed theirs on.
CoverageExact ==
  phase = "done" =>
    \A g \in Groups :
      covBits[g] = {newToOld[v + 1] : v \in {w \in 0 .. NumVectors - 1 : groupLabels[g] \subseteq labelSets[w + 1]}}

\* What uni_nav_graph.cpp:1067 says of the loop below it, "initialise the
\* descendants bitset" of the group.
BitsAreDescendants ==
  phase = "done" => \A g \in Groups : descBits[g] = descendants[g]
=============================================================================
