------------------------------ MODULE FilteredScan ------------------------------
(***************************************************************************)
(* The exhaustive search that computes the ground truth (UNG/codes/src/     *)
(* filtered_scan.cpp): the base vectors are grouped by a trie, a query scans *)
(* the groups found below the trie's entrances. Its loop over the base is    *)
(* that of build_trie_and_divide_groups (module LabelNavGraph), so that the  *)
(* specification takes the groups where that loop is over, for the scan or   *)
(* for the label navigating graph. Queries share nothing but the trie, which *)
(* they only read: one query stands for all.                                 *)
(***************************************************************************)
EXTENDS LabelNavGraph

CONSTANTS
  QueryDist,  \* the base vectors' distances to a query, for each query vector
  K

ASSUME ScanAssumption == K \in Nat \ {0}

VARIABLES
  query,    \* scenario, label set and distances of the query, or NoQuery
  results

scanVars == <<query, results>>

NoQuery == [scenario |-> "none", labels |-> {}, d |-> <<>>]

\* (mutant: the walk stops at the entrances)
BelowNothing(entrances) == entrances

\* compute_base_super_sets: the terminal nodes at and below the entrances
Below(entrances) == {n \in Terminals : \E e \in entrances : IsPrefix(e, n)}

TargetNodes(scenario, Q) ==
  IF scenario = "equality" THEN FindExactMatch(Q)
  ELSE Below(SuperSetEntrances(Q, FALSE, scenario = "containment"))

\* the queue of K candidates after all of S was inserted
Closest(d, S) ==
  {a \in S : Cardinality({b \in S : d[b] < d[a] \/ (d[b] = d[a] /\ b < a)}) < K}
-----------------------------------------------------------------------------
ScanInit == Init /\ query = NoQuery /\ results = {}

\* search and answer_one_query, for a query with labels the trie knows
Answer(scenario, Q, d) ==
  /\ phase = "prepare" /\ range = <<>>
  /\ query' = [scenario |-> scenario, labels |-> Q, d |-> d]
  /\ results' = Closest(d, UNION {Range(groupVecs[groupId[n]]) : n \in TargetNodes(scenario, Q)})
  /\ phase' = "scanned"
  /\ UNCHANGED <<trieVars, divideVars, reorderVars, lngVars, descVars, covVars, bitVars, left>>

ScanNext ==
  \/ Next /\ UNCHANGED scanVars
  \/ \E scenario \in {"containment", "overlap", "equality"},
        Q \in {S \in SUBSET Labels : Known(S)}, d \in QueryDist : Answer(scenario, Q, d)
  \/ phase = "scanned" /\ UNCHANGED <<vars, scanVars>>

ScanSpec == ScanInit /\ [][ScanNext]_<<vars, scanVars>>
-----------------------------------------------------------------------------
Matching(scenario, Q) ==
  {v \in 0 .. NumVectors - 1 :
     CASE scenario = "containment" -> Q \subseteq labelSets[v + 1]
       [] scenario = "overlap" -> Q \intersect labelSets[v + 1] # {}
       [] scenario = "equality" -> Q = labelSets[v + 1]}

\* The recall of every search is measured against it: for a query that asks for
\* a label, the scan returns the K closest of exactly the vectors a look at each
\* vector's own labels would select.
GroundTruth ==
  phase = "scanned" /\ (query.labels # {} \/ query.scenario = "equality") =>
    results = Closest(query.d, Matching(query.scenario, query.labels))
=============================================================================
