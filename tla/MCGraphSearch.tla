----------------------------- MODULE MCGraphSearch -----------------------------
(* An instance for HybridSearch, vectors on a line. The first group is too large  *)
(* for a complete graph, and lies close to one of the groups above it and far     *)
(* from the other. A query for {5} covers 7 of the 8 vectors and goes to the      *)
(* global graph; one for {1, 2, 5} may, by what lies behind the last descendants. *)
EXTENDS HybridSearch

Abs(x) == IF x < 0 THEN -x ELSE x
MCLabels == <<{1, 5}, {1, 2, 5}, {1, 3, 5}, {2}, {1, 2, 3, 5}>>
MCNewToOld == [v \in Points |-> (3 * v + 2) % 8]
MCSizes == <<3, 2, 1, 1, 1>>
MCPosition == <<1, 3, 2, 0, 4, 20, 9, 14>>
MCDist == [p \in Points \X Points |-> Abs(MCPosition[p[1] + 1] - MCPosition[p[2] + 1])]
MCQueryDist == {[v \in Points |-> Abs(MCPosition[v + 1] - q)] : q \in {14}}
MCQueryLabels == {{5}, {1, 2, 5}, {2, 3}, {4}}

\* the tables the groups are laid out by, evaluated once
ASSUME MCTables ==
  /\ First \in [Groups -> Nat] /\ GroupOf \in [Points -> Groups]
  /\ Above \in [Groups -> SUBSET Groups] /\ OutNbrs \in [Groups -> SUBSET Groups]
  /\ Dist \in [Points \X Points -> Nat]
=============================================================================
