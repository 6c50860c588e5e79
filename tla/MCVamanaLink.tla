------------------------------ MODULE MCVamanaLink ------------------------------
(* Two small data sets for VamanaLink, points on a line. The second links      *)
(* points far apart before it meets those between them, so that lists overflow *)
(* and are pruned again.                                                       *)
EXTENDS VamanaLink

Abs(x) == IF x < 0 THEN -x ELSE x
LineDist(position) ==
  [p \in Points \X Points |-> Abs(position[p[1] + 1] - position[p[2] + 1])]

OrderedDist == LineDist(<<0, 2, 4, 5, 9>>)
ScatteredDist == LineDist(<<29, 9, 23, 5, 13, 18, 8, 4>>)

\* the run with one thread meets the conditions of NoLostEdge and Connected
ASSUME MCConditions == OneThread => QueueKeepsAll /\ GoodData

MCAlphas == <<<<1, 1>>, <<6, 5>>>>
=============================================================================
