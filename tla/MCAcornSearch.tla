----------------------------- MODULE MCAcornSearch -----------------------------
(* Two calls of add: a vector with two levels and three with one, then two above *)
(* all others, which two threads link in parallel, and one below. Vectors on a    *)
(* line, no two at the same distance from a third. For the links that are out of  *)
(* place one call, of vectors with two levels each, and one thread will do.       *)
EXTENDS AcornSearch

MCCallEnds == <<4, 7>>
MCLevels == [v \in 0 .. 6 |-> CASE v = 0 -> 2 [] v \in {4, 5} -> 3 [] OTHER -> 1]
MCPlace == <<0, 10, 12, 15, 7, 31, 11>>
MCAway(v, x) == IF v < x THEN x - v ELSE v - x
MCDist == [p \in (0 .. 6) \X (0 .. 6) |->
             IF p[1] = p[2] THEN 0 ELSE 16 * MCAway(MCPlace[p[1] + 1], MCPlace[p[2] + 1]) + p[1] + p[2]]
MCQueryDist == {[v \in 0 .. 6 |-> 16 * MCAway(MCPlace[v + 1], 9) + v]}
MCFilters == {{1, 6}, {0, 2, 5}}
MCSizes == {<<1, 2>>, <<3, 1>>, <<7, 2>>}

MCOneCall == <<4>>
MCTwoLevels == [v \in 0 .. 3 |-> 2]
=============================================================================
