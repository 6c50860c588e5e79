----------------------------- MODULE MCFilteredScan -----------------------------
(* FilteredScan with a query vector that some base vectors are equally far from. *)
EXTENDS FilteredScan

MCQueryDist == {[v \in 0 .. NumVectors - 1 |-> (NumVectors - v) \div 2]}
=============================================================================
