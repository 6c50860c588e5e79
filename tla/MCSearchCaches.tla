----------------------------- MODULE MCSearchCaches -----------------------------
(* Two threads and four queries, each of which may keep its cache; the counters  *)
(* wrap at the first clear and at every second one after it.                     *)
EXTENDS SearchCaches

MCFirstCaches == <<1, 2>>
MCMemory == {[i \in Elements |-> i], [i \in Elements |-> 2]}
=============================================================================
