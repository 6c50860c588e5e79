------------------------------ MODULE MCSearchQueue ------------------------------
(* A small instance of SearchQueue: more ids than slots, and ties. *)
EXTENDS SearchQueue

MCIds == 0 .. 3
MCDists == 0 .. 1
=============================================================================
