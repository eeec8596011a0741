------------------------------ MODULE MCHandler ------------------------------
(* ResponsesHandler with interchangeable requests, for safety properties. *)
EXTENDS ResponsesHandler, TLC

RequestSymmetry == Permutations(Requests)
=============================================================================
