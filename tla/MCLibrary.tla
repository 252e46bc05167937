---------------------------- MODULE MCLibrary ----------------------------
(* Library for TLC: requests are interchangeable. *)
EXTENDS Library, TLC

RequestSymmetry == Permutations(Requests)
=============================================================================
