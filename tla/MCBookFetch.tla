---------------------------- MODULE MCBookFetch ----------------------------
(* A small instance of BookFetch for TLC: two jobs in one process of the   *)
(* host and one in the other.                                              *)
EXTENDS BookFetch, TLC

CONSTANTS p1, p2, j1, j2, j3

TwoAndOne == (j1 :> p1) @@ (j2 :> p1) @@ (j3 :> p2)
=============================================================================
