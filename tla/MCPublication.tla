--------------------------- MODULE MCPublication ---------------------------
(* Small instances of Publication for TLC.                                 *)
EXTENDS Publication, TLC

CONSTANTS t1, t2

\* The first campaign declares V2; the second, an old one, declares none.
FirstDeclares == (t1 :> 2) @@ (t2 :> 0)

Symmetry == Permutations(Publishers)
=============================================================================
