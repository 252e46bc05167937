---------------------------- MODULE MCJobLease ----------------------------
(* Small instances of JobLease for TLC.                                    *)
EXTENDS JobLease, TLC

CONSTANTS extract, practice, boss

\* The head phase alone.
LoneFlow == {extract}
LoneDeps == [p \in LoneFlow |-> {}]

\* The head phase and one content phase.
ShortFlow == {extract, practice}
ShortDeps == [p \in ShortFlow |-> {}]

\* Two content phases, one of which waits for the other.
ForkFlow == {extract, practice, boss}
ChainDeps == [p \in ForkFlow |-> IF p = boss THEN {practice} ELSE {}]

Symmetry == Permutations(Workers)
=============================================================================
