---------------------------- MODULE TargetLife ----------------------------
(***************************************************************************)
(* What the rows of regeneration_targets promise, whoever writes them: the *)
(* life of a target (services/regeneration_states.py), one live target per *)
(* lineage (uq_regeneration_targets_active_lineage) and a version number   *)
(* that is reserved once and never used again.  Publication and Campaign   *)
(* implement it.                                                           *)
(***************************************************************************)
EXTENDS Naturals

CONSTANTS
  Targets,
  Lineage     \* the (lesson, language) of each target

VARIABLES
  status,     \* of each row, "absent" before it is inserted
  version     \* publication_version of each row, 0 for none

vars == <<status, version>>

Terminal == {"published", "abandoned"}

\* _TARGET_TRANSITIONS, and the insertion of the row.
Transitions ==
  [absent                   |-> {"planned"},
   planned                  |-> {"generating", "abandoned"},
   generating               |-> {"awaiting_canary_approval", "publication_pending",
                                 "generation_failed", "abandoned"},
   awaiting_canary_approval |-> {"publication_pending", "abandoned"},
   publication_pending      |-> {"publishing", "abandoned"},
   publishing               |-> {"published", "publication_failed", "abandoned"},
   published                |-> {},
   generation_failed        |-> {"generating", "abandoned"},
   publication_failed       |-> {"publication_pending", "publishing", "abandoned"},
   abandoned                |-> {}]

Statuses == DOMAIN Transitions
Live(s) == s \notin Terminal \cup {"absent"}

Init == status = [t \in Targets |-> "absent"] /\ version = [t \in Targets |-> 0]

Related(t, u) == t # u /\ Lineage[t] = Lineage[u]

\* A transaction moves some targets, each along one edge.
Move ==
  /\ status' \in [Targets -> Statuses]
  /\ \A t \in Targets : status'[t] \in Transitions[status[t]] \cup {status[t]}
  /\ \A t, u \in Targets : Related(t, u) => ~(Live(status'[t]) /\ Live(status'[u]))

\* A version is reserved for a target that is being published, and belongs to
\* no other target of its lineage.
Reserve ==
  \A t \in Targets :
    \/ version'[t] = version[t]
    \/ /\ version[t] = 0 /\ status[t] = "publishing" /\ version'[t] \in Nat \ {0, 1}
       /\ \A u \in Targets : Related(t, u) => version'[u] # version'[t]

Next == Move /\ version' \in [Targets -> Nat] /\ Reserve

Spec == Init /\ [][Next]_vars
=============================================================================
