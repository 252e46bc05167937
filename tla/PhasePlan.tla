------------------------------ MODULE PhasePlan ------------------------------
(***************************************************************************)
(* Which phases of a lesson a revision generates anew and which it copies  *)
(* from its source (services/regeneration_planner.py): the plan made from  *)
(* a request, the reader of a stored plan, and the judgement whether the   *)
(* phase rows of a job are a whole snapshot.  All lists of a plan are in   *)
(* canonical order, so that they are sets here.                            *)
(***************************************************************************)
CONSTANTS
  Content,   \* the content phases of the flow
  Deps,      \* the phases that each of them was written after, in the flow
  Extract    \* the extraction, which precedes them all

\* The extraction is no content phase (flow_for).
ASSUME FlowAssumptions ==
  Extract \notin Content /\ Deps \in [Content -> SUBSET Content]

Canonical == Content \cup {Extract}

\* What an operator asks for.
PhaseAsks == [selected : SUBSET Content, excluded : SUBSET Content,
              refresh : BOOLEAN, acknowledged : BOOLEAN]

\* resolve_phase_deps for each phase; a fresh extract is upstream of all.
Edges(refresh) ==
  {e \in Canonical \X Content : e[1] \in Deps[e[2]] \/ (refresh /\ e[1] = Extract)}

ClosedUnder(edges, S) == \A e \in edges : e[1] \in S => e[2] \in S

\* The phases that a regeneration of the selected ones reaches: those in every
\* set that holds these and is closed downstream.
Reached(ask) ==
  LET first == IF ask.refresh THEN Content ELSE ask.selected IN
  {p \in Content : \A S \in SUBSET Content :
                     first \subseteq S /\ ClosedUnder(Edges(ask.refresh), S) => p \in S}

\* The requests that the API lets through.
Acceptable(ask) ==
  /\ ask.selected # {} \/ ask.refresh
  /\ ask.selected \cap ask.excluded = {}

\* The affected phases that the operator leaves as they are; an exclusion of a
\* phase that is not affected means nothing.
LeftOut(ask) == ask.excluded \cap (Reached(ask) \ ask.selected)

Regenerated(ask) ==
  (Reached(ask) \ LeftOut(ask)) \cup (IF ask.refresh THEN {Extract} ELSE {})

\* The edges along which a phase that is left out goes stale.
Broken(ask) ==
  {e \in Edges(ask.refresh) : e[1] \in Regenerated(ask) /\ e[2] \in LeftOut(ask)}

\* build_phase_plan and to_json.
Plan(ask) ==
  [selected    |-> ask.selected,
   affected    |-> Reached(ask) \ ask.selected,
   regenerated |-> Regenerated(ask),
   copied      |-> Canonical \ Regenerated(ask),
   excluded    |-> LeftOut(ask),
   broken      |-> Broken(ask),
   refresh     |-> ask.refresh]

\* ExclusionAcknowledgementRequired is not raised.
Plannable(ask) == Acceptable(ask) /\ (Broken(ask) = {} \/ ask.acknowledged)

\* The parts of a plan agree with each other.
Coherent(plan) ==
  /\ plan.refresh <=> Extract \in plan.regenerated
  /\ plan.selected \subseteq plan.regenerated
  /\ plan.excluded \subseteq plan.affected \cap plan.copied
  /\ plan.broken \subseteq plan.regenerated \X plan.excluded

\* from_json refuses anything that build_phase_plan could not have made.
Readable(plan) ==
  /\ plan.selected \cup plan.affected \cup plan.excluded \subseteq Content
  /\ plan.regenerated \cap plan.copied = {}
  /\ plan.regenerated \cup plan.copied = Canonical
  /\ Coherent(plan)

-----------------------------------------------------------------------------
(* A snapshot is the set of a job's phase rows; copy tells apart rows of    *)
(* one phase, filled is output or JSON, placed the canonical order.         *)

\* validate_complete_snapshot.
WholeSnapshot(rows) ==
  /\ \A p \in Canonical : \E r \in rows :
       /\ {s \in rows : s.phase = p} = {r}
       /\ r.status = "done" /\ r.filled /\ r.placed
  /\ \A r \in rows : r.phase \in Canonical
=============================================================================
