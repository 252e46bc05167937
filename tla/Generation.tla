----------------------------- MODULE Generation -----------------------------
(***************************************************************************)
(* Generation at its two levels, side by side: a behaviour is one of a     *)
(* phase (PhaseRun) or one of the model calls of a process (AgentCall),    *)
(* which share no state.                                                   *)
(***************************************************************************)
EXTENDS PhaseRun

CONSTANTS
  Calls, Asks, Books, Permits, MaxRetries, PageCount,
  FrontPages, BackPages, Margin, MaxPages,             \* those of AgentCall
  Bystander        \* the plan that PhaseRun keeps while calls are made

\* A limit on calls and pages is a count, a setting asks for some page of every
\* book, every PDF has one, and there are as many asks as the process has tasks.
ASSUME CallAssumptions ==
  /\ IsFiniteSet(Calls) /\ Permits \in Nat /\ MaxRetries \in Nat
  /\ PageCount \in Nat \ {0} /\ FrontPages \in Nat \ {0} /\ BackPages \in Nat
  /\ Margin \in Nat /\ MaxPages \in Nat \ {0}
  /\ \A b \in Books : b.from \in Nat /\ b.to \in Nat

VARIABLES
  level,                              \* which of the two the behaviour is of
  call, line, free, child, scratch    \* the variables of AgentCall

calls == <<call, line, free, child, scratch>>

A == INSTANCE AgentCall

GenInit ==
  /\ level \in {"phase", "calls"}
  /\ Init
  /\ level = "calls" => plan = Bystander /\ installed = {}
  /\ A!Init

OfPhases(a) == level = "phase" /\ a /\ UNCHANGED <<level, calls>>

OfCalls(a) == level = "calls" /\ a /\ UNCHANGED <<level, vars>>

GenNext == OfPhases(Next) \/ OfCalls(A!Next)

GenVars == <<level, vars, calls>>

GenSpec ==
  /\ GenInit /\ [][GenNext]_GenVars
  /\ WF_GenVars(OfPhases(Step))
  /\ \A c \in Calls :
       /\ WF_GenVars(OfCalls(A!GoesOn(c)))
       /\ WF_GenVars(OfCalls(A!Enters(c)))
       /\ WF_GenVars(OfCalls(A!Returns(c)))

-----------------------------------------------------------------------------
(* Properties.                                                             *)

\* Every execution of a phase and every ask ends, whatever judges, solvers and
\* providers do: retries, failovers, rounds and repairs nest, and each is
\* bounded (PhaseRun, AgentCall).
GenerationEnds == (level = "phase" => RunEnds) /\ A!AsksEnd

\* See AgentCall: what a call holds ends with it.
NothingOutlivesItsCall == A!NothingOutlivesItsCall

\* No check of content takes good content down, and none is talked out of its
\* gate: judge and solver of a phase (PhaseRun), verification, regeneration and
\* coverage of an extract (AgentCall).
ChecksDoNoHarm == ValidationNeverFails /\ A!ExtractIsSound

\* See AgentCall: the ledger misses no call that came back.
EveryCallIsBooked == A!EveryCallIsBooked
=============================================================================
