---------------------------- MODULE Executability ----------------------------
(***************************************************************************)
(* Who can run what a campaign asks for: the launch contract and how it is *)
(* resolved (schemas/regeneration_contract.py, agent_models.py), the judge *)
(* and the solver it means (model_tiers.py), the check that a live worker  *)
(* holds the keys (regeneration_executability.py), and the gate by which   *)
(* the claim query admits a worker to a job (repositories/jobs.py).        *)
(*                                                                         *)
(* A lane is a provider and a model, a role is [provider, model,           *)
(* transport], a contract is [provider, model, transport, extract, judge,  *)
(* solver] with three roles, and a worker is [online, status, keys].       *)
(***************************************************************************)
EXTENDS Sequences

CONSTANTS
  Models,         \* the models of each provider, its default first
  ApiOnlyModels,  \* the models that no CLI has
  Unset           \* no provider, no model, no page

Providers        == DOMAIN Models
ApiProviders     == {"claude", "gemini", "clodex"}
ApiOnlyProviders == {"clodex"}

RoleNames == {"extract", "judge", "solver"}

\* The model that grades what another one wrote, and who grades its own work.
Primary   == <<"claude", "opus">>
Alternate == <<"gemini", "pro">>

-----------------------------------------------------------------------------
(* Contracts.                                                              *)

Known(p, m) ==
  p \in Providers /\ (m = Unset \/ \E i \in DOMAIN Models[p] : Models[p][i] = m)

DefaultModel(p) == Models[p][1]

\* resolve_role_transport.
Effective(role, contract) ==
  IF role.transport = "inherit" THEN contract.transport ELSE role.transport

\* validate_transport.
Transportable(p, m, t) ==
  \/ t = "cli" /\ p \notin ApiOnlyProviders /\ m \notin ApiOnlyModels
  \/ t = "api" /\ p \in ApiProviders /\ m # Unset

\* LaunchContract: a role without a provider is not looked at.
ValidContract(c) ==
  /\ Known(c.provider, c.model)
  /\ Transportable(c.provider, c.model, c.transport)
  /\ \A r \in RoleNames : c[r].provider # Unset =>
       /\ Known(c[r].provider, c[r].model)
       /\ r = "extract" => c[r].provider \notin ApiOnlyProviders
       /\ Transportable(c[r].provider, c[r].model, Effective(c[r], c))

\* ResolvedLaunchContract: nothing is left to be read from a mutable row later.
Concrete(c) ==
  /\ ValidContract(c) /\ c.model # Unset
  /\ \A r \in RoleNames : c[r].provider # Unset /\ c[r].model # Unset

\* One role of a draft over the operator's defaults: what the draft names wins,
\* provider and model together, and the transport by itself.
ResolvedRole(asked, default) ==
  LET given == IF asked.provider # Unset THEN asked ELSE default IN
  [provider  |-> given.provider,
   model     |-> IF given.model = Unset /\ given.provider \in Providers
                 THEN DefaultModel(given.provider) ELSE given.model,
   transport |-> IF asked.transport = "inherit" THEN default.transport
                                                ELSE asked.transport]

\* resolve_launch_contract.
ResolvedContract(draft, defaults) ==
  [draft EXCEPT !.extract = ResolvedRole(draft.extract, defaults.extract),
                !.judge   = ResolvedRole(draft.judge, defaults.judge),
                !.solver  = ResolvedRole(draft.solver, defaults.solver)]

\* require_api_transport: a campaign spends through API keys alone.
AllApi(c) == c.transport = "api" /\ \A r \in RoleNames : Effective(c[r], c) = "api"

\* require_live_models.
AllLive(c, retired) ==
  /\ <<c.provider, c.model>> \notin retired
  /\ \A r \in RoleNames : <<c[r].provider, c[r].model>> \notin retired

-----------------------------------------------------------------------------
(* The check before money is spent.                                        *)

\* judge_model_for.
SelfFallback(lane) == IF lane = Primary THEN Alternate ELSE Primary

\* resolve_judge and resolve_solver: no model grades its own work.
Grader(c, role) ==
  LET written  == <<c.provider, IF c.model = Unset THEN DefaultModel(c.provider) ELSE c.model>>
      graded   == <<role.provider, IF role.model = Unset THEN DefaultModel(role.provider)
                                                          ELSE role.model>> IN
  IF role.provider = Unset \/ graded = written
  THEN SelfFallback(written) ELSE <<role.provider, role.model>>

\* required_api_providers.
Required(c) ==
  (IF c.transport = "api" THEN {c.provider} ELSE {})
    \cup (IF Effective(c.extract, c) = "api" THEN {c.extract.provider} ELSE {})
    \cup (IF Effective(c.judge, c) = "api" THEN {Grader(c, c.judge)[1]} ELSE {})
    \cup (IF Effective(c.solver, c) = "api" THEN {Grader(c, c.solver)[1]} ELSE {})

\* worker_can_execute.
CanExecute(c, worker, paused) ==
  /\ worker.online /\ worker.status = "online"
  /\ ~(paused /\ Required(c) # {})
  /\ Required(c) \subseteq worker.keys

\* check_active_workers.
Executable(c, workers, paused) == \E w \in workers : CanExecute(c, w, paused)

-----------------------------------------------------------------------------
(* The gate of the claim query, which is written in SQL over the columns    *)
(* of the job.                                                              *)

\* _provider_api_ok: a provider that has no API is in no case.
KeyFor(p, keys) == p \in ApiProviders /\ p \in keys

\* judge_needs_api, extract_needs_api, solver_needs_api.
NeedsApi(job, role) ==
  role.transport = "api" \/ (role.transport = "inherit" /\ job.transport = "api")

\* content_model_resolved: a job without a model runs the default one.
ContentModel(job) ==
  IF job.model = Unset /\ job.provider \in Providers THEN DefaultModel(job.provider)
                                                     ELSE job.model

\* judge_ok and solver_ok.
GraderOk(job, role, keys) ==
  LET self == job.provider = role.provider /\ ContentModel(job) = role.model IN
  \/ ~NeedsApi(job, role)
  \/ self /\ KeyFor(IF job.provider = "claude" /\ ContentModel(job) = "opus"
                    THEN "gemini" ELSE "claude", keys)
  \/ ~self /\ KeyFor(role.provider, keys)

\* content_ok, extract_ok, judge_ok, solver_ok and fleet_gate.
ClaimGate(job, keys, paused) ==
  /\ job.transport = "cli" \/ KeyFor(job.provider, keys)
  /\ ~NeedsApi(job, job.extract) \/ KeyFor(job.extract.provider, keys)
  /\ GraderOk(job, job.judge, keys)
  /\ GraderOk(job, job.solver, keys)
  /\ ~paused \/ ~(job.transport = "api" \/ \E r \in RoleNames : NeedsApi(job, job[r]))
=============================================================================
