------------------------------ MODULE Campaign ------------------------------
(***************************************************************************)
(* A regeneration campaign, its targets and their revision jobs: the       *)
(* operator's actions (services/regeneration_campaign.py), the state       *)
(* machine they go through (services/regeneration_states.py), the carrying *)
(* of a job's end onto its target (services/regeneration_job_state.py) and *)
(* what the queue and the publisher make of the two rows.                  *)
(*                                                                         *)
(* Every transaction locks the campaign and then its targets, so that it   *)
(* is one step; an action of several transactions is several steps of a    *)
(* clerk and may stop after each of them.  A job is written by others      *)
(* without these locks.                                                    *)
(***************************************************************************)
EXTENDS Naturals, FiniteSets

CONSTANTS
  Targets,      \* the lessons of the campaign
  Canaries,     \* those that are is_canary
  Clerks,       \* concurrent requests to the campaign endpoints
  Workers,      \* whoever carries the end of a job onto its target
  MaxRequests,  \* bound: operator requests
  MaxRuns,      \* bound: executions of revision jobs
  Nobody

ASSUME Assumptions ==
  /\ Canaries \subseteq Targets /\ Canaries # {}
  /\ MaxRequests \in Nat /\ MaxRuns \in Nat /\ Nobody \notin Targets

VARIABLES
  campaign,  \* the campaign row; its time stamps are booleans
  target,    \* the target rows; abandon is abandon_requested_at
  job,       \* status of each target's revision job; "hollow" is done without
             \* a usable snapshot
  owed,      \* targets whose job has just been ended by a worker or the API,
             \* which is still to carry the end over
  carrier,   \* per worker: the target it carries for and the status it read
  clerk,     \* per clerk: what is left of its request
  requests,  \* bound: requests so far
  runs,      \* bound: executions so far
  produced   \* checking only: targets with a usable revision

vars == <<campaign, target, job, owed, carrier, clerk, requests, runs, produced>>

TerminalCampaign == {"completed", "completed_with_abandonments", "rejected", "cancelled"}
TerminalTarget == {"published", "abandoned"}
TerminalJob == {"done", "hollow", "failed", "cancelled"}
Publication == {"publication_pending", "publishing", "published"}

NoCampaign == [status |-> "absent", launched |-> FALSE, approved |-> FALSE,
               rejected |-> FALSE, cancelled |-> FALSE]
Free == [pc |-> "idle", todo |-> {}, target |-> Nobody]
AtRest == [target |-> Nobody, seen |-> "none"]

Init ==
  /\ campaign = NoCampaign
  /\ target = [t \in Targets |-> [status |-> "absent", abandon |-> FALSE]]
  /\ job = [t \in Targets |-> "none"]
  /\ owed = {} /\ carrier = [w \in Workers |-> AtRest]
  /\ clerk = [c \in Clerks |-> Free]
  /\ requests = 0 /\ runs = 0 /\ produced = {}

-----------------------------------------------------------------------------
(* The state machine.                                                      *)

\* _CAMPAIGN_TRANSITIONS.
CampaignTransitions ==
  [draft                    |-> {"canary_running", "cancelled"},
   canary_running           |-> {"awaiting_canary_approval", "attention_required",
                                 "rejected", "cancelled"},
   awaiting_canary_approval |-> {"approved", "canary_running", "attention_required",
                                 "rejected", "cancelled"},
   approved                 |-> {"bulk_running", "attention_required", "completed",
                                 "completed_with_abandonments", "cancelled"},
   bulk_running             |-> {"attention_required", "completed",
                                 "completed_with_abandonments", "cancelled"},
   attention_required       |-> {"canary_running", "awaiting_canary_approval", "approved",
                                 "bulk_running", "rejected"} \cup TerminalCampaign,
   completed                |-> {}, completed_with_abandonments |-> {},
   rejected                 |-> {}, cancelled |-> {}]

\* The rows' life is that of TargetLife.
Life == INSTANCE TargetLife WITH
  Lineage <- [t \in Targets |-> t],
  status  <- [t \in Targets |-> target[t].status],
  version <- [t \in Targets |-> 0]

CanMoveTarget(s, s2) == s2 = s \/ s2 \in Life!Transitions[s]

\* canary_gate_verdict: an abandoned canary is excused, but is no evidence.
GateReady(tg) ==
  /\ \A t \in Canaries : tg[t].status \in {"awaiting_canary_approval", "abandoned"}
  /\ \E t \in Canaries : tg[t].status = "awaiting_canary_approval"

AllAbandoned(tg) == \A t \in Canaries : tg[t].status = "abandoned"

\* roll_up_campaign after approval.
Progress(tg) ==
  LET present == {tg[t].status : t \in Targets} IN
  IF present \cap {"planned", "generating", "awaiting_canary_approval",
                   "publication_pending", "publishing"} # {}
  THEN "bulk_running" ELSE "attention_required"

\* Mutant of Preparation: one reviewable canary opens the gate.
PreparationInvitesFirst(tg) ==
  LET present == {tg[t].status : t \in Targets} IN
  CASE "awaiting_canary_approval" \in present -> "awaiting_canary_approval"
    [] present \subseteq {"planned", "published", "abandoned"} -> "draft"
    [] OTHER -> IF "generating" \in present THEN "canary_running" ELSE "attention_required"

\* roll_up_campaign before approval, where no target is released yet.
Preparation(tg) ==
  LET present == {tg[t].status : t \in Targets} IN
  CASE "generating" \in present -> "canary_running"
    [] "generating" \notin present
       /\ present \cap {"generation_failed", "publication_failed"} # {} -> "attention_required"
    [] OTHER -> IF GateReady(tg) THEN "awaiting_canary_approval"
                ELSE IF AllAbandoned(tg) \/ "awaiting_canary_approval" \in present
                THEN "attention_required" ELSE "draft"

Ended(tg) == \A t \in Targets : tg[t].status \in TerminalTarget

\* Mutant of Derived: a rejection or cancellation is over at once.
DerivedAtOnce(c, tg) ==
  LET present == {tg[t].status : t \in Targets} IN
  CASE c.rejected  -> "rejected"
    [] ~c.rejected /\ Ended(tg) ->
         IF c.cancelled /\ "published" \notin present THEN "cancelled"
         ELSE IF "abandoned" \in present THEN "completed_with_abandonments" ELSE "completed"
    [] OTHER -> IF c.cancelled THEN "cancelled"
                ELSE IF c.approved THEN Progress(tg) ELSE Preparation(tg)

\* derive_campaign_status: a rejection converges like a cancellation.
Derived(c, tg) ==
  LET present == {tg[t].status : t \in Targets} IN
  CASE c.rejected  -> IF Ended(tg) THEN "rejected" ELSE "attention_required"
    [] ~c.rejected /\ Ended(tg) ->
         IF c.cancelled /\ "published" \notin present THEN "cancelled"
         ELSE IF "abandoned" \in present THEN "completed_with_abandonments" ELSE "completed"
    [] OTHER -> IF c.cancelled THEN "attention_required"
                ELSE IF c.approved THEN Progress(tg) ELSE Preparation(tg)

\* _apply_derived_status: parked for an operator where the derived status is
\* out of reach, unchanged where that is out of reach too.
Applied(c, tg) ==
  LET within == CampaignTransitions[c.status] \cup {c.status} IN
  [c EXCEPT !.status =
     IF Derived(c, tg) \in within THEN Derived(c, tg)
     ELSE IF "attention_required" \in within THEN "attention_required" ELSE @]

-----------------------------------------------------------------------------
(* From a job to its target.                                               *)

\* Mutant of Desired: done is enough.
DesiredWhenDone(j, approved, abandon) ==
  CASE j \in {"pending", "running", "cancelling"} -> "generating"
    [] j \in TerminalJob /\ abandon -> "abandoned"
    [] j \in {"done", "hollow"} /\ ~abandon ->
         IF approved THEN "publication_pending" ELSE "awaiting_canary_approval"
    [] OTHER -> "generation_failed"

\* Mutant of Desired: an abandonment is left to those who asked for it.
DesiredWhateverAsked(j, approved, abandon) ==
  CASE j \in {"pending", "running", "cancelling"} -> "generating"
    [] j = "done" -> IF approved THEN "publication_pending" ELSE "awaiting_canary_approval"
    [] OTHER -> "generation_failed"

\* desired_target_status.
Desired(j, approved, abandon) ==
  CASE j \in {"pending", "running", "cancelling"} -> "generating"
    [] j \in TerminalJob /\ abandon -> "abandoned"
    [] j = "done" /\ ~abandon ->
         IF approved THEN "publication_pending" ELSE "awaiting_canary_approval"
    [] OTHER -> "generation_failed"

\* Mutant of Approved: an unreviewed campaign may publish.
ApprovedUnlessStopped(c) == c.status \notin {"rejected", "cancelled"}

\* _campaign_is_approved.
Approved(c) == c.approved /\ c.status \notin {"rejected", "cancelled"}

\* Mutant of Carried: whatever the job implies is written.
CarriedBack(r, j, c) ==
  LET d == Desired(j, Approved(c), r.abandon)
  IN  IF j = "none" \/ r.status \in TerminalTarget THEN r ELSE [r EXCEPT !.status = d]

\* _reconcile_one, with the campaign and the target locked: never backwards.
Carried(r, j, c) ==
  LET d == Desired(j, Approved(c), r.abandon)
  IN  IF j = "none" \/ r.status \in TerminalTarget \/ ~CanMoveTarget(r.status, d)
      THEN r ELSE [r EXCEPT !.status = d]

\* Mutant of Repairable: a target that got its job needs no repair.
RepairableUntilDriven(t) == target[t].status = "planned"

\* What roll_up and the sweep may repair.
Repairable(t) == target[t].status \in {"planned", "generating"}

\* The end of a job is read before the locks are taken.
Read(w, t) ==
  /\ carrier[w] = AtRest /\ carrier' = [carrier EXCEPT ![w] = [target |-> t, seen |-> job[t]]]
  /\ UNCHANGED <<campaign, target, job, clerk, requests, runs, produced>>

\* reconcile_terminal_revision_jobs, before each publication and on each report.
SweepReads(w, t) ==
  Repairable(t) /\ job[t] \in TerminalJob /\ Read(w, t) /\ UNCHANGED owed

\* reconcile_revision_job by whoever ended the job, at any time later.
WorkerReads(w, t) == t \in owed /\ Read(w, t) /\ owed' = owed \ {t}

Carry(w) ==
  LET t == carrier[w].target IN
  /\ carrier[w] # AtRest /\ carrier' = [carrier EXCEPT ![w] = AtRest]
  /\ target' = [target EXCEPT ![t] = Carried(@, carrier[w].seen, campaign)]
  /\ UNCHANGED <<campaign, job, owed, clerk, requests, runs, produced>>

-----------------------------------------------------------------------------
(* The revision job, as JobLease has it, and the publisher, as Publication *)
(* has it.                                                                 *)

Become(t, s) == job' = [job EXCEPT ![t] = s]

JobStep(t) ==
  /\ UNCHANGED <<campaign, target, carrier, clerk, requests>>
  /\ \/ /\ job[t] = "pending" /\ runs < MaxRuns /\ runs' = runs + 1
        /\ Become(t, "running") /\ UNCHANGED <<owed, produced>>
     \/ /\ job[t] = "pending" /\ Become(t, "failed") /\ UNCHANGED <<owed, runs, produced>>
     \/ /\ job[t] = "running" /\ UNCHANGED runs
        /\ \E s \in {"done", "hollow", "failed", "pending"} :
             /\ Become(t, s) /\ owed' = owed \cup {t}
             /\ produced' = IF s = "done" THEN produced \cup {t} ELSE produced
     \/ /\ job[t] = "cancelling" /\ Become(t, "cancelled")
        /\ owed' = owed \cup {t} /\ UNCHANGED <<runs, produced>>

\* POST /jobs/{id}/cancel.
CancelledJob(j) == CASE j = "pending" -> "cancelled"
                     [] j = "running" -> "cancelling"
                     [] OTHER -> j

CancelJob(t) ==
  /\ requests < MaxRequests /\ requests' = requests + 1
  /\ job[t] \in {"pending", "running"} /\ Become(t, CancelledJob(job[t]))
  /\ owed' = IF job[t] = "pending" THEN owed \cup {t} ELSE owed
  /\ UNCHANGED <<campaign, target, carrier, clerk, runs, produced>>

\* A released target is claimed, again after a failure; a delivery succeeds,
\* fails, or ends an abandoned target.
Publish(t) ==
  /\ \E s \in TerminalTarget \cup {"publishing", "publication_failed"} :
       /\ target' = [target EXCEPT ![t].status = s]
       /\ \/ target[t].status \in {"publication_pending", "publication_failed"}
             /\ s = "publishing"
          \/ target[t].status = "publishing" /\ s = "published"
          \/ target[t].status = "publishing"
             /\ s = IF target[t].abandon THEN "abandoned" ELSE "publication_failed"
  /\ UNCHANGED <<campaign, job, owed, carrier, clerk, requests, runs, produced>>

-----------------------------------------------------------------------------
(* Requests of one transaction.                                            *)

Request == requests < MaxRequests /\ requests' = requests + 1

\* insert_prepared_campaign: the campaign and its targets, or nothing.
Create ==
  /\ campaign = NoCampaign /\ campaign' = [campaign EXCEPT !.status = "draft"]
  /\ target' = [t \in Targets |-> [status |-> "planned", abandon |-> FALSE]]
  /\ UNCHANGED <<job, owed, carrier, clerk, requests, runs, produced>>

\* _converge_target, once the job has been told to stop.
Converged(r, j, c) ==
  CASE r.status \in TerminalTarget -> r
    [] r.status = "publishing" -> [r EXCEPT !.abandon = TRUE]
    [] r.status = "generating" /\ j # "none" -> Carried([r EXCEPT !.abandon = TRUE], j, c)
    [] OTHER -> [status |-> "abandoned", abandon |-> TRUE]

\* The targets ts are converged and the campaign is derived from the rest.
Converge(c, ts) ==
  /\ job' = [t \in Targets |-> IF t \in ts /\ target[t].status = "generating"
                               THEN CancelledJob(job[t]) ELSE job[t]]
  /\ target' = [t \in Targets |-> IF t \in ts THEN Converged(target[t], job'[t], campaign)
                                  ELSE target[t]]
  /\ campaign' = Applied(c, target')
  /\ UNCHANGED <<owed, carrier, clerk, runs, produced>>

Exists == campaign # NoCampaign
Stopped == campaign.status \in TerminalCampaign

Cancel ==
  /\ Request /\ Exists /\ (campaign.cancelled \/ ~Stopped)
  /\ Converge([campaign EXCEPT !.cancelled = TRUE], Targets)

Reject ==
  /\ Request /\ Exists /\ ~campaign.approved
  /\ campaign.rejected \/ (campaign.launched /\ ~Stopped)
  /\ Converge([campaign EXCEPT !.rejected = TRUE], Targets)

Abandon(t) ==
  /\ Request /\ Exists /\ target[t].status \notin TerminalTarget
  /\ Converge(campaign, {t})

\* roll_up: the repair of every target, then the derivation.
RolledUp ==
  /\ target' = [t \in Targets |-> IF Repairable(t) THEN Carried(target[t], job[t], campaign)
                                  ELSE target[t]]
  /\ campaign' = Applied(campaign, target')

Report ==
  /\ Exists /\ RolledUp /\ UNCHANGED <<job, owed, carrier, clerk, requests, runs, produced>>

-----------------------------------------------------------------------------
(* Requests of several transactions.                                       *)

Then(c, pc, ts, t) == clerk' = [clerk EXCEPT ![c] = [pc |-> pc, todo |-> ts, target |-> t]]
Start(c) == clerk[c] = Free /\ Request /\ Exists /\ UNCHANGED <<owed, carrier, runs, produced>>
Proceed(c, pc) ==
  clerk[c].pc = pc /\ UNCHANGED <<owed, carrier, requests, runs, produced>>

\* _prepare_wave: what still needs a job is generating before it has one.
Wave(ts, tg) == {t \in ts : /\ job[t] = "none" /\ ~tg[t].abandon
                            /\ tg[t].status \in {"planned", "generating"}}

\* Mutant of Driven: the target waits for its job.
DrivenByTheJob(ts, tg) == tg

Driven(ts, tg) ==
  [t \in Targets |-> IF t \in Wave(ts, tg) THEN [tg[t] EXCEPT !.status = "generating"] ELSE tg[t]]

\* launch_canary.
Launch(c) ==
  /\ Start(c) /\ ~Stopped /\ ~campaign.cancelled /\ ~campaign.approved
  /\ target' = Driven(Canaries, target)
  /\ campaign' = IF campaign.status = "draft"
                 THEN [campaign EXCEPT !.status = "canary_running", !.launched = TRUE]
                 ELSE campaign
  /\ Then(c, "create", Wave(Canaries, target), Nobody) /\ UNCHANGED job

\* approve_canary rolls up, stamps the approval and then releases.
Approve(c) ==
  Start(c) /\ RolledUp /\ Then(c, "approve", {}, Nobody) /\ UNCHANGED job

Stamp(c) ==
  /\ Proceed(c, "approve") /\ UNCHANGED <<target, job>>
  /\ IF Stopped \/ campaign.rejected \/ campaign.cancelled
     THEN Then(c, "idle", {}, Nobody) /\ UNCHANGED campaign
     ELSE IF campaign.approved
     THEN Then(c, "release", {}, Nobody) /\ UNCHANGED campaign
     ELSE IF GateReady(target)
             /\ campaign.status \in {"awaiting_canary_approval", "attention_required"}
     THEN /\ campaign' = [campaign EXCEPT !.status = "approved", !.approved = TRUE]
          /\ Then(c, "release", {}, Nobody)
     ELSE Then(c, "idle", {}, Nobody) /\ UNCHANGED campaign

Released(tg) ==
  [t \in Targets |-> IF tg[t].status = "awaiting_canary_approval" /\ ~tg[t].abandon
                     THEN [tg[t] EXCEPT !.status = "publication_pending"] ELSE tg[t]]

Release(c) ==
  /\ Proceed(c, "release") /\ UNCHANGED <<campaign, job>>
  /\ target' = Driven(Targets, Released(target))
  /\ Then(c, "create", Wave(Targets, target), Nobody)

\* _create_wave: create_revision_job for one target, which locks the target
\* alone, returns the job that exists and refuses an ended target or a source
\* that is no longer complete.
CreateJob(c, t) ==
  /\ Proceed(c, "create") /\ t \in clerk[c].todo /\ UNCHANGED <<campaign, target>>
  /\ \/ /\ job[t] # "none" /\ UNCHANGED job /\ Then(c, "create", clerk[c].todo \ {t}, Nobody)
     \/ /\ job[t] = "none" /\ target[t].status \notin TerminalTarget
        /\ Become(t, "pending") /\ Then(c, "create", clerk[c].todo \ {t}, Nobody)
     \/ /\ job[t] = "none" /\ UNCHANGED job /\ Then(c, "refused", clerk[c].todo \ {t}, t)

\* _fail_target_creation.
FailCreation(c) ==
  LET t == clerk[c].target IN
  /\ Proceed(c, "refused") /\ Then(c, "create", clerk[c].todo, Nobody)
  /\ target' = IF target[t].status = "generating" /\ ~target[t].abandon
               THEN [target EXCEPT ![t].status = "generation_failed"] ELSE target
  /\ UNCHANGED <<campaign, job>>

\* The roll-up at the end of each request.
Finish(c) ==
  /\ Proceed(c, "create") /\ clerk[c].todo = {} /\ RolledUp
  /\ Then(c, "idle", {}, Nobody) /\ UNCHANGED job

\* retry_generation: the target is driven first; what to do about the job is
\* decided in the same transaction and done in the next.
RetryGeneration(c, t) ==
  /\ Start(c) /\ UNCHANGED <<campaign, job>>
  /\ ~Stopped /\ ~campaign.cancelled /\ ~campaign.rejected /\ ~target[t].abandon
  /\ target[t].status \in {"generation_failed", "generating"}
  /\ target' = [target EXCEPT ![t].status = "generating"]
  /\ IF job[t] = "none" THEN Then(c, "create", {t}, Nobody)
     ELSE IF job[t] \in {"failed", "cancelled", "hollow"} THEN Then(c, "requeue", {}, t)
     ELSE Then(c, "create", {}, Nobody)

\* reset_for_retry of a job that is still ended, whatever its target is by now.
Requeue(c) ==
  LET t == clerk[c].target IN
  /\ Proceed(c, "requeue") /\ UNCHANGED <<campaign, target>>
  /\ IF job[t] \in TerminalJob THEN Become(t, "pending") ELSE UNCHANGED job
  /\ Then(c, "create", {}, Nobody)

\* retry_publication.
RetryPublication(c, t) ==
  /\ Start(c) /\ UNCHANGED <<campaign, job>>
  /\ target[t].status = "publication_failed" /\ ~target[t].abandon /\ ~campaign.cancelled
  /\ target' = [target EXCEPT ![t].status = "publication_pending"]
  /\ Then(c, "create", {}, Nobody)

\* The request's process dies, or a transaction of it fails.
Die(c) ==
  /\ clerk[c] # Free /\ Then(c, "idle", {}, Nobody)
  /\ UNCHANGED <<campaign, target, job, owed, carrier, requests, runs, produced>>

-----------------------------------------------------------------------------
ClerkStep(c) ==
  \/ Launch(c) \/ Approve(c) \/ Stamp(c) \/ Release(c) \/ FailCreation(c) \/ Finish(c)
  \/ Requeue(c) \/ Die(c)
  \/ \E t \in Targets : CreateJob(c, t) \/ RetryGeneration(c, t) \/ RetryPublication(c, t)

Next ==
  \/ Create \/ Cancel \/ Reject \/ Report
  \/ \E c \in Clerks : ClerkStep(c)
  \/ \E t \in Targets : Abandon(t) \/ CancelJob(t) \/ JobStep(t) \/ Publish(t)
  \/ \E w \in Workers : Carry(w) \/ (\E t \in Targets : SweepReads(w, t) \/ WorkerReads(w, t))

Spec == Init /\ [][Next]_vars

\* Workers and publishers go on, and the sweep runs; nobody has to report, to
\* finish a request or to survive until the end of a job is carried over.
FairSpec ==
  /\ Spec
  /\ \A t \in Targets :
       /\ WF_vars(JobStep(t)) /\ WF_vars(Publish(t))
       /\ WF_vars(\E w \in Workers : SweepReads(w, t))
  /\ \A w \in Workers : WF_vars(Carry(w))

-----------------------------------------------------------------------------
(* Properties.                                                             *)

TypeOK ==
  /\ campaign.status \in DOMAIN CampaignTransitions \/ campaign = NoCampaign
  /\ \A t \in Targets :
       /\ target[t].status \in Life!Statuses
       /\ job[t] # "none" => target[t].status \notin {"absent", "planned"}
  /\ \A c \in Clerks : clerk[c].pc = "idle" => clerk[c] = Free
  /\ requests <= MaxRequests /\ runs <= MaxRuns

\* No target is released before its campaign was approved, and none of a
\* rejected or cancelled campaign: the services alone see to it, and the trigger
\* trg_regeneration_targets_publication_gate never has to refuse.  What is
\* offered for review or released has been produced whole, however late, often
\* or out of order the ends of its jobs were carried over (and everything
\* keeps its type).
ReleaseIsEarned ==
  /\ TypeOK
  /\ \A t \in Targets :
       /\ target[t].status \in Publication => Approved(campaign)
       /\ target[t].status \in Publication \cup {"awaiting_canary_approval", "publication_failed"}
            => t \in produced

\* The status of a campaign tells what its targets are.  It invites approval only
\* while approve_canary would grant it: no failure, abandonment or half-launched
\* wave leaves the invitation standing.  A terminal one hides no live target:
\* completed means all published, cancelled and rejected none.
StatusIsHonest ==
  /\ campaign.status = "awaiting_canary_approval" => GateReady(target)
  /\ campaign.status \in TerminalCampaign => Ended(target)
  /\ campaign.status = "completed" => \A t \in Targets : target[t].status = "published"
  /\ campaign.status \in {"rejected", "cancelled"} =>
       \A t \in Targets : target[t].status = "abandoned"

\* The campaign lets its targets live the life of targets.
LifeSpec == Life!Spec

\* A campaign that was stopped converges: every target ends, wherever its job
\* or its delivery was, without anyone asking again.
StopConverges ==
  (campaign.cancelled \/ campaign.rejected) ~> Ended(target)

\* The end of a job reaches its target, whoever died in between.
EndsAreCarried ==
  \A t \in Targets :
    (target[t].status = "generating" /\ job[t] \in TerminalJob)
      ~> (target[t].status # "generating" \/ job[t] \notin TerminalJob)

\* Rows that other processes write come to agree with the campaign's: its jobs' ends reach its
\* targets, and its own end all of them.
TargetsFollow == StopConverges /\ EndsAreCarried
=============================================================================
