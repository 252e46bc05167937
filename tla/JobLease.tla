------------------------------ MODULE JobLease ------------------------------
(***************************************************************************)
(* The Postgres job queue with fenced leases: homework_jobs rows, their    *)
(* phase_outputs rows, the executions that workers run against them, the   *)
(* maintenance sweep and the operator's cancel and retry endpoints         *)
(* (repositories/jobs.py, repositories/phase_outputs.py,                   *)
(* services/worker.py, services/pipeline.py, api/v1/jobs.py).              *)
(*                                                                         *)
(* Every action is one database transaction, or one step of an event loop  *)
(* between two transactions.  Each claim mints a fresh token, so a token   *)
(* names one execution: the claim UUIDs are the numbers 1, 2, ... and 0    *)
(* is NULL.                                                                *)
(*                                                                         *)
(* Time is abstracted.  A process can be paused for any time (a suspended  *)
(* host, a blocked event loop, a stalled connection), so a deadline of the *)
(* database clock may be found passed in any state: the age tests of the   *)
(* sweep (claimed_at, started_at) and scheduled_at are always satisfiable, *)
(* and a renewing heartbeat changes nothing that the model can see.        *)
(***************************************************************************)
EXTENDS Naturals, FiniteSets

CONSTANTS
  Jobs,         \* homework_jobs rows
  Workers,      \* worker processes (workers.pc_id)
  Operators,    \* concurrent requests to the retry endpoint
  Phases,       \* the phase sequence of a job
  Extract,      \* its head phase
  Deps,         \* what a phase waits for: PHASE_DEPS within the sequence
  MaxAttempts,  \* settings.queue_max_attempts
  MaxReclaims,  \* settings.queue_max_reclaims
  Slots,        \* settings.worker_concurrency
  MaxClaims,    \* bound of the model: how many leases are ever minted
  Nobody        \* a NULL claimed_by

ASSUME Assumptions ==
  /\ Extract \in Phases
  /\ Deps \in [Phases -> SUBSET Phases]
  /\ MaxAttempts \in Nat \ {0}
  /\ MaxReclaims \in Nat
  /\ Slots \in Nat \ {0}
  /\ MaxClaims \in Nat
  /\ Nobody \notin Workers
  /\ Nobody \notin Jobs

NoToken  == 0
Tokens   == 1 .. MaxClaims
AnyToken == 0 .. MaxClaims

Terminal  == {"done", "failed", "cancelled"}
\* What the guard of set_status lets a fenced write overwrite.
Open      == {"pending", "running"}
JobStatus == Open \cup {"cancelling"} \cup Terminal

PhaseStatus == {"absent", "pending", "running", "done", "failed"}

Settlements == {"released_done", "released_failed", "released_retry",
                "released_cancelled", "reclaimed_stale", "reclaimed_forced"}
Events      == Settlements \cup {"claimed", "lease_lost"}

\* How the body of a phase can fail: a hard failure, an error worth a queue
\* retry, a saturated credential slot, a session limit under 'pause'.  A hard
\* failure becomes "failed" once its task has marked the job; "timeout" is
\* the worker's own deadline.
PhaseErrors == {"hard", "transient", "slot", "pause"}
Errors      == PhaseErrors \cup {"failed", "timeout"}

\* Where an execution stands: pipeline.run up to its first write, before it
\* reads the done phases, in the phase scheduler, and after the done write;
\* then worker._execute_job's handlers.
InPipeline == {"claimed", "resume", "run"}
Pc == InPipeline \cup {"publish", "report", "stopping", "interrupted",
                       "finalize", "dying", "unborn", "over"}

JobRow == [status   : JobStatus,
           token    : AnyToken,               \* claim_token
           owner    : Workers \cup {Nobody},  \* claimed_by (and claimed_at)
           attempts : 0 .. MaxAttempts,
           reclaims : 0 .. MaxReclaims,
           phase    : BOOLEAN]                \* current_phase IS NOT NULL

PhaseRow == [st : PhaseStatus, tok : AnyToken]

Execution == [job     : Jobs \cup {Nobody},
              worker  : Workers \cup {Nobody},
              pc      : Pc,
              left    : SUBSET Phases,  \* the scheduler's pending set
              busy    : SUBSET Phases,  \* the scheduler's in_flight tasks
              seen    : SUBSET Phases,  \* prior_outputs, extract included
              errs    : SUBSET (Phases \X Errors),  \* failed tasks in_flight
              why     : Errors \cup {"none"},       \* what the worker reports
              beating : BOOLEAN]        \* the heartbeat task is alive

VARIABLES
  job,      \* homework_jobs
  phase,    \* phase_outputs
  ledger,   \* job_lease_events, by token
  minted,   \* how many tokens have been minted
  exec,     \* the executions, by the token of their lease
  running,  \* RUNNING_JOBS of each worker process
  alive,    \* the worker process is up
  fresh,    \* its workers row has a fresh last_heartbeat
  retries   \* retry requests that have read the job and not yet written it

leaseVars == <<job, phase, ledger>>
execVars  == <<exec, running, minted>>
fleetVars == <<alive, fresh>>
vars == <<leaseVars, execVars, fleetVars, retries>>

NewJob == [status |-> "pending", token |-> NoToken, owner |-> Nobody,
           attempts |-> 0, reclaims |-> 0, phase |-> FALSE]
Unborn == [job |-> Nobody, worker |-> Nobody, pc |-> "unborn", left |-> {},
           busy |-> {}, seen |-> {}, errs |-> {}, why |-> "none",
           beating |-> FALSE]

Init ==
  /\ job = [j \in Jobs |-> NewJob]
  /\ phase = [j \in Jobs |-> [p \in Phases |-> [st |-> "absent", tok |-> NoToken]]]
  /\ ledger = [t \in Tokens |-> {}]
  /\ minted = 0
  /\ exec = [t \in Tokens |-> Unborn]
  /\ running = [w \in Workers |-> [j \in Jobs |-> NoToken]]
  /\ alive = [w \in Workers |-> TRUE]
  /\ fresh = [w \in Workers |-> TRUE]
  /\ retries = {}

-----------------------------------------------------------------------------
(* Writes shared by several transactions.                                  *)

Log(t, event) == [ledger EXCEPT ![t] = @ \cup {event}]

\* reset_abandoned_phases on the rows of one job: the named phases whose
\* status is in `from` and whose token is in `owners`.
ResetRows(rows, names, from, owners, to) ==
  [p \in Phases |->
     IF p \in names /\ rows[p].st \in from /\ rows[p].tok \in owners
     THEN [st |-> to, tok |-> NoToken]
     ELSE rows[p]]

\* Mutant of Unfinished: a cancel also fails the rows that have their output.
EveryRow == {"pending", "running", "failed", "done"}

Unfinished == {"pending", "running", "failed"}

\* What is left of an execution whose pipeline, or whose task, is gone.
Unwound(e, pc, why) == [Unborn EXCEPT !.job = e.job, !.worker = e.worker,
                          !.pc = pc, !.why = why, !.beating = e.beating]
Over(e) == [Unborn EXCEPT !.job = e.job, !.worker = e.worker, !.pc = "over"]

\* The execution's task returns: RUNNING_JOBS is popped by job id, whichever
\* execution the entry points at by now.
Ends(t) ==
  /\ exec' = [exec EXCEPT ![t] = Over(@)]
  /\ running' = [running EXCEPT ![exec[t].worker][exec[t].job] = NoToken]

\* Mutant of Holds: the fence looks at the status only.
HoldsStatus(t, statuses) == job[exec[t].job].status \in statuses

\* The row still carries the lease, in a status the write accepts.
Holds(t, statuses) ==
  /\ job[exec[t].job].token = t
  /\ job[exec[t].job].status \in statuses

FinalizeCancelled(t) ==
  LET j == exec[t].job IN
  /\ job' = [job EXCEPT ![j].status = "cancelled", ![j].token = NoToken,
                        ![j].owner = Nobody]
  /\ phase' = [phase EXCEPT ![j] =
                 ResetRows(phase[j], Phases, Unfinished, AnyToken, "failed")]
  /\ ledger' = Log(t, "released_cancelled")

\* A fenced terminal write of execution t found no row: a user cancel wins
\* and is finalized on the spot, anything else is a lost lease.  Both
\* signals unwind to the worker, which writes nothing more.
MissedWrite(t, statuses) ==
  LET j == exec[t].job IN
  /\ ~Holds(t, statuses)
  /\ Ends(t)
  /\ \/ Holds(t, {"cancelling"}) /\ FinalizeCancelled(t)
     \/ /\ ~Holds(t, {"cancelling"})
        /\ ledger' = IF job[j].token = t THEN ledger ELSE Log(t, "lease_lost")
        /\ UNCHANGED <<job, phase>>

-----------------------------------------------------------------------------
(* Claim and pipeline.                                                     *)

BusySlots(w) == {t \in Tokens : exec[t].worker = w /\ exec[t].pc # "over"}

ClaimNextJob(w, j) ==
  LET t == minted + 1 IN
  /\ alive[w] /\ Cardinality(BusySlots(w)) < Slots
  /\ minted < MaxClaims
  /\ job[j].status = "pending" /\ job[j].attempts < MaxAttempts
  /\ job' = [job EXCEPT ![j].status = "running", ![j].token = t,
                        ![j].owner = w, ![j].attempts = @ + 1]
  /\ minted' = t
  /\ ledger' = Log(t, "claimed")
  /\ exec' = [exec EXCEPT ![t] = [Unborn EXCEPT !.job = j, !.worker = w,
                                    !.pc = "claimed", !.beating = TRUE]]
  /\ running' = [running EXCEPT ![w][j] = t]
  /\ UNCHANGED <<phase, fleetVars, retries>>

\* pipeline.run's first fenced write: set_status("running").
StartRun(t) ==
  LET j == exec[t].job IN
  /\ exec[t].pc = "claimed"
  /\ \/ /\ Holds(t, Open)
        /\ job' = [job EXCEPT ![j].status = "running"]
        /\ exec' = [exec EXCEPT ![t].pc = "resume"]
        /\ UNCHANGED <<phase, ledger, running>>
     \/ MissedWrite(t, Open)
  /\ UNCHANGED <<minted, fleetVars, retries>>

\* Mutant of ResumeDonePhases: a failed phase is skipped like a done one.
ResumeSettledPhases(t) ==
  LET settled == {p \in Phases : phase[exec[t].job][p].st \in {"done", "failed"}} IN
  /\ exec[t].pc = "resume"
  /\ exec' = [exec EXCEPT ![t].pc = "run", ![t].seen = settled,
                          ![t].left = Phases \ settled]
  /\ UNCHANGED <<leaseVars, running, minted, fleetVars, retries>>

\* The done phases are read once, in a transaction of their own.
ResumeDonePhases(t) ==
  LET done == {p \in Phases : phase[exec[t].job][p].st = "done"} IN
  /\ exec[t].pc = "resume"
  /\ exec' = [exec EXCEPT ![t].pc = "run", ![t].seen = done,
                          ![t].left = Phases \ done]
  /\ UNCHANGED <<leaseVars, running, minted, fleetVars, retries>>

\* extract runs alone; the rest runs as soon as its dependencies are done.
Ready(t, p) ==
  p = Extract \/ (Extract \in exec[t].seen /\ Deps[p] \subseteq exec[t].seen)

\* A phase the scheduler finds ready: create_or_reset verifies the job's
\* token, then the phase row and the job row are marked running, in one
\* transaction that commits even when the job write misses.
StartPhase(t, p) ==
  LET j    == exec[t].job
      rows == [phase[j] EXCEPT ![p] = [st |-> "running", tok |-> t]] IN
  /\ exec[t].pc = "run" /\ p \in exec[t].left /\ Ready(t, p)
  /\ \/ /\ job[j].token # t
        /\ Ends(t) /\ UNCHANGED leaseVars
     \/ /\ Holds(t, Open)
        /\ phase' = [phase EXCEPT ![j] = rows]
        /\ job' = [job EXCEPT ![j].status = "running", ![j].phase = TRUE]
        /\ exec' = [exec EXCEPT ![t].left = @ \ {p}, ![t].busy = @ \cup {p}]
        /\ UNCHANGED <<ledger, running>>
     \/ /\ Holds(t, {"cancelling"})
        /\ Ends(t)
        /\ job' = [job EXCEPT ![j].status = "cancelled", ![j].token = NoToken,
                              ![j].owner = Nobody]
        /\ phase' = [phase EXCEPT ![j] =
                       ResetRows(rows, Phases, Unfinished, AnyToken, "failed")]
        /\ ledger' = Log(t, "released_cancelled")
     \/ /\ Holds(t, Terminal)
        /\ Ends(t)
        /\ phase' = [phase EXCEPT ![j] = rows]
        /\ UNCHANGED <<job, ledger>>
  /\ UNCHANGED <<minted, fleetVars, retries>>

\* The phase's done write is fenced by the token of the phase row alone.
FinishPhase(t, p) ==
  LET j == exec[t].job IN
  /\ exec[t].pc = "run" /\ p \in exec[t].busy
  /\ \/ /\ phase[j][p].tok = t
        /\ phase' = [phase EXCEPT ![j][p].st = "done"]
        /\ exec' = [exec EXCEPT ![t].busy = @ \ {p}, ![t].seen = @ \cup {p}]
        /\ UNCHANGED <<job, ledger, running>>
     \/ /\ phase[j][p].tok # t
        /\ Ends(t) /\ UNCHANGED leaseVars
  /\ UNCHANGED <<minted, fleetVars, retries>>

\* The body of a phase raises.  A failed generation marks its row failed
\* first; a session limit, and an error of the judge or of the solver, which
\* run for content phases after the generation, leave the row as it is.
PhaseError(t, p, kind, marked) ==
  LET j == exec[t].job IN
  /\ exec[t].pc = "run" /\ p \in exec[t].busy
  /\ kind = "pause" => ~marked
  /\ p = Extract /\ kind # "pause" => marked
  /\ \/ /\ marked => phase[j][p].tok = t
        /\ phase' = IF marked /\ phase[j][p].st # "done"
                    THEN [phase EXCEPT ![j][p].st = "failed"]
                    ELSE phase
        /\ exec' = [exec EXCEPT ![t].busy = @ \ {p},
                                ![t].errs = @ \cup {<<p, kind>>}]
        /\ UNCHANGED <<job, ledger, running>>
     \/ /\ marked /\ phase[j][p].tok # t
        /\ Ends(t) /\ UNCHANGED leaseVars
  /\ UNCHANGED <<minted, fleetVars, retries>>

\* A hard failure: the phase's task marks the job failed in a second
\* transaction, while the scheduler and the sibling phases still run.
FailJob(t, p) ==
  LET j == exec[t].job IN
  /\ exec[t].pc = "run" /\ <<p, "hard">> \in exec[t].errs
  /\ \/ /\ Holds(t, Open)
        /\ job' = [job EXCEPT ![j].status = "failed"]
        /\ exec' = [exec EXCEPT ![t].errs =
                      (@ \ {<<p, "hard">>}) \cup {<<p, "failed">>}]
        /\ UNCHANGED <<phase, ledger, running>>
     \/ MissedWrite(t, Open)
  /\ UNCHANGED <<minted, fleetVars, retries>>

InFlight(t) == (exec[t].busy \cup {e[1] : e \in exec[t].errs}) \ {Extract}

\* _abandon_inflight: the rows of these phases that the lease still owns.
Abandon(t, names, to) ==
  [phase EXCEPT ![exec[t].job] = ResetRows(@, names, Open, {t}, to)]

\* The scheduler takes up a failed task: it cancels the siblings and abandons
\* their rows, as failed if the job is failed and as pending if the worker is
\* going to requeue it.
Unwind(t, p, kind) ==
  /\ exec[t].pc = "run" /\ <<p, kind>> \in exec[t].errs /\ kind # "hard"
  /\ phase' = Abandon(t, InFlight(t) \ {p},
                      IF kind = "failed" THEN "failed" ELSE "pending")
  /\ \/ kind = "failed" /\ Ends(t)
     \/ /\ kind # "failed"
        /\ exec' = [exec EXCEPT ![t] = Unwound(@, "report", kind)]
        /\ UNCHANGED running
  /\ UNCHANGED <<job, ledger, minted, fleetVars, retries>>

\* Mutant of CompleteJob: failed tasks that were not taken up are overlooked.
CompleteJobEarly(t) ==
  LET j == exec[t].job IN
  /\ exec[t].pc = "run" /\ exec[t].left = {} /\ exec[t].busy = {}
  /\ Holds(t, Open)
  /\ job' = [job EXCEPT ![j].status = "done"]
  /\ ledger' = Log(t, "released_done")
  /\ exec' = [exec EXCEPT ![t].pc = "publish"]
  /\ UNCHANGED <<phase, running, minted, fleetVars, retries>>

\* All phases have an output: THE fenced done write.
CompleteJob(t) ==
  LET j == exec[t].job IN
  /\ exec[t].pc = "run"
  /\ exec[t].left = {} /\ exec[t].busy = {} /\ exec[t].errs = {}
  /\ \/ /\ Holds(t, Open)
        /\ job' = [job EXCEPT ![j].status = "done"]
        /\ ledger' = Log(t, "released_done")
        /\ exec' = [exec EXCEPT ![t].pc = "publish"]
        /\ UNCHANGED <<phase, running>>
     \/ MissedWrite(t, Open)
  /\ UNCHANGED <<minted, fleetVars, retries>>

\* Any other error of the pipeline (no book, no PDF): set_status("failed").
Crash(t) ==
  LET j == exec[t].job IN
  /\ exec[t].pc \in {"claimed", "resume"}
  /\ \/ /\ Holds(t, Open)
        /\ job' = [job EXCEPT ![j].status = "failed"]
        /\ Ends(t) /\ UNCHANGED <<phase, ledger>>
     \/ MissedWrite(t, Open)
  /\ UNCHANGED <<minted, fleetVars, retries>>

\* wait_for hits the job timeout: the pipeline is cancelled, its scheduler
\* fails the rows it still owns, and the worker will report the failure.
JobTimeout(t) ==
  /\ exec[t].pc \in InPipeline \cup {"publish"}
  /\ phase' = Abandon(t, InFlight(t), "failed")
  /\ exec' = [exec EXCEPT ![t] = Unwound(@, "report", "timeout")]
  /\ UNCHANGED <<job, ledger, running, minted, fleetVars, retries>>

\* The work after the done write (event, archive) ends.
EndPublish(t) ==
  /\ exec[t].pc = "publish"
  /\ Ends(t)
  /\ UNCHANGED <<leaseVars, minted, fleetVars, retries>>

-----------------------------------------------------------------------------
(* What the worker writes when the pipeline raised.                        *)

Refund(n) == IF n > 0 THEN n - 1 ELSE 0

\* Mutant of Requeued: the row keeps the lease it was taken from.
RequeuedWithLease(row) == [row EXCEPT !.status = "pending", !.phase = FALSE]

Requeued(row) == [row EXCEPT !.status = "pending", !.token = NoToken,
                             !.owner = Nobody, !.phase = FALSE]

Refunded(row) == [Requeued(row) EXCEPT !.attempts = Refund(row.attempts)]

\* mark_failed_with_retry.
MarkFailedWithRetry(t) ==
  LET j    == exec[t].job
      last == job[j].attempts >= MaxAttempts IN
  /\ exec[t].pc = "report" /\ exec[t].why \in {"transient", "timeout"}
  /\ \/ /\ Holds(t, {"running"})
        /\ job' = [job EXCEPT ![j] =
                     IF last
                     THEN [@ EXCEPT !.status = "failed", !.owner = Nobody]
                     ELSE [Requeued(@) EXCEPT !.reclaims = 0]]
        /\ phase' = [phase EXCEPT ![j] =
                       IF last
                       THEN ResetRows(@, Phases, Open, AnyToken, "failed")
                       ELSE ResetRows(@, Phases, Open, {t}, "pending")]
        /\ ledger' = Log(t, IF last THEN "released_failed" ELSE "released_retry")
        /\ Ends(t)
     \/ MissedWrite(t, {"running"})
  /\ UNCHANGED <<minted, fleetVars, retries>>

\* requeue_session_limited and requeue_slot_saturated differ only in when
\* the job may be claimed again.
RequeueRefunded(t) ==
  LET j == exec[t].job IN
  /\ exec[t].pc = "report" /\ exec[t].why \in {"pause", "slot"}
  /\ \/ /\ Holds(t, {"running"})
        /\ job' = [job EXCEPT ![j] = Refunded(@)]
        /\ phase' = [phase EXCEPT ![j] =
                       ResetRows(@, Phases, Open, {t}, "pending")]
        /\ ledger' = Log(t, "released_retry")
        /\ Ends(t)
     \/ MissedWrite(t, {"running"})
  /\ UNCHANGED <<minted, fleetVars, retries>>

\* The database is out of reach: every handler logs the error, and the row
\* stays as it was for the sweep to find.
DatabaseOutage(t) ==
  /\ exec[t].pc \in InPipeline \cup {"report", "interrupted", "finalize"}
  /\ Ends(t)
  /\ UNCHANGED <<leaseVars, minted, fleetVars, retries>>

-----------------------------------------------------------------------------
(* Cancellation of an execution's task.                                    *)

\* task.cancel(): a CancelledError at the next await.  The handlers of the
\* worker do not catch it; the finalizing write is shielded from it.
Cancelled(e) ==
  CASE e.pc \in InPipeline                -> [e EXCEPT !.pc = "stopping"]
    [] e.pc = "publish"                   -> [e EXCEPT !.pc = "interrupted"]
    [] e.pc \in {"report", "interrupted"} -> [e EXCEPT !.pc = "dying"]
    [] OTHER                              -> e

\* Cancel whatever RUNNING_JOBS of process w names for job j.
CancelRunning(execs, w, j) ==
  LET u == running[w][j] IN
  IF u = NoToken THEN execs ELSE [execs EXCEPT ![u] = Cancelled(@)]

\* One beat that does not renew: the lease is lost, the job is cancelling, or
\* the job is finished.  In each case the heartbeat task returns.
Heartbeat(t) ==
  LET silent == [exec EXCEPT ![t].beating = FALSE] IN
  /\ exec[t].beating /\ ~Holds(t, {"running"})
  /\ exec' = IF Holds(t, Terminal) THEN silent
             ELSE CancelRunning(silent, exec[t].worker, exec[t].job)
  /\ UNCHANGED <<leaseVars, running, minted, fleetVars, retries>>

\* The scheduler unwinds on CancelledError, failing the rows it still owns.
StopScheduler(t) ==
  /\ exec[t].pc = "stopping"
  /\ phase' = Abandon(t, InFlight(t), "failed")
  /\ exec' = [exec EXCEPT ![t] = Unwound(@, "interrupted", "none")]
  /\ UNCHANGED <<job, ledger, running, minted, fleetVars, retries>>

\* The worker asks whether a user cancelled the job.  If not, the task was
\* cancelled for another reason and leaves the row to the sweep.
ReadCancelling(t) ==
  /\ exec[t].pc = "interrupted"
  /\ \/ /\ job[exec[t].job].status = "cancelling"
        /\ exec' = [exec EXCEPT ![t].pc = "finalize"]
        /\ UNCHANGED running
     \/ job[exec[t].job].status # "cancelling" /\ Ends(t)
  /\ UNCHANGED <<leaseVars, minted, fleetVars, retries>>

\* mark_cancelled, in a later transaction: neither the token nor the status
\* of the row is looked at, and the tokens stay where they are.
MarkCancelled(t) ==
  LET j == exec[t].job IN
  /\ exec[t].pc = "finalize"
  /\ job' = [job EXCEPT ![j].status = "cancelled"]
  /\ phase' = [phase EXCEPT ![j] =
                 [p \in Phases |-> IF @[p].st \in Unfinished
                                   THEN [@[p] EXCEPT !.st = "failed"]
                                   ELSE @[p]]]
  /\ Ends(t)
  /\ UNCHANGED <<ledger, minted, fleetVars, retries>>

\* A CancelledError that escaped a handler of the worker.
Die(t) ==
  /\ exec[t].pc = "dying"
  /\ Ends(t)
  /\ UNCHANGED <<leaseVars, minted, fleetVars, retries>>

-----------------------------------------------------------------------------
(* The sweep: one transaction over the whole table.                        *)

\* The job started a phase under its current lease.
Executed(j) ==
  \/ job[j].phase
  \/ job[j].token # NoToken /\ \E p \in Phases : phase[j][p].tok = job[j].token

\* Mutant of Reclaimed: the streak has no cap.
ReclaimedWithoutCap(j) ==
  [Requeued(job[j]) EXCEPT !.reclaims = IF Executed(j) THEN 0 ELSE @ + 1]

\* A job that never started gets its attempt back, MaxReclaims times in a row.
Reclaimed(j) ==
  [Requeued(job[j]) EXCEPT
     !.attempts = IF ~Executed(j) /\ job[j].reclaims < MaxReclaims
                  THEN Refund(@) ELSE @,
     !.reclaims = IF Executed(j) THEN 0
                  ELSE IF @ < MaxReclaims THEN @ + 1 ELSE @]

\* Mutant of Exhausted: off by one.
ExhaustedTooLate(row) == row.status = "pending" /\ row.attempts > MaxAttempts

Exhausted(row) == row.status = "pending" /\ row.attempts >= MaxAttempts

FailExhausted(row) ==
  IF Exhausted(row)
  THEN [row EXCEPT !.status = "failed", !.token = NoToken, !.owner = Nobody]
  ELSE row

RunningJobs == {j \in Jobs : job[j].status = "running"}
\* reclaim_stuck_jobs spares a job whose owner still reports to the registry.
StaleJobs == {j \in RunningJobs : job[j].owner = Nobody \/ ~fresh[job[j].owner]}
\* Mutant of CancellingJobs: a job whose owner still reports is spared, as it
\* is by reclaim_stuck_jobs.
CancellingOrphans ==
  {j \in Jobs : /\ job[j].status = "cancelling" /\ job[j].owner # Nobody
                /\ ~fresh[job[j].owner]}

\* reclaim_stale_cancelling compares claimed_at, which NULL never satisfies.
CancellingJobs == {j \in Jobs : job[j].status = "cancelling" /\ job[j].owner # Nobody}

\* reclaim_stuck_jobs, reclaim_stale_cancelling and fail_exhausted_pending_jobs,
\* over the jobs that are past the respective deadline.
Sweep(w, stale, forced, quit) ==
  LET stuck == stale \cup forced
      swept(j) == IF j \in stuck THEN Reclaimed(j)
                  ELSE IF j \in quit
                  THEN [job[j] EXCEPT !.status = "cancelled",
                                      !.token = NoToken, !.owner = Nobody]
                  ELSE job[j]
      requeued(j) == IF j \in stuck
                     THEN ResetRows(phase[j], Phases, {"running"}, AnyToken, "pending")
                     ELSE phase[j]
      reclaimed(t, js) == \E j \in js : job[j].token = t IN
  /\ alive[w]
  /\ job' = [j \in Jobs |-> FailExhausted(swept(j))]
  /\ phase' = [j \in Jobs |->
                 IF Exhausted(swept(j))
                 THEN ResetRows(requeued(j), Phases, Open, AnyToken, "failed")
                 ELSE requeued(j)]
  /\ ledger' = [t \in Tokens |->
                  ledger[t]
                  \cup (IF reclaimed(t, stale) THEN {"reclaimed_stale"} ELSE {})
                  \cup (IF reclaimed(t, forced) THEN {"reclaimed_forced"} ELSE {})]
  /\ UNCHANGED <<execVars, fleetVars, retries>>

SomeSweep(w) ==
  \E stale \in SUBSET StaleJobs, quit \in SUBSET CancellingJobs :
    \E forced \in SUBSET (RunningJobs \ stale) : Sweep(w, stale, forced, quit)

-----------------------------------------------------------------------------
(* The operator's endpoints.                                               *)

\* Mutant of CancelIfPending: any job that is not running is cancelled.
CancelUnlessRunning(j) ==
  /\ job[j].status \notin {"running", "cancelling"}
  /\ job' = [job EXCEPT ![j].status = "cancelled"]
  /\ UNCHANGED <<phase, ledger, execVars, fleetVars, retries>>

CancelIfPending(j) ==
  /\ job[j].status = "pending"
  /\ job' = [job EXCEPT ![j].status = "cancelled"]
  /\ UNCHANGED <<phase, ledger, execVars, fleetVars, retries>>

\* host is the process that serves the request: if it runs the job itself,
\* the task is cancelled at once.
RequestCancel(j, host) ==
  /\ host \in Workers => alive[host]
  /\ job[j].status = "running"
  /\ job' = [job EXCEPT ![j].status = "cancelling"]
  /\ exec' = IF host = Nobody THEN exec ELSE CancelRunning(exec, host, j)
  /\ UNCHANGED <<phase, ledger, running, minted, fleetVars, retries>>

\* retry_job reads the row and checks its status ...
RetryRead(o, j) ==
  /\ \A r \in retries : r.by # o
  /\ job[j].status \in {"failed", "cancelled"}
  /\ retries' = retries \cup {[by |-> o, job |-> j, row |-> job[j]]}
  /\ UNCHANGED <<leaseVars, execVars, fleetVars>>

\* ... and reset_for_retry writes the row in a later statement: the columns
\* whose value differs from the one that was read, without a condition.
RetryWrite(r) ==
  LET put(row, old, new) == IF old # new THEN new ELSE row
      now == job[r.job] IN
  /\ r \in retries
  /\ job' = [job EXCEPT ![r.job] =
       [status   |-> "pending",
        token    |-> put(now.token, r.row.token, NoToken),
        owner    |-> put(now.owner, r.row.owner, Nobody),
        attempts |-> put(now.attempts, r.row.attempts, 0),
        reclaims |-> put(now.reclaims, r.row.reclaims, 0),
        phase    |-> put(now.phase, r.row.phase, FALSE)]]
  /\ retries' = retries \ {r}
  /\ UNCHANGED <<phase, ledger, execVars, fleetVars>>

-----------------------------------------------------------------------------
(* Worker processes and their registry rows.                               *)

WorkerCrash(w) ==
  /\ alive[w]
  /\ alive' = [alive EXCEPT ![w] = FALSE]
  /\ exec' = [t \in Tokens |->
                IF exec[t].worker = w THEN Over(exec[t]) ELSE exec[t]]
  /\ running' = [running EXCEPT ![w] = [j \in Jobs |-> NoToken]]
  /\ UNCHANGED <<leaseVars, minted, fresh, retries>>

\* A restarted container may come back under the same host name and pid.
WorkerRestart(w) ==
  /\ ~alive[w]
  /\ alive' = [alive EXCEPT ![w] = TRUE]
  /\ UNCHANGED <<leaseVars, execVars, fresh, retries>>

RegistryBeat(w) ==
  /\ alive[w] /\ ~fresh[w]
  /\ fresh' = [fresh EXCEPT ![w] = TRUE]
  /\ UNCHANGED <<leaseVars, execVars, alive, retries>>

RegistryExpires(w) ==
  /\ fresh[w]
  /\ fresh' = [fresh EXCEPT ![w] = FALSE]
  /\ UNCHANGED <<leaseVars, execVars, alive, retries>>

-----------------------------------------------------------------------------
PipelineStep(t) ==
  \/ StartRun(t) \/ ResumeDonePhases(t) \/ CompleteJob(t)
  \/ Crash(t) \/ JobTimeout(t) \/ EndPublish(t)
  \/ \E p \in Phases : StartPhase(t, p) \/ FinishPhase(t, p) \/ FailJob(t, p)
  \/ \E p \in Phases, kind \in PhaseErrors, marked \in BOOLEAN :
       PhaseError(t, p, kind, marked)
  \/ \E p \in Phases, kind \in Errors : Unwind(t, p, kind)

WorkerStep(t) ==
  \/ MarkFailedWithRetry(t) \/ RequeueRefunded(t) \/ DatabaseOutage(t)
  \/ Heartbeat(t) \/ StopScheduler(t) \/ ReadCancelling(t) \/ Die(t)

ExecStep(t) == PipelineStep(t) \/ WorkerStep(t) \/ MarkCancelled(t)

OperatorStep ==
  \/ \E j \in Jobs : CancelIfPending(j)
  \/ \E j \in Jobs, host \in Workers \cup {Nobody} : RequestCancel(j, host)
  \/ \E o \in Operators, j \in Jobs : RetryRead(o, j)
  \/ \E r \in retries : RetryWrite(r)

FleetStep(w) ==
  \/ \E j \in Jobs : ClaimNextJob(w, j)
  \/ SomeSweep(w)
  \/ WorkerCrash(w) \/ WorkerRestart(w) \/ RegistryBeat(w) \/ RegistryExpires(w)

Next ==
  \/ \E t \in Tokens : ExecStep(t)
  \/ \E w \in Workers : FleetStep(w)
  \/ OperatorStep

Spec == Init /\ [][Next]_vars

\* The event loop runs every execution to its end (the job timeout bounds it),
\* a dead worker is restarted by its supervisor, and every sweep loop that
\* keeps coming round ends up finding a given deadline passed.
SweepReaches(j) ==
  \E w \in Workers, stale \in SUBSET StaleJobs, quit \in SUBSET CancellingJobs :
    \E forced \in SUBSET (RunningJobs \ stale) :
      j \in stale \cup forced \cup quit /\ Sweep(w, stale, forced, quit)

Fairness ==
  /\ \A t \in Tokens : WF_vars(ExecStep(t))
  /\ \A w \in Workers : WF_vars(WorkerRestart(w))
  /\ \A j \in Jobs : SF_vars(SweepReaches(j))

FairSpec == Spec /\ Fairness

-----------------------------------------------------------------------------
(* Properties.                                                             *)

\* Every row and every execution is one the code can store or be in.
TypeOK ==
  /\ job \in [Jobs -> JobRow]
  /\ phase \in [Jobs -> [Phases -> PhaseRow]]
  /\ ledger \in [Tokens -> SUBSET Events]
  /\ minted \in 0 .. MaxClaims
  /\ exec \in [Tokens -> Execution]
  /\ running \in [Workers -> [Jobs -> AnyToken]]
  /\ alive \in [Workers -> BOOLEAN]
  /\ fresh \in [Workers -> BOOLEAN]
  /\ retries \subseteq [by : Operators, job : Jobs, row : JobRow]

\* A job is done only with every phase of its sequence done, however many
\* executions, resumes and lost leases it took to get there.
DoneMeansComplete ==
  \A j \in Jobs : job[j].status = "done" =>
    \A p \in Phases : phase[j][p].st = "done"

\* Why: the inductive strengthening of DoneMeansComplete.  A token is the lease
\* of one execution and is minted once ...
LeaseNamesExecution ==
  /\ \A t \in Tokens : exec[t] # Unborn =>
       /\ t <= minted /\ exec[t].pc # "unborn"
       /\ exec[t].job \in Jobs /\ exec[t].worker \in Workers
  /\ \A j \in Jobs : job[j].token # NoToken =>
       job[j].token <= minted /\ exec[job[j].token].job = j
       /\ exec[job[j].token].pc # "unborn"

\* ... its scheduler loses no phase and starts none again ...
KeepsPhases(e) ==
  /\ e.pc \in {"claimed", "resume"} => e.busy = {}
  /\ e.pc = "run" =>
       /\ e.left \cap (e.busy \cup e.seen) = {}
       /\ \A p \in Phases :
            p \in e.left \cup e.busy \cup e.seen \/ \E x \in e.errs : x[1] = p

SchedulerKeepsPhases == \A t \in Tokens : KeepsPhases(exec[t])

\* ... what it has seen done stays done while it holds the lease ...
SeenStaysDone ==
  \A t \in Tokens : exec[t].pc = "run" /\ job[exec[t].job].token = t =>
    \A p \in exec[t].seen : phase[exec[t].job][p].st = "done"

\* ... and the execution that completed the job has left its pipeline.
DoneLeftPipeline ==
  \A j \in Jobs : job[j].status = "done" /\ job[j].token # NoToken =>
    exec[job[j].token].pc \notin InPipeline

DoneInv == /\ TypeOK /\ LeaseNamesExecution /\ SchedulerKeepsPhases
           /\ SeenStaysDone /\ DoneLeftPipeline /\ DoneMeansComplete

\* A lease is given back at most once: by its owner or by one arm of the
\* sweep, never by both and never twice.
LedgerSettledOnce ==
  \A t \in Tokens : Cardinality(ledger[t] \cap Settlements) <= 1

\* A pending job can be claimed afresh: it is not out of attempts, for the claim
\* query would then skip it for ever, and it keeps nothing of its last lease, so
\* that whoever ran it cannot write to it.
PendingIsClaimable ==
  \A j \in Jobs : job[j].status = "pending" =>
    job[j].attempts < MaxAttempts /\ job[j].token = NoToken /\ job[j].owner = Nobody

\* A step that changes a job, or a phase row, is no step of an execution whose
\* token that row does not carry, up to the finalizing write of a user's cancel.
LostLeaseWritesNothing ==
  [][\A t \in Tokens :
       LET j == exec[t].job IN
       /\ exec[t].pc \notin {"unborn", "over", "finalize"} /\ job[j].token # t
       /\ \/ job' # job
          \/ \E i \in Jobs, p \in Phases :
               phase'[i][p] # phase[i][p] /\ phase[i][p].tok # t
       => ~ExecStep(t)]_vars

\* Without the retry endpoint nothing that was achieved is undone: a terminal
\* job stays what it is and a phase keeps its output, whichever late write of an
\* execution, sweep or cancel comes after.
NothingIsUndone ==
  [][\A j \in Jobs :
       /\ job[j].status \in Terminal => job'[j].status = job[j].status
       /\ \A p \in Phases : phase[j][p].st = "done" => phase'[j][p].st = "done"]_vars

\* A job leaves running and cancelling, whatever died, paused or raced.
NoJobStuck ==
  \A j \in Jobs :
    job[j].status \in {"running", "cancelling"} ~>
      job[j].status \in {"pending"} \cup Terminal

=============================================================================
