--------------------------- MODULE WorkerRegistry ---------------------------
(***************************************************************************)
(* The fleet's `workers` table: a worker's heartbeat registers it and      *)
(* keeps its row fresh, the operator drains it through that row, the peers *)
(* sweep rows that went quiet, and a graceful shutdown deletes its own     *)
(* (repositories/workers.py, services/worker.py, api/v1/workers.py).       *)
(*                                                                         *)
(* An action is one SQL statement or one step of an event loop.  The age   *)
(* of a heartbeat is abstracted to what the sweeps compare it with.        *)
(***************************************************************************)
EXTENDS Naturals

CONSTANT Workers   \* pc_ids: one process at a time each

\* The age of last_heartbeat: within the liveness window, past
\* _offline_after_seconds, past _delete_after_seconds.
Fresh  == 0
Quiet  == 1
Buried == 2
Ages   == Fresh .. Buried

NoRow  == [status |-> "none", age |-> Buried]
Row    == [status : {"online", "offline", "draining"}, age : Ages] \cup {NoRow}

\* A worker process: its main loop runs, it was told to stop, it waits for its
\* tasks with its heartbeat task gone, it left gracefully, or it was killed.
Modes  == {"running", "stopping", "drained", "left", "killed"}
\* Its heartbeat task: asleep, or with its own status read and not yet written.
Beats  == {"asleep", "upsert"}

VARIABLES
  listed, \* the workers table
  mode,   \* Modes, of each process
  beat,   \* Beats, of each process
  tasks,  \* the process has a job's task in flight
  owns    \* a running or cancelling job is claimed_by the pc_id

jobVars  == <<tasks, owns>>
listVars == <<listed, mode, beat, jobVars>>

ListInit ==
  /\ listed = [w \in Workers |-> NoRow]
  /\ mode = [w \in Workers |-> "running"]
  /\ beat = [w \in Workers |-> "asleep"]
  /\ tasks = [w \in Workers |-> FALSE]
  /\ owns = [w \in Workers |-> FALSE]

Up(w)     == mode[w] \in {"running", "stopping", "drained"}
\* Mutant of Beating: the main loop leaves its heartbeat task behind.
BeatingOn(w) == mode[w] # "killed"
Beating(w) == mode[w] \in {"running", "stopping"}
Known(w)  == listed[w] # NoRow

-----------------------------------------------------------------------------
(* The worker.                                                             *)

\* Mutant of BeatRead: the order to drain only skips the upsert.
BeatReadSkipping(w) ==
  /\ Beating(w) /\ beat[w] = "asleep"
  /\ listed[w].status # "draining"
  /\ beat' = [beat EXCEPT ![w] = "upsert"]
  /\ UNCHANGED <<listed, mode, jobVars>>

\* _drain_check_and_beat reads its own status: an order to drain stops the
\* worker and the row is left as it is.
BeatRead(w) ==
  /\ Beating(w) /\ beat[w] = "asleep"
  /\ \/ /\ listed[w].status = "draining"
        /\ mode' = [mode EXCEPT ![w] = "stopping"]
        /\ UNCHANGED beat
     \/ /\ listed[w].status # "draining"
        /\ beat' = [beat EXCEPT ![w] = "upsert"]
        /\ UNCHANGED mode
  /\ UNCHANGED <<listed, jobVars>>

\* Mutant of BeatWrite: the upsert of a known row leaves its status alone.
BeatTouch(w) ==
  /\ Beating(w) /\ beat[w] = "upsert"
  /\ listed' = [listed EXCEPT ![w] =
       [status |-> IF Known(w) THEN @.status ELSE "online", age |-> Fresh]]
  /\ beat' = [beat EXCEPT ![w] = "asleep"]
  /\ UNCHANGED <<mode, jobVars>>

\* ... and upserts the row by pc_id: a later statement, without a condition.
BeatWrite(w) ==
  /\ Beating(w) /\ beat[w] = "upsert"
  /\ listed' = [listed EXCEPT ![w] = [status |-> "online", age |-> Fresh]]
  /\ beat' = [beat EXCEPT ![w] = "asleep"]
  /\ UNCHANGED <<mode, jobVars>>

\* The attempt fails or runs into its timeout.
BeatFail(w) ==
  /\ Beating(w) /\ beat[w] = "upsert"
  /\ beat' = [beat EXCEPT ![w] = "asleep"]
  /\ UNCHANGED <<listed, mode, jobVars>>

Claim(w) ==
  /\ mode[w] = "running" /\ ~tasks[w]
  /\ tasks' = [tasks EXCEPT ![w] = TRUE]
  /\ owns' = [owns EXCEPT ![w] = TRUE]
  /\ UNCHANGED <<listed, mode, beat>>

\* The task returns; without the database it leaves the job as it was.
FinishJob(w) ==
  /\ Up(w) /\ tasks[w]
  /\ tasks' = [tasks EXCEPT ![w] = FALSE]
  /\ \/ owns' = [owns EXCEPT ![w] = FALSE]
     \/ UNCHANGED owns
  /\ UNCHANGED <<listed, mode, beat>>

\* SIGTERM calls stop().
Stop(w) ==
  /\ mode[w] = "running"
  /\ mode' = [mode EXCEPT ![w] = "stopping"]
  /\ UNCHANGED <<listed, beat, jobVars>>

\* The main loop leaves: the heartbeat task is cancelled and awaited, its
\* open transaction rolled back.
EndLoop(w) ==
  /\ mode[w] = "stopping"
  /\ mode' = [mode EXCEPT ![w] = "drained"]
  /\ beat' = [beat EXCEPT ![w] = "asleep"]
  /\ UNCHANGED <<listed, jobVars>>

\* The order to stop came while the loop was claiming: the job is its last.
LastClaim(w) ==
  /\ mode[w] = "stopping" /\ ~tasks[w]
  /\ tasks' = [tasks EXCEPT ![w] = TRUE]
  /\ owns' = [owns EXCEPT ![w] = TRUE]
  /\ mode' = [mode EXCEPT ![w] = "drained"]
  /\ beat' = [beat EXCEPT ![w] = "asleep"]
  /\ UNCHANGED listed

\* Once its tasks are done the worker deletes its row, if it reaches the
\* database, and exits.
Deregister(w) ==
  /\ mode[w] = "drained" /\ ~tasks[w]
  /\ mode' = [mode EXCEPT ![w] = "left"]
  /\ listed' = [listed EXCEPT ![w] = NoRow]
  /\ UNCHANGED <<beat, jobVars>>

\* Killed, or out of reach of the database at its exit.
Kill(w) ==
  /\ Up(w)
  /\ mode' = [mode EXCEPT ![w] = "killed"]
  /\ beat' = [beat EXCEPT ![w] = "asleep"]
  /\ tasks' = [tasks EXCEPT ![w] = FALSE]
  /\ UNCHANGED <<listed, owns>>

\* A restarted container has the same host name and pid, so the same pc_id.
Restart(w) ==
  /\ ~Up(w)
  /\ mode' = [mode EXCEPT ![w] = "running"]
  /\ UNCHANGED <<listed, beat, jobVars>>

-----------------------------------------------------------------------------
(* The peers' sweep and the passage of time.                               *)

MarkStaleOffline(table) ==
  [v \in Workers |->
     IF /\ table[v] # NoRow /\ table[v].age >= Quiet
        /\ table[v].status \notin {"draining", "offline"}
     THEN [table[v] EXCEPT !.status = "offline"] ELSE table[v]]

\* Mutant of PruneStale: without the anti-join on the jobs.
PruneEveryStale(table, owners) ==
  [v \in Workers |-> IF table[v].age >= Buried THEN NoRow ELSE table[v]]

\* The rows past the retention horizon whose process owns no live job.
PruneStale(table, owners) ==
  [v \in Workers |->
     IF table[v].age >= Buried /\ v \notin owners THEN NoRow ELSE table[v]]

\* _sweep_stuck_jobs, one transaction: jobs past their deadline are taken back
\* from their owners, then quiet rows are marked, then dead rows deleted.
Sweep(w, reclaimed) ==
  LET owners == {v \in Workers : owns[v]} \ reclaimed IN
  /\ Up(w)
  /\ owns' = [v \in Workers |-> v \in owners]
  /\ listed' = PruneStale(MarkStaleOffline(listed), owners)
  /\ UNCHANGED <<mode, beat, tasks>>

\* The head reclaims at its boot, whether or not a task still works on the job.
ReclaimJobs(w) ==
  /\ owns[w]
  /\ owns' = [owns EXCEPT ![w] = FALSE]
  /\ UNCHANGED <<listed, mode, beat, tasks>>

Grow(w) ==
  /\ Known(w) /\ listed[w].age < Buried
  /\ listed' = [listed EXCEPT ![w].age = @ + 1]
  /\ UNCHANGED <<mode, beat, jobVars>>

-----------------------------------------------------------------------------
(* The operator.                                                           *)

Drain(w) ==
  /\ Known(w)
  /\ listed' = [listed EXCEPT ![w].status = "draining"]
  /\ UNCHANGED <<mode, beat, jobVars>>

Undrain(w) ==
  /\ Known(w)
  /\ listed' = [listed EXCEPT ![w].status = "online"]
  /\ UNCHANGED <<mode, beat, jobVars>>

-----------------------------------------------------------------------------
WorkerStep(w) ==
  \/ BeatRead(w) \/ BeatWrite(w) \/ BeatFail(w) \/ Claim(w) \/ FinishJob(w)
  \/ Stop(w) \/ EndLoop(w) \/ LastClaim(w) \/ Deregister(w) \/ Kill(w) \/ Restart(w)

SweepStep(w) == ReclaimJobs(w) \/ \E reclaimed \in SUBSET Workers : Sweep(w, reclaimed)

OperatorStep(w) == Drain(w) \/ Undrain(w)

ListNext == \E w \in Workers : WorkerStep(w) \/ SweepStep(w) \/ OperatorStep(w) \/ Grow(w)

ListSpec == ListInit /\ [][ListNext]_listVars

\* The heartbeat loop comes round, the main loop reaches its stop test, and jobs
\* end (the job timeout).  A beat that is tried again and again gets through.
Fairness ==
  \A w \in Workers :
    /\ WF_listVars(BeatRead(w)) /\ SF_listVars(BeatWrite(w))
    /\ WF_listVars(EndLoop(w)) /\ WF_listVars(FinishJob(w)) /\ WF_listVars(Deregister(w))

FairListSpec == ListSpec /\ Fairness

-----------------------------------------------------------------------------
(* Properties.                                                             *)

\* Rows and processes are in states the code knows.
ListTypeOK ==
  /\ listed \in [Workers -> Row]
  /\ mode \in [Workers -> Modes]
  /\ beat \in [Workers -> Beats]
  /\ tasks \in [Workers -> BOOLEAN]
  /\ owns \in [Workers -> BOOLEAN]

\* The list tells who is there.  A worker that deregistered is not listed again
\* before it restarts, neither by a last beat of its own nor by a peer; the row of
\* one that works on a job is deleted only by a sweep that takes the job away
\* from it too, however quiet it is and however far its shutdown has got.
ListedWhileThere ==
  [][\A w \in Workers :
       /\ mode'[w] = "left" => listed'[w] = NoRow
       /\ Known(w) /\ owns[w] /\ owns'[w] /\ tasks[w] => listed'[w] # NoRow]_listVars

\* An order to drain that stays in the row stops the worker.
DrainIsObeyed ==
  \A w \in Workers :
    <>[](listed[w].status = "draining") => []<>(mode[w] # "running")

\* A worker that keeps running keeps coming back as online, whatever the
\* sweeps of its peers made of its row, unless the operator drains it.
LiveWorkerListed ==
  \A w \in Workers :
    []<>(listed[w] = [status |-> "online", age |-> Fresh] \/ mode[w] # "running"
         \/ listed[w].status = "draining")

\* Row and worker come to agree, whatever sweeps, shutdowns and operators do between.
RowAndWorkerAgree == LiveWorkerListed /\ DrainIsObeyed
=============================================================================
