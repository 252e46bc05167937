------------------------------- MODULE HostKey -------------------------------
(***************************************************************************)
(* The service-account key of one host: the head assigns, revokes (scrubs) *)
(* or forgets it, and the worker processes of the host, which share one    *)
(* active.json, one .env file and one host lock, apply it and scrub it     *)
(* while they claim jobs (services/worker.py _sync_sa_key, _scrub_if_idle, *)
(* _claim_one; repositories/sa_keys.py; repositories/workers.py locks).    *)
(*                                                                         *)
(* The main loop of a process does one thing at a time; an action is a     *)
(* statement of it, or what it does between two awaits.  A process runs at *)
(* most one job here (a concurrency of 1).                                 *)
(***************************************************************************)
EXTENDS Naturals, FiniteSets

CONSTANTS
  Procs,       \* the worker processes of the host
  Keys,        \* service-account keys: JSON file, project and sha256
  NoKey,
  MaxCrashes   \* bound of the model: how often a process of the host dies

ASSUME KeyAssumption == NoKey \notin Keys /\ MaxCrashes \in Nat

\* The host's row in sa_key_assignments: absent, bound to a key, or a
\* tombstone that asks for a scrub.
Assignment == Keys \cup {"absent", "scrub"}

\* Where the main loop stands: at its start, between two duties, pulling a
\* key, in the transaction of a scrub, in the transaction of a claim.
Scrubbing == {"lock", "reread", "count", "clear"}
Claiming  == {"gate", "claim"}
KeyPc     == {"boot", "loop", "pull"} \cup Scrubbing \cup Claiming

VARIABLES
  assigned,  \* the assignment row of the host
  file,      \* the key in active.json
  dotenv,    \* the key whose project the .env file names
  env,       \* the key whose project os.environ names, of each process
  applied,   \* _applied_key_sha of each process
  want,      \* the key a process is pulling
  pc,
  tasks,     \* the process has a job's task in flight
  claimed,   \* a running or cancelling job is claimed by the process
  crashes

hostVars == <<file, dotenv>>
procVars == <<env, applied, want>>
jobVars  == <<tasks, claimed>>
keyVars == <<assigned, hostVars, procVars, pc, jobVars, crashes>>

None == [p \in Procs |-> NoKey]

KeyInit ==
  /\ assigned = "absent" /\ file = NoKey /\ dotenv = NoKey
  /\ env = None /\ applied = None /\ want = None
  /\ pc = [p \in Procs |-> "boot"]
  /\ tasks = [p \in Procs |-> FALSE]
  /\ claimed = [p \in Procs |-> FALSE]
  /\ crashes = 0

Goto(p, label) == pc' = [pc EXCEPT ![p] = label]

\* The host's advisory lock is held to the end of the transaction.
SharedHolders    == {p \in Procs : pc[p] \in Claiming}
ExclusiveHolders == {p \in Procs : pc[p] \in Scrubbing \ {"lock"}}

-----------------------------------------------------------------------------
(* _sync_sa_key.                                                           *)

\* Mutant of Residue: only what this process remembers to have applied.
ResidueApplied(p) == applied[p] # NoKey

Residue(p) ==
  applied[p] # NoKey \/ file # NoKey \/ env[p] # NoKey \/ dotenv # NoKey

\* The assignment is read; nothing happens while a job of this process runs.
SyncRead(p) ==
  LET idle == ~tasks[p]
      pull  == assigned \in Keys \ {applied[p]} /\ idle
      scrub == assigned = "scrub" /\ Residue(p) /\ idle IN
  /\ pc[p] \in {"boot", "loop"}
  /\ \/ scrub /\ Goto(p, "lock") /\ UNCHANGED want
     \/ pull /\ Goto(p, "pull") /\ want' = [want EXCEPT ![p] = assigned]
     \/ ~scrub /\ ~pull /\ Goto(p, "loop") /\ UNCHANGED want
  /\ UNCHANGED <<assigned, hostVars, env, applied, jobVars, crashes>>

\* The pulled key is written to the shared files and to this process's
\* environment, without looking at the assignment again.
ApplyKey(p) ==
  /\ pc[p] = "pull"
  /\ file' = want[p] /\ dotenv' = want[p]
  /\ env' = [env EXCEPT ![p] = want[p]]
  /\ applied' = [applied EXCEPT ![p] = want[p]]
  /\ want' = [want EXCEPT ![p] = NoKey]
  /\ Goto(p, "loop")
  /\ UNCHANGED <<assigned, jobVars, crashes>>

PullFails(p) ==
  /\ pc[p] = "pull"
  /\ want' = [want EXCEPT ![p] = NoKey]
  /\ Goto(p, "loop")
  /\ UNCHANGED <<assigned, hostVars, env, applied, jobVars, crashes>>

\* lock_host_exclusive.
ScrubLock(p) ==
  /\ pc[p] = "lock" /\ SharedHolders \cup ExclusiveHolders = {}
  /\ Goto(p, "reread")
  /\ UNCHANGED <<assigned, hostVars, procVars, jobVars, crashes>>

ScrubReread(p) ==
  /\ pc[p] = "reread"
  /\ Goto(p, IF assigned = "scrub" THEN "count" ELSE "loop")
  /\ UNCHANGED <<assigned, hostVars, procVars, jobVars, crashes>>

\* Mutant of ScrubCount: a process counts its own jobs only.
ScrubCountOwn(p) ==
  /\ pc[p] = "count"
  /\ Goto(p, IF claimed[p] THEN "loop" ELSE "clear")
  /\ UNCHANGED <<assigned, hostVars, procVars, jobVars, crashes>>

\* count_active_for_host, over the claims of every process of the host.
ScrubCount(p) ==
  /\ pc[p] = "count"
  /\ Goto(p, IF \E q \in Procs : claimed[q] THEN "loop" ELSE "clear")
  /\ UNCHANGED <<assigned, hostVars, procVars, jobVars, crashes>>

\* Mutant of ScrubClear: the process forgets to forget the key it applied.
ScrubClearFiles(p) ==
  /\ pc[p] = "clear"
  /\ file' = NoKey /\ dotenv' = NoKey
  /\ env' = [env EXCEPT ![p] = NoKey]
  /\ Goto(p, "loop")
  /\ UNCHANGED <<assigned, applied, want, jobVars, crashes>>

ScrubClear(p) ==
  /\ pc[p] = "clear"
  /\ file' = NoKey /\ dotenv' = NoKey
  /\ env' = [env EXCEPT ![p] = NoKey]
  /\ applied' = [applied EXCEPT ![p] = NoKey]
  /\ Goto(p, "loop")
  /\ UNCHANGED <<assigned, want, jobVars, crashes>>

-----------------------------------------------------------------------------
(* _claim_one and the jobs.                                                *)

\* lock_host_shared.
ClaimLock(p) ==
  /\ pc[p] = "loop" /\ ~tasks[p] /\ ExclusiveHolders = {}
  /\ Goto(p, "gate")
  /\ UNCHANGED <<assigned, hostVars, procVars, jobVars, crashes>>

\* No claim under a pending scrub.
ClaimGate(p) ==
  /\ pc[p] = "gate"
  /\ Goto(p, IF assigned = "scrub" THEN "loop" ELSE "claim")
  /\ UNCHANGED <<assigned, hostVars, procVars, jobVars, crashes>>

\* claim_next_job finds a job, or none.
ClaimCommit(p) ==
  /\ pc[p] = "claim"
  /\ Goto(p, "loop")
  /\ \/ /\ tasks' = [tasks EXCEPT ![p] = TRUE]
        /\ claimed' = [claimed EXCEPT ![p] = TRUE]
     \/ UNCHANGED jobVars
  /\ UNCHANGED <<assigned, hostVars, procVars, crashes>>

FinishJob(p) ==
  /\ tasks[p]
  /\ tasks' = [tasks EXCEPT ![p] = FALSE]
  /\ claimed' = [claimed EXCEPT ![p] = FALSE]
  /\ UNCHANGED <<assigned, hostVars, procVars, pc, crashes>>

\* A sweep takes the job back; a task that is still there goes on.
ReclaimJob(p) ==
  /\ claimed[p]
  /\ claimed' = [claimed EXCEPT ![p] = FALSE]
  /\ UNCHANGED <<assigned, hostVars, procVars, pc, tasks, crashes>>

\* The process dies, between two writes of an apply or of a clear maybe, and
\* starts again: it loads the .env file, and its transaction is rolled back.
Crash(p) ==
  /\ crashes < MaxCrashes
  /\ crashes' = crashes + 1
  /\ \/ UNCHANGED hostVars
     \/ pc[p] = "pull" /\ file' = want[p] /\ UNCHANGED dotenv
     \/ pc[p] = "clear" /\ dotenv' = NoKey /\ UNCHANGED file
  /\ env' = [env EXCEPT ![p] = dotenv']
  /\ applied' = [applied EXCEPT ![p] = NoKey]
  /\ want' = [want EXCEPT ![p] = NoKey]
  /\ tasks' = [tasks EXCEPT ![p] = FALSE]
  /\ Goto(p, "boot")
  /\ UNCHANGED <<assigned, claimed>>

-----------------------------------------------------------------------------
(* The head's endpoints: each writes the row under the exclusive host lock, *)
(* in one transaction.                                                     *)

Assign(k) == assigned' = k
Scrub     == assigned' = "scrub"
Unassign  == assigned' = "absent"

\* Mutant of OperatorStep: the endpoints do not take the lock.
OperatorStepUnlocked ==
  /\ Scrub \/ Unassign \/ \E k \in Keys : Assign(k)
  /\ UNCHANGED <<hostVars, procVars, pc, jobVars, crashes>>

OperatorStep ==
  /\ SharedHolders \cup ExclusiveHolders = {}
  /\ Scrub \/ Unassign \/ \E k \in Keys : Assign(k)
  /\ UNCHANGED <<hostVars, procVars, pc, jobVars, crashes>>

ScrubStep(p) == ScrubLock(p) \/ ScrubReread(p) \/ ScrubCount(p) \/ ScrubClear(p)
ClaimStep(p) == ClaimLock(p) \/ ClaimGate(p) \/ ClaimCommit(p)

ProcStep(p) ==
  \/ SyncRead(p) \/ ApplyKey(p) \/ PullFails(p) \/ ScrubStep(p) \/ ClaimStep(p)
  \/ FinishJob(p) \/ ReclaimJob(p) \/ Crash(p)

KeyNext == OperatorStep \/ \E p \in Procs : ProcStep(p)

KeySpec == KeyInit /\ [][KeyNext]_keyVars

\* The main loop keeps coming round to the sync, every transaction ends and
\* the lock is granted in the end; jobs end, and sweeps take back dead ones.
KeyFairness ==
  \A p \in Procs :
    /\ SF_keyVars(SyncRead(p)) /\ SF_keyVars(ScrubLock(p))
    /\ WF_keyVars(ScrubReread(p) \/ ScrubCount(p) \/ ScrubClear(p))
    /\ WF_keyVars(ClaimGate(p) \/ ClaimCommit(p))
    /\ WF_keyVars(ApplyKey(p) \/ PullFails(p))
    /\ WF_keyVars(FinishJob(p)) /\ WF_keyVars(ReclaimJob(p))

FairKeySpec == KeySpec /\ KeyFairness

\* What the code does not promise: a process is idle at a sync now and then, and
\* a key that is pulled again and again arrives.
IdleSyncs ==
  \A p \in Procs : SF_keyVars(SyncRead(p) /\ ~tasks[p]) /\ SF_keyVars(ApplyKey(p))

-----------------------------------------------------------------------------
(* Properties.                                                             *)

KeyTypeOK ==
  /\ assigned \in Assignment
  /\ file \in Keys \cup {NoKey} /\ dotenv \in Keys \cup {NoKey}
  /\ env \in [Procs -> Keys \cup {NoKey}]
  /\ applied \in [Procs -> Keys \cup {NoKey}]
  /\ want \in [Procs -> Keys \cup {NoKey}]
  /\ pc \in [Procs -> KeyPc]
  /\ tasks \in [Procs -> BOOLEAN] /\ claimed \in [Procs -> BOOLEAN]
  /\ crashes \in 0 .. MaxCrashes

\* Scrubs and jobs of a host exclude each other.  The shared files go away only
\* while no process owns a job: the claim that a scrub did not see waits for the
\* lock, and then sees the scrub or the cleared host.  And no process claims a job
\* while the revocation is pending: the tombstone its claim read as absent has not
\* come since.
ScrubExcludesJobs ==
  [][\A p \in Procs :
       /\ file # NoKey /\ file' = NoKey => ~claimed[p]
       /\ ~claimed[p] /\ claimed'[p] => assigned # "scrub"]_keyVars

\* A revoked key leaves the host for good, files and environments, even when
\* a process was pulling it while the other scrubbed.
RevokedKeyLeaves ==
  <>[](assigned = "scrub") =>
    <>[](file = NoKey /\ dotenv = NoKey /\ env = None)

\* A key that stays assigned reaches the host, files and environments, if idle
\* syncs come: even if it had been there before, was scrubbed by one process and
\* not by the other, and a late apply or a crash fell between.
AssignedKeyArrives ==
  IdleSyncs => \A k \in Keys :
    <>[](assigned = k) =>
      <>[](file = k /\ dotenv = k /\ \A p \in Procs : env[p] = k)

\* What the head wants of the host's key comes to be, both ways.
KeyFollowsAssignment == RevokedKeyLeaves /\ AssignedKeyArrives
=============================================================================
