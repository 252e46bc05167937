---------------------------- MODULE JobLeaseFence ----------------------------
(***************************************************************************)
(* What the lease protects, for every set of jobs, workers, operators and  *)
(* phases and every value of the limits: a lease is given back once, an    *)
(* execution that lost its lease writes nothing, only a retry over a       *)
(* changed row can leave a pending job that no worker can claim, and       *)
(* without the retry endpoint nothing is undone.                           *)
(***************************************************************************)
EXTENDS JobLeaseProofs, FiniteSetTheorems

-----------------------------------------------------------------------------
(* The ledger.                                                             *)

Settled(t) == ledger[t] \cap Settlements # {}
Live       == {"running", "cancelling"}

\* A lease has one settlement, and none before it is minted ...
OneSettlement ==
  \A t \in Tokens :
    /\ \E e \in Settlements : ledger[t] \cap Settlements \subseteq {e}
    /\ Settled(t) => t <= minted

\* ... and a row that still carries a settled lease, as a done or a failed one
\* does, is not settled again: it is neither running nor cancelling, and the
\* pipeline that could make it running is gone.
SettledIsOver ==
  \A j \in Jobs : job[j].token # NoToken /\ Settled(job[j].token) =>
    job[j].status \notin Live /\ exec[job[j].token].pc \notin InPipeline

LedgerInv == DoneInv /\ OneSettlement /\ SettledIsOver

\* A step that settles the lease t ends it.
Settles(t) ==
  /\ ~Settled(t) /\ t <= minted
  /\ \E e \in Settlements : ledger'[t] \cap Settlements \subseteq {e}
  /\ \A j \in Jobs : job'[j].token = t =>
       job'[j].status \notin Live /\ exec'[t].pc \notin InPipeline

\* What a step does to the ledger, and to the jobs it makes running.
Booked ==
  /\ \A t \in Tokens :
       ledger'[t] \cap Settlements = ledger[t] \cap Settlements \/ Settles(t)
  /\ \A j \in Jobs : job'[j].token # NoToken /\ job'[j].status \in Live =>
       job[j].status \in Live \/ exec[job[j].token].pc \in InPipeline

LEMMA LedgerStep ==
  ASSUME LedgerInv, DoneInv', Described, Booked
  PROVE  LedgerInv'
<1>1. OneSettlement'
  BY DEF LedgerInv, OneSettlement, Booked, Settles, Settled, Described
<1>2. SettledIsOver'
  <2> SUFFICES ASSUME NEW j \in Jobs, job'[j].token # NoToken, Settled(job[j].token)',
                      job'[j].token = job[j].token
               PROVE  job'[j].status \notin Live /\ exec'[job[j].token].pc \notin InPipeline
    BY DEF Described, Steady, SettledIsOver, Settled
  <2> DEFINE t == job[j].token
  <2>1. t \in Tokens
    BY DEF LedgerInv, DoneInv, TypeOK, JobRow, AnyToken, Tokens, NoToken
  <2>2. CASE Settles(t)
    BY <2>2 DEF Settles
  <2>3. CASE ~Settles(t)
    <3>1. Settled(t)
      BY <2>1, <2>3 DEF Booked, Settled
    <3>2. job[j].status \notin Live /\ exec[t].pc \notin InPipeline
      BY <3>1 DEF LedgerInv, SettledIsOver
    <3>3. exec'[t].pc \notin InPipeline
      BY <2>1, <3>2 DEF Described, Idles, Advances
    <3> QED BY <3>2, <3>3 DEF Booked
  <2> QED BY <2>2, <2>3
<1> QED BY <1>1, <1>2 DEF LedgerInv

-----------------------------------------------------------------------------
(* What the actions do to the ledger.                                      *)

LEMMA Unbooked ==
  ASSUME ledger' = ledger,
         \A j \in Jobs : job'[j].status \in Live /\ job'[j].token # NoToken =>
           job[j].status \in Live \/ exec[job[j].token].pc \in InPipeline
  PROVE  Booked
BY DEF Booked

\* The lease t is settled by its own execution, and its row given up.
LEMMA Settlement ==
  ASSUME LedgerInv, NEW t \in Tokens, Started(t), job[exec[t].job].token = t,
         job[exec[t].job].status \in Live \/ exec[t].pc \in InPipeline,
         NEW event \in Settlements, ledger' = Log(t, event),
         NEW row, job' = [job EXCEPT ![exec[t].job] = row],
         row.status \notin Live, row.token = NoToken \/ exec'[t].pc \notin InPipeline
  PROVE  Booked
<1> DEFINE j == exec[t].job
<1>1. TypeOK
  BY DEF LedgerInv, DoneInv
<1>2. ~Settled(t) /\ t # NoToken
  BY NullTypes DEF LedgerInv, SettledIsOver, Started
<1>3. t <= minted
  BY <1>2 DEF LedgerInv, DoneInv, LeaseNamesExecution, Started
<1>4. ledger'[t] \cap Settlements = {event}
  BY <1>1, <1>2 DEF Log, Settled, TypeOK
<1>5. \A u \in Tokens \ {t} : ledger'[u] = ledger[u]
  BY <1>1 DEF Log, TypeOK
<1>6. /\ job'[j] = row
      /\ \A i \in Jobs \ {j} : job'[i] = job[i]
  BY <1>1 DEF TypeOK, Started
<1>7. ASSUME NEW i \in Jobs, job'[i].token = t
      PROVE  job'[i].status \notin Live /\ exec'[t].pc \notin InPipeline
  <2>1. i = j
    BY <1>2, <1>6, <1>7 DEF LedgerInv, DoneInv, LeaseNamesExecution
  <2> QED BY <1>2, <1>6, <1>7, <2>1
<1>8. Settles(t)
  BY <1>2, <1>3, <1>4, <1>7 DEF Settles
<1> QED BY <1>5, <1>6, <1>8 DEF Booked

\* The finalizing write of a user's cancel.
LEMMA FinalizeBooked ==
  ASSUME LedgerInv, NEW t \in Tokens, Started(t), Holds(t, {"cancelling"}),
         job' = [job EXCEPT ![exec[t].job].status = "cancelled",
                            ![exec[t].job].token = NoToken,
                            ![exec[t].job].owner = Nobody],
         ledger' = Log(t, "released_cancelled")
  PROVE  Booked
<1> DEFINE row == [job[exec[t].job] EXCEPT !.status = "cancelled", !.token = NoToken,
                                           !.owner = Nobody]
<1>1. job \in [Jobs -> JobRow]
  BY DEF LedgerInv, DoneInv, TypeOK
<1>2. job' = [job EXCEPT ![exec[t].job] = row]
  BY <1>1
<1>3. row.status = "cancelled" /\ row.token = NoToken
  BY <1>1 DEF Started, JobRow
<1> HIDE DEF row
<1>4. "released_cancelled" \in Settlements
  BY DEF Settlements
<1> QED BY <1>2, <1>3, <1>4, Settlement DEF Holds, Live

LEMMA MissedWriteBooked ==
  ASSUME LedgerInv, NEW t \in Tokens, Started(t), NEW statuses, MissedWrite(t, statuses)
  PROVE  Booked
<1>1. CASE Holds(t, {"cancelling"})
  BY <1>1, FinalizeBooked DEF MissedWrite, FinalizeCancelled
<1>2. CASE ~Holds(t, {"cancelling"})
  <2>1. job' = job /\ (ledger' = ledger \/ ledger' = Log(t, "lease_lost"))
    BY <1>2 DEF MissedWrite
  <2>2. \A u \in Tokens : ledger'[u] \cap Settlements = ledger[u] \cap Settlements
    BY <2>1 DEF Log, Settlements, LedgerInv, DoneInv, TypeOK
  <2> QED BY <2>1, <2>2 DEF Booked
<1> QED BY <1>1, <1>2

\* A write of an execution that is still in its pipeline and holds the lease, or
\* one that leaves the row neither running nor cancelling.
LEMMA RowBooked ==
  ASSUME LedgerInv, NEW j \in Jobs, NEW row, job' = [job EXCEPT ![j] = row],
         ledger' = ledger,
         row.status \in Live =>
           job[j].status \in Live \/ exec[job[j].token].pc \in InPipeline
  PROVE  Booked
BY Unbooked DEF LedgerInv, DoneInv, TypeOK

LEMMA StatusBooked ==
  ASSUME LedgerInv, NEW j \in Jobs, NEW s, ledger' = ledger,
         \/ job' = [job EXCEPT ![j].status = s]
         \/ job' = [job EXCEPT ![j].status = s, ![j].phase = TRUE],
         s \in Live => job[j].status \in Live \/ exec[job[j].token].pc \in InPipeline
  PROVE  Booked
<1>1. job \in [Jobs -> JobRow]
  BY DEF LedgerInv, DoneInv, TypeOK
<1>2. PICK row : job' = [job EXCEPT ![j] = row] /\ row.status = s
  <2> DEFINE a == [job[j] EXCEPT !.status = s]
             b == [job[j] EXCEPT !.status = s, !.phase = TRUE]
  <2>1. a.status = s /\ b.status = s
    BY <1>1 DEF JobRow
  <2>2. job' = [job EXCEPT ![j] = a] \/ job' = [job EXCEPT ![j] = b]
    BY <1>1
  <2> QED BY <2>1, <2>2
<1> QED BY <1>2, RowBooked

LEMMA PipelineBooked ==
  ASSUME LedgerInv, NEW t \in Tokens, PipelineStep(t)
  PROVE  Booked
<1> DEFINE j == exec[t].job
<1>1. exec[t].pc # "unborn"
  BY DEF PipelineStep, StartRun, ResumeDonePhases, CompleteJob, Crash, JobTimeout,
         EndPublish, StartPhase, FinishPhase, FailJob, PhaseError, Unwind, InPipeline
<1>2. TypeOK /\ Started(t)
  BY <1>1, Begun DEF LedgerInv
<1>3. CASE StartRun(t) \/ Crash(t)
  <2>1. exec[t].pc \in InPipeline
    BY <1>3 DEF StartRun, Crash, InPipeline
  <2>2. CASE MissedWrite(t, Open)
    BY <1>2, <2>2, MissedWriteBooked
  <2>3. CASE ~MissedWrite(t, Open)
    <3>1. /\ Holds(t, Open) /\ ledger' = ledger
          /\ \E s \in {"running", "failed"} : job' = [job EXCEPT ![j].status = s]
      BY <1>3, <2>3 DEF StartRun, Crash
    <3> QED BY <1>2, <2>1, <3>1, StatusBooked DEF Holds, Started
  <2> QED BY <2>2, <2>3
<1>4. CASE CompleteJob(t)
  <2>1. CASE MissedWrite(t, Open)
    BY <1>2, <2>1, MissedWriteBooked
  <2>2. CASE ~MissedWrite(t, Open)
    <3> DEFINE row == [job[j] EXCEPT !.status = "done"]
    <3>1. /\ exec[t].pc = "run" /\ Holds(t, Open)
          /\ job' = [job EXCEPT ![j] = row]
          /\ ledger' = Log(t, "released_done") /\ exec' = [exec EXCEPT ![t].pc = "publish"]
      BY <1>2, <1>4, <2>2 DEF CompleteJob, TypeOK
    <3>2. row.status = "done"
      BY <1>2 DEF TypeOK, Started, JobRow
    <3>3. exec'[t].pc = "publish"
      BY <1>2, <3>1 DEF TypeOK, Execution
    <3> HIDE DEF row
    <3>4. "released_done" \in Settlements
      BY DEF Settlements
    <3> QED BY <1>2, <3>1, <3>2, <3>3, <3>4, Settlement DEF Holds, Live, InPipeline
  <2> QED BY <2>1, <2>2
<1>5. ASSUME NEW p \in Phases, StartPhase(t, p) PROVE Booked
  <2>1. CASE Holds(t, {"cancelling"})
    BY <1>2, <1>5, <2>1, FinalizeBooked DEF StartPhase, Holds, Open, Terminal
  <2>2. CASE Holds(t, Open)
    <3>1. /\ exec[t].pc = "run" /\ ledger' = ledger
          /\ job' = [job EXCEPT ![j].status = "running", ![j].phase = TRUE]
      BY <1>5, <2>2 DEF StartPhase, Holds, Open, Terminal
    <3> QED BY <1>2, <2>2, <3>1, StatusBooked DEF Holds, Started, InPipeline
  <2>3. CASE ~Holds(t, {"cancelling"}) /\ ~Holds(t, Open)
    BY <1>5, <2>3, Unbooked DEF StartPhase, leaseVars
  <2> QED BY <2>1, <2>2, <2>3
<1>6. ASSUME NEW p \in Phases, FailJob(t, p) PROVE Booked
  <2>1. CASE MissedWrite(t, Open)
    BY <1>2, <2>1, MissedWriteBooked
  <2>2. CASE ~MissedWrite(t, Open)
    <3>1. \E s \in {"failed"} : job' = [job EXCEPT ![j].status = s] /\ ledger' = ledger
      BY <1>6, <2>2 DEF FailJob
    <3>2. "failed" \notin Live
      BY DEF Live
    <3> QED BY <1>2, <3>1, <3>2, StatusBooked DEF Started
  <2> QED BY <2>1, <2>2
<1>7. CASE UNCHANGED <<job, ledger>>
  BY <1>7, Unbooked
<1>8. UNCHANGED <<job, ledger>> \/ StartRun(t) \/ Crash(t) \/ CompleteJob(t)
      \/ \E p \in Phases : StartPhase(t, p) \/ FailJob(t, p)
  BY DEF PipelineStep, ResumeDonePhases, JobTimeout, EndPublish, FinishPhase, PhaseError,
         Unwind, leaseVars
<1> QED BY <1>3, <1>4, <1>5, <1>6, <1>7, <1>8

LEMMA WorkerBooked ==
  ASSUME LedgerInv, NEW t \in Tokens, WorkerStep(t) \/ MarkCancelled(t)
  PROVE  Booked
<1> DEFINE j == exec[t].job
<1>1. exec[t].pc # "unborn" \/ exec[t].beating
  BY DEF WorkerStep, MarkFailedWithRetry, RequeueRefunded, DatabaseOutage, Heartbeat,
         StopScheduler, ReadCancelling, Die, MarkCancelled, InPipeline
<1>2. TypeOK /\ Started(t)
  BY <1>1, Begun DEF LedgerInv
<1>3. CASE MarkFailedWithRetry(t)
  <2> DEFINE last == job[j].attempts >= MaxAttempts
             row  == IF last
                     THEN [job[j] EXCEPT !.status = "failed", !.owner = Nobody]
                     ELSE [Requeued(job[j]) EXCEPT !.reclaims = 0]
  <2>1. CASE MissedWrite(t, {"running"})
    BY <1>2, <2>1, MissedWriteBooked
  <2>2. CASE ~MissedWrite(t, {"running"})
    <3>1. /\ Holds(t, {"running"}) /\ exec[t].pc = "report" /\ Ends(t)
          /\ job' = [job EXCEPT ![j] = row]
          /\ ledger' = Log(t, IF last THEN "released_failed" ELSE "released_retry")
      BY <1>2, <1>3, <2>2 DEF MarkFailedWithRetry, TypeOK
    <3>2. row.status \in {"failed", "pending"}
      <4>1. job[j] \in JobRow /\ Requeued(job[j]) \in JobRow
        BY <1>2, JobRowTypes DEF TypeOK, Started
      <4>2. Requeued(job[j]).status = "pending"
        BY <4>1 DEF Requeued, JobRow
      <4> QED BY <4>1, <4>2 DEF JobRow
    <3>3. exec'[t].pc = "over"
      BY <1>2, <3>1, EndsDescribed
    <3> HIDE DEF row
    <3>4. (IF last THEN "released_failed" ELSE "released_retry") \in Settlements
      BY DEF Settlements
    <3> HIDE DEF last
    <3> QED BY <1>2, <3>1, <3>2, <3>3, <3>4, Settlement DEF Holds, Live, InPipeline
  <2> QED BY <2>1, <2>2
<1>4. CASE RequeueRefunded(t)
  <2> DEFINE row == Refunded(job[j])
  <2>1. CASE MissedWrite(t, {"running"})
    BY <1>2, <2>1, MissedWriteBooked
  <2>2. CASE ~MissedWrite(t, {"running"})
    <3>1. /\ Holds(t, {"running"}) /\ job' = [job EXCEPT ![j] = row]
          /\ ledger' = Log(t, "released_retry")
      BY <1>2, <1>4, <2>2 DEF RequeueRefunded, TypeOK
    <3>2. row.status = "pending" /\ row.token = NoToken
      <4>1. job[j] \in JobRow /\ Requeued(job[j]) \in JobRow
        BY <1>2, JobRowTypes DEF TypeOK, Started
      <4>2. Requeued(job[j]).status = "pending" /\ Requeued(job[j]).token = NoToken
        BY <4>1 DEF Requeued, JobRow
      <4> QED BY <4>1, <4>2 DEF JobRow, Refunded
    <3> HIDE DEF row
    <3>3. "released_retry" \in Settlements
      BY DEF Settlements
    <3> QED BY <1>2, <3>1, <3>2, <3>3, Settlement DEF Holds, Live
  <2> QED BY <2>1, <2>2
<1>5. CASE MarkCancelled(t)
  <2>1. \E s \in {"cancelled"} : job' = [job EXCEPT ![j].status = s] /\ ledger' = ledger
    BY <1>5 DEF MarkCancelled
  <2>2. "cancelled" \notin Live
    BY DEF Live
  <2> QED BY <1>2, <2>1, <2>2, StatusBooked DEF Started
<1>6. CASE UNCHANGED <<job, ledger>>
  BY <1>6, Unbooked
<1>7. UNCHANGED <<job, ledger>> \/ MarkFailedWithRetry(t) \/ RequeueRefunded(t)
      \/ MarkCancelled(t)
  BY DEF WorkerStep, DatabaseOutage, Heartbeat, StopScheduler, ReadCancelling, Die, leaseVars
<1> QED BY <1>3, <1>4, <1>5, <1>6, <1>7

\* The sweep settles the lease of every job it takes back, and no other.
LEMMA SweepBooked ==
  ASSUME LedgerInv, NEW w \in Workers, NEW stale \in SUBSET RunningJobs,
         NEW forced \in SUBSET (RunningJobs \ stale),
         NEW quit \in SUBSET CancellingJobs, Sweep(w, stale, forced, quit)
  PROVE  Booked
<1> DEFINE stuck == stale \cup forced
           swept(j) == IF j \in stuck THEN Reclaimed(j)
                       ELSE IF j \in quit
                       THEN [job[j] EXCEPT !.status = "cancelled",
                                           !.token = NoToken, !.owner = Nobody]
                       ELSE job[j]
<1>1. TypeOK /\ LeaseNamesExecution
  BY DEF LedgerInv, DoneInv
<1>2. job' = [j \in Jobs |-> FailExhausted(swept(j))]
  BY DEF Sweep
<1>3. ASSUME NEW j \in Jobs
      PROVE  /\ swept(j) \in JobRow
             /\ j \in stuck => swept(j).token = NoToken /\ swept(j).status = "pending"
             /\ swept(j).token \in {job[j].token, NoToken}
             /\ swept(j).status \in Live => job[j].status \in Live
  <2>1. job[j] \in JobRow
    BY <1>1 DEF TypeOK
  <2>2. Requeued(job[j]) \in JobRow /\ Requeued(job[j]).token = NoToken
        /\ Requeued(job[j]).status = "pending"
    BY <2>1, JobRowTypes DEF Requeued, JobRow
  <2>3. /\ Reclaimed(j).token = NoToken /\ Reclaimed(j).status = "pending"
        /\ Reclaimed(j) \in JobRow
    BY <1>1, <2>2, ReclaimedType DEF Reclaimed, JobRow
  <2>4. [job[j] EXCEPT !.status = "cancelled", !.token = NoToken, !.owner = Nobody] \in JobRow
    BY <2>1, JobRowTypes DEF JobStatus, Terminal
  <2> QED BY <2>1, <2>3, <2>4 DEF JobRow, Live
<1> HIDE DEF swept
<1>a. stale \subseteq Jobs /\ forced \subseteq Jobs /\ stale \cap forced = {}
  BY DEF RunningJobs
<1>4. ASSUME NEW j \in Jobs
      PROVE  /\ j \in stuck => job'[j].token = NoToken
             /\ job'[j].token \in {job[j].token, NoToken}
             /\ job'[j].status \in Live => job[j].status \in Live
  BY <1>2, <1>3 DEF FailExhausted, JobRow, Live
<1>5. ASSUME NEW t \in Tokens
      PROVE  ledger'[t] \cap Settlements = ledger[t] \cap Settlements \/ Settles(t)
  <2>1. ledger'[t] = ledger[t]
          \cup (IF \E j \in stale : job[j].token = t THEN {"reclaimed_stale"} ELSE {})
          \cup (IF \E j \in forced : job[j].token = t THEN {"reclaimed_forced"} ELSE {})
    BY DEF Sweep
  <2>2. CASE \A j \in stuck : job[j].token # t
    BY <2>1, <2>2
  <2>3. ASSUME NEW i \in stuck, job[i].token = t PROVE Settles(t)
    <3>1. i \in Jobs /\ job[i].status = "running" /\ t # NoToken
      BY NullTypes DEF RunningJobs
    <3>2. \A j \in Jobs : job[j].token = t => j = i
      BY <1>1, <2>3, <3>1 DEF LeaseNamesExecution
    <3>3. ~Settled(t) /\ t <= minted
      BY <1>1, <2>3, <3>1 DEF LedgerInv, SettledIsOver, LeaseNamesExecution, Live
    <3>4. \E e \in Settlements : ledger'[t] \cap Settlements \subseteq {e}
      <4>1. CASE i \in stale
        <5>1. ledger'[t] = ledger[t] \cup {"reclaimed_stale"}
          BY <1>a, <2>1, <2>3, <3>2, <4>1
        <5> QED BY <3>3, <5>1 DEF Settled, Settlements
      <4>2. CASE i \in forced
        <5>1. ledger'[t] = ledger[t] \cup {"reclaimed_forced"}
          BY <1>a, <2>1, <2>3, <3>2, <4>2
        <5> QED BY <3>3, <5>1 DEF Settled, Settlements
      <4> QED BY <4>1, <4>2
    <3>5. \A j \in Jobs : job'[j].token # t
      BY <1>4, <3>1, <3>2
    <3> QED BY <3>3, <3>4, <3>5 DEF Settles
  <2> QED BY <2>2, <2>3
<1> QED BY <1>4, <1>5 DEF Booked

LEMMA OperatorBooked ==
  ASSUME LedgerInv, OperatorStep
  PROVE  Booked
<1>1. TypeOK
  BY DEF LedgerInv, DoneInv
<1>2. ASSUME NEW j \in Jobs, CancelIfPending(j) PROVE Booked
  <2>1. \E s \in {"cancelled"} : job' = [job EXCEPT ![j].status = s] /\ ledger' = ledger
    BY <1>2 DEF CancelIfPending
  <2>2. "cancelled" \notin Live
    BY DEF Live
  <2> QED BY <2>1, <2>2, StatusBooked
<1>3. ASSUME NEW j \in Jobs, NEW host, RequestCancel(j, host) PROVE Booked
  <2>1. \E s \in {"cancelling"} : job' = [job EXCEPT ![j].status = s] /\ ledger' = ledger
    BY <1>3 DEF RequestCancel
  <2>2. job[j].status \in Live
    BY <1>3 DEF RequestCancel, Live
  <2> QED BY <2>1, <2>2, StatusBooked
<1>4. ASSUME NEW o \in Operators, NEW j \in Jobs, RetryRead(o, j) PROVE Booked
  BY <1>4, Unbooked DEF RetryRead, leaseVars
<1>5. ASSUME NEW r \in retries, RetryWrite(r) PROVE Booked
  <2>1. ledger' = ledger /\ r.job \in Jobs
    BY <1>1, <1>5 DEF RetryWrite, TypeOK
  <2>2. ASSUME NEW j \in Jobs, job'[j].status \in Live PROVE job[j].status \in Live
    BY <1>1, <1>5, <2>1, <2>2 DEF RetryWrite, TypeOK, Live
  <2> QED BY <2>1, <2>2, Unbooked
<1> QED BY <1>2, <1>3, <1>4, <1>5 DEF OperatorStep

\* A claim takes a token that is on no row and in no entry.
LEMMA ClaimLedger ==
  ASSUME LedgerInv, NEW w \in Workers, NEW j \in Jobs, ClaimNextJob(w, j)
  PROVE  LedgerInv'
<1> DEFINE t == minted + 1
<1>1. TypeOK /\ DoneInv'
  BY ClaimDone DEF LedgerInv, DoneInv
<1>2. t \in Tokens /\ minted \in Nat /\ minted' = t
  BY <1>1, Assumptions DEF TypeOK, ClaimNextJob, Tokens, Assumptions
<1>3. ledger' = [ledger EXCEPT ![t] = @ \cup {"claimed"}]
  BY DEF ClaimNextJob, Log
<1>4. ASSUME NEW u \in Tokens PROVE ledger'[u] \cap Settlements = ledger[u] \cap Settlements
  BY <1>1, <1>3 DEF TypeOK, Settlements
<1>5. OneSettlement'
  BY <1>2, <1>4 DEF LedgerInv, OneSettlement, Settled, Tokens
<1>6. ~Settled(t)
  BY <1>2 DEF LedgerInv, OneSettlement, Tokens
<1>7. SettledIsOver'
  <2> SUFFICES ASSUME NEW i \in Jobs, job'[i].token # NoToken,
                      ledger'[job'[i].token] \cap Settlements # {}
               PROVE  job'[i].status \notin Live /\ exec'[job'[i].token].pc \notin InPipeline
    BY DEF SettledIsOver, Settled
  <2>1. job'[i].token \in Tokens
    BY <1>1 DEF DoneInv, TypeOK, JobRow, AnyToken, Tokens, NoToken
  <2>2. Settled(job'[i].token) /\ job'[i].token # t
    BY <1>4, <1>6, <2>1 DEF Settled
  <2>3. job'[i] = job[i]
    BY <1>1, <2>2 DEF ClaimNextJob, TypeOK, JobRow
  <2>4. exec'[job'[i].token] = exec[job'[i].token]
    BY <1>1, <2>1, <2>2 DEF ClaimNextJob, TypeOK
  <2> QED BY <2>2, <2>3, <2>4 DEF LedgerInv, SettledIsOver
<1> QED BY <1>1, <1>5, <1>7 DEF LedgerInv

LEMMA InitLedger == Init => LedgerInv
<1> SUFFICES ASSUME Init PROVE LedgerInv
  OBVIOUS
<1>1. OneSettlement /\ SettledIsOver
  BY DEF Init, OneSettlement, SettledIsOver, Settled, NewJob, Settlements
<1> QED BY <1>1, InitDone DEF LedgerInv

LEMMA StepLedger ==
  ASSUME LedgerInv, [Next]_vars
  PROVE  LedgerInv'
<1>1. DoneInv /\ DoneInv'
  BY StepDone DEF LedgerInv
<1>2. ASSUME NEW t \in Tokens, ExecStep(t) PROVE LedgerInv'
  BY <1>1, <1>2, ExecDescribed, PipelineBooked, WorkerBooked, LedgerStep DEF ExecStep
<1>3. ASSUME NEW w \in Workers, FleetStep(w) PROVE LedgerInv'
  <2>1. CASE \E j \in Jobs : ClaimNextJob(w, j)
    BY <2>1, ClaimLedger
  <2>2. CASE SomeSweep(w)
    <3>1. PICK stale \in SUBSET StaleJobs, quit \in SUBSET CancellingJobs :
            \E forced \in SUBSET (RunningJobs \ stale) : Sweep(w, stale, forced, quit)
      BY <2>2 DEF SomeSweep
    <3>2. PICK forced \in SUBSET (RunningJobs \ stale) : Sweep(w, stale, forced, quit)
      BY <3>1
    <3>3. stale \in SUBSET RunningJobs /\ forced \in SUBSET RunningJobs
      BY <3>1, <3>2 DEF StaleJobs
    <3> QED BY <1>1, <3>2, <3>3, SweepDescribed, SweepBooked, LedgerStep
  <2>3. CASE \/ WorkerCrash(w) \/ WorkerRestart(w)
             \/ RegistryBeat(w) \/ RegistryExpires(w)
    <3>1. UNCHANGED <<job, ledger>>
      BY <2>3 DEF WorkerCrash, WorkerRestart, RegistryBeat, RegistryExpires, leaseVars
    <3> QED BY <1>1, <2>3, <3>1, FleetDescribed, Unbooked, LedgerStep
  <2> QED BY <1>3, <2>1, <2>2, <2>3 DEF FleetStep
<1>4. CASE OperatorStep
  BY <1>1, <1>4, CancelDescribed, RetryDescribed, OperatorBooked, LedgerStep DEF OperatorStep
<1>5. CASE UNCHANGED vars
  BY <1>1, <1>5, Untouched, Plain, Unbooked, LedgerStep
  DEF vars, leaseVars, execVars
<1> QED BY <1>2, <1>3, <1>4, <1>5 DEF Next

\* LedgerInv holds in every reachable state, however many retry requests race.
THEOREM LedgerInvariant == Spec => []LedgerInv
<1>1. Init => LedgerInv
  BY InitLedger
<1>2. LedgerInv /\ [Next]_vars => LedgerInv'
  BY StepLedger
<1> QED BY <1>1, <1>2, PTL DEF Spec

\* Every lease is given back at most once, by its execution or by one arm of the
\* sweep: the ledger of job_lease_events accounts for each attempt once.
THEOREM LeasesSettledOnce == Spec => []LedgerSettledOnce
<1>1. LedgerInv => LedgerSettledOnce
  <2> SUFFICES ASSUME LedgerInv, NEW t \in Tokens
               PROVE  Cardinality(ledger[t] \cap Settlements) <= 1
    BY DEF LedgerSettledOnce
  <2>1. PICK e \in Settlements : ledger[t] \cap Settlements \subseteq {e}
    BY DEF LedgerInv, OneSettlement
  <2>2. ledger[t] \cap Settlements = {} \/ ledger[t] \cap Settlements = {e}
    BY <2>1
  <2>3. Cardinality({}) = 0 /\ Cardinality({e}) = 1
    BY FS_EmptySet, FS_Singleton
  <2> QED BY <2>2, <2>3
<1> QED BY <1>1, LedgerInvariant, PTL

-----------------------------------------------------------------------------
(* An execution whose row carries another lease, or none.                  *)

\* The phase rows that a step changes are the ones that carry the lease t.
OwnRows(t) ==
  \A i \in Jobs, p \in Phases : phase'[i][p] # phase[i][p] => phase[i][p].tok = t

LEMMA AbandonFenced ==
  ASSUME TypeOK, NEW t \in Tokens, NEW names, NEW to, phase' = Abandon(t, names, to)
  PROVE  OwnRows(t)
<1> DEFINE j == exec[t].job
           rows == ResetRows(phase[j], names, Open, {t}, to)
<1>1. phase' = [phase EXCEPT ![j] = rows]
  BY DEF Abandon, TypeOK
<1>2. \A p \in Phases : rows[p] # phase[j][p] => phase[j][p].tok = t
  BY DEF ResetRows
<1> HIDE DEF rows
<1> QED BY <1>1, <1>2 DEF OwnRows, TypeOK

LEMMA MissedWriteFenced ==
  ASSUME NEW t \in Tokens, job[exec[t].job].token # t, NEW statuses, MissedWrite(t, statuses)
  PROVE  job' = job /\ OwnRows(t)
BY DEF MissedWrite, Holds, OwnRows

\* One row of the execution's job is written, and it carries the lease t.
LEMMA RowFenced ==
  ASSUME TypeOK, NEW t \in Tokens, NEW p \in Phases, NEW st,
         phase[exec[t].job][p].tok = t,
         phase' = [phase EXCEPT ![exec[t].job][p].st = st]
  PROVE  OwnRows(t)
BY DEF OwnRows, TypeOK

LEMMA Fenced ==
  ASSUME DoneInv, NEW t \in Tokens, ExecStep(t),
         exec[t].pc # "finalize", job[exec[t].job].token # t
  PROVE  job' = job /\ OwnRows(t)
<1>1. TypeOK
  BY DEF DoneInv
<1>2. \A statuses : ~Holds(t, statuses)
  BY DEF Holds
<1>3. ASSUME UNCHANGED <<job, phase>> PROVE job' = job /\ OwnRows(t)
  BY <1>3 DEF OwnRows
<1>4. CASE PipelineStep(t)
  <2>1. CASE StartRun(t) \/ CompleteJob(t) \/ Crash(t)
    BY <1>2, <2>1, MissedWriteFenced DEF StartRun, CompleteJob, Crash
  <2>2. CASE ResumeDonePhases(t) \/ EndPublish(t)
    BY <1>3, <2>2 DEF ResumeDonePhases, EndPublish, leaseVars
  <2>3. CASE JobTimeout(t)
    BY <1>1, <2>3, AbandonFenced DEF JobTimeout
  <2>4. ASSUME NEW p \in Phases, StartPhase(t, p) PROVE job' = job /\ OwnRows(t)
    BY <1>2, <1>3, <2>4 DEF StartPhase, leaseVars
  <2>5. ASSUME NEW p \in Phases, FinishPhase(t, p) PROVE job' = job /\ OwnRows(t)
    BY <1>1, <1>3, <2>5, RowFenced DEF FinishPhase, leaseVars
  <2>6. ASSUME NEW p \in Phases, FailJob(t, p) PROVE job' = job /\ OwnRows(t)
    BY <1>2, <2>6, MissedWriteFenced DEF FailJob
  <2>7. ASSUME NEW p \in Phases, NEW kind \in PhaseErrors, NEW marked \in BOOLEAN,
               PhaseError(t, p, kind, marked)
        PROVE  job' = job /\ OwnRows(t)
    BY <1>1, <1>3, <2>7, RowFenced DEF PhaseError, leaseVars
  <2>8. ASSUME NEW p \in Phases, NEW kind \in Errors, Unwind(t, p, kind)
        PROVE  job' = job /\ OwnRows(t)
    BY <1>1, <2>8, AbandonFenced DEF Unwind
  <2> QED BY <1>4, <2>1, <2>2, <2>3, <2>4, <2>5, <2>6, <2>7, <2>8 DEF PipelineStep
<1>5. CASE WorkerStep(t)
  <2>1. CASE MarkFailedWithRetry(t) \/ RequeueRefunded(t)
    BY <1>2, <2>1, MissedWriteFenced DEF MarkFailedWithRetry, RequeueRefunded
  <2>2. CASE StopScheduler(t)
    BY <1>1, <2>2, AbandonFenced DEF StopScheduler
  <2>3. CASE DatabaseOutage(t) \/ Heartbeat(t) \/ ReadCancelling(t) \/ Die(t)
    BY <1>3, <2>3 DEF DatabaseOutage, Heartbeat, ReadCancelling, Die, leaseVars
  <2> QED BY <1>5, <2>1, <2>2, <2>3 DEF WorkerStep
<1>6. ~MarkCancelled(t)
  BY DEF MarkCancelled
<1> QED BY <1>4, <1>5, <1>6 DEF ExecStep

\* An execution whose job row no longer carries its token writes no job, and no
\* phase row that does not carry it either: every write of the pipeline and of
\* the worker is fenced, up to the finalizing write of a user's cancel.
THEOREM LostLeaseIsFenced == Spec => LostLeaseWritesNothing
<1> DEFINE Fence ==
      \A t \in Tokens :
        LET j == exec[t].job IN
        /\ exec[t].pc \notin {"unborn", "over", "finalize"} /\ job[j].token # t
        /\ \/ job' # job
           \/ \E i \in Jobs, p \in Phases :
                phase'[i][p] # phase[i][p] /\ phase[i][p].tok # t
        => ~ExecStep(t)
<1>1. DoneInv /\ [Next]_vars => [Fence]_vars
  BY Fenced DEF OwnRows
<1>2. [][Fence]_vars => LostLeaseWritesNothing
  BY DEF LostLeaseWritesNothing
<1> HIDE DEF Fence
<1> QED BY <1>1, <1>2, DoneInvariant, PTL DEF Spec

-----------------------------------------------------------------------------
(* A pending job can be claimed, until a retry writes over a changed row.   *)

Ended == {"failed", "cancelled"}

\* The row as a retry request has read it, but for its status.
Matches(row, old) ==
  /\ row.status \in Ended
  /\ row.token = old.token /\ row.owner = old.owner /\ row.phase = old.phase
  /\ row.attempts = old.attempts /\ row.reclaims = old.reclaims

\* What a retry request has read is still there when it writes, so that it
\* resets every column ...
RetriesMatch == \A r \in retries : Matches(job[r.job], r.row)

\* ... and there is one such request.
OneRetry == \A r, s \in retries : r = s

Claimable(row) ==
  row.status = "pending" =>
    row.attempts < MaxAttempts /\ row.token = NoToken /\ row.owner = Nobody

ClaimInv == DoneInv /\ PendingIsClaimable /\ RetriesMatch /\ OneRetry

\* Job j is not requeued with something left of its lease, and a job that has
\* failed or is cancelled keeps its columns.
Tame(j) ==
  /\ Claimable(job[j]) => Claimable(job'[j])
  /\ job[j].status \in Ended => Matches(job'[j], job[j])

LEMMA TameStep ==
  ASSUME ClaimInv, DoneInv', \A j \in Jobs : Tame(j), retries' = retries
  PROVE  ClaimInv'
<1>1. PendingIsClaimable'
  BY DEF ClaimInv, PendingIsClaimable, Tame, Claimable
<1>2. RetriesMatch'
  BY DEF ClaimInv, DoneInv, TypeOK, RetriesMatch, Tame, Matches
<1> QED BY <1>1, <1>2 DEF ClaimInv, OneRetry

LEMMA Untamed == UNCHANGED job => \A j \in Jobs : Tame(j)
BY DEF Tame, Matches

\* A job that is not at an end is written.
LEMMA TameWrite ==
  ASSUME TypeOK, NEW j \in Jobs, job[j].status \notin Ended, NEW row,
         job' = [job EXCEPT ![j] = row], Claimable(row)
  PROVE  \A i \in Jobs : Tame(i)
BY DEF TypeOK, Tame, Matches

LEMMA TameStatus ==
  ASSUME TypeOK, NEW j \in Jobs, job[j].status \notin Ended,
         NEW s \in JobStatus \ {"pending"},
         \/ job' = [job EXCEPT ![j].status = s]
         \/ job' = [job EXCEPT ![j].status = s, ![j].phase = TRUE]
         \/ job' = [job EXCEPT ![j].status = s, ![j].token = NoToken, ![j].owner = Nobody]
  PROVE  \A i \in Jobs : Tame(i)
<1>1. job \in [Jobs -> JobRow]
  BY DEF TypeOK
<1>2. PICK row : job' = [job EXCEPT ![j] = row] /\ row.status = s
  <2> DEFINE a == [job[j] EXCEPT !.status = s]
             b == [job[j] EXCEPT !.status = s, !.phase = TRUE]
             c == [job[j] EXCEPT !.status = s, !.token = NoToken, !.owner = Nobody]
  <2>1. a.status = s /\ b.status = s /\ c.status = s
    BY <1>1 DEF JobRow
  <2>2. \/ job' = [job EXCEPT ![j] = a] \/ job' = [job EXCEPT ![j] = b]
        \/ job' = [job EXCEPT ![j] = c]
    BY <1>1
  <2> QED BY <2>1, <2>2
<1>3. Claimable(row)
  BY <1>2 DEF Claimable
<1> QED BY <1>2, <1>3, TameWrite

LEMMA MissedWriteTame ==
  ASSUME TypeOK, NEW t \in Tokens, Started(t), NEW statuses, MissedWrite(t, statuses)
  PROVE  \A i \in Jobs : Tame(i)
<1>1. CASE Holds(t, {"cancelling"})
  <2>1. \E s \in {"cancelled"} :
          job' = [job EXCEPT ![exec[t].job].status = s, ![exec[t].job].token = NoToken,
                             ![exec[t].job].owner = Nobody]
    BY <1>1 DEF MissedWrite, FinalizeCancelled
  <2>2. "cancelled" \in JobStatus \ {"pending"}
    BY DEF JobStatus, Terminal
  <2>3. job[exec[t].job].status \notin Ended
    BY <1>1 DEF Holds, Ended
  <2> QED BY <2>1, <2>2, <2>3, TameStatus DEF Started
<1>2. CASE ~Holds(t, {"cancelling"})
  BY <1>2, Untamed DEF MissedWrite
<1> QED BY <1>1, <1>2

LEMMA PipelineTame ==
  ASSUME DoneInv, NEW t \in Tokens, PipelineStep(t)
  PROVE  \A i \in Jobs : Tame(i)
<1> DEFINE j == exec[t].job
<1>1. exec[t].pc # "unborn"
  BY DEF PipelineStep, StartRun, ResumeDonePhases, CompleteJob, Crash, JobTimeout,
         EndPublish, StartPhase, FinishPhase, FailJob, PhaseError, Unwind, InPipeline
<1>2. TypeOK /\ Started(t)
  BY <1>1, Begun
<1>3. {"running", "done", "failed", "cancelled"} \subseteq JobStatus \ {"pending"}
  BY DEF JobStatus, Open, Terminal
<1>4. CASE MissedWrite(t, Open)
  BY <1>2, <1>4, MissedWriteTame
<1>5. ASSUME NEW s \in {"running", "done", "failed", "cancelled"},
             Holds(t, Open \cup {"cancelling"}),
             \/ job' = [job EXCEPT ![j].status = s]
             \/ job' = [job EXCEPT ![j].status = s, ![j].phase = TRUE]
             \/ job' = [job EXCEPT ![j].status = s, ![j].token = NoToken,
                                   ![j].owner = Nobody]
      PROVE  \A i \in Jobs : Tame(i)
  <2>1. job[j].status \notin Ended
    BY <1>5 DEF Holds, Open, Ended
  <2> QED BY <1>2, <1>3, <1>5, <2>1, TameStatus DEF Started
<1>6. UNCHANGED job \/ MissedWrite(t, Open) \/
      \E s \in {"running", "done", "failed", "cancelled"} :
        /\ Holds(t, Open \cup {"cancelling"})
        /\ \/ job' = [job EXCEPT ![j].status = s]
           \/ job' = [job EXCEPT ![j].status = s, ![j].phase = TRUE]
           \/ job' = [job EXCEPT ![j].status = s, ![j].token = NoToken,
                                 ![j].owner = Nobody]
  BY DEF PipelineStep, StartRun, ResumeDonePhases, CompleteJob, Crash, JobTimeout,
         EndPublish, StartPhase, FinishPhase, FailJob, PhaseError, Unwind, leaseVars, Holds
<1> QED BY <1>4, <1>5, <1>6, Untamed

LEMMA WorkerTame ==
  ASSUME DoneInv, NEW t \in Tokens, WorkerStep(t) \/ MarkCancelled(t)
  PROVE  \A i \in Jobs : Tame(i)
<1> DEFINE j == exec[t].job
<1>1. exec[t].pc # "unborn" \/ exec[t].beating
  BY DEF WorkerStep, MarkFailedWithRetry, RequeueRefunded, DatabaseOutage, Heartbeat,
         StopScheduler, ReadCancelling, Die, MarkCancelled, InPipeline
<1>2. TypeOK /\ Started(t)
  BY <1>1, Begun
<1>3. CASE MissedWrite(t, {"running"})
  BY <1>2, <1>3, MissedWriteTame
<1>4. /\ job[j] \in JobRow /\ Requeued(job[j]) \in JobRow
      /\ Requeued(job[j]).token = NoToken /\ Requeued(job[j]).owner = Nobody
      /\ Requeued(job[j]).attempts = job[j].attempts
  <2>1. job[j] \in JobRow
    BY <1>2 DEF TypeOK, Started
  <2> QED BY <2>1, JobRowTypes DEF Requeued, JobRow
<1>5. CASE MarkFailedWithRetry(t) /\ ~MissedWrite(t, {"running"})
  <2> DEFINE last == job[j].attempts >= MaxAttempts
             row  == IF last
                     THEN [job[j] EXCEPT !.status = "failed", !.owner = Nobody]
                     ELSE [Requeued(job[j]) EXCEPT !.reclaims = 0]
  <2>1. Holds(t, {"running"}) /\ job' = [job EXCEPT ![j] = row]
    BY <1>2, <1>5 DEF MarkFailedWithRetry, TypeOK
  <2>2. Claimable(row)
    BY <1>4, Assumptions DEF Claimable, JobRow, Assumptions
  <2> HIDE DEF row
  <2> QED BY <1>2, <2>1, <2>2, TameWrite DEF Holds, Started, Ended
<1>6. CASE RequeueRefunded(t) /\ ~MissedWrite(t, {"running"})
  <2> DEFINE row == Refunded(job[j])
  <2>1. Holds(t, {"running"}) /\ job' = [job EXCEPT ![j] = row]
    BY <1>2, <1>6 DEF RequeueRefunded, TypeOK
  <2>2. Claimable(row)
    BY <1>4, Assumptions DEF Claimable, Refunded, Refund, JobRow, Assumptions
  <2> HIDE DEF row
  <2> QED BY <1>2, <2>1, <2>2, TameWrite DEF Holds, Started, Ended
<1>7. CASE MarkCancelled(t)
  BY <1>2, <1>7 DEF MarkCancelled, TypeOK, Started, JobRow, Tame, Claimable, Matches, Ended
<1>8. UNCHANGED job \/ MissedWrite(t, {"running"}) \/ MarkFailedWithRetry(t)
      \/ RequeueRefunded(t) \/ MarkCancelled(t)
  BY DEF WorkerStep, DatabaseOutage, Heartbeat, StopScheduler, ReadCancelling, Die, leaseVars
<1> QED BY <1>3, <1>5, <1>6, <1>7, <1>8, Untamed

LEMMA SweepTame ==
  ASSUME TypeOK, NEW w \in Workers,
         NEW stale \in SUBSET RunningJobs, NEW forced \in SUBSET RunningJobs,
         NEW quit \in SUBSET CancellingJobs, Sweep(w, stale, forced, quit)
  PROVE  \A i \in Jobs : Tame(i)
<1> DEFINE swept(j) == IF j \in stale \cup forced THEN Reclaimed(j)
                       ELSE IF j \in quit
                       THEN [job[j] EXCEPT !.status = "cancelled",
                                           !.token = NoToken, !.owner = Nobody]
                       ELSE job[j]
<1> SUFFICES ASSUME NEW j \in Jobs PROVE Tame(j)
  OBVIOUS
<1>1. job'[j] = FailExhausted(swept(j))
  BY DEF Sweep
<1>2. /\ job[j] \in JobRow /\ Requeued(job[j]) \in JobRow
      /\ Requeued(job[j]).token = NoToken /\ Requeued(job[j]).owner = Nobody
      /\ Requeued(job[j]).status = "pending"
  <2>1. job[j] \in JobRow
    BY DEF TypeOK
  <2> QED BY <2>1, JobRowTypes DEF Requeued, JobRow
<1>3. CASE j \in stale \cup forced
  <2>1. /\ Reclaimed(j) \in JobRow /\ Reclaimed(j).status = "pending"
        /\ Reclaimed(j).token = NoToken /\ Reclaimed(j).owner = Nobody
    BY <1>2, ReclaimedType DEF Reclaimed, JobRow
  <2>2. job[j].status = "running"
    BY <1>3 DEF RunningJobs
  <2>3. Claimable(FailExhausted(Reclaimed(j)))
    BY <2>1, Assumptions DEF FailExhausted, Exhausted, Claimable, JobRow, Assumptions
  <2> QED BY <1>1, <1>3, <2>2, <2>3 DEF Tame, Ended
<1>4. CASE j \notin stale \cup forced /\ j \in quit
  <2>1. job[j].status = "cancelling"
    BY <1>4 DEF CancellingJobs
  <2>2. job'[j].status = "cancelled"
    BY <1>1, <1>2, <1>4 DEF FailExhausted, Exhausted, JobRow
  <2> QED BY <2>1, <2>2 DEF Tame, Claimable, Ended
<1>5. CASE j \notin stale \cup forced /\ j \notin quit
  <2>1. job'[j] = FailExhausted(job[j])
    BY <1>1, <1>5
  <2> QED BY <1>2, <2>1, Assumptions
          DEF FailExhausted, Exhausted, Tame, Claimable, Matches, Ended, JobRow, Assumptions
<1> QED BY <1>3, <1>4, <1>5

\* A retry that writes over what it has read leaves nothing of it.
LEMMA RetryWriteResets ==
  ASSUME TypeOK, NEW r \in retries, RetryWrite(r), Matches(job[r.job], r.row)
  PROVE  Claimable(job'[r.job])
<1>1. /\ job'[r.job].attempts = 0 /\ job'[r.job].token = NoToken
      /\ job'[r.job].owner = Nobody
  BY DEF RetryWrite, Matches, TypeOK
<1> QED BY <1>1, Assumptions DEF Claimable, Assumptions

LEMMA RetryWriteClaim ==
  ASSUME ClaimInv, NEW r \in retries, RetryWrite(r), DoneInv'
  PROVE  ClaimInv'
<1>1. TypeOK /\ r.job \in Jobs /\ Matches(job[r.job], r.row)
  BY DEF ClaimInv, DoneInv, TypeOK, RetriesMatch
<1>3. Claimable(job'[r.job])
  BY <1>1, RetryWriteResets
<1>4. \A j \in Jobs \ {r.job} : job'[j] = job[j]
  BY <1>1 DEF RetryWrite, TypeOK
<1>5. retries' = {}
  BY DEF ClaimInv, OneRetry, RetryWrite
<1> QED BY <1>3, <1>4, <1>5
        DEF ClaimInv, PendingIsClaimable, Claimable, RetriesMatch, OneRetry

\* At most one request retries a job at a time.
LoneOperator == \A o, p \in Operators : o = p

\* Every step but those of the retry endpoint is tame.
LEMMA StepTame ==
  ASSUME DoneInv, [Next]_vars
  PROVE  \/ (\A j \in Jobs : Tame(j)) /\ retries' = retries
         \/ \E o \in Operators, j \in Jobs : RetryRead(o, j)
         \/ \E r \in retries : RetryWrite(r)
<1> DEFINE Quiet == (\A j \in Jobs : Tame(j)) /\ retries' = retries
<1>1. TypeOK
  BY DEF DoneInv
<1>2. ASSUME NEW t \in Tokens, ExecStep(t) PROVE Quiet
  <2>1. \A j \in Jobs : Tame(j)
    BY <1>1, <1>2, PipelineTame, WorkerTame DEF ExecStep
  <2>2. retries' = retries
    BY <1>2 DEF ExecStep, PipelineStep, WorkerStep, StartRun, ResumeDonePhases, CompleteJob,
         Crash, JobTimeout, EndPublish, StartPhase, FinishPhase, FailJob, PhaseError,
         Unwind, MarkFailedWithRetry, RequeueRefunded, DatabaseOutage, Heartbeat,
         StopScheduler, ReadCancelling, Die, MarkCancelled
  <2> QED BY <2>1, <2>2
<1>3. ASSUME NEW w \in Workers, FleetStep(w) PROVE Quiet
  <2>1. ASSUME NEW j \in Jobs, ClaimNextJob(w, j) PROVE Quiet
    BY <1>1, <2>1 DEF ClaimNextJob, TypeOK, JobRow, Tame, Claimable, Matches, Ended
  <2>2. CASE SomeSweep(w)
    <3>1. PICK stale \in SUBSET StaleJobs, quit \in SUBSET CancellingJobs :
            \E forced \in SUBSET (RunningJobs \ stale) : Sweep(w, stale, forced, quit)
      BY <2>2 DEF SomeSweep
    <3>2. PICK forced \in SUBSET (RunningJobs \ stale) : Sweep(w, stale, forced, quit)
      BY <3>1
    <3>3. stale \in SUBSET RunningJobs /\ forced \in SUBSET RunningJobs
      BY <3>1, <3>2 DEF StaleJobs
    <3>4. retries' = retries
      BY <3>2 DEF Sweep
    <3> QED BY <1>1, <3>2, <3>3, <3>4, SweepTame
  <2>3. CASE \/ WorkerCrash(w) \/ WorkerRestart(w)
             \/ RegistryBeat(w) \/ RegistryExpires(w)
    BY <2>3, Untamed DEF WorkerCrash, WorkerRestart, RegistryBeat, RegistryExpires, leaseVars
  <2> QED BY <1>3, <2>1, <2>2, <2>3 DEF FleetStep
<1>4. ASSUME NEW j \in Jobs,
             CancelIfPending(j) \/ \E host \in Workers \cup {Nobody} : RequestCancel(j, host)
      PROVE  Quiet
  <2>1. \E s \in {"cancelled", "cancelling"} : job' = [job EXCEPT ![j].status = s]
    BY <1>4 DEF CancelIfPending, RequestCancel
  <2>2. job[j].status \notin Ended /\ retries' = retries
    BY <1>4 DEF CancelIfPending, RequestCancel, Ended
  <2>3. {"cancelled", "cancelling"} \subseteq JobStatus \ {"pending"}
    BY DEF JobStatus, Terminal
  <2> QED BY <1>1, <2>1, <2>2, <2>3, TameStatus
<1>5. CASE UNCHANGED vars
  BY <1>5, Untamed DEF vars, leaseVars
<1> QED BY <1>2, <1>3, <1>4, <1>5 DEF Next, OperatorStep

LEMMA StepClaim ==
  ASSUME LoneOperator, ClaimInv, [Next]_vars
  PROVE  ClaimInv'
<1>1. TypeOK /\ DoneInv /\ DoneInv'
  BY StepDone DEF ClaimInv, DoneInv
<1>2. CASE (\A j \in Jobs : Tame(j)) /\ retries' = retries
  BY <1>1, <1>2, TameStep
<1>3. ASSUME NEW o \in Operators, NEW j \in Jobs, RetryRead(o, j) PROVE ClaimInv'
  <2>1. retries = {}
    BY <1>1, <1>3 DEF RetryRead, TypeOK, LoneOperator
  <2>2. retries' = {[by |-> o, job |-> j, row |-> job[j]]} /\ job' = job
    BY <1>3, <2>1 DEF RetryRead, leaseVars
  <2>3. RetriesMatch' /\ OneRetry'
    BY <1>3, <2>2 DEF RetryRead, RetriesMatch, OneRetry, Matches, Ended
  <2> QED BY <1>1, <2>2, <2>3 DEF ClaimInv, PendingIsClaimable
<1>4. ASSUME NEW r \in retries, RetryWrite(r) PROVE ClaimInv'
  BY <1>1, <1>4, RetryWriteClaim
<1> QED BY <1>1, <1>2, <1>3, <1>4, StepTame

LEMMA InitClaim == Init => ClaimInv
<1> SUFFICES ASSUME Init PROVE ClaimInv
  OBVIOUS
<1>1. PendingIsClaimable /\ RetriesMatch /\ OneRetry
  BY Assumptions DEF Init, PendingIsClaimable, RetriesMatch, OneRetry, NewJob, Assumptions
<1> QED BY <1>1, InitDone DEF ClaimInv

\* While one request at a time retries a job, as in the run, nothing overtakes it.
THEOREM ClaimInvariant == LoneOperator => (Spec => []ClaimInv)
<1> SUFFICES ASSUME LoneOperator PROVE Spec => []ClaimInv
  OBVIOUS
<1>1. Init => ClaimInv
  BY InitClaim
<1>2. ClaimInv /\ [Next]_vars => ClaimInv'
  BY StepClaim
<1> QED BY <1>1, <1>2, PTL DEF Spec

\* The row of its job has changed since the retry request r read it.
Overtaken(r) == ~Matches(job[r.job], r.row)

\* A pending job has an attempt left and keeps nothing of its last lease, through
\* any number of claims, refunds, reclaims, cancels and concurrent retries, until
\* a retry request writes over a row that changed since it was read: no other
\* step of anybody leaves a pending job that no worker can claim.  (Two racing
\* retries do: reset_for_retry has no condition.)
THEOREM PendingCanBeClaimed ==
  Spec => /\ PendingIsClaimable
          /\ [][PendingIsClaimable =>
                  \/ PendingIsClaimable'
                  \/ \E r \in retries : Overtaken(r) /\ RetryWrite(r)]_vars
<1> DEFINE StaysClaimable == PendingIsClaimable =>
                               \/ PendingIsClaimable'
                               \/ \E r \in retries : Overtaken(r) /\ RetryWrite(r)
<1>1. Init => PendingIsClaimable
  BY InitClaim DEF ClaimInv
<1>2. ASSUME DoneInv, [Next]_vars PROVE StaysClaimable
  <2> SUFFICES ASSUME PendingIsClaimable,
                      \A r \in retries : RetryWrite(r) => Matches(job[r.job], r.row)
               PROVE  PendingIsClaimable'
    BY DEF Overtaken
  <2>1. TypeOK /\ \A j \in Jobs : Claimable(job[j])
    BY <1>2 DEF DoneInv, PendingIsClaimable, Claimable
  <2>2. CASE \A j \in Jobs : Tame(j)
    BY <2>1, <2>2 DEF Tame, PendingIsClaimable, Claimable
  <2>3. ASSUME NEW o \in Operators, NEW j \in Jobs, RetryRead(o, j) PROVE PendingIsClaimable'
    BY <2>3 DEF RetryRead, leaseVars, PendingIsClaimable
  <2>4. ASSUME NEW r \in retries, RetryWrite(r) PROVE PendingIsClaimable'
    <3>1. Claimable(job'[r.job])
      BY <2>1, <2>4, RetryWriteResets
    <3>2. \A j \in Jobs \ {r.job} : job'[j] = job[j]
      BY <2>1, <2>4 DEF RetryWrite, TypeOK
    <3> QED BY <2>1, <3>1, <3>2 DEF PendingIsClaimable, Claimable
  <2> QED BY <1>2, <2>2, <2>3, <2>4, StepTame
<1>3. DoneInv /\ [Next]_vars => [StaysClaimable]_vars
  BY <1>2
<1> HIDE DEF StaysClaimable
<1>4. Spec => PendingIsClaimable /\ [][StaysClaimable]_vars
  BY <1>1, <1>3, DoneInvariant, PTL DEF Spec
<1> QED BY <1>4 DEF StaysClaimable

-----------------------------------------------------------------------------
(* Without the retry endpoint nothing is undone.                           *)

\* The scheduler of u runs phase p, and the row of p carries its lease.
OwnedBusy(u, p) ==
  /\ exec[u].pc = "run" /\ p \in exec[u].busy
  /\ phase[exec[u].job][p].tok = u

\* Then its job carries the lease too and the row is running, or the job has
\* been cancelled under it ...
Owns(u, p) ==
  LET j == exec[u].job IN
  \/ job[j].token = u /\ (phase[j][p].st = "running" \/ job[j].status = "cancelled")
  \/ job[j].token = NoToken /\ job[j].status = "cancelled"

BusyOwns == \A u \in Tokens, p \in Phases : OwnedBusy(u, p) => Owns(u, p)

\* ... what the owner of a job has still to start has no output ...
LeftNotDone ==
  \A u \in Tokens : exec[u].pc = "run" /\ job[exec[u].job].token = u =>
    \A p \in exec[u].left : phase[exec[u].job][p].st # "done"

\* ... and a worker that finalizes a cancel finds a job that is cancelled, or
\* is to be.
FinalizeKnows ==
  \A u \in Tokens : exec[u].pc = "finalize" =>
    job[exec[u].job].status \in {"cancelling", "cancelled"}

OutputInv == ClaimInv /\ BusyOwns /\ LeftNotDone /\ FinalizeKnows

\* The scheduler of u starts no phase but under its lease ...
Still(u) ==
  exec'[u].pc = "run" =>
    LET j == exec[u].job IN
    /\ exec'[u].job = j
    /\ \/ /\ exec[u].pc = "run" /\ exec'[u].left \subseteq exec[u].left
          /\ \A p \in exec'[u].busy \ exec[u].busy :
               job'[j].token = u /\ phase'[j][p].st = "running"
       \/ /\ exec'[u].busy = {}
          /\ \A p \in exec'[u].left : phase'[j][p].st # "done"

Finals(u) ==
  exec'[u].pc = "finalize" =>
    /\ exec'[u].job = exec[u].job
    /\ exec[u].pc = "finalize" \/ job'[exec[u].job].status = "cancelling"

\* ... no row is given to an execution that runs it ...
Unowned(j, p) ==
  \A u \in Tokens : exec[u].job = j /\ phase'[j][p].tok = u =>
    ~(exec'[u].pc = "run" /\ p \in exec'[u].busy)

\* ... and a row with its output is left alone, every other is finished by the
\* execution that runs it, is cleared, or is cancelled or started as it stands.
RowEffect(j, p) ==
  \/ phase'[j][p] = phase[j][p]
  \/ /\ phase[j][p].st # "done"
     /\ phase'[j][p].st # "done" \/ \E u \in Tokens : exec[u].job = j /\ OwnedBusy(u, p)
     /\ \/ Unowned(j, p)
        \/ phase'[j][p].tok = phase[j][p].tok /\ job'[j].status = "cancelled"
        \/ phase'[j][p].st = "running" /\ job'[j].token = phase'[j][p].tok

\* The phases of job j that an execution runs are not its own after this step.
Disowned(j) ==
  \A u \in Tokens, p \in Phases :
    exec[u].job = j /\ OwnedBusy(u, p) /\ phase'[j][p].tok = u => exec'[u].pc # "run"

\* A finished job is left alone, and a cancelling one only gets cancelled.
JobEffect(j) ==
  \/ job'[j] = job[j]
  \/ /\ job[j].status \notin {"done", "failed"} /\ job'[j].status = "cancelled"
     /\ job'[j].token \in {job[j].token, NoToken}
  \/ /\ job[j].status \in Open
     /\ \/ job'[j].token = job[j].token
        \/ job'[j].token = NoToken /\ Disowned(j)

Harmless ==
  /\ \A u \in Tokens : Still(u) /\ Finals(u)
  /\ \A j \in Jobs : JobEffect(j) /\ \A p \in Phases : RowEffect(j, p)

\* What NothingIsUndone says of a step.
Lasting ==
  \A j \in Jobs :
    /\ job[j].status \in Terminal => job'[j].status = job[j].status
    /\ \A p \in Phases : phase[j][p].st = "done" => phase'[j][p].st = "done"

LEMMA HarmlessLasts == ASSUME Harmless PROVE Lasting
BY DEF Harmless, JobEffect, RowEffect, Lasting, Open, Terminal

LEMMA HarmlessStep ==
  ASSUME OutputInv, ClaimInv', Harmless
  PROVE  OutputInv'
<1>1. TypeOK /\ TypeOK' /\ SchedulerKeepsPhases /\ LeaseNamesExecution
  BY DEF OutputInv, ClaimInv, DoneInv
<1>2. ASSUME NEW u \in Tokens, exec'[u].pc \in {"run", "finalize"}
      PROVE  exec'[u].job = exec[u].job /\ exec'[u].job \in Jobs
  <2>1. exec'[u].job \in Jobs
    <3>1. exec'[u] # Unborn
      BY <1>2 DEF Unborn
    <3> QED BY <3>1 DEF ClaimInv, DoneInv, LeaseNamesExecution
  <2> QED BY <1>2, <2>1 DEF Harmless, Still, Finals
<1>3. BusyOwns'
  <2> SUFFICES ASSUME NEW u \in Tokens, NEW p \in Phases, OwnedBusy(u, p)'
               PROVE  Owns(u, p)'
    BY DEF BusyOwns
  <2> DEFINE j == exec[u].job
  <2>1. /\ exec'[u].pc = "run" /\ p \in exec'[u].busy /\ exec'[u].job = j
        /\ phase'[j][p].tok = u /\ j \in Jobs
    BY <1>2 DEF OwnedBusy
  <2>2. CASE job'[j].token = u /\ phase'[j][p].st = "running"
    BY <2>1, <2>2 DEF Owns
  <2>3. CASE ~(job'[j].token = u /\ phase'[j][p].st = "running")
    <3>1. exec[u].pc = "run" /\ p \in exec[u].busy
      BY <2>1, <2>3 DEF Harmless, Still
    <3>2. phase'[j][p].tok = phase[j][p].tok
          /\ (job'[j].status = "cancelled" \/ phase'[j][p] = phase[j][p])
      BY <2>1, <2>3 DEF Harmless, RowEffect, Unowned
    <3>3. OwnedBusy(u, p)
      BY <2>1, <3>1, <3>2 DEF OwnedBusy
    <3>4. Owns(u, p)
      BY <3>3 DEF OutputInv, BusyOwns
    <3>5. ~Disowned(j)
      BY <2>1, <3>3 DEF Disowned
    <3>6. JobEffect(j)
      BY <2>1 DEF Harmless
    <3>7. job'[j].token \in {job[j].token, NoToken}
      BY <3>5, <3>6 DEF JobEffect
    <3>8. CASE job'[j].status = "cancelled"
      BY <2>1, <3>4, <3>7, <3>8 DEF Owns
    <3>9. CASE job'[j].status # "cancelled"
      BY <2>1, <3>2, <3>4, <3>5, <3>6, <3>9 DEF Owns, JobEffect, Open
    <3> QED BY <3>8, <3>9
  <2> QED BY <2>2, <2>3
<1>4. LeftNotDone'
  <2> SUFFICES ASSUME NEW u \in Tokens, exec'[u].pc = "run",
                      job'[exec'[u].job].token = u, NEW p \in exec'[u].left
               PROVE  phase'[exec'[u].job][p].st # "done"
    BY DEF LeftNotDone
  <2> DEFINE j == exec[u].job
  <2>1. exec'[u].job = j /\ j \in Jobs /\ p \in Phases /\ u # NoToken
    BY <1>1, <1>2, NullTypes DEF TypeOK, Execution
  <2>2. CASE exec[u].pc = "run" /\ p \in exec[u].left
    <3>1. job[j].token = u
      BY <2>1 DEF Harmless, JobEffect
    <3>2. phase[j][p].st # "done"
      BY <2>2, <3>1 DEF OutputInv, LeftNotDone
    <3>3. ASSUME NEW v \in Tokens, exec[v].job = j, OwnedBusy(v, p) PROVE FALSE
      <4>1. Owns(v, p)
        BY <2>1, <3>3 DEF OutputInv, BusyOwns
      <4>2. v = u
        BY <2>1, <3>1, <3>3, <4>1 DEF Owns
      <4>3. p \in exec[u].left \cap exec[u].busy
        BY <2>2, <3>3, <4>2 DEF OwnedBusy
      <4> QED BY <1>1, <2>2, <4>3 DEF SchedulerKeepsPhases, KeepsPhases
    <3> QED BY <2>1, <3>2, <3>3 DEF Harmless, RowEffect
  <2>3. CASE ~(exec[u].pc = "run" /\ p \in exec[u].left)
    BY <2>1, <2>3 DEF Harmless, Still
  <2> QED BY <2>2, <2>3
<1>5. FinalizeKnows'
  <2> SUFFICES ASSUME NEW u \in Tokens, exec'[u].pc = "finalize"
               PROVE  job'[exec'[u].job].status \in {"cancelling", "cancelled"}
    BY DEF FinalizeKnows
  <2>1. exec'[u].job = exec[u].job /\ exec[u].job \in Jobs
    BY <1>2
  <2>2. CASE exec[u].pc = "finalize"
    BY <2>1, <2>2 DEF OutputInv, FinalizeKnows, Harmless, JobEffect, Open
  <2>3. CASE exec[u].pc # "finalize"
    BY <2>1, <2>3 DEF Harmless, Finals
  <2> QED BY <2>2, <2>3
<1> QED BY <1>3, <1>4, <1>5 DEF OutputInv

\* What the writes of the code do, in these terms.
LEMMA StillWrite ==
  ASSUME TypeOK, NEW t \in Tokens, NEW e, exec' = [exec EXCEPT ![t] = e],
         e.pc \notin {"run", "finalize"}
  PROVE  \A u \in Tokens : Still(u) /\ Finals(u)
BY DEF TypeOK, Still, Finals

LEMMA StillEnds ==
  ASSUME TypeOK, NEW t \in Tokens, Ends(t)
  PROVE  (\A u \in Tokens : Still(u) /\ Finals(u)) /\ exec'[t].pc = "over"
<1>1. exec' = [exec EXCEPT ![t] = Over(exec[t])]
  BY DEF Ends, TypeOK
<1>2. Over(exec[t]).pc = "over"
  BY Remains
<1> QED BY <1>1, <1>2, StillWrite DEF TypeOK

LEMMA Idle ==
  /\ UNCHANGED job => \A i \in Jobs : JobEffect(i)
  /\ UNCHANGED phase => \A i \in Jobs, q \in Phases : RowEffect(i, q)
  /\ UNCHANGED exec => \A u \in Tokens : Still(u) /\ Finals(u)
BY DEF JobEffect, RowEffect, Still, Finals

\* A row is left alone or, unless it has its output, cleared.
Cleared(old, new) ==
  \/ new = old
  \/ old.st # "done" /\ new.st # "done" /\ new.tok = NoToken

LEMMA RowsEffect ==
  ASSUME TypeOK, NEW j \in Jobs, NEW rows, phase' = [phase EXCEPT ![j] = rows],
         \A q \in Phases : Cleared(phase[j][q], rows[q])
  PROVE  \A i \in Jobs, q \in Phases : RowEffect(i, q)
<1> SUFFICES ASSUME NEW i \in Jobs, NEW q \in Phases PROVE RowEffect(i, q)
  OBVIOUS
<1>1. CASE i = j
  <2>1. phase'[i][q] = rows[q]
    BY <1>1 DEF TypeOK
  <2> QED BY <1>1, <2>1, NullTypes DEF RowEffect, Unowned, Cleared
<1>2. CASE i # j
  BY <1>2 DEF RowEffect, TypeOK
<1> QED BY <1>1, <1>2

\* A reset that spares the done rows.
LEMMA ResetRowsEffect ==
  ASSUME NEW rows, NEW names, NEW from, NEW owners, NEW to,
         "done" \notin from, to # "done", NEW q \in Phases
  PROVE  Cleared(rows[q], ResetRows(rows, names, from, owners, to)[q])
<1> DEFINE r == ResetRows(rows, names, from, owners, to)[q]
<1>1. CASE q \in names /\ rows[q].st \in from /\ rows[q].tok \in owners
  <2>1. r = [st |-> to, tok |-> NoToken]
    BY <1>1 DEF ResetRows
  <2> QED BY <1>1, <2>1 DEF Cleared
<1>2. CASE ~(q \in names /\ rows[q].st \in from /\ rows[q].tok \in owners)
  <2>1. r = rows[q]
    BY <1>2 DEF ResetRows
  <2> QED BY <2>1 DEF Cleared
<1> QED BY <1>1, <1>2

LEMMA AbandonEffect ==
  ASSUME TypeOK, NEW t \in Tokens, Started(t), NEW names, NEW to, to # "done",
         phase' = Abandon(t, names, to)
  PROVE  \A i \in Jobs, q \in Phases : RowEffect(i, q)
<1> DEFINE rows == ResetRows(phase[exec[t].job], names, Open, {t}, to)
<1>1. phase' = [phase EXCEPT ![exec[t].job] = rows]
  BY DEF Abandon, TypeOK
<1>2. \A q \in Phases : Cleared(phase[exec[t].job][q], rows[q])
  BY ResetRowsEffect DEF Open
<1> HIDE DEF rows
<1> QED BY <1>1, <1>2, RowsEffect DEF Started

\* The row of an open job is written under its lease, or that of a cancelling
\* one is cancelled.
LEMMA RowJobEffect ==
  ASSUME TypeOK, NEW j \in Jobs, NEW row, job' = [job EXCEPT ![j] = row],
         \/ job[j].status \in Open /\ row.token = job[j].token
         \/ job[j].status \in Open /\ row.token = NoToken /\ Disowned(j)
         \/ job[j].status = "cancelling" /\ row.status = "cancelled"
            /\ row.token \in {job[j].token, NoToken}
  PROVE  \A i \in Jobs : JobEffect(i)
BY DEF TypeOK, JobEffect

LEMMA StatusEffect ==
  ASSUME TypeOK, NEW j \in Jobs, NEW s, job[j].status \in Open,
         \/ job' = [job EXCEPT ![j].status = s]
         \/ job' = [job EXCEPT ![j].status = s, ![j].phase = TRUE]
  PROVE  \A i \in Jobs : JobEffect(i)
<1>1. job \in [Jobs -> JobRow]
  BY DEF TypeOK
<1> DEFINE a == [job[j] EXCEPT !.status = s]
           b == [job[j] EXCEPT !.status = s, !.phase = TRUE]
<1>2. a.token = job[j].token /\ b.token = job[j].token
  BY <1>1 DEF JobRow
<1>3. job' = [job EXCEPT ![j] = a] \/ job' = [job EXCEPT ![j] = b]
  BY <1>1
<1> HIDE DEF a, b
<1> QED BY <1>2, <1>3, RowJobEffect

LEMMA FinalizeEffect ==
  ASSUME TypeOK, NEW j \in Jobs, job[j].status = "cancelling",
         job' = [job EXCEPT ![j].status = "cancelled", ![j].token = NoToken,
                            ![j].owner = Nobody]
  PROVE  \A i \in Jobs : JobEffect(i)
<1>1. job \in [Jobs -> JobRow]
  BY DEF TypeOK
<1> DEFINE row == [job[j] EXCEPT !.status = "cancelled", !.token = NoToken, !.owner = Nobody]
<1>2. row.status = "cancelled" /\ row.token = NoToken
  BY <1>1 DEF JobRow
<1>3. job' = [job EXCEPT ![j] = row]
  BY <1>1
<1> HIDE DEF row
<1> QED BY <1>2, <1>3, RowJobEffect

LEMMA MissedWriteHarmless ==
  ASSUME TypeOK, NEW t \in Tokens, Started(t), NEW statuses, MissedWrite(t, statuses)
  PROVE  Harmless
<1>1. \A u \in Tokens : Still(u) /\ Finals(u)
  BY StillEnds DEF MissedWrite
<1>2. CASE Holds(t, {"cancelling"})
  <2>1. FinalizeCancelled(t)
    BY <1>2 DEF MissedWrite
  <2>2. \A i \in Jobs : JobEffect(i)
    BY <1>2, <2>1, FinalizeEffect DEF FinalizeCancelled, Holds, Started
  <2> DEFINE rows == ResetRows(phase[exec[t].job], Phases, Unfinished, AnyToken, "failed")
  <2>3. phase' = [phase EXCEPT ![exec[t].job] = rows]
    BY <2>1 DEF FinalizeCancelled
  <2>4. \A q \in Phases : Cleared(phase[exec[t].job][q], rows[q])
    BY ResetRowsEffect DEF Unfinished
  <2> HIDE DEF rows
  <2> QED BY <1>1, <2>2, <2>3, <2>4, RowsEffect DEF Harmless, Started
<1>3. CASE ~Holds(t, {"cancelling"})
  BY <1>1, <1>3, Idle DEF MissedWrite, Harmless
<1> QED BY <1>2, <1>3

\* The task returns, and the database is as it was.
LEMMA ReturnHarmless ==
  ASSUME TypeOK, NEW t \in Tokens, Ends(t), UNCHANGED <<job, phase>>
  PROVE  Harmless
BY StillEnds, Idle DEF Harmless

\* The pipeline.
LEMMA StartPhaseHarmless ==
  ASSUME OutputInv, NEW t \in Tokens, NEW p \in Phases, StartPhase(t, p)
  PROVE  Harmless
<1> DEFINE j    == exec[t].job
           rows == [phase[j] EXCEPT ![p] = [st |-> "running", tok |-> t]]
<1>1. exec[t].pc = "run" /\ p \in exec[t].left
  BY DEF StartPhase
<1>2. TypeOK /\ Started(t) /\ exec[t] \in Execution /\ t # NoToken
  BY <1>1, Begun, NullTypes DEF OutputInv, ClaimInv
<1>3. job[j].token = t => phase[j][p].st # "done"
  BY <1>1 DEF OutputInv, LeftNotDone
<1>4. /\ rows[p] = [st |-> "running", tok |-> t]
      /\ \A q \in Phases \ {p} : rows[q] = phase[j][q]
  BY <1>2 DEF TypeOK, Started
<1> HIDE DEF rows
<1>5. CASE Holds(t, Open)
  <2> DEFINE e == [exec[t] EXCEPT !.left = @ \ {p}, !.busy = @ \cup {p}]
  <2>1. /\ phase' = [phase EXCEPT ![j] = rows]
        /\ job' = [job EXCEPT ![j].status = "running", ![j].phase = TRUE]
        /\ exec' = [exec EXCEPT ![t] = e]
    BY <1>2, <1>5 DEF StartPhase, Holds, Open, Terminal, TypeOK, rows
  <2>2. \A i \in Jobs : JobEffect(i)
    <3>1. \E s \in {"running"} : job' = [job EXCEPT ![j].status = s, ![j].phase = TRUE]
      BY <2>1
    <3> QED BY <1>2, <1>5, <3>1, StatusEffect DEF Holds, Started
  <2>3. /\ e.pc = "run" /\ e.job = j /\ e.left \subseteq exec[t].left
        /\ e.busy = exec[t].busy \cup {p}
    BY <1>1, <1>2 DEF Execution
  <2> HIDE DEF e
  <2>4. job'[j].token = t /\ phase'[j][p] = [st |-> "running", tok |-> t]
    <3>1. job'[j].token = job[j].token
      BY <1>2, <2>1 DEF TypeOK, Started, JobRow
    <3> QED BY <1>2, <1>4, <1>5, <2>1, <3>1 DEF TypeOK, Started, Holds
  <2>5. ASSUME NEW u \in Tokens PROVE Still(u) /\ Finals(u)
    <3>1. CASE u = t
      BY <1>1, <1>2, <2>1, <2>3, <2>4, <3>1 DEF Still, Finals, TypeOK
    <3>2. CASE u # t
      BY <1>2, <2>1, <3>2 DEF Still, Finals, TypeOK
    <3> QED BY <3>1, <3>2
  <2>6. ASSUME NEW i \in Jobs, NEW q \in Phases PROVE RowEffect(i, q)
    <3>1. CASE i = j /\ q = p
      BY <1>3, <1>5, <2>4, <3>1 DEF RowEffect, Holds
    <3>2. CASE ~(i = j /\ q = p)
      <4>1. phase'[i][q] = phase[i][q]
        BY <1>2, <1>4, <2>1, <3>2 DEF TypeOK
      <4> QED BY <4>1 DEF RowEffect
    <3> QED BY <3>1, <3>2
  <2> QED BY <2>2, <2>5, <2>6 DEF Harmless
<1>6. CASE Holds(t, {"cancelling"})
  <2> DEFINE reset == ResetRows(rows, Phases, Unfinished, AnyToken, "failed")
  <2>1. /\ job' = [job EXCEPT ![j].status = "cancelled", ![j].token = NoToken,
                              ![j].owner = Nobody]
        /\ phase' = [phase EXCEPT ![j] = reset] /\ Ends(t)
    BY <1>6 DEF StartPhase, Holds, Open, Terminal, rows
  <2>2. \A q \in Phases : Cleared(phase[j][q], reset[q])
    <3>1. \A q \in Phases : Cleared(rows[q], reset[q])
      BY ResetRowsEffect DEF Unfinished
    <3>2. reset[p] = [st |-> "failed", tok |-> NoToken]
      BY <1>2, <1>4, NullTypes DEF ResetRows, Unfinished
    <3> HIDE DEF reset
    <3> QED BY <1>3, <1>4, <1>6, <3>1, <3>2 DEF Holds, Cleared
  <2> HIDE DEF reset
  <2>3. \A i \in Jobs, q \in Phases : RowEffect(i, q)
    BY <1>2, <2>1, <2>2, RowsEffect DEF Started
  <2>4. \A i \in Jobs : JobEffect(i)
    BY <1>2, <1>6, <2>1, FinalizeEffect DEF Started, Holds
  <2> QED BY <1>2, <2>1, <2>3, <2>4, StillEnds DEF Harmless
<1>7. CASE Holds(t, Terminal)
  <2>1. Ends(t) /\ phase' = [phase EXCEPT ![j] = rows] /\ job' = job
    BY <1>7 DEF StartPhase, Holds, Open, Terminal, rows
  <2>2. ASSUME NEW i \in Jobs, NEW q \in Phases PROVE RowEffect(i, q)
    <3>1. CASE i = j /\ q = p
      <4>1. phase'[j][p] = [st |-> "running", tok |-> t]
        BY <1>2, <1>4, <2>1 DEF TypeOK, Started
      <4>2. exec'[t].pc = "over"
        BY <1>2, <2>1, StillEnds
      <4>3. Unowned(j, p)
        BY <4>1, <4>2 DEF Unowned
      <4> QED BY <1>3, <1>7, <3>1, <4>1, <4>3 DEF RowEffect, Holds
    <3>2. CASE ~(i = j /\ q = p)
      <4>1. phase'[i][q] = phase[i][q]
        BY <1>2, <1>4, <2>1, <3>2 DEF TypeOK
      <4> QED BY <4>1 DEF RowEffect
    <3> QED BY <3>1, <3>2
  <2> QED BY <1>2, <2>1, <2>2, StillEnds, Idle DEF Harmless
<1>8. CASE job[j].token # t
  <2>1. Ends(t) /\ UNCHANGED <<job, phase>>
    BY <1>8 DEF StartPhase, Holds, leaseVars
  <2> QED BY <1>2, <2>1, ReturnHarmless
<1> QED BY <1>5, <1>6, <1>7, <1>8 DEF StartPhase

\* A phase leaves the scheduler's hands with its row written, as done or failed.
LEMMA PhaseEndsHarmless ==
  ASSUME TypeOK, NEW t \in Tokens, Started(t), NEW p \in Phases,
         exec[t].pc = "run", p \in exec[t].busy,
         NEW e, exec' = [exec EXCEPT ![t] = e], e.pc = "run", e.job = exec[t].job,
         e.left = exec[t].left, e.busy = exec[t].busy \ {p},
         UNCHANGED job,
         \/ UNCHANGED phase
         \/ /\ phase[exec[t].job][p].tok = t
            /\ \/ phase' = [phase EXCEPT ![exec[t].job][p].st = "done"]
               \/ /\ phase[exec[t].job][p].st # "done"
                  /\ phase' = [phase EXCEPT ![exec[t].job][p].st = "failed"]
  PROVE  Harmless
<1> DEFINE j == exec[t].job
<1>1. ASSUME NEW u \in Tokens PROVE Still(u) /\ Finals(u)
  BY DEF Still, Finals, TypeOK
<1>2. ASSUME NEW i \in Jobs, NEW q \in Phases, phase'[i][q] # phase[i][q]
      PROVE  RowEffect(i, q)
  <2>1. /\ i = j /\ q = p /\ phase[j][p].tok = t
        /\ phase[j][p] \in PhaseRow /\ phase'[j][p].tok = t
        /\ \/ phase'[j][p].st = "done"
           \/ phase[j][p].st # "done" /\ phase'[j][p].st = "failed"
    <3>1. phase \in [Jobs -> [Phases -> PhaseRow]] /\ phase[j][p] \in PhaseRow
      BY DEF TypeOK, Started
    <3>2. PICK st \in {"done", "failed"} : phase' = [phase EXCEPT ![j][p].st = st]
            /\ (st = "failed" => phase[j][p].st # "done") /\ phase[j][p].tok = t
      BY <1>2
    <3>3. i = j /\ q = p /\ phase'[j][p] = [phase[j][p] EXCEPT !.st = st]
      BY <1>2, <3>1, <3>2
    <3>4. phase'[j][p].st = st /\ phase'[j][p].tok = phase[j][p].tok
      BY <3>1, <3>3 DEF PhaseRow
    <3> QED BY <3>1, <3>2, <3>3, <3>4
  <2>2. phase[j][p].st # "done"
    <3>1. CASE phase'[j][p].st = "done"
      BY <1>2, <2>1, <3>1 DEF TypeOK, PhaseRow
    <3> QED BY <2>1, <3>1
  <2>3. OwnedBusy(t, p)
    BY <2>1 DEF OwnedBusy
  <2>4. exec'[t] = e
    BY DEF TypeOK
  <2>5. Unowned(j, p)
    BY <2>1, <2>4 DEF Unowned
  <2> QED BY <2>1, <2>2, <2>3, <2>5 DEF RowEffect
<1>3. \A i \in Jobs, q \in Phases : RowEffect(i, q)
  BY <1>2 DEF RowEffect
<1> QED BY <1>1, <1>3, Idle DEF Harmless

\* An execution's own row is written under its lease, and no phase row.
LEMMA OpenWriteHarmless ==
  ASSUME TypeOK, NEW t \in Tokens, Started(t), Holds(t, Open), UNCHANGED phase,
         NEW s, job' = [job EXCEPT ![exec[t].job].status = s],
         \A u \in Tokens : Still(u) /\ Finals(u)
  PROVE  Harmless
BY StatusEffect, Idle DEF Harmless, Holds, Started

LEMMA PipelineHarmless ==
  ASSUME OutputInv, NEW t \in Tokens, PipelineStep(t)
  PROVE  Harmless
<1> DEFINE j == exec[t].job
<1>1. exec[t].pc # "unborn"
  BY DEF PipelineStep, StartRun, ResumeDonePhases, CompleteJob, Crash, JobTimeout,
         EndPublish, StartPhase, FinishPhase, FailJob, PhaseError, Unwind, InPipeline
<1>2. TypeOK /\ Started(t) /\ exec[t] \in Execution /\ KeepsPhases(exec[t])
  BY <1>1, Begun DEF OutputInv, ClaimInv
<1>3. CASE MissedWrite(t, Open)
  BY <1>2, <1>3, MissedWriteHarmless
<1>4. CASE (StartRun(t) \/ CompleteJob(t)) /\ ~MissedWrite(t, Open)
  <2>1. PICK pc \in {"resume", "publish"}, s \in {"running", "done"} :
          /\ Holds(t, Open) /\ exec' = [exec EXCEPT ![t].pc = pc] /\ UNCHANGED phase
          /\ job' = [job EXCEPT ![j].status = s]
    BY <1>4 DEF StartRun, CompleteJob
  <2> DEFINE e == [exec[t] EXCEPT !.pc = pc]
  <2>2. exec' = [exec EXCEPT ![t] = e] /\ e.pc = pc
    BY <1>2, <2>1 DEF TypeOK, Execution
  <2> HIDE DEF e
  <2>3. \A u \in Tokens : Still(u) /\ Finals(u)
    BY <1>2, <2>2, StillWrite
  <2> QED BY <1>2, <2>1, <2>3, OpenWriteHarmless
<1>5. CASE Crash(t) /\ ~MissedWrite(t, Open)
  <2>1. PICK s \in {"failed"} : Holds(t, Open) /\ Ends(t) /\ UNCHANGED phase
                                /\ job' = [job EXCEPT ![j].status = s]
    BY <1>5 DEF Crash
  <2> QED BY <1>2, <2>1, StillEnds, OpenWriteHarmless
<1>6. CASE ResumeDonePhases(t)
  <2> DEFINE done == {p \in Phases : phase[j][p].st = "done"}
             e    == [exec[t] EXCEPT !.pc = "run", !.seen = done, !.left = Phases \ done]
  <2>1. exec[t].pc = "resume" /\ UNCHANGED <<job, phase>> /\ exec' = [exec EXCEPT ![t] = e]
    BY <1>2, <1>6 DEF ResumeDonePhases, leaseVars, TypeOK
  <2>2. e.pc = "run" /\ e.job = j /\ e.left = Phases \ done /\ e.busy = exec[t].busy
    BY <1>2 DEF Execution
  <2>3. exec[t].busy = {}
    BY <1>2, <2>1 DEF KeepsPhases
  <2> HIDE DEF e
  <2>4. Still(t) /\ Finals(t)
    BY <1>2, <2>1, <2>2, <2>3 DEF TypeOK, Still, Finals
  <2>5. ASSUME NEW u \in Tokens \ {t} PROVE Still(u) /\ Finals(u)
    BY <1>2, <2>1 DEF TypeOK, Still, Finals
  <2> QED BY <2>1, <2>4, <2>5, Idle DEF Harmless
<1>7. CASE EndPublish(t)
  BY <1>2, <1>7, ReturnHarmless DEF EndPublish, leaseVars
<1>8. CASE JobTimeout(t)
  <2> DEFINE e == Unwound(exec[t], "report", "timeout")
  <2>1. exec' = [exec EXCEPT ![t] = e] /\ UNCHANGED job
    BY <1>2, <1>8 DEF JobTimeout, TypeOK
  <2>2. e.pc = "report"
    BY Remains
  <2> HIDE DEF e
  <2>3. \A i \in Jobs, q \in Phases : RowEffect(i, q)
    BY <1>2, <1>8, AbandonEffect DEF JobTimeout
  <2> QED BY <1>2, <2>1, <2>2, <2>3, StillWrite, Idle DEF Harmless
<1>9. ASSUME NEW p \in Phases, StartPhase(t, p) PROVE Harmless
  BY <1>9, StartPhaseHarmless
<1>10. ASSUME NEW p \in Phases, FinishPhase(t, p) PROVE Harmless
  <2>1. CASE Ends(t) /\ UNCHANGED leaseVars
    BY <1>2, <2>1, ReturnHarmless DEF leaseVars
  <2>2. CASE ~(Ends(t) /\ UNCHANGED leaseVars)
    <3> DEFINE e == [exec[t] EXCEPT !.busy = @ \ {p}, !.seen = @ \cup {p}]
    <3>1. /\ exec[t].pc = "run" /\ p \in exec[t].busy /\ phase[j][p].tok = t
          /\ phase' = [phase EXCEPT ![j][p].st = "done"] /\ UNCHANGED job
          /\ exec' = [exec EXCEPT ![t] = e]
      BY <1>2, <1>10, <2>2 DEF FinishPhase, TypeOK
    <3>2. e.pc = "run" /\ e.job = j /\ e.left = exec[t].left /\ e.busy = exec[t].busy \ {p}
      BY <1>2, <3>1 DEF Execution
    <3> HIDE DEF e
    <3> QED BY <1>2, <3>1, <3>2, PhaseEndsHarmless
  <2> QED BY <2>1, <2>2
<1>11. ASSUME NEW p \in Phases, NEW kind \in PhaseErrors, NEW marked \in BOOLEAN,
              PhaseError(t, p, kind, marked)
       PROVE  Harmless
  <2>1. CASE Ends(t) /\ UNCHANGED leaseVars
    BY <1>2, <2>1, ReturnHarmless DEF leaseVars
  <2>2. CASE ~(Ends(t) /\ UNCHANGED leaseVars)
    <3> DEFINE e == [exec[t] EXCEPT !.busy = @ \ {p}, !.errs = @ \cup {<<p, kind>>}]
    <3>1. /\ exec[t].pc = "run" /\ p \in exec[t].busy /\ UNCHANGED job
          /\ exec' = [exec EXCEPT ![t] = e]
          /\ \/ UNCHANGED phase
             \/ /\ phase[j][p].tok = t /\ phase[j][p].st # "done"
                /\ phase' = [phase EXCEPT ![j][p].st = "failed"]
      BY <1>2, <1>11, <2>2 DEF PhaseError, TypeOK
    <3>2. e.pc = "run" /\ e.job = j /\ e.left = exec[t].left /\ e.busy = exec[t].busy \ {p}
      BY <1>2, <3>1 DEF Execution
    <3> HIDE DEF e
    <3> QED BY <1>2, <3>1, <3>2, PhaseEndsHarmless
  <2> QED BY <2>1, <2>2
<1>12. ASSUME NEW p \in Phases, FailJob(t, p), ~MissedWrite(t, Open) PROVE Harmless
  <2> DEFINE e == [exec[t] EXCEPT !.errs = (@ \ {<<p, "hard">>}) \cup {<<p, "failed">>}]
  <2>1. PICK s \in {"failed"} : /\ Holds(t, Open) /\ UNCHANGED phase
                                /\ job' = [job EXCEPT ![j].status = s]
                                /\ exec' = [exec EXCEPT ![t] = e] /\ exec[t].pc = "run"
    BY <1>2, <1>12 DEF FailJob, TypeOK
  <2>2. e.pc = "run" /\ e.job = j /\ e.left = exec[t].left /\ e.busy = exec[t].busy
    BY <1>2, <2>1 DEF Execution
  <2> HIDE DEF e
  <2>3. \A u \in Tokens : Still(u) /\ Finals(u)
    BY <1>2, <2>1, <2>2 DEF TypeOK, Still, Finals
  <2> QED BY <1>2, <2>1, <2>3, OpenWriteHarmless
<1>13. ASSUME NEW p \in Phases, NEW kind \in Errors, Unwind(t, p, kind) PROVE Harmless
  <2>1. (IF kind = "failed" THEN "failed" ELSE "pending") # "done" /\ UNCHANGED job
    BY <1>13 DEF Unwind
  <2>2. \A i \in Jobs, q \in Phases : RowEffect(i, q)
    BY <1>2, <1>13, <2>1, AbandonEffect DEF Unwind
  <2>3. CASE Ends(t)
    BY <1>2, <2>1, <2>2, <2>3, StillEnds, Idle DEF Harmless
  <2>4. CASE ~Ends(t)
    <3> DEFINE e == Unwound(exec[t], "report", kind)
    <3>1. exec' = [exec EXCEPT ![t] = e]
      BY <1>2, <1>13, <2>4 DEF Unwind, TypeOK
    <3>2. e.pc = "report"
      BY Remains
    <3> HIDE DEF e
    <3> QED BY <1>2, <2>1, <2>2, <3>1, <3>2, StillWrite, Idle DEF Harmless
  <2> QED BY <2>3, <2>4
<1> QED
  BY <1>3, <1>4, <1>5, <1>6, <1>7, <1>8, <1>9, <1>10, <1>11, <1>12, <1>13 DEF PipelineStep

\* A requeue by the owner, whose scheduler is gone: no other execution runs
\* a phase of the job under its own lease.
LEMMA OwnerDisowns ==
  ASSUME OutputInv, NEW t \in Tokens, job[exec[t].job].token = t, exec[t].pc # "run"
  PROVE  Disowned(exec[t].job)
<1> SUFFICES ASSUME NEW u \in Tokens, NEW p \in Phases,
                    exec[u].job = exec[t].job, OwnedBusy(u, p)
             PROVE  FALSE
  BY DEF Disowned
<1>1. Owns(u, p)
  BY DEF OutputInv, BusyOwns
<1>2. u = t
  BY <1>1, NullTypes DEF Owns
<1> QED BY <1>2 DEF OwnedBusy

LEMMA CancelledStill ==
  ASSUME NEW e \in Execution
  PROVE  /\ Cancelled(e).pc # "run" /\ Cancelled(e).job = e.job
         /\ Cancelled(e).pc = "finalize" => e.pc = "finalize"
BY DEF Cancelled, Execution, Pc, InPipeline

LEMMA HeartbeatHarmless ==
  ASSUME TypeOK, NEW t \in Tokens, Heartbeat(t)
  PROVE  Harmless
<1> DEFINE silent == [exec EXCEPT ![t].beating = FALSE]
<1>1. UNCHANGED <<job, phase>>
  BY DEF Heartbeat, leaseVars
<1>2. ASSUME NEW u \in Tokens
      PROVE  /\ silent[u] \in Execution /\ silent[u].pc = exec[u].pc
             /\ silent[u].job = exec[u].job
             /\ silent[u].left = exec[u].left /\ silent[u].busy = exec[u].busy
  <2>1. CASE u # t
    BY <2>1 DEF TypeOK
  <2>2. CASE u = t
    <3>1. silent[t] = [exec[t] EXCEPT !.beating = FALSE] /\ exec[t] \in Execution
      BY DEF TypeOK
    <3> HIDE DEF silent
    <3> QED BY <2>2, <3>1 DEF Execution
  <2> QED BY <2>1, <2>2
<1>3. silent \in [Tokens -> Execution]
  BY <1>2 DEF TypeOK
<1> HIDE DEF silent
<1>4. ASSUME NEW u \in Tokens PROVE exec'[u] \in {silent[u], Cancelled(silent[u])}
  BY <1>3, CancelRunningDescribed DEF Heartbeat, silent
<1>5. ASSUME NEW u \in Tokens PROVE Still(u) /\ Finals(u)
  <2>1. CASE exec'[u] = silent[u]
    BY <1>2, <2>1 DEF Still, Finals
  <2>2. CASE exec'[u] = Cancelled(silent[u])
    <3>1. /\ exec'[u].pc # "run" /\ exec'[u].job = exec[u].job
          /\ exec'[u].pc = "finalize" => exec[u].pc = "finalize"
      BY <1>2, <2>2, CancelledStill
    <3> QED BY <3>1 DEF Still, Finals
  <2> QED BY <1>4, <2>1, <2>2
<1> QED BY <1>1, <1>5, Idle DEF Harmless

LEMMA WorkerHarmless ==
  ASSUME OutputInv, NEW t \in Tokens, WorkerStep(t) \/ MarkCancelled(t)
  PROVE  Harmless
<1> DEFINE j == exec[t].job
<1>1. exec[t].pc # "unborn" \/ exec[t].beating
  BY DEF WorkerStep, MarkFailedWithRetry, RequeueRefunded, DatabaseOutage, Heartbeat,
         StopScheduler, ReadCancelling, Die, MarkCancelled, InPipeline
<1>2. TypeOK /\ Started(t) /\ exec[t] \in Execution
  BY <1>1, Begun DEF OutputInv, ClaimInv
<1>3. CASE MissedWrite(t, {"running"})
  BY <1>2, <1>3, MissedWriteHarmless
<1>4. /\ job[j] \in JobRow /\ Requeued(job[j]) \in JobRow /\ Requeued(job[j]).token = NoToken
  <2>1. job[j] \in JobRow
    BY <1>2 DEF TypeOK, Started
  <2> QED BY <2>1, JobRowTypes DEF Requeued, JobRow
<1>5. ASSUME Holds(t, {"running"}), exec[t].pc = "report", Ends(t),
             NEW row, job' = [job EXCEPT ![j] = row], row.token \in {job[j].token, NoToken},
             NEW rows, phase' = [phase EXCEPT ![j] = rows],
             \A q \in Phases : Cleared(phase[j][q], rows[q])
      PROVE  Harmless
  <2>1. Disowned(j)
    BY <1>5, OwnerDisowns DEF Holds
  <2>2. \A i \in Jobs : JobEffect(i)
    BY <1>2, <1>5, <2>1, RowJobEffect DEF Holds, Open, Started
  <2>3. \A i \in Jobs, q \in Phases : RowEffect(i, q)
    BY <1>2, <1>5, RowsEffect DEF Started
  <2> QED BY <1>2, <1>5, <2>2, <2>3, StillEnds DEF Harmless
<1>6. CASE MarkFailedWithRetry(t) /\ ~MissedWrite(t, {"running"})
  <2> DEFINE last == job[j].attempts >= MaxAttempts
             row  == IF last
                     THEN [job[j] EXCEPT !.status = "failed", !.owner = Nobody]
                     ELSE [Requeued(job[j]) EXCEPT !.reclaims = 0]
             rows == IF last
                     THEN ResetRows(phase[j], Phases, Open, AnyToken, "failed")
                     ELSE ResetRows(phase[j], Phases, Open, {t}, "pending")
  <2>1. /\ Holds(t, {"running"}) /\ exec[t].pc = "report" /\ Ends(t)
        /\ job' = [job EXCEPT ![j] = row] /\ phase' = [phase EXCEPT ![j] = rows]
    BY <1>2, <1>6 DEF MarkFailedWithRetry, TypeOK
  <2>2. row.token \in {job[j].token, NoToken}
    BY <1>4 DEF JobRow
  <2>3. \A q \in Phases : Cleared(phase[j][q], rows[q])
    <3>1. \A q \in Phases :
            /\ Cleared(phase[j][q], ResetRows(phase[j], Phases, Open, AnyToken, "failed")[q])
            /\ Cleared(phase[j][q], ResetRows(phase[j], Phases, Open, {t}, "pending")[q])
      BY ResetRowsEffect DEF Open
    <3> QED BY <3>1
  <2> HIDE DEF row, rows
  <2> QED BY <1>5, <2>1, <2>2, <2>3
<1>7. CASE RequeueRefunded(t) /\ ~MissedWrite(t, {"running"})
  <2> DEFINE row  == Refunded(job[j])
             rows == ResetRows(phase[j], Phases, Open, {t}, "pending")
  <2>1. /\ Holds(t, {"running"}) /\ exec[t].pc = "report" /\ Ends(t)
        /\ job' = [job EXCEPT ![j] = row] /\ phase' = [phase EXCEPT ![j] = rows]
    BY <1>2, <1>7 DEF RequeueRefunded, TypeOK
  <2>2. row.token \in {job[j].token, NoToken}
    BY <1>4 DEF JobRow, Refunded
  <2>3. \A q \in Phases : Cleared(phase[j][q], rows[q])
    BY ResetRowsEffect DEF Open
  <2> HIDE DEF row, rows
  <2> QED BY <1>5, <2>1, <2>2, <2>3
<1>8. CASE StopScheduler(t)
  <2> DEFINE e == Unwound(exec[t], "interrupted", "none")
  <2>1. exec' = [exec EXCEPT ![t] = e] /\ UNCHANGED job
    BY <1>2, <1>8 DEF StopScheduler, TypeOK
  <2>2. e.pc = "interrupted"
    BY Remains
  <2> HIDE DEF e
  <2>3. \A i \in Jobs, q \in Phases : RowEffect(i, q)
    BY <1>2, <1>8, AbandonEffect DEF StopScheduler
  <2> QED BY <1>2, <2>1, <2>2, <2>3, StillWrite, Idle DEF Harmless
<1>9. CASE ReadCancelling(t)
  <2>1. CASE Ends(t)
    BY <1>2, <1>9, <2>1, ReturnHarmless DEF ReadCancelling, leaseVars
  <2>2. CASE ~Ends(t)
    <3>1. /\ job[j].status = "cancelling" /\ UNCHANGED <<job, phase>>
          /\ exec' = [exec EXCEPT ![t].pc = "finalize"]
      BY <1>9, <2>2 DEF ReadCancelling, leaseVars
    <3>2. \A u \in Tokens : Still(u) /\ Finals(u)
      BY <1>2, <3>1 DEF TypeOK, Execution, Still, Finals
    <3> QED BY <3>1, <3>2, Idle DEF Harmless
  <2> QED BY <2>1, <2>2
<1>10. CASE MarkCancelled(t)
  <2> DEFINE row  == [job[j] EXCEPT !.status = "cancelled"]
             rows == [p \in Phases |-> IF phase[j][p].st \in Unfinished
                                       THEN [phase[j][p] EXCEPT !.st = "failed"]
                                       ELSE phase[j][p]]
  <2>1. /\ exec[t].pc = "finalize" /\ Ends(t)
        /\ job' = [job EXCEPT ![j] = row] /\ phase' = [phase EXCEPT ![j] = rows]
    BY <1>2, <1>10 DEF MarkCancelled, TypeOK, Started
  <2>2. job[j].status \in {"cancelling", "cancelled"}
    BY <2>1 DEF OutputInv, FinalizeKnows
  <2>3. row.status = "cancelled" /\ row.token = job[j].token
    BY <1>4 DEF JobRow
  <2>4. ASSUME NEW q \in Phases
        PROVE  \/ rows[q] = phase[j][q]
               \/ /\ phase[j][q].st # "done" /\ rows[q].st # "done"
                  /\ rows[q].tok = phase[j][q].tok
    <3>1. phase[j][q] \in PhaseRow
      BY <1>2 DEF TypeOK, Started
    <3>2. CASE phase[j][q].st \in Unfinished
      <4>1. rows[q] = [phase[j][q] EXCEPT !.st = "failed"]
        BY <3>2
      <4>2. rows[q].st = "failed" /\ rows[q].tok = phase[j][q].tok
        BY <3>1, <4>1 DEF PhaseRow
      <4> QED BY <3>2, <4>2 DEF Unfinished
    <3> QED BY <3>2
  <2> HIDE DEF row, rows
  <2>5. job'[j] = row
    BY <1>2, <2>1 DEF TypeOK, Started
  <2>6. ASSUME NEW i \in Jobs PROVE JobEffect(i)
    BY <1>2, <2>1, <2>2, <2>3, <2>5 DEF JobEffect, TypeOK
  <2>7. ASSUME NEW i \in Jobs, NEW q \in Phases PROVE RowEffect(i, q)
    <3>1. CASE i = j
      <4>1. phase'[i][q] = rows[q]
        BY <1>2, <2>1, <3>1 DEF TypeOK
      <4> QED BY <2>3, <2>4, <2>5, <3>1, <4>1 DEF RowEffect
    <3>2. CASE i # j
      BY <1>2, <2>1, <3>2 DEF TypeOK, RowEffect
    <3> QED BY <3>1, <3>2
  <2> QED BY <1>2, <2>1, <2>6, <2>7, StillEnds DEF Harmless
<1>11. CASE DatabaseOutage(t) \/ Die(t)
  BY <1>2, <1>11, ReturnHarmless DEF DatabaseOutage, Die, leaseVars
<1>12. CASE Heartbeat(t)
  BY <1>2, <1>12, HeartbeatHarmless
<1> QED BY <1>3, <1>6, <1>7, <1>8, <1>9, <1>10, <1>11, <1>12 DEF WorkerStep

\* The sweep clears every running row of a job it requeues, whoever runs it.
LEMMA SweepHarmless ==
  ASSUME OutputInv, NEW w \in Workers,
         NEW stale \in SUBSET RunningJobs, NEW forced \in SUBSET RunningJobs,
         NEW quit \in SUBSET CancellingJobs, Sweep(w, stale, forced, quit)
  PROVE  Harmless
<1> DEFINE stuck == stale \cup forced
           swept(j) == IF j \in stuck THEN Reclaimed(j)
                       ELSE IF j \in quit
                       THEN [job[j] EXCEPT !.status = "cancelled",
                                           !.token = NoToken, !.owner = Nobody]
                       ELSE job[j]
           cleared(j)  == ResetRows(phase[j], Phases, {"running"}, AnyToken, "pending")
           requeued(j) == IF j \in stuck THEN cleared(j) ELSE phase[j]
           failed(j)   == ResetRows(requeued(j), Phases, Open, AnyToken, "failed")
<1>1. TypeOK /\ PendingIsClaimable
  BY DEF OutputInv, ClaimInv, DoneInv
<1>2. ASSUME NEW j \in Jobs
      PROVE  /\ job'[j] = FailExhausted(swept(j))
             /\ phase'[j] = IF Exhausted(swept(j)) THEN failed(j) ELSE requeued(j)
  BY DEF Sweep
<1>3. \A u \in Tokens : Still(u) /\ Finals(u)
  BY Idle DEF Sweep, execVars
<1>4. ASSUME NEW j \in Jobs
      PROVE  /\ job[j] \in JobRow /\ Reclaimed(j) \in JobRow
             /\ Reclaimed(j).token = NoToken
  <2>1. job[j] \in JobRow
    BY <1>1 DEF TypeOK
  <2>2. Requeued(job[j]) \in JobRow /\ Requeued(job[j]).token = NoToken
    BY <2>1, JobRowTypes DEF Requeued, JobRow
  <2> QED BY <1>1, <2>1, <2>2, ReclaimedType DEF Reclaimed, JobRow
<1>5. ASSUME NEW j \in Jobs, NEW q \in Phases
      PROVE  /\ Cleared(phase[j][q], cleared(j)[q])
             /\ Cleared(requeued(j)[q], failed(j)[q])
             /\ phase[j][q].st = "running" => cleared(j)[q].tok = NoToken
  <2>1. Cleared(phase[j][q], cleared(j)[q]) /\ Cleared(requeued(j)[q], failed(j)[q])
    BY ResetRowsEffect DEF Open
  <2>2. phase[j][q].tok \in AnyToken
    BY <1>1 DEF TypeOK, PhaseRow
  <2> QED BY <2>1, <2>2 DEF ResetRows
<1> HIDE DEF cleared, failed
<1>6. ASSUME NEW j \in Jobs, NEW q \in Phases
      PROVE  /\ Cleared(phase[j][q], phase'[j][q])
             /\ j \in stuck /\ phase[j][q].st = "running" => phase'[j][q].tok = NoToken
  <2>1. phase'[j][q] \in {requeued(j)[q], failed(j)[q]}
    BY <1>2
  <2> HIDE DEF swept
  <2>2. Cleared(phase[j][q], requeued(j)[q])
    BY <1>5 DEF Cleared
  <2>3. Cleared(requeued(j)[q], phase'[j][q])
    BY <1>5, <2>1 DEF Cleared
  <2> QED BY <1>5, <2>2, <2>3 DEF Cleared
<1>7. ASSUME NEW j \in Jobs, NEW q \in Phases PROVE RowEffect(j, q)
  BY <1>6, NullTypes DEF RowEffect, Unowned, Cleared
<1>8. ASSUME NEW j \in Jobs PROVE JobEffect(j)
  <2>1. CASE j \in stuck
    <3>1. job[j].status = "running"
      BY <2>1 DEF RunningJobs
    <3>2. job'[j].token = NoToken
      BY <1>2, <1>4, <2>1 DEF FailExhausted, JobRow
    <3>3. ASSUME NEW u \in Tokens, NEW q \in Phases,
                 exec[u].job = j, OwnedBusy(u, q), phase'[j][q].tok = u
          PROVE  FALSE
      <4>1. phase[j][q].st = "running"
        BY <3>1, <3>3 DEF OutputInv, BusyOwns, Owns
      <4> QED BY <1>6, <2>1, <3>3, <4>1, NullTypes
    <3> QED BY <3>1, <3>2, <3>3 DEF JobEffect, Disowned, Open
  <2>2. CASE j \notin stuck /\ j \in quit
    <3>1. job[j].status = "cancelling"
      BY <2>2 DEF CancellingJobs
    <3>2. job'[j].status = "cancelled" /\ job'[j].token = NoToken
      BY <1>2, <1>4, <2>2 DEF FailExhausted, Exhausted, JobRow
    <3> QED BY <3>1, <3>2 DEF JobEffect
  <2>3. CASE j \notin stuck /\ j \notin quit
    <3>1. job'[j] = FailExhausted(job[j])
      BY <1>2, <2>3
    <3> QED BY <1>1, <1>4, <3>1
            DEF FailExhausted, Exhausted, PendingIsClaimable, JobEffect, Open, JobRow
  <2> QED BY <2>1, <2>2, <2>3
<1> QED BY <1>3, <1>7, <1>8 DEF Harmless

\* A user's cancel: a pending job is cancelled at once, a running one keeps its
\* token until its execution has stopped.
LEMMA CancelHarmless ==
  ASSUME TypeOK, NEW j \in Jobs,
         CancelIfPending(j) \/ \E host \in Workers \cup {Nobody} : RequestCancel(j, host)
  PROVE  Harmless
<1>1. \E s \in {"cancelled", "cancelling"} : job' = [job EXCEPT ![j].status = s]
  BY DEF CancelIfPending, RequestCancel
<1>2. job[j].status \in Open /\ UNCHANGED phase
  BY DEF CancelIfPending, RequestCancel, Open
<1>3. \A i \in Jobs : JobEffect(i)
  BY <1>1, <1>2, StatusEffect
<1>4. ASSUME NEW u \in Tokens PROVE Still(u) /\ Finals(u)
  <2>1. exec \in [Tokens -> Execution] /\ exec[u] \in Execution
    BY DEF TypeOK
  <2>2. exec'[u] \in {exec[u], Cancelled(exec[u])}
    <3>1. CASE CancelIfPending(j)
      BY <3>1 DEF CancelIfPending, execVars
    <3>2. CASE \E host \in Workers \cup {Nobody} : RequestCancel(j, host)
      BY <2>1, <3>2, CancelRunningDescribed DEF RequestCancel
    <3> QED BY <3>1, <3>2
  <2>3. CASE exec'[u] = exec[u]
    BY <2>3 DEF Still, Finals
  <2>4. CASE exec'[u] = Cancelled(exec[u])
    BY <2>1, <2>4, CancelledStill DEF Still, Finals
  <2> QED BY <2>2, <2>3, <2>4
<1> QED BY <1>2, <1>3, <1>4, Idle DEF Harmless

\* A new lease: a pending job has no token, so no execution owns a row of it.
LEMMA ClaimHarmless ==
  ASSUME OutputInv, NEW w \in Workers, NEW i \in Jobs, ClaimNextJob(w, i), ClaimInv'
  PROVE  OutputInv' /\ Lasting
<1> DEFINE t == minted + 1
           e == [Unborn EXCEPT !.job = i, !.worker = w, !.pc = "claimed", !.beating = TRUE]
<1>1. TypeOK /\ PendingIsClaimable
  BY DEF OutputInv, ClaimInv, DoneInv
<1>2. /\ job[i].status = "pending" /\ UNCHANGED phase
      /\ job' = [job EXCEPT ![i].status = "running", ![i].token = t,
                            ![i].owner = w, ![i].attempts = @ + 1]
      /\ exec' = [exec EXCEPT ![t] = e]
  BY DEF ClaimNextJob
<1>3. job[i].token = NoToken
  BY <1>1, <1>2 DEF PendingIsClaimable
<1>4. e.pc = "claimed"
  BY DEF Unborn
<1>5. \A u \in Tokens : exec'[u].pc \in {"run", "finalize"} => u # t /\ exec'[u] = exec[u]
  <2> HIDE DEF e, t
  <2> QED BY <1>1, <1>2, <1>4 DEF TypeOK
<1>6. /\ \A j \in Jobs \ {i} : job'[j] = job[j]
      /\ job'[i].token = t /\ job'[i].status = "running"
  BY <1>1, <1>2 DEF TypeOK, JobRow
<1> HIDE DEF t, e
<1>7. \A u \in Tokens : exec[u].pc \in {"run", "finalize"} => exec[u].job \in Jobs
  BY DEF OutputInv, ClaimInv, DoneInv, LeaseNamesExecution, Unborn
<1>8. BusyOwns'
  <2> SUFFICES ASSUME NEW u \in Tokens, NEW p \in Phases, OwnedBusy(u, p)'
               PROVE  Owns(u, p)'
    BY DEF BusyOwns
  <2>1. exec'[u] = exec[u] /\ OwnedBusy(u, p)
    BY <1>2, <1>5 DEF OwnedBusy
  <2>2. Owns(u, p) /\ exec[u].job \in Jobs
    BY <1>7, <2>1 DEF OutputInv, BusyOwns, OwnedBusy
  <2>3. exec[u].job # i
    BY <1>2, <1>3, <2>2, NullTypes DEF Owns
  <2> QED BY <1>2, <1>6, <2>1, <2>2, <2>3 DEF Owns
<1>9. LeftNotDone'
  <2> SUFFICES ASSUME NEW u \in Tokens, exec'[u].pc = "run",
                      job'[exec'[u].job].token = u, NEW p \in exec'[u].left
               PROVE  phase'[exec'[u].job][p].st # "done"
    BY DEF LeftNotDone
  <2>1. u # t /\ exec'[u] = exec[u] /\ exec[u].job \in Jobs
    BY <1>5, <1>7
  <2>2. job'[exec[u].job] = job[exec[u].job]
    BY <1>6, <2>1
  <2> QED BY <1>2, <2>1, <2>2 DEF OutputInv, LeftNotDone
<1>10. FinalizeKnows'
  <2> SUFFICES ASSUME NEW u \in Tokens, exec'[u].pc = "finalize"
               PROVE  job'[exec'[u].job].status \in {"cancelling", "cancelled"}
    BY DEF FinalizeKnows
  <2>1. exec'[u] = exec[u] /\ exec[u].job \in Jobs
    BY <1>5, <1>7
  <2>2. job[exec[u].job].status \in {"cancelling", "cancelled"}
    BY <2>1 DEF OutputInv, FinalizeKnows
  <2> QED BY <1>2, <1>6, <2>1, <2>2
<1>11. Lasting
  BY <1>2, <1>6 DEF Lasting, Terminal
<1> QED BY <1>8, <1>9, <1>10, <1>11 DEF OutputInv

\* No request to the retry endpoint is ever made.
NoRetries == Operators = {}

LEMMA StepOutput ==
  ASSUME NoRetries, OutputInv, [Next]_vars
  PROVE  OutputInv' /\ Lasting
<1>1. TypeOK /\ ClaimInv' /\ retries = {}
  <2>1. ClaimInv /\ TypeOK
    BY DEF OutputInv, ClaimInv, DoneInv
  <2>2. LoneOperator
    BY DEF NoRetries, LoneOperator
  <2> QED BY <2>1, <2>2, StepClaim DEF TypeOK, NoRetries
<1>2. Harmless => OutputInv' /\ Lasting
  BY <1>1, HarmlessStep, HarmlessLasts
<1>3. CASE UNCHANGED <<job, phase, exec>>
  BY <1>2, <1>3, Idle DEF Harmless
<1>4. ASSUME NEW t \in Tokens, ExecStep(t) PROVE Harmless
  BY <1>4, PipelineHarmless, WorkerHarmless DEF ExecStep
<1>5. ASSUME NEW w \in Workers, FleetStep(w) PROVE OutputInv' /\ Lasting
  <2>1. ASSUME NEW j \in Jobs, ClaimNextJob(w, j) PROVE OutputInv' /\ Lasting
    BY <1>1, <2>1, ClaimHarmless
  <2>2. CASE SomeSweep(w)
    <3>1. PICK stale \in SUBSET StaleJobs, quit \in SUBSET CancellingJobs :
            \E forced \in SUBSET (RunningJobs \ stale) : Sweep(w, stale, forced, quit)
      BY <2>2 DEF SomeSweep
    <3>2. PICK forced \in SUBSET (RunningJobs \ stale) : Sweep(w, stale, forced, quit)
      BY <3>1
    <3>3. stale \in SUBSET RunningJobs /\ forced \in SUBSET RunningJobs
      BY <3>1, <3>2 DEF StaleJobs
    <3> QED BY <1>2, <3>2, <3>3, SweepHarmless
  <2>3. CASE WorkerCrash(w)
    <3>1. UNCHANGED <<job, phase>>
      BY <2>3 DEF WorkerCrash, leaseVars
    <3>2. ASSUME NEW u \in Tokens PROVE Still(u) /\ Finals(u)
      <4>1. exec'[u] = exec[u] \/ exec'[u].pc = "over"
        BY <2>3, Remains DEF WorkerCrash
      <4> QED BY <3>1, <4>1 DEF Still, Finals
    <3> QED BY <1>2, <3>1, <3>2, Idle DEF Harmless
  <2>4. CASE WorkerRestart(w) \/ RegistryBeat(w) \/ RegistryExpires(w)
    BY <1>3, <2>4 DEF WorkerRestart, RegistryBeat, RegistryExpires, leaseVars, execVars
  <2> QED BY <1>5, <2>1, <2>2, <2>3, <2>4 DEF FleetStep
<1>6. CASE OperatorStep
  BY <1>1, <1>2, <1>6, CancelHarmless DEF OperatorStep, NoRetries
<1>7. CASE UNCHANGED vars
  BY <1>3, <1>7 DEF vars, leaseVars, execVars
<1> QED BY <1>2, <1>4, <1>5, <1>6, <1>7 DEF Next

LEMMA InitOutput == Init => OutputInv
<1> SUFFICES ASSUME Init PROVE OutputInv
  OBVIOUS
<1>1. \A u \in Tokens : exec[u].pc = "unborn"
  BY DEF Init, Unborn
<1> QED BY <1>1, InitClaim DEF OutputInv, BusyOwns, OwnedBusy, LeftNotDone, FinalizeKnows

\* OutputInv holds in every reachable state when nothing is retried.
THEOREM OutputInvariant == NoRetries => (Spec => []OutputInv)
<1> SUFFICES ASSUME NoRetries PROVE Spec => []OutputInv
  OBVIOUS
<1>1. Init => OutputInv
  BY InitOutput
<1>2. OutputInv /\ [Next]_vars => OutputInv'
  BY StepOutput
<1> QED BY <1>1, <1>2, PTL DEF Spec

\* As long as no request retries a job, no step takes back what was achieved: a
\* terminal job keeps its status and a phase keeps its output, against the late
\* writes of paused executions, the sweep and a user's cancel.
THEOREM NothingUndone == NoRetries => (Spec => NothingIsUndone)
<1> SUFFICES ASSUME NoRetries PROVE Spec => NothingIsUndone
  OBVIOUS
<1>1. OutputInv /\ [Next]_vars => [Lasting]_vars
  BY StepOutput
<1>2. [][Lasting]_vars => NothingIsUndone
  BY DEF NothingIsUndone, Lasting
<1> QED BY <1>1, <1>2, OutputInvariant, PTL DEF Spec

=============================================================================
