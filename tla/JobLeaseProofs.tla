--------------------------- MODULE JobLeaseProofs ---------------------------
(***************************************************************************)
(* Proofs about JobLease, for every set of jobs, workers, operators and    *)
(* phases and every value of the limits: first that every action keeps the *)
(* types, then that DoneInv is an inductive invariant, so that every       *)
(* reachable state is of its type and a done job has every phase of its    *)
(* sequence done.                                                          *)
(*                                                                         *)
(* In the second part a step is described by what it does to each          *)
(* execution, to each job and to the phase rows of each job; Step shows    *)
(* that a step so described preserves the invariant, and there is a lemma  *)
(* for each action that describes it.  Only a claim, which gives out a     *)
(* token, is by itself.                                                    *)
(***************************************************************************)
EXTENDS JobLease, TLAPS

-----------------------------------------------------------------------------
(* The operators of the model.                                             *)

\* The NULL values are values of their columns.
LEMMA NullTypes == NoToken \in AnyToken /\ Tokens \subseteq AnyToken /\ NoToken \notin Tokens
BY Assumptions DEF NoToken, AnyToken, Tokens, Assumptions

\* Resetting phase rows gives phase rows.
LEMMA ResetRowsType ==
  ASSUME NEW rows \in [Phases -> PhaseRow], NEW names, NEW from, NEW owners,
         NEW to \in PhaseStatus
  PROVE  ResetRows(rows, names, from, owners, to) \in [Phases -> PhaseRow]
BY NullTypes DEF ResetRows, PhaseRow

\* A reset never touches a phase that has its output, unless told to.
LEMMA ResetKeepsDone ==
  ASSUME NEW rows, NEW names, NEW from, NEW owners, NEW to,
         NEW p \in Phases, rows[p].st = "done", "done" \notin from
  PROVE  ResetRows(rows, names, from, owners, to)[p] = rows[p]
BY DEF ResetRows

\* A blank execution, and one whose pipeline or task is gone.
LEMMA ExecutionTypes ==
  /\ Unborn \in Execution
  /\ \A e \in Execution :
       /\ Over(e) \in Execution
       /\ [e EXCEPT !.beating = FALSE] \in Execution
       /\ \A pc \in Pc, why \in Errors \cup {"none"} : Unwound(e, pc, why) \in Execution
       /\ Cancelled(e) \in Execution
<1>1. Unborn \in Execution
  BY DEF Unborn, Execution, Pc
<1>2. ASSUME NEW e \in Execution PROVE Over(e) \in Execution
  BY DEF Over, Unborn, Execution, Pc
<1>3. ASSUME NEW e \in Execution, NEW pc \in Pc, NEW why \in Errors \cup {"none"}
      PROVE  Unwound(e, pc, why) \in Execution
  BY <1>3 DEF Unwound, Unborn, Execution, Pc
<1>4. ASSUME NEW e \in Execution PROVE Cancelled(e) \in Execution
  BY <1>4 DEF Cancelled, Execution, Pc, InPipeline
<1>5. ASSUME NEW e \in Execution PROVE [e EXCEPT !.beating = FALSE] \in Execution
  BY DEF Execution
<1> QED BY <1>1, <1>2, <1>3, <1>4, <1>5

LEMMA CancelRunningType ==
  ASSUME TypeOK, NEW execs \in [Tokens -> Execution], NEW w \in Workers, NEW j \in Jobs
  PROVE  CancelRunning(execs, w, j) \in [Tokens -> Execution]
<1>1. CASE running[w][j] = NoToken
  BY <1>1 DEF CancelRunning
<1>2. CASE running[w][j] # NoToken
  <2>1. running[w][j] \in Tokens
    BY <1>2 DEF TypeOK, AnyToken, Tokens, NoToken
  <2> QED BY <1>2, <2>1, ExecutionTypes DEF CancelRunning
<1> QED BY <1>1, <1>2

-----------------------------------------------------------------------------
(* Type correctness.                                                       *)

LEMMA TypeInit == Init => TypeOK
BY NullTypes, ExecutionTypes, Assumptions
DEF Init, TypeOK, NewJob, JobRow, PhaseRow, JobStatus, Open, PhaseStatus, Assumptions

\* The rows that the writes of the queue leave behind.
LEMMA JobRowTypes ==
  /\ \A n \in 0 .. MaxAttempts : Refund(n) \in 0 .. MaxAttempts
  /\ \A r \in JobRow : Requeued(r) \in JobRow /\ FailExhausted(r) \in JobRow
                          /\ Refunded(r) \in JobRow
  /\ \A r \in JobRow, s \in JobStatus :
       /\ [r EXCEPT !.status = s] \in JobRow
       /\ [r EXCEPT !.status = s, !.phase = TRUE] \in JobRow
       /\ [r EXCEPT !.status = s, !.token = NoToken, !.owner = Nobody] \in JobRow
       /\ [r EXCEPT !.status = s, !.owner = Nobody] \in JobRow
<1>1. \A n \in 0 .. MaxAttempts : Refund(n) \in 0 .. MaxAttempts
  BY Assumptions DEF Refund, Assumptions
<1>2. ASSUME NEW r \in JobRow
      PROVE  Requeued(r) \in JobRow /\ FailExhausted(r) \in JobRow /\ Refunded(r) \in JobRow
  <2>1. Requeued(r) \in JobRow /\ FailExhausted(r) \in JobRow
    BY NullTypes DEF Requeued, FailExhausted, JobRow, JobStatus, Open, Terminal
  <2>2. Refund(r.attempts) \in 0 .. MaxAttempts
    BY <1>1 DEF JobRow
  <2> QED BY <2>1, <2>2 DEF Refunded, JobRow
<1>3. ASSUME NEW r \in JobRow, NEW s \in JobStatus
      PROVE  /\ [r EXCEPT !.status = s] \in JobRow
             /\ [r EXCEPT !.status = s, !.phase = TRUE] \in JobRow
             /\ [r EXCEPT !.status = s, !.token = NoToken, !.owner = Nobody] \in JobRow
             /\ [r EXCEPT !.status = s, !.owner = Nobody] \in JobRow
  BY <1>3, NullTypes DEF JobRow
<1> QED BY <1>1, <1>2, <1>3

\* The variables that the executions and the sweep write are of their types.
LeaseType ==
  /\ job \in [Jobs -> JobRow]
  /\ phase \in [Jobs -> [Phases -> PhaseRow]]
  /\ ledger \in [Tokens -> SUBSET Events]

ExecType ==
  /\ exec \in [Tokens -> Execution]
  /\ running \in [Workers -> [Jobs -> AnyToken]]

LEMMA EndsType ==
  ASSUME TypeOK, NEW t \in Tokens, Ends(t)
  PROVE  ExecType'
BY ExecutionTypes, NullTypes DEF TypeOK, ExecType, Ends

LEMMA FinalizeType ==
  ASSUME TypeOK, NEW t \in Tokens, FinalizeCancelled(t)
  PROVE  LeaseType'
<1> DEFINE j == exec[t].job
<1>1. job' \in [Jobs -> JobRow]
  BY JobRowTypes DEF TypeOK, FinalizeCancelled, JobStatus, Terminal
<1>2. phase' \in [Jobs -> [Phases -> PhaseRow]]
  BY ResetRowsType DEF TypeOK, FinalizeCancelled, PhaseStatus
<1>3. ledger' \in [Tokens -> SUBSET Events]
  BY DEF TypeOK, FinalizeCancelled, Log, Events, Settlements
<1> QED BY <1>1, <1>2, <1>3 DEF LeaseType

LEMMA MissedWriteType ==
  ASSUME TypeOK, NEW t \in Tokens, NEW statuses, MissedWrite(t, statuses)
  PROVE  LeaseType' /\ ExecType'
<1>1. ExecType'
  BY EndsType DEF MissedWrite
<1>2. LeaseType'
  <2>1. CASE FinalizeCancelled(t)
    BY <2>1, FinalizeType
  <2>2. CASE ~FinalizeCancelled(t)
    BY <2>2 DEF MissedWrite, TypeOK, LeaseType, Log, Events
  <2> QED BY <2>1, <2>2
<1> QED BY <1>1, <1>2

\* A step that leaves the fleet and the retries alone.
LEMMA TypeFrame ==
  ASSUME TypeOK, LeaseType', ExecType', minted' \in 0 .. MaxClaims,
         UNCHANGED <<fleetVars, retries>>
  PROVE  TypeOK'
BY DEF TypeOK, LeaseType, ExecType, fleetVars

LEMMA ClaimType ==
  ASSUME TypeOK, NEW w \in Workers, NEW j \in Jobs, ClaimNextJob(w, j)
  PROVE  TypeOK'
<1> DEFINE t == minted + 1
<1>1. t \in Tokens /\ t \in AnyToken /\ t \in 0 .. MaxClaims
  BY Assumptions DEF TypeOK, ClaimNextJob, Tokens, AnyToken, Assumptions
<1>2. job' \in [Jobs -> JobRow]
  BY <1>1, Assumptions DEF TypeOK, ClaimNextJob, JobRow, JobStatus, Open, Assumptions
<1>3. ledger' \in [Tokens -> SUBSET Events]
  BY DEF TypeOK, ClaimNextJob, Log, Events
<1>4. exec' \in [Tokens -> Execution]
  BY <1>1 DEF TypeOK, ClaimNextJob, Execution, Unborn, Pc, InPipeline
<1>5. running' \in [Workers -> [Jobs -> AnyToken]]
  BY <1>1 DEF TypeOK, ClaimNextJob
<1> QED
  BY <1>1, <1>2, <1>3, <1>4, <1>5, TypeFrame DEF TypeOK, ClaimNextJob, LeaseType, ExecType

\* An execution that has begun has a job and a worker.
Started(t) == exec[t].job \in Jobs /\ exec[t].worker \in Workers

\* Replacing one row, or one execution, by another of its type.
LEMMA Replace ==
  ASSUME TypeOK
  PROVE  /\ \A j \in Jobs, r \in JobRow : [job EXCEPT ![j] = r] \in [Jobs -> JobRow]
         /\ \A j \in Jobs, r \in [Phases -> PhaseRow] :
              [phase EXCEPT ![j] = r] \in [Jobs -> [Phases -> PhaseRow]]
         /\ \A t \in Tokens, e \in Execution :
              [exec EXCEPT ![t] = e] \in [Tokens -> Execution]
BY DEF TypeOK

\* The scheduler's bookkeeping of one execution.
LEMMA BookkeepingTypes ==
  ASSUME NEW e \in Execution, NEW p \in Phases
  PROVE  /\ \A pc \in Pc : [e EXCEPT !.pc = pc] \in Execution
         /\ [e EXCEPT !.left = @ \ {p}, !.busy = @ \cup {p}] \in Execution
         /\ [e EXCEPT !.busy = @ \ {p}, !.seen = @ \cup {p}] \in Execution
         /\ \A k \in PhaseErrors :
              [e EXCEPT !.busy = @ \ {p}, !.errs = @ \cup {<<p, k>>}] \in Execution
         /\ [e EXCEPT !.errs = (@ \ {<<p, "hard">>}) \cup {<<p, "failed">>}] \in Execution
<1>1. e \in [job : Jobs \cup {Nobody}, worker : Workers \cup {Nobody}, pc : Pc,
             left : SUBSET Phases, busy : SUBSET Phases, seen : SUBSET Phases,
             errs : SUBSET (Phases \X Errors), why : Errors \cup {"none"},
             beating : BOOLEAN]
  BY DEF Execution
<1>2. \A pc \in Pc : [e EXCEPT !.pc = pc] \in Execution
  BY DEF Execution
<1>4. [e EXCEPT !.left = @ \ {p}, !.busy = @ \cup {p}] \in Execution
  BY DEF Execution
<1>5. [e EXCEPT !.busy = @ \ {p}, !.seen = @ \cup {p}] \in Execution
  BY DEF Execution
<1>6. ASSUME NEW k \in PhaseErrors
      PROVE  [e EXCEPT !.busy = @ \ {p}, !.errs = @ \cup {<<p, k>>}] \in Execution
  <2>1. e.errs \cup {<<p, k>>} \in SUBSET (Phases \X Errors)
    BY <1>1 DEF Errors
  <2> QED BY <2>1 DEF Execution
<1>7. [e EXCEPT !.errs = (@ \ {<<p, "hard">>}) \cup {<<p, "failed">>}] \in Execution
  <2>1. (e.errs \ {<<p, "hard">>}) \cup {<<p, "failed">>} \in SUBSET (Phases \X Errors)
    BY <1>1 DEF Errors
  <2> QED BY <2>1 DEF Execution
<1> QED BY <1>2, <1>4, <1>5, <1>6, <1>7

\* The columns that an execution writes.
LEMMA WriteTypes ==
  ASSUME TypeOK
  PROVE  /\ \A j \in Jobs, s \in JobStatus :
              /\ [job EXCEPT ![j].status = s] \in [Jobs -> JobRow]
              /\ [job EXCEPT ![j].status = s, ![j].phase = TRUE] \in [Jobs -> JobRow]
              /\ [job EXCEPT ![j].status = s, ![j].token = NoToken, ![j].owner = Nobody]
                   \in [Jobs -> JobRow]
         /\ \A j \in Jobs, p \in Phases, s \in PhaseStatus :
              [phase EXCEPT ![j][p].st = s] \in [Jobs -> [Phases -> PhaseRow]]
         /\ \A t \in Tokens, pc \in Pc : [exec EXCEPT ![t].pc = pc] \in [Tokens -> Execution]
<1>1. /\ job \in [Jobs -> JobRow] /\ phase \in [Jobs -> [Phases -> PhaseRow]]
      /\ exec \in [Tokens -> Execution]
  BY DEF TypeOK
<1>2. ASSUME NEW j \in Jobs, NEW s \in JobStatus
      PROVE  [job EXCEPT ![j].status = s] \in [Jobs -> JobRow]
  BY <1>1 DEF JobRow
<1>3. ASSUME NEW j \in Jobs, NEW s \in JobStatus
      PROVE  [job EXCEPT ![j].status = s, ![j].phase = TRUE] \in [Jobs -> JobRow]
  BY <1>1 DEF JobRow
<1>4. ASSUME NEW j \in Jobs, NEW s \in JobStatus
      PROVE  [job EXCEPT ![j].status = s, ![j].token = NoToken, ![j].owner = Nobody]
               \in [Jobs -> JobRow]
  <2>1. [job EXCEPT ![j].status = s, ![j].token = NoToken, ![j].owner = Nobody]
          = [job EXCEPT ![j] =
               [job[j] EXCEPT !.status = s, !.token = NoToken, !.owner = Nobody]]
    BY <1>1
  <2> QED BY <1>1, <2>1, JobRowTypes
<1>5. ASSUME NEW j \in Jobs, NEW p \in Phases, NEW s \in PhaseStatus
      PROVE  [phase EXCEPT ![j][p].st = s] \in [Jobs -> [Phases -> PhaseRow]]
  BY <1>1 DEF PhaseRow
<1>6. ASSUME NEW t \in Tokens, NEW pc \in Pc
      PROVE  [exec EXCEPT ![t].pc = pc] \in [Tokens -> Execution]
  <2>1. [exec EXCEPT ![t].pc = pc] = [exec EXCEPT ![t] = [exec[t] EXCEPT !.pc = pc]]
    BY <1>1
  <2>2. [exec[t] EXCEPT !.pc = pc] \in Execution
    BY <1>1 DEF Execution
  <2> QED BY <2>1, <2>2, Replace
<1> QED BY <1>2, <1>3, <1>4, <1>5, <1>6

LEMMA LogType ==
  ASSUME TypeOK, NEW t \in Tokens, NEW event \in Events
  PROVE  Log(t, event) \in [Tokens -> SUBSET Events]
BY DEF TypeOK, Log

\* The pipeline.
LEMMA StartRunType ==
  ASSUME TypeOK, NEW t \in Tokens, Started(t), StartRun(t)
  PROVE  LeaseType' /\ ExecType'
<1> DEFINE j == exec[t].job
<1>1. CASE MissedWrite(t, Open)
  BY <1>1, MissedWriteType
<1>2. CASE ~MissedWrite(t, Open)
  <2>1. /\ job' = [job EXCEPT ![j].status = "running"]
        /\ exec' = [exec EXCEPT ![t].pc = "resume"]
        /\ UNCHANGED <<phase, ledger, running>>
    BY <1>2 DEF StartRun
  <2>2. job' \in [Jobs -> JobRow]
    BY <2>1, WriteTypes DEF Started, JobStatus, Open
  <2>3. exec' \in [Tokens -> Execution]
    BY <2>1, WriteTypes DEF Pc, InPipeline
  <2> QED BY <2>1, <2>2, <2>3 DEF TypeOK, LeaseType, ExecType
<1> QED BY <1>1, <1>2

LEMMA ResumeType ==
  ASSUME TypeOK, NEW t \in Tokens, ResumeDonePhases(t)
  PROVE  LeaseType' /\ ExecType'
<1> DEFINE done == {p \in Phases : phase[exec[t].job][p].st = "done"}
<1>1. exec' = [exec EXCEPT ![t] = [exec[t] EXCEPT !.pc = "run", !.seen = done,
                                                  !.left = Phases \ done]]
  BY DEF ResumeDonePhases, TypeOK
<1>2. [exec[t] EXCEPT !.pc = "run", !.seen = done, !.left = Phases \ done] \in Execution
  <2>1. exec[t] \in Execution
    BY DEF TypeOK
  <2>2. done \in SUBSET Phases /\ Phases \ done \in SUBSET Phases /\ "run" \in Pc
    BY DEF Pc, InPipeline
  <2> HIDE DEF done
  <2> QED BY <2>1, <2>2 DEF Execution
<1>3. exec' \in [Tokens -> Execution]
  BY <1>1, <1>2, Replace
<1> QED BY <1>3 DEF ResumeDonePhases, TypeOK, LeaseType, ExecType, leaseVars

LEMMA StartPhaseType ==
  ASSUME TypeOK, NEW t \in Tokens, Started(t), NEW p \in Phases, StartPhase(t, p)
  PROVE  LeaseType' /\ ExecType'
<1> DEFINE j    == exec[t].job
           rows == [phase[j] EXCEPT ![p] = [st |-> "running", tok |-> t]]
<1>1. rows \in [Phases -> PhaseRow]
  BY NullTypes DEF Started, TypeOK, PhaseRow, PhaseStatus
<1>2. CASE job[j].token # t
  <2>1. Ends(t) /\ UNCHANGED leaseVars
    BY <1>2 DEF StartPhase, Holds
  <2> QED BY <2>1, EndsType DEF TypeOK, LeaseType, leaseVars
<1>3. CASE Holds(t, Open)
  <2>1. /\ phase' = [phase EXCEPT ![j] = rows]
        /\ job' = [job EXCEPT ![j].status = "running", ![j].phase = TRUE]
        /\ exec' = [exec EXCEPT ![t].left = @ \ {p}, ![t].busy = @ \cup {p}]
        /\ UNCHANGED <<ledger, running>>
    BY <1>3 DEF StartPhase, Holds, Open, Terminal
  <2>2. job' \in [Jobs -> JobRow]
    BY <2>1, WriteTypes DEF Started, JobStatus, Open
  <2>3. phase' \in [Jobs -> [Phases -> PhaseRow]]
    BY <1>1, <2>1, Replace DEF Started
  <2>4. exec' = [exec EXCEPT ![t] = [exec[t] EXCEPT !.left = @ \ {p}, !.busy = @ \cup {p}]]
    BY <2>1 DEF TypeOK
  <2>5. exec' \in [Tokens -> Execution]
    BY <2>4, Replace, BookkeepingTypes DEF TypeOK
  <2> QED BY <2>1, <2>2, <2>3, <2>5 DEF TypeOK, LeaseType, ExecType
<1>4. CASE Holds(t, {"cancelling"})
  <2>1. /\ job' = [job EXCEPT ![j].status = "cancelled", ![j].token = NoToken,
                              ![j].owner = Nobody]
        /\ phase' = [phase EXCEPT ![j] =
                       ResetRows(rows, Phases, Unfinished, AnyToken, "failed")]
        /\ ledger' = Log(t, "released_cancelled")
        /\ Ends(t)
    BY <1>4 DEF StartPhase, Holds, Open, Terminal
  <2>2. job' \in [Jobs -> JobRow]
    BY <2>1, WriteTypes DEF Started, JobStatus, Terminal
  <2>3. ResetRows(rows, Phases, Unfinished, AnyToken, "failed") \in [Phases -> PhaseRow]
    BY <1>1, ResetRowsType DEF PhaseStatus
  <2>4. phase' \in [Jobs -> [Phases -> PhaseRow]]
    BY <2>1, <2>3, Replace DEF Started
  <2>5. ledger' \in [Tokens -> SUBSET Events]
    BY <2>1, LogType DEF Events, Settlements
  <2> QED BY <2>1, <2>2, <2>4, <2>5, EndsType DEF LeaseType
<1>5. CASE Holds(t, Terminal)
  <2>1. Ends(t) /\ phase' = [phase EXCEPT ![j] = rows] /\ UNCHANGED <<job, ledger>>
    BY <1>5 DEF StartPhase, Holds, Open, Terminal
  <2>2. phase' \in [Jobs -> [Phases -> PhaseRow]]
    BY <1>1, <2>1, Replace DEF Started
  <2> QED BY <2>1, <2>2, EndsType DEF TypeOK, LeaseType
<1> QED BY <1>2, <1>3, <1>4, <1>5 DEF StartPhase

LEMMA FinishPhaseType ==
  ASSUME TypeOK, NEW t \in Tokens, Started(t), NEW p \in Phases, FinishPhase(t, p)
  PROVE  LeaseType' /\ ExecType'
<1> DEFINE j == exec[t].job
<1>1. CASE phase[j][p].tok = t
  <2>1. /\ phase' = [phase EXCEPT ![j][p].st = "done"]
        /\ exec' = [exec EXCEPT ![t].busy = @ \ {p}, ![t].seen = @ \cup {p}]
        /\ UNCHANGED <<job, ledger, running>>
    BY <1>1 DEF FinishPhase
  <2>2. phase' \in [Jobs -> [Phases -> PhaseRow]]
    BY <2>1, WriteTypes DEF TypeOK, Started, PhaseStatus
  <2>3. exec' = [exec EXCEPT ![t] = [exec[t] EXCEPT !.busy = @ \ {p}, !.seen = @ \cup {p}]]
    BY <2>1 DEF TypeOK
  <2>4. exec' \in [Tokens -> Execution]
    BY <2>3, Replace, BookkeepingTypes DEF TypeOK
  <2> QED BY <2>1, <2>2, <2>4 DEF TypeOK, LeaseType, ExecType
<1>2. CASE phase[j][p].tok # t
  <2>1. Ends(t) /\ UNCHANGED leaseVars
    BY <1>2 DEF FinishPhase
  <2> QED BY <2>1, EndsType DEF TypeOK, LeaseType, leaseVars
<1> QED BY <1>1, <1>2

LEMMA PhaseErrorType ==
  ASSUME TypeOK, NEW t \in Tokens, Started(t), NEW p \in Phases,
         NEW kind \in PhaseErrors, NEW marked \in BOOLEAN,
         PhaseError(t, p, kind, marked)
  PROVE  LeaseType' /\ ExecType'
<1> DEFINE j == exec[t].job
<1>1. CASE Ends(t) /\ UNCHANGED leaseVars
  BY <1>1, EndsType DEF TypeOK, LeaseType, leaseVars
<1>2. CASE ~(Ends(t) /\ UNCHANGED leaseVars)
  <2>1. /\ phase' \in {[phase EXCEPT ![j][p].st = "failed"], phase}
        /\ exec' = [exec EXCEPT ![t].busy = @ \ {p}, ![t].errs = @ \cup {<<p, kind>>}]
        /\ UNCHANGED <<job, ledger, running>>
    BY <1>2 DEF PhaseError
  <2>2. [phase EXCEPT ![j][p].st = "failed"] \in [Jobs -> [Phases -> PhaseRow]]
    BY WriteTypes DEF Started, PhaseStatus
  <2> phase' \in [Jobs -> [Phases -> PhaseRow]]
    BY <2>1, <2>2 DEF TypeOK
  <2>3. exec' = [exec EXCEPT ![t] =
                   [exec[t] EXCEPT !.busy = @ \ {p}, !.errs = @ \cup {<<p, kind>>}]]
    BY <2>1 DEF TypeOK
  <2>4. exec' \in [Tokens -> Execution]
    BY <2>3, Replace, BookkeepingTypes DEF TypeOK
  <2> QED BY <2>1, <2>4 DEF TypeOK, LeaseType, ExecType
<1> QED BY <1>1, <1>2

LEMMA FailJobType ==
  ASSUME TypeOK, NEW t \in Tokens, Started(t), NEW p \in Phases, FailJob(t, p)
  PROVE  LeaseType' /\ ExecType'
<1> DEFINE j == exec[t].job
<1>1. CASE MissedWrite(t, Open)
  BY <1>1, MissedWriteType
<1>2. CASE ~MissedWrite(t, Open)
  <2>1. /\ job' = [job EXCEPT ![j].status = "failed"]
        /\ exec' = [exec EXCEPT ![t].errs =
                      (@ \ {<<p, "hard">>}) \cup {<<p, "failed">>}]
        /\ UNCHANGED <<phase, ledger, running>>
    BY <1>2 DEF FailJob
  <2>2. job' \in [Jobs -> JobRow]
    BY <2>1, WriteTypes DEF Started, JobStatus, Terminal
  <2>3. exec' = [exec EXCEPT ![t] = [exec[t] EXCEPT !.errs =
                   (@ \ {<<p, "hard">>}) \cup {<<p, "failed">>}]]
    BY <2>1 DEF TypeOK
  <2>4. exec' \in [Tokens -> Execution]
    BY <2>3, Replace, BookkeepingTypes DEF TypeOK
  <2> QED BY <2>1, <2>2, <2>4 DEF TypeOK, LeaseType, ExecType
<1> QED BY <1>1, <1>2

LEMMA AbandonType ==
  ASSUME TypeOK, NEW t \in Tokens, NEW names, NEW to \in PhaseStatus
  PROVE  Abandon(t, names, to) \in [Jobs -> [Phases -> PhaseRow]]
<1> DEFINE j == exec[t].job
           rows == ResetRows(phase[j], names, Open, {t}, to)
<1>1. Abandon(t, names, to) = [phase EXCEPT ![j] = rows]
  BY DEF Abandon, TypeOK
<1>2. j \in Jobs => rows \in [Phases -> PhaseRow]
  BY ResetRowsType DEF TypeOK
<1> HIDE DEF rows, j
<1> QED BY <1>1, <1>2 DEF TypeOK

LEMMA UnwindType ==
  ASSUME TypeOK, NEW t \in Tokens, NEW p \in Phases, NEW kind \in Errors, Unwind(t, p, kind)
  PROVE  LeaseType' /\ ExecType'
<1>1. phase' \in [Jobs -> [Phases -> PhaseRow]]
  BY AbandonType DEF Unwind, PhaseStatus
<1>2. CASE Ends(t)
  BY <1>1, <1>2, EndsType DEF Unwind, TypeOK, LeaseType
<1>3. CASE ~Ends(t)
  <2>1. exec' = [exec EXCEPT ![t] = Unwound(exec[t], "report", kind)] /\ running' = running
    BY <1>3 DEF Unwind, TypeOK
  <2>2. exec' \in [Tokens -> Execution]
    BY <2>1, Replace, ExecutionTypes DEF TypeOK, Pc
  <2> QED BY <1>1, <2>1, <2>2 DEF Unwind, TypeOK, LeaseType, ExecType
<1> QED BY <1>2, <1>3

LEMMA CompleteJobType ==
  ASSUME TypeOK, NEW t \in Tokens, Started(t), CompleteJob(t)
  PROVE  LeaseType' /\ ExecType'
<1> DEFINE j == exec[t].job
<1>1. CASE MissedWrite(t, Open)
  BY <1>1, MissedWriteType
<1>2. CASE ~MissedWrite(t, Open)
  <2>1. /\ job' = [job EXCEPT ![j].status = "done"]
        /\ ledger' = Log(t, "released_done")
        /\ exec' = [exec EXCEPT ![t].pc = "publish"]
        /\ UNCHANGED <<phase, running>>
    BY <1>2 DEF CompleteJob
  <2>2. job' \in [Jobs -> JobRow]
    BY <2>1, WriteTypes DEF Started, JobStatus, Terminal
  <2>3. ledger' \in [Tokens -> SUBSET Events]
    BY <2>1, LogType DEF Events, Settlements
  <2>4. exec' \in [Tokens -> Execution]
    BY <2>1, WriteTypes DEF Pc
  <2> QED BY <2>1, <2>2, <2>3, <2>4 DEF TypeOK, LeaseType, ExecType
<1> QED BY <1>1, <1>2

LEMMA CrashType ==
  ASSUME TypeOK, NEW t \in Tokens, Started(t), Crash(t)
  PROVE  LeaseType' /\ ExecType'
<1> DEFINE j == exec[t].job
<1>1. CASE MissedWrite(t, Open)
  BY <1>1, MissedWriteType
<1>2. CASE ~MissedWrite(t, Open)
  <2>1. /\ job' = [job EXCEPT ![j].status = "failed"]
        /\ Ends(t) /\ UNCHANGED <<phase, ledger>>
    BY <1>2 DEF Crash
  <2>2. job' \in [Jobs -> JobRow]
    BY <2>1, WriteTypes DEF Started, JobStatus, Terminal
  <2> QED BY <2>1, <2>2, EndsType DEF TypeOK, LeaseType
<1> QED BY <1>1, <1>2

\* JobTimeout and StopScheduler: the pipeline is gone, its rows are failed.
LEMMA StoppedType ==
  ASSUME TypeOK, NEW t \in Tokens, JobTimeout(t) \/ StopScheduler(t)
  PROVE  LeaseType' /\ ExecType'
<1>1. phase' \in [Jobs -> [Phases -> PhaseRow]]
  BY AbandonType DEF JobTimeout, StopScheduler, PhaseStatus
<1>2. \/ exec' = [exec EXCEPT ![t] = Unwound(exec[t], "report", "timeout")]
      \/ exec' = [exec EXCEPT ![t] = Unwound(exec[t], "interrupted", "none")]
  BY DEF JobTimeout, StopScheduler, TypeOK
<1>3. /\ Unwound(exec[t], "report", "timeout") \in Execution
      /\ Unwound(exec[t], "interrupted", "none") \in Execution
  BY ExecutionTypes DEF TypeOK, Pc, Errors
<1>4. exec' \in [Tokens -> Execution]
  BY <1>2, <1>3, Replace
<1> QED BY <1>1, <1>4 DEF JobTimeout, StopScheduler, TypeOK, LeaseType, ExecType

\* The worker.
LEMMA MarkFailedType ==
  ASSUME TypeOK, NEW t \in Tokens, Started(t), MarkFailedWithRetry(t)
  PROVE  LeaseType' /\ ExecType'
<1> DEFINE j    == exec[t].job
           last == job[j].attempts >= MaxAttempts
           row  == IF last
                   THEN [job[j] EXCEPT !.status = "failed", !.owner = Nobody]
                   ELSE [Requeued(job[j]) EXCEPT !.reclaims = 0]
           rows == IF last
                   THEN ResetRows(phase[j], Phases, Open, AnyToken, "failed")
                   ELSE ResetRows(phase[j], Phases, Open, {t}, "pending")
<1>1. CASE MissedWrite(t, {"running"})
  BY <1>1, MissedWriteType
<1>2. CASE ~MissedWrite(t, {"running"})
  <2>1. /\ job' = [job EXCEPT ![j] = row]
        /\ phase' = [phase EXCEPT ![j] = rows]
        /\ ledger' = Log(t, IF last THEN "released_failed" ELSE "released_retry")
        /\ Ends(t)
    BY <1>2 DEF MarkFailedWithRetry, Started, TypeOK
  <2>2. row \in JobRow
    <3>1. job[j] \in JobRow
      BY DEF Started, TypeOK
    <3>2. [job[j] EXCEPT !.status = "failed", !.owner = Nobody] \in JobRow
      BY <3>1 DEF JobRow, JobStatus, Terminal
    <3>3. Requeued(job[j]) \in JobRow
      BY <3>1, JobRowTypes
    <3>4. [Requeued(job[j]) EXCEPT !.reclaims = 0] \in JobRow
      BY <3>3, Assumptions DEF JobRow, Assumptions
    <3> QED BY <3>2, <3>4
  <2>3. rows \in [Phases -> PhaseRow]
    BY ResetRowsType DEF Started, TypeOK, PhaseStatus
  <2>4. job' \in [Jobs -> JobRow] /\ phase' \in [Jobs -> [Phases -> PhaseRow]]
    BY <2>1, <2>2, <2>3, Replace DEF Started
  <2>5. ledger' \in [Tokens -> SUBSET Events]
    BY <2>1, LogType DEF Events, Settlements
  <2> QED BY <2>1, <2>4, <2>5, EndsType DEF LeaseType
<1> QED BY <1>1, <1>2

LEMMA RequeueRefundedType ==
  ASSUME TypeOK, NEW t \in Tokens, Started(t), RequeueRefunded(t)
  PROVE  LeaseType' /\ ExecType'
<1> DEFINE j    == exec[t].job
           row  == Refunded(job[j])
           rows == ResetRows(phase[j], Phases, Open, {t}, "pending")
<1>1. CASE MissedWrite(t, {"running"})
  BY <1>1, MissedWriteType
<1>2. CASE ~MissedWrite(t, {"running"})
  <2>1. /\ job' = [job EXCEPT ![j] = row]
        /\ phase' = [phase EXCEPT ![j] = rows]
        /\ ledger' = Log(t, "released_retry")
        /\ Ends(t)
    BY <1>2 DEF RequeueRefunded, Started, TypeOK
  <2>2. row \in JobRow
    BY JobRowTypes DEF Started, TypeOK
  <2>3. rows \in [Phases -> PhaseRow]
    BY ResetRowsType DEF Started, TypeOK, PhaseStatus
  <2>4. job' \in [Jobs -> JobRow] /\ phase' \in [Jobs -> [Phases -> PhaseRow]]
    BY <2>1, <2>2, <2>3, Replace DEF Started
  <2>5. ledger' \in [Tokens -> SUBSET Events]
    BY <2>1, LogType DEF Events, Settlements
  <2> QED BY <2>1, <2>4, <2>5, EndsType DEF LeaseType
<1> QED BY <1>1, <1>2

\* EndPublish, DatabaseOutage, Die and a ReadCancelling that is not a user's
\* cancel: the task returns, and the database is as it was.
LEMMA ReturnType ==
  ASSUME TypeOK, NEW t \in Tokens, Ends(t), UNCHANGED leaseVars
  PROVE  LeaseType' /\ ExecType'
BY EndsType DEF TypeOK, LeaseType, leaseVars

LEMMA ReadCancellingType ==
  ASSUME TypeOK, NEW t \in Tokens, ReadCancelling(t)
  PROVE  LeaseType' /\ ExecType'
<1>1. CASE Ends(t)
  BY <1>1, ReturnType DEF ReadCancelling
<1>2. CASE ~Ends(t)
  <2>1. exec' = [exec EXCEPT ![t].pc = "finalize"] /\ UNCHANGED <<leaseVars, running>>
    BY <1>2 DEF ReadCancelling
  <2>2. exec' \in [Tokens -> Execution]
    BY <2>1, WriteTypes DEF Pc
  <2> QED BY <2>1, <2>2 DEF TypeOK, LeaseType, ExecType, leaseVars
<1> QED BY <1>1, <1>2

LEMMA HeartbeatType ==
  ASSUME TypeOK, NEW t \in Tokens, Started(t), Heartbeat(t)
  PROVE  LeaseType' /\ ExecType'
<1> DEFINE silent == [exec EXCEPT ![t].beating = FALSE]
<1>1. silent \in [Tokens -> Execution]
  <2>1. silent = [exec EXCEPT ![t] = [exec[t] EXCEPT !.beating = FALSE]]
    BY DEF TypeOK
  <2>2. [exec[t] EXCEPT !.beating = FALSE] \in Execution
    <3>1. exec[t] \in Execution
      BY DEF TypeOK
    <3> QED BY <3>1, ExecutionTypes
  <2> QED BY <2>1, <2>2, Replace
<1>2. CancelRunning(silent, exec[t].worker, exec[t].job) \in [Tokens -> Execution]
  BY <1>1, CancelRunningType DEF Started
<1>3. /\ exec' \in {silent, CancelRunning(silent, exec[t].worker, exec[t].job)}
      /\ UNCHANGED <<leaseVars, running>>
  BY DEF Heartbeat
<1>4. exec' \in [Tokens -> Execution]
  BY <1>1, <1>2, <1>3
<1> QED BY <1>3, <1>4 DEF TypeOK, LeaseType, ExecType, leaseVars

LEMMA MarkCancelledType ==
  ASSUME TypeOK, NEW t \in Tokens, Started(t), MarkCancelled(t)
  PROVE  LeaseType' /\ ExecType'
<1> DEFINE j    == exec[t].job
           rows == [p \in Phases |-> IF phase[j][p].st \in Unfinished
                                     THEN [phase[j][p] EXCEPT !.st = "failed"]
                                     ELSE phase[j][p]]
<1>1. /\ job' = [job EXCEPT ![j].status = "cancelled"]
      /\ phase' = [phase EXCEPT ![j] = rows]
      /\ Ends(t) /\ UNCHANGED ledger
  BY DEF MarkCancelled, Started, TypeOK
<1>2. rows \in [Phases -> PhaseRow]
  <2>1. phase[j] \in [Phases -> PhaseRow]
    BY DEF Started, TypeOK
  <2>2. ASSUME NEW r \in PhaseRow PROVE [r EXCEPT !.st = "failed"] \in PhaseRow
    BY DEF PhaseRow, PhaseStatus
  <2> HIDE DEF j
  <2> QED BY <2>1, <2>2
<1>3. phase' \in [Jobs -> [Phases -> PhaseRow]]
  BY <1>1, <1>2, Replace DEF Started
<1>4. job' \in [Jobs -> JobRow]
  BY <1>1, WriteTypes DEF Started, JobStatus, Terminal
<1> QED BY <1>1, <1>3, <1>4, EndsType DEF TypeOK, LeaseType

\* The sweep.
LEMMA ReclaimedType == ASSUME TypeOK, NEW j \in Jobs PROVE Reclaimed(j) \in JobRow
<1>1. job[j] \in JobRow /\ Requeued(job[j]) \in JobRow
  BY JobRowTypes DEF TypeOK
<1>2. ASSUME NEW r \in JobRow, NEW a \in 0 .. MaxAttempts, NEW c \in 0 .. MaxReclaims
      PROVE  [r EXCEPT !.attempts = a, !.reclaims = c] \in JobRow
  BY DEF JobRow
<1> DEFINE q == Requeued(job[j])
           a == IF ~Executed(j) /\ job[j].reclaims < MaxReclaims
                THEN Refund(q.attempts) ELSE q.attempts
           c == IF Executed(j) THEN 0
                ELSE IF q.reclaims < MaxReclaims THEN q.reclaims + 1 ELSE q.reclaims
<1>3. q.attempts \in 0 .. MaxAttempts /\ q.reclaims \in 0 .. MaxReclaims
  BY <1>1 DEF JobRow
<1>4. a \in 0 .. MaxAttempts
  BY <1>3, JobRowTypes
<1>5. c \in 0 .. MaxReclaims
  BY <1>3, Assumptions DEF Assumptions
<1>6. Reclaimed(j) = [q EXCEPT !.attempts = a, !.reclaims = c]
  BY DEF Reclaimed
<1> HIDE DEF q, a, c
<1> QED BY <1>1, <1>2, <1>4, <1>5, <1>6 DEF q

LEMMA SweepType ==
  ASSUME TypeOK, NEW w \in Workers, NEW stale, NEW forced, NEW quit,
         Sweep(w, stale, forced, quit)
  PROVE  LeaseType' /\ ExecType'
<1> DEFINE swept(j) == IF j \in stale \cup forced THEN Reclaimed(j)
                       ELSE IF j \in quit
                       THEN [job[j] EXCEPT !.status = "cancelled",
                                           !.token = NoToken, !.owner = Nobody]
                       ELSE job[j]
           requeued(j) ==
             IF j \in stale \cup forced
             THEN ResetRows(phase[j], Phases, {"running"}, AnyToken, "pending")
             ELSE phase[j]
<1>1. ASSUME NEW j \in Jobs PROVE swept(j) \in JobRow
  <2>1. [job[j] EXCEPT !.status = "cancelled", !.token = NoToken, !.owner = Nobody] \in JobRow
    BY JobRowTypes DEF TypeOK, JobStatus, Terminal
  <2> QED BY <2>1, ReclaimedType DEF TypeOK
<1>2. ASSUME NEW j \in Jobs PROVE requeued(j) \in [Phases -> PhaseRow]
  <2>1. phase[j] \in [Phases -> PhaseRow]
    BY DEF TypeOK
  <2> QED BY <2>1, ResetRowsType DEF PhaseStatus
<1>3. job' = [j \in Jobs |-> FailExhausted(swept(j))]
  BY DEF Sweep
<1>4. phase' = [j \in Jobs |->
                  IF Exhausted(swept(j))
                  THEN ResetRows(requeued(j), Phases, Open, AnyToken, "failed")
                  ELSE requeued(j)]
  BY DEF Sweep
<1>5. ledger' \in [Tokens -> SUBSET Events]
  BY DEF Sweep, TypeOK, Events, Settlements
<1> HIDE DEF swept, requeued
<1>6. job' \in [Jobs -> JobRow]
  BY <1>1, <1>3, JobRowTypes
<1>7. phase' \in [Jobs -> [Phases -> PhaseRow]]
  <2>1. ASSUME NEW j \in Jobs
        PROVE  ResetRows(requeued(j), Phases, Open, AnyToken, "failed")
                 \in [Phases -> PhaseRow]
    BY <1>2, ResetRowsType DEF PhaseStatus
  <2> QED BY <1>2, <1>4, <2>1
<1> QED BY <1>5, <1>6, <1>7 DEF Sweep, execVars, TypeOK, LeaseType, ExecType

\* The operator.
LEMMA CancelType ==
  ASSUME TypeOK, NEW j \in Jobs,
         CancelIfPending(j) \/ \E host \in Workers \cup {Nobody} : RequestCancel(j, host)
  PROVE  TypeOK'
<1>1. CASE CancelIfPending(j)
  <2>1. job' \in [Jobs -> JobRow]
    BY <1>1, WriteTypes DEF CancelIfPending, JobStatus, Terminal
  <2> QED BY <1>1, <2>1 DEF CancelIfPending, TypeOK, execVars, fleetVars
<1>2. ASSUME NEW host \in Workers \cup {Nobody}, RequestCancel(j, host) PROVE TypeOK'
  <2>1. job' \in [Jobs -> JobRow]
    BY <1>2, WriteTypes DEF RequestCancel, JobStatus
  <2>2. exec' \in [Tokens -> Execution]
    <3>1. host # Nobody => CancelRunning(exec, host, j) \in [Tokens -> Execution]
      BY CancelRunningType DEF TypeOK
    <3> QED BY <1>2, <3>1 DEF RequestCancel, TypeOK
  <2> QED BY <1>2, <2>1, <2>2 DEF RequestCancel, TypeOK, fleetVars
<1> QED BY <1>1, <1>2

LEMMA RetryReadType ==
  ASSUME TypeOK, NEW o \in Operators, NEW j \in Jobs, RetryRead(o, j)
  PROVE  TypeOK'
<1>1. [by |-> o, job |-> j, row |-> job[j]] \in [by : Operators, job : Jobs, row : JobRow]
  BY DEF TypeOK
<1> QED BY <1>1 DEF RetryRead, TypeOK, leaseVars, execVars, fleetVars

LEMMA RetryWriteType ==
  ASSUME TypeOK, NEW r \in retries, RetryWrite(r)
  PROVE  TypeOK'
<1> DEFINE put(now, old, new) == IF old # new THEN new ELSE now
           now == job[r.job]
           row == [status   |-> "pending",
                   token    |-> put(now.token, r.row.token, NoToken),
                   owner    |-> put(now.owner, r.row.owner, Nobody),
                   attempts |-> put(now.attempts, r.row.attempts, 0),
                   reclaims |-> put(now.reclaims, r.row.reclaims, 0),
                   phase    |-> put(now.phase, r.row.phase, FALSE)]
<1>1. r \in [by : Operators, job : Jobs, row : JobRow]
  BY DEF TypeOK
<1>2. r.job \in Jobs /\ now \in JobRow
  BY <1>1 DEF TypeOK
<1>3. row \in JobRow
  <2>1. /\ NoToken \in AnyToken /\ 0 \in 0 .. MaxAttempts /\ 0 \in 0 .. MaxReclaims
        /\ "pending" \in JobStatus
    BY NullTypes, Assumptions DEF JobStatus, Open, Assumptions
  <2> DEFINE token    == put(now.token, r.row.token, NoToken)
             owner    == put(now.owner, r.row.owner, Nobody)
             attempts == put(now.attempts, r.row.attempts, 0)
             reclaims == put(now.reclaims, r.row.reclaims, 0)
             ph       == put(now.phase, r.row.phase, FALSE)
  <2>2. /\ token \in AnyToken /\ owner \in Workers \cup {Nobody}
        /\ attempts \in 0 .. MaxAttempts /\ reclaims \in 0 .. MaxReclaims
    <3> HIDE DEF now
    <3> QED BY <1>2, <2>1 DEF JobRow
  <2>3. ph \in BOOLEAN
    <3>1. now.phase \in BOOLEAN
      BY <1>2 DEF JobRow
    <3> QED BY <3>1
  <2> HIDE DEF token, owner, attempts, reclaims, ph
  <2>4. [status |-> "pending", token |-> token, owner |-> owner, attempts |-> attempts,
         reclaims |-> reclaims, phase |-> ph] \in JobRow
    BY <2>1, <2>2, <2>3 DEF JobRow
  <2> QED BY <2>4 DEF token, owner, attempts, reclaims, ph
<1>4. job' = [job EXCEPT ![r.job] = row]
  BY DEF RetryWrite
<1>5. job' \in [Jobs -> JobRow]
  BY <1>2, <1>3, <1>4, Replace
<1> QED BY <1>5 DEF RetryWrite, TypeOK, execVars, fleetVars

\* The fleet.
LEMMA FleetType ==
  ASSUME TypeOK, NEW w \in Workers,
         \/ WorkerCrash(w) \/ WorkerRestart(w) \/ RegistryBeat(w) \/ RegistryExpires(w)
  PROVE  TypeOK'
<1>1. CASE WorkerCrash(w)
  <2>1. exec' \in [Tokens -> Execution]
    BY <1>1, ExecutionTypes DEF WorkerCrash, TypeOK
  <2>2. running' \in [Workers -> [Jobs -> AnyToken]]
    BY <1>1, NullTypes DEF WorkerCrash, TypeOK
  <2> QED BY <1>1, <2>1, <2>2 DEF WorkerCrash, TypeOK, leaseVars
<1>2. CASE WorkerRestart(w)
  BY <1>2 DEF WorkerRestart, TypeOK, leaseVars, execVars
<1>3. CASE RegistryBeat(w)
  BY <1>3 DEF RegistryBeat, TypeOK, leaseVars, execVars
<1>4. CASE RegistryExpires(w)
  BY <1>4 DEF RegistryExpires, TypeOK, leaseVars, execVars
<1> QED BY <1>1, <1>2, <1>3, <1>4

-----------------------------------------------------------------------------
(* What a step does.                                                       *)

\* Execution u keeps its job and its worker.
Same(u) ==
  /\ exec'[u].job = exec[u].job /\ exec'[u].worker = exec[u].worker
  /\ IF exec[u].pc = "unborn" THEN exec'[u] = exec[u] ELSE exec'[u].pc # "unborn"

\* Its scheduler does nothing, or is gone.
Idles(u) ==
  \/ exec'[u].pc \notin InPipeline
  \/ /\ exec[u].pc \in InPipeline
     /\ exec'[u].pc = "run" <=> exec[u].pc = "run"
     /\ exec'[u].left = exec[u].left /\ exec'[u].busy = exec[u].busy
     /\ exec'[u].seen = exec[u].seen /\ exec'[u].errs = exec[u].errs

\* Its scheduler goes on, and sees nothing done that is not.
Advances(u) ==
  /\ exec[u].pc \in InPipeline /\ exec'[u].pc = "run"
  /\ KeepsPhases(exec'[u])
  /\ job[exec[u].job].token = u =>
       \A p \in exec'[u].seen : phase'[exec[u].job][p].st = "done"

\* Job j is done, with every phase done and no pipeline left.
Completes(j) ==
  /\ \A p \in Phases : phase'[j][p].st = "done"
  /\ exec'[job[j].token].pc \notin InPipeline

\* The row of job j gets no new lease, and is done only for a reason.
Steady(j) ==
  /\ job'[j].token \in {job[j].token, NoToken}
  /\ job'[j].status = "done" => job[j].status = "done" \/ Completes(j)

\* The phases of job j that are done stay done ...
Kept(j) == \A p \in Phases : phase[j][p].st = "done" => phase'[j][p].st = "done"

\* ... unless the owner of an unfinished job starts one, or is ended by it.
Restarted(j) ==
  /\ job[j].status # "done" /\ job[j].token \in Tokens
  /\ Advances(job[j].token) \/ exec'[job[j].token].pc \notin InPipeline

Described ==
  /\ minted' = minted
  /\ \A u \in Tokens : Same(u) /\ (Idles(u) \/ Advances(u))
  /\ \A j \in Jobs : Steady(j) /\ (Kept(j) \/ Restarted(j))

LEMMA Step ==
  ASSUME DoneInv, TypeOK', Described
  PROVE  DoneInv'
<1>1. LeaseNamesExecution'
  <2>1. ASSUME NEW t \in Tokens, exec'[t] # Unborn
        PROVE  /\ t <= minted' /\ exec'[t].pc # "unborn"
               /\ exec'[t].job \in Jobs /\ exec'[t].worker \in Workers
    <3>1. Same(t) /\ minted' = minted
      BY DEF Described
    <3>2. exec[t] # Unborn
      BY <2>1, <3>1 DEF Same, Unborn
    <3>3. /\ t <= minted /\ exec[t].pc # "unborn"
          /\ exec[t].job \in Jobs /\ exec[t].worker \in Workers
      BY <3>2 DEF DoneInv, LeaseNamesExecution
    <3> QED BY <3>1, <3>3 DEF Same
  <2>2. ASSUME NEW j \in Jobs, job'[j].token # NoToken
        PROVE  /\ job'[j].token <= minted' /\ exec'[job'[j].token].job = j
               /\ exec'[job'[j].token].pc # "unborn"
    <3>1. job'[j].token = job[j].token /\ job[j].token # NoToken
      BY <2>2 DEF Described, Steady
    <3>2. job[j].token \in Tokens
      BY <3>1 DEF DoneInv, TypeOK, JobRow, AnyToken, Tokens, NoToken
    <3> QED BY <3>1, <3>2 DEF Described, Same, DoneInv, LeaseNamesExecution
  <2> QED BY <2>1, <2>2 DEF LeaseNamesExecution
<1>2. SchedulerKeepsPhases'
  <2>1. ASSUME NEW t \in Tokens, Idles(t) PROVE KeepsPhases(exec'[t])
    <3>1. KeepsPhases(exec[t])
      BY DEF DoneInv, SchedulerKeepsPhases
    <3> QED BY <2>1, <3>1 DEF Idles, KeepsPhases, InPipeline
  <2>2. ASSUME NEW t \in Tokens, Advances(t) PROVE KeepsPhases(exec'[t])
    BY <2>2 DEF Advances
  <2> QED BY <2>1, <2>2 DEF Described, SchedulerKeepsPhases, KeepsPhases
<1>3. SeenStaysDone'
  <2> SUFFICES ASSUME NEW t \in Tokens, exec'[t].pc = "run",
                      job'[exec'[t].job].token = t, NEW p \in exec'[t].seen
               PROVE  phase'[exec'[t].job][p].st = "done"
    BY DEF SeenStaysDone
  <2> DEFINE j == exec[t].job
  <2>1. exec'[t].job = j /\ exec[t].pc # "unborn" /\ t # NoToken
    BY NullTypes DEF Described, Same
  <2>2. j \in Jobs /\ job[j].token = t
    <3>1. exec[t] # Unborn
      BY <2>1 DEF Unborn
    <3>2. j \in Jobs
      BY <3>1 DEF DoneInv, LeaseNamesExecution
    <3> QED BY <2>1, <3>2 DEF Described, Steady
  <2>3. p \in Phases
    BY DEF TypeOK, Execution
  <2>4. CASE Advances(t)
    BY <2>1, <2>2, <2>4 DEF Advances
  <2>5. CASE ~Advances(t)
    <3>1. Idles(t) /\ Kept(j)
      BY <2>2, <2>5 DEF Described, Restarted, InPipeline
    <3>2. exec[t].pc = "run" /\ p \in exec[t].seen
      BY <3>1 DEF Idles, InPipeline
    <3> QED BY <2>1, <2>2, <2>3, <3>1, <3>2 DEF DoneInv, SeenStaysDone, Kept
  <2> QED BY <2>4, <2>5
<1>4. DoneLeftPipeline'
  <2> SUFFICES ASSUME NEW j \in Jobs, job'[j].status = "done", job'[j].token # NoToken
               PROVE  exec'[job'[j].token].pc \notin InPipeline
    BY DEF DoneLeftPipeline
  <2>1. job'[j].token = job[j].token /\ job[j].token # NoToken
    BY DEF Described, Steady
  <2>2. job[j].token \in Tokens
    BY <2>1 DEF DoneInv, TypeOK, JobRow, AnyToken, Tokens, NoToken
  <2>3. CASE job[j].status = "done"
    <3>1. exec[job[j].token].pc \notin InPipeline
      BY <2>1, <2>3 DEF DoneInv, DoneLeftPipeline
    <3> QED BY <2>1, <2>2, <3>1 DEF Described, Idles, Advances
  <2>4. CASE job[j].status # "done"
    BY <2>1, <2>4 DEF Described, Steady, Completes
  <2> QED BY <2>3, <2>4
<1>5. DoneMeansComplete'
  <2> SUFFICES ASSUME NEW j \in Jobs, job'[j].status = "done", NEW p \in Phases
               PROVE  phase'[j][p].st = "done"
    BY DEF DoneMeansComplete
  <2>1. CASE job[j].status = "done"
    BY <2>1 DEF Described, Restarted, Kept, DoneInv, DoneMeansComplete
  <2>2. CASE job[j].status # "done"
    BY <2>2 DEF Described, Steady, Completes
  <2> QED BY <2>1, <2>2
<1> QED BY <1>1, <1>2, <1>3, <1>4, <1>5 DEF DoneInv

-----------------------------------------------------------------------------
(* What the writes of the code do, in these terms.                         *)

LEMMA JobWrite ==
  ASSUME TypeOK, NEW j \in Jobs, NEW row, job' = [job EXCEPT ![j] = row],
         row.token \in {job[j].token, NoToken}, row.status # "done"
  PROVE  \A i \in Jobs : Steady(i)
BY DEF TypeOK, Steady

LEMMA PhaseWrite ==
  ASSUME TypeOK, NEW j \in Jobs, NEW rows, phase' = [phase EXCEPT ![j] = rows],
         \A p \in Phases : phase[j][p].st = "done" => rows[p].st = "done"
  PROVE  \A i \in Jobs : Kept(i)
BY DEF TypeOK, Kept

LEMMA Untouched ==
  /\ UNCHANGED job => \A i \in Jobs : Steady(i)
  /\ UNCHANGED phase => \A i \in Jobs : Kept(i)
  /\ UNCHANGED exec => \A u \in Tokens : Same(u) /\ Idles(u)
BY DEF Steady, Kept, Same, Idles, InPipeline

\* Execution t is replaced by one outside the pipeline.
LEMMA ExecWrite ==
  ASSUME TypeOK, NEW t \in Tokens, exec[t].pc # "unborn", NEW e,
         exec' = [exec EXCEPT ![t] = e],
         e.job = exec[t].job, e.worker = exec[t].worker,
         e.pc \notin InPipeline \cup {"unborn"}
  PROVE  \A u \in Tokens : Same(u) /\ Idles(u)
BY DEF TypeOK, Same, Idles

\* Execution t is replaced by one whose scheduler went on.
LEMMA ExecAdvance ==
  ASSUME TypeOK, NEW t \in Tokens, Advances(t), NEW e,
         exec' = [exec EXCEPT ![t] = e],
         e.job = exec[t].job, e.worker = exec[t].worker
  PROVE  \A u \in Tokens : Same(u) /\ (Idles(u) \/ Advances(u))
BY DEF TypeOK, Same, Idles, Advances, InPipeline

\* What is left of an execution is still the execution of its job.
LEMMA Remains ==
  ASSUME NEW e, NEW pc, NEW why
  PROVE  /\ Over(e).job = e.job /\ Over(e).worker = e.worker /\ Over(e).pc = "over"
         /\ Unwound(e, pc, why).job = e.job /\ Unwound(e, pc, why).worker = e.worker
         /\ Unwound(e, pc, why).pc = pc
BY DEF Over, Unwound, Unborn

LEMMA EndsDescribed ==
  ASSUME TypeOK, NEW t \in Tokens, exec[t].pc # "unborn", Ends(t)
  PROVE  (\A u \in Tokens : Same(u) /\ Idles(u)) /\ exec'[t].pc = "over"
<1>1. exec' = [exec EXCEPT ![t] = Over(exec[t])]
  BY DEF Ends, TypeOK
<1>2. "over" \notin InPipeline \cup {"unborn"}
  BY DEF InPipeline
<1>3. exec'[t] = Over(exec[t])
  BY <1>1 DEF TypeOK
<1> QED BY <1>1, <1>2, <1>3, ExecWrite, Remains

\* A reset of phase rows keeps the done ones.
LEMMA ResetDescribed ==
  ASSUME TypeOK, NEW j \in Jobs, NEW names, NEW from, NEW owners, NEW to,
         "done" \notin from,
         phase' = [phase EXCEPT ![j] = ResetRows(phase[j], names, from, owners, to)]
  PROVE  \A i \in Jobs : Kept(i)
<1> DEFINE rows == ResetRows(phase[j], names, from, owners, to)
<1>1. \A p \in Phases : phase[j][p].st = "done" => rows[p].st = "done"
  BY ResetKeepsDone
<1> HIDE DEF rows
<1>2. phase' = [phase EXCEPT ![j] = rows]
  BY DEF rows
<1> QED BY <1>1, <1>2 DEF TypeOK, Kept

LEMMA MissedWriteDescribed ==
  ASSUME TypeOK, NEW t \in Tokens, Started(t), exec[t].pc # "unborn",
         NEW statuses, MissedWrite(t, statuses)
  PROVE  /\ \A u \in Tokens : Same(u) /\ Idles(u)
         /\ \A i \in Jobs : Steady(i) /\ Kept(i)
<1> DEFINE j   == exec[t].job
           row == [job[j] EXCEPT !.status = "cancelled", !.token = NoToken,
                                 !.owner = Nobody]
<1>1. \A u \in Tokens : Same(u) /\ Idles(u)
  BY EndsDescribed DEF MissedWrite
<1>2. CASE FinalizeCancelled(t)
  <2>1. /\ job' = [job EXCEPT ![j] = row]
        /\ phase' = [phase EXCEPT ![j] =
                       ResetRows(phase[j], Phases, Unfinished, AnyToken, "failed")]
    BY <1>2 DEF FinalizeCancelled, TypeOK
  <2>2. row.token = NoToken /\ row.status # "done"
    <3>1. job[j] \in JobRow
      BY DEF Started, TypeOK
    <3> HIDE DEF j
    <3> QED BY <3>1 DEF JobRow
  <2>3. \A i \in Jobs : Steady(i)
    <3> HIDE DEF row
    <3> QED BY <2>1, <2>2, JobWrite DEF Started
  <2>4. \A i \in Jobs : Kept(i)
    BY <2>1, ResetDescribed DEF Started, Unfinished
  <2> QED BY <1>1, <2>3, <2>4
<1>3. CASE ~FinalizeCancelled(t)
  BY <1>1, <1>3, Untouched DEF MissedWrite
<1> QED BY <1>2, <1>3

LEMMA AbandonDescribed ==
  ASSUME TypeOK, NEW t \in Tokens, Started(t), NEW names, NEW to,
         phase' = Abandon(t, names, to)
  PROVE  \A i \in Jobs : Kept(i)
<1>1. phase' = [phase EXCEPT ![exec[t].job] =
                  ResetRows(phase[exec[t].job], names, Open, {t}, to)]
  BY DEF Abandon, TypeOK
<1>2. exec[t].job \in Jobs /\ "done" \notin Open
  BY DEF Started, Open
<1> DEFINE rows == ResetRows(phase[exec[t].job], names, Open, {t}, to)
<1>3. \A p \in Phases : phase[exec[t].job][p].st = "done" => rows[p].st = "done"
  BY <1>2, ResetKeepsDone
<1> HIDE DEF rows
<1>4. phase' = [phase EXCEPT ![exec[t].job] = rows]
  BY <1>1 DEF rows
<1> QED BY <1>2, <1>3, <1>4 DEF TypeOK, Kept

\* The status of a job is written, and its lease kept or taken away.
LEMMA StatusWrite ==
  ASSUME TypeOK
  PROVE  \A j \in Jobs, s \in JobStatus \ {"done"} :
           /\ job' = [job EXCEPT ![j].status = s] => \A i \in Jobs : Steady(i)
           /\ job' = [job EXCEPT ![j].status = s, ![j].phase = TRUE]
                => \A i \in Jobs : Steady(i)
           /\ job' = [job EXCEPT ![j].status = s, ![j].token = NoToken,
                                 ![j].owner = Nobody]
                => \A i \in Jobs : Steady(i)
<1> SUFFICES ASSUME NEW j \in Jobs, NEW s \in JobStatus \ {"done"}
             PROVE  /\ job' = [job EXCEPT ![j].status = s] => \A i \in Jobs : Steady(i)
                    /\ job' = [job EXCEPT ![j].status = s, ![j].phase = TRUE]
                         => \A i \in Jobs : Steady(i)
                    /\ job' = [job EXCEPT ![j].status = s, ![j].token = NoToken,
                                          ![j].owner = Nobody]
                         => \A i \in Jobs : Steady(i)
  OBVIOUS
<1>1. job \in [Jobs -> JobRow] /\ job[j] \in JobRow
  BY DEF TypeOK
<1>2. ASSUME job' = [job EXCEPT ![j].status = s] PROVE \A i \in Jobs : Steady(i)
  BY <1>1, <1>2 DEF JobRow, Steady
<1>3. ASSUME job' = [job EXCEPT ![j].status = s, ![j].phase = TRUE]
      PROVE  \A i \in Jobs : Steady(i)
  BY <1>1, <1>3 DEF JobRow, Steady
<1>4. ASSUME job' = [job EXCEPT ![j].status = s, ![j].token = NoToken,
                                ![j].owner = Nobody]
      PROVE  \A i \in Jobs : Steady(i)
  BY <1>1, <1>4 DEF JobRow, Steady
<1> QED BY <1>2, <1>3, <1>4

\* An execution that has begun.
LEMMA Begun ==
  ASSUME DoneInv, NEW t \in Tokens, exec[t].pc # "unborn" \/ exec[t].beating
  PROVE  /\ TypeOK /\ Started(t) /\ exec[t] \in Execution /\ KeepsPhases(exec[t])
         /\ exec[t].pc # "unborn"
<1>1. exec[t] # Unborn
  BY DEF Unborn
<1> QED BY <1>1 DEF DoneInv, LeaseNamesExecution, SchedulerKeepsPhases, Started, TypeOK

LEMMA Plain ==
  ASSUME minted' = minted, \A u \in Tokens : Same(u) /\ Idles(u),
         \A i \in Jobs : Steady(i) /\ Kept(i)
  PROVE  Described
BY DEF Described

-----------------------------------------------------------------------------
(* The pipeline's actions.                                                 *)

LEMMA StartRunDescribed ==
  ASSUME DoneInv, NEW t \in Tokens, StartRun(t)
  PROVE  Described
<1> DEFINE j == exec[t].job
<1>1. exec[t].pc = "claimed" /\ minted' = minted
  BY DEF StartRun
<1>2. TypeOK /\ Started(t)
  BY <1>1, Begun
<1>3. CASE MissedWrite(t, Open)
  BY <1>1, <1>2, <1>3, MissedWriteDescribed, Plain
<1>4. CASE ~MissedWrite(t, Open)
  <2>1. /\ job' = [job EXCEPT ![j].status = "running"]
        /\ exec' = [exec EXCEPT ![t].pc = "resume"]
        /\ UNCHANGED phase
    BY <1>4 DEF StartRun
  <2>2. \A i \in Jobs : Steady(i) /\ Kept(i)
    BY <1>2, <2>1, StatusWrite, Untouched DEF Started, JobStatus, Open
  <2>3. \A u \in Tokens : Same(u) /\ Idles(u)
    BY <1>1, <1>2, <2>1 DEF TypeOK, Execution, Same, Idles, InPipeline
  <2> QED BY <1>1, <2>2, <2>3, Plain
<1> QED BY <1>3, <1>4

LEMMA ResumeDescribed ==
  ASSUME DoneInv, NEW t \in Tokens, ResumeDonePhases(t)
  PROVE  Described
<1> DEFINE done == {p \in Phases : phase[exec[t].job][p].st = "done"}
           e    == [exec[t] EXCEPT !.pc = "run", !.seen = done, !.left = Phases \ done]
<1>1. exec[t].pc = "resume" /\ minted' = minted /\ UNCHANGED <<job, phase>>
  BY DEF ResumeDonePhases, leaseVars
<1>2. TypeOK /\ exec[t] \in Execution /\ KeepsPhases(exec[t])
  BY <1>1, Begun
<1>3. exec' = [exec EXCEPT ![t] = e]
  BY <1>2 DEF ResumeDonePhases, TypeOK
<1>4. /\ e.pc = "run" /\ e.seen = done /\ e.left = Phases \ done /\ e.busy = {}
      /\ e.job = exec[t].job /\ e.worker = exec[t].worker
  <2>1. exec[t].busy = {}
    BY <1>1, <1>2 DEF KeepsPhases
  <2> HIDE DEF done
  <2> QED BY <1>2, <2>1 DEF Execution
<1> HIDE DEF e
<1>5. KeepsPhases(e)
  BY <1>4 DEF KeepsPhases
<1>6. exec'[t] = e
  BY <1>2, <1>3 DEF TypeOK
<1>7. Advances(t)
  BY <1>1, <1>4, <1>5, <1>6 DEF Advances, InPipeline
<1>8. \A u \in Tokens : Same(u) /\ (Idles(u) \/ Advances(u))
  BY <1>2, <1>3, <1>4, <1>7, ExecAdvance
<1> QED BY <1>1, <1>8, Untouched DEF Described

LEMMA StartPhaseDescribed ==
  ASSUME DoneInv, NEW t \in Tokens, NEW p \in Phases, StartPhase(t, p)
  PROVE  Described
<1> DEFINE j    == exec[t].job
           rows == [phase[j] EXCEPT ![p] = [st |-> "running", tok |-> t]]
<1>1. exec[t].pc = "run" /\ minted' = minted /\ p \in exec[t].left
  BY DEF StartPhase
<1>2. TypeOK /\ Started(t) /\ exec[t] \in Execution /\ KeepsPhases(exec[t])
  BY <1>1, Begun
<1>3. \A i \in Jobs \ {j} : phase'[i] = phase[i] => Kept(i)
  BY DEF Kept
<1>4. CASE job[j].token # t
  <2>1. Ends(t) /\ UNCHANGED <<job, phase>>
    BY <1>4 DEF StartPhase, Holds, leaseVars
  <2> QED BY <1>1, <1>2, <2>1, EndsDescribed, Untouched, Plain
<1>5. ASSUME Holds(t, JobStatus \ {"done"}), exec'[t].pc \notin InPipeline \/ Advances(t)
      PROVE  Restarted(j)
  BY <1>5 DEF Restarted, Holds
<1>6. CASE Holds(t, Open)
  <2> DEFINE e == [exec[t] EXCEPT !.left = @ \ {p}, !.busy = @ \cup {p}]
  <2>1. /\ phase' = [phase EXCEPT ![j] = rows]
        /\ job' = [job EXCEPT ![j].status = "running", ![j].phase = TRUE]
        /\ exec' = [exec EXCEPT ![t] = e]
    BY <1>2, <1>6 DEF StartPhase, Holds, Open, Terminal, TypeOK
  <2>2. \A i \in Jobs : Steady(i)
    BY <1>2, <2>1, StatusWrite DEF Started, JobStatus, Open
  <2>3. /\ e.pc = "run" /\ e.job = j /\ e.worker = exec[t].worker
        /\ e.left = exec[t].left \ {p} /\ e.busy = exec[t].busy \cup {p}
        /\ e.seen = exec[t].seen /\ e.errs = exec[t].errs
    BY <1>1, <1>2 DEF Execution
  <2> HIDE DEF e
  <2>4. KeepsPhases(e)
    BY <1>1, <1>2, <2>3 DEF KeepsPhases
  <2>5. exec'[t] = e
    BY <1>2, <2>1 DEF TypeOK
  <2>6. ASSUME NEW q \in e.seen PROVE phase'[j][q].st = "done"
    <3>1. q # p
      BY <1>1, <1>2, <2>3 DEF KeepsPhases
    <3>2. phase[j][q].st = "done"
      BY <1>1, <1>6, <2>3 DEF DoneInv, SeenStaysDone, Holds
    <3>3. q \in Phases
      BY <1>2, <2>3 DEF Execution
    <3> QED BY <1>2, <2>1, <3>1, <3>2, <3>3 DEF TypeOK, Started
  <2>7. Advances(t)
    BY <1>1, <2>3, <2>4, <2>5, <2>6 DEF Advances, InPipeline
  <2>8. \A u \in Tokens : Same(u) /\ (Idles(u) \/ Advances(u))
    BY <1>2, <2>1, <2>3, <2>7, ExecAdvance
  <2>9. \A i \in Jobs : Kept(i) \/ Restarted(i)
    <3>1. Restarted(j)
      BY <1>5, <1>6, <2>7 DEF Holds, JobStatus, Open
    <3> QED BY <1>2, <1>3, <2>1, <3>1 DEF TypeOK
  <2> QED BY <1>1, <2>2, <2>8, <2>9 DEF Described
<1>7. CASE Holds(t, {"cancelling"})
  <2>1. /\ job' = [job EXCEPT ![j].status = "cancelled", ![j].token = NoToken,
                              ![j].owner = Nobody]
        /\ phase' = [phase EXCEPT ![j] =
                       ResetRows(rows, Phases, Unfinished, AnyToken, "failed")]
        /\ Ends(t)
    BY <1>7 DEF StartPhase, Holds, Open, Terminal
  <2>2. \A i \in Jobs : Steady(i)
    BY <1>2, <2>1, StatusWrite DEF Started, JobStatus, Terminal
  <2>3. (\A u \in Tokens : Same(u) /\ Idles(u)) /\ exec'[t].pc = "over"
    BY <1>1, <1>2, <2>1, EndsDescribed
  <2>4. Restarted(j)
    BY <1>5, <1>7, <2>3 DEF Holds, JobStatus, InPipeline
  <2>5. \A i \in Jobs : Kept(i) \/ Restarted(i)
    BY <1>2, <1>3, <2>1, <2>4 DEF TypeOK
  <2> QED BY <1>1, <2>2, <2>3, <2>5 DEF Described
<1>8. CASE Holds(t, Terminal)
  <2>1. Ends(t) /\ phase' = [phase EXCEPT ![j] = rows] /\ UNCHANGED job
    BY <1>8 DEF StartPhase, Holds, Open, Terminal
  <2>2. (\A u \in Tokens : Same(u) /\ Idles(u)) /\ exec'[t].pc = "over"
    BY <1>1, <1>2, <2>1, EndsDescribed
  <2>3. job[j].status # "done"
    BY <1>1, <1>2, <1>8, NullTypes
    DEF DoneInv, DoneLeftPipeline, Holds, Started, InPipeline
  <2>4. Restarted(j)
    BY <1>5, <1>8, <2>2, <2>3 DEF Holds, JobStatus, InPipeline
  <2>5. \A i \in Jobs : Kept(i) \/ Restarted(i)
    BY <1>2, <1>3, <2>1, <2>4 DEF TypeOK
  <2> QED BY <1>1, <2>1, <2>2, <2>5, Untouched DEF Described
<1> QED BY <1>4, <1>6, <1>7, <1>8 DEF StartPhase

LEMMA FinishPhaseDescribed ==
  ASSUME DoneInv, NEW t \in Tokens, NEW p \in Phases, FinishPhase(t, p)
  PROVE  Described
<1> DEFINE j == exec[t].job
           e == [exec[t] EXCEPT !.busy = @ \ {p}, !.seen = @ \cup {p}]
<1>1. exec[t].pc = "run" /\ minted' = minted /\ p \in exec[t].busy
  BY DEF FinishPhase
<1>2. TypeOK /\ Started(t) /\ exec[t] \in Execution /\ KeepsPhases(exec[t])
  BY <1>1, Begun
<1>3. CASE phase[j][p].tok # t
  <2>1. Ends(t) /\ UNCHANGED <<job, phase>>
    BY <1>3 DEF FinishPhase, leaseVars
  <2> QED BY <1>1, <1>2, <2>1, EndsDescribed, Untouched, Plain
<1>4. CASE phase[j][p].tok = t
  <2>1. /\ phase' = [phase EXCEPT ![j][p].st = "done"]
        /\ exec' = [exec EXCEPT ![t] = e]
        /\ UNCHANGED job
    BY <1>2, <1>4 DEF FinishPhase, TypeOK
  <2>2. /\ e.pc = "run" /\ e.job = j /\ e.worker = exec[t].worker
        /\ e.left = exec[t].left /\ e.busy = exec[t].busy \ {p}
        /\ e.seen = exec[t].seen \cup {p} /\ e.errs = exec[t].errs
    BY <1>1, <1>2 DEF Execution
  <2> HIDE DEF e
  <2>3. KeepsPhases(e)
    BY <1>1, <1>2, <2>2 DEF KeepsPhases
  <2>4. exec'[t] = e
    BY <1>2, <2>1 DEF TypeOK
  <2>5. \A i \in Jobs : Kept(i)
    BY <1>2, <2>1 DEF TypeOK, PhaseRow, Kept
  <2>6. ASSUME job[j].token = t, NEW q \in e.seen PROVE phase'[j][q].st = "done"
    <3>1. CASE q = p
      BY <1>2, <2>1, <3>1 DEF TypeOK, PhaseRow, Started
    <3>2. CASE q # p
      BY <1>1, <1>2, <2>2, <2>5, <2>6, <3>2
      DEF DoneInv, SeenStaysDone, Kept, Execution, Started
    <3> QED BY <3>1, <3>2
  <2>7. Advances(t)
    BY <1>1, <2>2, <2>3, <2>4, <2>6 DEF Advances, InPipeline
  <2>8. \A u \in Tokens : Same(u) /\ (Idles(u) \/ Advances(u))
    BY <1>2, <2>1, <2>2, <2>7, ExecAdvance
  <2> QED BY <1>1, <2>1, <2>5, <2>8, Untouched DEF Described
<1> QED BY <1>3, <1>4

\* An execution that goes on with the same phases seen, and phase rows kept.
LEMMA AdvanceDescribed ==
  ASSUME DoneInv, NEW t \in Tokens, Started(t), exec[t].pc = "run", NEW e,
         exec' = [exec EXCEPT ![t] = e], KeepsPhases(e),
         e.pc = "run", e.job = exec[t].job, e.worker = exec[t].worker,
         e.seen = exec[t].seen,
         minted' = minted, \A i \in Jobs : Steady(i) /\ Kept(i)
  PROVE  Described
<1>1. TypeOK /\ exec'[t] = e
  BY DEF DoneInv, TypeOK
<1>2. ASSUME job[exec[t].job].token = t, NEW q \in e.seen
      PROVE  phase'[exec[t].job][q].st = "done"
  <2>1. q \in exec[t].seen /\ q \in Phases
    BY <1>1 DEF TypeOK, Execution
  <2>2. phase[exec[t].job][q].st = "done"
    BY <1>2, <2>1 DEF DoneInv, SeenStaysDone
  <2> QED BY <2>1, <2>2 DEF Kept, Started
<1>3. Advances(t)
  BY <1>1, <1>2 DEF Advances, InPipeline
<1>4. \A u \in Tokens : Same(u) /\ (Idles(u) \/ Advances(u))
  BY <1>1, <1>3, ExecAdvance
<1> QED BY <1>4 DEF Described

LEMMA PhaseErrorDescribed ==
  ASSUME DoneInv, NEW t \in Tokens, NEW p \in Phases, NEW kind \in PhaseErrors,
         NEW marked \in BOOLEAN, PhaseError(t, p, kind, marked)
  PROVE  Described
<1> DEFINE j == exec[t].job
           e == [exec[t] EXCEPT !.busy = @ \ {p}, !.errs = @ \cup {<<p, kind>>}]
<1>1. exec[t].pc = "run" /\ minted' = minted
  BY DEF PhaseError
<1>2. TypeOK /\ Started(t) /\ exec[t] \in Execution /\ KeepsPhases(exec[t])
  BY <1>1, Begun
<1>3. CASE Ends(t) /\ UNCHANGED leaseVars
  BY <1>1, <1>2, <1>3, EndsDescribed, Untouched, Plain DEF leaseVars
<1>4. CASE ~(Ends(t) /\ UNCHANGED leaseVars)
  <2>1. /\ phase' = phase \/ (/\ phase[j][p].st # "done"
                               /\ phase' = [phase EXCEPT ![j][p].st = "failed"])
        /\ exec' = [exec EXCEPT ![t] = e]
        /\ UNCHANGED job
    BY <1>2, <1>4 DEF PhaseError, TypeOK
  <2>2. /\ e.pc = "run" /\ e.job = j /\ e.worker = exec[t].worker
        /\ e.left = exec[t].left /\ e.busy = exec[t].busy \ {p}
        /\ e.seen = exec[t].seen /\ e.errs = exec[t].errs \cup {<<p, kind>>}
    BY <1>1, <1>2 DEF Execution
  <2> HIDE DEF e
  <2>3. KeepsPhases(e)
    <3>1. <<p, kind>> \in e.errs /\ <<p, kind>>[1] = p
      BY <2>2
    <3> QED BY <1>1, <1>2, <2>2, <3>1 DEF KeepsPhases
  <2>4. \A i \in Jobs : Kept(i)
    <3>1. CASE phase' = phase
      BY <3>1, Untouched
    <3>2. CASE /\ phase[j][p].st # "done"
               /\ phase' = [phase EXCEPT ![j][p].st = "failed"]
      <4> HIDE DEF j
      <4> QED BY <1>2, <3>2 DEF TypeOK, Kept
    <3> QED BY <2>1, <3>1, <3>2
  <2> QED BY <1>1, <1>2, <2>1, <2>2, <2>3, <2>4, Untouched, AdvanceDescribed
<1> QED BY <1>3, <1>4

LEMMA FailJobDescribed ==
  ASSUME DoneInv, NEW t \in Tokens, NEW p \in Phases, FailJob(t, p)
  PROVE  Described
<1> DEFINE j == exec[t].job
           e == [exec[t] EXCEPT !.errs = (@ \ {<<p, "hard">>}) \cup {<<p, "failed">>}]
<1>1. exec[t].pc = "run" /\ minted' = minted
  BY DEF FailJob
<1>2. TypeOK /\ Started(t) /\ exec[t] \in Execution /\ KeepsPhases(exec[t])
  BY <1>1, Begun
<1>3. CASE MissedWrite(t, Open)
  BY <1>1, <1>2, <1>3, MissedWriteDescribed, Plain
<1>4. CASE ~MissedWrite(t, Open)
  <2>1. /\ job' = [job EXCEPT ![j].status = "failed"]
        /\ exec' = [exec EXCEPT ![t] = e]
        /\ UNCHANGED phase
    BY <1>2, <1>4 DEF FailJob, TypeOK
  <2>2. \A i \in Jobs : Steady(i) /\ Kept(i)
    BY <1>2, <2>1, StatusWrite, Untouched DEF Started, JobStatus, Terminal
  <2>3. /\ e.pc = "run" /\ e.job = j /\ e.worker = exec[t].worker
        /\ e.left = exec[t].left /\ e.busy = exec[t].busy /\ e.seen = exec[t].seen
        /\ e.errs = (exec[t].errs \ {<<p, "hard">>}) \cup {<<p, "failed">>}
    BY <1>1, <1>2 DEF Execution
  <2> HIDE DEF e
  <2>4. ASSUME NEW x \in exec[t].errs PROVE \E y \in e.errs : y[1] = x[1]
    <3>1. CASE x = <<p, "hard">>
      <4>1. <<p, "failed">> \in e.errs /\ <<p, "failed">>[1] = x[1]
        BY <2>3, <3>1
      <4> QED BY <4>1
    <3>2. CASE x # <<p, "hard">>
      BY <2>3, <3>2
    <3> QED BY <3>1, <3>2
  <2>5. KeepsPhases(e)
    <3>1. ASSUME NEW q \in Phases
          PROVE  q \in e.left \cup e.busy \cup e.seen \/ \E y \in e.errs : y[1] = q
      <4>1. \/ q \in exec[t].left \cup exec[t].busy \cup exec[t].seen
            \/ \E x \in exec[t].errs : x[1] = q
        BY <1>1, <1>2 DEF KeepsPhases
      <4> QED BY <2>3, <2>4, <4>1
    <3> QED BY <1>1, <1>2, <2>3, <3>1 DEF KeepsPhases
  <2> QED BY <1>1, <1>2, <2>1, <2>2, <2>3, <2>5, AdvanceDescribed
<1> QED BY <1>3, <1>4

LEMMA UnwindDescribed ==
  ASSUME DoneInv, NEW t \in Tokens, NEW p \in Phases, NEW kind \in Errors,
         Unwind(t, p, kind)
  PROVE  Described
<1>1. exec[t].pc = "run" /\ minted' = minted /\ UNCHANGED job
  BY DEF Unwind
<1>2. TypeOK /\ Started(t)
  BY <1>1, Begun
<1>3. \A i \in Jobs : Steady(i) /\ Kept(i)
  BY <1>1, <1>2, AbandonDescribed, Untouched DEF Unwind
<1>4. CASE Ends(t)
  BY <1>1, <1>2, <1>3, <1>4, EndsDescribed, Plain
<1>5. CASE ~Ends(t)
  <2>1. exec' = [exec EXCEPT ![t] = Unwound(exec[t], "report", kind)]
    BY <1>2, <1>5 DEF Unwind, TypeOK
  <2>2. "report" \notin InPipeline \cup {"unborn"} /\ exec[t].pc # "unborn"
    BY <1>1 DEF InPipeline
  <2> DEFINE e == Unwound(exec[t], "report", kind)
  <2>3. e.job = exec[t].job /\ e.worker = exec[t].worker /\ e.pc = "report"
    BY DEF Unwound, Unborn
  <2> HIDE DEF e
  <2>4. exec' = [exec EXCEPT ![t] = e]
    BY <2>1 DEF e
  <2>5. \A u \in Tokens : Same(u) /\ Idles(u)
    BY <1>2, <2>2, <2>3, <2>4, ExecWrite
  <2> QED BY <1>1, <1>3, <2>5, Plain
<1> QED BY <1>4, <1>5

\* The step that DoneMeansComplete is about.
LEMMA CompleteJobDescribed ==
  ASSUME DoneInv, NEW t \in Tokens, CompleteJob(t)
  PROVE  Described
<1> DEFINE j == exec[t].job
<1>1. exec[t].pc = "run" /\ minted' = minted
  BY DEF CompleteJob
<1>2. TypeOK /\ Started(t) /\ exec[t] \in Execution /\ KeepsPhases(exec[t])
  BY <1>1, Begun
<1>3. CASE MissedWrite(t, Open)
  BY <1>1, <1>2, <1>3, MissedWriteDescribed, Plain
<1>4. CASE ~MissedWrite(t, Open)
  <2>1. /\ Holds(t, Open)
        /\ job' = [job EXCEPT ![j].status = "done"]
        /\ exec' = [exec EXCEPT ![t].pc = "publish"]
        /\ UNCHANGED phase
    BY <1>4 DEF CompleteJob
  <2>2. Phases \subseteq exec[t].seen
    BY <1>1, <1>2 DEF CompleteJob, KeepsPhases
  <2>3. \A p \in Phases : phase'[j][p].st = "done"
    BY <1>1, <2>1, <2>2 DEF DoneInv, SeenStaysDone, Holds
  <2>4. exec'[t].pc = "publish" /\ \A u \in Tokens : Same(u) /\ Idles(u)
    BY <1>1, <1>2, <2>1 DEF TypeOK, Execution, Same, Idles, InPipeline
  <2>5. Completes(j)
    BY <2>1, <2>3, <2>4 DEF Completes, Holds, InPipeline
  <2>6. \A i \in Jobs : Steady(i)
    BY <1>2, <2>1, <2>5 DEF TypeOK, JobRow, Steady
  <2> QED BY <1>1, <2>1, <2>4, <2>6, Untouched, Plain
<1> QED BY <1>3, <1>4

LEMMA CrashDescribed ==
  ASSUME DoneInv, NEW t \in Tokens, Crash(t)
  PROVE  Described
<1>1. exec[t].pc # "unborn" /\ minted' = minted
  BY DEF Crash
<1>2. TypeOK /\ Started(t)
  BY <1>1, Begun
<1>3. CASE MissedWrite(t, Open)
  BY <1>1, <1>2, <1>3, MissedWriteDescribed, Plain
<1>4. CASE ~MissedWrite(t, Open)
  <2>1. job' = [job EXCEPT ![exec[t].job].status = "failed"] /\ Ends(t) /\ UNCHANGED phase
    BY <1>4 DEF Crash
  <2>2. \A i \in Jobs : Steady(i) /\ Kept(i)
    BY <1>2, <2>1, StatusWrite, Untouched DEF Started, JobStatus, Terminal
  <2> QED BY <1>1, <1>2, <2>1, <2>2, EndsDescribed, Plain
<1> QED BY <1>3, <1>4

LEMMA StoppedDescribed ==
  ASSUME DoneInv, NEW t \in Tokens, JobTimeout(t) \/ StopScheduler(t)
  PROVE  Described
<1>1. exec[t].pc # "unborn" /\ minted' = minted /\ UNCHANGED job
  BY DEF JobTimeout, StopScheduler, InPipeline
<1>2. TypeOK /\ Started(t)
  BY <1>1, Begun
<1>3. \A i \in Jobs : Steady(i) /\ Kept(i)
  BY <1>1, <1>2, AbandonDescribed, Untouched DEF JobTimeout, StopScheduler
<1>4. \/ exec' = [exec EXCEPT ![t] = Unwound(exec[t], "report", "timeout")]
      \/ exec' = [exec EXCEPT ![t] = Unwound(exec[t], "interrupted", "none")]
  BY <1>2 DEF JobTimeout, StopScheduler, TypeOK
<1>5. \A u \in Tokens : Same(u) /\ Idles(u)
  BY <1>1, <1>2, <1>4, ExecWrite, Remains DEF InPipeline
<1> QED BY <1>1, <1>3, <1>5, Plain

\* The task returns, and the database is as it was.
LEMMA ReturnDescribed ==
  ASSUME DoneInv, NEW t \in Tokens, exec[t].pc # "unborn", Ends(t),
         UNCHANGED leaseVars, minted' = minted
  PROVE  Described
BY Begun, EndsDescribed, Untouched, Plain DEF leaseVars

-----------------------------------------------------------------------------
(* The worker's actions.                                                   *)

LEMMA MarkFailedDescribed ==
  ASSUME DoneInv, NEW t \in Tokens, MarkFailedWithRetry(t)
  PROVE  Described
<1> DEFINE j    == exec[t].job
           last == job[j].attempts >= MaxAttempts
           row  == IF last
                   THEN [job[j] EXCEPT !.status = "failed", !.owner = Nobody]
                   ELSE [Requeued(job[j]) EXCEPT !.reclaims = 0]
           rows == IF last
                   THEN ResetRows(phase[j], Phases, Open, AnyToken, "failed")
                   ELSE ResetRows(phase[j], Phases, Open, {t}, "pending")
<1>1. exec[t].pc # "unborn" /\ minted' = minted
  BY DEF MarkFailedWithRetry
<1>2. TypeOK /\ Started(t)
  BY <1>1, Begun
<1>3. CASE MissedWrite(t, {"running"})
  BY <1>1, <1>2, <1>3, MissedWriteDescribed, Plain
<1>4. CASE ~MissedWrite(t, {"running"})
  <2>1. /\ job' = [job EXCEPT ![j] = row] /\ phase' = [phase EXCEPT ![j] = rows]
        /\ Ends(t)
    BY <1>2, <1>4 DEF MarkFailedWithRetry, Started, TypeOK
  <2>2. row.token \in {job[j].token, NoToken} /\ row.status # "done"
    <3>1. job[j] \in JobRow
      BY <1>2 DEF Started, TypeOK
    <3> HIDE DEF j
    <3> QED BY <3>1 DEF Requeued, JobRow
  <2>3. \A i \in Jobs : Steady(i)
    <3> HIDE DEF row
    <3> QED BY <1>2, <2>1, <2>2, JobWrite DEF Started
  <2>4. \A p \in Phases : phase[j][p].st = "done" => rows[p].st = "done"
    BY ResetKeepsDone DEF Open
  <2>5. \A i \in Jobs : Kept(i)
    <3> HIDE DEF rows, j
    <3> QED BY <1>2, <2>1, <2>4 DEF Kept, TypeOK
  <2> QED BY <1>1, <1>2, <2>1, <2>3, <2>5, EndsDescribed, Plain
<1> QED BY <1>3, <1>4

LEMMA RequeueRefundedDescribed ==
  ASSUME DoneInv, NEW t \in Tokens, RequeueRefunded(t)
  PROVE  Described
<1> DEFINE j    == exec[t].job
           row  == Refunded(job[j])
<1>1. exec[t].pc # "unborn" /\ minted' = minted
  BY DEF RequeueRefunded
<1>2. TypeOK /\ Started(t)
  BY <1>1, Begun
<1>3. CASE MissedWrite(t, {"running"})
  BY <1>1, <1>2, <1>3, MissedWriteDescribed, Plain
<1>4. CASE ~MissedWrite(t, {"running"})
  <2>1. /\ job' = [job EXCEPT ![j] = row]
        /\ phase' = [phase EXCEPT ![j] =
                       ResetRows(phase[j], Phases, Open, {t}, "pending")]
        /\ Ends(t)
    BY <1>2, <1>4 DEF RequeueRefunded, Started, TypeOK
  <2>2. row.token = NoToken /\ row.status # "done"
    <3>1. job[j] \in JobRow
      BY <1>2 DEF Started, TypeOK
    <3> HIDE DEF j
    <3> QED BY <3>1 DEF Refunded, Requeued, JobRow
  <2>3. \A i \in Jobs : Steady(i)
    <3> HIDE DEF row
    <3> QED BY <1>2, <2>1, <2>2, JobWrite DEF Started
  <2>4. \A i \in Jobs : Kept(i)
    BY <1>2, <2>1, ResetDescribed DEF Started, Open
  <2> QED BY <1>1, <1>2, <2>1, <2>3, <2>4, EndsDescribed, Plain
<1> QED BY <1>3, <1>4

\* task.cancel() takes an execution out of the pipeline, if it has an effect.
LEMMA CancelledDescribed ==
  ASSUME NEW e \in Execution
  PROVE  /\ Cancelled(e).job = e.job /\ Cancelled(e).worker = e.worker
         /\ IF e.pc = "unborn" THEN Cancelled(e) = e ELSE Cancelled(e).pc # "unborn"
         /\ Cancelled(e).pc \notin InPipeline
BY DEF Cancelled, Execution, Pc, InPipeline

LEMMA CancelRunningDescribed ==
  ASSUME NEW w, NEW j, NEW u \in Tokens, NEW execs \in [Tokens -> Execution]
  PROVE  CancelRunning(execs, w, j)[u] \in {execs[u], Cancelled(execs[u])}
BY DEF CancelRunning

LEMMA HeartbeatDescribed ==
  ASSUME DoneInv, NEW t \in Tokens, Heartbeat(t)
  PROVE  Described
<1> DEFINE silent == [exec EXCEPT ![t].beating = FALSE]
<1>1. UNCHANGED <<job, phase>> /\ minted' = minted
  BY DEF Heartbeat, leaseVars
<1>2. TypeOK /\ exec[t].pc # "unborn"
  BY Begun DEF Heartbeat
<1>3. ASSUME NEW u \in Tokens
      PROVE  /\ silent[u] \in Execution
             /\ silent[u].job = exec[u].job /\ silent[u].worker = exec[u].worker
             /\ silent[u].pc = exec[u].pc
             /\ exec[u].pc = "unborn" => silent[u] = exec[u]
             /\ silent[u].left = exec[u].left /\ silent[u].busy = exec[u].busy
             /\ silent[u].seen = exec[u].seen /\ silent[u].errs = exec[u].errs
  <2>1. CASE u # t
    BY <1>2, <2>1 DEF TypeOK
  <2>2. CASE u = t
    <3>1. silent[t] = [exec[t] EXCEPT !.beating = FALSE] /\ exec[t] \in Execution
      BY <1>2 DEF TypeOK
    <3> HIDE DEF silent
    <3> QED BY <1>2, <2>2, <3>1 DEF Execution
  <2> QED BY <2>1, <2>2
<1>4. silent \in [Tokens -> Execution]
  BY <1>2, <1>3 DEF TypeOK
<1> HIDE DEF silent
<1>5. ASSUME NEW u \in Tokens
      PROVE  exec'[u] \in {silent[u], Cancelled(silent[u])}
  BY <1>4, CancelRunningDescribed DEF Heartbeat, silent
<1>6. ASSUME NEW u \in Tokens PROVE Same(u) /\ Idles(u)
  <2>1. CASE exec'[u] = silent[u]
    BY <1>3, <2>1 DEF Same, Idles, InPipeline
  <2>2. CASE exec'[u] = Cancelled(silent[u])
    BY <1>3, <2>2, CancelledDescribed DEF Same, Idles
  <2> QED BY <1>5, <2>1, <2>2
<1> QED BY <1>1, <1>6, Untouched, Plain

LEMMA ReadCancellingDescribed ==
  ASSUME DoneInv, NEW t \in Tokens, ReadCancelling(t)
  PROVE  Described
<1>1. exec[t].pc = "interrupted" /\ minted' = minted /\ UNCHANGED leaseVars
  BY DEF ReadCancelling
<1>2. CASE Ends(t)
  BY <1>1, <1>2, ReturnDescribed
<1>3. CASE ~Ends(t)
  <2>1. exec' = [exec EXCEPT ![t].pc = "finalize"]
    BY <1>3 DEF ReadCancelling
  <2>2. TypeOK
    BY DEF DoneInv
  <2>3. \A u \in Tokens : Same(u) /\ Idles(u)
    BY <1>1, <2>1, <2>2 DEF TypeOK, Execution, Same, Idles, InPipeline
  <2> QED BY <1>1, <2>3, Untouched, Plain DEF leaseVars
<1> QED BY <1>2, <1>3

LEMMA MarkCancelledDescribed ==
  ASSUME DoneInv, NEW t \in Tokens, MarkCancelled(t)
  PROVE  Described
<1> DEFINE j    == exec[t].job
           rows == [p \in Phases |-> IF phase[j][p].st \in Unfinished
                                     THEN [phase[j][p] EXCEPT !.st = "failed"]
                                     ELSE phase[j][p]]
<1>1. exec[t].pc = "finalize" /\ minted' = minted
  BY DEF MarkCancelled
<1>2. TypeOK /\ Started(t)
  BY <1>1, Begun
<1>3. /\ job' = [job EXCEPT ![j].status = "cancelled"]
      /\ phase' = [phase EXCEPT ![j] = rows]
      /\ Ends(t)
  BY <1>2 DEF MarkCancelled, Started, TypeOK
<1>4. \A i \in Jobs : Steady(i)
  BY <1>2, <1>3, StatusWrite DEF Started, JobStatus, Terminal
<1>5. \A p \in Phases : phase[j][p].st = "done" => rows[p].st = "done"
  BY DEF Unfinished
<1>6. \A i \in Jobs : Kept(i)
  <2> HIDE DEF rows, j
  <2> QED BY <1>2, <1>3, <1>5 DEF Kept, TypeOK
<1> QED BY <1>1, <1>2, <1>3, <1>4, <1>6, EndsDescribed, Plain

-----------------------------------------------------------------------------
(* The sweep, the operator and the fleet.                                  *)

LEMMA SweepDescribed ==
  ASSUME DoneInv, NEW w \in Workers,
         NEW stale \in SUBSET RunningJobs, NEW forced \in SUBSET RunningJobs,
         NEW quit \in SUBSET CancellingJobs, Sweep(w, stale, forced, quit)
  PROVE  Described
<1> DEFINE swept(j) == IF j \in stale \cup forced THEN Reclaimed(j)
                       ELSE IF j \in quit
                       THEN [job[j] EXCEPT !.status = "cancelled",
                                           !.token = NoToken, !.owner = Nobody]
                       ELSE job[j]
           requeued(j) ==
             IF j \in stale \cup forced
             THEN ResetRows(phase[j], Phases, {"running"}, AnyToken, "pending")
             ELSE phase[j]
<1>1. TypeOK /\ minted' = minted /\ exec' = exec
  BY DEF DoneInv, Sweep, execVars
<1>2. ASSUME NEW j \in Jobs
      PROVE  /\ swept(j).token \in {job[j].token, NoToken}
             /\ swept(j).status = "done" => job[j].status = "done"
  <2>1. job[j] \in JobRow
    BY <1>1 DEF TypeOK
  <2>2. Requeued(job[j]) \in JobRow /\ Requeued(job[j]).token = NoToken
        /\ Requeued(job[j]).status = "pending"
    BY <2>1, JobRowTypes DEF Requeued, JobRow
  <2>3. Reclaimed(j).token = NoToken /\ Reclaimed(j).status = "pending"
    BY <2>2 DEF Reclaimed, JobRow
  <2> QED BY <2>1, <2>3 DEF JobRow
<1>3. ASSUME NEW j \in Jobs, NEW p \in Phases, phase[j][p].st = "done"
      PROVE  requeued(j)[p].st = "done"
  BY <1>3, ResetKeepsDone
<1>4. job' = [j \in Jobs |-> FailExhausted(swept(j))]
  BY DEF Sweep
<1>5. phase' = [j \in Jobs |->
                  IF Exhausted(swept(j))
                  THEN ResetRows(requeued(j), Phases, Open, AnyToken, "failed")
                  ELSE requeued(j)]
  BY DEF Sweep
<1>6. ASSUME NEW j \in Jobs PROVE swept(j) \in JobRow
  <2>1. [job[j] EXCEPT !.status = "cancelled", !.token = NoToken, !.owner = Nobody] \in JobRow
    BY <1>1, JobRowTypes DEF TypeOK, JobStatus, Terminal
  <2> QED BY <1>1, <2>1, ReclaimedType DEF TypeOK
<1> HIDE DEF swept, requeued
<1>7. ASSUME NEW j \in Jobs PROVE Steady(j)
  <2>1. job'[j] = FailExhausted(swept(j))
    BY <1>4
  <2>2. /\ FailExhausted(swept(j)).token \in {swept(j).token, NoToken}
        /\ FailExhausted(swept(j)).status = "done" => swept(j).status = "done"
    BY <1>6 DEF FailExhausted, JobRow
  <2> QED BY <1>2, <2>1, <2>2 DEF Steady
<1>8. ASSUME NEW j \in Jobs PROVE Kept(j)
  <2>1. ASSUME NEW p \in Phases, phase[j][p].st = "done" PROVE phase'[j][p].st = "done"
    BY <1>3, <1>5, <2>1, ResetKeepsDone DEF Open
  <2> QED BY <2>1 DEF Kept
<1> QED BY <1>1, <1>7, <1>8, Untouched, Plain

LEMMA CancelDescribed ==
  ASSUME DoneInv, NEW j \in Jobs,
         CancelIfPending(j) \/ \E host \in Workers \cup {Nobody} : RequestCancel(j, host)
  PROVE  Described
<1>1. TypeOK
  BY DEF DoneInv
<1>2. \E s \in {"cancelled", "cancelling"} : job' = [job EXCEPT ![j].status = s]
  BY DEF CancelIfPending, RequestCancel
<1>3. \A i \in Jobs : Steady(i)
  BY <1>1, <1>2, StatusWrite DEF JobStatus, Terminal
<1>4. ASSUME NEW u \in Tokens PROVE exec'[u] \in {exec[u], Cancelled(exec[u])}
  <2>1. exec \in [Tokens -> Execution]
    BY <1>1 DEF TypeOK
  <2> QED BY <2>1, CancelRunningDescribed DEF CancelIfPending, RequestCancel, execVars
<1>5. ASSUME NEW u \in Tokens PROVE Same(u) /\ Idles(u)
  <2>1. exec[u] \in Execution
    BY <1>1 DEF TypeOK
  <2> QED BY <1>4, <2>1, CancelledDescribed DEF Same, Idles, InPipeline
<1>6. minted' = minted /\ phase' = phase
  BY DEF CancelIfPending, RequestCancel, execVars
<1> QED BY <1>3, <1>5, <1>6, Untouched, Plain

LEMMA RetryDescribed ==
  ASSUME DoneInv,
         \/ \E o \in Operators, j \in Jobs : RetryRead(o, j)
         \/ \E r \in retries : RetryWrite(r)
  PROVE  Described
<1>1. TypeOK
  BY DEF DoneInv
<1>2. CASE \E o \in Operators, j \in Jobs : RetryRead(o, j)
  BY <1>2, Untouched, Plain DEF RetryRead, leaseVars, execVars
<1>3. ASSUME NEW r \in retries, RetryWrite(r) PROVE Described
  <2>1. UNCHANGED <<phase, exec, minted>>
    BY <1>3 DEF RetryWrite, execVars
  <2>2. ASSUME NEW i \in Jobs PROVE Steady(i)
    BY <1>1, <1>3 DEF RetryWrite, TypeOK, Steady
  <2> QED BY <2>1, <2>2, Untouched, Plain
<1> QED BY <1>2, <1>3

LEMMA FleetDescribed ==
  ASSUME DoneInv, NEW w \in Workers,
         \/ WorkerCrash(w) \/ WorkerRestart(w) \/ RegistryBeat(w) \/ RegistryExpires(w)
  PROVE  Described
<1>1. UNCHANGED <<job, phase, minted>>
  BY DEF WorkerCrash, WorkerRestart, RegistryBeat, RegistryExpires, leaseVars, execVars
<1>2. ASSUME NEW u \in Tokens PROVE Same(u) /\ Idles(u)
  <2>1. exec'[u] = exec[u] \/ (exec[u].worker = w /\ exec'[u] = Over(exec[u]))
    BY DEF WorkerCrash, WorkerRestart, RegistryBeat, RegistryExpires, execVars
  <2>2. exec[u].worker = w => exec[u].pc # "unborn"
    BY Assumptions DEF DoneInv, LeaseNamesExecution, Unborn, Assumptions
  <2> QED BY <2>1, <2>2, Remains DEF Same, Idles, InPipeline
<1> QED BY <1>1, <1>2, Untouched, Plain

\* A claim mints a token that no execution and no row has.
LEMMA ClaimDone ==
  ASSUME DoneInv, NEW w \in Workers, NEW j \in Jobs, ClaimNextJob(w, j)
  PROVE  DoneInv'
<1> DEFINE t == minted + 1
           e == [Unborn EXCEPT !.job = j, !.worker = w, !.pc = "claimed", !.beating = TRUE]
           row == [job[j] EXCEPT !.status = "running", !.token = t, !.owner = w,
                                 !.attempts = @ + 1]
<1>1. TypeOK /\ TypeOK'
  BY ClaimType DEF DoneInv
<1>2. t \in Tokens /\ t # NoToken /\ minted \in Nat /\ minted' = t
  BY <1>1, Assumptions DEF TypeOK, ClaimNextJob, Tokens, NoToken, Assumptions
<1>3. /\ job[j].status = "pending" /\ job' = [job EXCEPT ![j] = row]
      /\ exec' = [exec EXCEPT ![t] = e] /\ phase' = phase
  BY <1>1 DEF ClaimNextJob, TypeOK
<1>4. /\ e.job = j /\ e.worker = w /\ e.pc = "claimed" /\ e.left = {} /\ e.busy = {}
      /\ e.seen = {}
  BY DEF Unborn
<1>5. row.token = t /\ row.status = "running"
  BY <1>1 DEF TypeOK, JobRow
<1> HIDE DEF e, row
<1>6. exec'[t] = e /\ \A u \in Tokens \ {t} : exec'[u] = exec[u]
  BY <1>1, <1>2, <1>3 DEF TypeOK
<1>7. job'[j] = row /\ \A i \in Jobs \ {j} : job'[i] = job[i]
  BY <1>1, <1>3 DEF TypeOK
<1>8. \A i \in Jobs : job[i].token # t
  BY <1>2 DEF DoneInv, LeaseNamesExecution
<1>9. ASSUME NEW i \in Jobs \ {j}, job'[i].token # NoToken
      PROVE  /\ job'[i].token = job[i].token /\ job[i].token \in Tokens \ {t}
             /\ exec'[job[i].token] = exec[job[i].token]
  <2>1. job'[i].token = job[i].token /\ job[i].token \in Tokens \ {t}
    BY <1>1, <1>7, <1>8, <1>9 DEF TypeOK, JobRow, AnyToken, Tokens, NoToken
  <2> QED BY <1>6, <2>1
<1>10. LeaseNamesExecution'
  <2>1. ASSUME NEW u \in Tokens, exec'[u] # Unborn
        PROVE  /\ u <= minted' /\ exec'[u].pc # "unborn"
               /\ exec'[u].job \in Jobs /\ exec'[u].worker \in Workers
    <3>1. CASE u = t
      BY <1>2, <1>4, <1>6, <3>1
    <3>2. CASE u # t
      <4>1. exec'[u] = exec[u]
        BY <1>6, <3>2
      <4>2. u <= minted /\ u \in Nat
        BY <2>1, <4>1 DEF DoneInv, LeaseNamesExecution, Tokens
      <4>3. u <= minted'
        BY <1>2, <4>2
      <4> QED BY <2>1, <4>1, <4>3 DEF DoneInv, LeaseNamesExecution
    <3> QED BY <3>1, <3>2
  <2>2. ASSUME NEW i \in Jobs, job'[i].token # NoToken
        PROVE  /\ job'[i].token <= minted' /\ exec'[job'[i].token].job = i
               /\ exec'[job'[i].token].pc # "unborn"
    <3>1. CASE i = j
      BY <1>2, <1>4, <1>5, <1>6, <1>7, <3>1
    <3>2. CASE i # j
      <4>1. /\ job'[i].token = job[i].token /\ job[i].token \in Tokens \ {t}
            /\ exec'[job[i].token] = exec[job[i].token]
        BY <1>9, <2>2, <3>2
      <4>2. /\ job[i].token <= minted /\ exec[job[i].token].job = i
            /\ exec[job[i].token].pc # "unborn"
        BY <2>2, <4>1 DEF DoneInv, LeaseNamesExecution
      <4>3. job[i].token <= minted'
        BY <1>2, <4>1, <4>2 DEF Tokens
      <4> QED BY <4>1, <4>2, <4>3
    <3> QED BY <3>1, <3>2
  <2> QED BY <2>1, <2>2 DEF LeaseNamesExecution
<1>11. SchedulerKeepsPhases'
  <2>1. KeepsPhases(e)
    BY <1>4 DEF KeepsPhases
  <2> QED BY <1>6, <2>1 DEF DoneInv, SchedulerKeepsPhases, KeepsPhases
<1>12. SeenStaysDone'
  <2> SUFFICES ASSUME NEW u \in Tokens, exec'[u].pc = "run",
                      job'[exec'[u].job].token = u, NEW p \in exec'[u].seen
               PROVE  phase'[exec'[u].job][p].st = "done"
    BY DEF SeenStaysDone
  <2>1. u # t /\ exec'[u] = exec[u]
    BY <1>4, <1>6
  <2>2. exec[u].job \in Jobs
    <3>1. exec[u] # Unborn
      BY <2>1 DEF Unborn
    <3> QED BY <3>1 DEF DoneInv, LeaseNamesExecution
  <2>3. job[exec[u].job].token = u
    BY <1>5, <1>7, <2>1, <2>2
  <2> QED BY <1>3, <2>1, <2>3 DEF DoneInv, SeenStaysDone
<1>13. DoneLeftPipeline'
  <2> SUFFICES ASSUME NEW i \in Jobs, job'[i].status = "done", job'[i].token # NoToken
               PROVE  exec'[job'[i].token].pc \notin InPipeline
    BY DEF DoneLeftPipeline
  <2>1. i # j /\ job'[i] = job[i]
    BY <1>5, <1>7
  <2> QED BY <1>9, <2>1 DEF DoneInv, DoneLeftPipeline
<1>14. DoneMeansComplete'
  BY <1>3, <1>5, <1>7 DEF DoneInv, DoneMeansComplete
<1> QED BY <1>1, <1>10, <1>11, <1>12, <1>13, <1>14 DEF DoneInv

-----------------------------------------------------------------------------
(* The theorems.                                                           *)

LEMMA InitDone == Init => DoneInv
<1> SUFFICES ASSUME Init PROVE DoneInv
  OBVIOUS
<1>1. TypeOK
  BY TypeInit
<1>2. LeaseNamesExecution /\ DoneLeftPipeline /\ DoneMeansComplete
  BY DEF Init, LeaseNamesExecution, DoneLeftPipeline, DoneMeansComplete, NewJob
<1>3. SchedulerKeepsPhases /\ SeenStaysDone
  BY DEF Init, SchedulerKeepsPhases, SeenStaysDone, KeepsPhases, Unborn
<1> QED BY <1>1, <1>2, <1>3 DEF DoneInv

LEMMA ExecTypeOK ==
  ASSUME DoneInv, NEW t \in Tokens, ExecStep(t)
  PROVE  TypeOK'
<1>1. TypeOK /\ Started(t)
  <2>1. exec[t].pc # "unborn" \/ exec[t].beating
    BY DEF ExecStep, PipelineStep, WorkerStep, StartRun, ResumeDonePhases, CompleteJob,
           Crash, JobTimeout, EndPublish, StartPhase, FinishPhase, FailJob, PhaseError,
           Unwind, MarkFailedWithRetry, RequeueRefunded, DatabaseOutage, Heartbeat,
           StopScheduler, ReadCancelling, Die, MarkCancelled, InPipeline
  <2> QED BY <2>1, Begun
<1>2. LeaseType' /\ ExecType'
  <2>1. CASE PipelineStep(t)
    BY <1>1, <2>1, StartRunType, ResumeType, CompleteJobType, CrashType, StoppedType,
       ReturnType, StartPhaseType, FinishPhaseType, FailJobType, PhaseErrorType, UnwindType
    DEF PipelineStep, EndPublish
  <2>2. CASE WorkerStep(t)
    BY <1>1, <2>2, MarkFailedType, RequeueRefundedType, ReturnType, HeartbeatType,
       StoppedType, ReadCancellingType
    DEF WorkerStep, DatabaseOutage, Die
  <2>3. CASE MarkCancelled(t)
    BY <1>1, <2>3, MarkCancelledType
  <2> QED BY <2>1, <2>2, <2>3 DEF ExecStep
<1>3. UNCHANGED <<minted, fleetVars, retries>>
  BY DEF ExecStep, PipelineStep, WorkerStep, StartRun, ResumeDonePhases, CompleteJob,
         Crash, JobTimeout, EndPublish, StartPhase, FinishPhase, FailJob, PhaseError,
         Unwind, MarkFailedWithRetry, RequeueRefunded, DatabaseOutage, Heartbeat,
         StopScheduler, ReadCancelling, Die, MarkCancelled
<1> QED BY <1>1, <1>2, <1>3, TypeFrame DEF TypeOK

LEMMA ExecDescribed ==
  ASSUME DoneInv, NEW t \in Tokens, ExecStep(t)
  PROVE  Described
<1>1. CASE PipelineStep(t)
  <2>1. CASE EndPublish(t)
    BY <2>1, ReturnDescribed DEF EndPublish
  <2> QED
    BY <1>1, <2>1, StartRunDescribed, ResumeDescribed, CompleteJobDescribed,
       CrashDescribed, StoppedDescribed, StartPhaseDescribed, FinishPhaseDescribed,
       FailJobDescribed, PhaseErrorDescribed, UnwindDescribed
    DEF PipelineStep
<1>2. CASE WorkerStep(t)
  <2>1. CASE DatabaseOutage(t) \/ Die(t)
    BY <2>1, ReturnDescribed DEF DatabaseOutage, Die, InPipeline
  <2> QED
    BY <1>2, <2>1, MarkFailedDescribed, RequeueRefundedDescribed, HeartbeatDescribed,
       StoppedDescribed, ReadCancellingDescribed
    DEF WorkerStep
<1>3. CASE MarkCancelled(t)
  BY <1>3, MarkCancelledDescribed
<1> QED BY <1>1, <1>2, <1>3 DEF ExecStep

LEMMA StepDone ==
  ASSUME DoneInv, [Next]_vars
  PROVE  DoneInv'
<1>1. TypeOK
  BY DEF DoneInv
<1>2. ASSUME NEW t \in Tokens, ExecStep(t) PROVE DoneInv'
  BY <1>2, ExecTypeOK, ExecDescribed, Step
<1>3. ASSUME NEW w \in Workers, FleetStep(w) PROVE DoneInv'
  <2>1. CASE \E j \in Jobs : ClaimNextJob(w, j)
    BY <2>1, ClaimDone
  <2>2. CASE SomeSweep(w)
    <3>1. PICK stale \in SUBSET StaleJobs, quit \in SUBSET CancellingJobs :
            \E forced \in SUBSET (RunningJobs \ stale) : Sweep(w, stale, forced, quit)
      BY <2>2 DEF SomeSweep
    <3>2. PICK forced \in SUBSET (RunningJobs \ stale) : Sweep(w, stale, forced, quit)
      BY <3>1
    <3>3. stale \in SUBSET RunningJobs /\ forced \in SUBSET RunningJobs
      BY <3>1, <3>2 DEF StaleJobs
    <3>4. Described
      BY <3>2, <3>3, SweepDescribed
    <3>5. TypeOK'
      <4>1. LeaseType' /\ ExecType'
        BY <1>1, <3>2, SweepType
      <4> QED BY <1>1, <3>2, <4>1, TypeFrame DEF Sweep, execVars, TypeOK
    <3> QED BY <3>4, <3>5, Step
  <2>3. CASE \/ WorkerCrash(w) \/ WorkerRestart(w)
             \/ RegistryBeat(w) \/ RegistryExpires(w)
    BY <1>1, <2>3, FleetType, FleetDescribed, Step
  <2> QED BY <1>3, <2>1, <2>2, <2>3 DEF FleetStep
<1>4. CASE OperatorStep
  <2>1. TypeOK'
    BY <1>1, <1>4, CancelType, RetryReadType, RetryWriteType DEF OperatorStep
  <2>2. Described
    BY <1>4, CancelDescribed, RetryDescribed DEF OperatorStep
  <2> QED BY <2>1, <2>2, Step
<1>5. CASE UNCHANGED vars
  <2>1. TypeOK' /\ UNCHANGED <<job, phase, exec, minted>>
    BY <1>1, <1>5 DEF vars, leaseVars, execVars, fleetVars, TypeOK
  <2>2. Described
    BY <2>1, Untouched, Plain
  <2> QED BY <2>1, <2>2, Step
<1> QED BY <1>2, <1>3, <1>4, <1>5 DEF Next

\* DoneInv holds in every reachable state, whatever the number of jobs,
\* workers, phases and concurrent retries, and whatever the limits.
THEOREM DoneInvariant == Spec => []DoneInv
<1>1. Init => DoneInv
  BY InitDone
<1>2. DoneInv /\ [Next]_vars => DoneInv'
  BY StepDone
<1> QED BY <1>1, <1>2, PTL DEF Spec

\* Every row the queue stores and every execution is of its type: no counter
\* leaves its range, no token is invented, no status is unknown.
THEOREM TypeCorrect == Spec => []TypeOK
<1>1. DoneInv => TypeOK
  BY DEF DoneInv
<1> QED BY <1>1, DoneInvariant, PTL

\* A job that pipeline.run has marked done has every phase of its sequence
\* done, and this stays so until an operator retries the job.
THEOREM DoneIsComplete == Spec => []DoneMeansComplete
<1>1. DoneInv => DoneMeansComplete
  BY DEF DoneInv
<1> QED BY <1>1, DoneInvariant, PTL
=============================================================================
