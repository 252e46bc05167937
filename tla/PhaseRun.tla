------------------------------ MODULE PhaseRun ------------------------------
(***************************************************************************)
(* One phase of a job, from its row to its done write                      *)
(* (services/pipeline.py: _execute_phase, _execute_teacher_deck_phase and  *)
(* the handler around them in _execute_one_phase): generation across the   *)
(* provider chain, the judge and its regenerations, the answer-key solver  *)
(* and its repairs, and what each failure does to the row and to the job.  *)
(*                                                                         *)
(* Artifacts are numbered by the generation that made them: `text` is whose *)
(* Markdown a document carries (a deck's JSON), `config` whose JSON column, *)
(* or whose lack of one.  Which model reviews is left out.  An execution   *)
(* may lose its lease or be cancelled at any time; the job may then be     *)
(* claimed again, and its next execution starts the phase anew.            *)
(***************************************************************************)
EXTENDS Naturals, Sequences, FiniteSets

CONSTANTS
  Order,           \* settings.failover_provider_order
  DefaultModel,    \* default_model, by provider
  Plans,           \* the jobs: see Plan
  MaxJudgeRegens,  \* settings.max_judge_regens
  MaxSolveRegens,  \* settings.max_solve_regens
  MaxRuns,         \* bound: executions of the phase
  NoModel, Nobody

Ordered   == {Order[i] : i \in DOMAIN Order}
Providers == DOMAIN DefaultModel
Models    == {DefaultModel[p] : p \in Providers} \cup ({r.model : r \in Plans} \ {NoModel})

ASSUME Assumptions ==
  /\ Order \in Seq(Providers) /\ \A r \in Plans : r.provider \in Providers
  /\ Nobody \notin Providers \X Models
  /\ MaxJudgeRegens \in Nat /\ MaxSolveRegens \in Nat /\ MaxRuns \in Nat \ {0}

VARIABLES
  plan,      \* what the job asks for
  installed, \* fallback CLIs of the worker that runs it
  owner,     \* this execution holds the lease
  pc,        \* where the execution is
  gen,       \* the generation in progress
  doc,       \* output_md, content_json and produced_by
  review,    \* the judge's and the solver's local variables
  exc,       \* the exception that is unwinding
  row,       \* phase_outputs
  job,       \* how the execution left the job
  runs,      \* bound: executions so far
  made,      \* checking only: who really made each artifact
  answers    \* checking only: what judge and solver said of them

vars == <<plan, installed, owner, pc, gen, doc, review, exc, row, job, runs, made, answers>>

\* kind: "markdown" (built-in or custom prompt), "structured" (JSON first,
\* markdown on schema exhaustion), "deck" (teacher deck), "extract" (text of
\* the book), "vision" (scanned book).
Judged(p) == p.kind \in {"markdown", "structured", "deck"}

\* How a provider call can fail; `limited` is a 429 whose text names a quota,
\* `schema` a config that does not validate, `refusal` Gate B of the extract.
Failures     == {"timeout", "transient", "limited", "wall", "refusal", "hard", "auth",
                 "schema", "session", "saturated"}
RequeueWorthy == {"timeout", "transient", "limited"}
Class(e)      == CASE e = "transient" -> "transient"
                   [] e \in {"limited", "wall", "refusal", "session"} -> "wall"
                   [] OTHER -> "hard"
Budget(e)     == CASE Class(e) = "transient" -> 2
                   [] Class(e) = "wall" -> 0
                   [] OTHER -> 1

NoGen    == [for |-> "none"]
NoDoc    == [text |-> 0, config |-> 0, by |-> Nobody]
NoReview == [retried |-> FALSE, jregens |-> 0, sregens |-> 0,
             judge |-> "none", solver |-> "none"]
EmptyRow(status) == [status |-> status, text |-> 0, config |-> 0, by |-> Nobody,
                     judge |-> "none", solver |-> "none"]

Init ==
  /\ plan \in Plans
  /\ installed \in SUBSET Ordered
  /\ owner = TRUE /\ pc = "begin"
  /\ gen = NoGen /\ doc = NoDoc /\ review = NoReview /\ exc = "none"
  /\ row = EmptyRow("pending") /\ job = "running" /\ runs = 1
  /\ made = <<>> /\ answers = {}

-----------------------------------------------------------------------------
(* Providers and models.                                                   *)

\* _failover_chain without the CLIs that are missing, as positions in Order; api
\* never leaves the provider that was asked for, and the vision call has no
\* chain at all.
Chain(req) ==
  IF plan.transport = "api" \/ plan.kind = "vision" THEN {}
  ELSE {i \in DOMAIN Order : /\ Order[i] # req /\ Order[i] \in installed
                             /\ \A j \in DOMAIN Order : Order[j] = Order[i] => i <= j}

\* Whom a generation asks: the provider it is for, or one of its chain.
Asked(g) == IF g.at = 0 THEN g.req ELSE Order[g.at]

\* _gen_model_of
GenModelOf(p) == IF p = plan.provider THEN plan.model ELSE NoModel

Resolved(p, m) == <<p, IF m = NoModel THEN DefaultModel[p] ELSE m>>

\* Mutant of Generation: a regeneration asks the job's provider again.
GenerationFromTheJob(why, p) ==
  [for |-> why, lane |-> IF plan.kind = "structured" THEN "json" ELSE "plain",
   req |-> plan.provider, model |-> plan.model, at |-> 0, same |-> 0]

\* A generation for `why`, asked of provider p with the model it may have.
Generation(why, p) ==
  [for |-> why, lane |-> IF plan.kind = "structured" THEN "json" ELSE "plain",
   req |-> p, model |-> GenModelOf(p), at |-> 0, same |-> 0]

-----------------------------------------------------------------------------
(* The ends of an execution.                                               *)

Ends(how) == pc' = "ended" /\ job' = how /\ gen' = NoGen

\* A lease signal, or a cancellation: nothing is written.
Unwinds == Ends("unwound") /\ UNCHANGED <<row, doc, review, exc, made, answers>>

Raises(e) == pc' = "raise" /\ exc' = e /\ gen' = NoGen /\ UNCHANGED job

-----------------------------------------------------------------------------
(* The row, and the generation.                                            *)

\* create_or_reset and the running marks, in one transaction.
Begin ==
  /\ pc = "begin"
  /\ \/ /\ ~owner /\ Unwinds
     \/ /\ owner
        /\ row' = EmptyRow("running") /\ pc' = "gen"
        /\ gen' = Generation("initial", plan.provider)
        /\ doc' = NoDoc /\ review' = NoReview /\ exc' = "none"
        /\ made' = <<>> /\ answers' = {}
        /\ UNCHANGED job
  /\ UNCHANGED <<plan, installed, owner, runs>>

AfterJudge == IF plan.keyed THEN "solve" ELSE "write"

\* Mutant of Swapped: a repair replaces the markdown alone.
SwappedText(id, p) == [doc EXCEPT !.text = id, !.by = p]

\* The whole artifact of a generation replaces the previous one.
Swapped(id, p) == [text |-> id, config |-> id, by |-> p]

\* Mutant of AfterGeneration: what the judge had regenerated is not judged.
AfterGenerationUnjudged ==
  CASE gen.for = "solver" -> "solve"
    [] gen.for = "judge" -> AfterJudge
    [] gen.for = "initial" /\ Judged(plan) -> "judge"
    [] OTHER -> "write"

\* A regeneration goes back to the judge, a repair only to the solver.
AfterGeneration ==
  CASE gen.for = "solver" -> "solve"
    [] gen.for # "solver" /\ Judged(plan) -> "judge"
    [] OTHER -> "write"

\* A provider answers with an artifact.
Answered ==
  LET p == Asked(gen)  id == Len(made) + 1 IN
  /\ pc = "gen"
  /\ made' = Append(made, Resolved(p, IF p = gen.req THEN gen.model ELSE NoModel))
  /\ doc' = Swapped(id, p)
  /\ pc' = AfterGeneration
  /\ gen' = NoGen
  /\ UNCHANGED <<plan, installed, owner, review, exc, row, job, runs, answers>>

\* An extract of the section by the same prompt, provider and model is
\* reused: the row is done at once, without a provider.
Reuse ==
  /\ pc = "gen" /\ plan.kind = "extract" /\ gen = Generation("initial", plan.provider)
  /\ \/ ~owner /\ Unwinds
     \/ /\ owner
        /\ made' = <<Nobody>> /\ doc' = [text |-> 1, config |-> 1, by |-> Nobody]
        /\ row' = [EmptyRow("done") EXCEPT !.text = 1, !.config = 1]
        /\ Ends("done")
        /\ UNCHANGED <<review, exc, answers>>
  /\ UNCHANGED <<plan, installed, owner, runs>>

\* Mutant of Loud: any error that retries cannot help fails the job.
LoudWhenHard(e) == e \in {"auth", "hard"}

\* An authentication error under api is never kept quiet.
Loud(e) == e = "auth" /\ "api" \in {plan.transport, plan.judgeTransport}

\* What a failed generation means where it was asked for.
GenerationRaises(e) ==
  CASE e = "pause" -> Ends("paused") /\ UNCHANGED <<review, exc>>
    [] gen.for = "initial" /\ e # "pause" ->
         pc' = "failrow" /\ exc' = e /\ gen' = NoGen /\ UNCHANGED <<job, review>>
    [] gen.for # "initial" /\ (e = "saturated" \/ (gen.for = "solver" /\ e \in RequeueWorthy)) ->
         Raises(e) /\ UNCHANGED review
    [] gen.for = "judge" /\ e \notin {"pause", "saturated"} ->
         IF Loud(e)
         THEN Raises(e) /\ UNCHANGED review
         ELSE /\ review' = [review EXCEPT !.judge = "major_regen_failed"]
              /\ pc' = AfterJudge /\ gen' = NoGen /\ UNCHANGED <<job, exc>>
    [] OTHER -> pc' = "block" /\ gen' = NoGen /\ UNCHANGED <<job, exc, review>>

\* The next provider of the chain, or the last error of the chain.
NextProvider(e) ==
  LET later == {i \in Chain(gen.req) : i > gen.at} IN
  IF later = {} THEN GenerationRaises(e)
  ELSE /\ \E i \in later : /\ \A j \in later : i <= j
                          /\ gen' = [gen EXCEPT !.at = i, !.same = 0]
       /\ UNCHANGED <<pc, job, exc, review>>

\* Mutant of Fallback: the chain starts over with the same lane.
FallbackToJson == [gen EXCEPT !.at = 0, !.same = 0]

\* No provider could author the JSON: the chain starts over for markdown.
Fallback == [gen EXCEPT !.lane = "plain", !.at = 0, !.same = 0]

\* A provider call of the chain fails with e.
Failed(e) ==
  /\ pc = "gen" /\ plan.kind # "vision"
  /\ e = "schema" => gen.lane = "json" \/ plan.kind = "deck"
  /\ e = "refusal" => plan.kind = "extract"
  /\ CASE e = "saturated" -> GenerationRaises(e)
       [] e = "session" /\ plan.strategy = "pause" -> GenerationRaises("pause")
       [] e = "session" /\ plan.strategy = "switch" -> NextProvider("wall")
       [] e = "timeout" -> NextProvider(e)
       [] e = "schema" /\ plan.kind = "deck" -> GenerationRaises("hard")
       [] e = "schema" /\ plan.kind # "deck" ->
            gen' = Fallback /\ UNCHANGED <<pc, job, exc, review>>
       [] OTHER -> IF gen.same < Budget(e)
                   THEN gen' = [gen EXCEPT !.same = @ + 1] /\ UNCHANGED <<pc, job, exc, review>>
                   ELSE NextProvider(e)
  /\ UNCHANGED <<plan, installed, owner, doc, row, runs, made, answers>>

\* The vision call is not in the chain's driver: its errors go up as they are.
VisionFailed(e) ==
  /\ pc = "gen" /\ plan.kind = "vision" /\ e \notin {"schema", "timeout"}
  /\ GenerationRaises(IF e = "session" THEN "wall" ELSE e)
  /\ UNCHANGED <<plan, installed, owner, doc, row, runs, made, answers>>

-----------------------------------------------------------------------------
(* The judge.                                                              *)

NoAnswer == {"refused", "unavailable"}
Says(who, v) ==
  answers' = IF v \in NoAnswer THEN answers
             ELSE answers \cup {[who |-> who, of |-> doc.text, says |-> v]}

\* Once the last verdict is in: judge_status.
JudgeStatus(v) == CASE v \in {"pass", "minor"} -> "ok"
                    [] v = "major" -> "major_shipped"
                    [] OTHER -> v

Regenerates(why, counted) ==
  /\ pc' = "gen" /\ gen' = Generation(why, doc.by)
  /\ review' = counted
  /\ UNCHANGED <<job, exc>>

\* Mutant of MayRegenerate: one more than the setting allows.
MayRegenerateOnceMore == review.jregens <= MaxJudgeRegens

MayRegenerate == review.jregens < MaxJudgeRegens

\* A verdict, or none: one free retry, a regeneration on a major issue.
Judge(v) ==
  /\ pc = "judge" /\ Says("judge", v)
  /\ CASE v = "unavailable" /\ ~review.retried /\ review.jregens = 0 ->
            review' = [review EXCEPT !.retried = TRUE] /\ UNCHANGED <<pc, gen, job, exc>>
       [] v = "major" /\ MayRegenerate ->
            Regenerates("judge", [review EXCEPT !.jregens = @ + 1])
       [] OTHER -> /\ review' = [review EXCEPT !.judge = JudgeStatus(v)]
                   /\ pc' = AfterJudge /\ UNCHANGED <<gen, job, exc>>
  /\ UNCHANGED <<plan, installed, owner, doc, row, runs, made>>

\* The judge's errors that are not a verdict: saturation, and auth under api.
JudgeRaises(e) ==
  /\ pc = "judge"
  /\ e = "saturated" \/ (e = "auth" /\ plan.judgeTransport = "api")
  /\ Raises(e)
  /\ UNCHANGED <<plan, installed, owner, doc, review, row, runs, made, answers>>

-----------------------------------------------------------------------------
(* The answer-key solver.                                                  *)

SolverSays(v) ==
  CASE review.sregens = 0 /\ v \in NoAnswer -> v
    [] review.sregens = 0 /\ v \in {"agrees", "unsure"} -> "ok"
    [] OTHER -> "mismatch_regen"

\* Mutant of RecheckFailed: a recheck that gives no answer is advisory too.
RecheckIsAdvisory(v) == v \in NoAnswer /\ review.sregens > MaxSolveRegens

\* The first solve is advisory, a recheck is not.
RecheckFailed(v) == v \in NoAnswer /\ review.sregens > 0

\* A proven mismatch is repaired, or blocked when the repairs are spent.
Solve(v) ==
  /\ pc = "solve" /\ Says("solver", v)
  /\ CASE v = "mismatch" /\ review.sregens < MaxSolveRegens ->
            Regenerates("solver", [review EXCEPT !.sregens = @ + 1])
       [] v = "mismatch" /\ review.sregens = MaxSolveRegens ->
            pc' = "block" /\ UNCHANGED <<gen, job, exc, review>>
       [] RecheckFailed(v) ->
            \/ pc' = "block" /\ UNCHANGED <<gen, job, exc, review>>
            \/ \E e \in RequeueWorthy : Raises(e) /\ UNCHANGED review
       [] OTHER -> /\ review' = [review EXCEPT !.solver = SolverSays(v)]
                   /\ pc' = "write" /\ UNCHANGED <<gen, job, exc>>
  /\ UNCHANGED <<plan, installed, owner, doc, row, runs, made>>

\* An auth error is loud at the first solve, and blocks at a recheck.
SolverRaises(e) ==
  /\ pc = "solve"
  /\ \/ e = "saturated" /\ Raises(e)
     \/ /\ e = "auth" /\ plan.solverTransport = "api"
        /\ IF review.sregens = 0 THEN Raises(e)
           ELSE pc' = "block" /\ UNCHANGED <<gen, job, exc>>
  /\ UNCHANGED <<plan, installed, owner, doc, review, row, runs, made, answers>>

-----------------------------------------------------------------------------
(* The writes, each fenced by the lease, and the handler around them.      *)

Written(status, solver) ==
  [status |-> status, text |-> doc.text, config |-> doc.config, by |-> doc.by,
   judge |-> review.judge, solver |-> solver]

Fenced(write) == IF owner THEN write ELSE Unwinds
Rest == UNCHANGED <<plan, installed, owner, runs>>

\* The only write of generated content that completes the phase.
WriteDone ==
  /\ pc = "write" /\ Rest
  /\ Fenced(/\ row' = Written("done", review.solver) /\ Ends("done")
            /\ UNCHANGED <<doc, review, exc, made, answers>>)

\* A generation that failed marks the row, and goes on unwinding.
FailRow ==
  /\ pc = "failrow" /\ Rest
  /\ Fenced(/\ row' = [row EXCEPT !.status = "failed"] /\ pc' = "raise"
            /\ UNCHANGED <<gen, doc, review, exc, job, made, answers>>)

\* _persist_solver_blocked_phase.  The error's text quotes the solver, and is
\* classified by its words like any other: a key that reads 503 is transient.
Block ==
  /\ pc = "block" /\ Rest
  /\ Fenced(/\ row' = Written("failed", "mismatch_blocked") /\ pc' = "raise"
            /\ exc' \in {"hard", "transient"}
            /\ UNCHANGED <<gen, doc, review, job, made, answers>>)

\* The handler of _execute_one_phase.
Handle ==
  /\ pc = "raise" /\ Rest
  /\ CASE exc = "saturated" -> Ends("parked")
       [] exc \in RequeueWorthy -> Ends("requeued")
       [] OTHER -> Ends(IF owner THEN "failed" ELSE "unwound")
  /\ UNCHANGED <<row, doc, review, exc, made, answers>>

-----------------------------------------------------------------------------
(* What happens to the execution, and the next one.                        *)

LoseLease ==
  /\ owner /\ pc # "ended" /\ owner' = FALSE
  /\ UNCHANGED <<plan, installed, pc, gen, doc, review, exc, row, job, runs, made, answers>>

\* The task is cancelled: by its heartbeat, at shutdown, or with the process.
Interrupt == pc # "ended" /\ Unwinds /\ Rest

RunAgain ==
  /\ pc = "ended" /\ job \notin {"done", "failed"} /\ runs < MaxRuns
  /\ pc' = "begin" /\ job' = "running" /\ owner' = TRUE /\ runs' = runs + 1
  /\ installed' \in SUBSET Ordered
  /\ UNCHANGED <<plan, gen, doc, review, exc, row, made, answers>>

Step ==
  \/ Begin \/ Reuse \/ Answered \/ WriteDone \/ FailRow \/ Block \/ Handle
  \/ \E e \in Failures : Failed(e) \/ VisionFailed(e) \/ JudgeRaises(e) \/ SolverRaises(e)
  \/ \E v \in {"pass", "minor", "major", "refused", "unavailable"} : Judge(v)
  \/ \E v \in {"agrees", "unsure", "mismatch", "refused", "unavailable"} : Solve(v)

Next == Step \/ LoseLease \/ Interrupt \/ RunAgain

Spec == Init /\ [][Next]_vars

\* Every call ends: it answers, fails, or meets its timeout.
FairSpec == Spec /\ WF_vars(Step)
-----------------------------------------------------------------------------
(* Properties.                                                             *)

TypeOK ==
  /\ plan \in Plans /\ installed \subseteq Ordered /\ owner \in BOOLEAN
  /\ pc \in {"begin", "gen", "judge", "solve", "write", "failrow", "block", "raise", "ended"}
  /\ pc = "gen" <=> gen # NoGen
  /\ made \in Seq((Providers \X Models) \cup {Nobody})
  /\ {doc.text, doc.config, row.text, row.config} \subseteq 0 .. Len(made)
  /\ review.jregens <= MaxJudgeRegens /\ review.sregens <= MaxSolveRegens
  /\ exc \in Failures \cup {"none"}
  /\ row.status \in {"pending", "running", "done", "failed"}
  /\ job \in {"running", "done", "failed", "parked", "paused", "requeued", "unwound"}
  /\ runs \in 1 .. MaxRuns

\* Markdown, JSON and producer of a row are those of one generation, also
\* after a regeneration, a repair, a fallback lane, or a run that failed (and
\* everything keeps its type).
ShippedWhole ==
  /\ TypeOK
  /\ row.text # 0 =>
       /\ row.config = row.text
       /\ IF made[row.text] = Nobody THEN row.by = Nobody ELSE row.by = made[row.text][1]

Accepted(id) ==
  \E a \in answers : a.who = "solver" /\ a.of = id /\ a.says \in {"agrees", "unsure"}

\* Once the solver has proven a wrong answer key, the phase is done only with
\* an artifact that the solver itself has accepted ...
MismatchNeverShips ==
  row.status = "done" /\ (\/ \E a \in answers : a.says = "mismatch"
                         \/ row.solver \in {"ok", "mismatch_regen"})
  => Accepted(row.text)

\* ... and its judge_status is what the judge said of the very artifact it
\* ships, or of the one that the solver had repaired.
VerdictIsOfTheShipped ==
  row.status = "done" /\ Judged(plan) /\ row.judge \notin NoAnswer =>
    \E a \in answers :
      /\ a.who = "judge" /\ (a.says = "major" <=> row.judge # "ok")
      /\ a.of = row.text \/ (row.solver = "mismatch_regen" /\ a.of < row.text)

\* The row of a finished phase tells the truth about the artifact it ships: the
\* solver's part and the judge's.
ShippedAsReviewed == MismatchNeverShips /\ VerdictIsOfTheShipped

\* Neither judge nor solver fails a job whose content was generated, but for
\* a proven mismatch or an authentication error under api.
ValidationNeverFails ==
  job = "failed" /\ doc.text # 0 =>
    \/ row.solver = "mismatch_blocked"
    \/ exc = "auth" /\ "api" \in {plan.transport, plan.judgeTransport, plan.solverTransport}

\* An api job never leaves its provider; a provider that is not in the
\* failover order is never fallen back to; the job's model is only ever given
\* to the job's provider.
ProviderIsolation ==
  pc = "gen" =>
    LET p == Asked(gen) IN
    /\ plan.transport = "api" => p = plan.provider
    /\ p \notin Ordered => p = plan.provider /\ \A i \in DOMAIN made : made[i][1] = p
    /\ p = gen.req /\ gen.model # NoModel => p = plan.provider

\* Retries, failovers, regenerations and repairs are bounded: every execution
\* that starts comes to an end.
RunEnds == pc = "begin" ~> pc = "ended"
=============================================================================
