-------------------------- MODULE GenerationProofs --------------------------
(***************************************************************************)
(* Generation, for any plans, providers, orders, retry bounds, asks, books *)
(* and permits: what a phase ships is whole and reviewed as its row says,  *)
(* and a model call leaves nothing behind.                                 *)
(***************************************************************************)
EXTENDS Generation, SequenceTheorems, FiniteSetTheorems, TLAPS

-----------------------------------------------------------------------------
(* A phase: types.                                                         *)

PhasePcs == {"begin", "gen", "judge", "solve", "write", "failrow", "block", "raise", "ended"}
JobEnds  == {"running", "done", "failed", "parked", "paused", "requeued", "unwound"}
Verdicts == {"none", "ok", "major_shipped", "major_regen_failed", "refused", "unavailable"}
Solutions == {"none", "ok", "mismatch_regen", "refused", "unavailable"}
Said == {"pass", "minor", "major", "agrees", "unsure", "mismatch"}

GenType == [for : {"initial", "judge", "solver"}, lane : {"json", "plain"}, req : Providers,
            model : Models \cup {NoModel}, at : 0 .. Len(Order), same : Nat]
DocType == [text : Nat, config : Nat, by : Providers \cup {Nobody}]
ReviewType == [retried : BOOLEAN, jregens : 0 .. MaxJudgeRegens, sregens : 0 .. MaxSolveRegens,
               judge : Verdicts, solver : Solutions]
RowType == [status : {"pending", "running", "done", "failed"}, text : Nat, config : Nat,
            by : Providers \cup {Nobody}, judge : Verdicts,
            solver : Solutions \cup {"mismatch_blocked"}]
AnswerType == [who : {"judge", "solver"}, of : Nat, says : Said]

PhaseTyped ==
  /\ plan \in Plans /\ installed \in SUBSET Ordered /\ owner \in BOOLEAN
  /\ pc \in PhasePcs /\ gen \in GenType \cup {NoGen}
  /\ pc = "gen" <=> gen # NoGen
  /\ doc \in DocType /\ review \in ReviewType
  /\ exc \in Failures \cup {"none"} /\ row \in RowType
  /\ job \in JobEnds /\ runs \in 1 .. MaxRuns
  /\ made \in Seq((Providers \X Models) \cup {Nobody})
  /\ answers \in SUBSET AnswerType

-----------------------------------------------------------------------------
(* A phase: where it stands, and what is known there.                      *)

Fresh    == pc = "gen" /\ gen.for = "initial"
Checking == pc = "judge" \/ (pc = "gen" /\ gen.for = "judge")
Solving  == pc = "solve" \/ (pc = "gen" /\ gen.for = "solver")

\* Text, JSON and producer are those of one generation.
WholeAs(r) ==
  /\ r.text \in 0 .. Len(made) /\ r.config = r.text
  /\ r.text # 0 => IF made[r.text] = Nobody THEN r.by = Nobody ELSE r.by = made[r.text][1]

\* Nothing has been made before the first generation ends, something ever after.
OneDocument ==
  /\ WholeAs(doc) /\ WholeAs(row)
  /\ \A a \in answers : a.of <= Len(made)
  /\ Fresh => made = <<>> /\ answers = {} /\ doc = NoDoc /\ review = NoReview
  /\ Checking \/ Solving => doc.text # 0 /\ doc.by \in Providers

\* The verdict is of the document, or of one that has been repaired since.
JudgedAs(judge, text, repaired) ==
  judge \notin NoAnswer =>
    \E a \in answers : /\ a.who = "judge" /\ (a.says = "major" <=> judge # "ok")
                       /\ a.of = text \/ (repaired /\ a.of < text)

\* What judge and solver have said, while they are at it and when they are done.
ReviewsKnown ==
  /\ Checking => /\ Judged(plan) /\ review.sregens = 0 /\ review.solver = "none"
                 /\ \A a \in answers : a.who = "judge" /\ a.says # "mismatch"
  /\ pc = "gen" /\ gen.for = "judge" =>
       \E a \in answers : a.who = "judge" /\ a.of = doc.text /\ a.says = "major"
  /\ Solving => /\ plan.keyed /\ Judged(plan) /\ review.solver = "none"
                /\ review.sregens = 0 => \A a \in answers : a.says # "mismatch"
                /\ JudgedAs(review.judge, doc.text, review.sregens > 0)
  /\ pc = "gen" /\ gen.for = "solver" => review.sregens > 0
  /\ pc = "write" =>
       /\ (\E a \in answers : a.says = "mismatch") \/ review.solver \in {"ok", "mismatch_regen"}
            => Accepted(doc.text)
       /\ Judged(plan) => JudgedAs(review.judge, doc.text, review.solver = "mismatch_regen")
  /\ row.status = "done" => pc = "ended" /\ job = "done" /\ ShippedAsReviewed

\* A document has failed its job only for a mismatch or an authentication.
Excused ==
  \/ doc.text = 0 \/ row.solver = "mismatch_blocked"
  \/ exc = "auth" /\ "api" \in {plan.transport, plan.judgeTransport, plan.solverTransport}

FailuresKnown ==
  /\ pc = "failrow" => doc.text = 0
  /\ pc = "raise" => exc \in RequeueWorthy \cup {"saturated"} \/ Excused
  /\ job = "failed" => pc = "ended" /\ Excused

\* A provider outside the order is the job's, and nobody else made anything.
Allowed(p) ==
  /\ p \in Providers /\ p \in Ordered \cup {plan.provider}
  /\ plan.transport = "api" => p = plan.provider
  /\ p \notin Ordered => \A i \in DOMAIN made : made[i][1] = p

ProvidersKnown ==
  /\ Checking \/ Solving => Allowed(doc.by)
  /\ pc \in {"gen", "judge", "solve"} => \A i \in DOMAIN made : made[i] # Nobody
  /\ pc = "gen" =>
       /\ Allowed(gen.req)
       /\ gen.model # NoModel => gen.req = plan.provider
       /\ gen.at # 0 => gen.at \in Chain(gen.req)

PhaseInv == PhaseTyped /\ OneDocument /\ ReviewsKnown /\ FailuresKnown /\ ProvidersKnown

-----------------------------------------------------------------------------
(* Generations.                                                            *)

LEMMA GenerationFits ==
  ASSUME plan \in Plans, NEW why \in {"initial", "judge", "solver"}, NEW p \in Providers
  PROVE  LET g == Generation(why, p) IN
         /\ g \in GenType /\ g # NoGen
         /\ g.for = why /\ g.req = p /\ g.at = 0
         /\ g.model # NoModel => g.req = plan.provider
<1> DEFINE g == Generation(why, p)
<1>1. GenModelOf(p) \in Models \cup {NoModel} /\ (GenModelOf(p) # NoModel => p = plan.provider)
  BY DEF GenModelOf, Models
<1>2. 0 \in 0 .. Len(Order)
  BY Assumptions
<1>3. g \in GenType
  BY <1>1, <1>2 DEF Generation, GenType
<1>4. g.for = why /\ g.req = p /\ g.at = 0 /\ g.model = GenModelOf(p)
  BY DEF Generation
<1>5. NoGen.for = "none"
  BY DEF NoGen
<1> QED BY <1>1, <1>3, <1>4, <1>5

LEMMA NoGenIsNone == NoGen \notin GenType /\ NoGen.for = "none"
<1>1. NoGen.for = "none"
  BY DEF NoGen
<1>2. \A g \in GenType : g.for # "none"
  BY DEF GenType
<1> QED BY <1>1, <1>2

\* Fallbacks are of the order, and never of the provider that is asked for.
LEMMA AskedFits ==
  ASSUME PhaseInv, pc = "gen"
  PROVE  /\ gen \in GenType /\ Asked(gen) \in Providers
         /\ gen.at # 0 => Asked(gen) \in Ordered /\ Asked(gen) # gen.req
                          /\ plan.transport # "api" /\ plan.kind # "vision"
         /\ gen.at = 0 => Asked(gen) = gen.req
         /\ Allowed(Asked(gen))
<1>1. gen \in GenType
  BY DEF PhaseInv, PhaseTyped
<1>2. /\ Allowed(gen.req) /\ (gen.at # 0 => gen.at \in Chain(gen.req))
  BY DEF PhaseInv, ProvidersKnown
<1>3. CASE gen.at = 0
  BY <1>1, <1>2, <1>3 DEF Asked, Allowed
<1>4. CASE gen.at # 0
  <2>1. /\ gen.at \in DOMAIN Order /\ Order[gen.at] # gen.req
        /\ plan.transport # "api" /\ plan.kind # "vision"
    BY <1>2, <1>4 DEF Chain
  <2>2. Asked(gen) = Order[gen.at]
    BY <1>4 DEF Asked
  <2>3. Order[gen.at] \in Ordered
    BY <2>1 DEF Ordered
  <2>4. Order[gen.at] \in Providers
    BY <2>1, Assumptions
  <2> QED BY <1>1, <1>4, <2>1, <2>2, <2>3, <2>4 DEF Allowed
<1> QED BY <1>3, <1>4

-----------------------------------------------------------------------------
(* Steps that make and write nothing.                                      *)

\* The execution ends without a result.
LEMMA Ending ==
  ASSUME PhaseInv, pc # "ended", NEW how \in JobEnds \ {"done", "failed"}, Ends(how),
         UNCHANGED <<plan, installed, owner, runs, row, doc, review, exc, made, answers>>
  PROVE  PhaseInv'
<1>1. pc' = "ended" /\ job' = how /\ gen' = NoGen
  BY DEF Ends
<1>2. ~Fresh' /\ ~Checking' /\ ~Solving'
  BY <1>1 DEF Fresh, Checking, Solving
<1>3. row.status # "done"
  BY DEF PhaseInv, ReviewsKnown
<1>4. PhaseTyped'
  BY <1>1 DEF PhaseInv, PhaseTyped, PhasePcs
<1>5. OneDocument'
  BY <1>1, <1>2 DEF PhaseInv, OneDocument, WholeAs
<1>6. ReviewsKnown'
  BY <1>1, <1>2, <1>3 DEF ReviewsKnown
<1>7. FailuresKnown' /\ ProvidersKnown'
  BY <1>1, <1>2 DEF FailuresKnown, ProvidersKnown
<1> QED BY <1>4, <1>5, <1>6, <1>7 DEF PhaseInv

LEMMA Unwinding ==
  ASSUME PhaseInv, Unwinds, UNCHANGED <<plan, installed, owner, runs>>, pc # "ended"
  PROVE  PhaseInv'
BY Ending DEF Unwinds, JobEnds

\* An error goes up to the handler.
LEMMA Raising ==
  ASSUME PhaseInv, pc # "ended", pc' = "raise", gen' = NoGen,
         exc' \in Failures, exc' \in RequeueWorthy \cup {"saturated"} \/ Excused',
         UNCHANGED <<plan, installed, owner, job, runs, row, doc, made, answers>>,
         review' \in ReviewType
  PROVE  PhaseInv'
<1>1. ~Fresh' /\ ~Checking' /\ ~Solving'
  BY DEF Fresh, Checking, Solving
<1>2. row.status # "done" /\ job # "failed"
  BY DEF PhaseInv, ReviewsKnown, FailuresKnown
<1>3. PhaseTyped'
  BY DEF PhaseInv, PhaseTyped, PhasePcs
<1>4. OneDocument'
  BY <1>1 DEF PhaseInv, OneDocument, WholeAs
<1>5. ReviewsKnown'
  BY <1>1, <1>2 DEF ReviewsKnown
<1>6. FailuresKnown' /\ ProvidersKnown'
  BY <1>1, <1>2 DEF FailuresKnown, ProvidersKnown
<1> QED BY <1>3, <1>4, <1>5, <1>6 DEF PhaseInv

\* A proven mismatch, or a document that can no longer be proven.
LEMMA Blocking ==
  ASSUME PhaseInv, pc # "ended", pc' = "block", gen' = NoGen,
         UNCHANGED <<plan, installed, owner, job, runs, row, doc, review, exc, made>>,
         answers' \in SUBSET AnswerType, \A a \in answers' : a.of <= Len(made)
  PROVE  PhaseInv'
<1>1. ~Fresh' /\ ~Checking' /\ ~Solving'
  BY DEF Fresh, Checking, Solving
<1>2. row.status # "done" /\ job # "failed"
  BY DEF PhaseInv, ReviewsKnown, FailuresKnown
<1>3. PhaseTyped'
  BY DEF PhaseInv, PhaseTyped, PhasePcs
<1>4. OneDocument'
  BY <1>1 DEF PhaseInv, OneDocument, WholeAs
<1>5. ReviewsKnown'
  BY <1>1, <1>2 DEF ReviewsKnown
<1>6. FailuresKnown' /\ ProvidersKnown'
  BY <1>1, <1>2 DEF FailuresKnown, ProvidersKnown
<1> QED BY <1>3, <1>4, <1>5, <1>6 DEF PhaseInv

\* The judge is through with the document: the solver, or the write.
LEMMA JudgeDone ==
  ASSUME PhaseInv, Checking, pc' = AfterJudge, gen' = NoGen,
         UNCHANGED <<plan, installed, owner, job, runs, row, doc, exc, made>>,
         NEW v \in Verdicts, review' = [review EXCEPT !.judge = v],
         answers' \in SUBSET AnswerType,
         \A a \in answers' : a.of <= Len(made) /\ a.who = "judge" /\ a.says # "mismatch",
         v \notin NoAnswer =>
           \E a \in answers' : /\ a.who = "judge" /\ (a.says = "major" <=> v # "ok")
                               /\ a.of = doc.text
  PROVE  PhaseInv'
<1>1. pc # "ended" /\ pc' \in {"solve", "write"} /\ (pc' = "solve" => plan.keyed)
  BY DEF Checking, AfterJudge
<1>2. ~Fresh' /\ ~Checking' /\ (Solving' => pc' = "solve")
  BY <1>1, NoGenIsNone DEF Fresh, Checking, Solving
<1>3. row.status # "done" /\ job # "failed"
  BY <1>1 DEF PhaseInv, ReviewsKnown, FailuresKnown
<1>4. /\ review' \in ReviewType /\ review'.judge = v
      /\ review'.sregens = review.sregens /\ review'.solver = review.solver
      /\ review'.sregens = 0 /\ review'.solver = "none" /\ Judged(plan)
  BY DEF PhaseInv, PhaseTyped, ReviewType, ReviewsKnown
<1>5. PhaseTyped'
  BY <1>1, <1>4 DEF PhaseInv, PhaseTyped, PhasePcs
<1>6. OneDocument'
  BY <1>2 DEF PhaseInv, OneDocument, WholeAs
<1>7. JudgedAs(v, doc.text, review.sregens > 0)'
  BY <1>4 DEF JudgedAs
<1>8. JudgedAs(v, doc.text, review.solver = "mismatch_regen")'
  BY <1>4 DEF JudgedAs
<1>9. ReviewsKnown'
  BY <1>1, <1>2, <1>3, <1>4, <1>7, <1>8 DEF ReviewsKnown, Judged, JudgedAs
<1>10. FailuresKnown'
  BY <1>1, <1>3 DEF FailuresKnown
<1>11. ProvidersKnown'
  BY <1>1, <1>2 DEF PhaseInv, ProvidersKnown, Allowed, Checking
<1> QED BY <1>5, <1>6, <1>9, <1>10, <1>11 DEF PhaseInv

\* The chain goes on: a retry, the next provider, or the markdown lane.
LEMMA StillAsking ==
  ASSUME PhaseInv, pc = "gen", UNCHANGED <<plan, installed, owner, pc, doc, review, exc, row,
                                           job, runs, made, answers>>,
         NEW at \in 0 .. Len(Order), at # 0 => at \in Chain(gen.req),
         NEW same \in Nat, NEW lane \in {"json", "plain"},
         gen' = [gen EXCEPT !.at = at, !.same = same, !.lane = lane]
  PROVE  PhaseInv'
<1>1. gen \in GenType
  BY DEF PhaseInv, PhaseTyped
<1>2. /\ gen' \in GenType /\ gen' # NoGen /\ gen'.for = gen.for /\ gen'.req = gen.req
      /\ gen'.model = gen.model /\ gen'.at = at
  BY <1>1, NoGenIsNone DEF GenType
<1>3. Fresh' = Fresh /\ Checking' = Checking /\ Solving' = Solving
  BY <1>2 DEF Fresh, Checking, Solving
<1>4. PhaseTyped'
  BY <1>2 DEF PhaseInv, PhaseTyped
<1>5. OneDocument'
  BY <1>3 DEF PhaseInv, OneDocument, WholeAs
<1>6. row.status # "done" /\ job # "failed"
  BY DEF PhaseInv, ReviewsKnown, FailuresKnown
<1>7. ReviewsKnown'
  BY <1>2, <1>3, <1>6 DEF PhaseInv, ReviewsKnown, Judged, JudgedAs
<1>8. FailuresKnown'
  BY <1>6 DEF PhaseInv, FailuresKnown
<1>9. ProvidersKnown'
  BY <1>2, <1>3 DEF PhaseInv, ProvidersKnown, Allowed, Chain
<1> QED BY <1>4, <1>5, <1>7, <1>8, <1>9 DEF PhaseInv

\* The first generation has failed for good.
LEMMA FirstFails ==
  ASSUME PhaseInv, Fresh, pc' = "failrow", exc' \in Failures, gen' = NoGen,
         UNCHANGED <<plan, installed, owner, job, runs, row, doc, review, made, answers>>
  PROVE  PhaseInv'
<1>1. ~Fresh' /\ ~Checking' /\ ~Solving' /\ pc = "gen"
  BY DEF Fresh, Checking, Solving
<1>2. row.status # "done" /\ job # "failed"
  BY <1>1 DEF PhaseInv, ReviewsKnown, FailuresKnown
<1>3. PhaseTyped'
  BY DEF PhaseInv, PhaseTyped, PhasePcs
<1>4. OneDocument'
  BY <1>1 DEF PhaseInv, OneDocument, WholeAs
<1>5. ReviewsKnown'
  BY <1>1, <1>2 DEF ReviewsKnown
<1>6. FailuresKnown' /\ ProvidersKnown'
  BY <1>1, <1>2 DEF PhaseInv, OneDocument, NoDoc, FailuresKnown, ProvidersKnown
<1> QED BY <1>3, <1>4, <1>5, <1>6 DEF PhaseInv

LEMMA GenerationRaisesKeeps ==
  ASSUME PhaseInv, pc = "gen", NEW e \in Failures \cup {"pause"}, GenerationRaises(e),
         UNCHANGED <<plan, installed, owner, doc, row, runs, made, answers>>
  PROVE  PhaseInv'
<1>1. gen \in GenType /\ review \in ReviewType
  BY DEF PhaseInv, PhaseTyped
<1>2. CASE e = "pause"
  <2>1. Ends("paused") /\ UNCHANGED <<review, exc>>
    BY <1>2 DEF GenerationRaises, RequeueWorthy
  <2> QED BY <2>1, Ending DEF JobEnds
<1>3. CASE gen.for = "initial" /\ e # "pause"
  <2>1. pc' = "failrow" /\ exc' = e /\ gen' = NoGen /\ UNCHANGED <<job, review>>
    BY <1>3 DEF GenerationRaises
  <2> QED BY <1>3, <2>1, FirstFails DEF Fresh
<1>4. CASE gen.for # "initial" /\ e # "pause"
           /\ (e = "saturated" \/ (gen.for = "solver" /\ e \in RequeueWorthy))
  <2>1. Raises(e) /\ UNCHANGED review
    BY <1>4 DEF GenerationRaises
  <2> QED BY <1>1, <1>4, <2>1, Raising DEF Raises
<1>5. CASE gen.for = "judge" /\ e \notin {"pause", "saturated"}
  <2>1. CASE Loud(e)
    <3>1. Raises(e) /\ UNCHANGED review
      BY <1>5, <2>1 DEF GenerationRaises, RequeueWorthy
    <3>2. exc' = e /\ Excused'
      BY <2>1, <3>1 DEF Raises, Loud, Excused
    <3> QED BY <1>1, <1>5, <3>1, <3>2, Raising DEF Raises
  <2>2. CASE ~Loud(e)
    <3>1. /\ review' = [review EXCEPT !.judge = "major_regen_failed"]
          /\ pc' = AfterJudge /\ gen' = NoGen /\ UNCHANGED <<job, exc>>
      BY <1>5, <2>2 DEF GenerationRaises, RequeueWorthy
    <3>2. Checking
      BY <1>5 DEF Checking
    <3>3. /\ \A a \in answers : a.of <= Len(made) /\ a.who = "judge" /\ a.says # "mismatch"
          /\ \E a \in answers : a.who = "judge" /\ a.of = doc.text /\ a.says = "major"
          /\ answers \in SUBSET AnswerType
      BY <1>5, <3>2 DEF PhaseInv, ReviewsKnown, OneDocument, PhaseTyped
    <3> QED BY <3>1, <3>2, <3>3, JudgeDone DEF Verdicts
  <2> QED BY <2>1, <2>2
<1>6. CASE gen.for = "solver" /\ e \notin RequeueWorthy \cup {"pause", "saturated"}
  <2>1. pc' = "block" /\ gen' = NoGen /\ UNCHANGED <<job, exc, review>>
    BY <1>6 DEF GenerationRaises
  <2>2. answers \in SUBSET AnswerType /\ \A a \in answers : a.of <= Len(made)
    BY DEF PhaseInv, PhaseTyped, OneDocument
  <2> QED BY <2>1, <2>2, Blocking
<1> QED BY <1>1, <1>2, <1>3, <1>4, <1>5, <1>6 DEF GenType

LEMMA NextProviderKeeps ==
  ASSUME PhaseInv, pc = "gen", NEW e \in Failures, NextProvider(e),
         UNCHANGED <<plan, installed, owner, doc, row, runs, made, answers>>
  PROVE  PhaseInv'
<1> DEFINE later == {i \in Chain(gen.req) : i > gen.at}
<1>1. CASE later = {}
  <2>1. GenerationRaises(e)
    BY <1>1 DEF NextProvider
  <2> QED BY <2>1, GenerationRaisesKeeps
<1>2. CASE later # {}
  <2>1. PICK i \in later : gen' = [gen EXCEPT !.at = i, !.same = 0]
    BY <1>2 DEF NextProvider
  <2>2. UNCHANGED <<pc, job, exc, review>>
    BY <1>2 DEF NextProvider
  <2>3. i \in Chain(gen.req) /\ gen \in GenType
    BY DEF PhaseInv, PhaseTyped
  <2>4. i \in 0 .. Len(Order)
    BY <2>3, Assumptions DEF Chain
  <2>5. gen' = [gen EXCEPT !.at = i, !.same = 0, !.lane = gen.lane]
    BY <2>1, <2>3 DEF GenType
  <2>6. gen.lane \in {"json", "plain"} /\ 0 \in Nat
    BY <2>3 DEF GenType
  <2> HIDE DEF later
  <2> QED BY <2>2, <2>3, <2>4, <2>5, <2>6, StillAsking
<1> QED BY <1>1, <1>2

LEMMA FailedKeeps ==
  ASSUME PhaseInv, NEW e \in Failures, Failed(e)
  PROVE  PhaseInv'
<1>1. /\ pc = "gen" /\ plan.kind # "vision"
      /\ UNCHANGED <<plan, installed, owner, doc, row, runs, made, answers>>
      /\ e = "schema" => gen.lane = "json" \/ plan.kind = "deck"
  BY DEF Failed
<1>2. /\ gen \in GenType /\ 0 \in 0 .. Len(Order) /\ 0 \in Nat
      /\ (gen.at # 0 => gen.at \in Chain(gen.req))
  BY <1>1, Assumptions DEF PhaseInv, PhaseTyped, ProvidersKnown
<1>3. CASE e = "saturated"
  BY <1>1, <1>3, GenerationRaisesKeeps DEF Failed
<1>4. CASE e = "session" /\ plan.strategy = "pause"
  BY <1>1, <1>4, GenerationRaisesKeeps DEF Failed
<1>5. CASE e = "session" /\ plan.strategy = "switch"
  <2>1. NextProvider("wall") /\ "wall" \in Failures
    BY <1>5 DEF Failed, Failures
  <2> QED BY <1>1, <2>1, NextProviderKeeps
<1>6. CASE e = "timeout"
  <2>1. NextProvider(e)
    BY <1>6 DEF Failed
  <2> QED BY <1>1, <2>1, NextProviderKeeps
<1>7. CASE e = "schema" /\ plan.kind = "deck"
  <2>1. GenerationRaises("hard") /\ "hard" \in Failures
    BY <1>7 DEF Failed, Failures
  <2> QED BY <1>1, <2>1, GenerationRaisesKeeps
<1>8. CASE e = "schema" /\ plan.kind # "deck"
  <2>1. gen' = Fallback /\ UNCHANGED <<pc, job, exc, review>>
    BY <1>8 DEF Failed
  <2>2. gen' = [gen EXCEPT !.at = 0, !.same = 0, !.lane = "plain"]
    BY <1>2, <2>1 DEF Fallback, GenType
  <2> QED BY <1>1, <1>2, <2>1, <2>2, StillAsking
<1>9. CASE e \notin {"saturated", "timeout", "schema"}
           /\ ~(e = "session" /\ plan.strategy = "pause")
           /\ ~(e = "session" /\ plan.strategy = "switch")
  <2>1. IF gen.same < Budget(e)
        THEN gen' = [gen EXCEPT !.same = @ + 1] /\ UNCHANGED <<pc, job, exc, review>>
        ELSE NextProvider(e)
    BY <1>9 DEF Failed
  <2>2. CASE gen.same < Budget(e)
    <3>1. gen' = [gen EXCEPT !.at = gen.at, !.same = gen.same + 1, !.lane = gen.lane]
      BY <1>2, <2>1, <2>2 DEF GenType
    <3>2. /\ gen.at \in 0 .. Len(Order) /\ gen.same + 1 \in Nat
          /\ gen.lane \in {"json", "plain"}
      BY <1>2 DEF GenType
    <3> QED BY <1>1, <1>2, <2>1, <2>2, <3>1, <3>2, StillAsking
  <2>3. CASE ~(gen.same < Budget(e))
    BY <1>1, <2>1, <2>3, NextProviderKeeps
  <2> QED BY <2>2, <2>3
<1> QED BY <1>1, <1>3, <1>4, <1>5, <1>6, <1>7, <1>8, <1>9

LEMMA VisionFailedKeeps ==
  ASSUME PhaseInv, NEW e \in Failures, VisionFailed(e)
  PROVE  PhaseInv'
<1>1. /\ pc = "gen" /\ GenerationRaises(IF e = "session" THEN "wall" ELSE e)
      /\ UNCHANGED <<plan, installed, owner, doc, row, runs, made, answers>>
  BY DEF VisionFailed
<1>2. "wall" \in Failures
  BY DEF Failures
<1> QED BY <1>1, <1>2, GenerationRaisesKeeps

-----------------------------------------------------------------------------
(* What judge and solver say.                                              *)

LEMMA SaysFits ==
  ASSUME PhaseInv, NEW who \in {"judge", "solver"}, NEW v \in Said \cup NoAnswer,
         Says(who, v)
  PROVE  /\ answers' \in SUBSET AnswerType /\ answers \subseteq answers'
         /\ \A a \in answers' : a.of <= Len(made)
         /\ v \in NoAnswer => answers' = answers
         /\ v \notin NoAnswer => \A a \in answers' : a \in answers \/ (a.who = who /\ a.says = v
                                                                      /\ a.of = doc.text)
         /\ v \notin NoAnswer => \E a \in answers' : a.who = who /\ a.says = v
                                                     /\ a.of = doc.text
<1> DEFINE b == [who |-> who, of |-> doc.text, says |-> v]
<1>1. doc.text \in Nat /\ doc.text <= Len(made)
  BY DEF PhaseInv, PhaseTyped, OneDocument, WholeAs, DocType
<1>2. answers \in SUBSET AnswerType /\ \A a \in answers : a.of <= Len(made)
  BY DEF PhaseInv, PhaseTyped, OneDocument
<1>3. CASE v \in NoAnswer
  BY <1>2, <1>3 DEF Says
<1>4. CASE v \notin NoAnswer
  <2>1. answers' = answers \cup {b}
    BY <1>4 DEF Says
  <2>2. b \in AnswerType /\ b.who = who /\ b.says = v /\ b.of = doc.text
    BY <1>1, <1>4 DEF AnswerType
  <2> HIDE DEF b
  <2> QED BY <1>1, <1>2, <1>4, <2>1, <2>2
<1> QED BY <1>3, <1>4

LEMMA JudgeKeeps ==
  ASSUME PhaseInv, NEW v \in {"pass", "minor", "major", "refused", "unavailable"}, Judge(v)
  PROVE  PhaseInv'
<1>1. /\ pc = "judge" /\ Says("judge", v)
      /\ UNCHANGED <<plan, installed, owner, doc, row, runs, made>>
  BY DEF Judge
<1>2. /\ review \in ReviewType /\ gen = NoGen /\ doc.text # 0 /\ doc.by \in Providers
      /\ Judged(plan) /\ review.sregens = 0 /\ review.solver = "none" /\ Allowed(doc.by)
      /\ \A a \in answers : a.who = "judge" /\ a.says # "mismatch"
      /\ Checking
  BY <1>1 DEF PhaseInv, PhaseTyped, OneDocument, ReviewsKnown, ProvidersKnown, Checking
<1>3. /\ answers' \in SUBSET AnswerType /\ answers \subseteq answers'
      /\ \A a \in answers' : a.of <= Len(made)
      /\ v \in NoAnswer => answers' = answers
      /\ v \notin NoAnswer => \A a \in answers' : a \in answers \/ (a.who = "judge" /\ a.says = v
                                                                   /\ a.of = doc.text)
      /\ v \notin NoAnswer => \E a \in answers' : a.who = "judge" /\ a.says = v
                                                  /\ a.of = doc.text
  BY <1>1, SaysFits DEF Said, NoAnswer
<1>4. \A a \in answers' : a.who = "judge" /\ a.says # "mismatch"
  BY <1>2, <1>3
<1>5. row.status # "done" /\ job # "failed"
  BY <1>1 DEF PhaseInv, ReviewsKnown, FailuresKnown
<1>6. CASE v = "unavailable" /\ ~review.retried /\ review.jregens = 0
  <2>1. review' = [review EXCEPT !.retried = TRUE] /\ UNCHANGED <<pc, gen, job, exc>>
    BY <1>6 DEF Judge
  <2>2. review' \in ReviewType /\ review'.sregens = 0 /\ review'.solver = "none"
    BY <1>2, <2>1 DEF ReviewType
  <2>3. /\ Checking' /\ ~Fresh' /\ ~Solving' /\ answers' = answers
    BY <1>1, <1>2, <1>3, <1>6, <2>1 DEF Fresh, Checking, Solving, NoAnswer
  <2>4. PhaseTyped'
    BY <1>1, <1>3, <2>1, <2>2 DEF PhaseInv, PhaseTyped
  <2>5. OneDocument'
    BY <1>1, <1>2, <2>3 DEF PhaseInv, OneDocument, WholeAs
  <2>6. ReviewsKnown'
    BY <1>1, <1>2, <1>5, <2>1, <2>2, <2>3 DEF ReviewsKnown, Judged
  <2>7. FailuresKnown' /\ ProvidersKnown'
    BY <1>1, <1>2, <1>5, <2>1, <2>3 DEF PhaseInv, FailuresKnown, ProvidersKnown, Allowed
  <2> QED BY <2>4, <2>5, <2>6, <2>7 DEF PhaseInv
<1>7. CASE v = "major" /\ MayRegenerate
  <2>1. Regenerates("judge", [review EXCEPT !.jregens = @ + 1])
    BY <1>7 DEF Judge
  <2>2. /\ pc' = "gen" /\ gen' = Generation("judge", doc.by)
        /\ review' = [review EXCEPT !.jregens = @ + 1] /\ UNCHANGED <<job, exc>>
    BY <2>1 DEF Regenerates
  <2>3. /\ gen' \in GenType /\ gen' # NoGen /\ gen'.for = "judge" /\ gen'.req = doc.by
        /\ gen'.at = 0 /\ (gen'.model # NoModel => gen'.req = plan.provider)
    BY <1>2, <2>2, GenerationFits DEF PhaseInv, PhaseTyped
  <2>4. /\ review.jregens + 1 \in 0 .. MaxJudgeRegens
    BY <1>2, <1>7, Assumptions DEF MayRegenerate, ReviewType
  <2>5. review' \in ReviewType /\ review'.sregens = 0 /\ review'.solver = "none"
    BY <1>2, <2>2, <2>4 DEF ReviewType
  <2>6. Checking' /\ ~Fresh' /\ ~Solving'
    BY <2>2, <2>3 DEF Fresh, Checking, Solving
  <2>7. PhaseTyped'
    BY <1>1, <1>3, <2>2, <2>3, <2>5 DEF PhaseInv, PhaseTyped, PhasePcs
  <2>8. OneDocument'
    BY <1>1, <1>2, <1>3, <2>6 DEF PhaseInv, OneDocument, WholeAs
  <2>9. \E a \in answers' : a.who = "judge" /\ a.of = doc.text /\ a.says = "major"
    BY <1>3, <1>7 DEF NoAnswer
  <2>10. ReviewsKnown'
    BY <1>1, <1>2, <1>4, <1>5, <2>2, <2>3, <2>5, <2>6, <2>9 DEF ReviewsKnown, Judged
  <2>11. \A i \in DOMAIN made : made[i] # Nobody
    BY <1>1 DEF PhaseInv, ProvidersKnown
  <2>12. FailuresKnown' /\ ProvidersKnown'
    BY <1>1, <1>2, <1>5, <2>2, <2>3, <2>6, <2>11 DEF FailuresKnown, ProvidersKnown, Allowed
  <2> QED BY <2>7, <2>8, <2>10, <2>12 DEF PhaseInv
<1>8. CASE ~(v = "unavailable" /\ ~review.retried /\ review.jregens = 0)
           /\ ~(v = "major" /\ MayRegenerate)
  <2>1. /\ review' = [review EXCEPT !.judge = JudgeStatus(v)]
        /\ pc' = AfterJudge /\ UNCHANGED <<gen, job, exc>>
    BY <1>8 DEF Judge
  <2>2. /\ JudgeStatus(v) \in Verdicts
        /\ JudgeStatus(v) \notin NoAnswer =>
             v \notin NoAnswer /\ (v = "major" <=> JudgeStatus(v) # "ok")
    BY DEF JudgeStatus, Verdicts, NoAnswer
  <2>3. JudgeStatus(v) \notin NoAnswer =>
           \E a \in answers' : /\ a.who = "judge"
                               /\ (a.says = "major" <=> JudgeStatus(v) # "ok")
                               /\ a.of = doc.text
    BY <1>3, <2>2
  <2> QED BY <1>1, <1>2, <1>3, <1>4, <2>1, <2>2, <2>3, JudgeDone
<1> QED BY <1>6, <1>7, <1>8

LEMMA JudgeRaisesKeeps ==
  ASSUME PhaseInv, NEW e \in Failures, JudgeRaises(e)
  PROVE  PhaseInv'
<1>1. /\ pc = "judge" /\ pc' = "raise" /\ exc' = e /\ gen' = NoGen
      /\ UNCHANGED <<plan, installed, owner, job, doc, review, row, runs, made, answers>>
      /\ e = "saturated" \/ (e = "auth" /\ plan.judgeTransport = "api")
  BY DEF JudgeRaises, Raises
<1>2. exc' \in {"saturated"} \/ Excused'
  BY <1>1 DEF Excused
<1>3. review' \in ReviewType
  BY <1>1 DEF PhaseInv, PhaseTyped
<1> QED BY <1>1, <1>2, <1>3, Raising

LEMMA SolverRaisesKeeps ==
  ASSUME PhaseInv, NEW e \in Failures, SolverRaises(e)
  PROVE  PhaseInv'
<1>1. /\ pc = "solve"
      /\ UNCHANGED <<plan, installed, owner, doc, review, row, runs, made, answers>>
      /\ \/ e = "saturated" /\ Raises(e)
         \/ /\ e = "auth" /\ plan.solverTransport = "api"
            /\ IF review.sregens = 0 THEN Raises(e)
               ELSE pc' = "block" /\ UNCHANGED <<gen, job, exc>>
  BY DEF SolverRaises
<1>2. /\ review' \in ReviewType /\ gen = NoGen
      /\ answers' \in SUBSET AnswerType /\ \A a \in answers' : a.of <= Len(made)
  BY <1>1 DEF PhaseInv, PhaseTyped, OneDocument
<1>3. CASE Raises(e)
  <2>1. pc' = "raise" /\ exc' = e /\ gen' = NoGen /\ UNCHANGED job
    BY <1>3 DEF Raises
  <2>2. exc' \in {"saturated"} \/ Excused'
    BY <1>1, <2>1 DEF Excused
  <2> QED BY <1>1, <1>2, <2>1, <2>2, Raising
<1>4. CASE pc' = "block" /\ UNCHANGED <<gen, job, exc>>
  BY <1>1, <1>2, <1>4, Blocking
<1> QED BY <1>1, <1>3, <1>4

LEMMA SolveKeeps ==
  ASSUME PhaseInv, NEW v \in {"agrees", "unsure", "mismatch", "refused", "unavailable"},
         Solve(v)
  PROVE  PhaseInv'
<1>1. /\ pc = "solve" /\ Says("solver", v)
      /\ UNCHANGED <<plan, installed, owner, doc, row, runs, made>>
  BY DEF Solve
<1>2. /\ review \in ReviewType /\ gen = NoGen /\ doc.text # 0 /\ doc.by \in Providers
      /\ plan.keyed /\ Judged(plan) /\ review.solver = "none" /\ Allowed(doc.by)
      /\ (review.sregens = 0 => \A a \in answers : a.says # "mismatch")
      /\ JudgedAs(review.judge, doc.text, review.sregens > 0)
      /\ \A i \in DOMAIN made : made[i] # Nobody
      /\ Solving
  BY <1>1 DEF PhaseInv, PhaseTyped, OneDocument, ReviewsKnown, ProvidersKnown, Solving
<1>3. /\ answers' \in SUBSET AnswerType /\ answers \subseteq answers'
      /\ \A a \in answers' : a.of <= Len(made)
      /\ v \in NoAnswer => answers' = answers
      /\ v \notin NoAnswer => \A a \in answers' : a \in answers \/ (a.who = "solver" /\ a.says = v
                                                                   /\ a.of = doc.text)
      /\ v \notin NoAnswer => \E a \in answers' : a.who = "solver" /\ a.says = v
                                                  /\ a.of = doc.text
  BY <1>1, SaysFits DEF Said, NoAnswer
<1>4. row.status # "done" /\ job # "failed"
  BY <1>1 DEF PhaseInv, ReviewsKnown, FailuresKnown
<1>5. CASE v = "mismatch" /\ review.sregens < MaxSolveRegens
  <2>1. Regenerates("solver", [review EXCEPT !.sregens = @ + 1])
    BY <1>2, <1>5, Assumptions DEF Solve, RecheckFailed, NoAnswer, ReviewType
  <2>2. /\ pc' = "gen" /\ gen' = Generation("solver", doc.by)
        /\ review' = [review EXCEPT !.sregens = @ + 1] /\ UNCHANGED <<job, exc>>
    BY <2>1 DEF Regenerates
  <2>3. /\ gen' \in GenType /\ gen' # NoGen /\ gen'.for = "solver" /\ gen'.req = doc.by
        /\ gen'.at = 0 /\ (gen'.model # NoModel => gen'.req = plan.provider)
    BY <1>2, <2>2, GenerationFits DEF PhaseInv, PhaseTyped
  <2>4. review.sregens + 1 \in 0 .. MaxSolveRegens /\ review.sregens + 1 > 0
    BY <1>2, <1>5, Assumptions DEF ReviewType
  <2>5. /\ review' \in ReviewType /\ review'.sregens > 0 /\ review'.solver = "none"
        /\ review'.judge = review.judge
    BY <1>2, <2>2, <2>4 DEF ReviewType
  <2>6. Solving' /\ ~Fresh' /\ ~Checking'
    BY <2>2, <2>3 DEF Fresh, Checking, Solving
  <2>7. PhaseTyped'
    BY <1>1, <1>3, <2>2, <2>3, <2>5 DEF PhaseInv, PhaseTyped, PhasePcs
  <2>8. OneDocument'
    BY <1>1, <1>2, <1>3, <2>6 DEF PhaseInv, OneDocument, WholeAs
  <2>9. JudgedAs(review.judge, doc.text, review.sregens > 0)'
    BY <1>1, <1>2, <1>3, <2>5 DEF JudgedAs
  <2>10. ReviewsKnown'
    BY <1>1, <1>2, <1>4, <2>2, <2>3, <2>5, <2>6, <2>9 DEF ReviewsKnown, Judged
  <2>11. FailuresKnown' /\ ProvidersKnown'
    BY <1>1, <1>2, <1>4, <2>2, <2>3, <2>6 DEF FailuresKnown, ProvidersKnown, Allowed
  <2> QED BY <2>7, <2>8, <2>10, <2>11 DEF PhaseInv
<1>6. CASE v = "mismatch" /\ review.sregens = MaxSolveRegens
  <2>1. pc' = "block" /\ UNCHANGED <<gen, job, exc, review>>
    BY <1>2, <1>6, Assumptions DEF Solve, RecheckFailed, NoAnswer
  <2> QED BY <1>1, <1>2, <1>3, <2>1, Blocking
<1>7. CASE RecheckFailed(v)
  <2>1. \/ pc' = "block" /\ UNCHANGED <<gen, job, exc, review>>
        \/ \E e \in RequeueWorthy : Raises(e) /\ UNCHANGED review
    BY <1>7 DEF Solve, RecheckFailed, NoAnswer
  <2>2. CASE pc' = "block" /\ UNCHANGED <<gen, job, exc, review>>
    BY <1>1, <1>2, <1>3, <2>2, Blocking
  <2>3. ASSUME NEW e \in RequeueWorthy, Raises(e), UNCHANGED review PROVE PhaseInv'
    <3>1. answers' = answers /\ e \in Failures
      BY <1>3, <1>7 DEF RecheckFailed, RequeueWorthy, Failures
    <3> QED BY <1>1, <1>2, <2>3, <3>1, Raising DEF Raises
  <2> QED BY <2>1, <2>2, <2>3
<1>8. CASE v # "mismatch" /\ ~RecheckFailed(v)
  <2>1. /\ review' = [review EXCEPT !.solver = SolverSays(v)]
        /\ pc' = "write" /\ UNCHANGED <<gen, job, exc>>
    BY <1>8 DEF Solve
  <2>2. /\ SolverSays(v) \in Solutions
        /\ SolverSays(v) \in {"ok", "mismatch_regen"} => v \in {"agrees", "unsure"}
        /\ review.sregens # 0 => SolverSays(v) = "mismatch_regen" /\ v \in {"agrees", "unsure"}
    BY <1>2, <1>8 DEF SolverSays, RecheckFailed, NoAnswer, Solutions, ReviewType
  <2>3. review' \in ReviewType /\ review'.solver = SolverSays(v) /\ review'.judge = review.judge
    BY <1>2, <2>1, <2>2 DEF ReviewType
  <2>4. ~Fresh' /\ ~Checking' /\ ~Solving'
    BY <2>1 DEF Fresh, Checking, Solving
  <2>5. v \in {"agrees", "unsure"} => Accepted(doc.text)'
    BY <1>1, <1>3 DEF Accepted, NoAnswer
  <2>6. (\E a \in answers' : a.says = "mismatch") => v \in {"agrees", "unsure"}
    <3>1. CASE review.sregens = 0
      BY <1>2, <1>3, <1>8, <3>1
    <3>2. CASE review.sregens # 0
      BY <2>2, <3>2
    <3> QED BY <3>1, <3>2
  <2>7. review.sregens > 0 => SolverSays(v) = "mismatch_regen"
    BY <1>2, <2>2 DEF ReviewType
  <2>8. JudgedAs(review.judge, doc.text, review.solver = "mismatch_regen")'
    BY <1>1, <1>2, <1>3, <2>3, <2>7 DEF JudgedAs
  <2>9. PhaseTyped'
    BY <1>1, <1>2, <1>3, <2>1, <2>3 DEF PhaseInv, PhaseTyped, PhasePcs
  <2>10. OneDocument'
    BY <1>1, <1>3, <2>4 DEF PhaseInv, OneDocument, WholeAs
  <2>11. ReviewsKnown'
    BY <1>1, <1>4, <2>1, <2>2, <2>3, <2>4, <2>5, <2>6, <2>8 DEF ReviewsKnown
  <2>12. FailuresKnown' /\ ProvidersKnown'
    BY <1>1, <1>4, <2>1, <2>4 DEF FailuresKnown, ProvidersKnown
  <2> QED BY <2>9, <2>10, <2>11, <2>12 DEF PhaseInv
<1>9. review.sregens < MaxSolveRegens \/ review.sregens = MaxSolveRegens
  BY <1>2, Assumptions DEF ReviewType
<1> QED BY <1>5, <1>6, <1>7, <1>8, <1>9

-----------------------------------------------------------------------------
(* Steps that make or write something.                                     *)

LEMMA BeginKeeps ==
  ASSUME PhaseInv, Begin
  PROVE  PhaseInv'
<1>1. pc = "begin" /\ UNCHANGED <<plan, installed, owner, runs>>
  BY DEF Begin
<1>2. CASE Unwinds
  BY <1>1, <1>2, Unwinding
<1>3. CASE ~Unwinds
  <2>1. /\ row' = EmptyRow("running") /\ pc' = "gen"
        /\ gen' = Generation("initial", plan.provider)
        /\ doc' = NoDoc /\ review' = NoReview /\ exc' = "none"
        /\ made' = <<>> /\ answers' = {} /\ UNCHANGED job
    BY <1>3 DEF Begin
  <2>2. plan \in Plans /\ plan.provider \in Providers
    BY Assumptions DEF PhaseInv, PhaseTyped
  <2>3. /\ gen' \in GenType /\ gen' # NoGen /\ gen'.for = "initial"
        /\ gen'.req = plan.provider /\ gen'.at = 0
    BY <2>1, <2>2, GenerationFits
  <2>4. Fresh' /\ ~Checking' /\ ~Solving'
    BY <2>1, <2>3 DEF Fresh, Checking, Solving
  <2>5. /\ doc' \in DocType /\ row' \in RowType /\ review' \in ReviewType
        /\ row'.status = "running" /\ doc'.text = 0 /\ doc'.config = 0
        /\ row'.text = 0 /\ row'.config = 0 /\ job # "failed"
    <3>1. 0 \in 0 .. MaxJudgeRegens /\ 0 \in 0 .. MaxSolveRegens
      BY Assumptions
    <3>2. job # "failed"
      BY <1>1 DEF PhaseInv, FailuresKnown
    <3> QED BY <2>1, <3>1, <3>2 DEF DocType, NoDoc, RowType, EmptyRow, ReviewType, NoReview,
              Verdicts, Solutions
  <2>6. made' \in Seq((Providers \X Models) \cup {Nobody}) /\ Len(made') = 0
    BY <2>1
  <2>7. PhaseTyped'
    BY <1>1, <2>1, <2>2, <2>3, <2>5, <2>6 DEF PhaseInv, PhaseTyped, PhasePcs
  <2>8. OneDocument'
    BY <2>1, <2>4, <2>5, <2>6 DEF OneDocument, WholeAs
  <2>9. ReviewsKnown'
    BY <2>1, <2>3, <2>4, <2>5 DEF ReviewsKnown
  <2>10. FailuresKnown'
    BY <2>1, <2>5 DEF FailuresKnown
  <2>11. ProvidersKnown'
    BY <1>1, <2>1, <2>2, <2>3, <2>4 DEF ProvidersKnown, Allowed
  <2> QED BY <2>7, <2>8, <2>9, <2>10, <2>11 DEF PhaseInv
<1> QED BY <1>2, <1>3

LEMMA ReuseKeeps ==
  ASSUME PhaseInv, Reuse
  PROVE  PhaseInv'
<1>1. /\ pc = "gen" /\ plan.kind = "extract" /\ gen = Generation("initial", plan.provider)
      /\ UNCHANGED <<plan, installed, owner, runs>>
  BY DEF Reuse
<1>2. CASE Unwinds
  BY <1>1, <1>2, Unwinding
<1>3. CASE ~Unwinds
  <2>1. /\ made' = <<Nobody>> /\ doc' = [text |-> 1, config |-> 1, by |-> Nobody]
        /\ row' = [EmptyRow("done") EXCEPT !.text = 1, !.config = 1]
        /\ Ends("done") /\ UNCHANGED <<review, exc, answers>>
    BY <1>3 DEF Reuse
  <2>2. pc' = "ended" /\ job' = "done" /\ gen' = NoGen
    BY <2>1 DEF Ends
  <2>3. Fresh /\ answers = {} /\ ~Judged(plan)
    <3>1. gen.for = "initial"
      BY <1>1 DEF Generation
    <3>2. Fresh
      BY <1>1, <3>1 DEF Fresh
    <3> QED BY <1>1, <3>2 DEF PhaseInv, OneDocument, Judged
  <2>4. ~Fresh' /\ ~Checking' /\ ~Solving'
    BY <2>2 DEF Fresh, Checking, Solving
  <2>5. /\ doc' \in DocType /\ doc'.text = 1 /\ doc'.config = 1 /\ doc'.by = Nobody
        /\ row' \in RowType /\ row'.text = 1 /\ row'.config = 1 /\ row'.by = Nobody
        /\ row'.solver = "none" /\ row'.status = "done"
    BY <2>1 DEF DocType, RowType, EmptyRow, Verdicts, Solutions
  <2>6. /\ made' \in Seq((Providers \X Models) \cup {Nobody})
        /\ Len(made') = 1 /\ made'[1] = Nobody
    BY <2>1
  <2>7. PhaseTyped'
    BY <1>1, <2>1, <2>2, <2>5, <2>6 DEF PhaseInv, PhaseTyped, PhasePcs, JobEnds
  <2>8. OneDocument'
    BY <2>1, <2>3, <2>4, <2>5, <2>6 DEF OneDocument, WholeAs
  <2>9. ShippedAsReviewed'
    BY <1>1, <2>1, <2>3, <2>5
    DEF ShippedAsReviewed, MismatchNeverShips, VerdictIsOfTheShipped, Judged
  <2>10. ReviewsKnown'
    BY <2>2, <2>4, <2>9 DEF ReviewsKnown
  <2>11. FailuresKnown' /\ ProvidersKnown'
    BY <2>2, <2>4 DEF FailuresKnown, ProvidersKnown
  <2> QED BY <2>7, <2>8, <2>10, <2>11 DEF PhaseInv
<1> QED BY <1>2, <1>3

LEMMA AnsweredKeeps ==
  ASSUME PhaseInv, Answered
  PROVE  PhaseInv'
<1> DEFINE p == Asked(gen)
           id == Len(made) + 1
           by == Resolved(p, IF p = gen.req THEN gen.model ELSE NoModel)
           Made == (Providers \X Models) \cup {Nobody}
<1>1. /\ pc = "gen" /\ made' = Append(made, by)
      /\ doc' = [text |-> id, config |-> id, by |-> p]
      /\ pc' = AfterGeneration /\ gen' = NoGen
      /\ UNCHANGED <<plan, installed, owner, review, exc, row, job, runs, answers>>
  BY DEF Answered, Swapped
<1>2. /\ gen \in GenType /\ p \in Providers /\ Allowed(p) /\ made \in Seq(Made)
      /\ plan \in Plans /\ review \in ReviewType
  BY <1>1, AskedFits DEF PhaseInv, PhaseTyped
<1>3. by \in Providers \X Models /\ by # Nobody /\ by[1] = p
  <2>1. DefaultModel[p] \in Models
    BY <1>2 DEF Models
  <2>2. gen.model \in Models \cup {NoModel}
    BY <1>2 DEF GenType
  <2> QED BY <1>2, <2>1, <2>2, Assumptions DEF Resolved
<1> HIDE DEF p, by
<1>4. /\ made' \in Seq(Made) /\ Len(made') = id /\ made'[id] = by /\ id \in Nat \ {0}
      /\ \A i \in DOMAIN made : made'[i] = made[i]
      /\ DOMAIN made' = 1 .. id /\ DOMAIN made = 1 .. Len(made) /\ Len(made) \in Nat
  BY <1>1, <1>2, <1>3
<1> HIDE DEF id
<1>5. /\ doc' \in DocType /\ doc'.text = id /\ doc'.config = id /\ doc'.by = p
  BY <1>1, <1>2, <1>4 DEF DocType
<1>6. row.status # "done" /\ job # "failed"
  BY <1>1 DEF PhaseInv, ReviewsKnown, FailuresKnown
<1>7. /\ pc' \in {"judge", "solve", "write"}
      /\ pc' = "solve" <=> gen.for = "solver"
      /\ pc' = "judge" => Judged(plan)
      /\ pc' = "write" => ~Judged(plan) /\ gen.for = "initial"
  <2>1. gen.for = "judge" => Judged(plan)
    BY <1>1 DEF PhaseInv, ReviewsKnown, Checking
  <2> QED BY <1>1, <1>2, <2>1 DEF AfterGeneration, GenType
<1>8. /\ ~Fresh' /\ (Checking' => pc' = "judge") /\ (Solving' => pc' = "solve")
  BY <1>1, <1>7, NoGenIsNone DEF Fresh, Checking, Solving
<1>9. PhaseTyped'
  BY <1>1, <1>4, <1>5, <1>7 DEF PhaseInv, PhaseTyped, PhasePcs
<1>10. OneDocument'
  <2>1. WholeAs(doc)'
    BY <1>3, <1>4, <1>5 DEF WholeAs
  <2>2. WholeAs(row)'
    <3>1. WholeAs(row) /\ row.text \in Nat
      BY DEF PhaseInv, OneDocument, PhaseTyped, RowType
    <3>2. row.text \in 0 .. Len(made')
      BY <1>4, <3>1 DEF WholeAs, id
    <3>3. row.text # 0 => made'[row.text] = made[row.text]
      BY <1>4, <3>1 DEF WholeAs
    <3> QED BY <1>1, <3>1, <3>2, <3>3 DEF WholeAs
  <2>3. \A a \in answers' : a.of <= Len(made')
    <3>1. \A a \in answers : a.of <= Len(made) /\ a.of \in Nat
      BY DEF PhaseInv, OneDocument, PhaseTyped, AnswerType
    <3> QED BY <1>1, <1>4, <3>1 DEF id
  <2> QED BY <1>2, <1>4, <1>5, <1>8, <2>1, <2>2, <2>3 DEF OneDocument
<1>11. ReviewsKnown'
  <2>1. pc' = "judge" => /\ review'.sregens = 0 /\ review'.solver = "none"
                         /\ \A a \in answers' : a.who = "judge" /\ a.says # "mismatch"
    <3>1. CASE gen.for = "initial"
      BY <1>1, <3>1 DEF PhaseInv, OneDocument, Fresh, NoReview
    <3>2. CASE gen.for = "judge"
      BY <1>1, <3>2 DEF PhaseInv, ReviewsKnown, Checking
    <3> QED BY <1>2, <1>7, <3>1, <3>2 DEF GenType
  <2>2. pc' = "solve" =>
          /\ plan.keyed /\ Judged(plan) /\ review.solver = "none" /\ review.sregens > 0
          /\ JudgedAs(review.judge, doc.text, TRUE)
    BY <1>1, <1>7 DEF PhaseInv, ReviewsKnown, Solving, JudgedAs
  <2>3. pc' = "solve" => JudgedAs(review.judge, doc.text, review.sregens > 0)'
    <3>1. \A a \in answers : a.of <= Len(made) /\ a.of \in Nat
      BY DEF PhaseInv, OneDocument, PhaseTyped, AnswerType
    <3>2. \A a \in answers : a.of < doc'.text
      BY <1>4, <1>5, <3>1 DEF id
    <3> QED BY <1>1, <2>2, <3>2 DEF JudgedAs
  <2>4. pc' = "solve" => review.sregens # 0
    BY <1>2, <2>2 DEF ReviewType
  <2>5. pc' = "write" => /\ answers' = {} /\ review'.solver = "none"
    BY <1>1, <1>7 DEF PhaseInv, OneDocument, Fresh, NoReview
  <2>6. NoGen.for = "none"
    BY NoGenIsNone
  <2> QED BY <1>1, <1>6, <1>7, <1>8, <2>1, <2>2, <2>3, <2>4, <2>5, <2>6
          DEF ReviewsKnown, Judged
<1>12. FailuresKnown'
  BY <1>1, <1>6, <1>7 DEF FailuresKnown
<1>13. ProvidersKnown'
  <2>1. \A i \in DOMAIN made' : made'[i] # Nobody
    <3>1. \A i \in DOMAIN made : made[i] # Nobody
      BY <1>1 DEF PhaseInv, ProvidersKnown
    <3>2. \A i \in 1 .. id : i = id \/ i \in DOMAIN made
      BY <1>4 DEF id
    <3> QED BY <1>3, <1>4, <3>1, <3>2
  <2>2. /\ p \in Ordered \cup {plan.provider}
        /\ plan.transport = "api" => p = plan.provider
        /\ p \notin Ordered => \A i \in DOMAIN made' : made'[i][1] = p
    <3>1. \A i \in 1 .. id : i = id \/ i \in DOMAIN made
      BY <1>4 DEF id
    <3> QED BY <1>2, <1>3, <1>4, <3>1 DEF Allowed
  <2>3. Allowed(doc.by)'
    BY <1>1, <1>2, <1>5, <2>2 DEF Allowed
  <2> QED BY <1>1, <1>7, <2>1, <2>3 DEF ProvidersKnown
<1> QED BY <1>9, <1>10, <1>11, <1>12, <1>13 DEF PhaseInv

LEMMA WriteDoneKeeps ==
  ASSUME PhaseInv, WriteDone
  PROVE  PhaseInv'
<1>1. pc = "write" /\ UNCHANGED <<plan, installed, owner, runs>>
  BY DEF WriteDone, Rest
<1>2. CASE Unwinds
  BY <1>1, <1>2, Unwinding
<1>3. CASE ~Unwinds
  <2>1. /\ row' = Written("done", review.solver) /\ Ends("done")
        /\ UNCHANGED <<doc, review, exc, made, answers>>
    BY <1>3 DEF WriteDone, Fenced
  <2>2. /\ pc' = "ended" /\ job' = "done" /\ gen' = NoGen
    BY <2>1 DEF Ends
  <2>3. doc \in DocType /\ review \in ReviewType
    BY DEF PhaseInv, PhaseTyped
  <2>4. /\ row' \in RowType /\ row'.status = "done" /\ row'.text = doc.text
        /\ row'.config = doc.config /\ row'.by = doc.by /\ row'.judge = review.judge
        /\ row'.solver = review.solver
    BY <2>1, <2>3 DEF Written, RowType, DocType, ReviewType
  <2>5. ~Fresh' /\ ~Checking' /\ ~Solving'
    BY <2>2 DEF Fresh, Checking, Solving
  <2>6. PhaseTyped'
    BY <1>1, <2>1, <2>2, <2>4 DEF PhaseInv, PhaseTyped, PhasePcs, JobEnds
  <2>7. OneDocument'
    BY <2>1, <2>4, <2>5 DEF PhaseInv, OneDocument, WholeAs
  <2>8. ShippedAsReviewed'
    <3>1. MismatchNeverShips'
      BY <1>1, <2>1, <2>4 DEF PhaseInv, ReviewsKnown, MismatchNeverShips, Accepted
    <3>2. VerdictIsOfTheShipped'
      BY <1>1, <2>1, <2>4 DEF PhaseInv, ReviewsKnown, VerdictIsOfTheShipped, JudgedAs, Judged
    <3> QED BY <3>1, <3>2 DEF ShippedAsReviewed
  <2>9. ReviewsKnown'
    BY <2>2, <2>5, <2>8 DEF ReviewsKnown
  <2>10. FailuresKnown' /\ ProvidersKnown'
    BY <2>2, <2>5 DEF FailuresKnown, ProvidersKnown
  <2> QED BY <2>6, <2>7, <2>9, <2>10 DEF PhaseInv
<1> QED BY <1>2, <1>3

LEMMA FailRowKeeps ==
  ASSUME PhaseInv, FailRow
  PROVE  PhaseInv'
<1>1. pc = "failrow" /\ UNCHANGED <<plan, installed, owner, runs>>
  BY DEF FailRow, Rest
<1>2. CASE Unwinds
  BY <1>1, <1>2, Unwinding
<1>3. CASE ~Unwinds
  <2>1. /\ row' = [row EXCEPT !.status = "failed"] /\ pc' = "raise"
        /\ UNCHANGED <<gen, doc, review, exc, job, made, answers>>
    BY <1>3 DEF FailRow, Fenced
  <2>2. row \in RowType /\ job # "failed" /\ doc.text = 0 /\ gen = NoGen
    BY <1>1 DEF PhaseInv, PhaseTyped, FailuresKnown
  <2>3. /\ row' \in RowType /\ row'.status = "failed" /\ row'.text = row.text
        /\ row'.config = row.config /\ row'.by = row.by
    BY <2>1, <2>2 DEF RowType
  <2>4. ~Fresh' /\ ~Checking' /\ ~Solving'
    BY <2>1 DEF Fresh, Checking, Solving
  <2>5. PhaseTyped'
    BY <1>1, <2>1, <2>2, <2>3 DEF PhaseInv, PhaseTyped, PhasePcs
  <2>6. OneDocument'
    BY <2>1, <2>3, <2>4 DEF PhaseInv, OneDocument, WholeAs
  <2>7. ReviewsKnown'
    BY <2>1, <2>3, <2>4 DEF ReviewsKnown
  <2>8. FailuresKnown' /\ ProvidersKnown'
    BY <2>1, <2>2, <2>4 DEF FailuresKnown, ProvidersKnown, Excused
  <2> QED BY <2>5, <2>6, <2>7, <2>8 DEF PhaseInv
<1> QED BY <1>2, <1>3

LEMMA BlockKeeps ==
  ASSUME PhaseInv, Block
  PROVE  PhaseInv'
<1>1. pc = "block" /\ UNCHANGED <<plan, installed, owner, runs>>
  BY DEF Block, Rest
<1>2. CASE Unwinds
  BY <1>1, <1>2, Unwinding
<1>3. CASE ~Unwinds
  <2>1. /\ row' = Written("failed", "mismatch_blocked") /\ pc' = "raise"
        /\ exc' \in {"hard", "transient"}
        /\ UNCHANGED <<gen, doc, review, job, made, answers>>
    BY <1>3 DEF Block, Fenced
  <2>2. doc \in DocType /\ review \in ReviewType /\ job # "failed" /\ gen = NoGen
    BY <1>1 DEF PhaseInv, PhaseTyped, FailuresKnown
  <2>3. /\ row' \in RowType /\ row'.status = "failed" /\ row'.text = doc.text
        /\ row'.config = doc.config /\ row'.by = doc.by /\ row'.solver = "mismatch_blocked"
    BY <2>1, <2>2 DEF Written, RowType, DocType, ReviewType
  <2>4. ~Fresh' /\ ~Checking' /\ ~Solving'
    BY <2>1 DEF Fresh, Checking, Solving
  <2>5. PhaseTyped'
    BY <1>1, <2>1, <2>2, <2>3 DEF PhaseInv, PhaseTyped, PhasePcs, Failures
  <2>6. OneDocument'
    BY <2>1, <2>3, <2>4 DEF PhaseInv, OneDocument, WholeAs
  <2>7. ReviewsKnown'
    BY <2>1, <2>3, <2>4 DEF ReviewsKnown
  <2>8. FailuresKnown' /\ ProvidersKnown'
    BY <2>1, <2>2, <2>3, <2>4 DEF FailuresKnown, ProvidersKnown, Excused
  <2> QED BY <2>5, <2>6, <2>7, <2>8 DEF PhaseInv
<1> QED BY <1>2, <1>3

LEMMA HandleKeeps ==
  ASSUME PhaseInv, Handle
  PROVE  PhaseInv'
<1>1. /\ pc = "raise" /\ UNCHANGED <<plan, installed, owner, runs>>
      /\ UNCHANGED <<row, doc, review, exc, made, answers>>
  BY DEF Handle, Rest
<1>2. CASE exc = "saturated"
  BY <1>1, <1>2, Ending DEF Handle, RequeueWorthy, JobEnds
<1>3. CASE exc \in RequeueWorthy
  BY <1>1, <1>3, Ending DEF Handle, RequeueWorthy, JobEnds
<1>4. CASE exc \notin RequeueWorthy \cup {"saturated"} /\ ~owner
  <2>1. Ends("unwound")
    BY <1>4 DEF Handle
  <2> QED BY <1>1, <2>1, Ending DEF JobEnds
<1>5. CASE exc \notin RequeueWorthy \cup {"saturated"} /\ owner
  <2>1. pc' = "ended" /\ job' = "failed" /\ gen' = NoGen
    BY <1>5 DEF Handle, Ends
  <2>2. Excused'
    BY <1>1, <1>5 DEF PhaseInv, FailuresKnown, Excused
  <2>3. ~Fresh' /\ ~Checking' /\ ~Solving' /\ row.status # "done"
    BY <1>1, <2>1 DEF PhaseInv, ReviewsKnown, Fresh, Checking, Solving
  <2>4. PhaseTyped'
    BY <1>1, <2>1 DEF PhaseInv, PhaseTyped, PhasePcs, JobEnds
  <2>5. OneDocument'
    BY <1>1, <2>3 DEF PhaseInv, OneDocument, WholeAs
  <2>6. ReviewsKnown'
    BY <1>1, <2>1, <2>3 DEF ReviewsKnown
  <2>7. FailuresKnown' /\ ProvidersKnown'
    BY <2>1, <2>2, <2>3 DEF FailuresKnown, ProvidersKnown
  <2> QED BY <2>4, <2>5, <2>6, <2>7 DEF PhaseInv
<1> QED BY <1>2, <1>3, <1>4, <1>5

\* Steps that only concern the execution: the lease, and the next execution.
LEMMA ExecutionKeeps ==
  ASSUME PhaseInv, LoseLease \/ RunAgain
  PROVE  PhaseInv'
<1>1. CASE LoseLease
  <2>1. /\ owner' = FALSE /\ UNCHANGED <<plan, installed, pc, gen, doc, review, exc, row, job,
                                         runs, made, answers>>
    BY <1>1 DEF LoseLease
  <2>2. Fresh' = Fresh /\ Checking' = Checking /\ Solving' = Solving
    BY <2>1 DEF Fresh, Checking, Solving
  <2>3. PhaseTyped' /\ OneDocument'
    BY <2>1, <2>2 DEF PhaseInv, PhaseTyped, OneDocument, WholeAs
  <2>4. row.status # "done" /\ job # "failed"
    BY <1>1 DEF LoseLease, PhaseInv, ReviewsKnown, FailuresKnown
  <2>5. ReviewsKnown'
    BY <2>1, <2>2, <2>4 DEF PhaseInv, ReviewsKnown, Judged, JudgedAs, Accepted
  <2>6. FailuresKnown' /\ ProvidersKnown'
    BY <2>1, <2>2 DEF PhaseInv, FailuresKnown, Excused, ProvidersKnown, Allowed, Chain
  <2> QED BY <2>3, <2>5, <2>6 DEF PhaseInv
<1>2. CASE RunAgain
  <2>1. /\ pc = "ended" /\ job \notin {"done", "failed"} /\ runs < MaxRuns
        /\ pc' = "begin" /\ job' = "running" /\ owner' = TRUE /\ runs' = runs + 1
        /\ installed' \in SUBSET Ordered
        /\ UNCHANGED <<plan, gen, doc, review, exc, row, made, answers>>
    BY <1>2 DEF RunAgain
  <2>2. /\ ~Fresh' /\ ~Checking' /\ ~Solving' /\ row.status # "done"
        /\ runs' \in 1 .. MaxRuns
    BY <2>1, NoGenIsNone, Assumptions
    DEF PhaseInv, PhaseTyped, ReviewsKnown, Fresh, Checking, Solving
  <2>3. PhaseTyped'
    BY <2>1, <2>2 DEF PhaseInv, PhaseTyped, PhasePcs, JobEnds
  <2>4. OneDocument'
    BY <2>1, <2>2 DEF PhaseInv, OneDocument, WholeAs
  <2>5. ReviewsKnown'
    BY <2>1, <2>2 DEF ReviewsKnown
  <2>6. FailuresKnown' /\ ProvidersKnown'
    BY <2>1, <2>2 DEF FailuresKnown, ProvidersKnown
  <2> QED BY <2>3, <2>4, <2>5, <2>6 DEF PhaseInv
<1> QED BY <1>1, <1>2

LEMMA PhaseStarts == Init => PhaseInv
<1> SUFFICES ASSUME Init PROVE PhaseInv
  OBVIOUS
<1>1. ~Fresh /\ ~Checking /\ ~Solving
  BY DEF Init, Fresh, Checking, Solving
<1>2. PhaseTyped
  <2>1. 0 \in 0 .. MaxJudgeRegens /\ 0 \in 0 .. MaxSolveRegens /\ 1 \in 1 .. MaxRuns
    BY Assumptions
  <2>2. made \in Seq((Providers \X Models) \cup {Nobody})
    BY DEF Init
  <2> QED BY <2>1, <2>2 DEF Init, PhaseTyped, PhasePcs, JobEnds, DocType, NoDoc, ReviewType,
        NoReview, RowType, EmptyRow, Verdicts, Solutions
<1>3. OneDocument
  <2>1. Len(made) = 0 /\ doc.text = 0 /\ doc.config = 0 /\ row.text = 0 /\ row.config = 0
    BY DEF Init, NoDoc, EmptyRow
  <2> QED BY <1>1, <2>1 DEF Init, OneDocument, WholeAs
<1>4. ReviewsKnown /\ FailuresKnown /\ ProvidersKnown
  BY <1>1 DEF Init, EmptyRow, ReviewsKnown, FailuresKnown, ProvidersKnown
<1> QED BY <1>2, <1>3, <1>4 DEF PhaseInv

LEMMA PhaseSteps == ASSUME PhaseInv, [Next]_vars PROVE PhaseInv'
<1>1. CASE UNCHANGED vars
  <2>1. Fresh' = Fresh /\ Checking' = Checking /\ Solving' = Solving
    BY <1>1 DEF vars, Fresh, Checking, Solving
  <2>2. PhaseTyped' /\ OneDocument'
    BY <1>1, <2>1 DEF vars, PhaseInv, PhaseTyped, OneDocument, WholeAs
  <2>3. ReviewsKnown'
    BY <1>1, <2>1 DEF vars, PhaseInv, ReviewsKnown, Judged, JudgedAs, Accepted,
         ShippedAsReviewed, MismatchNeverShips, VerdictIsOfTheShipped
  <2>4. FailuresKnown' /\ ProvidersKnown'
    BY <1>1, <2>1 DEF vars, PhaseInv, FailuresKnown, Excused, ProvidersKnown, Allowed, Chain
  <2> QED BY <2>2, <2>3, <2>4 DEF PhaseInv
<1>2. CASE Step
  BY <1>2, BeginKeeps, ReuseKeeps, AnsweredKeeps, WriteDoneKeeps, FailRowKeeps, BlockKeeps,
     HandleKeeps, FailedKeeps, VisionFailedKeeps, JudgeRaisesKeeps, SolverRaisesKeeps,
     JudgeKeeps, SolveKeeps DEF Step
<1>3. CASE LoseLease \/ RunAgain
  BY <1>3, ExecutionKeeps
<1>4. CASE Interrupt
  BY <1>4, Unwinding DEF Interrupt, Rest
<1> QED BY <1>1, <1>2, <1>3, <1>4 DEF Next

-----------------------------------------------------------------------------
(* A phase: what the invariant is for.                                     *)

LEMMA PhaseShipsWhole == PhaseInv => ShippedWhole
<1> SUFFICES ASSUME PhaseInv PROVE ShippedWhole
  OBVIOUS
<1>1. PhaseTyped /\ OneDocument
  BY DEF PhaseInv
<1>2. {doc.text, doc.config, row.text, row.config} \subseteq 0 .. Len(made)
  BY <1>1 DEF OneDocument, WholeAs
<1>3. review.jregens <= MaxJudgeRegens /\ review.sregens <= MaxSolveRegens
  BY <1>1, Assumptions DEF PhaseTyped, ReviewType
<1>4. row.status \in {"pending", "running", "done", "failed"}
  BY <1>1 DEF PhaseTyped, RowType
<1>5. TypeOK
  BY <1>1, <1>2, <1>3, <1>4 DEF TypeOK, PhaseTyped, PhasePcs, JobEnds
<1>6. row.text # 0 =>
        /\ row.config = row.text
        /\ IF made[row.text] = Nobody THEN row.by = Nobody ELSE row.by = made[row.text][1]
  BY <1>1 DEF OneDocument, WholeAs
<1> QED BY <1>5, <1>6 DEF ShippedWhole

LEMMA PhaseShipsReviewed == PhaseInv => ShippedAsReviewed
<1>1. ASSUME row.status # "done" PROVE ShippedAsReviewed
  BY <1>1 DEF ShippedAsReviewed, MismatchNeverShips, VerdictIsOfTheShipped
<1> QED BY <1>1 DEF PhaseInv, ReviewsKnown

LEMMA PhaseFailsForCause == PhaseInv => ValidationNeverFails
<1> QED BY DEF PhaseInv, FailuresKnown, Excused, ValidationNeverFails

LEMMA PhaseIsolates == PhaseInv => ProviderIsolation
<1> SUFFICES ASSUME PhaseInv, pc = "gen" PROVE ProviderIsolation
  BY DEF ProviderIsolation
<1> DEFINE p == Asked(gen)
<1>1. /\ gen \in GenType /\ p \in Providers /\ Allowed(p)
      /\ gen.at # 0 => p \in Ordered /\ p # gen.req
      /\ gen.at = 0 => p = gen.req
  BY AskedFits
<1>2. gen.model # NoModel => gen.req = plan.provider
  BY DEF PhaseInv, ProvidersKnown
<1> QED BY <1>1, <1>2 DEF ProviderIsolation, Allowed

-----------------------------------------------------------------------------
(* A model call: types, and what is known where it stands.                 *)

CallPcs == {"idle", "launch", "queued", "running", "backoff", "settle", "ended"}
Results == {"none", "text", "verified", "mismatch", "skipped", "raised", "cancelled"}
Tellings == {"none", "good", "odd", "blank", "limited", "fatal", "saturated", "raised"}

CallType == [pc : CallPcs, stage : A!Stages \cup {"none"},
             lane : {a.lane : a \in Asks} \cup {A!Idle.lane}, book : Books \cup {A!NoBook},
             window : SUBSET (1 .. PageCount), round : 1 .. 2, tries : 0 .. MaxRetries,
             got : Tellings, kept : BOOLEAN, owed : {"nothing", "row", "lost"}, result : Results]

Running == {c \in Calls : call[c].pc = "running"}

CallsTyped ==
  /\ call \in [Calls -> CallType]
  /\ free \in Nat /\ scratch \in SUBSET Calls

PermitsCounted == free + Cardinality(Running) = Permits /\ child \in SUBSET Running

\* The pages an ask has attached are there until it has landed.
PagesThere(k) ==
  /\ k.pc = "ended" => k.window = {}
  /\ k.stage \in {"vision", "check"} /\ k.pc \in {"launch", "queued", "running", "backoff"}
       => k.window # {}
  /\ k.stage = "vision" /\ k.window # {}
       => k.book \in Books /\ k.window = A!SectionWindow(k.book)

\* A summary is kept from Gate B on, and nothing after it raises but a regeneration.
ExtractKept(k) ==
  /\ k.pc = "idle" => k.stage = "none" /\ k.owed # "row"
  /\ k.result = "none" <=> k.pc # "ended"
  /\ k.stage \in {"verify", "regen", "coverage"} => k.kept
  /\ k.result = "text" /\ A!OfExtract(k.stage) => k.kept
  /\ k.result = "raised" => k.stage \notin {"verify", "coverage", "check"}

\* A row is owed from the landing to the ledger.
RowOwed(k) ==
  k.owed = "row" => \/ k.pc = "settle" /\ k.got # "raised"
                    \/ k.pc = "ended" /\ (k.result = "cancelled" \/ k.stage = "coverage")

CallKnown(k) == PagesThere(k) /\ ExtractKept(k) /\ RowOwed(k)

CallInv == CallsTyped /\ PermitsCounted /\ \A c \in Calls : CallKnown(call[c])

-----------------------------------------------------------------------------
(* Pages.                                                                  *)

\* The window of a section lies in the book, and is as large as the book or the cap allow.
LEMMA WindowFits ==
  ASSUME NEW b, b.from \in Nat, b.to \in Nat
  PROVE  A!SectionWindow(b) \in SUBSET (1 .. PageCount)
<1> DEFINE from == IF b.from > Margin THEN b.from - Margin ELSE 1
           to   == IF b.to + Margin > PageCount THEN PageCount ELSE b.to + Margin
           mid  == (b.from + b.to) \div 2
           half == MaxPages \div 2
           low  == IF mid > half THEN mid - half ELSE 1
           first == IF low + MaxPages - 1 <= PageCount THEN low ELSE PageCount - MaxPages + 1
<1>1. mid \in Nat /\ half \in Nat
  BY CallAssumptions
<1>2. A!SectionWindow(b) = IF ~A!Ranged(b) \/ from > to THEN {}
                           ELSE IF to - from + 1 <= MaxPages THEN from .. to
                           ELSE first .. (first + MaxPages - 1)
  BY DEF A!SectionWindow
<1>3. from \in Nat \ {0} /\ to \in Nat /\ to <= PageCount
  BY CallAssumptions
<1> HIDE DEF from, to, mid, half
<1>4. ASSUME to - from + 1 > MaxPages PROVE first >= 1 /\ first + MaxPages - 1 <= PageCount /\ first \in Int
  <2>1. low \in Nat \ {0} /\ PageCount >= MaxPages
    BY <1>1, <1>3, <1>4, CallAssumptions
  <2> HIDE DEF low
  <2> QED BY <2>1, CallAssumptions
<1> HIDE DEF first
<1> QED BY <1>2, <1>3, <1>4, CallAssumptions

\* A section no longer than an odd cap is read whole.
LEMMA WindowIsWhole ==
  ASSUME NEW b, b.from \in Nat, b.to \in Nat, MaxPages % 2 = 1,
         b.to - b.from < MaxPages, A!SectionWindow(b) # {}
  PROVE  (b.from .. b.to) \cap (1 .. PageCount) \subseteq A!SectionWindow(b)
<1> DEFINE from == IF b.from > Margin THEN b.from - Margin ELSE 1
           to   == IF b.to + Margin > PageCount THEN PageCount ELSE b.to + Margin
           mid  == (b.from + b.to) \div 2
           half == MaxPages \div 2
           low  == IF mid > half THEN mid - half ELSE 1
           first == IF low + MaxPages - 1 <= PageCount THEN low ELSE PageCount - MaxPages + 1
<1>1. mid \in Nat /\ half \in Nat /\ MaxPages = 2 * half + 1
      /\ 2 * mid <= b.from + b.to /\ b.from + b.to <= 2 * mid + 1
  BY CallAssumptions
<1>2. A!SectionWindow(b) = IF ~A!Ranged(b) \/ from > to THEN {}
                           ELSE IF to - from + 1 <= MaxPages THEN from .. to
                           ELSE first .. (first + MaxPages - 1)
  BY DEF A!SectionWindow
<1>3. A!Ranged(b) /\ ~(from > to)
  <2> HIDE DEF from, to, first
  <2> QED BY <1>2
<1>4. b.from >= 1 /\ b.from <= b.to
  BY <1>3 DEF A!Ranged
<1> HIDE DEF mid, half
<1>5. \A p \in b.from .. b.to : p <= PageCount => from <= p /\ p <= to
  BY <1>4, CallAssumptions
<1>6. \A p \in b.from .. b.to : p <= PageCount => first <= p /\ p <= first + MaxPages - 1
  BY <1>1, <1>4, CallAssumptions
<1>7. from \in Int /\ to \in Int /\ first \in Int
  BY <1>1, CallAssumptions
<1> HIDE DEF from, to, first
<1> QED BY <1>2, <1>3, <1>5, <1>6, <1>7, CallAssumptions

\* An even cap cuts the last page off a section that just fits it.
LEMMA EvenCapClips ==
  ASSUME NEW b, b.from \in Nat, b.from >= MaxPages, MaxPages % 2 = 0, Margin > 0,
         b.to = b.from + MaxPages - 1, b.to + Margin <= PageCount
  PROVE  b.to \in 1 .. PageCount /\ b.to \notin A!SectionWindow(b)
<1> DEFINE from == IF b.from > Margin THEN b.from - Margin ELSE 1
           to   == IF b.to + Margin > PageCount THEN PageCount ELSE b.to + Margin
           mid  == (b.from + b.to) \div 2
           half == MaxPages \div 2
           low  == IF mid > half THEN mid - half ELSE 1
           first == IF low + MaxPages - 1 <= PageCount THEN low ELSE PageCount - MaxPages + 1
<1>1. mid \in Nat /\ half \in Nat /\ MaxPages = 2 * half
      /\ 2 * mid <= b.from + b.to /\ b.from + b.to <= 2 * mid + 1
  BY CallAssumptions
<1>2. A!SectionWindow(b) = IF ~A!Ranged(b) \/ from > to THEN {}
                           ELSE IF to - from + 1 <= MaxPages THEN from .. to
                           ELSE first .. (first + MaxPages - 1)
  BY DEF A!SectionWindow
<1> HIDE DEF mid, half
<1>3. to = b.to + Margin /\ from <= b.from /\ to - from + 1 > MaxPages /\ from \in Int
  BY <1>1, CallAssumptions
<1>4. first + MaxPages - 1 < b.to /\ first \in Int
  BY <1>1, CallAssumptions
<1>5. b.to \in 1 .. PageCount
  BY CallAssumptions
<1> HIDE DEF from, to, first
<1> QED BY <1>2, <1>3, <1>4, <1>5, CallAssumptions

-----------------------------------------------------------------------------
(* One ask, as a record.                                                   *)

LEMMA WindowFitsCall ==
  \A b \in Books : A!SectionWindow(b) \in SUBSET (1 .. PageCount)
BY WindowFits, CallAssumptions

LEMMA TurnFits ==
  ASSUME NEW k \in CallType, NEW s \in A!Stages
  PROVE  LET n == A!Turn(k, s) IN
         /\ n \in CallType /\ n.pc = "launch" /\ n.stage = s
         /\ n.window = k.window /\ n.book = k.book /\ n.kept = k.kept /\ n.result = k.result
         /\ n.owed = "row" <=> k.owed = "row"
<1>1. 0 \in 0 .. MaxRetries /\ 1 \in 1 .. 2
  BY CallAssumptions
<1> QED BY <1>1 DEF A!Turn, CallType, CallPcs, Tellings

LEMMA EndedFits ==
  ASSUME NEW k \in CallType, NEW r \in Results
  PROVE  LET n == A!Ended(k, r) IN
         /\ n \in CallType /\ n.pc = "ended" /\ n.result = r /\ n.window = {}
         /\ n.stage = k.stage /\ n.kept = k.kept /\ n.owed = k.owed
<1>1. 0 \in 0 .. MaxRetries /\ 1 \in 1 .. 2 /\ {} \in SUBSET (1 .. PageCount)
  BY CallAssumptions
<1> QED BY <1>1 DEF A!Ended, CallType, CallPcs, Tellings

LEMMA LandedFits ==
  ASSUME NEW k \in CallType, NEW o \in Tellings
  PROVE  LET n == A!Landed(k, o) IN
         /\ n \in CallType /\ n.pc = "settle" /\ n.got = o
         /\ n.owed = (IF o = "raised" THEN "nothing" ELSE "row")
         /\ n.stage = k.stage /\ n.kept = k.kept /\ n.result = k.result
         /\ k.stage = "vision" => n.window = {}
<1> DEFINE w == IF k.stage = "vision" THEN {} ELSE k.window
           b == IF o = "raised" THEN "nothing" ELSE "row"
           n == [k EXCEPT !.pc = "settle", !.got = o, !.owed = b, !.window = w,
                          !.book = A!NoBook]
<1>1. A!Landed(k, o) = n
  BY DEF A!Landed
<1>2. w \in SUBSET (1 .. PageCount) /\ (k.stage = "vision" => w = {})
  BY DEF CallType
<1>3. b \in {"nothing", "row"}
  OBVIOUS
<1> HIDE DEF w, b
<1>4. /\ n \in CallType /\ n.pc = "settle" /\ n.got = o /\ n.owed = b /\ n.window = w
      /\ n.stage = k.stage /\ n.kept = k.kept /\ n.result = k.result
  BY <1>2, <1>3 DEF CallType, CallPcs
<1> QED BY <1>1, <1>2, <1>4 DEF b

\* A call is ended, landed, or on its way to the next.
LEMMA EndedIsKnown ==
  ASSUME NEW k \in CallType, NEW r \in Results \ {"none"},
         r = "text" /\ A!OfExtract(k.stage) => k.kept,
         r = "raised" => k.stage \notin {"verify", "coverage", "check"},
         k.stage \in {"verify", "regen", "coverage"} => k.kept,
         k.owed = "row" => r = "cancelled" \/ k.stage = "coverage"
  PROVE  A!Ended(k, r) \in CallType /\ CallKnown(A!Ended(k, r))
<1> DEFINE n == A!Ended(k, r)
<1>1. /\ n \in CallType /\ n.pc = "ended" /\ n.result = r /\ n.window = {}
      /\ n.stage = k.stage /\ n.kept = k.kept /\ n.owed = k.owed
  BY EndedFits
<1> HIDE DEF n
<1>2. PagesThere(n) /\ ExtractKept(n) /\ RowOwed(n)
  BY <1>1 DEF PagesThere, ExtractKept, RowOwed
<1> QED BY <1>1, <1>2 DEF CallKnown, n

LEMMA TurnIsKnown ==
  ASSUME NEW k \in CallType, NEW s \in A!Stages, s \notin {"vision", "check"},
         k.result = "none", k.owed # "row", s \in {"verify", "regen", "coverage"} => k.kept
  PROVE  A!Turn(k, s) \in CallType /\ CallKnown(A!Turn(k, s))
<1> DEFINE n == A!Turn(k, s)
<1>1. /\ n \in CallType /\ n.pc = "launch" /\ n.stage = s /\ n.kept = k.kept
      /\ n.owed # "row" /\ n.result = "none"
  BY TurnFits
<1> HIDE DEF n
<1>2. PagesThere(n) /\ ExtractKept(n) /\ RowOwed(n)
  BY <1>1 DEF PagesThere, ExtractKept, RowOwed
<1> QED BY <1>1, <1>2 DEF CallKnown, n

LEMMA LandedIsKnown ==
  ASSUME NEW k \in CallType, CallKnown(k), k.result = "none", k.pc # "idle", NEW o \in Tellings
  PROVE  A!Landed(k, o) \in CallType /\ CallKnown(A!Landed(k, o))
<1> DEFINE n == A!Landed(k, o)
<1>1. /\ n \in CallType /\ n.pc = "settle" /\ n.got = o
      /\ n.owed = (IF o = "raised" THEN "nothing" ELSE "row")
      /\ n.stage = k.stage /\ n.kept = k.kept /\ n.result = k.result
      /\ k.stage = "vision" => n.window = {}
  BY LandedFits
<1> HIDE DEF n
<1>2. PagesThere(n) /\ ExtractKept(n) /\ RowOwed(n)
  BY <1>1 DEF CallKnown, PagesThere, ExtractKept, RowOwed
<1> QED BY <1>1, <1>2 DEF CallKnown, n

\* A change of place that keeps what the ask holds.
LEMMA MovedIsKnown ==
  ASSUME NEW k \in CallType, CallKnown(k),
         NEW p \in {"launch", "queued", "running", "backoff"},
         k.pc \in {"launch", "queued", "running", "backoff"}, NEW t \in 0 .. MaxRetries,
         NEW n, n = [k EXCEPT !.pc = p, !.tries = t]
  PROVE  n \in CallType /\ CallKnown(n)
<1>1. /\ n \in CallType /\ n.pc = p /\ n.stage = k.stage /\ n.window = k.window /\ n.book = k.book
      /\ n.kept = k.kept /\ n.owed = k.owed /\ n.result = k.result /\ n.got = k.got
  BY DEF CallType, CallPcs
<1>2. PagesThere(n) /\ ExtractKept(n) /\ RowOwed(n)
  BY <1>1 DEF CallKnown, PagesThere, ExtractKept, RowOwed
<1> QED BY <1>1, <1>2 DEF CallKnown

-----------------------------------------------------------------------------
(* The calls of a process.                                                 *)

LEMMA CallChanges ==
  ASSUME CallInv, NEW c \in Calls, NEW n \in CallType, CallKnown(n),
         call' = [call EXCEPT ![c] = n]
  PROVE  /\ call' \in [Calls -> CallType]
         /\ \A d \in Calls : CallKnown(call'[d])
         /\ n.pc # "running" => Running' = Running \ {c}
         /\ n.pc = "running" => Running' = Running \cup {c}
<1>1. call \in [Calls -> CallType] /\ \A d \in Calls : CallKnown(call[d])
  BY DEF CallInv, CallsTyped
<1>2. \A d \in Calls : call'[d] = IF d = c THEN n ELSE call[d]
  BY <1>1
<1>3. call' \in [Calls -> CallType]
  BY <1>1
<1>4. \A d \in Calls : CallKnown(call'[d])
  BY <1>1, <1>2
<1>5. /\ n.pc # "running" => Running' = Running \ {c}
      /\ n.pc = "running" => Running' = Running \cup {c}
  BY <1>2 DEF Running
<1> QED BY <1>3, <1>4, <1>5

LEMMA RunningIsFinite == IsFiniteSet(Running) /\ Cardinality(Running) \in Nat
<1>1. Running \in SUBSET Calls
  BY DEF Running
<1>2. IsFiniteSet(Running)
  BY <1>1, CallAssumptions, FS_Subset
<1> QED BY <1>2, FS_CardinalityType

LEMMA PermitTaken ==
  ASSUME CallInv, NEW c \in Calls, c \notin Running, free > 0, Running' = Running \cup {c},
         free' = free - 1, child' \in {child, child \cup {c}}
  PROVE  PermitsCounted' /\ free' \in Nat
<1>1. free + Cardinality(Running) = Permits /\ child \in SUBSET Running /\ free \in Nat
  BY DEF CallInv, CallsTyped, PermitsCounted
<1>2. Cardinality(Running') = Cardinality(Running) + 1
  BY RunningIsFinite, FS_AddElement
<1>3. child' \in SUBSET Running'
  BY <1>1
<1> QED BY <1>1, <1>2, <1>3, RunningIsFinite, CallAssumptions DEF PermitsCounted

LEMMA PermitBack ==
  ASSUME CallInv, NEW c \in Calls, c \in Running, Running' = Running \ {c},
         free' = free + 1, child' = child \ {c}
  PROVE  PermitsCounted' /\ free' \in Nat
<1>1. free + Cardinality(Running) = Permits /\ child \in SUBSET Running /\ free \in Nat
  BY DEF CallInv, CallsTyped, PermitsCounted
<1>2. Cardinality(Running') = Cardinality(Running) - 1
  BY RunningIsFinite, FS_RemoveElement
<1>3. child' \in SUBSET Running'
  BY <1>1
<1> QED BY <1>1, <1>2, <1>3, RunningIsFinite, CallAssumptions DEF PermitsCounted

\* A call that has no permit changes, and takes none.
LEMMA Aside ==
  ASSUME CallInv, NEW c \in Calls, call[c].pc # "running", NEW n \in CallType, CallKnown(n),
         n.pc # "running", call' = [call EXCEPT ![c] = n], free' = free, child' = child,
         scratch' \in SUBSET Calls
  PROVE  CallInv'
<1>1. /\ call' \in [Calls -> CallType] /\ \A d \in Calls : CallKnown(call'[d])
      /\ Running' = Running \ {c}
  BY CallChanges
<1>2. Running' = Running
  BY <1>1 DEF Running
<1>3. PermitsCounted'
  BY <1>2 DEF CallInv, PermitsCounted
<1>4. CallsTyped'
  BY <1>1 DEF CallInv, CallsTyped
<1> QED BY <1>1, <1>3, <1>4 DEF CallInv

\* A call that leaves the model gives its permit back.
LEMMA Leaving ==
  ASSUME CallInv, NEW c \in Calls, NEW n \in CallType, CallKnown(n),
         n.pc # "running", call' = [call EXCEPT ![c] = n],
         free' = IF call[c].pc = "running" THEN free + 1 ELSE free, child' = child \ {c},
         scratch' \in SUBSET Calls
  PROVE  CallInv'
<1>1. CASE call[c].pc = "running"
  <2>1. /\ call' \in [Calls -> CallType] /\ \A d \in Calls : CallKnown(call'[d])
        /\ Running' = Running \ {c}
    BY CallChanges
  <2>2. c \in Running
    BY <1>1 DEF Running
  <2>3. PermitsCounted' /\ free' \in Nat
    BY <1>1, <2>1, <2>2, PermitBack
  <2> QED BY <2>1, <2>3 DEF CallInv, CallsTyped
<1>2. CASE call[c].pc # "running"
  <2>1. c \notin child
    BY <1>2 DEF CallInv, PermitsCounted, Running
  <2>2. child' = child
    BY <2>1
  <2> QED BY <1>2, <2>2, Aside
<1> QED BY <1>1, <1>2

-----------------------------------------------------------------------------
(* Each step of an ask.                                                    *)

\* What is known of the ask that steps.
LEMMA CallAt ==
  ASSUME CallInv, NEW c \in Calls
  PROVE  call[c] \in CallType /\ CallKnown(call[c])
BY DEF CallInv, CallsTyped

LEMMA AsExtractIsKnown ==
  ASSUME NEW k \in CallType, CallKnown(k), k.pc = "idle", k.book \in Books,
         NEW n \in A!AsExtract(k)
  PROVE  n \in CallType /\ CallKnown(n) /\ n.pc # "running"
<1>1. k.stage = "none" /\ k.result = "none" /\ k.owed # "row"
  BY DEF CallKnown, ExtractKept
<1>2. /\ A!Ended(k, "raised") \in CallType /\ CallKnown(A!Ended(k, "raised"))
      /\ A!Ended(k, "raised").pc = "ended"
  BY <1>1, EndedIsKnown, EndedFits DEF Results
<1>3. CASE n = A!Ended(k, "raised")
  BY <1>2, <1>3
<1>4. CASE n = [A!Turn(k, "summary") EXCEPT !.book = A!NoBook]
  <2> DEFINE t == A!Turn(k, "summary")
  <2>1. t \in CallType /\ CallKnown(t)
    BY <1>1, TurnIsKnown DEF A!Stages
  <2>2. t.stage = "summary" /\ t.pc = "launch"
    BY TurnFits DEF A!Stages
  <2> HIDE DEF t
  <2>3. /\ n \in CallType /\ n.stage = t.stage /\ n.pc = t.pc /\ n.window = t.window
        /\ n.kept = t.kept /\ n.owed = t.owed /\ n.result = t.result /\ n.got = t.got
    BY <1>4, <2>1 DEF t, CallType
  <2> QED BY <2>1, <2>2, <2>3 DEF CallKnown, PagesThere, ExtractKept, RowOwed
<1>5. CASE A!SectionWindow(k.book) # {} /\ n = [A!Turn(k, "vision") EXCEPT !.window = A!SectionWindow(k.book)]
  <2> DEFINE t == A!Turn(k, "vision")
             w == A!SectionWindow(k.book)
  <2>1. w \in SUBSET (1 .. PageCount)
    BY WindowFitsCall
  <2>2. t \in CallType /\ t.stage = "vision" /\ t.pc = "launch" /\ t.book = k.book
        /\ t.kept = k.kept /\ t.owed # "row" /\ t.result = k.result
    BY <1>1, TurnFits DEF A!Stages
  <2> HIDE DEF t, w
  <2>3. /\ n \in CallType /\ n.stage = t.stage /\ n.pc = t.pc /\ n.window = w /\ n.book = t.book
        /\ n.kept = t.kept /\ n.owed = t.owed /\ n.result = t.result /\ n.got = t.got
    BY <1>5, <2>1, <2>2 DEF t, w, CallType
  <2> QED BY <1>1, <1>5, <2>2, <2>3 DEF w, CallKnown, PagesThere, ExtractKept, RowOwed
<1> QED BY <1>3, <1>4, <1>5 DEF A!AsExtract

LEMMA AsTocIsKnown ==
  ASSUME NEW k \in CallType, CallKnown(k), k.pc = "idle", NEW n \in A!AsToc(k)
  PROVE  n \in CallType /\ CallKnown(n) /\ n.pc # "running"
<1> DEFINE t == A!Turn(k, "toc")
<1>1. k.result = "none" /\ k.owed # "row"
  BY DEF CallKnown, ExtractKept
<1>2. t \in CallType /\ CallKnown(t)
  BY <1>1, TurnIsKnown DEF A!Stages
<1>3. t.stage = "toc" /\ t.pc = "launch"
  BY TurnFits DEF A!Stages
<1>4. PICK w \in {A!TocWindow, {}} : n = [t EXCEPT !.window = w, !.book = A!NoBook]
  BY DEF A!AsToc
<1>5. w \in SUBSET (1 .. PageCount)
  BY DEF A!TocWindow
<1> HIDE DEF t
<1>6. /\ n \in CallType /\ n.stage = "toc" /\ n.pc = "launch" /\ n.kept = t.kept
      /\ n.owed = t.owed /\ n.result = t.result
  BY <1>2, <1>3, <1>4, <1>5 DEF CallType
<1> QED BY <1>2, <1>3, <1>6 DEF CallKnown, PagesThere, ExtractKept, RowOwed

LEMMA AsCheckIsKnown ==
  ASSUME NEW k \in CallType, CallKnown(k), k.pc = "idle", NEW n \in A!AsCheck(k)
  PROVE  n \in CallType /\ CallKnown(n) /\ n.pc # "running"
<1>1. k.stage = "none" /\ k.result = "none" /\ k.owed # "row"
  BY DEF CallKnown, ExtractKept
<1>2. CASE n = [A!Turn(k, "check") EXCEPT !.window = A!TocWindow, !.book = A!NoBook]
  <2> DEFINE t == A!Turn(k, "check")
  <2>1. t \in CallType /\ t.stage = "check" /\ t.pc = "launch" /\ t.owed # "row"
        /\ t.result = k.result
    BY <1>1, TurnFits DEF A!Stages
  <2>2. A!TocWindow \in SUBSET (1 .. PageCount)
    BY DEF A!TocWindow
  <2>3. 1 \in A!TocWindow
    BY CallAssumptions DEF A!TocWindow
  <2> HIDE DEF t
  <2>4. /\ n \in CallType /\ n.stage = "check" /\ n.pc = "launch" /\ n.window = A!TocWindow
        /\ n.owed = t.owed /\ n.result = t.result
    BY <1>2, <2>1, <2>2 DEF t, CallType
  <2> QED BY <1>1, <2>1, <2>3, <2>4 DEF CallKnown, PagesThere, ExtractKept, RowOwed, A!OfExtract
<1>3. CASE n = A!Ended([k EXCEPT !.stage = "check"], "skipped")
  <2> DEFINE t == [k EXCEPT !.stage = "check"]
  <2>1. t \in CallType /\ t.stage = "check" /\ t.owed = k.owed
    BY DEF CallType, A!Stages
  <2> HIDE DEF t
  <2>2. /\ A!Ended(t, "skipped") \in CallType /\ CallKnown(A!Ended(t, "skipped"))
        /\ A!Ended(t, "skipped").pc = "ended"
    BY <1>1, <2>1, EndedIsKnown, EndedFits DEF Results
  <2> QED BY <1>3, <2>2 DEF t
<1> QED BY <1>2, <1>3 DEF A!AsCheck

LEMMA CallBeginKeeps ==
  ASSUME CallInv, NEW c \in Calls, A!Begin(c)
  PROVE  CallInv'
<1>1. call[c] \in CallType /\ CallKnown(call[c]) /\ call[c].pc = "idle"
  BY CallAt DEF A!Begin, A!At
<1>2. PICK a \in Asks, b \in Books :
        LET k == [call[c] EXCEPT !.lane = a.lane, !.book = b]
        IN  \/ /\ a.kind \in {"structured", "markdown"}
               /\ call' = [call EXCEPT ![c] = [A!Turn(k, a.kind) EXCEPT !.book = A!NoBook]]
            \/ \E n \in A!AsExtract(k) : call' = [call EXCEPT ![c] = n]
            \/ \E n \in A!AsToc(k) : call' = [call EXCEPT ![c] = n]
            \/ \E n \in A!AsCheck(k) : call' = [call EXCEPT ![c] = n]
  BY DEF A!Begin
<1> DEFINE k == [call[c] EXCEPT !.lane = a.lane, !.book = b]
<1>3. k \in CallType /\ CallKnown(k) /\ k.pc = "idle" /\ k.book \in Books
  <2>1. /\ k \in CallType /\ k.pc = "idle" /\ k.book = b /\ k.stage = call[c].stage
        /\ k.window = call[c].window /\ k.kept = call[c].kept /\ k.owed = call[c].owed
        /\ k.result = call[c].result /\ k.got = call[c].got
    BY <1>1 DEF CallType
  <2> QED BY <1>1, <2>1 DEF CallKnown, PagesThere, ExtractKept, RowOwed
<1> HIDE DEF k
<1>4. PICK n \in CallType : CallKnown(n) /\ n.pc # "running" /\ call' = [call EXCEPT ![c] = n]
  <2>1. CASE a.kind \in {"structured", "markdown"}
             /\ call' = [call EXCEPT ![c] = [A!Turn(k, a.kind) EXCEPT !.book = A!NoBook]]
    <3> DEFINE t == A!Turn(k, a.kind)
               n == [t EXCEPT !.book = A!NoBook]
    <3>1. k.result = "none" /\ k.owed # "row"
      BY <1>3 DEF CallKnown, ExtractKept
    <3>2. t \in CallType /\ CallKnown(t)
      BY <1>3, <2>1, <3>1, TurnIsKnown DEF A!Stages
    <3>3. t.stage = a.kind /\ t.pc = "launch"
      BY <1>3, <2>1, TurnFits DEF A!Stages
    <3> HIDE DEF t
    <3>4. /\ n \in CallType /\ n.stage = a.kind /\ n.pc = "launch" /\ n.kept = t.kept
          /\ n.owed = t.owed /\ n.result = t.result
      BY <3>2, <3>3 DEF CallType
    <3>5. CallKnown(n)
      BY <2>1, <3>2, <3>3, <3>4 DEF CallKnown, PagesThere, ExtractKept, RowOwed
    <3>6. call' = [call EXCEPT ![c] = n]
      BY <2>1 DEF t
    <3> QED BY <3>4, <3>5, <3>6
  <2>2. CASE \E n \in A!AsExtract(k) : call' = [call EXCEPT ![c] = n]
    BY <1>3, <2>2, AsExtractIsKnown
  <2>3. CASE \E n \in A!AsToc(k) : call' = [call EXCEPT ![c] = n]
    BY <1>3, <2>3, AsTocIsKnown
  <2>4. CASE \E n \in A!AsCheck(k) : call' = [call EXCEPT ![c] = n]
    BY <1>3, <2>4, AsCheckIsKnown
  <2> QED BY <1>2, <2>1, <2>2, <2>3, <2>4 DEF k
<1>5. free' = free /\ child' = child /\ scratch' \in SUBSET Calls
  BY DEF A!Begin, CallInv, CallsTyped
<1> QED BY <1>1, <1>4, <1>5, Aside

LEMMA QueuedIsKnown ==
  ASSUME NEW k \in CallType, CallKnown(k), NEW p \in {"launch", "queued", "running", "backoff"},
         k.pc \in {"launch", "queued", "running", "backoff"}
  PROVE  LET n == [k EXCEPT !.pc = p] IN n \in CallType /\ CallKnown(n) /\ n.pc = p
<1> DEFINE n == [k EXCEPT !.pc = p]
<1>1. n = [k EXCEPT !.pc = p, !.tries = k.tries] /\ k.tries \in 0 .. MaxRetries /\ n.pc = p
  BY DEF CallType
<1> HIDE DEF n
<1>2. n \in CallType /\ CallKnown(n)
  BY <1>1, MovedIsKnown
<1> QED BY <1>1, <1>2 DEF n

LEMMA NoneYet ==
  ASSUME NEW k \in CallType, CallKnown(k), k.pc # "ended"
  PROVE  k.result = "none"
BY DEF CallKnown, ExtractKept

LEMMA LaunchKeeps ==
  ASSUME CallInv, NEW c \in Calls, A!Launch(c)
  PROVE  CallInv'
<1>1. call[c] \in CallType /\ CallKnown(call[c]) /\ call[c].pc = "launch"
  BY CallAt DEF A!Launch, A!At
<1> DEFINE q == [call[c] EXCEPT !.pc = "queued"]
           r == A!Landed(call[c], "raised")
<1>2. q \in CallType /\ CallKnown(q) /\ q.pc = "queued"
  BY <1>1, QueuedIsKnown
<1>3. r \in CallType /\ CallKnown(r) /\ r.pc = "settle"
  BY <1>1, NoneYet, LandedIsKnown, LandedFits DEF Tellings
<1>4. call' = [call EXCEPT ![c] = q] \/ call' = [call EXCEPT ![c] = r]
  BY DEF A!Launch
<1>5. free' = free /\ child' = child /\ scratch' \in SUBSET Calls
  BY DEF A!Launch, CallInv, CallsTyped
<1> HIDE DEF q, r
<1> QED BY <1>1, <1>2, <1>3, <1>4, <1>5, Aside

LEMMA AdmitKeeps ==
  ASSUME CallInv, NEW c \in Calls, A!Admit(c)
  PROVE  CallInv'
<1>1. call[c] \in CallType /\ CallKnown(call[c]) /\ call[c].pc = "queued"
  BY CallAt DEF A!Admit, A!At
<1> DEFINE n == [call[c] EXCEPT !.pc = "running"]
<1>2. n \in CallType /\ CallKnown(n) /\ n.pc = "running"
  BY <1>1, QueuedIsKnown
<1>3. /\ call' = [call EXCEPT ![c] = n] /\ free > 0 /\ free' = free - 1
      /\ child' \in {child, child \cup {c}} /\ scratch' = scratch
  BY DEF A!Admit
<1> HIDE DEF n
<1>4. /\ call' \in [Calls -> CallType] /\ \A d \in Calls : CallKnown(call'[d])
      /\ Running' = Running \cup {c}
  BY <1>2, <1>3, CallChanges
<1>5. c \notin Running
  BY <1>1 DEF Running
<1>6. PermitsCounted' /\ free' \in Nat
  BY <1>3, <1>4, <1>5, PermitTaken
<1> QED BY <1>3, <1>4, <1>6 DEF CallInv, CallsTyped

LEMMA RefuseKeeps ==
  ASSUME CallInv, NEW c \in Calls, A!Refuse(c)
  PROVE  CallInv'
<1>1. call[c] \in CallType /\ CallKnown(call[c]) /\ call[c].pc = "queued"
  BY CallAt DEF A!Refuse, A!At
<1>2. PICK o \in {"saturated", "raised"} : call' = [call EXCEPT ![c] = A!Landed(call[c], o)]
  BY DEF A!Refuse
<1> DEFINE n == A!Landed(call[c], o)
<1>3. n \in CallType /\ CallKnown(n) /\ n.pc = "settle"
  BY <1>1, NoneYet, LandedIsKnown, LandedFits DEF Tellings
<1>4. free' = free /\ child' = child /\ scratch' \in SUBSET Calls
  BY DEF A!Refuse, CallInv, CallsTyped
<1> HIDE DEF n
<1> QED BY <1>1, <1>2, <1>3, <1>4, Aside DEF n

LEMMA OutcomesFit ==
  ASSUME NEW lane
  PROVE  A!Outcomes(lane) \subseteq {"good", "odd", "blank", "limited", "fatal"}
<1> DEFINE All == {"good", "odd", "blank", "limited", "fatal"}
<1>1. \A r : A!Plain(r) \subseteq All
  BY DEF A!Plain, A!Said
<1>2. \A p, r : A!CliReads(p, r) \subseteq All
  BY <1>1 DEF A!CliReads, A!ClaudeReads, A!GeminiReads, A!KimiReads, A!CodexReads,
              A!OpenCodeReads
<1>3. \A p, r : A!ApiReads(p, r) \subseteq All
  BY <1>1 DEF A!ApiReads, A!GeminiApi, A!ClaudeApi, A!ClodexApi
<1> QED BY <1>2, <1>3 DEF A!Outcomes

LEMMA AnswerKeeps ==
  ASSUME CallInv, NEW c \in Calls, A!Answer(c)
  PROVE  CallInv'
<1>1. call[c] \in CallType /\ CallKnown(call[c]) /\ call[c].pc = "running"
  BY CallAt DEF A!Answer, A!At
<1>2. PICK o \in A!Outcomes(A!LaneOf(call[c])) :
        call' = [call EXCEPT ![c] = IF A!Retries(@, o)
                                    THEN [@ EXCEPT !.pc = "backoff", !.tries = call[c].tries + 1]
                                    ELSE A!Landed(@, o)]
  BY DEF A!Answer
<1> DEFINE b == [call[c] EXCEPT !.pc = "backoff", !.tries = call[c].tries + 1]
           r == A!Landed(call[c], o)
<1>3. o \in Tellings
  BY OutcomesFit DEF Tellings
<1>4. r \in CallType /\ CallKnown(r) /\ r.pc = "settle"
  BY <1>1, <1>3, NoneYet, LandedIsKnown, LandedFits
<1>5. ASSUME A!Retries(call[c], o) PROVE b \in CallType /\ CallKnown(b) /\ b.pc = "backoff"
  <2>1. call[c].tries + 1 \in 0 .. MaxRetries
    BY <1>1, <1>5, CallAssumptions DEF A!Retries, CallType
  <2>2. b \in CallType /\ CallKnown(b)
    BY <1>1, <2>1, MovedIsKnown
  <2> QED BY <1>1, <2>2 DEF CallType
<1>6. call' = [call EXCEPT ![c] = IF A!Retries(call[c], o) THEN b ELSE r]
  BY <1>2
<1>7. /\ free' = IF call[c].pc = "running" THEN free + 1 ELSE free
      /\ child' = child \ {c} /\ scratch' \in SUBSET Calls
  BY <1>1 DEF A!Answer, CallInv, CallsTyped
<1> HIDE DEF b, r
<1>8. CASE A!Retries(call[c], o)
  BY <1>5, <1>6, <1>7, <1>8, Leaving
<1>9. CASE ~A!Retries(call[c], o)
  BY <1>4, <1>6, <1>7, <1>9, Leaving
<1> QED BY <1>8, <1>9

LEMMA WakeKeeps ==
  ASSUME CallInv, NEW c \in Calls, A!Wake(c)
  PROVE  CallInv'
<1>1. call[c] \in CallType /\ CallKnown(call[c]) /\ call[c].pc = "backoff"
  BY CallAt DEF A!Wake, A!At
<1> DEFINE n == [call[c] EXCEPT !.pc = "launch"]
<1>2. n \in CallType /\ CallKnown(n) /\ n.pc = "launch"
  BY <1>1, QueuedIsKnown
<1>3. call' = [call EXCEPT ![c] = n]
  BY DEF A!Wake
<1>4. free' = free /\ child' = child /\ scratch' \in SUBSET Calls
  BY DEF A!Wake, CallInv, CallsTyped
<1> HIDE DEF n
<1> QED BY <1>1, <1>2, <1>3, <1>4, Aside

LEMMA DeliveredIsKnown ==
  ASSUME NEW k \in CallType, k.result = "none", k.owed # "row", k.kept, NEW n \in A!Delivered(k)
  PROVE  n \in CallType /\ CallKnown(n) /\ n.pc # "running"
<1>1. CASE n = A!Ended(k, "text")
  BY <1>1, EndedIsKnown, EndedFits DEF Results
<1>2. CASE n = A!Turn(k, "coverage")
  BY <1>2, TurnIsKnown, TurnFits DEF A!Stages
<1> QED BY <1>1, <1>2 DEF A!Delivered

\* What an ask makes of a call that has come back and is booked.
LEMMA AfterIsKnown ==
  ASSUME NEW k \in CallType, CallKnown(k), k.pc = "settle", k.owed # "row", NEW n \in A!After(k)
  PROVE  n \in CallType /\ CallKnown(n) /\ n.pc # "running"
<1>1. k.result = "none" /\ (k.stage \in {"verify", "regen", "coverage"} => k.kept)
  BY DEF CallKnown, ExtractKept
<1>2. ASSUME NEW r \in Results \ {"none"}, n = A!Ended(k, r),
             r = "text" /\ A!OfExtract(k.stage) => k.kept,
             r = "raised" => k.stage \notin {"verify", "coverage", "check"}
      PROVE  n \in CallType /\ CallKnown(n) /\ n.pc # "running"
  BY <1>1, <1>2, EndedIsKnown, EndedFits
<1>3. CASE k.stage \in {"structured", "markdown", "toc"}
  <2>1. n \in {A!Ended(k, "text"), A!Ended(k, "raised")}
    BY <1>3 DEF A!After, A!OfPhase
  <2> QED BY <1>2, <1>3, <2>1 DEF Results, A!OfExtract
<1>4. CASE k.stage = "check"
  <2>1. n \in {A!Ended(k, "verified"), A!Ended(k, "mismatch"), A!Ended(k, "skipped")}
    BY <1>4 DEF A!After, A!OfCheck
  <2> QED BY <1>2, <1>4, <2>1 DEF Results
<1>5. CASE k.stage \in {"summary", "vision"}
  <2> DEFINE held == [k EXCEPT !.kept = TRUE]
  <2>1. /\ held \in CallType /\ held.result = "none" /\ held.owed # "row" /\ held.kept
        /\ held.stage = k.stage
    BY <1>1 DEF CallType
  <2>2. \/ n = A!Ended(k, "raised")
        \/ n \in A!Delivered(held)
        \/ n = A!Turn(held, "verify")
    BY <1>5 DEF A!After, A!OfSummary
  <2> HIDE DEF held
  <2>3. CASE n = A!Ended(k, "raised")
    BY <1>2, <1>5, <2>3 DEF Results
  <2>4. CASE n \in A!Delivered(held)
    BY <2>1, <2>4, DeliveredIsKnown
  <2>5. CASE n = A!Turn(held, "verify")
    BY <2>1, <2>5, TurnIsKnown, TurnFits DEF A!Stages
  <2> QED BY <2>2, <2>3, <2>4, <2>5
<1>6. CASE k.stage = "verify"
  <2>1. n \in A!Delivered(k) \/ n = A!Turn(k, "regen")
    BY <1>6 DEF A!After, A!OfVerify
  <2>2. CASE n = A!Turn(k, "regen")
    BY <1>1, <1>6, <2>2, TurnIsKnown, TurnFits DEF A!Stages
  <2> QED BY <1>1, <1>6, <2>1, <2>2, DeliveredIsKnown
<1>7. CASE k.stage = "regen"
  <2> DEFINE both == k.kept \/ A!Accepted(k)
             held == [k EXCEPT !.kept = both]
  <2>1. n \in A!Delivered(held) \/ n = A!Ended(k, "raised")
    BY <1>7 DEF A!After, A!OfRegen
  <2>2. both = TRUE
    BY <1>1, <1>7
  <2> HIDE DEF both
  <2>3. held \in CallType /\ held.result = "none" /\ held.owed # "row" /\ held.kept
    BY <1>1, <2>2 DEF CallType
  <2> HIDE DEF held
  <2>4. CASE n \in A!Delivered(held)
    BY <2>3, <2>4, DeliveredIsKnown
  <2>5. CASE n = A!Ended(k, "raised")
    BY <1>2, <1>7, <2>5 DEF Results
  <2> QED BY <2>1, <2>4, <2>5
<1>8. CASE k.stage \in {"coverage", "none"}
  <2>1. n = A!Ended(k, "text")
    BY <1>8 DEF A!After, A!OfCoverage
  <2> QED BY <1>1, <1>2, <1>8, <2>1 DEF Results, A!OfExtract
<1>9. k.stage \in A!Stages \cup {"none"}
  BY DEF CallType
<1> QED BY <1>3, <1>4, <1>5, <1>6, <1>7, <1>8, <1>9 DEF A!Stages

LEMMA SettleKeeps ==
  ASSUME CallInv, NEW c \in Calls, A!Settle(c)
  PROVE  CallInv'
<1>1. call[c] \in CallType /\ CallKnown(call[c]) /\ call[c].pc = "settle"
  BY CallAt DEF A!Settle, A!At
<1>2. PICK owed \in A!Booked(call[c]) :
        LET k == [call[c] EXCEPT !.owed = owed]
        IN  IF A!AnotherRound(k)
            THEN call' = [call EXCEPT ![c] = [A!Turn(k, k.stage) EXCEPT !.round = 2]]
            ELSE \E n \in A!After(k) : call' = [call EXCEPT ![c] = n]
  BY DEF A!Settle
<1> DEFINE k == [call[c] EXCEPT !.owed = owed]
<1>3. owed \in {"nothing", "lost"}
  BY <1>1, <1>2 DEF CallKnown, RowOwed, CallType, A!Booked, A!Rows
<1>4. /\ k \in CallType /\ k.pc = "settle" /\ k.owed # "row" /\ k.stage = call[c].stage
      /\ k.window = call[c].window /\ k.book = call[c].book /\ k.kept = call[c].kept
      /\ k.result = call[c].result
  BY <1>1, <1>3 DEF CallType
<1>5. \/ /\ A!AnotherRound(k)
         /\ call' = [call EXCEPT ![c] = [A!Turn(k, k.stage) EXCEPT !.round = 2]]
      \/ \E n \in A!After(k) : call' = [call EXCEPT ![c] = n]
  BY <1>2
<1>6. free' = free /\ child' = child /\ scratch' \in SUBSET Calls
  BY DEF A!Settle, CallInv, CallsTyped
<1> HIDE DEF k
<1>7. CallKnown(k)
  BY <1>1, <1>4 DEF CallKnown, PagesThere, ExtractKept, RowOwed
<1>8. CASE A!AnotherRound(k)
           /\ call' = [call EXCEPT ![c] = [A!Turn(k, k.stage) EXCEPT !.round = 2]]
  <2> DEFINE t == A!Turn(k, k.stage)
             n == [t EXCEPT !.round = 2]
  <2>1. k.stage \in {"markdown", "structured", "toc", "verify", "coverage"}
    BY <1>8 DEF A!AnotherRound
  <2>2. k.result = "none" /\ (k.stage \in {"verify", "regen", "coverage"} => k.kept)
    BY <1>4, <1>7 DEF CallKnown, ExtractKept
  <2>3. t \in CallType /\ CallKnown(t)
    BY <1>4, <2>1, <2>2, TurnIsKnown DEF A!Stages
  <2>4. t.stage = k.stage /\ t.pc = "launch"
    BY <1>4, <2>1, TurnFits DEF A!Stages
  <2> HIDE DEF t
  <2>5. /\ n \in CallType /\ n.stage = k.stage /\ n.pc = "launch" /\ n.kept = t.kept
        /\ n.owed = t.owed /\ n.result = t.result /\ n.window = t.window
    BY <2>3, <2>4 DEF CallType
  <2>6. CallKnown(n)
    BY <2>1, <2>3, <2>4, <2>5 DEF CallKnown, PagesThere, ExtractKept, RowOwed
  <2>7. call' = [call EXCEPT ![c] = n]
    BY <1>8 DEF t
  <2> HIDE DEF n
  <2> QED BY <1>1, <1>6, <2>5, <2>6, <2>7, Aside
<1>9. CASE \E n \in A!After(k) : call' = [call EXCEPT ![c] = n]
  BY <1>1, <1>4, <1>6, <1>7, <1>9, AfterIsKnown, Aside
<1> QED BY <1>5, <1>8, <1>9

LEMMA UnwindLeaves ==
  ASSUME CallInv, NEW c \in Calls, A!Awaits(c), A!Unwind(c)
  PROVE  /\ free' = IF call[c].pc = "running" THEN free + 1 ELSE free
         /\ child' = child \ {c} /\ scratch' \in SUBSET Calls
BY DEF A!Unwind, A!At, A!Killed, CallInv, CallsTyped

LEMMA CancelKeeps ==
  ASSUME CallInv, NEW c \in Calls, A!Cancel(c) \/ A!CoverageDeadline(c)
  PROVE  CallInv'
<1>1. call[c] \in CallType /\ CallKnown(call[c])
  BY CallAt
<1>2. A!Awaits(c) /\ A!Unwind(c)
  BY DEF A!Cancel, A!CoverageDeadline
<1>3. PICK r \in {"cancelled", "text"} : /\ call' = [call EXCEPT ![c] = A!Ended(call[c], r)]
                                         /\ r = "text" => call[c].stage = "coverage"
  BY DEF A!Cancel, A!CoverageDeadline
<1> DEFINE n == A!Ended(call[c], r)
<1>4. n \in CallType /\ CallKnown(n) /\ n.pc = "ended"
  <2>1. call[c].stage \in {"verify", "regen", "coverage"} => call[c].kept
    BY <1>1 DEF CallKnown, ExtractKept
  <2>2. call[c].owed = "row" => r = "cancelled" \/ call[c].stage = "coverage"
    BY <1>3
  <2> QED BY <1>1, <1>3, <2>1, <2>2, EndedIsKnown, EndedFits DEF Results
<1>5. call' = [call EXCEPT ![c] = n]
  BY <1>3
<1> HIDE DEF n
<1> QED BY <1>2, <1>4, <1>5, UnwindLeaves, Leaving

LEMMA CallStarts == A!Init => CallInv
<1> SUFFICES ASSUME A!Init PROVE CallInv
  OBVIOUS
<1>1. A!Idle \in CallType /\ CallKnown(A!Idle) /\ A!Idle.pc = "idle"
  <2>1. 0 \in 0 .. MaxRetries /\ 1 \in 1 .. 2 /\ {} \in SUBSET (1 .. PageCount)
    BY CallAssumptions
  <2>2. A!Idle.lane \in {a.lane : a \in Asks} \cup {A!Idle.lane}
    OBVIOUS
  <2>3. A!Idle \in CallType
    BY <2>1, <2>2 DEF A!Idle, CallType, CallPcs, Tellings, Results
  <2> QED BY <2>3 DEF A!Idle, CallKnown, PagesThere, ExtractKept, RowOwed, A!OfExtract
<1>2. call \in [Calls -> CallType] /\ \A c \in Calls : call[c] = A!Idle
  BY <1>1 DEF A!Init
<1>3. Running = {}
  BY <1>1, <1>2 DEF Running
<1>4. PermitsCounted
  BY <1>3, FS_EmptySet, CallAssumptions DEF A!Init, PermitsCounted
<1> QED BY <1>1, <1>2, <1>4, CallAssumptions DEF A!Init, CallInv, CallsTyped

LEMMA CallSteps == ASSUME CallInv, A!Next PROVE CallInv'
<1>1. PICK c \in Calls : A!Step(c)
  BY DEF A!Next
<1> QED BY <1>1, CallBeginKeeps, LaunchKeeps, AdmitKeeps, RefuseKeeps, AnswerKeeps, WakeKeeps,
           SettleKeeps, CancelKeeps DEF A!Step

-----------------------------------------------------------------------------
(* The calls: what the invariant is for.                                   *)

LEMMA CallsLeaveNothing == CallInv => A!NothingOutlivesItsCall
<1> SUFFICES ASSUME CallInv PROVE A!NothingOutlivesItsCall
  OBVIOUS
<1>1. \A c \in Calls : call[c] \in CallType /\ CallKnown(call[c])
  BY CallAt
<1>2. A!Cardinality(Running) = Cardinality(Running)
  BY DEF A!Cardinality, Cardinality
<1>3. Running = {c \in Calls : A!At(c, "running")}
  BY DEF Running, A!At
<1>4. free + Cardinality(Running) = Permits /\ child \in SUBSET Running /\ free \in Nat
  BY DEF CallInv, CallsTyped, PermitsCounted
<1>5. free \in 0 .. Permits
  BY <1>4, RunningIsFinite, CallAssumptions
<1>6. A!TypeOK
  BY <1>1, <1>4, <1>5 DEF A!TypeOK, CallInv, CallsTyped, CallType, CallPcs, Running
<1>7. \A c \in child : A!At(c, "running")
  BY <1>3, <1>4
<1>8. ASSUME NEW c \in Calls
      PROVE  /\ A!At(c, "ended") => call[c].window = {} /\ c \notin child
             /\ A!Awaits(c) /\ ~A!At(c, "settle") /\ call[c].stage \in {"vision", "check"}
                  => call[c].window # {}
  BY <1>1, <1>7 DEF CallKnown, PagesThere, A!At, A!Awaits
<1> QED BY <1>2, <1>3, <1>4, <1>6, <1>7, <1>8 DEF A!NothingOutlivesItsCall

LEMMA CallsAreBooked == CallInv => A!EveryCallIsBooked
<1> SUFFICES ASSUME CallInv, NEW c \in Calls, call[c].owed = "row"
             PROVE  A!At(c, "settle") \/ call[c].result = "cancelled"
                    \/ (call[c].stage = "coverage" /\ A!At(c, "ended"))
  BY DEF A!EveryCallIsBooked
<1> QED BY CallAt DEF CallKnown, RowOwed, A!At

LEMMA ExtractsAreSound == CallInv /\ MaxPages % 2 = 1 => A!ExtractIsSound
<1> SUFFICES ASSUME CallInv, MaxPages % 2 = 1, NEW c \in Calls
             PROVE  /\ A!OfExtract(call[c].stage) /\ call[c].result = "text" => call[c].kept
                    /\ call[c].result = "raised"
                         => call[c].stage \notin {"verify", "coverage", "check"}
                    /\ call[c].stage = "vision" /\ call[c].window # {}
                         /\ call[c].book.to - call[c].book.from < MaxPages
                         => (call[c].book.from .. call[c].book.to) \cap (1 .. PageCount)
                              \subseteq call[c].window
  BY DEF A!ExtractIsSound
<1>1. CallKnown(call[c])
  BY CallAt
<1>2. ASSUME call[c].stage = "vision", call[c].window # {},
             call[c].book.to - call[c].book.from < MaxPages
      PROVE  (call[c].book.from .. call[c].book.to) \cap (1 .. PageCount) \subseteq call[c].window
  <2>1. call[c].book \in Books /\ call[c].window = A!SectionWindow(call[c].book)
    BY <1>1, <1>2 DEF CallKnown, PagesThere
  <2> QED BY <1>2, <2>1, WindowIsWhole, CallAssumptions
<1> QED BY <1>1, <1>2 DEF CallKnown, ExtractKept

-----------------------------------------------------------------------------
(* Both, side by side.                                                     *)

GenInv == PhaseInv /\ CallInv

\* Every state of a phase and of the calls is one of GenInv: a document, its JSON and
\* its producer are of one generation, the verdicts known are of it, every provider asked is
\* allowed, and every call holds what its place says (_execute_phase, _spawn_once).
THEOREM GenerationInvariant == GenSpec => []GenInv
<1>1. GenInit => GenInv
  BY PhaseStarts, CallStarts DEF GenInit, GenInv
<1>2. GenInv /\ [GenNext]_GenVars => GenInv'
  <2> SUFFICES ASSUME GenInv, [GenNext]_GenVars PROVE GenInv'
    OBVIOUS
  <2>1. CASE OfPhases(Next)
    <3>1. PhaseInv'
      BY <2>1, PhaseSteps DEF OfPhases, GenInv
    <3>2. UNCHANGED calls
      BY <2>1 DEF OfPhases
    <3>3. CallInv'
      BY <3>2 DEF calls, GenInv, CallInv, CallsTyped, PermitsCounted, Running
    <3> QED BY <3>1, <3>3 DEF GenInv
  <2>2. CASE OfCalls(A!Next)
    <3>1. PhaseInv'
      BY <2>2, PhaseSteps DEF OfCalls, GenInv
    <3> QED BY <2>2, <3>1, CallSteps DEF OfCalls, GenInv
  <2>3. CASE UNCHANGED GenVars
    <3>1. UNCHANGED vars /\ UNCHANGED calls
      BY <2>3 DEF GenVars
    <3>2. PhaseInv'
      BY <3>1, PhaseSteps DEF GenInv
    <3>3. CallInv'
      BY <3>1 DEF calls, GenInv, CallInv, CallsTyped, PermitsCounted, Running
    <3> QED BY <3>2, <3>3 DEF GenInv
  <2> QED BY <2>1, <2>2, <2>3 DEF GenNext
<1> QED BY <1>1, <1>2, PTL DEF GenSpec

\* The Markdown, the JSON and the producer of a row are always of one generation, whatever
\* fallback lanes, regenerations and repairs went before (_execute_phase).
THEOREM WholeShipments == GenSpec => []ShippedWhole
<1>1. GenInv => ShippedWhole
  BY PhaseShipsWhole DEF GenInv
<1> QED BY <1>1, GenerationInvariant, PTL

\* A finished row's judge and solver columns are true of the artifact it ships, and what the
\* solver has refuted ships only after the solver has accepted it (_judge_phase_output,
\* _solve_and_repair_answer_key and the done write).
THEOREM HonestReviews == GenSpec => []ShippedAsReviewed
<1>1. GenInv => ShippedAsReviewed
  BY PhaseShipsReviewed DEF GenInv
<1> QED BY <1>1, GenerationInvariant, PTL

\* No fallback leaves an api job's provider, enters a provider outside the order, or takes
\* the job's model elsewhere (_failover_chain, _gen_model_of).
THEOREM ProvidersApart == GenSpec => []ProviderIsolation
<1>1. GenInv => ProviderIsolation
  BY PhaseIsolates DEF GenInv
<1> QED BY <1>1, GenerationInvariant, PTL

\* A permit, a child process and the attached pages end with the call that holds them,
\* however it ends (_spawn_once and its callers).
THEOREM NothingIsLeft == GenSpec => []NothingOutlivesItsCall
<1>1. GenInv => NothingOutlivesItsCall
  BY CallsLeaveNothing DEF GenInv, NothingOutlivesItsCall
<1> QED BY <1>1, GenerationInvariant, PTL

\* Every call that comes back is booked before its ask goes on (_record_usage).
THEOREM CallsBooked == GenSpec => []EveryCallIsBooked
<1>1. GenInv => EveryCallIsBooked
  BY CallsAreBooked DEF GenInv, EveryCallIsBooked
<1> QED BY <1>1, GenerationInvariant, PTL

\* Judge, solver, verification, regeneration and coverage never take generated content
\* down but for a proven mismatch or an api authentication; and with an odd page cap, as
\* its default of 25 is, a section that fits the cap is read whole (_subset_pdf): with an
\* even one it is not (EvenCapClips).
THEOREM ChecksAreHarmless == MaxPages % 2 = 1 => (GenSpec => []ChecksDoNoHarm)
<1> SUFFICES ASSUME MaxPages % 2 = 1 PROVE GenSpec => []ChecksDoNoHarm
  OBVIOUS
<1>1. GenInv => ChecksDoNoHarm
  BY PhaseFailsForCause, ExtractsAreSound DEF GenInv, ChecksDoNoHarm
<1> QED BY <1>1, GenerationInvariant, PTL
=============================================================================
