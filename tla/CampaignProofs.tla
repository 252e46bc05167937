--------------------------- MODULE CampaignProofs ---------------------------
(***************************************************************************)
(* Regeneration, for any targets, canaries, clerks and carriers, and for   *)
(* any lessons, campaigns and requests.  A campaign (Campaign): nothing is *)
(* released that was not approved and produced, its status tells what its  *)
(* targets are, and they live the life of TargetLife.  Its planning        *)
(* (Planning): what it freezes serves it, and what it pays for was shown.  *)
(***************************************************************************)
EXTENDS Regeneration, FiniteSetTheorems, TLAPS

-----------------------------------------------------------------------------
(* The invariant.                                                          *)

TargetRows == [status : Life!Statuses, abandon : BOOLEAN]
JobStates == {"none", "pending", "running", "cancelling"} \cup TerminalJob
CampaignRows == [status : DOMAIN CampaignTransitions \cup {"absent"}, launched : BOOLEAN,
                 approved : BOOLEAN, rejected : BOOLEAN, cancelled : BOOLEAN]
ClerkPcs == {"idle", "create", "approve", "release", "refused", "requeue"}
ClerkRows == [pc : ClerkPcs, todo : SUBSET Targets, target : Targets \cup {Nobody}]
CarrierRows == [target : Targets \cup {Nobody}, seen : JobStates]

Typed ==
  /\ campaign \in CampaignRows
  /\ target \in [Targets -> TargetRows]
  /\ job \in [Targets -> JobStates]
  /\ owed \in SUBSET Targets
  /\ carrier \in [Workers -> CarrierRows]
  /\ clerk \in [Clerks -> ClerkRows]
  /\ requests \in 0 .. MaxRequests /\ runs \in 0 .. MaxRuns

\* A campaign is inserted with all its targets, and a job is only created for a
\* target that was driven first.
AllThere ==
  /\ campaign.status = "absent" => campaign = NoCampaign
  /\ \A t \in Targets : target[t].status = "absent" <=> campaign = NoCampaign
  /\ \A t \in Targets : job[t] # "none" => target[t].status \notin {"absent", "planned"}

\* What a clerk still has to do was driven in its earlier transactions.
ClerksKnow ==
  /\ \A w \in Workers : carrier[w] # AtRest => carrier[w].target \in Targets
  /\ \A c \in Clerks :
       /\ clerk[c].pc = "idle" => clerk[c] = Free
       /\ clerk[c].pc # "idle" => campaign # NoCampaign
       /\ clerk[c].pc \in {"refused", "requeue"} => clerk[c].target \in Targets
       /\ clerk[c].pc = "release" => campaign.approved
       /\ \A t \in clerk[c].todo : target[t].status \notin {"absent", "planned"}

\* An approved campaign was never rejected and is past its canaries.
Reviewed ==
  /\ campaign.approved =>
       /\ ~campaign.rejected
       /\ campaign.status \notin {"absent", "draft", "canary_running",
                                  "awaiting_canary_approval"}
  /\ campaign.status = "rejected" => campaign.rejected

\* A target that is to be abandoned waits for its job or its delivery only.
AbandonsEnd ==
  \A t \in Targets : target[t].abandon =>
      target[t].status \in {"generating", "publishing", "published", "abandoned"}

\* done, in the job or in what a carrier has read of it, means produced.
Whole ==
  /\ \A t \in Targets : job[t] = "done" => t \in produced
  /\ \A w \in Workers : carrier[w].seen = "done" => carrier[w].target \in produced

\* A failed publication counts as released: it is retried without a review.
Earned ==
  \A t \in Targets :
    /\ target[t].status \in Publication \cup {"publication_failed"} => Approved(campaign)
    /\ target[t].status \in Publication \cup {"awaiting_canary_approval", "publication_failed"}
         => t \in produced

CampaignInv ==
  /\ Typed /\ AllThere /\ ClerksKnow /\ Reviewed
  /\ AbandonsEnd /\ Whole /\ Earned /\ StatusIsHonest

-----------------------------------------------------------------------------
(* Edges.                                                                  *)

LEMMA LifeEdges ==
  ASSUME NEW s \in Life!Statuses, NEW s2 \in Life!Transitions[s]
  PROVE  /\ s2 \in Life!Statuses /\ s \notin TerminalTarget /\ s2 # "absent"
         /\ s2 = "planned" => s = "absent"
         /\ s2 = "awaiting_canary_approval" => s = "generating"
         /\ s2 \in {"publishing", "published", "publication_failed"} =>
              s \in {"publication_pending", "publishing", "publication_failed"}
         /\ s = "absent" => s2 = "planned"
         /\ s = "awaiting_canary_approval" => s2 \in {"publication_pending", "abandoned"}
<1> USE DEF Life!Statuses, Life!Transitions
<1> QED BY DEF TerminalTarget

\* The statuses themselves.
LEMMA StatusList ==
  Life!Statuses = {"absent", "planned", "generating", "awaiting_canary_approval",
                   "publication_pending", "publishing", "published", "generation_failed",
                   "publication_failed", "abandoned"}
BY DEF Life!Statuses, Life!Transitions

\* The ways out that the actions use.
LEMMA Exits ==
  /\ "planned" \in Life!Transitions["absent"]
  /\ "generating" \in Life!Transitions["planned"]
  /\ "generating" \in Life!Transitions["generation_failed"]
  /\ "generation_failed" \in Life!Transitions["generating"]
  /\ "publication_pending" \in Life!Transitions["awaiting_canary_approval"]
  /\ "publication_pending" \in Life!Transitions["publication_failed"]
  /\ "publishing" \in Life!Transitions["publication_pending"]
  /\ "publishing" \in Life!Transitions["publication_failed"]
  /\ Life!Transitions["publishing"] = {"published", "publication_failed", "abandoned"}
  /\ \A s \in Life!Statuses \ ({"absent"} \cup TerminalTarget) :
       "abandoned" \in Life!Transitions[s]
BY DEF Life!Statuses, Life!Transitions, TerminalTarget

\* Where desired_target_status sends a target.
LEMMA DesiredSays ==
  ASSUME NEW j \in JobStates, j # "none", NEW ok \in BOOLEAN, NEW ab \in BOOLEAN
  PROVE  /\ Desired(j, ok, ab) \in {"generating", "abandoned", "publication_pending",
                                    "awaiting_canary_approval", "generation_failed"}
         /\ Desired(j, ok, ab) \in {"publication_pending", "awaiting_canary_approval"} =>
              j = "done" /\ ~ab
         /\ Desired(j, ok, ab) = "publication_pending" => ok
         /\ Desired(j, ok, ab) = "abandoned" => ab
         /\ ab => Desired(j, ok, ab) \in {"generating", "abandoned"}
<1>1. CASE j \in {"pending", "running", "cancelling"}
  BY <1>1 DEF Desired, TerminalJob
<1>2. CASE j \in TerminalJob /\ ab
  BY <1>2 DEF Desired, TerminalJob
<1>3. CASE j = "done" /\ ~ab
  BY <1>3 DEF Desired, TerminalJob
<1>4. CASE j \in TerminalJob \ {"done"} /\ ~ab
  BY <1>4 DEF Desired, TerminalJob
<1> QED BY <1>1, <1>2, <1>3, <1>4 DEF JobStates

\* Carrying the end of a job never leaves the edges.
LEMMA CarriedSays ==
  ASSUME NEW r \in TargetRows, NEW j \in JobStates, NEW c \in CampaignRows
  PROVE  LET s == Carried(r, j, c) IN
         /\ s \in TargetRows /\ s.abandon = r.abandon
         /\ s.status = r.status \/ s.status \in Life!Transitions[r.status]
         /\ s.status # r.status =>
              /\ s.status # "planned"
              /\ s.status \in {"publication_pending", "awaiting_canary_approval"} =>
                   j = "done" /\ ~r.abandon
              /\ s.status = "publication_pending" => Approved(c)
              /\ s.status = "abandoned" => r.abandon
              /\ r.abandon => s.status \in {"generating", "abandoned"}
<1> DEFINE d == Desired(j, Approved(c), r.abandon)
           moved == [r EXCEPT !.status = d]
           kept == j = "none" \/ r.status \in TerminalTarget \/ ~CanMoveTarget(r.status, d)
<1>0. Approved(c) \in BOOLEAN /\ r.abandon \in BOOLEAN /\ r.status \in Life!Statuses
  BY DEF Approved, TargetRows
<1>1. CASE kept
  BY <1>0, <1>1 DEF Carried
<1>2. CASE ~kept
  <2>1. Carried(r, j, c) = moved /\ j # "none"
    BY <1>2 DEF Carried
  <2>2. d = r.status \/ d \in Life!Transitions[r.status]
    BY <1>2 DEF CanMoveTarget
  <2>3. d \in Life!Statuses
    BY <1>0, <2>2, LifeEdges
  <2>4. moved \in TargetRows /\ moved.status = d /\ moved.abandon = r.abandon
    BY <2>3 DEF TargetRows
  <2>5. /\ d # "planned"
        /\ d \in {"publication_pending", "awaiting_canary_approval"} => j = "done" /\ ~r.abandon
        /\ d = "publication_pending" => Approved(c)
        /\ d = "abandoned" => r.abandon
        /\ r.abandon => d \in {"generating", "abandoned"}
    BY <1>0, <2>1, DesiredSays
  <2> HIDE DEF d, moved, kept
  <2> QED BY <2>1, <2>2, <2>4, <2>5
<1> QED BY <1>1, <1>2

-----------------------------------------------------------------------------
(* What one step may do to a target.                                       *)

Lawful(t) ==
  /\ target'[t] \in TargetRows
  /\ target'[t].status = target[t].status
     \/ target'[t].status \in Life!Transitions[target[t].status]
  /\ target'[t].status # target[t].status =>
       /\ target'[t].status = "awaiting_canary_approval" => t \in produced
       /\ target'[t].status = "publication_pending" => t \in produced /\ Approved(campaign)
  /\ target'[t].abandon =>
       target'[t].status \in {"generating", "publishing", "published", "abandoned"}

\* Behind the campaign's back none is inserted, nor abandoned under review.
Steady(t) ==
  /\ target[t].status = "absent" => target'[t].status = "absent"
  /\ target[t].status = "awaiting_canary_approval" => target'[t].status # "abandoned"

TargetStep == target' \in [Targets -> TargetRows] /\ \A t \in Targets : Lawful(t)

LEMMA SameIsLawful ==
  ASSUME CampaignInv, NEW t \in Targets, target'[t] = target[t]
  PROVE  Lawful(t) /\ Steady(t)
BY DEF CampaignInv, Typed, AbandonsEnd, Lawful, Steady

LEMMA CarriedIsLawful ==
  ASSUME CampaignInv, NEW t \in Targets, NEW j \in JobStates, j = "done" => t \in produced,
         target'[t] = Carried(target[t], j, campaign)
  PROVE  Lawful(t) /\ Steady(t)
<1>1. target[t] \in TargetRows /\ campaign \in CampaignRows
  BY DEF CampaignInv, Typed
<1>2. target[t].abandon =>
        target[t].status \in {"generating", "publishing", "published", "abandoned"}
  BY DEF CampaignInv, AbandonsEnd
<1>3. target[t].status = "awaiting_canary_approval" => ~target[t].abandon
  BY <1>2
<1>4. target[t].status = "absent" => target'[t].status \in {"absent", "planned"}
  BY <1>1, CarriedSays, LifeEdges, StatusList
<1> QED BY <1>1, <1>2, <1>3, <1>4, CarriedSays DEF Lawful, Steady

LEMMA ConvergedIsLawful ==
  ASSUME CampaignInv, campaign # NoCampaign, NEW t \in Targets, NEW j \in JobStates,
         j = "done" => t \in produced,
         target'[t] = Converged(target[t], j, campaign)
  PROVE  Lawful(t)
<1> DEFINE r == target[t]
           asked == [r EXCEPT !.abandon = TRUE]
<1>1. /\ r \in TargetRows /\ campaign \in CampaignRows /\ r.status # "absent"
      /\ r.abandon => r.status \in {"generating", "publishing", "published", "abandoned"}
  BY DEF CampaignInv, Typed, AllThere, AbandonsEnd
<1>2. asked \in TargetRows /\ asked.status = r.status /\ asked.abandon
  BY <1>1 DEF TargetRows
<1> HIDE DEF r, asked
<1>3. CASE r.status \in TerminalTarget
  <2>1. target'[t] = r
    BY <1>3 DEF Converged, TerminalTarget, r
  <2> QED BY <1>1, <2>1 DEF Lawful, r
<1>4. CASE r.status = "publishing"
  <2>1. target'[t] = asked
    BY <1>4 DEF Converged, TerminalTarget, r, asked
  <2> QED BY <1>1, <1>2, <1>4, <2>1 DEF Lawful, r
<1>5. CASE r.status = "generating" /\ j # "none"
  <2>1. target'[t] = Carried(asked, j, campaign)
    BY <1>5 DEF Converged, TerminalTarget, r, asked
  <2>2. CASE target'[t].status = asked.status
    BY <1>1, <1>2, <1>5, <2>1, <2>2, CarriedSays DEF Lawful, r
  <2>3. CASE target'[t].status # asked.status
    <3>1. /\ target'[t] \in TargetRows /\ target'[t].abandon
          /\ target'[t].status \in Life!Transitions[asked.status]
          /\ target'[t].status \in {"generating", "abandoned"}
      BY <1>1, <1>2, <2>1, <2>3, CarriedSays
    <3> QED BY <1>2, <3>1 DEF Lawful, r
  <2> QED BY <2>2, <2>3
<1>6. CASE r.status \notin TerminalTarget \cup {"publishing"}
           /\ ~(r.status = "generating" /\ j # "none")
  <2>1. target'[t] = [status |-> "abandoned", abandon |-> TRUE]
    BY <1>6 DEF Converged, TerminalTarget, r
  <2>2. "abandoned" \in Life!Transitions[r.status] /\ target'[t] \in TargetRows
    BY <1>1, <1>6, <2>1, Exits, StatusList DEF TargetRows
  <2> QED BY <2>1, <2>2 DEF Lawful, r
<1> QED BY <1>3, <1>4, <1>5, <1>6

LEMMA DrivenIsLawful ==
  ASSUME CampaignInv, NEW t \in Targets,
         target[t].status \in {"planned", "generating", "generation_failed"},
         ~target[t].abandon \/ target[t].status = "generating",
         target'[t] = [target[t] EXCEPT !.status = "generating"]
  PROVE  Lawful(t) /\ Steady(t)
<1>1. target[t] \in TargetRows
  BY DEF CampaignInv, Typed
<1>2. target'[t] \in TargetRows /\ target'[t].status = "generating"
  BY <1>1, StatusList DEF TargetRows
<1> QED BY <1>2, Exits DEF Lawful, Steady

-----------------------------------------------------------------------------
(* What lawful steps keep.                                                 *)

LEMMA LawfulKeeps ==
  ASSUME CampaignInv, NEW t \in Targets, Lawful(t)
  PROVE  /\ target[t].status \in TerminalTarget => target'[t].status = target[t].status
         /\ target'[t].status = "absent" => target[t].status = "absent"
         /\ target'[t].status = "planned" => target[t].status \in {"absent", "planned"}
         /\ target'[t].status \in Publication \cup {"publication_failed"} =>
              Approved(campaign) /\ t \in produced
         /\ target'[t].status = "awaiting_canary_approval" => t \in produced
         /\ target[t].status = "awaiting_canary_approval" =>
              target'[t].status \in {"awaiting_canary_approval", "publication_pending",
                                     "abandoned"}
<1>1. target[t].status \in Life!Statuses
  BY DEF CampaignInv, Typed, TargetRows
<1>2. /\ target[t].status \in Publication \cup {"publication_failed"} =>
           Approved(campaign) /\ t \in produced
      /\ target[t].status = "awaiting_canary_approval" => t \in produced
  BY DEF CampaignInv, Earned
<1>3. CASE target'[t].status = target[t].status
  BY <1>2, <1>3
<1>4. CASE target'[t].status # target[t].status
  <2>1. /\ target'[t].status \in Life!Transitions[target[t].status]
        /\ target'[t].status = "awaiting_canary_approval" => t \in produced
        /\ target'[t].status = "publication_pending" => t \in produced /\ Approved(campaign)
    BY <1>4 DEF Lawful
  <2> QED BY <1>1, <1>2, <2>1, LifeEdges DEF Publication
<1> QED BY <1>3, <1>4

\* The targets' part of the invariant after a step of lawful moves.
LEMMA TargetsKept ==
  ASSUME CampaignInv, TargetStep, produced \subseteq produced',
         Approved(campaign) /\ (\E t \in Targets : target'[t].status # "abandoned")
           => Approved(campaign)'
  PROVE  AbandonsEnd' /\ Earned'
<1>1. AbandonsEnd'
  BY DEF TargetStep, Lawful, AbandonsEnd
<1>2. ASSUME NEW t \in Targets
      PROVE  /\ target'[t].status \in Publication \cup {"publication_failed"} =>
                  Approved(campaign)'
             /\ target'[t].status \in Publication
                  \cup {"awaiting_canary_approval", "publication_failed"} => t \in produced'
  <2>1. Lawful(t)
    BY DEF TargetStep
  <2>2. target'[t].status \in Publication \cup {"publication_failed"} =>
          target'[t].status # "abandoned"
    BY DEF Publication
  <2> QED BY <2>1, <2>2, LawfulKeeps
<1>3. Earned'
  BY <1>2 DEF Earned
<1> QED BY <1>1, <1>3

\* A step that leaves the campaign row alone.
LEMMA CampaignUntouched ==
  ASSUME CampaignInv, TargetStep, \A t \in Targets : Steady(t), UNCHANGED campaign
  PROVE  StatusIsHonest' /\ Reviewed'
<1>1. Reviewed'
  BY DEF CampaignInv, Reviewed
<1>2. ASSUME NEW t \in Targets
      PROVE  target[t].status \in TerminalTarget => target'[t].status = target[t].status
  BY <1>2, LawfulKeeps DEF TargetStep
<1>3. ASSUME campaign.status = "awaiting_canary_approval" PROVE GateReady(target)'
  <2>1. ~Approved(campaign) /\ GateReady(target)
    BY <1>3 DEF CampaignInv, Reviewed, Approved, StatusIsHonest
  <2>2. ASSUME NEW t \in Targets, target[t].status = "awaiting_canary_approval"
        PROVE  target'[t].status = "awaiting_canary_approval"
    <3>1. Lawful(t) /\ Steady(t)
      BY DEF TargetStep
    <3> QED BY <2>1, <2>2, <3>1, LawfulKeeps DEF Steady, Publication
  <2> QED BY <2>1, <2>2, <1>2, Assumptions DEF GateReady, TerminalTarget
<1>4. Ended(target) => Ended(target)'
  BY <1>2 DEF Ended
<1>5. StatusIsHonest'
  BY <1>2, <1>3, <1>4 DEF CampaignInv, StatusIsHonest, TerminalTarget
<1> QED BY <1>1, <1>5

-----------------------------------------------------------------------------
(* The derivation of the campaign's status.                                *)

CampaignStatuses == {"draft", "canary_running", "awaiting_canary_approval", "approved",
                     "bulk_running", "attention_required", "completed",
                     "completed_with_abandonments", "rejected", "cancelled"}

LEMMA CampaignStatusList ==
  /\ DOMAIN CampaignTransitions = CampaignStatuses
  /\ \A s \in CampaignStatuses : CampaignTransitions[s] \subseteq CampaignStatuses
  /\ \A s \in TerminalCampaign : CampaignTransitions[s] = {}
  /\ "attention_required" \in CampaignTransitions["awaiting_canary_approval"]
BY DEF CampaignTransitions, CampaignStatuses, TerminalCampaign

LEMMA DerivedSays ==
  ASSUME NEW c \in CampaignRows, NEW tg \in [Targets -> TargetRows]
  PROVE  LET d == Derived(c, tg) IN
         /\ d \in CampaignStatuses
         /\ d = "awaiting_canary_approval" => GateReady(tg)
         /\ d \in TerminalCampaign => Ended(tg)
         /\ d = "completed" => \A t \in Targets : tg[t].status # "abandoned"
         /\ d = "cancelled" => \A t \in Targets : tg[t].status # "published"
         /\ d = "rejected" => c.rejected
         /\ c.approved =>
              d \notin {"draft", "canary_running", "awaiting_canary_approval"}
<1> DEFINE present == {tg[t].status : t \in Targets}
           d == Derived(c, tg)
<1>1. CASE c.rejected
  <2>1. d = IF Ended(tg) THEN "rejected" ELSE "attention_required"
    BY <1>1 DEF Derived
  <2> QED BY <1>1, <2>1 DEF CampaignStatuses, TerminalCampaign
<1>2. CASE ~c.rejected /\ Ended(tg)
  <2>1. d = IF c.cancelled /\ "published" \notin present THEN "cancelled"
            ELSE IF "abandoned" \in present THEN "completed_with_abandonments"
            ELSE "completed"
    BY <1>2 DEF Derived
  <2> QED BY <1>2, <2>1 DEF CampaignStatuses, TerminalCampaign
<1>3. CASE ~c.rejected /\ ~Ended(tg)
  <2>1. d = IF c.cancelled THEN "attention_required"
            ELSE IF c.approved THEN Progress(tg) ELSE Preparation(tg)
    BY <1>3 DEF Derived
  <2>2. Progress(tg) \in {"bulk_running", "attention_required"}
    BY DEF Progress
  <2>3. /\ Preparation(tg) \in {"canary_running", "attention_required",
                                "awaiting_canary_approval", "draft"}
        /\ Preparation(tg) = "awaiting_canary_approval" => GateReady(tg)
    <3>1. CASE "generating" \in present
      BY <3>1 DEF Preparation
    <3>2. CASE "generating" \notin present
               /\ present \cap {"generation_failed", "publication_failed"} # {}
      BY <3>2 DEF Preparation
    <3>3. CASE "generating" \notin present
               /\ present \cap {"generation_failed", "publication_failed"} = {}
      <4>1. Preparation(tg) = IF GateReady(tg) THEN "awaiting_canary_approval"
               ELSE IF AllAbandoned(tg) \/ "awaiting_canary_approval" \in present
               THEN "attention_required" ELSE "draft"
        BY <3>3 DEF Preparation
      <4> QED BY <4>1
    <3> QED BY <3>1, <3>2, <3>3
  <2> QED BY <2>1, <2>2, <2>3 DEF CampaignStatuses, TerminalCampaign
<1> QED BY <1>1, <1>2, <1>3

LEMMA AppliedSays ==
  ASSUME NEW c \in CampaignRows, c.status \in CampaignStatuses, NEW tg \in [Targets -> TargetRows]
  PROVE  LET a == Applied(c, tg) IN
         /\ a \in CampaignRows /\ a.status \in CampaignStatuses
         /\ a.approved = c.approved /\ a.rejected = c.rejected
         /\ a.cancelled = c.cancelled /\ a.launched = c.launched
         /\ a.status \in {c.status, Derived(c, tg), "attention_required"}
         /\ c.status \in TerminalCampaign => a.status = c.status
         /\ a.status = "awaiting_canary_approval" =>
              Derived(c, tg) = "awaiting_canary_approval"
<1> DEFINE d == Derived(c, tg)
           within == CampaignTransitions[c.status] \cup {c.status}
           s == IF d \in within THEN d
                ELSE IF "attention_required" \in within THEN "attention_required"
                ELSE c.status
<1>1. Applied(c, tg) = [c EXCEPT !.status = s]
  BY DEF Applied
<1>2. d \in CampaignStatuses
  BY DerivedSays
<1> HIDE DEF d
<1>3. s \in CampaignStatuses /\ s \in {c.status, d, "attention_required"}
  BY <1>2 DEF CampaignStatuses
<1>4. c.status \in TerminalCampaign => s = c.status
  <2>1. ASSUME c.status \in TerminalCampaign PROVE within = {c.status}
    BY <2>1, CampaignStatusList
  <2> QED BY <2>1
<1>5. s = "awaiting_canary_approval" => d = "awaiting_canary_approval"
  BY CampaignStatusList
<1> HIDE DEF s
<1>6. /\ [c EXCEPT !.status = s].status = s
      /\ [c EXCEPT !.status = s] \in CampaignRows
      /\ [c EXCEPT !.status = s].approved = c.approved
      /\ [c EXCEPT !.status = s].rejected = c.rejected
      /\ [c EXCEPT !.status = s].cancelled = c.cancelled
      /\ [c EXCEPT !.status = s].launched = c.launched
  BY <1>3, CampaignStatusList DEF CampaignRows
<1> QED BY <1>1, <1>3, <1>4, <1>5, <1>6 DEF d

\* A step that derives the campaign's status from its targets' new ones.
LEMMA CampaignDerived ==
  ASSUME CampaignInv, campaign # NoCampaign, TargetStep,
         NEW c \in CampaignRows, c.status = campaign.status,
         c.approved = campaign.approved, c.launched = campaign.launched,
         c.rejected => campaign.rejected \/ ~campaign.approved,
         campaign.rejected => c.rejected,
         campaign' = Applied(c, target')
  PROVE  /\ campaign' \in CampaignRows /\ campaign'.status # "absent"
         /\ StatusIsHonest' /\ Reviewed'
         /\ campaign'.approved = campaign.approved
         /\ Approved(campaign) /\ (\E t \in Targets : target'[t].status # "abandoned")
              => Approved(campaign)'
<1> DEFINE d == Derived(c, target')
<1>1. target' \in [Targets -> TargetRows] /\ c.status \in CampaignStatuses
  BY CampaignStatusList DEF TargetStep, CampaignInv, Typed, AllThere, CampaignRows
<1>2. /\ campaign' \in CampaignRows /\ campaign'.status \in CampaignStatuses
      /\ campaign'.approved = c.approved /\ campaign'.rejected = c.rejected
      /\ campaign'.status \in {campaign.status, d, "attention_required"}
      /\ campaign.status \in TerminalCampaign => campaign'.status = campaign.status
      /\ campaign'.status = "awaiting_canary_approval" => d = "awaiting_canary_approval"
  BY <1>1, AppliedSays
<1>3. /\ d = "awaiting_canary_approval" => GateReady(target')
      /\ d \in TerminalCampaign => Ended(target')
      /\ d = "completed" => \A t \in Targets : target'[t].status # "abandoned"
      /\ d = "cancelled" => \A t \in Targets : target'[t].status # "published"
      /\ d = "rejected" => c.rejected
      /\ c.approved => d \notin {"draft", "canary_running", "awaiting_canary_approval"}
  BY <1>1, DerivedSays
<1> HIDE DEF d
<1>4. ASSUME NEW t \in Targets
      PROVE  /\ target[t].status \in TerminalTarget => target'[t].status = target[t].status
             /\ target'[t].status = "published" => Approved(campaign)
  BY <1>4, LawfulKeeps DEF TargetStep, Publication
<1>5. Reviewed'
  BY <1>2, <1>3 DEF CampaignInv, Reviewed, CampaignStatuses
<1>6. ASSUME campaign'.status \in TerminalCampaign, campaign'.status # d
      PROVE  campaign'.status = campaign.status
  BY <1>2, <1>6 DEF TerminalCampaign
<1>7. campaign'.status \in TerminalCampaign => Ended(target')
  <2>1. Ended(target) => Ended(target')
    BY <1>4 DEF Ended
  <2> QED BY <1>3, <1>6, <2>1 DEF CampaignInv, StatusIsHonest
<1>8. campaign'.status = "completed" => \A t \in Targets : target'[t].status = "published"
  BY <1>3, <1>4, <1>6, <1>7 DEF CampaignInv, StatusIsHonest, TerminalCampaign, Ended,
       TerminalTarget
<1>9. campaign'.status \in {"rejected", "cancelled"} =>
        \A t \in Targets : target'[t].status = "abandoned"
  <2>1. ASSUME campaign'.status # d, campaign'.status \in {"rejected", "cancelled"},
               NEW t \in Targets
        PROVE  target'[t].status = "abandoned"
    BY <1>4, <1>6, <2>1 DEF CampaignInv, StatusIsHonest, TerminalCampaign, TerminalTarget
  <2>2. ASSUME d = "rejected", NEW t \in Targets PROVE target'[t].status # "published"
    BY <1>3, <1>4, <2>2 DEF CampaignInv, Reviewed, Approved
  <2>3. ASSUME campaign'.status = d, campaign'.status \in {"rejected", "cancelled"},
               NEW t \in Targets
        PROVE  target'[t].status = "abandoned"
    <3>1. target'[t].status \in TerminalTarget
      BY <1>7, <2>3 DEF TerminalCampaign, Ended
    <3> QED BY <1>3, <2>2, <2>3, <3>1 DEF TerminalTarget
  <2> QED BY <2>1, <2>3
<1>10. StatusIsHonest'
  BY <1>2, <1>3, <1>7, <1>8, <1>9 DEF StatusIsHonest
<1>11. ASSUME Approved(campaign), NEW t \in Targets, target'[t].status # "abandoned"
       PROVE  Approved(campaign)'
  BY <1>2, <1>9, <1>11 DEF Approved
<1> QED BY <1>2, <1>5, <1>10, <1>11 DEF CampaignStatuses

-----------------------------------------------------------------------------
(* Steps of jobs, carriers and clerks that write no campaign and no target.*)

\* What is left to show of a step that writes neither.
LEMMA RowsUntouched ==
  ASSUME CampaignInv, UNCHANGED <<campaign, target>>, produced \subseteq produced'
  PROVE  TargetStep /\ Reviewed' /\ AbandonsEnd' /\ Earned' /\ StatusIsHonest'
<1>1. TargetStep /\ \A t \in Targets : Steady(t)
  BY SameIsLawful DEF TargetStep, CampaignInv, Typed
<1>2. Reviewed' /\ StatusIsHonest'
  BY <1>1, CampaignUntouched
<1> QED BY <1>1, <1>2, TargetsKept

LEMMA JobStepKeeps ==
  ASSUME CampaignInv, NEW t \in Targets, JobStep(t)
  PROVE  CampaignInv' /\ TargetStep
<1>1. UNCHANGED <<campaign, target, carrier, clerk, requests>>
  BY DEF JobStep
<1>2. /\ job[t] # "none" /\ job' \in [Targets -> JobStates] /\ owed' \in SUBSET Targets
      /\ runs' \in 0 .. MaxRuns /\ produced \subseteq produced'
      /\ \A u \in Targets : job'[u] = job[u] \/ u = t
      /\ job'[t] = "done" => t \in produced'
  <2> USE DEF CampaignInv, Typed, JobStates, TerminalJob, Become
  <2>1. CASE /\ job[t] = "pending" /\ runs < MaxRuns /\ runs' = runs + 1
             /\ Become(t, "running") /\ UNCHANGED <<owed, produced>>
    <3>1. runs' \in 0 .. MaxRuns
      BY <2>1, Assumptions
    <3> QED BY <2>1, <3>1
  <2>2. CASE /\ job[t] = "pending" /\ Become(t, "failed")
             /\ UNCHANGED <<owed, runs, produced>>
    BY <2>2
  <2>3. CASE /\ job[t] = "running" /\ UNCHANGED runs
             /\ \E s \in {"done", "hollow", "failed", "pending"} :
                  /\ Become(t, s) /\ owed' = owed \cup {t}
                  /\ produced' = IF s = "done" THEN produced \cup {t} ELSE produced
    BY <2>3
  <2>4. CASE /\ job[t] = "cancelling" /\ Become(t, "cancelled")
             /\ owed' = owed \cup {t} /\ UNCHANGED <<runs, produced>>
    BY <2>4
  <2> QED BY <2>1, <2>2, <2>3, <2>4 DEF JobStep
<1>3. TargetStep /\ Reviewed' /\ AbandonsEnd' /\ Earned' /\ StatusIsHonest'
  BY <1>1, <1>2, RowsUntouched
<1>4. Typed'
  BY <1>1, <1>2 DEF CampaignInv, Typed
<1>5. AllThere' /\ ClerksKnow'
  BY <1>1, <1>2 DEF CampaignInv, AllThere, ClerksKnow
<1>6. Whole'
  BY <1>1, <1>2 DEF CampaignInv, Whole
<1> QED BY <1>3, <1>4, <1>5, <1>6 DEF CampaignInv

LEMMA CancelJobKeeps ==
  ASSUME CampaignInv, NEW t \in Targets, CancelJob(t)
  PROVE  CampaignInv' /\ TargetStep
<1>1. UNCHANGED <<campaign, target, carrier, clerk, runs, produced>>
  BY DEF CancelJob
<1>2. /\ job[t] # "none" /\ job' \in [Targets -> JobStates] /\ owed' \in SUBSET Targets
      /\ requests' \in 0 .. MaxRequests
      /\ \A u \in Targets : job'[u] = job[u] \/ u = t
      /\ job'[t] # "done"
  <2>1. requests' \in 0 .. MaxRequests
    BY Assumptions DEF CancelJob, CampaignInv, Typed
  <2> QED BY <2>1 DEF CancelJob, CampaignInv, Typed, Become, CancelledJob, JobStates, TerminalJob
<1>3. TargetStep /\ Reviewed' /\ AbandonsEnd' /\ Earned' /\ StatusIsHonest'
  BY <1>1, RowsUntouched
<1>4. Typed'
  BY <1>1, <1>2 DEF CampaignInv, Typed
<1>5. AllThere' /\ ClerksKnow' /\ Whole'
  BY <1>1, <1>2 DEF CampaignInv, AllThere, ClerksKnow, Whole
<1> QED BY <1>3, <1>4, <1>5 DEF CampaignInv

LEMMA ReadsKeep ==
  ASSUME CampaignInv, NEW w \in Workers, NEW t \in Targets,
         SweepReads(w, t) \/ WorkerReads(w, t)
  PROVE  CampaignInv' /\ TargetStep
<1>1. /\ UNCHANGED <<campaign, target, job, clerk, requests, runs, produced>>
      /\ carrier' = [carrier EXCEPT ![w] = [target |-> t, seen |-> job[t]]]
      /\ owed' \in SUBSET Targets
  BY DEF SweepReads, WorkerReads, Read, CampaignInv, Typed
<1>2. TargetStep /\ Reviewed' /\ AbandonsEnd' /\ Earned' /\ StatusIsHonest'
  BY <1>1, RowsUntouched
<1>3. Typed'
  BY <1>1 DEF CampaignInv, Typed, CarrierRows
<1>4. AllThere' /\ ClerksKnow' /\ Whole'
  BY <1>1 DEF CampaignInv, Typed, AllThere, ClerksKnow, Whole
<1> QED BY <1>2, <1>3, <1>4 DEF CampaignInv

\* A clerk's row after a step of it.
LEMMA ClerkThen ==
  ASSUME CampaignInv, NEW c \in Clerks, NEW pc \in ClerkPcs, NEW ts \in SUBSET Targets,
         NEW t \in Targets \cup {Nobody}, Then(c, pc, ts, t)
  PROVE  /\ clerk' \in [Clerks -> ClerkRows]
         /\ clerk'[c] = [pc |-> pc, todo |-> ts, target |-> t]
         /\ \A o \in Clerks : o # c => clerk'[o] = clerk[o]
BY DEF Then, CampaignInv, Typed, ClerkRows

\* The clerks' part of the invariant, where targets move lawfully.
LEMMA ClerksKept ==
  ASSUME CampaignInv, TargetStep, campaign # NoCampaign, campaign' # NoCampaign,
         UNCHANGED carrier,
         campaign.approved => campaign'.approved,
         NEW c \in Clerks, NEW pc \in ClerkPcs, NEW ts \in SUBSET Targets,
         NEW t \in Targets \cup {Nobody}, Then(c, pc, ts, t),
         pc = "idle" => ts = {} /\ t = Nobody,
         pc \in {"refused", "requeue"} => t \in Targets,
         pc = "release" => campaign'.approved,
         \A u \in ts : target'[u].status # "planned"
  PROVE  ClerksKnow' /\ clerk' \in [Clerks -> ClerkRows]
<1>1. /\ clerk' \in [Clerks -> ClerkRows]
      /\ clerk'[c] = [pc |-> pc, todo |-> ts, target |-> t]
      /\ \A o \in Clerks : o # c => clerk'[o] = clerk[o]
  BY ClerkThen
<1>2. ASSUME NEW u \in Targets
      PROVE  /\ target'[u].status # "absent"
             /\ target'[u].status = "planned" => target[u].status = "planned"
  BY LawfulKeeps DEF TargetStep, CampaignInv, AllThere
<1>3. \A w \in Workers : carrier'[w] # AtRest => carrier'[w].target \in Targets
  BY DEF CampaignInv, ClerksKnow
<1>4. ASSUME NEW o \in Clerks
      PROVE  /\ clerk'[o].pc = "idle" => clerk'[o] = Free
             /\ clerk'[o].pc # "idle" => campaign' # NoCampaign
             /\ clerk'[o].pc \in {"refused", "requeue"} => clerk'[o].target \in Targets
             /\ clerk'[o].pc = "release" => campaign'.approved
             /\ \A u \in clerk'[o].todo : target'[u].status \notin {"absent", "planned"}
  <2>1. CASE o = c
    BY <1>1, <1>2, <2>1 DEF Free
  <2>2. CASE o # c
    <3>1. clerk'[o] = clerk[o] /\ clerk[o].todo \in SUBSET Targets
      BY <1>1, <2>2 DEF CampaignInv, Typed, ClerkRows
    <3> QED BY <1>2, <3>1 DEF CampaignInv, ClerksKnow
  <2> QED BY <2>1, <2>2
<1> QED BY <1>1, <1>3, <1>4 DEF ClerksKnow

LEMMA CreateJobKeeps ==
  ASSUME CampaignInv, NEW c \in Clerks, NEW t \in Targets, CreateJob(c, t)
  PROVE  CampaignInv' /\ TargetStep
<1>1. /\ UNCHANGED <<campaign, target, owed, carrier, requests, runs, produced>>
      /\ clerk[c].pc = "create" /\ t \in clerk[c].todo
  BY DEF CreateJob, Proceed
<1>2. /\ clerk[c].todo \in SUBSET Targets
      /\ \A u \in clerk[c].todo : target[u].status \notin {"absent", "planned"}
  BY DEF CampaignInv, Typed, ClerkRows, ClerksKnow
<1>3. /\ campaign # NoCampaign
      /\ TargetStep /\ Reviewed' /\ AbandonsEnd' /\ Earned' /\ StatusIsHonest'
  BY <1>1, <1>2, RowsUntouched DEF CampaignInv, AllThere
<1>4. /\ job' \in [Targets -> JobStates]
      /\ \A u \in Targets : job'[u] = job[u] \/ (u = t /\ job'[u] = "pending")
      /\ \/ Then(c, "create", clerk[c].todo \ {t}, Nobody)
         \/ Then(c, "refused", clerk[c].todo \ {t}, t)
  BY DEF CreateJob, Become, CampaignInv, Typed, JobStates
<1>5. ClerksKnow' /\ clerk' \in [Clerks -> ClerkRows]
  <2> DEFINE rest == clerk[c].todo \ {t}
  <2>1. /\ rest \in SUBSET Targets /\ t \in Targets
        /\ \A u \in rest : target'[u].status # "planned"
        /\ campaign.approved => campaign'.approved
    BY <1>1, <1>2
  <2> HIDE DEF rest
  <2>2. CASE Then(c, "create", rest, Nobody)
    BY <1>1, <1>3, <2>1, <2>2, ClerksKept DEF ClerkPcs
  <2>3. CASE Then(c, "refused", rest, t)
    BY <1>1, <1>3, <2>1, <2>3, ClerksKept DEF ClerkPcs
  <2> QED BY <1>4, <2>2, <2>3 DEF rest
<1>6. Typed' /\ AllThere' /\ Whole'
  BY <1>1, <1>2, <1>4, <1>5 DEF CampaignInv, Typed, AllThere, Whole
<1> QED BY <1>3, <1>5, <1>6 DEF CampaignInv

LEMMA RequeueKeeps ==
  ASSUME CampaignInv, NEW c \in Clerks, Requeue(c)
  PROVE  CampaignInv' /\ TargetStep
<1> DEFINE t == clerk[c].target
<1>1. /\ UNCHANGED <<campaign, target, owed, carrier, requests, runs, produced>>
      /\ clerk[c].pc = "requeue" /\ Then(c, "create", {}, Nobody)
      /\ IF job[t] \in TerminalJob THEN Become(t, "pending") ELSE UNCHANGED job
  BY DEF Requeue, Proceed
<1>2. t \in Targets
  BY <1>1 DEF CampaignInv, ClerksKnow
<1> HIDE DEF t
<1>3. TargetStep /\ Reviewed' /\ AbandonsEnd' /\ Earned' /\ StatusIsHonest'
  BY <1>1, RowsUntouched
<1>4. /\ job' \in [Targets -> JobStates]
      /\ \A u \in Targets : job'[u] = job[u] \/ (u = t /\ job'[u] = "pending")
      /\ \A u \in Targets : job'[u] # "none" => job[u] # "none"
  BY <1>1, <1>2 DEF Become, CampaignInv, Typed, JobStates, TerminalJob
<1>5. ClerksKnow' /\ clerk' \in [Clerks -> ClerkRows]
  <2>1. /\ clerk' \in [Clerks -> ClerkRows]
        /\ clerk'[c] = [pc |-> "create", todo |-> {}, target |-> Nobody]
        /\ \A o \in Clerks : o # c => clerk'[o] = clerk[o]
    BY <1>1, ClerkThen DEF ClerkPcs
  <2> QED BY <1>1, <2>1 DEF CampaignInv, ClerksKnow
<1>6. Typed' /\ AllThere' /\ Whole'
  BY <1>1, <1>4, <1>5 DEF CampaignInv, Typed, AllThere, Whole
<1> QED BY <1>3, <1>5, <1>6 DEF CampaignInv

LEMMA DieKeeps ==
  ASSUME CampaignInv, NEW c \in Clerks, Die(c)
  PROVE  CampaignInv' /\ TargetStep
<1>1. /\ UNCHANGED <<campaign, target, job, owed, carrier, requests, runs, produced>>
      /\ Then(c, "idle", {}, Nobody)
  BY DEF Die
<1>2. TargetStep /\ Reviewed' /\ AbandonsEnd' /\ Earned' /\ StatusIsHonest'
  BY <1>1, RowsUntouched
<1>3. /\ clerk' \in [Clerks -> ClerkRows]
      /\ clerk'[c] = Free
      /\ \A o \in Clerks : o # c => clerk'[o] = clerk[o]
  BY <1>1, ClerkThen DEF ClerkPcs, Free
<1>4. Typed' /\ AllThere' /\ Whole' /\ ClerksKnow'
  BY <1>1, <1>3 DEF CampaignInv, Typed, AllThere, Whole, ClerksKnow, Free
<1> QED BY <1>2, <1>4 DEF CampaignInv

-----------------------------------------------------------------------------
(* Steps that write targets and no campaign.                               *)

LEMMA TargetsWritten ==
  ASSUME CampaignInv, UNCHANGED <<campaign, produced>>,
         target' \in [Targets -> TargetRows], \A t \in Targets : Lawful(t) /\ Steady(t)
  PROVE  /\ TargetStep /\ Reviewed' /\ AbandonsEnd' /\ Earned' /\ StatusIsHonest'
         /\ UNCHANGED job => AllThere'
         /\ \A t \in Targets : target'[t].status = "planned" => target[t].status = "planned"
         /\ \A t \in Targets : target'[t].status = "absent" => target[t].status = "absent"
<1>1. TargetStep
  BY DEF TargetStep
<1>2. Reviewed' /\ StatusIsHonest'
  BY <1>1, CampaignUntouched
<1>3. AbandonsEnd' /\ Earned'
  BY <1>1, TargetsKept
<1>4. ASSUME NEW t \in Targets
      PROVE  /\ target'[t].status = "absent" <=> target[t].status = "absent"
             /\ target'[t].status = "planned" => target[t].status = "planned"
  BY LawfulKeeps DEF Steady
<1>5. UNCHANGED job => AllThere'
  BY <1>4 DEF CampaignInv, AllThere
<1> QED BY <1>1, <1>2, <1>3, <1>4, <1>5

LEMMA CarryKeeps ==
  ASSUME CampaignInv, NEW w \in Workers, Carry(w)
  PROVE  CampaignInv' /\ TargetStep
<1> DEFINE t == carrier[w].target
           j == carrier[w].seen
<1>1. /\ UNCHANGED <<campaign, job, owed, clerk, requests, runs, produced>>
      /\ carrier[w] # AtRest /\ carrier' = [carrier EXCEPT ![w] = AtRest]
      /\ target' = [target EXCEPT ![t] = Carried(@, j, campaign)]
  BY DEF Carry
<1>2. /\ t \in Targets /\ j \in JobStates /\ (j = "done" => t \in produced)
      /\ target[t] \in TargetRows /\ campaign \in CampaignRows /\ target \in [Targets -> TargetRows]
  BY <1>1 DEF CampaignInv, Typed, CarrierRows, ClerksKnow, Whole
<1> HIDE DEF t, j
<1>3. Carried(target[t], j, campaign) \in TargetRows
  BY <1>2, CarriedSays
<1>4. /\ target' \in [Targets -> TargetRows]
      /\ target'[t] = Carried(target[t], j, campaign)
      /\ \A u \in Targets : u # t => target'[u] = target[u]
  BY <1>1, <1>2, <1>3
<1>5. \A u \in Targets : Lawful(u) /\ Steady(u)
  BY <1>2, <1>4, CarriedIsLawful, SameIsLawful
<1>6. /\ TargetStep /\ Reviewed' /\ AbandonsEnd' /\ Earned' /\ StatusIsHonest' /\ AllThere'
      /\ \A u \in Targets : target'[u].status = "planned" => target[u].status = "planned"
      /\ \A u \in Targets : target'[u].status = "absent" => target[u].status = "absent"
  BY <1>1, <1>4, <1>5, TargetsWritten
<1>7. carrier' \in [Workers -> CarrierRows]
      /\ \A v \in Workers : carrier'[v] = IF v = w THEN AtRest ELSE carrier[v]
  BY <1>1 DEF CampaignInv, Typed, CarrierRows, AtRest, JobStates
<1>8. Typed'
  BY <1>1, <1>4, <1>7 DEF CampaignInv, Typed
<1>9. Whole'
  BY <1>1, <1>7 DEF CampaignInv, Whole, AtRest
<1>10. ClerksKnow'
  <2>1. \A c \in Clerks : clerk[c].todo \in SUBSET Targets
    BY DEF CampaignInv, Typed, ClerkRows
  <2> QED BY <1>1, <1>6, <1>7, <2>1 DEF CampaignInv, ClerksKnow
<1> QED BY <1>6, <1>8, <1>9, <1>10 DEF CampaignInv

\* One target gets another status and the rest stay.
LEMMA OneMoved ==
  ASSUME CampaignInv, NEW t \in Targets, NEW s \in Life!Transitions[target[t].status],
         target' = [target EXCEPT ![t].status = s],
         s # "awaiting_canary_approval",
         s = "publication_pending" => t \in produced /\ Approved(campaign),
         target[t].abandon => s \in {"generating", "publishing", "published", "abandoned"},
         target[t].status \notin {"absent", "awaiting_canary_approval"}
  PROVE  target' \in [Targets -> TargetRows] /\ \A u \in Targets : Lawful(u) /\ Steady(u)
<1>1. target[t] \in TargetRows /\ target \in [Targets -> TargetRows]
  BY DEF CampaignInv, Typed
<1>2. s \in Life!Statuses
  BY <1>1, LifeEdges DEF TargetRows
<1>3. [target[t] EXCEPT !.status = s] \in TargetRows
  BY <1>1, <1>2 DEF TargetRows
<1>4. /\ target' \in [Targets -> TargetRows]
      /\ target'[t] = [target[t] EXCEPT !.status = s]
      /\ \A u \in Targets : u # t => target'[u] = target[u]
  BY <1>1, <1>3
<1>5. target'[t].status = s /\ target'[t].abandon = target[t].abandon
  BY <1>1, <1>4 DEF TargetRows
<1>6. Lawful(t) /\ Steady(t)
  BY <1>3, <1>4, <1>5 DEF Lawful, Steady
<1> QED BY <1>4, <1>6, SameIsLawful

LEMMA PublishKeeps ==
  ASSUME CampaignInv, NEW t \in Targets, Publish(t)
  PROVE  CampaignInv' /\ TargetStep
<1>1. UNCHANGED <<campaign, job, owed, carrier, clerk, requests, runs, produced>>
  BY DEF Publish
<1>2. PICK s \in TerminalTarget \cup {"publishing", "publication_failed"} :
        /\ target' = [target EXCEPT ![t].status = s]
        /\ \/ target[t].status \in {"publication_pending", "publication_failed"}
              /\ s = "publishing"
           \/ target[t].status = "publishing" /\ s = "published"
           \/ target[t].status = "publishing"
              /\ s = IF target[t].abandon THEN "abandoned" ELSE "publication_failed"
  BY DEF Publish
<1>3. /\ s \in Life!Transitions[target[t].status] /\ s # "awaiting_canary_approval"
      /\ s # "publication_pending"
      /\ target[t].abandon => s \in {"generating", "publishing", "published", "abandoned"}
      /\ target[t].status \notin {"absent", "awaiting_canary_approval"}
  BY <1>2, Exits DEF TerminalTarget
<1>4. target' \in [Targets -> TargetRows] /\ \A u \in Targets : Lawful(u) /\ Steady(u)
  BY <1>2, <1>3, OneMoved
<1>5. /\ TargetStep /\ Reviewed' /\ AbandonsEnd' /\ Earned' /\ StatusIsHonest' /\ AllThere'
      /\ \A u \in Targets : target'[u].status = "planned" => target[u].status = "planned"
      /\ \A u \in Targets : target'[u].status = "absent" => target[u].status = "absent"
  BY <1>1, <1>4, TargetsWritten
<1>6. Typed' /\ Whole'
  BY <1>1, <1>4 DEF CampaignInv, Typed, Whole
<1>7. ClerksKnow'
  <2>1. \A c \in Clerks : clerk[c].todo \in SUBSET Targets
    BY DEF CampaignInv, Typed, ClerkRows
  <2> QED BY <1>1, <1>5, <2>1 DEF CampaignInv, ClerksKnow
<1> QED BY <1>5, <1>6, <1>7 DEF CampaignInv

\* A clerk's transaction that writes targets only.
LEMMA ClerkWrites ==
  ASSUME CampaignInv, campaign # NoCampaign,
         UNCHANGED <<campaign, job, owed, carrier, runs, produced>>,
         requests' \in 0 .. MaxRequests,
         target' \in [Targets -> TargetRows], \A u \in Targets : Lawful(u) /\ Steady(u),
         NEW c \in Clerks, NEW pc \in ClerkPcs \ {"idle"}, NEW ts \in SUBSET Targets,
         NEW t \in Targets \cup {Nobody}, Then(c, pc, ts, t),
         pc \in {"refused", "requeue"} => t \in Targets,
         pc = "release" => campaign.approved,
         \A u \in ts : target'[u].status # "planned"
  PROVE  CampaignInv' /\ TargetStep
<1>1. TargetStep /\ Reviewed' /\ AbandonsEnd' /\ Earned' /\ StatusIsHonest' /\ AllThere'
  BY TargetsWritten
<1>2. ClerksKnow' /\ clerk' \in [Clerks -> ClerkRows]
  BY <1>1, ClerksKept
<1>3. Typed' /\ Whole'
  BY <1>2 DEF CampaignInv, Typed, Whole
<1> QED BY <1>1, <1>2, <1>3 DEF CampaignInv

LEMMA Requested ==
  ASSUME CampaignInv, Request
  PROVE  requests' \in 0 .. MaxRequests
BY Assumptions DEF CampaignInv, Typed, Request

LEMMA FailCreationKeeps ==
  ASSUME CampaignInv, NEW c \in Clerks, FailCreation(c)
  PROVE  CampaignInv' /\ TargetStep
<1> DEFINE t == clerk[c].target
           ts == clerk[c].todo
<1>1. /\ UNCHANGED <<campaign, job, owed, carrier, requests, runs, produced>>
      /\ clerk[c].pc = "refused" /\ Then(c, "create", ts, Nobody)
      /\ target' = IF target[t].status = "generating" /\ ~target[t].abandon
                   THEN [target EXCEPT ![t].status = "generation_failed"] ELSE target
  BY DEF FailCreation, Proceed
<1>2. /\ t \in Targets /\ ts \in SUBSET Targets /\ campaign # NoCampaign
      /\ \A u \in ts : target[u].status \notin {"absent", "planned"}
      /\ requests' \in 0 .. MaxRequests
  BY <1>1 DEF CampaignInv, Typed, ClerksKnow, ClerkRows
<1> HIDE DEF t, ts
<1>3. target' \in [Targets -> TargetRows] /\ \A u \in Targets : Lawful(u) /\ Steady(u)
  <2>1. CASE target[t].status = "generating" /\ ~target[t].abandon
    BY <1>1, <1>2, <2>1, Exits, OneMoved
  <2>2. CASE ~(target[t].status = "generating" /\ ~target[t].abandon)
    BY <1>1, <2>2, SameIsLawful DEF CampaignInv, Typed
  <2> QED BY <2>1, <2>2
<1>4. \A u \in ts : target'[u].status # "planned"
  BY <1>1, <1>2, <1>3, TargetsWritten
<1> QED BY <1>1, <1>2, <1>3, <1>4, ClerkWrites DEF ClerkPcs

LEMMA RetryPublicationKeeps ==
  ASSUME CampaignInv, NEW c \in Clerks, NEW t \in Targets, RetryPublication(c, t)
  PROVE  CampaignInv' /\ TargetStep
<1>1. /\ UNCHANGED <<campaign, job, owed, carrier, runs, produced>>
      /\ campaign # NoCampaign /\ Then(c, "create", {}, Nobody) /\ Request
      /\ target[t].status = "publication_failed" /\ ~target[t].abandon
      /\ target' = [target EXCEPT ![t].status = "publication_pending"]
  BY DEF RetryPublication, Start, Exists
<1>2. Approved(campaign) /\ t \in produced /\ requests' \in 0 .. MaxRequests
  BY <1>1, Requested DEF CampaignInv, Earned
<1>3. target' \in [Targets -> TargetRows] /\ \A u \in Targets : Lawful(u) /\ Steady(u)
  BY <1>1, <1>2, Exits, OneMoved
<1> QED BY <1>1, <1>2, <1>3, ClerkWrites DEF ClerkPcs

LEMMA RetryGenerationKeeps ==
  ASSUME CampaignInv, NEW c \in Clerks, NEW t \in Targets, RetryGeneration(c, t)
  PROVE  CampaignInv' /\ TargetStep
<1>1. /\ UNCHANGED <<campaign, job, owed, carrier, runs, produced>>
      /\ campaign # NoCampaign /\ Request
      /\ target[t].status \in {"generation_failed", "generating"} /\ ~target[t].abandon
      /\ target' = [target EXCEPT ![t].status = "generating"]
      /\ IF job[t] = "none" THEN Then(c, "create", {t}, Nobody)
         ELSE IF job[t] \in {"failed", "cancelled", "hollow"} THEN Then(c, "requeue", {}, t)
         ELSE Then(c, "create", {}, Nobody)
  BY DEF RetryGeneration, Start, Exists
<1>2. target[t] \in TargetRows /\ target \in [Targets -> TargetRows] /\ requests' \in 0 .. MaxRequests
  BY <1>1, Requested DEF CampaignInv, Typed
<1>3. [target[t] EXCEPT !.status = "generating"] \in TargetRows
  BY <1>2, StatusList DEF TargetRows
<1>4. /\ target' \in [Targets -> TargetRows]
      /\ target'[t] = [target[t] EXCEPT !.status = "generating"]
      /\ \A u \in Targets : u # t => target'[u] = target[u]
  BY <1>1, <1>2, <1>3
<1>5. \A u \in Targets : Lawful(u) /\ Steady(u)
  BY <1>1, <1>4, DrivenIsLawful, SameIsLawful
<1>6. target'[t].status = "generating"
  BY <1>2, <1>4 DEF TargetRows
<1>7. CASE Then(c, "create", {t}, Nobody)
  BY <1>1, <1>2, <1>4, <1>5, <1>6, <1>7, ClerkWrites DEF ClerkPcs
<1>8. CASE Then(c, "requeue", {}, t)
  BY <1>1, <1>2, <1>4, <1>5, <1>8, ClerkWrites DEF ClerkPcs
<1>9. CASE Then(c, "create", {}, Nobody)
  BY <1>1, <1>2, <1>4, <1>5, <1>9, ClerkWrites DEF ClerkPcs
<1> QED BY <1>1, <1>7, <1>8, <1>9

\* _prepare_wave: what still needs a job is driven and nothing else.
LEMMA DrivenSays ==
  ASSUME CampaignInv, NEW ts \in SUBSET Targets, NEW tg \in [Targets -> TargetRows],
         NEW t \in Targets
  PROVE  /\ Driven(ts, tg) \in [Targets -> TargetRows]
         /\ t \in Wave(ts, tg) =>
              /\ Driven(ts, tg)[t] = [tg[t] EXCEPT !.status = "generating"]
              /\ Driven(ts, tg)[t].status = "generating"
              /\ tg[t].status \in {"planned", "generating"} /\ ~tg[t].abandon
         /\ t \notin Wave(ts, tg) => Driven(ts, tg)[t] = tg[t]
<1>1. ASSUME NEW u \in Targets
      PROVE  /\ [tg[u] EXCEPT !.status = "generating"] \in TargetRows
             /\ [tg[u] EXCEPT !.status = "generating"].status = "generating"
  <2>1. tg[u] \in TargetRows
    OBVIOUS
  <2> QED BY <2>1, StatusList DEF TargetRows
<1> QED BY <1>1 DEF Driven, Wave

LEMMA ReleaseKeeps ==
  ASSUME CampaignInv, NEW c \in Clerks, Release(c)
  PROVE  CampaignInv' /\ TargetStep
<1> DEFINE rel == Released(target)
           ts == Wave(Targets, target)
<1>0. Targets \in SUBSET Targets
  OBVIOUS
<1>1. /\ UNCHANGED <<campaign, job, owed, carrier, requests, runs, produced>>
      /\ clerk[c].pc = "release" /\ Then(c, "create", ts, Nobody)
      /\ target' = Driven(Targets, rel)
  BY DEF Release, Proceed
<1>2. /\ campaign.approved /\ campaign # NoCampaign /\ requests' \in 0 .. MaxRequests
      /\ target \in [Targets -> TargetRows]
  BY <1>1 DEF CampaignInv, Typed, ClerksKnow
<1>3. ASSUME NEW t \in Targets
      PROVE  /\ rel[t] \in TargetRows
             /\ \/ rel[t] = target[t]
                \/ /\ target[t].status = "awaiting_canary_approval" /\ ~target[t].abandon
                   /\ rel[t].status = "publication_pending" /\ ~rel[t].abandon
  <2>1. target[t] \in TargetRows
    BY <1>2
  <2>2. [target[t] EXCEPT !.status = "publication_pending"] \in TargetRows
        /\ [target[t] EXCEPT !.status = "publication_pending"].status = "publication_pending"
        /\ [target[t] EXCEPT !.status = "publication_pending"].abandon = target[t].abandon
    BY <2>1, StatusList DEF TargetRows
  <2> QED BY <2>1, <2>2 DEF Released
<1>4. rel \in [Targets -> TargetRows]
  BY <1>3 DEF Released
<1>5. ts = Wave(Targets, rel) /\ ts \in SUBSET Targets
  BY <1>3 DEF Wave
<1> HIDE DEF rel, ts
<1>6. target' \in [Targets -> TargetRows]
  <2>1. ASSUME NEW t \in Targets PROVE target' \in [Targets -> TargetRows]
    BY <1>0, <1>1, <1>4, DrivenSays
  <2> QED BY <2>1, Assumptions
<1>7. ASSUME NEW t \in Targets
      PROVE  Lawful(t) /\ Steady(t) /\ (t \in ts => target'[t].status = "generating")
  <2>1. /\ t \in ts => /\ target'[t] = [rel[t] EXCEPT !.status = "generating"]
                       /\ target'[t].status = "generating"
                       /\ rel[t].status \in {"planned", "generating"} /\ ~rel[t].abandon
        /\ t \notin ts => target'[t] = rel[t]
    BY <1>0, <1>1, <1>4, <1>5, DrivenSays
  <2>2. CASE t \in ts
    <3>1. rel[t] = target[t]
      BY <1>3, <2>1, <2>2
    <3> QED BY <2>1, <2>2, <3>1, DrivenIsLawful
  <2>3. CASE t \notin ts /\ rel[t] = target[t]
    BY <2>1, <2>3, SameIsLawful
  <2>4. CASE t \notin ts /\ rel[t] # target[t]
    <3>1. /\ target[t].status = "awaiting_canary_approval" /\ target'[t] \in TargetRows
          /\ target'[t].status = "publication_pending" /\ ~target'[t].abandon
      BY <1>3, <2>1, <2>4
    <3>2. t \in produced
      BY <3>1 DEF CampaignInv, Earned
    <3>3. Approved(campaign)
      BY <1>2, <3>1 DEF Approved, CampaignInv, Reviewed, StatusIsHonest
    <3> QED BY <2>4, <3>1, <3>2, <3>3, Exits DEF Lawful, Steady
  <2> QED BY <2>2, <2>3, <2>4
<1> QED BY <1>1, <1>2, <1>5, <1>6, <1>7, ClerkWrites DEF ClerkPcs

-----------------------------------------------------------------------------
(* Steps that derive the campaign's status.                                *)

\* What is left to show of a step that derives it.
LEMMA Rederived ==
  ASSUME CampaignInv, campaign # NoCampaign, UNCHANGED <<owed, carrier, runs, produced>>,
         target' \in [Targets -> TargetRows], \A t \in Targets : Lawful(t),
         job' \in [Targets -> JobStates], requests' \in 0 .. MaxRequests,
         \A t \in Targets : job'[t] = job[t] \/ (job[t] # "none" /\ job'[t] # "done"),
         NEW c \in CampaignRows, c.status = campaign.status,
         c.approved = campaign.approved, c.launched = campaign.launched,
         c.rejected => campaign.rejected \/ ~campaign.approved,
         campaign.rejected => c.rejected,
         campaign' = Applied(c, target')
  PROVE  /\ TargetStep /\ Reviewed' /\ StatusIsHonest' /\ AbandonsEnd' /\ Earned'
         /\ Whole' /\ AllThere' /\ campaign' # NoCampaign
         /\ campaign'.approved = campaign.approved
         /\ clerk' \in [Clerks -> ClerkRows] => Typed'
         /\ UNCHANGED clerk => ClerksKnow'
<1>1. TargetStep
  BY DEF TargetStep
<1>2. /\ campaign' \in CampaignRows /\ campaign'.status # "absent"
      /\ StatusIsHonest' /\ Reviewed' /\ campaign'.approved = campaign.approved
      /\ Approved(campaign) /\ (\E t \in Targets : target'[t].status # "abandoned")
           => Approved(campaign)'
  BY <1>1, CampaignDerived
<1>3. AbandonsEnd' /\ Earned'
  BY <1>1, <1>2, TargetsKept
<1>4. campaign' # NoCampaign
  BY <1>2 DEF NoCampaign
<1>5. ASSUME NEW t \in Targets
      PROVE  /\ target'[t].status # "absent"
             /\ target'[t].status = "planned" => target[t].status = "planned"
             /\ job'[t] # "none" => job[t] # "none"
             /\ job'[t] = "done" => job[t] = "done"
  BY LawfulKeeps DEF CampaignInv, AllThere
<1>6. Whole'
  BY <1>5 DEF CampaignInv, Whole
<1>7. AllThere'
  BY <1>2, <1>4, <1>5 DEF CampaignInv, AllThere
<1>8. clerk' \in [Clerks -> ClerkRows] => Typed'
  BY <1>2 DEF CampaignInv, Typed
<1>9. UNCHANGED clerk => ClerksKnow'
  <2>1. \A c1 \in Clerks : clerk[c1].todo \in SUBSET Targets
    BY DEF CampaignInv, Typed, ClerkRows
  <2> QED BY <1>2, <1>4, <1>5, <2>1 DEF CampaignInv, ClerksKnow
<1> QED BY <1>1, <1>2, <1>3, <1>4, <1>6, <1>7, <1>8, <1>9

\* roll_up carries every end that it finds.
LEMMA RolledUpIsLawful ==
  ASSUME CampaignInv, RolledUp
  PROVE  /\ target' \in [Targets -> TargetRows] /\ \A t \in Targets : Lawful(t)
         /\ campaign' = Applied(campaign, target')
         /\ campaign \in CampaignRows
<1>1. ASSUME NEW t \in Targets
      PROVE  /\ target[t] \in TargetRows /\ job[t] \in JobStates /\ campaign \in CampaignRows
             /\ job[t] = "done" => t \in produced
  BY DEF CampaignInv, Typed, Whole
<1>2. ASSUME NEW t \in Targets
      PROVE  (IF Repairable(t) THEN Carried(target[t], job[t], campaign) ELSE target[t]) \in TargetRows
  BY <1>1, CarriedSays
<1>3. target' \in [Targets -> TargetRows]
  BY <1>2 DEF RolledUp
<1>4. ASSUME NEW t \in Targets PROVE Lawful(t)
  <2>1. CASE Repairable(t)
    BY <1>1, <2>1, CarriedIsLawful DEF RolledUp
  <2>2. CASE ~Repairable(t)
    BY <2>2, SameIsLawful DEF RolledUp
  <2> QED BY <2>1, <2>2
<1> QED BY <1>3, <1>4 DEF RolledUp, CampaignInv, Typed

LEMMA ReportKeeps ==
  ASSUME CampaignInv, Report
  PROVE  CampaignInv' /\ TargetStep
<1>1. /\ campaign # NoCampaign /\ RolledUp
      /\ UNCHANGED <<job, owed, carrier, clerk, requests, runs, produced>>
  BY DEF Report, Exists
<1>2. /\ target' \in [Targets -> TargetRows] /\ \A t \in Targets : Lawful(t)
      /\ campaign' = Applied(campaign, target') /\ campaign \in CampaignRows
  BY <1>1, RolledUpIsLawful
<1>3. job' \in [Targets -> JobStates] /\ clerk' \in [Clerks -> ClerkRows]
      /\ requests' \in 0 .. MaxRequests
  BY <1>1 DEF CampaignInv, Typed
<1>4. ~campaign.approved \/ ~campaign.rejected
  BY DEF CampaignInv, Reviewed
<1> QED BY <1>1, <1>2, <1>3, <1>4, Rederived DEF CampaignInv

\* approve_canary and the end of a request: a roll-up and the next step.
LEMMA RolledUpThen ==
  ASSUME CampaignInv, campaign # NoCampaign, RolledUp,
         UNCHANGED <<job, owed, carrier, runs, produced>>, requests' \in 0 .. MaxRequests,
         NEW c \in Clerks, NEW pc \in {"idle", "approve"}, Then(c, pc, {}, Nobody)
  PROVE  CampaignInv' /\ TargetStep
<1>1. /\ target' \in [Targets -> TargetRows] /\ \A t \in Targets : Lawful(t)
      /\ campaign' = Applied(campaign, target') /\ campaign \in CampaignRows
  BY RolledUpIsLawful
<1>2. job' \in [Targets -> JobStates]
  BY DEF CampaignInv, Typed
<1>3. ~campaign.approved \/ ~campaign.rejected
  BY DEF CampaignInv, Reviewed
<1>4. /\ TargetStep /\ Reviewed' /\ StatusIsHonest' /\ AbandonsEnd' /\ Earned'
      /\ Whole' /\ AllThere' /\ campaign' # NoCampaign
      /\ campaign'.approved = campaign.approved
      /\ clerk' \in [Clerks -> ClerkRows] => Typed'
  BY <1>1, <1>2, <1>3, Rederived
<1>5. ClerksKnow' /\ clerk' \in [Clerks -> ClerkRows]
  BY <1>4, ClerksKept DEF ClerkPcs
<1> QED BY <1>4, <1>5 DEF CampaignInv

LEMMA ApproveKeeps ==
  ASSUME CampaignInv, NEW c \in Clerks, Approve(c)
  PROVE  CampaignInv' /\ TargetStep
<1>1. /\ campaign # NoCampaign /\ RolledUp /\ requests' \in 0 .. MaxRequests
      /\ UNCHANGED <<job, owed, carrier, runs, produced>> /\ Then(c, "approve", {}, Nobody)
  BY Requested DEF Approve, Start, Exists
<1> QED BY <1>1, RolledUpThen

LEMMA FinishKeeps ==
  ASSUME CampaignInv, NEW c \in Clerks, Finish(c)
  PROVE  CampaignInv' /\ TargetStep
<1>1. /\ clerk[c].pc = "create" /\ RolledUp
      /\ UNCHANGED <<job, owed, carrier, requests, runs, produced>>
      /\ Then(c, "idle", {}, Nobody)
  BY DEF Finish, Proceed
<1>2. campaign # NoCampaign /\ requests' \in 0 .. MaxRequests
  BY <1>1 DEF CampaignInv, Typed, ClerksKnow
<1> QED BY <1>1, <1>2, RolledUpThen

\* Cancelling, rejecting and abandoning: the jobs are told to stop, the
\* targets converge and the status is derived.
LEMMA ConvergeKeeps ==
  ASSUME CampaignInv, campaign # NoCampaign, NEW ts \in SUBSET Targets,
         NEW c \in CampaignRows, c.status = campaign.status,
         c.approved = campaign.approved, c.launched = campaign.launched,
         c.rejected => campaign.rejected \/ ~campaign.approved,
         campaign.rejected => c.rejected,
         Converge(c, ts), requests' \in 0 .. MaxRequests, UNCHANGED clerk
  PROVE  CampaignInv' /\ TargetStep
<1>1. UNCHANGED <<owed, carrier, runs, produced>> /\ campaign' = Applied(c, target')
  BY DEF Converge
<1>2. ASSUME NEW t \in Targets
      PROVE  /\ job'[t] \in JobStates
             /\ job'[t] = job[t] \/ (job[t] # "none" /\ job'[t] # "done")
             /\ job'[t] = "done" => t \in produced
  <2>1. job[t] \in JobStates /\ (job[t] = "done" => t \in produced)
    BY DEF CampaignInv, Typed, Whole
  <2>2. job'[t] \in {job[t], CancelledJob(job[t])}
    BY DEF Converge
  <2>3. CancelledJob(job[t]) \in {job[t], "cancelled", "cancelling"}
        /\ (CancelledJob(job[t]) # job[t] => job[t] \in {"pending", "running"})
    BY DEF CancelledJob
  <2> QED BY <2>1, <2>2, <2>3 DEF JobStates, TerminalJob
<1>3. job' \in [Targets -> JobStates]
  BY <1>2 DEF Converge
<1>4. ASSUME NEW t \in Targets PROVE Lawful(t)
  <2>1. CASE t \in ts
    BY <1>2, <2>1, ConvergedIsLawful DEF Converge
  <2>2. CASE t \notin ts
    BY <2>2, SameIsLawful DEF Converge
  <2> QED BY <2>1, <2>2
<1>5. target' \in [Targets -> TargetRows]
  <2>1. target' = [t \in Targets |-> target'[t]]
    BY DEF Converge
  <2> QED BY <1>4, <2>1 DEF Lawful
<1>6. clerk' \in [Clerks -> ClerkRows]
  BY DEF CampaignInv, Typed
<1> QED BY <1>1, <1>2, <1>3, <1>4, <1>5, <1>6, Rederived DEF CampaignInv

LEMMA CancelKeeps ==
  ASSUME CampaignInv, Cancel
  PROVE  CampaignInv' /\ TargetStep
<1> DEFINE c == [campaign EXCEPT !.cancelled = TRUE]
<1>1. /\ campaign # NoCampaign /\ Converge(c, Targets) /\ requests' \in 0 .. MaxRequests
      /\ UNCHANGED clerk
  BY Requested DEF Cancel, Exists, Converge
<1>2. campaign \in CampaignRows /\ (campaign.approved => ~campaign.rejected)
  BY DEF CampaignInv, Typed, Reviewed
<1>3. /\ c \in CampaignRows /\ c.status = campaign.status /\ c.approved = campaign.approved
      /\ c.rejected = campaign.rejected /\ c.launched = campaign.launched
  BY <1>2 DEF CampaignRows
<1>4. Targets \in SUBSET Targets
  OBVIOUS
<1> HIDE DEF c
<1> QED BY <1>1, <1>2, <1>3, <1>4, ConvergeKeeps

LEMMA RejectKeeps ==
  ASSUME CampaignInv, Reject
  PROVE  CampaignInv' /\ TargetStep
<1> DEFINE c == [campaign EXCEPT !.rejected = TRUE]
<1>1. /\ campaign # NoCampaign /\ Converge(c, Targets) /\ requests' \in 0 .. MaxRequests
      /\ UNCHANGED clerk /\ ~campaign.approved
  BY Requested DEF Reject, Exists, Converge
<1>2. campaign \in CampaignRows
  BY DEF CampaignInv, Typed
<1>3. /\ c \in CampaignRows /\ c.status = campaign.status /\ c.approved = campaign.approved
      /\ c.rejected /\ c.launched = campaign.launched
  BY <1>2 DEF CampaignRows
<1>4. Targets \in SUBSET Targets
  OBVIOUS
<1> HIDE DEF c
<1> QED BY <1>1, <1>2, <1>3, <1>4, ConvergeKeeps

LEMMA AbandonKeeps ==
  ASSUME CampaignInv, NEW t \in Targets, Abandon(t)
  PROVE  CampaignInv' /\ TargetStep
<1>1. /\ campaign # NoCampaign /\ Converge(campaign, {t})
      /\ requests' \in 0 .. MaxRequests /\ UNCHANGED clerk
  BY Requested DEF Abandon, Exists, Converge
<1>2. campaign \in CampaignRows /\ (campaign.approved => ~campaign.rejected)
  BY DEF CampaignInv, Typed, Reviewed
<1>3. {t} \in SUBSET Targets
  OBVIOUS
<1> QED BY <1>1, <1>2, <1>3, ConvergeKeeps

-----------------------------------------------------------------------------
(* Steps that write the campaign themselves.                               *)

LEMMA CreateKeeps ==
  ASSUME CampaignInv, Create
  PROVE  CampaignInv' /\ TargetStep
<1>1. /\ campaign = NoCampaign /\ campaign' = [campaign EXCEPT !.status = "draft"]
      /\ target' = [t \in Targets |-> [status |-> "planned", abandon |-> FALSE]]
      /\ UNCHANGED <<job, owed, carrier, clerk, requests, runs, produced>>
  BY DEF Create
<1>2. /\ campaign'.status = "draft" /\ ~campaign'.approved /\ ~campaign'.rejected
      /\ campaign' \in CampaignRows /\ ~Approved(campaign)
  BY <1>1, CampaignStatusList DEF NoCampaign, CampaignRows, CampaignStatuses, Approved
<1>3. ASSUME NEW t \in Targets
      PROVE  /\ target[t].status = "absent" /\ job[t] = "none"
             /\ target'[t] \in TargetRows /\ target'[t].status = "planned" /\ ~target'[t].abandon
             /\ Lawful(t)
  <2>1. target[t].status = "absent" /\ job[t] = "none"
    BY <1>1 DEF CampaignInv, AllThere
  <2>2. target'[t] \in TargetRows /\ target'[t].status = "planned" /\ ~target'[t].abandon
    BY <1>1, StatusList DEF TargetRows
  <2> QED BY <2>1, <2>2, Exits DEF Lawful
<1>4. TargetStep
  BY <1>1, <1>3 DEF TargetStep
<1>5. AbandonsEnd' /\ Earned'
  BY <1>1, <1>2, <1>4, TargetsKept
<1>6. Typed' /\ Whole'
  BY <1>1, <1>2, <1>4 DEF CampaignInv, Typed, Whole, TargetStep
<1>7. campaign' # NoCampaign
  BY <1>2 DEF NoCampaign
<1>8. AllThere'
  BY <1>1, <1>2, <1>3, <1>7 DEF AllThere
<1>9. Reviewed' /\ StatusIsHonest'
  BY <1>2 DEF Reviewed, StatusIsHonest, TerminalCampaign
<1>10. ClerksKnow'
  <2>1. \A c \in Clerks : clerk[c] = Free
    BY <1>1 DEF CampaignInv, ClerksKnow
  <2>2. \A c \in Clerks : /\ clerk'[c] = Free /\ Free.pc = "idle" /\ Free.todo = {}
    BY <1>1, <2>1 DEF Free
  <2>3. \A w \in Workers : carrier'[w] # AtRest => carrier'[w].target \in Targets
    BY <1>1 DEF CampaignInv, ClerksKnow
  <2> HIDE DEF Free
  <2> QED BY <2>2, <2>3 DEF ClerksKnow
<1> QED BY <1>4, <1>5, <1>6, <1>8, <1>9, <1>10 DEF CampaignInv

LEMMA LaunchKeeps ==
  ASSUME CampaignInv, NEW c \in Clerks, Launch(c)
  PROVE  CampaignInv' /\ TargetStep
<1> DEFINE ts == Wave(Canaries, target)
           next == [campaign EXCEPT !.status = "canary_running", !.launched = TRUE]
<1>1. /\ UNCHANGED <<job, owed, carrier, runs, produced>>
      /\ campaign # NoCampaign /\ ~campaign.approved /\ requests' \in 0 .. MaxRequests
      /\ target' = Driven(Canaries, target) /\ Then(c, "create", ts, Nobody)
      /\ campaign' = IF campaign.status = "draft" THEN next ELSE campaign
  BY Requested DEF Launch, Start, Exists
<1>2. /\ campaign \in CampaignRows /\ target \in [Targets -> TargetRows]
      /\ Canaries \in SUBSET Targets /\ ts \in SUBSET Targets
  BY Assumptions DEF CampaignInv, Typed, Wave
<1>3. ASSUME NEW t \in Targets
      PROVE  /\ Lawful(t) /\ Steady(t) /\ target' \in [Targets -> TargetRows]
             /\ t \in ts => target'[t].status = "generating"
  <2>1. /\ target' \in [Targets -> TargetRows]
        /\ t \in ts => /\ target'[t] = [target[t] EXCEPT !.status = "generating"]
                       /\ target'[t].status = "generating"
                       /\ target[t].status \in {"planned", "generating"}
                       /\ ~target[t].abandon
        /\ t \notin ts => target'[t] = target[t]
    <3>1. target' = Driven(Canaries, target)
      BY <1>1
    <3> QED BY <1>2, <3>1, DrivenSays
  <2> HIDE DEF ts
  <2>2. CASE t \in ts
    BY <2>1, <2>2, DrivenIsLawful
  <2>3. CASE t \notin ts
    BY <2>1, <2>3, SameIsLawful
  <2> QED BY <2>1, <2>2, <2>3
<1>4. target' \in [Targets -> TargetRows]
  BY <1>3, Assumptions
<1> HIDE DEF ts
<1>5. CASE campaign.status = "draft"
  <2>1. /\ campaign' \in CampaignRows /\ campaign'.status = "canary_running"
        /\ ~campaign'.approved /\ campaign' # NoCampaign
    BY <1>1, <1>2, <1>5, CampaignStatusList DEF CampaignRows, CampaignStatuses, NoCampaign
  <2>2. TargetStep /\ ~Approved(campaign)
    BY <1>1, <1>3, <1>4 DEF TargetStep, Approved
  <2>3. AbandonsEnd' /\ Earned'
    BY <1>1, <2>2, TargetsKept
  <2>4. Reviewed' /\ StatusIsHonest'
    BY <2>1 DEF Reviewed, StatusIsHonest, TerminalCampaign
  <2>5. ClerksKnow' /\ clerk' \in [Clerks -> ClerkRows]
    BY <1>1, <1>2, <1>3, <2>1, <2>2, ClerksKept DEF ClerkPcs
  <2>6. ASSUME NEW t \in Targets
        PROVE  /\ target'[t].status # "absent"
               /\ target'[t].status = "planned" => target[t].status = "planned"
    BY <1>1, <1>3, LawfulKeeps DEF CampaignInv, AllThere
  <2>7. AllThere'
    BY <1>1, <2>1, <2>6 DEF CampaignInv, AllThere
  <2>8. Typed' /\ Whole'
    BY <1>1, <1>4, <2>1, <2>5 DEF CampaignInv, Typed, Whole
  <2> QED BY <2>2, <2>3, <2>4, <2>5, <2>7, <2>8 DEF CampaignInv
<1>6. CASE campaign.status # "draft"
  <2>1. UNCHANGED campaign
    BY <1>1, <1>6
  <2> QED BY <1>1, <1>2, <1>3, <1>4, <2>1, ClerkWrites DEF ClerkPcs
<1> QED BY <1>5, <1>6

LEMMA StampKeeps ==
  ASSUME CampaignInv, NEW c \in Clerks, Stamp(c)
  PROVE  CampaignInv' /\ TargetStep
<1> DEFINE next == [campaign EXCEPT !.status = "approved", !.approved = TRUE]
<1>1. /\ UNCHANGED <<target, job, owed, carrier, requests, runs, produced>>
      /\ clerk[c].pc = "approve"
  BY DEF Stamp, Proceed
<1>2. \/ Then(c, "idle", {}, Nobody) /\ UNCHANGED campaign
      \/ campaign.approved /\ Then(c, "release", {}, Nobody) /\ UNCHANGED campaign
      \/ /\ ~campaign.rejected /\ ~Stopped /\ ~campaign.approved
         /\ campaign' = next /\ Then(c, "release", {}, Nobody)
  BY DEF Stamp
<1>3. campaign # NoCampaign /\ campaign \in CampaignRows
  BY <1>1 DEF CampaignInv, Typed, ClerksKnow
<1>4. \A t \in Targets : Lawful(t) /\ Steady(t)
  BY <1>1, SameIsLawful
<1>5. TargetStep
  BY <1>1, <1>4 DEF TargetStep, CampaignInv, Typed
<1>6. CASE UNCHANGED campaign
  <2>1. Reviewed' /\ AbandonsEnd' /\ Earned' /\ StatusIsHonest' /\ AllThere'
    BY <1>1, <1>4, <1>5, <1>6, TargetsWritten DEF TargetStep
  <2>2. CASE Then(c, "idle", {}, Nobody)
    <3>1. ClerksKnow' /\ clerk' \in [Clerks -> ClerkRows]
      BY <1>1, <1>3, <1>5, <1>6, <2>2, ClerksKept DEF ClerkPcs
    <3>2. Typed' /\ Whole'
      BY <1>1, <1>6, <3>1 DEF CampaignInv, Typed, Whole
    <3> QED BY <1>5, <2>1, <3>1, <3>2 DEF CampaignInv
  <2>3. CASE campaign.approved /\ Then(c, "release", {}, Nobody)
    <3>1. ClerksKnow' /\ clerk' \in [Clerks -> ClerkRows]
      BY <1>1, <1>3, <1>5, <1>6, <2>3, ClerksKept DEF ClerkPcs
    <3>2. Typed' /\ Whole'
      BY <1>1, <1>6, <3>1 DEF CampaignInv, Typed, Whole
    <3> QED BY <1>5, <2>1, <3>1, <3>2 DEF CampaignInv
  <2>4. ~(campaign' = next /\ ~campaign.approved)
    BY <1>3, <1>6 DEF CampaignRows
  <2> QED BY <1>2, <2>2, <2>3, <2>4
<1>7. CASE /\ ~campaign.rejected /\ ~Stopped /\ ~campaign.approved
           /\ campaign' = next /\ Then(c, "release", {}, Nobody)
  <2>1. /\ campaign' \in CampaignRows /\ campaign'.status = "approved" /\ campaign'.approved
        /\ ~campaign'.rejected /\ campaign' # NoCampaign
    BY <1>3, <1>7, CampaignStatusList DEF CampaignRows, CampaignStatuses, NoCampaign
  <2>2. Reviewed' /\ StatusIsHonest'
    BY <2>1 DEF Reviewed, StatusIsHonest, TerminalCampaign
  <2>3. AbandonsEnd' /\ Earned'
    BY <1>1, <1>5, <1>7, TargetsKept DEF Approved
  <2>4. ClerksKnow' /\ clerk' \in [Clerks -> ClerkRows]
    BY <1>1, <1>3, <1>5, <1>7, <2>1, ClerksKept DEF ClerkPcs
  <2>5. AllThere'
    BY <1>1, <1>3, <2>1 DEF CampaignInv, AllThere
  <2>6. Typed' /\ Whole'
    BY <1>1, <2>1, <2>4 DEF CampaignInv, Typed, Whole
  <2> QED BY <1>5, <2>2, <2>3, <2>4, <2>5, <2>6 DEF CampaignInv
<1> QED BY <1>2, <1>6, <1>7

-----------------------------------------------------------------------------
(* The theorems.                                                           *)

LEMMA CampaignStarts == Init => CampaignInv
<1> SUFFICES ASSUME Init PROVE CampaignInv
  OBVIOUS
<1>1. Typed
  BY StatusList, Assumptions, CampaignStatusList
  DEF Init, Typed, CampaignRows, NoCampaign, TargetRows, JobStates, CarrierRows, AtRest,
      ClerkRows, ClerkPcs, Free
<1>2. AllThere /\ ClerksKnow /\ Reviewed /\ AbandonsEnd /\ Whole
  BY DEF Init, AllThere, ClerksKnow, Reviewed, AbandonsEnd, Whole, NoCampaign, AtRest, Free
<1>3. Earned /\ StatusIsHonest
  BY DEF Init, Earned, StatusIsHonest, Publication, NoCampaign, TerminalCampaign
<1> QED BY <1>1, <1>2, <1>3 DEF CampaignInv

LEMMA CampaignSteps == ASSUME CampaignInv, [Next]_vars PROVE CampaignInv' /\ TargetStep
<1>1. CASE UNCHANGED vars
  <2>1. CampaignInv'
    <3>1. Typed' /\ AllThere' /\ ClerksKnow' /\ Whole'
      BY <1>1 DEF vars, CampaignInv, Typed, AllThere, ClerksKnow, Whole
    <3>2. Reviewed' /\ AbandonsEnd' /\ Earned' /\ StatusIsHonest'
      BY <1>1, RowsUntouched DEF vars
    <3> QED BY <3>1, <3>2 DEF CampaignInv
  <2> QED BY <1>1, <2>1, RowsUntouched DEF vars
<1>2. CASE Create \/ Cancel \/ Reject \/ Report
  BY <1>2, CreateKeeps, CancelKeeps, RejectKeeps, ReportKeeps
<1>3. ASSUME NEW c \in Clerks, ClerkStep(c) PROVE CampaignInv' /\ TargetStep
  BY <1>3, LaunchKeeps, ApproveKeeps, StampKeeps, ReleaseKeeps, FailCreationKeeps,
     FinishKeeps, RequeueKeeps, DieKeeps, CreateJobKeeps, RetryGenerationKeeps,
     RetryPublicationKeeps DEF ClerkStep
<1>4. ASSUME NEW t \in Targets, Abandon(t) \/ CancelJob(t) \/ JobStep(t) \/ Publish(t)
      PROVE  CampaignInv' /\ TargetStep
  BY <1>4, AbandonKeeps, CancelJobKeeps, JobStepKeeps, PublishKeeps
<1>5. ASSUME NEW w \in Workers,
             Carry(w) \/ (\E t \in Targets : SweepReads(w, t) \/ WorkerReads(w, t))
      PROVE  CampaignInv' /\ TargetStep
  BY <1>5, CarryKeeps, ReadsKeep
<1> QED BY <1>1, <1>2, <1>3, <1>4, <1>5 DEF Next

\* The inductive invariant of campaigns: clerks work on targets that were
\* driven first, an approved campaign was never rejected, a job done was
\* produced, a failed publication is still a released one, and the status of
\* the campaign is honest.
THEOREM CampaignInvariant == Spec => []CampaignInv
<1> QED BY CampaignStarts, CampaignSteps, PTL DEF Spec

\* No target is released before its campaign was approved or after it was
\* rejected or cancelled, and what is offered for review or released was
\* produced (reconcile, release and publish in regeneration_campaign.py).
THEOREM ReleasesAreEarned == Spec => []ReleaseIsEarned
<1>1. ASSUME CampaignInv PROVE ReleaseIsEarned
  <2>1. TypeOK
    BY <1>1, Assumptions, CampaignStatusList
    DEF CampaignInv, Typed, AllThere, ClerksKnow, TypeOK, CampaignRows, TargetRows
  <2> QED BY <1>1, <2>1 DEF CampaignInv, Earned, ReleaseIsEarned
<1> QED BY <1>1, CampaignInvariant, PTL

\* The status derived by derive_campaign_status invites approval only while it
\* would be granted and hides no live target.
THEOREM HonestStatus == Spec => []StatusIsHonest
<1>1. CampaignInv => StatusIsHonest
  BY DEF CampaignInv
<1> QED BY <1>1, CampaignInvariant, PTL

\* Whatever requests, carriers and publishers do, in whatever order, the
\* targets of a campaign live the life of TargetLife.
THEOREM CampaignIsLife == Spec => LifeSpec
<1>1. Init => Life!Init
  BY DEF Init, Life!Init
<1>2. ASSUME CampaignInv, [Next]_vars PROVE [Life!Next]_(Life!vars)
  <2>1. TargetStep /\ target \in [Targets -> TargetRows]
    BY <1>2, CampaignSteps DEF CampaignInv, Typed
  <2>2. Life!Move
    BY <2>1 DEF TargetStep, Lawful, TargetRows, Life!Move, Life!Related
  <2>3. Life!Reserve /\ [t \in Targets |-> 0] \in [Targets -> Nat]
    BY DEF Life!Reserve
  <2> QED BY <2>2, <2>3 DEF Life!Next
<1> QED BY <1>1, <1>2, CampaignInvariant, PTL DEF Spec, LifeSpec, Life!Spec

-----------------------------------------------------------------------------
(* Planning: the invariant.                                                *)

RowStatuses == {"none", "planned", "published", "abandoned"}

RowFields   == {"status", "consumed", "source", "plan", "decision"}
DraftFields == {"made", "offer", "contract", "paid", "approved", "closed", "shown", "receipt"}

IsRow(r) ==
  r = NoRow \/ (DOMAIN r = RowFields /\ r.status \in RowStatuses \ {"none"})

IsDraft(c) ==
  c = NoDraft \/ (DOMAIN c = DraftFields /\ c.made = TRUE /\ c.offer \in Offers)

\* The tables.
Shaped ==
  /\ drafts = [d \in Drafts |-> drafts[d]] /\ \A d \in Drafts : IsDraft(drafts[d])
  /\ rows = [d \in Drafts |-> rows[d]]
  /\ \A d \in Drafts : rows[d] = [l \in Lineages |-> rows[d][l]]
  /\ \A d \in Drafts, l \in Lineages : IsRow(rows[d][l])
  /\ desks = [k \in Desks |-> desks[k]]

\* What the rows say for good, and that what they consume is their version.
RowHolds(d, l) ==
  LET row == rows[d][l]  draft == drafts[d] IN
  row.status # "none" =>
    /\ draft.made
    /\ row.consumed \in {0, draft.offer.version} /\ (row.consumed # 0 => draft.approved)
    /\ row.status = "published" => row.consumed = draft.offer.version
    /\ Readable(row.plan) /\ (row.plan.broken = {} \/ draft.offer.ask.acknowledged)
    /\ WholeReview(row.decision) /\ row.decision = Frozen(draft.shown[l])

\* A lesson has one live row.
LiveHolds(d, l) == Live(d, l) => \A e \in Drafts \ {d} : ~Live(e, l)

\* What a live row is made from is the newest, and what it will ask for is free.
\* A draft may be made without; a launch that has loaded its sources stands so.
Stands(d, l) ==
  Live(d, l) =>
    /\ rows[d][l].source[1] = Newest(l) /\ Newest(l) < drafts[d].offer.version
    /\ \A e \in Drafts \ {d} : rows[e][l].consumed # drafts[d].offer.version

\* Among the versions of a lineage there is a newest.
IsNewest(l, v) ==
  v \in Nat /\ v \in PublishedVersions(l) \cup {1} /\ \A w \in PublishedVersions(l) \cup {1} : w <= v

PaidHolds(d) ==
  drafts[d].made =>
    /\ drafts[d].approved => drafts[d].paid
    /\ drafts[d].paid =>
         /\ \A l \in RowsOf(d) : rows[d][l].decision = Frozen(drafts[d].receipt.proof[l])
         /\ drafts[d].receipt.claimers # {}
         /\ \A l \in Lineages : Stands(d, l)

Proofed(proof) == \A l \in DOMAIN proof : Decided(proof[l]) => WholeReview(Frozen(proof[l]))

\* A request that has its proof, and one of whose insertion has begun.
Inserting == {"listed", "unclaimed", "clear"}
WithProof == Inserting \cup {"proved"}
Launching == {"reloaded", "reproved"}

\* What a desk relies on.
DeskHolds(k) ==
  LET desk == desks[k] IN
  /\ desk.pc \in {"checking", "reviewing", "prepared"} \cup WithProof => desk.offer \in Offers
  /\ desk.pc \in {"prepared"} \cup WithProof =>
       Plannable(desk.offer.ask) /\ DOMAIN desk.sources \subseteq Lineages
  /\ desk.pc \in WithProof =>
       /\ DOMAIN desk = {"pc", "offer", "shown", "sources", "contract", "proof"}
       /\ DOMAIN desk.proof = DOMAIN desk.sources /\ Proofed(desk.proof)
  /\ desk.pc \in Inserting => AllDecided(desk.proof) /\ desk.proof = desk.shown
  /\ desk.pc \in Launching =>
       /\ desk.draft \in Drafts /\ drafts[desk.draft].made
       /\ \A l \in Lineages : Stands(desk.draft, l)
  /\ desk.pc = "reloaded" => DOMAIN desk.sources = RowsOf(desk.draft)
  /\ desk.pc = "reproved" =>
       /\ DOMAIN desk.proof = RowsOf(desk.draft)
       /\ \A l \in RowsOf(desk.draft) : Frozen(desk.proof[l]) = rows[desk.draft][l].decision

\* Pages have names.
PagesNamed == \A l \in Lineages : \A p \in lessons[l].place.pages : p.id # NoPage

PlanInv ==
  /\ Shaped /\ PagesNamed
  /\ lessons = [l \in Lineages |-> lessons[l]]
  /\ \A l \in Lineages : lessons[l] = [v1 |-> lessons[l].v1, shots |-> lessons[l].shots,
                                       place |-> lessons[l].place]
  /\ \A d \in Drafts, l \in Lineages : RowHolds(d, l) /\ LiveHolds(d, l)
  /\ \A l \in Lineages : IsNewest(l, Newest(l))
  /\ \A d \in Drafts : PaidHolds(d)
  /\ \A k \in Desks : DeskHolds(k)

-----------------------------------------------------------------------------
(* Plans.                                                                  *)

\* What a plan is made of.
LEMMA PlanParts ==
  ASSUME NEW ask \in PhaseAsks
  PROVE  /\ Reached(ask) \subseteq Content /\ Regenerated(ask) \subseteq Canonical
         /\ Acceptable(ask) => ask.selected \subseteq Reached(ask)
         /\ LeftOut(ask) \cap Regenerated(ask) = {} /\ LeftOut(ask) \subseteq Content
         /\ ask.refresh <=> Extract \in Regenerated(ask)
         /\ ask.selected \subseteq Content /\ ask.refresh \in BOOLEAN
<1>1. /\ ask.selected \subseteq Content /\ ask.excluded \subseteq Content
      /\ ask.refresh \in BOOLEAN
  BY DEF PhaseAsks
<1>2. Reached(ask) \subseteq Content
  BY DEF Reached
<1>3. ask.selected \subseteq Reached(ask)
  BY <1>1 DEF Reached
<1>4. LeftOut(ask) \subseteq Content
  BY <1>1 DEF LeftOut
<1>5. LeftOut(ask) \cap Regenerated(ask) = {}
  BY <1>4, FlowAssumptions DEF Regenerated
<1>6. Regenerated(ask) \subseteq Canonical
  BY <1>2 DEF Regenerated, Canonical
<1>7. ask.refresh <=> Extract \in Regenerated(ask)
  BY <1>1, <1>2, FlowAssumptions DEF Regenerated
<1> QED BY <1>1, <1>2, <1>3, <1>4, <1>5, <1>6, <1>7

\* A stored plan can be read for whatever request it was made: from_json never
\* refuses what build_phase_plan and to_json wrote.
THEOREM PlansReadBack ==
  ASSUME NEW ask \in PhaseAsks, Acceptable(ask)
  PROVE  Readable(Plan(ask))
<1> DEFINE plan == Plan(ask)
<1>1. /\ plan.selected = ask.selected /\ plan.affected = Reached(ask) \ ask.selected
      /\ plan.regenerated = Regenerated(ask) /\ plan.copied = Canonical \ Regenerated(ask)
      /\ plan.excluded = LeftOut(ask) /\ plan.broken = Broken(ask) /\ plan.refresh = ask.refresh
  BY DEF Plan
<1>2. ask.selected \subseteq Regenerated(ask)
  BY PlanParts DEF Regenerated, LeftOut
<1>3. LeftOut(ask) \subseteq (Reached(ask) \ ask.selected) \cap (Canonical \ Regenerated(ask))
  BY PlanParts DEF LeftOut, Canonical
<1>4. Broken(ask) \subseteq Regenerated(ask) \X LeftOut(ask)
  BY DEF Broken, Edges
<1>5. /\ plan.selected \cup plan.affected \cup plan.excluded \subseteq Content
      /\ plan.regenerated \cap plan.copied = {}
      /\ plan.regenerated \cup plan.copied = Canonical
  BY <1>1, PlanParts
<1> HIDE DEF plan
<1> QED BY <1>1, <1>2, <1>3, <1>4, <1>5, PlanParts DEF Readable, Coherent, plan

\* Whatever is copied although something it was written from is written anew is
\* listed in the plan, so that it was acknowledged: nothing goes stale silently.
THEOREM NothingSilentlyStale ==
  ASSUME NEW ask \in PhaseAsks, NEW e \in Edges(ask.refresh),
         e[1] \in Plan(ask).regenerated, e[2] \in Plan(ask).copied
  PROVE  e \in Plan(ask).broken
<1>1. e[1] \in Regenerated(ask) /\ e[2] \in Content /\ e[2] \notin Regenerated(ask)
  BY DEF Plan, Edges
<1>2. e[2] \in Reached(ask)
  <2>1. CASE ask.refresh
    BY <1>1, <2>1 DEF Reached
  <2>2. CASE ~ask.refresh
    <3>1. e[1] \in Reached(ask)
      BY <1>1, <2>2 DEF Regenerated
    <3>2. ASSUME NEW S \in SUBSET Content, ask.selected \subseteq S,
                 ClosedUnder(Edges(ask.refresh), S)
          PROVE  e[2] \in S
      <4>1. e[1] \in S
        BY <2>2, <3>1, <3>2 DEF Reached
      <4> QED BY <3>2, <4>1 DEF ClosedUnder
    <3> QED BY <1>1, <2>2, <3>2 DEF Reached
  <2> QED BY <2>1, <2>2
<1>3. e[2] \in LeftOut(ask)
  BY <1>1, <1>2 DEF Regenerated
<1> QED BY <1>1, <1>3 DEF Broken, Plan

-----------------------------------------------------------------------------
(* Workers.                                                                *)

\* In a concrete contract every role that calls an API does so for a provider
\* that has one, and a contract that the check resolves names its grader.
LEMMA ConcreteRoles ==
  ASSUME NEW c, Concrete(c), NEW r \in RoleNames
  PROVE  /\ c[r].provider # Unset /\ c[r].model # Unset
         /\ NeedsApi(c, c[r]) <=> Effective(c[r], c) = "api"
         /\ NeedsApi(c, c[r]) => c[r].provider \in ApiProviders
<1>1. /\ c[r].provider # Unset /\ c[r].model # Unset
      /\ Transportable(c[r].provider, c[r].model, Effective(c[r], c))
  BY DEF Concrete, ValidContract
<1>2. NeedsApi(c, c[r]) <=> Effective(c[r], c) = "api"
  BY DEF NeedsApi, Effective
<1> QED BY <1>1, <1>2 DEF Transportable

LEMMA GradersAgree ==
  ASSUME NEW c, Concrete(c), NEW r \in {"judge", "solver"}, NEW keys
  PROVE  GraderOk(c, c[r], keys)
           <=> (NeedsApi(c, c[r]) => Grader(c, c[r])[1] \in keys)
<1> DEFINE role    == c[r]
           written == <<c.provider, c.model>>
           graded  == <<role.provider, role.model>>
           self    == c.provider = role.provider /\ c.model = role.model
<1>1. /\ role.provider # Unset /\ role.model # Unset /\ c.model # Unset
      /\ NeedsApi(c, role) => role.provider \in ApiProviders
  BY ConcreteRoles DEF RoleNames, Concrete
<1>2. ContentModel(c) = c.model
  BY <1>1 DEF ContentModel
<1>3. Grader(c, role) = IF graded = written THEN SelfFallback(written) ELSE graded
  BY <1>1 DEF Grader
<1>4. graded = written <=> self
  OBVIOUS
<1>5. GraderOk(c, role, keys) <=>
        \/ ~NeedsApi(c, role)
        \/ self /\ KeyFor(IF c.provider = "claude" /\ c.model = "opus"
                          THEN "gemini" ELSE "claude", keys)
        \/ ~self /\ KeyFor(role.provider, keys)
  BY <1>2 DEF GraderOk
<1>6. CASE self
  <2>1. Grader(c, role)[1] = IF c.provider = "claude" /\ c.model = "opus"
                             THEN "gemini" ELSE "claude"
    BY <1>3, <1>4, <1>6 DEF SelfFallback, Primary, Alternate
  <2> HIDE DEF self
  <2> QED BY <1>5, <1>6, <2>1 DEF KeyFor, ApiProviders
<1>7. CASE ~self
  <2>1. Grader(c, role)[1] = role.provider
    BY <1>3, <1>4, <1>7
  <2> HIDE DEF self
  <2> QED BY <1>1, <1>5, <1>7, <2>1 DEF KeyFor
<1> QED BY <1>6, <1>7

\* What the check before spending asks of a live worker, written in Python over
\* the contract, is what the claim query asks of it, written in SQL over the
\* columns of the jobs that the contract is copied to.
THEOREM GateIsTheCheck ==
  ASSUME NEW c, Concrete(c), NEW worker, NEW paused
  PROVE  CanExecute(c, worker, paused) <=>
           /\ worker.online /\ worker.status = "online"
           /\ ClaimGate(c, worker.keys, paused)
<1> DEFINE keys == worker.keys
           some == c.transport = "api" \/ \E r \in RoleNames : NeedsApi(c, c[r])
           need == /\ c.transport = "api" => c.provider \in keys
                   /\ NeedsApi(c, c.extract) => c.extract.provider \in keys
                   /\ NeedsApi(c, c.judge) => Grader(c, c.judge)[1] \in keys
                   /\ NeedsApi(c, c.solver) => Grader(c, c.solver)[1] \in keys
<1>1. /\ NeedsApi(c, c.extract) <=> Effective(c.extract, c) = "api"
      /\ NeedsApi(c, c.judge) <=> Effective(c.judge, c) = "api"
      /\ NeedsApi(c, c.solver) <=> Effective(c.solver, c) = "api"
      /\ NeedsApi(c, c.extract) => c.extract.provider \in ApiProviders
  BY ConcreteRoles DEF RoleNames
<1>2. some <=> \/ c.transport = "api" \/ NeedsApi(c, c.extract)
               \/ NeedsApi(c, c.judge) \/ NeedsApi(c, c.solver)
  BY DEF RoleNames
<1>3. Transportable(c.provider, c.model, c.transport)
  BY DEF Concrete, ValidContract
<1>4. ClaimGate(c, keys, paused) <=> need /\ ~(paused /\ some)
  <2>1. (c.transport = "cli" \/ KeyFor(c.provider, keys))
          <=> (c.transport = "api" => c.provider \in keys)
    BY <1>3 DEF Transportable, KeyFor
  <2>2. (~NeedsApi(c, c.extract) \/ KeyFor(c.extract.provider, keys))
          <=> (NeedsApi(c, c.extract) => c.extract.provider \in keys)
    BY <1>1 DEF KeyFor
  <2>3. /\ GraderOk(c, c.judge, keys) <=> (NeedsApi(c, c.judge) => Grader(c, c.judge)[1] \in keys)
        /\ GraderOk(c, c.solver, keys) <=> (NeedsApi(c, c.solver) => Grader(c, c.solver)[1] \in keys)
    BY GradersAgree
  <2> QED BY <2>1, <2>2, <2>3 DEF ClaimGate
<1>5. Required(c) \subseteq keys <=> need
  BY <1>1 DEF Required
<1>6. Required(c) # {} <=> some
  BY <1>1, <1>2 DEF Required
<1> QED BY <1>4, <1>5, <1>6 DEF CanExecute

-----------------------------------------------------------------------------
(* Destinations.                                                           *)

\* A decision that can be stored, leads to no homework of that version, and does
\* not start a second page for a lesson that was published.
SafeDecision(made, source, version, pages) ==
  /\ WholeReview(made)
  /\ made.topicPolicy = "reuse" => ~VersionExists(made.topic, version, pages)
  /\ source.published => made.topicPolicy = "reuse"

LEMMA DecisionParts ==
  ASSUME NEW source, NEW status, NEW container, NEW topic
  PROVE  LET made == Decision(source, status, container, topic) IN
         /\ made.status = status
         /\ made.containerPolicy = container.policy /\ made.container = container.page
         /\ made.topicPolicy = topic.policy /\ made.topic = topic.page
BY DEF Decision

\* A topic that was found stands under a container that was found.
LEMMA ChosenIsSafe ==
  ASSUME NEW source, NEW version, NEW container, NEW topic, NEW pages,
         container # NoPage, topic # NoPage,
         Decided(Chosen(source, version, container, topic, pages))
  PROVE  SafeDecision(Chosen(source, version, container, topic, pages), source, version, pages)
<1> DEFINE made == Chosen(source, version, container, topic, pages)
<1>1. /\ made.containerPolicy = "reuse" /\ made.container = container
      /\ made.topicPolicy = "reuse" /\ made.topic = topic
      /\ made.status = IF VersionExists(topic, version, pages) THEN "blocked" ELSE "reuse"
  BY DEF Chosen, Decision, Reuse
<1> HIDE DEF made
<1>2. ~VersionExists(topic, version, pages)
  BY <1>1 DEF Decided, made
<1>3. SafeDecision(made, source, version, pages)
  BY <1>1, <1>2 DEF SafeDecision, WholeReview
<1> QED BY <1>3 DEF made

LEMMA BlockedIsUndecided ==
  ASSUME NEW source, NEW container, NEW topic
  PROVE  ~Decided(Blocked(source, container, topic))
BY DEF Blocked, Decision, Decided

LEMMA InContainerDecides ==
  ASSUME NEW source, NEW version, NEW override, NEW container, NEW pages,
         container # NoPage, \A p \in pages : p.id # NoPage,
         Decided(InContainer(source, version, override, container, pages))
  PROVE  SafeDecision(InContainer(source, version, override, container, pages),
                      source, version, pages)
<1> DEFINE candidates == Candidates(source, container, pages)
           remembered == source.hint # NoPage
                           /\ \E c \in ChildPages(container, pages) : c.id = source.hint
           Pick(topic) == Chosen(source, version, container, topic, pages)
           made == InContainer(source, version, override, container, pages)
<1>1. \A c \in candidates : c # NoPage
  BY DEF Candidates, ChildPages
<1>2. \A topic : topic # NoPage /\ Decided(Pick(topic)) =>
                   SafeDecision(Pick(topic), source, version, pages)
  BY ChosenIsSafe
<1>3. CASE override # NoPage /\ override \notin candidates
  BY <1>3, BlockedIsUndecided DEF InContainer
<1>4. CASE override \in candidates
  <2>1. override # NoPage
    BY <1>1, <1>4
  <2>2. made = Pick(override)
    BY <1>4, <2>1 DEF InContainer
  <2> QED BY <1>2, <2>1, <2>2
<1>5. CASE override = NoPage /\ source.published
  <2>1. override \notin candidates
    BY <1>1, <1>5
  <2>2. made = Decision(source, IF candidates = {} THEN "blocked" ELSE "ambiguous",
                        Reuse(container), Undecided)
    BY <1>5, <2>1 DEF InContainer
  <2> QED BY <2>2, DecisionParts DEF Decided
<1>6. CASE override = NoPage /\ ~source.published /\ remembered
  <2>1. override \notin candidates
    BY <1>1, <1>6
  <2>2. made = Pick(source.hint)
    BY <1>6, <2>1 DEF InContainer
  <2> QED BY <1>2, <1>6, <2>2
<1>7. CASE override = NoPage /\ ~source.published /\ ~remembered /\ candidates = {}
  <2>1. made = Decision(source, "create", Reuse(container), New)
    BY <1>7 DEF InContainer
  <2>2. /\ made.containerPolicy = "reuse" /\ made.container = container
        /\ made.topicPolicy = "create" /\ made.topic = NoPage
    BY <2>1 DEF Decision, Reuse, New
  <2> HIDE DEF made
  <2>3. SafeDecision(made, source, version, pages)
    BY <1>7, <2>2 DEF SafeDecision, WholeReview
  <2> QED BY <2>3 DEF made
<1>8. CASE override = NoPage /\ ~source.published /\ ~remembered /\ candidates # {}
  <2>1. override \notin candidates
    BY <1>1, <1>8
  <2>2. made = IF Cardinality(candidates) = 1 THEN Pick(CHOOSE c \in candidates : TRUE)
               ELSE Decision(source, "ambiguous", Reuse(container), Undecided)
    BY <1>8, <2>1 DEF InContainer
  <2>3. (CHOOSE c \in candidates : TRUE) \in candidates
    BY <1>8
  <2>4. Decided(Pick(CHOOSE c \in candidates : TRUE)) =>
          SafeDecision(Pick(CHOOSE c \in candidates : TRUE), source, version, pages)
    BY <1>1, <1>2, <2>3
  <2>5. ~Decided(Decision(source, "ambiguous", Reuse(container), Undecided))
    BY DecisionParts DEF Decided
  <2> QED BY <2>2, <2>4, <2>5
<1> QED BY <1>3, <1>4, <1>5, <1>6, <1>7, <1>8

\* Wherever the scan lets a revision go, for any tree of pages: the decision lacks
\* no page that it reuses, no homework of that version is there, and a lesson
\* with published homework stays on the page that it has.
THEOREM DestinationsAreSafe ==
  ASSUME NEW source, NEW version, NEW override, NEW pages, \A p \in pages : p.id # NoPage,
         Decided(Destined(source, version, override, pages))
  PROVE  SafeDecision(Destined(source, version, override, pages), source, version, pages)
<1> DEFINE made == Destined(source, version, override, pages)
<1>1. CASE override = NoPage /\ source.verified
  <2> DEFINE topic     == ParentOf(source.home, pages)
             container == ParentOf(topic, pages)
  <2>1. made = Proven(source, version, pages)
    BY <1>1 DEF Destined
  <2>2. CASE NoPage \in {source.home, topic, container}
    BY <2>1, <2>2, BlockedIsUndecided DEF Proven
  <2>3. CASE NoPage \notin {source.home, topic, container}
    <3>1. made = Chosen(source, version, container, topic, pages)
      BY <2>1, <2>3 DEF Proven
    <3> QED BY <2>3, <3>1, ChosenIsSafe
  <2> QED BY <2>2, <2>3
<1>2. CASE ~(override = NoPage /\ source.verified)
  <2> DEFINE containers == {p \in ChildPages(source.subject, pages) : p.title = ContainerTitle}
             many       == source.subject = NoPage \/ Cardinality(containers) > 1
  <2>1. made = Searched(source, version, override, pages)
    BY <1>2 DEF Destined
  <2>2. CASE many
    <3>1. ~(source.subject # NoPage /\ containers = {})
      BY <2>2, FS_EmptySet
    <3>2. made = Blocked(source, Undecided, Undecided)
      BY <2>1, <2>2, <3>1 DEF Searched
    <3> QED BY <3>2, BlockedIsUndecided
  <2>3. CASE ~many /\ containers = {}
    <3>1. made = IF override # NoPage \/ source.published
                 THEN Blocked(source, Undecided, Undecided)
                 ELSE Decision(source, "create", New, New)
      BY <2>1, <2>3 DEF Searched
    <3>2. ~source.published /\ made = Decision(source, "create", New, New)
      BY <3>1, BlockedIsUndecided
    <3>3. /\ made.containerPolicy = "create" /\ made.container = NoPage
          /\ made.topicPolicy = "create" /\ made.topic = NoPage
      BY <3>2 DEF Decision, New
    <3> HIDE DEF made
    <3>4. SafeDecision(made, source, version, pages)
      BY <3>2, <3>3 DEF SafeDecision, WholeReview
    <3> QED BY <3>4 DEF made
  <2>4. CASE ~many /\ containers # {}
    <3> DEFINE container == (CHOOSE p \in containers : TRUE).id
    <3>1. made = InContainer(source, version, override, container, pages)
      BY <2>1, <2>4 DEF Searched
    <3>2. (CHOOSE p \in containers : TRUE) \in containers
      BY <2>4
    <3>3. container # NoPage
      BY <3>2 DEF ChildPages
    <3> QED BY <3>1, <3>3, InContainerDecides
  <2> QED BY <2>2, <2>3, <2>4
<1> QED BY <1>1, <1>2

LEMMA FrozenIsWhole ==
  ASSUME NEW made, WholeReview(made)
  PROVE  WholeReview(Frozen(made))
<1>1. /\ Frozen(made).containerPolicy = made.containerPolicy
      /\ Frozen(made).container = made.container
      /\ Frozen(made).topicPolicy = made.topicPolicy /\ Frozen(made).topic = made.topic
  BY DEF Frozen
<1> QED BY <1>1 DEF WholeReview

-----------------------------------------------------------------------------
(* Steps that leave tables alone.                                          *)

\* Nothing is planned yet.
LEMMA PlanStarts == PlanInit => PlanInv
<1> SUFFICES ASSUME PlanInit PROVE PlanInv
  OBVIOUS
<1>1. \A d \in Drafts : drafts[d] = NoDraft /\ \A l \in Lineages : rows[d][l] = NoRow
  BY DEF PlanInit
<1>2. /\ Shaped /\ lessons = [l \in Lineages |-> lessons[l]]
      /\ \A l \in Lineages : lessons[l] = [v1 |-> lessons[l].v1, shots |-> lessons[l].shots,
                                           place |-> lessons[l].place]
  BY <1>1 DEF PlanInit, Shaped, IsDraft, IsRow
<1>3. PagesNamed
  BY PlanningAssumptions DEF PlanInit, PagesNamed
<1>4. \A d \in Drafts, l \in Lineages : RowHolds(d, l) /\ LiveHolds(d, l)
  BY <1>1 DEF RowHolds, LiveHolds, Live, NoRow
<1>5. \A l \in Lineages : IsNewest(l, Newest(l))
  <2> SUFFICES ASSUME NEW l \in Lineages PROVE IsNewest(l, Newest(l))
    OBVIOUS
  <2>1. PublishedVersions(l) = {}
    BY <1>1 DEF PublishedVersions, NoRow
  <2> QED BY <2>1 DEF IsNewest, Newest, Max
<1>6. \A d \in Drafts : PaidHolds(d)
  BY <1>1 DEF PaidHolds, NoDraft
<1>7. \A k \in Desks : DeskHolds(k)
  BY DEF PlanInit, DeskHolds, Idle, WithProof, Inserting, Launching
<1> QED BY <1>2, <1>3, <1>4, <1>5, <1>6, <1>7 DEF PlanInv

\* What is said of the rows holds as long as they and what it is held against do.
LEMMA TablesKept ==
  ASSUME PlanInv, UNCHANGED <<rows, drafts>>
  PROVE  /\ \A d \in Drafts, l \in Lineages : RowHolds(d, l)' /\ LiveHolds(d, l)'
         /\ \A l \in Lineages : IsNewest(l, Newest(l))'
         /\ \A d \in Drafts : PaidHolds(d)'
         /\ \A k \in Desks : desks'[k] = desks[k] => DeskHolds(k)'
<1>0. \A l : PublishedVersions(l)' = PublishedVersions(l) /\ Newest(l)' = Newest(l)
  BY DEF PublishedVersions, Newest
<1>1. \A d \in Drafts, l \in Lineages : RowHolds(d, l)'
  BY DEF PlanInv, RowHolds
<1>2. \A d \in Drafts, l \in Lineages : LiveHolds(d, l)'
  BY DEF PlanInv, LiveHolds, Live
<1>3. \A l \in Lineages : IsNewest(l, Newest(l))'
  BY <1>0 DEF PlanInv, IsNewest
<1>6. \A d, l : Stands(d, l)' <=> Stands(d, l)
  BY <1>0 DEF Stands, Live
<1>4. \A d \in Drafts : PaidHolds(d)'
  BY <1>6 DEF PlanInv, PaidHolds, RowsOf
<1>5. \A k \in Desks : desks'[k] = desks[k] => DeskHolds(k)'
  BY <1>6 DEF PlanInv, DeskHolds, RowsOf
<1> QED BY <1>1, <1>2, <1>3, <1>4, <1>5

LEMMA LessonsKept ==
  ASSUME PlanInv, UNCHANGED lessons
  PROVE  /\ PagesNamed' /\ lessons' = [l \in Lineages |-> lessons'[l]]
         /\ \A l \in Lineages : lessons'[l] = [v1 |-> lessons'[l].v1, shots |-> lessons'[l].shots,
                                               place |-> lessons'[l].place]
BY DEF PlanInv, PagesNamed

LEMMA DeskMoves ==
  ASSUME PlanInv, NEW k \in Desks, NEW desk, Turn(k, desk), DeskHolds(k)',
         UNCHANGED <<lessons, drafts, rows>>
  PROVE  PlanInv'
<1>1. /\ desks' = [j \in Desks |-> desks'[j]]
      /\ \A j \in Desks \ {k} : desks'[j] = desks[j]
  BY DEF PlanInv, Shaped, Turn
<1>2. \A j \in Desks : DeskHolds(j)'
  BY <1>1, TablesKept
<1>3. Shaped'
  BY <1>1 DEF PlanInv, Shaped
<1> QED BY <1>2, <1>3, TablesKept, LessonsKept DEF PlanInv

LEMMA TurnedTo ==
  ASSUME PlanInv, NEW k \in Desks, NEW desk, Turn(k, desk)
  PROVE  desks'[k] = desk
BY DEF PlanInv, Shaped, Turn

LEMMA CheckKeeps ==
  ASSUME PlanInv, NEW k \in Desks, NEW o \in Offers, Check(k, o)
  PROVE  PlanInv'
<1> DEFINE desk == [pc |-> "checking", offer |-> o, sources |-> Sources(o.lineages)]
<1>1. Turn(k, desk) /\ UNCHANGED <<lessons, drafts, rows>>
  BY DEF Check, Surroundings
<1>2. desks'[k] = desk
  BY <1>1, TurnedTo
<1>3. DeskHolds(k)'
  BY <1>2 DEF DeskHolds, WithProof, Inserting, Launching
<1> QED BY <1>1, <1>3, DeskMoves

LEMMA ShowKeeps ==
  ASSUME PlanInv, NEW k \in Desks, Show(k)
  PROVE  PlanInv'
<1> DEFINE desk == [pc |-> "reviewing", offer |-> desks[k].offer,
                    shown |-> Scan(desks[k].sources, desks[k].offer.version,
                                   desks[k].offer.overrides)]
<1>1. Turn(k, desk) /\ UNCHANGED <<lessons, drafts, rows>> /\ desks[k].pc = "checking"
  BY DEF Show, Surroundings, At
<1>2. desks'[k] = desk
  BY <1>1, TurnedTo
<1>3. desks[k].offer \in Offers
  BY <1>1 DEF PlanInv, DeskHolds
<1>4. DeskHolds(k)'
  BY <1>2, <1>3 DEF DeskHolds, WithProof, Inserting, Launching
<1> QED BY <1>1, <1>4, DeskMoves

LEMMA PrepareKeeps ==
  ASSUME PlanInv, NEW k \in Desks, Prepare(k)
  PROVE  PlanInv'
<1> DEFINE offer == desks[k].offer
           desk  == [pc |-> "prepared", offer |-> offer, shown |-> desks[k].shown,
                     sources |-> Sources(offer.lineages),
                     contract |-> ResolvedContract(offer.contract, fleet.defaults)]
<1>1. /\ Turn(k, desk) /\ UNCHANGED <<lessons, drafts, rows>>
      /\ desks[k].pc = "reviewing" /\ Plannable(offer.ask)
  BY DEF Prepare, Surroundings, At
<1>2. desks'[k] = desk
  BY <1>1, TurnedTo
<1>3. offer \in Offers
  BY <1>1 DEF PlanInv, DeskHolds
<1>4. DOMAIN Sources(offer.lineages) \subseteq Lineages
  BY <1>3, PlanningAssumptions DEF Sources
<1>5. DeskHolds(k)'
  BY <1>1, <1>2, <1>3, <1>4 DEF DeskHolds, WithProof, Inserting, Launching
<1> QED BY <1>1, <1>5, DeskMoves

LEMMA ScanSays ==
  ASSUME PlanInv, NEW sources, DOMAIN sources \subseteq Lineages, NEW version, NEW overrides
  PROVE  LET proof == Scan(sources, version, overrides) IN
         /\ DOMAIN proof = DOMAIN sources /\ Proofed(proof)
<1> DEFINE proof == Scan(sources, version, overrides)
<1>1. /\ DOMAIN proof = DOMAIN sources
      /\ \A l \in DOMAIN sources :
           proof[l] = Destined(sources[l], version, overrides[l], lessons[l].place.pages)
  BY DEF Scan
<1>2. ASSUME NEW l \in DOMAIN sources, Decided(proof[l])
      PROVE  WholeReview(Frozen(proof[l]))
  <2>1. \A p \in lessons[l].place.pages : p.id # NoPage
    BY DEF PlanInv, PagesNamed
  <2>2. WholeReview(proof[l])
    BY <1>1, <1>2, <2>1, DestinationsAreSafe DEF SafeDecision
  <2> QED BY <2>2, FrozenIsWhole
<1> QED BY <1>1, <1>2 DEF Proofed

LEMMA ProveKeeps ==
  ASSUME PlanInv, NEW k \in Desks, Prove(k)
  PROVE  PlanInv'
<1> DEFINE old   == desks[k]
           proof == Scan(old.sources, old.offer.version, old.offer.overrides)
           desk  == [pc |-> "proved", offer |-> old.offer, shown |-> old.shown,
                     sources |-> old.sources, contract |-> old.contract, proof |-> proof]
<1>1. Turn(k, desk) /\ UNCHANGED <<lessons, drafts, rows>> /\ old.pc = "prepared"
  BY DEF Prove, Surroundings, At
<1>2. desks'[k] = desk
  BY <1>1, TurnedTo
<1>3. /\ old.offer \in Offers /\ Plannable(old.offer.ask)
      /\ DOMAIN old.sources \subseteq Lineages
  BY <1>1 DEF PlanInv, DeskHolds
<1>4. DOMAIN proof = DOMAIN old.sources /\ Proofed(proof)
  BY <1>3, ScanSays
<1> HIDE DEF proof
<1>5. /\ desks'[k].pc = "proved" /\ desks'[k].offer = old.offer
      /\ desks'[k].sources = old.sources /\ desks'[k].proof = proof
      /\ DOMAIN desks'[k] = {"pc", "offer", "shown", "sources", "contract", "proof"}
  BY <1>2
<1>6. DeskHolds(k)'
  BY <1>3, <1>4, <1>5 DEF DeskHolds, Proofed, WithProof, Inserting, Launching
<1> QED BY <1>1, <1>6, DeskMoves

\* An insertion goes on with what it has proved.
LEMMA FurtherKeeps ==
  ASSUME PlanInv, NEW k \in Desks, desks[k].pc \in WithProof, NEW pc \in Inserting,
         AllDecided(desks[k].proof), desks[k].proof = desks[k].shown, Further(k, pc)
  PROVE  PlanInv'
<1> DEFINE old  == desks[k]
           desk == [old EXCEPT !.pc = pc]
<1>1. Turn(k, desk) /\ UNCHANGED <<lessons, drafts, rows>>
  BY DEF Further, Surroundings
<1>2. desks'[k] = desk
  BY <1>1, TurnedTo
<1>3. /\ old.offer \in Offers /\ Plannable(old.offer.ask)
      /\ DOMAIN old.sources \subseteq Lineages
      /\ DOMAIN old.proof = DOMAIN old.sources /\ Proofed(old.proof)
      /\ DOMAIN old = {"pc", "offer", "shown", "sources", "contract", "proof"}
  BY DEF PlanInv, DeskHolds, WithProof
<1>4. /\ DOMAIN desk = DOMAIN old /\ desk.pc = pc
      /\ \A x \in DOMAIN old \ {"pc"} : desk[x] = old[x]
  BY <1>3
<1> HIDE DEF desk
<1>5. /\ desk.offer = old.offer /\ desk.sources = old.sources
      /\ desk.proof = old.proof /\ desk.shown = old.shown
  BY <1>3, <1>4
<1>6. DeskHolds(k)'
  BY <1>2, <1>3, <1>4, <1>5 DEF DeskHolds, Proofed, AllDecided, WithProof, Inserting, Launching
<1> QED BY <1>1, <1>6, DeskMoves

LEMMA RelistKeeps ==
  ASSUME PlanInv, NEW k \in Desks, Relist(k)
  PROVE  PlanInv'
<1>1. /\ desks[k].pc = "proved" /\ AllDecided(desks[k].proof) /\ Further(k, "listed")
      /\ desks[k].proof = desks[k].shown
  BY DEF Relist, At, Digest
<1> QED BY <1>1, FurtherKeeps DEF WithProof, Inserting

LEMMA LooksKeep ==
  ASSUME PlanInv, NEW k \in Desks, Unclaimed(k) \/ Clear(k)
  PROVE  PlanInv'
<1>1. PICK pc \in Inserting : desks[k].pc \in Inserting /\ Further(k, pc)
  BY DEF Unclaimed, Clear, At, Inserting
<1>2. AllDecided(desks[k].proof) /\ desks[k].proof = desks[k].shown
  BY <1>1 DEF PlanInv, DeskHolds
<1> QED BY <1>1, <1>2, FurtherKeeps DEF WithProof

LEMMA ReloadKeeps ==
  ASSUME PlanInv, NEW k \in Desks, NEW d \in Drafts, Reload(k, d)
  PROVE  PlanInv'
<1> DEFINE sources == Sources(drafts[d].offer.lineages)
           desk    == [pc |-> "reloaded", draft |-> d, sources |-> sources]
<1>1. /\ Turn(k, desk) /\ UNCHANGED <<lessons, drafts, rows>> /\ drafts[d].made
      /\ Jobs(sources) = [l \in RowsOf(d) |-> rows[d][l].source]
      /\ Conflicts(sources, drafts[d].offer.version) = {}
  BY DEF Reload, Surroundings, Launchable, StillOf, Loadable
<1>0. \A l \in DOMAIN sources : sources[l].job = SourceJob(l)
  BY DEF Sources, SourceOf
<1> HIDE DEF sources
<1>2. desks'[k] = desk
  BY <1>1, TurnedTo
<1>3. DOMAIN sources = RowsOf(d)
  BY <1>1 DEF Jobs
<1>5. ASSUME NEW l \in Lineages PROVE Stands(d, l)
  <2> SUFFICES ASSUME Live(d, l)
               PROVE  /\ rows[d][l].source[1] = Newest(l) /\ Newest(l) < drafts[d].offer.version
                      /\ \A e \in Drafts \ {d} : rows[e][l].consumed # drafts[d].offer.version
    BY DEF Stands
  <2>1. l \in RowsOf(d) /\ l \in DOMAIN sources
    BY <1>3 DEF RowsOf, Live
  <2>2. rows[d][l].source = sources[l].job
    BY <1>1, <2>1 DEF Jobs
  <2>3. sources[l].job[1] = Newest(l)
    BY <1>0, <2>1 DEF SourceJob
  <2>4. /\ ~(sources[l].job[1] >= drafts[d].offer.version)
        /\ \A e \in Drafts : rows[e][l].consumed # drafts[d].offer.version
    BY <1>1, <2>1 DEF Conflicts
  <2>5. Newest(l) \in Nat
    BY DEF PlanInv, IsNewest
  <2>6. drafts[d].offer.version \in Nat
    <3>1. IsDraft(drafts[d])
      BY DEF PlanInv, Shaped
    <3> QED BY <1>1, <3>1, PlanningAssumptions DEF IsDraft, NoDraft
  <2> QED BY <2>2, <2>3, <2>4, <2>5, <2>6
<1>6. \A l \in Lineages : Stands(d, l)'
  <2>1. \A l : Newest(l)' = Newest(l)
    BY <1>1 DEF Newest, PublishedVersions
  <2> QED BY <1>1, <1>5, <2>1 DEF Stands, Live
<1>4. DeskHolds(k)'
  BY <1>1, <1>2, <1>3, <1>6 DEF DeskHolds, RowsOf, WithProof, Inserting, Launching
<1> QED BY <1>1, <1>4, DeskMoves

LEMMA ReproveKeeps ==
  ASSUME PlanInv, NEW k \in Desks, Reprove(k)
  PROVE  PlanInv'
<1>1. desks[k].pc = "reloaded"
  BY DEF Reprove, At
<1>2. PICK d \in Drafts : d = desks[k].draft
  BY <1>1 DEF PlanInv, DeskHolds, Launching
<1> DEFINE proof == Scan(desks[k].sources, drafts[d].offer.version, Recalled(d, desks[k].sources))
           desk  == [pc |-> "reproved", draft |-> d, proof |-> proof]
<1>3. /\ Turn(k, desk) /\ UNCHANGED <<lessons, drafts, rows>>
      /\ \A l \in DOMAIN proof : Frozen(proof[l]) = rows[d][l].decision
  BY <1>2 DEF Reprove, Surroundings
<1>4. desks'[k] = desk
  BY <1>3, TurnedTo
<1>5. /\ drafts[d].made /\ DOMAIN desks[k].sources = RowsOf(d)
      /\ \A l \in Lineages : Stands(d, l)
  BY <1>1, <1>2 DEF PlanInv, DeskHolds, Launching
<1>6. DOMAIN proof = RowsOf(d)
  BY <1>5 DEF Scan
<1> HIDE DEF proof
<1>7. desks'[k].pc = "reproved" /\ desks'[k].draft = d /\ desks'[k].proof = proof
  BY <1>4
<1>8. RowsOf(d)' = RowsOf(d) /\ drafts' = drafts /\ rows' = rows
  BY <1>3 DEF RowsOf
<1>10. \A l \in Lineages : Stands(d, l)'
  <2>1. \A l : Newest(l)' = Newest(l)
    BY <1>8 DEF Newest, PublishedVersions
  <2> QED BY <1>5, <1>8, <2>1 DEF Stands, Live
<1>9. DeskHolds(k)'
  BY <1>3, <1>5, <1>6, <1>7, <1>8, <1>10 DEF DeskHolds, WithProof, Inserting, Launching
<1> QED BY <1>3, <1>9, DeskMoves

LEMMA LeaveKeeps ==
  ASSUME PlanInv, NEW k \in Desks, Leave(k)
  PROVE  PlanInv'
<1>1. Turn(k, Idle) /\ UNCHANGED <<lessons, drafts, rows>>
  BY DEF Leave, Surroundings
<1>2. desks'[k] = Idle
  BY <1>1, TurnedTo
<1>3. DeskHolds(k)'
  BY <1>2 DEF DeskHolds, Idle, WithProof, Inserting, Launching
<1> QED BY <1>1, <1>3, DeskMoves

-----------------------------------------------------------------------------
(* Steps of the surroundings.                                              *)

LEMMA MoveKeeps ==
  ASSUME PlanInv, UNCHANGED <<drafts, rows, desks>>,
         PagesNamed', lessons' = [l \in Lineages |-> lessons'[l]],
         \A l \in Lineages : lessons'[l] = [v1 |-> lessons'[l].v1, shots |-> lessons'[l].shots,
                                            place |-> lessons'[l].place]
  PROVE  PlanInv'
<1>1. Shaped'
  BY DEF PlanInv, Shaped
<1> QED BY <1>1, TablesKept DEF PlanInv

LEMMA RenewKeeps ==
  ASSUME PlanInv, NEW l \in Lineages, Renew(l)
  PROVE  PlanInv'
<1>1. PICK s \in Snapshots : lessons' = [lessons EXCEPT ![l].v1 = @ + 1, ![l].shots = s]
  BY DEF Renew
<1>2. /\ \A m \in Lineages : lessons'[m] = IF m = l THEN [lessons[l] EXCEPT !.v1 = @ + 1, !.shots = s]
                                                    ELSE lessons[m]
      /\ lessons' = [m \in Lineages |-> lessons'[m]]
  BY <1>1 DEF PlanInv
<1>3. \A m \in Lineages :
        /\ lessons'[m] = [v1 |-> lessons'[m].v1, shots |-> lessons'[m].shots,
                          place |-> lessons'[m].place]
        /\ lessons'[m].place = lessons[m].place
  BY <1>2 DEF PlanInv
<1>4. PagesNamed'
  BY <1>3 DEF PlanInv, PagesNamed
<1>5. UNCHANGED <<drafts, rows, desks>>
  BY DEF Renew, Move
<1> QED BY <1>2, <1>3, <1>4, <1>5, MoveKeeps

LEMMA DisturbKeeps ==
  ASSUME PlanInv, NEW l \in Lineages, Disturb(l)
  PROVE  PlanInv'
<1>1. UNCHANGED <<drafts, rows, desks>>
  BY DEF Disturb, Move
<1>2. CASE \E s \in Snapshots : lessons' = [lessons EXCEPT ![l].shots = s]
  <2>1. PICK s \in Snapshots : lessons' = [lessons EXCEPT ![l].shots = s]
    BY <1>2
  <2>2. /\ \A m \in Lineages : lessons'[m] = IF m = l THEN [lessons[l] EXCEPT !.shots = s]
                                                      ELSE lessons[m]
        /\ lessons' = [m \in Lineages |-> lessons'[m]]
    BY <2>1 DEF PlanInv
  <2>3. \A m \in Lineages :
          /\ lessons'[m] = [v1 |-> lessons'[m].v1, shots |-> lessons'[m].shots,
                            place |-> lessons'[m].place]
          /\ lessons'[m].place = lessons[m].place
    BY <2>2 DEF PlanInv
  <2>4. PagesNamed'
    BY <2>3 DEF PlanInv, PagesNamed
  <2> QED BY <1>1, <2>2, <2>3, <2>4, MoveKeeps
<1>3. CASE \E p \in Places : lessons' = [lessons EXCEPT ![l].place = p]
  <2>1. PICK p \in Places : lessons' = [lessons EXCEPT ![l].place = p]
    BY <1>3
  <2>2. /\ \A m \in Lineages : lessons'[m] = IF m = l THEN [lessons[l] EXCEPT !.place = p]
                                                      ELSE lessons[m]
        /\ lessons' = [m \in Lineages |-> lessons'[m]]
    BY <2>1 DEF PlanInv
  <2>3. \A m \in Lineages :
          /\ lessons'[m] = [v1 |-> lessons'[m].v1, shots |-> lessons'[m].shots,
                            place |-> lessons'[m].place]
          /\ lessons'[m].place = IF m = l THEN p ELSE lessons[m].place
    BY <2>2 DEF PlanInv
  <2>4. PagesNamed'
    BY <2>3, PlanningAssumptions DEF PlanInv, PagesNamed
  <2> QED BY <1>1, <2>2, <2>3, <2>4, MoveKeeps
<1> QED BY <1>2, <1>3 DEF Disturb

LEMMA RefitKeeps ==
  ASSUME PlanInv, Refit
  PROVE  PlanInv'
<1>1. UNCHANGED <<lessons, drafts, rows, desks>>
  BY DEF Refit, Move
<1> QED BY <1>1, LessonsKept, MoveKeeps

-----------------------------------------------------------------------------
(* Steps that mark a campaign.                                             *)

SameDraft(e) ==
  /\ drafts'[e].made = drafts[e].made
  /\ drafts[e].made => /\ drafts'[e].offer = drafts[e].offer /\ drafts'[e].shown = drafts[e].shown
                       /\ drafts[e].approved => drafts'[e].approved

\* A mark leaves the standing of a live row alone.
LEMMA MarkStands ==
  ASSUME PlanInv, UNCHANGED rows, NEW e \in Drafts, SameDraft(e), NEW l \in Lineages, Stands(e, l)
  PROVE  Stands(e, l)'
<1>1. Newest(l)' = Newest(l)
  BY DEF Newest, PublishedVersions
<1>2. Live(e, l) => drafts[e].made
  BY DEF PlanInv, RowHolds, Live
<1> QED BY <1>1, <1>2 DEF Stands, Live, SameDraft

LEMMA MarkKeeps ==
  ASSUME PlanInv, UNCHANGED <<lessons, rows>>,
         desks' = [j \in Desks |-> desks'[j]],
         \A j \in Desks : desks'[j] = desks[j] \/ DeskHolds(j)',
         drafts' = [e \in Drafts |-> drafts'[e]],
         \A e \in Drafts : IsDraft(drafts'[e]) /\ SameDraft(e) /\ PaidHolds(e)'
  PROVE  PlanInv'
<1>1. Shaped'
  BY DEF PlanInv, Shaped
<1>2. \A l : PublishedVersions(l)' = PublishedVersions(l) /\ Newest(l)' = Newest(l)
  BY DEF PublishedVersions, Newest
<1>3. \A e \in Drafts, l \in Lineages : RowHolds(e, l)'
  BY DEF PlanInv, RowHolds, SameDraft
<1>4. \A e \in Drafts, l \in Lineages : LiveHolds(e, l)'
  BY DEF PlanInv, LiveHolds, Live
<1>5. \A l \in Lineages : IsNewest(l, Newest(l))'
  BY <1>2 DEF PlanInv, IsNewest
<1>6. \A j \in Desks : DeskHolds(j)'
  <2> SUFFICES ASSUME NEW j \in Desks, desks'[j] = desks[j] PROVE DeskHolds(j)'
    OBVIOUS
  <2>1. DeskHolds(j)
    BY DEF PlanInv
  <2>2. desks[j].pc \in Launching =>
          /\ drafts'[desks[j].draft].made
          /\ \A l \in Lineages : Stands(desks[j].draft, l)'
    BY <2>1, MarkStands DEF DeskHolds, SameDraft
  <2> QED BY <2>1, <2>2 DEF DeskHolds, RowsOf
<1> QED BY <1>1, <1>3, <1>4, <1>5, <1>6, LessonsKept DEF PlanInv

LEMMA AcceptKeeps ==
  ASSUME PlanInv, NEW d \in Drafts, Accept(d)
  PROVE  PlanInv'
<1>1. /\ drafts' = [drafts EXCEPT ![d].approved = TRUE] /\ UNCHANGED <<lessons, rows, desks>>
      /\ drafts[d].made /\ drafts[d].paid
  BY DEF Accept, Surroundings
<1>2. \A e \in Drafts : drafts'[e] = IF e = d THEN [drafts[d] EXCEPT !.approved = TRUE]
                                              ELSE drafts[e]
  BY <1>1 DEF PlanInv, Shaped
<1>3. drafts' = [e \in Drafts |-> drafts'[e]] /\ desks' = [j \in Desks |-> desks'[j]]
  BY <1>1 DEF PlanInv, Shaped
<1>4. IsDraft(drafts[d]) /\ drafts[d] # NoDraft
  BY <1>1 DEF PlanInv, Shaped, NoDraft
<1>5. /\ IsDraft(drafts'[d]) /\ SameDraft(d)
      /\ drafts'[d].paid = drafts[d].paid /\ drafts'[d].receipt = drafts[d].receipt
  <2>1. DOMAIN drafts[d] = DraftFields /\ drafts[d].made = TRUE /\ drafts[d].offer \in Offers
    BY <1>4 DEF IsDraft
  <2>2. /\ DOMAIN drafts'[d] = DraftFields
        /\ drafts'[d].approved = TRUE
        /\ \A x \in DraftFields \ {"approved"} : drafts'[d][x] = drafts[d][x]
    BY <1>2, <2>1 DEF DraftFields
  <2> QED BY <2>1, <2>2 DEF IsDraft, SameDraft, DraftFields
<1>6. \A e \in Drafts \ {d} : IsDraft(drafts'[e]) /\ SameDraft(e)
  BY <1>2 DEF PlanInv, Shaped, SameDraft
<1>7. \A e \in Drafts : PaidHolds(e)'
  <2> SUFFICES ASSUME NEW e \in Drafts, drafts[e].made PROVE PaidHolds(e)'
    BY <1>5, <1>6 DEF PaidHolds, SameDraft
  <2>1. PaidHolds(e) /\ drafts'[e].paid = drafts[e].paid /\ drafts'[e].receipt = drafts[e].receipt
    BY <1>2, <1>5 DEF PlanInv
  <2>2. drafts'[e].approved => drafts'[e].paid
    BY <1>1, <1>2, <2>1 DEF PaidHolds
  <2>3. drafts[e].paid => \A l \in Lineages : Stands(e, l)'
    BY <1>1, <1>5, <1>6, <2>1, MarkStands DEF PaidHolds
  <2> QED BY <1>1, <2>1, <2>2, <2>3 DEF PaidHolds, RowsOf
<1> QED BY <1>1, <1>3, <1>5, <1>6, <1>7, MarkKeeps

LEMMA CloseKeeps ==
  ASSUME PlanInv, NEW d \in Drafts, Close(d)
  PROVE  PlanInv'
<1>1. /\ drafts' = [drafts EXCEPT ![d].closed = TRUE] /\ UNCHANGED <<lessons, rows, desks>>
      /\ drafts[d].made
  BY DEF Close, Surroundings
<1>2. \A e \in Drafts : drafts'[e] = IF e = d THEN [drafts[d] EXCEPT !.closed = TRUE]
                                              ELSE drafts[e]
  BY <1>1 DEF PlanInv, Shaped
<1>3. drafts' = [e \in Drafts |-> drafts'[e]] /\ desks' = [j \in Desks |-> desks'[j]]
  BY <1>1 DEF PlanInv, Shaped
<1>4. IsDraft(drafts[d]) /\ drafts[d] # NoDraft
  BY <1>1 DEF PlanInv, Shaped, NoDraft
<1>5. /\ IsDraft(drafts'[d]) /\ SameDraft(d)
      /\ drafts'[d].paid = drafts[d].paid /\ drafts'[d].receipt = drafts[d].receipt
      /\ drafts'[d].approved = drafts[d].approved
  <2>1. DOMAIN drafts[d] = DraftFields /\ drafts[d].made = TRUE /\ drafts[d].offer \in Offers
    BY <1>4 DEF IsDraft
  <2>2. /\ DOMAIN drafts'[d] = DraftFields
        /\ \A x \in DraftFields \ {"closed"} : drafts'[d][x] = drafts[d][x]
    BY <1>2, <2>1
  <2> QED BY <2>1, <2>2 DEF IsDraft, SameDraft, DraftFields
<1>6. \A e \in Drafts \ {d} : IsDraft(drafts'[e]) /\ SameDraft(e)
  BY <1>2 DEF PlanInv, Shaped, SameDraft
<1>7. \A e \in Drafts : PaidHolds(e)'
  <2> SUFFICES ASSUME NEW e \in Drafts, drafts[e].made PROVE PaidHolds(e)'
    BY <1>5, <1>6 DEF PaidHolds, SameDraft
  <2>1. PaidHolds(e) /\ drafts'[e].paid = drafts[e].paid /\ drafts'[e].receipt = drafts[e].receipt
    BY <1>2, <1>5 DEF PlanInv
  <2>2. drafts'[e].approved => drafts'[e].paid
    BY <1>2, <1>5, <2>1 DEF PaidHolds
  <2>3. drafts[e].paid => \A l \in Lineages : Stands(e, l)'
    BY <1>1, <1>5, <1>6, <2>1, MarkStands DEF PaidHolds
  <2> QED BY <1>1, <2>1, <2>2, <2>3 DEF PaidHolds, RowsOf
<1> QED BY <1>1, <1>3, <1>5, <1>6, <1>7, MarkKeeps

\* A launch leaves a claimer behind, by GateIsTheCheck.
LEMMA SomebodyClaims ==
  ASSUME NEW c, Acceptance(c), Executable(c, fleet.workers, fleet.paused)
  PROVE  Claimers(c) # {}
<1>1. PICK w \in fleet.workers : CanExecute(c, w, fleet.paused)
  BY DEF Executable
<1>2. Concrete(c)
  BY DEF Acceptance
<1>3. w.online /\ w.status = "online" /\ ClaimGate(c, w.keys, fleet.paused)
  BY <1>1, <1>2, GateIsTheCheck
<1> QED BY <1>3 DEF Claimers

LEMMA PayKeeps ==
  ASSUME PlanInv, NEW k \in Desks, Pay(k)
  PROVE  PlanInv'
<1>1. desks[k].pc = "reproved"
  BY DEF Pay, At
<1>2. PICK d \in Drafts : d = desks[k].draft
  BY <1>1 DEF PlanInv, DeskHolds, Launching
<1> DEFINE receipt == [proof |-> desks[k].proof, claimers |-> Claimers(drafts[d].contract)]
<1>3. /\ drafts' = [drafts EXCEPT ![d].paid = TRUE, ![d].receipt = receipt]
      /\ Turn(k, Idle) /\ UNCHANGED <<lessons, rows>>
      /\ drafts[d].made /\ Launchable(d)
  BY <1>2 DEF Pay, Surroundings, Launchable
<1>4. /\ desks'[k] = Idle /\ desks' = [j \in Desks |-> desks'[j]]
      /\ \A j \in Desks \ {k} : desks'[j] = desks[j]
  BY <1>3 DEF PlanInv, Shaped, Turn
<1>5. DeskHolds(k)'
  BY <1>4 DEF DeskHolds, Idle, WithProof, Inserting, Launching
<1>6. /\ \A e \in Drafts : drafts'[e] = IF e = d
                             THEN [drafts[d] EXCEPT !.paid = TRUE, !.receipt = receipt]
                             ELSE drafts[e]
      /\ drafts' = [e \in Drafts |-> drafts'[e]]
  BY <1>3 DEF PlanInv, Shaped
<1>7. IsDraft(drafts[d]) /\ drafts[d] # NoDraft
  BY <1>3 DEF PlanInv, Shaped, NoDraft
<1>8. IsDraft(drafts'[d]) /\ SameDraft(d) /\ drafts'[d].receipt = receipt /\ drafts'[d].paid = TRUE
  <2> HIDE DEF receipt
  <2>1. DOMAIN drafts[d] = DraftFields /\ drafts[d].made = TRUE /\ drafts[d].offer \in Offers
    BY <1>7 DEF IsDraft
  <2>2. /\ DOMAIN drafts'[d] = DraftFields /\ drafts'[d].receipt = receipt /\ drafts'[d].paid = TRUE
        /\ \A x \in DraftFields \ {"paid", "receipt"} : drafts'[d][x] = drafts[d][x]
    BY <1>6, <2>1 DEF DraftFields
  <2> QED BY <2>1, <2>2 DEF IsDraft, SameDraft, DraftFields
<1>9. \A e \in Drafts \ {d} : IsDraft(drafts'[e]) /\ SameDraft(e)
  BY <1>6 DEF PlanInv, Shaped, SameDraft
<1>10. receipt.claimers # {}
  BY <1>3, SomebodyClaims DEF Launchable
<1>11. /\ \A l \in RowsOf(d) : rows[d][l].decision = Frozen(receipt.proof[l])
       /\ \A l \in Lineages : Stands(d, l)
  BY <1>1, <1>2 DEF PlanInv, DeskHolds, Launching
<1> HIDE DEF receipt
<1>14. \A l \in Lineages : Stands(d, l)'
  BY <1>3, <1>8, <1>11, MarkStands
<1>12. PaidHolds(d)'
  BY <1>3, <1>8, <1>10, <1>11, <1>14 DEF PaidHolds, RowsOf
<1>13. \A e \in Drafts \ {d} : PaidHolds(e)'
  <2> SUFFICES ASSUME NEW e \in Drafts \ {d} PROVE PaidHolds(e)'
    OBVIOUS
  <2>1. PaidHolds(e) /\ drafts'[e] = drafts[e]
    BY <1>6 DEF PlanInv
  <2>2. \A l \in Lineages : Stands(e, l) => Stands(e, l)'
    BY <1>3, <1>9, MarkStands
  <2> QED BY <1>3, <2>1, <2>2 DEF PaidHolds, RowsOf
<1> QED BY <1>3, <1>4, <1>5, <1>6, <1>8, <1>9, <1>12, <1>13, MarkKeeps

-----------------------------------------------------------------------------
(* Steps that write a row.                                                 *)

\* A maximum is one.
LEMMA MaxSays ==
  ASSUME NEW S, NEW v \in S, v \in Nat, \A w \in S : w \in Nat /\ w <= v
  PROVE  Max(S) = v
<1>1. \A w \in S : v >= w
  OBVIOUS
<1>2. Max(S) \in S /\ \A w \in S : Max(S) >= w
  BY <1>1 DEF Max
<1>3. Max(S) \in Nat /\ Max(S) <= v /\ Max(S) >= v
  BY <1>2
<1> QED BY <1>3

LEMMA WriteKeeps ==
  ASSUME PlanInv, NEW d \in Drafts, NEW l \in Lineages, Live(d, l),
         UNCHANGED <<lessons, drafts, desks>>,
         rows' = [e \in Drafts |-> rows'[e]],
         \A e \in Drafts : rows'[e] = [m \in Lineages |-> rows'[e][m]],
         \A e \in Drafts, m \in Lineages : (e # d \/ m # l) => rows'[e][m] = rows[e][m],
         IsRow(rows'[d][l]), rows'[d][l].status # "none",
         rows'[d][l].consumed \in {0, drafts[d].offer.version},
         rows'[d][l].consumed # 0 => drafts[d].approved,
         rows'[d][l].status = "published" => rows'[d][l].consumed = drafts[d].offer.version,
         rows'[d][l].source = rows[d][l].source, rows'[d][l].plan = rows[d][l].plan,
         rows'[d][l].decision = rows[d][l].decision
  PROVE  PlanInv'
<1>1. /\ RowHolds(d, l) /\ LiveHolds(d, l) /\ rows[d][l].status = "planned" /\ drafts[d].made
      /\ drafts[d].offer \in Offers
  BY DEF PlanInv, RowHolds, Live, Shaped, IsDraft, NoDraft
<1>2. Shaped'
  BY DEF PlanInv, Shaped
<1>3. \A e \in Drafts : RowsOf(e)' = RowsOf(e)
  BY <1>1 DEF RowsOf
<1>4. \A e \in Drafts, m \in Lineages : rows'[e][m].decision = rows[e][m].decision
  OBVIOUS
<1>5. \A e \in Drafts, m \in Lineages : RowHolds(e, m)'
  <2> SUFFICES ASSUME NEW e \in Drafts, NEW m \in Lineages PROVE RowHolds(e, m)'
    OBVIOUS
  <2>1. CASE e = d /\ m = l
    BY <1>1, <2>1 DEF RowHolds
  <2>2. CASE e # d \/ m # l
    BY <2>2 DEF PlanInv, RowHolds
  <2> QED BY <2>1, <2>2
<1>8. \A e \in Drafts \ {d} : rows'[e][l] = rows[e][l] /\ ~Live(e, l) /\ ~Live(e, l)'
  BY <1>1 DEF LiveHolds, Live
<1>9. \A m \in Lineages \ {l} : Newest(m)' = Newest(m) /\ PublishedVersions(m)' = PublishedVersions(m)
  <2>1. \A m \in Lineages \ {l} : PublishedVersions(m)' = PublishedVersions(m)
    BY DEF PublishedVersions
  <2> QED BY <2>1 DEF Newest
<1>10. rows'[d][l].status # "published" => Newest(l)' = Newest(l) /\ PublishedVersions(l)' = PublishedVersions(l)
  <2> SUFFICES ASSUME rows'[d][l].status # "published"
               PROVE  Newest(l)' = Newest(l) /\ PublishedVersions(l)' = PublishedVersions(l)
    OBVIOUS
  <2>1. PublishedVersions(l)' = PublishedVersions(l)
    BY <1>1, <1>8 DEF PublishedVersions
  <2> QED BY <2>1 DEF Newest
<1>15. \A e \in Drafts, m \in Lineages : Stands(e, m) => Stands(e, m)'
  <2> SUFFICES ASSUME NEW e \in Drafts, NEW m \in Lineages, Stands(e, m), Live(e, m)'
               PROVE  /\ Live(e, m) /\ rows'[e][m].source = rows[e][m].source
                      /\ Newest(m)' = Newest(m)
                      /\ \A f \in Drafts \ {e} : rows'[f][m] = rows[f][m]
    BY DEF Stands
  <2>1. CASE m # l
    BY <1>9, <2>1 DEF Live
  <2>2. CASE m = l
    <3>1. e = d /\ rows'[d][l].status # "published"
      BY <1>8, <2>2 DEF Live
    <3> QED BY <1>10, <2>2, <3>1
  <2> QED BY <2>1, <2>2
<1>6. \A e \in Drafts : PaidHolds(e)'
  <2> SUFFICES ASSUME NEW e \in Drafts PROVE PaidHolds(e)'
    OBVIOUS
  <2>1. PaidHolds(e) /\ RowsOf(e)' = RowsOf(e) /\ RowsOf(e) \subseteq Lineages
    BY <1>3 DEF PlanInv, RowsOf
  <2>2. drafts[e].made /\ drafts[e].paid => \A m \in Lineages : Stands(e, m)'
    BY <1>15, <2>1 DEF PaidHolds
  <2> QED BY <1>4, <2>1, <2>2 DEF PaidHolds
<1>7. \A k \in Desks : DeskHolds(k)'
  <2> SUFFICES ASSUME NEW k \in Desks PROVE DeskHolds(k)'
    OBVIOUS
  <2>1. DeskHolds(k) /\ desks'[k] = desks[k] /\ drafts' = drafts
    BY DEF PlanInv
  <2>2. CASE desks[k].pc \in Launching
    <3>1. PICK e \in Drafts : e = desks[k].draft
      BY <2>1, <2>2 DEF DeskHolds
    <3>2. RowsOf(e)' = RowsOf(e) /\ RowsOf(e) \subseteq Lineages
      BY <1>3 DEF RowsOf
    <3>3. /\ desks'[k].draft = e /\ drafts'[e].made
          /\ \A m \in Lineages : Stands(e, m)'
      BY <1>15, <2>1, <2>2, <3>1 DEF DeskHolds
    <3>4. CASE desks[k].pc = "reloaded"
      <4>1. DOMAIN desks'[k].sources = RowsOf(e)'
        BY <2>1, <3>1, <3>2, <3>4 DEF DeskHolds
      <4> QED BY <2>1, <3>3, <3>4, <4>1 DEF DeskHolds, WithProof, Inserting, Launching
    <3>5. CASE desks[k].pc = "reproved"
      <4>1. DOMAIN desks'[k].proof = RowsOf(e)'
        BY <2>1, <3>1, <3>2, <3>5 DEF DeskHolds
      <4>2. \A m \in RowsOf(e) : Frozen(desks[k].proof[m]) = rows[e][m].decision
        BY <2>1, <3>1, <3>5 DEF DeskHolds
      <4>3. \A m \in RowsOf(e)' : Frozen(desks'[k].proof[m]) = rows'[e][m].decision
        BY <1>4, <2>1, <3>2, <4>2
      <4> QED BY <2>1, <3>3, <3>5, <4>1, <4>3 DEF DeskHolds, WithProof, Inserting, Launching
    <3> QED BY <2>2, <3>4, <3>5 DEF Launching
  <2>3. CASE desks[k].pc \notin Launching
    BY <2>1, <2>3 DEF DeskHolds, Launching
  <2> QED BY <2>2, <2>3
<1>11. IsNewest(l, Newest(l)) /\ \A m \in Lineages : IsNewest(m, Newest(m))
  BY DEF PlanInv
<1>12. IsNewest(l, Newest(l))'
  <2>1. CASE rows'[d][l].status # "published"
    BY <1>10, <1>11, <2>1 DEF IsNewest
  <2>2. CASE rows'[d][l].status = "published"
    <3> DEFINE v == drafts[d].offer.version
    <3>0. v \in Nat /\ v >= 2 /\ drafts[d].approved
      BY <1>1, <2>2, PlanningAssumptions
    <3>7. Stands(d, l)
      BY <1>1, <3>0 DEF PlanInv, PaidHolds
    <3>1. v \in Nat /\ Newest(l) < v /\ Newest(l) \in Nat
      BY <1>11, <3>0, <3>7 DEF Stands, IsNewest
    <3>2. PublishedVersions(l)' = PublishedVersions(l) \cup {v}
      BY <1>1, <1>8, <2>2 DEF PublishedVersions
    <3>3. \A w \in PublishedVersions(l) \cup {1} : w <= Newest(l)
      BY <1>11 DEF IsNewest
    <3>4. \A w \in PublishedVersions(l) \cup {1} : w \in Nat
      <4> SUFFICES ASSUME NEW w \in PublishedVersions(l) PROVE w \in Nat
        OBVIOUS
      <4>1. PICK e \in Drafts : rows[e][l].status = "published" /\ w = rows[e][l].consumed
        BY DEF PublishedVersions
      <4>2. RowHolds(e, l) /\ drafts[e].made /\ IsDraft(drafts[e])
        BY <4>1 DEF PlanInv, RowHolds, Shaped
      <4>3. w = drafts[e].offer.version /\ drafts[e].offer \in Offers
        BY <4>1, <4>2 DEF RowHolds, IsDraft, NoDraft
      <4> QED BY <4>3, PlanningAssumptions
    <3> HIDE DEF v
    <3>5. \A w \in PublishedVersions(l)' \cup {1} : w \in Nat /\ w <= v
      BY <3>1, <3>2, <3>3, <3>4
    <3>6. Newest(l)' = v
      <4>1. Newest(l)' = Max(PublishedVersions(l)' \cup {1})
        BY DEF Newest
      <4> QED BY <3>1, <3>2, <3>5, <4>1, MaxSays
    <3> QED BY <3>1, <3>2, <3>5, <3>6 DEF IsNewest
  <2> QED BY <2>1, <2>2
<1>13. \A m \in Lineages : IsNewest(m, Newest(m))'
  BY <1>9, <1>11, <1>12 DEF IsNewest
<1>14. \A e \in Drafts, m \in Lineages : LiveHolds(e, m)'
  <2> SUFFICES ASSUME NEW e \in Drafts, NEW m \in Lineages, Live(e, m)' PROVE LiveHolds(e, m)'
    BY DEF LiveHolds
  <2>1. CASE m # l
    <3>1. LiveHolds(e, m) /\ \A f \in Drafts : rows'[f][m] = rows[f][m]
      BY <2>1 DEF PlanInv
    <3> QED BY <2>1, <3>1 DEF LiveHolds, Live
  <2>2. CASE m = l
    <3>1. e = d
      BY <1>8, <2>2 DEF Live
    <3> QED BY <1>8, <2>2, <3>1 DEF LiveHolds
  <2> QED BY <2>1, <2>2
<1> QED BY <1>2, <1>5, <1>6, <1>7, <1>13, <1>14, LessonsKept DEF PlanInv

LEMMA ReserveKeeps ==
  ASSUME PlanInv, NEW d \in Drafts, NEW l \in Lineages, Reserve(d, l)
  PROVE  PlanInv'
<1> DEFINE v == drafts[d].offer.version
           r == [rows[d][l] EXCEPT !.consumed = v]
<1>1. rows' = [rows EXCEPT ![d][l].consumed = v]
  BY DEF Reserve
<1>0. Live(d, l) /\ drafts[d].approved /\ UNCHANGED <<lessons, drafts, desks>>
  BY DEF Reserve, Surroundings
<1>2. /\ rows' = [e \in Drafts |-> rows'[e]]
      /\ \A e \in Drafts : rows'[e] = [m \in Lineages |-> rows'[e][m]]
      /\ \A e \in Drafts, m \in Lineages :
           rows'[e][m] = IF e = d /\ m = l THEN r ELSE rows[e][m]
  BY <1>1 DEF PlanInv, Shaped
<1>3. DOMAIN rows[d][l] = RowFields /\ rows[d][l].status = "planned"
  BY <1>0 DEF PlanInv, Shaped, IsRow, Live, NoRow
<1>4. /\ DOMAIN r = RowFields /\ r.consumed = v
      /\ \A x \in RowFields \ {"consumed"} : r[x] = rows[d][l][x]
  BY <1>3 DEF RowFields
<1> HIDE DEF r
<1>5. /\ IsRow(r) /\ r.status = "planned" /\ r.source = rows[d][l].source
      /\ r.plan = rows[d][l].plan /\ r.decision = rows[d][l].decision
  BY <1>3, <1>4 DEF IsRow, RowFields, RowStatuses
<1>6. /\ rows'[d][l] = r
      /\ \A e \in Drafts, m \in Lineages : (e # d \/ m # l) => rows'[e][m] = rows[e][m]
  BY <1>2
<1>7. r.status # "none" /\ r.status # "published" /\ r.consumed \in {0, v}
  BY <1>4, <1>5
<1> QED BY <1>0, <1>2, <1>5, <1>6, <1>7, WriteKeeps

LEMMA ConcludeKeeps ==
  ASSUME PlanInv, NEW d \in Drafts, NEW l \in Lineages, Conclude(d, l)
  PROVE  PlanInv'
<1>1. PICK s \in {"published", "abandoned"} :
        /\ rows' = [rows EXCEPT ![d][l].status = s]
        /\ s = "published" => rows[d][l].consumed # 0
  BY DEF Conclude
<1> DEFINE r == [rows[d][l] EXCEPT !.status = s]
<1>2. Live(d, l) /\ UNCHANGED <<lessons, drafts, desks>>
  BY DEF Conclude, Surroundings
<1>3. /\ rows' = [e \in Drafts |-> rows'[e]]
      /\ \A e \in Drafts : rows'[e] = [m \in Lineages |-> rows'[e][m]]
      /\ \A e \in Drafts, m \in Lineages :
           rows'[e][m] = IF e = d /\ m = l THEN r ELSE rows[e][m]
  BY <1>1 DEF PlanInv, Shaped
<1>4. /\ DOMAIN rows[d][l] = RowFields
      /\ rows[d][l].consumed \in {0, drafts[d].offer.version}
      /\ rows[d][l].consumed # 0 => drafts[d].approved
  BY <1>2 DEF PlanInv, Shaped, IsRow, Live, NoRow, RowHolds
<1>5. /\ DOMAIN r = RowFields /\ r.status = s
      /\ \A x \in RowFields \ {"status"} : r[x] = rows[d][l][x]
  BY <1>4 DEF RowFields
<1> HIDE DEF r
<1>6. /\ IsRow(r) /\ r.status # "none" /\ r.source = rows[d][l].source
      /\ r.plan = rows[d][l].plan /\ r.decision = rows[d][l].decision
      /\ r.consumed = rows[d][l].consumed
  BY <1>5 DEF IsRow, RowFields, RowStatuses
<1>7. /\ rows'[d][l] = r
      /\ \A e \in Drafts, m \in Lineages : (e # d \/ m # l) => rows'[e][m] = rows[e][m]
  BY <1>3
<1>8. /\ r.consumed \in {0, drafts[d].offer.version}
      /\ r.consumed # 0 => drafts[d].approved
      /\ r.status = "published" => r.consumed = drafts[d].offer.version
  BY <1>1, <1>4, <1>5, <1>6
<1> QED BY <1>2, <1>3, <1>6, <1>7, <1>8, WriteKeeps

-----------------------------------------------------------------------------
(* The step that makes a campaign.                                         *)

\* What the desk has proved, and the index enforces.
LEMMA InsertSees ==
  ASSUME PlanInv, NEW k \in Desks, NEW d \in Drafts, Insert(k, d)
  PROVE  LET desk == desks[k] IN
         /\ ~drafts[d].made /\ \A l \in Lineages : rows[d][l] = NoRow
         /\ desk.offer \in Offers
         /\ Readable(Plan(desk.offer.ask))
         /\ Plan(desk.offer.ask).broken = {} \/ desk.offer.ask.acknowledged
         /\ desk.proof = desk.shown
         /\ \A l \in DOMAIN desk.sources :
              /\ l \in Lineages /\ WholeReview(Frozen(desk.proof[l]))
              /\ \A e \in Drafts : ~Live(e, l)
<1> DEFINE desk  == desks[k]
           offer == desk.offer
<1>1. desk.pc = "clear" /\ ~drafts[d].made /\ ~Active(DOMAIN desk.sources)
  BY DEF Insert, At, Fresh
<1>2. /\ offer \in Offers /\ Plannable(offer.ask) /\ DOMAIN desk.sources \subseteq Lineages
      /\ DOMAIN desk.proof = DOMAIN desk.sources /\ Proofed(desk.proof)
      /\ AllDecided(desk.proof) /\ desk.proof = desk.shown
  BY <1>1 DEF PlanInv, DeskHolds, WithProof, Inserting
<1>3. offer.ask \in PhaseAsks
  BY <1>2, PlanningAssumptions
<1>4. \A l \in Lineages : rows[d][l] = NoRow
  BY <1>1 DEF PlanInv, Shaped, RowHolds, IsRow, RowStatuses
<1>5. /\ Readable(Plan(offer.ask))
      /\ Plan(offer.ask).broken = {} \/ offer.ask.acknowledged
  BY <1>2, <1>3, PlansReadBack DEF Plannable, Plan
<1>6. ASSUME NEW l \in DOMAIN desk.sources
      PROVE  /\ l \in Lineages /\ WholeReview(Frozen(desk.proof[l]))
             /\ \A e \in Drafts : ~Live(e, l)
  BY <1>1, <1>2 DEF Proofed, AllDecided, Active
<1> QED BY <1>1, <1>2, <1>4, <1>5, <1>6

LEMMA InsertKeeps ==
  ASSUME PlanInv, NEW k \in Desks, NEW d \in Drafts, Insert(k, d)
  PROVE  PlanInv'
<1> DEFINE desk  == desks[k]
           offer == desk.offer
           ls    == DOMAIN desk.sources
           made  == [made |-> TRUE, offer |-> offer, contract |-> desk.contract, paid |-> FALSE,
                     approved |-> FALSE, closed |-> FALSE, shown |-> desk.shown,
                     receipt |-> [proof |-> <<>>, claimers |-> {}]]
           row(l) == [status |-> "planned", consumed |-> 0, source |-> desk.sources[l].job,
                      plan |-> Plan(offer.ask), decision |-> Frozen(desk.proof[l])]
<1>1. /\ drafts' = [drafts EXCEPT ![d] = made]
      /\ rows' = [rows EXCEPT ![d] = [l \in Lineages |-> IF l \in ls THEN row(l) ELSE NoRow]]
      /\ Turn(k, Idle) /\ UNCHANGED lessons
  BY DEF Insert, Surroundings
<1>2. /\ ~drafts[d].made /\ \A l \in Lineages : rows[d][l] = NoRow
      /\ offer \in Offers
      /\ Readable(Plan(offer.ask)) /\ (Plan(offer.ask).broken = {} \/ offer.ask.acknowledged)
      /\ desk.proof = desk.shown
      /\ \A l \in ls :
           /\ l \in Lineages /\ WholeReview(Frozen(desk.proof[l]))
           /\ \A e \in Drafts : ~Live(e, l)
  BY InsertSees
<1>3. /\ drafts' = [e \in Drafts |-> drafts'[e]]
      /\ \A e \in Drafts : drafts'[e] = IF e = d THEN made ELSE drafts[e]
      /\ rows' = [e \in Drafts |-> rows'[e]]
      /\ \A e \in Drafts : rows'[e] = [l \in Lineages |-> rows'[e][l]]
      /\ \A e \in Drafts \ {d} : rows'[e] = rows[e]
      /\ \A l \in Lineages : rows'[d][l] = IF l \in ls THEN row(l) ELSE NoRow
      /\ desks' = [j \in Desks |-> desks'[j]]
      /\ desks'[k] = Idle /\ \A j \in Desks \ {k} : desks'[j] = desks[j]
  BY <1>1 DEF PlanInv, Shaped, Turn
<1>4. /\ DOMAIN made = DraftFields /\ made.made = TRUE /\ made.offer = offer
      /\ made.paid = FALSE /\ made.approved = FALSE /\ made.shown = desk.shown
  BY DEF DraftFields
<1>5. \A l \in ls :
        /\ DOMAIN row(l) = RowFields /\ row(l).status = "planned" /\ row(l).consumed = 0
        /\ row(l).source = desk.sources[l].job /\ row(l).plan = Plan(offer.ask)
        /\ row(l).decision = Frozen(desk.proof[l])
  BY DEF RowFields
<1> HIDE DEF made, row
<1>6. Shaped'
  <2>1. IsDraft(made)
    BY <1>2, <1>4 DEF IsDraft
  <2>2. \A l \in ls : IsRow(row(l))
    BY <1>5 DEF IsRow, RowStatuses
  <2>3. \A e \in Drafts : IsDraft(drafts'[e])
    BY <1>3, <2>1 DEF PlanInv, Shaped
  <2>4. \A e \in Drafts, l \in Lineages : IsRow(rows'[e][l])
    BY <1>3, <2>2 DEF PlanInv, Shaped, IsRow
  <2> QED BY <1>3, <2>3, <2>4 DEF Shaped
<1>7. \A e \in Drafts, l \in Lineages : RowHolds(e, l)'
  <2> SUFFICES ASSUME NEW e \in Drafts, NEW l \in Lineages PROVE RowHolds(e, l)'
    OBVIOUS
  <2>1. CASE e = d /\ l \in ls
    BY <1>2, <1>3, <1>4, <1>5, <2>1 DEF RowHolds
  <2>2. CASE e = d /\ l \notin ls
    BY <1>3, <2>2 DEF RowHolds, NoRow
  <2>3. CASE e # d
    BY <1>3, <2>3 DEF PlanInv, RowHolds
  <2> QED BY <2>1, <2>2, <2>3
<1>8. \A l \in Lineages : PublishedVersions(l)' = PublishedVersions(l) /\ Newest(l)' = Newest(l)
  <2> SUFFICES ASSUME NEW l \in Lineages
               PROVE  PublishedVersions(l)' = PublishedVersions(l) /\ Newest(l)' = Newest(l)
    OBVIOUS
  <2>1. /\ rows[d][l].status # "published" /\ rows'[d][l].status # "published"
        /\ \A e \in Drafts \ {d} : rows'[e][l] = rows[e][l]
    BY <1>2, <1>3, <1>5 DEF NoRow
  <2>2. PublishedVersions(l)' = PublishedVersions(l)
    BY <2>1 DEF PublishedVersions
  <2> QED BY <2>2 DEF Newest
<1>9. \A l \in Lineages : IsNewest(l, Newest(l))'
  BY <1>8 DEF PlanInv, IsNewest
<1>10. \A e \in Drafts, l \in Lineages : LiveHolds(e, l)'
  <2> SUFFICES ASSUME NEW e \in Drafts, NEW l \in Lineages, Live(e, l)',
                      NEW f \in Drafts \ {e}, Live(f, l)'
               PROVE  FALSE
    BY DEF LiveHolds
  <2>1. \A g \in Drafts \ {d} : Live(g, l)' => Live(g, l)
    BY <1>3 DEF Live
  <2>2. Live(d, l)' => l \in ls
    BY <1>3 DEF Live, NoRow
  <2>3. e # d /\ f # d
    BY <1>2, <2>1, <2>2
  <2> QED BY <2>1, <2>3 DEF PlanInv, LiveHolds
<1>14. \A e \in Drafts \ {d}, l \in Lineages : Stands(e, l) => Stands(e, l)'
  <2> SUFFICES ASSUME NEW e \in Drafts \ {d}, NEW l \in Lineages, Stands(e, l), Live(e, l)'
               PROVE  /\ Live(e, l) /\ Newest(l)' = Newest(l)
                      /\ rows'[e] = rows[e] /\ drafts'[e] = drafts[e]
                      /\ \A f \in Drafts \ {e} : rows'[f][l].consumed = rows[f][l].consumed
    BY DEF Stands
  <2>1. Live(e, l) /\ rows'[e] = rows[e] /\ drafts'[e] = drafts[e]
    BY <1>3 DEF Live
  <2>2. rows'[d][l] = NoRow
    BY <1>2, <1>3, <2>1
  <2>3. \A f \in Drafts \ {e} : rows'[f][l] = rows[f][l]
    BY <1>2, <1>3, <2>2
  <2> QED BY <1>8, <2>1, <2>3
<1>11. \A e \in Drafts \ {d} : RowsOf(e)' = RowsOf(e)
  BY <1>3 DEF RowsOf
<1>12. \A e \in Drafts : PaidHolds(e)'
  <2>1. PaidHolds(d)'
    BY <1>3, <1>4 DEF PaidHolds
  <2>2. ASSUME NEW e \in Drafts \ {d} PROVE PaidHolds(e)'
    <3>1. PaidHolds(e) /\ drafts'[e] = drafts[e] /\ rows'[e] = rows[e] /\ RowsOf(e)' = RowsOf(e)
      BY <1>3, <1>11 DEF PlanInv
    <3>2. drafts[e].made /\ drafts[e].paid => \A l \in Lineages : Stands(e, l)'
      BY <1>14, <3>1 DEF PaidHolds
    <3> QED BY <3>1, <3>2 DEF PaidHolds
  <2> QED BY <2>1, <2>2
<1>13. \A j \in Desks : DeskHolds(j)'
  <2>1. DeskHolds(k)'
    BY <1>3 DEF DeskHolds, Idle, WithProof, Inserting, Launching
  <2>2. ASSUME NEW j \in Desks \ {k} PROVE DeskHolds(j)'
    <3>1. DeskHolds(j) /\ desks'[j] = desks[j]
      BY <1>3 DEF PlanInv
    <3>2. CASE desks[j].pc \in Launching
      <4>1. PICK e \in Drafts : e = desks[j].draft /\ drafts[e].made
        BY <3>1, <3>2 DEF DeskHolds
      <4>2. e # d
        BY <1>2, <4>1
      <4>3. RowsOf(e)' = RowsOf(e) /\ drafts'[e] = drafts[e] /\ rows'[e] = rows[e]
        BY <1>3, <1>11, <4>2
      <4>4. \A l \in Lineages : Stands(e, l)'
        BY <1>14, <3>1, <3>2, <4>1, <4>2 DEF DeskHolds
      <4> QED BY <3>1, <3>2, <4>1, <4>3, <4>4 DEF DeskHolds, WithProof, Inserting, Launching
    <3>3. CASE desks[j].pc \notin Launching
      BY <3>1, <3>3 DEF DeskHolds, Launching
    <3> QED BY <3>2, <3>3
  <2> QED BY <2>1, <2>2
<1> QED BY <1>1, <1>6, <1>7, <1>9, <1>10, <1>12, <1>13, LessonsKept DEF PlanInv

-----------------------------------------------------------------------------
(* The planning of campaigns.                                              *)

LEMMA PlanSteps == ASSUME PlanInv, [PlanNext]_planVars PROVE PlanInv'
<1>1. CASE UNCHANGED planVars
  <2>1. UNCHANGED <<lessons, drafts, rows, desks>>
    BY <1>1 DEF planVars
  <2> QED BY <2>1, LessonsKept, MoveKeeps
<1>2. ASSUME NEW k \in Desks,
             \/ Show(k) \/ Prepare(k) \/ Prove(k) \/ Relist(k) \/ Unclaimed(k) \/ Clear(k)
             \/ Reprove(k) \/ Pay(k) \/ Leave(k)
             \/ \E o \in Offers : Check(k, o)
             \/ \E d \in Drafts : Insert(k, d) \/ Reload(k, d)
      PROVE  PlanInv'
  BY <1>2, ShowKeeps, PrepareKeeps, ProveKeeps, ReproveKeeps, PayKeeps, LeaveKeeps, CheckKeeps,
     InsertKeeps, ReloadKeeps, RelistKeeps, LooksKeep
<1>3. ASSUME NEW d \in Drafts,
             Accept(d) \/ Close(d) \/ \E l \in Lineages : Reserve(d, l) \/ Conclude(d, l)
      PROVE  PlanInv'
  BY <1>3, AcceptKeeps, CloseKeeps, ReserveKeeps, ConcludeKeeps
<1>4. ASSUME NEW l \in Lineages, Renew(l) \/ Disturb(l) PROVE PlanInv'
  BY <1>4, RenewKeeps, DisturbKeeps
<1> QED BY <1>1, <1>2, <1>3, <1>4, RefitKeeps DEF PlanNext

\* The invariant of planning, which FrozenServes and PaidAsShown rest on.
THEOREM PlanningInvariant == PlanSpec => []PlanInv
<1>1. PlanInv /\ [PlanNext]_planVars => PlanInv'
  BY PlanSteps
<1> QED BY <1>1, PlanStarts, PTL DEF PlanSpec

LEMMA PlanInvServes == PlanInv => FrozenServes
<1> SUFFICES ASSUME PlanInv, NEW d \in Drafts, NEW l \in Lineages, Live(d, l)
             PROVE  LET row == rows[d][l]  draft == drafts[d] IN
                    /\ draft.made /\ \A e \in Drafts \ {d} : ~Live(e, l)
                    /\ Readable(row.plan) /\ (row.plan.broken = {} \/ draft.offer.ask.acknowledged)
                    /\ WholeReview(row.decision)
                    /\ draft.paid =>
                         /\ row.source[1] = Newest(l) /\ Newest(l) < draft.offer.version
                         /\ \A e \in Drafts \ {d} : rows[e][l].consumed # draft.offer.version
  BY DEF FrozenServes
<1>1. /\ RowHolds(d, l) /\ LiveHolds(d, l) /\ PaidHolds(d) /\ rows[d][l].status # "none"
  BY DEF PlanInv, Live
<1>2. drafts[d].made /\ (drafts[d].paid => Stands(d, l))
  BY <1>1 DEF RowHolds, PaidHolds
<1> QED BY <1>1, <1>2 DEF RowHolds, LiveHolds, Stands

LEMMA PlanInvPays == PlanInv => PaidAsShown
<1> SUFFICES ASSUME PlanInv, NEW d \in Drafts, drafts[d].made, drafts[d].paid
             PROVE  /\ \A l \in RowsOf(d) :
                         /\ rows[d][l].decision = Frozen(drafts[d].shown[l])
                         /\ rows[d][l].decision = Frozen(drafts[d].receipt.proof[l])
                    /\ drafts[d].receipt.claimers # {}
  BY DEF PaidAsShown
<1>1. PaidHolds(d) /\ \A l \in Lineages : RowHolds(d, l)
  BY DEF PlanInv
<1> QED BY <1>1 DEF PaidHolds, RowHolds, RowsOf

\* Any number of operators, campaigns and lessons, with any pages, workers and
\* settings changing between any two reads: a live row is the only one of its
\* lineage and can be carried out; and once it is paid for it is made from the
\* newest version, and its own stays free for it.
THEOREM PlansServe == PlanSpec => []FrozenServes
BY PlanningInvariant, PlanInvServes, PTL

\* And the first paid job goes where the operator saw it go, to a live worker
\* that the claim query lets have it.
THEOREM PaymentsAreShown == PlanSpec => []PaidAsShown
BY PlanningInvariant, PlanInvPays, PTL

-----------------------------------------------------------------------------
(* The two chapters.                                                       *)

\* What is proved of a campaign and of planning holds of Regeneration, whose
\* steps are steps of the one and leave the other alone.
THEOREM ChaptersApart == RegSpec => Spec /\ PlanSpec
<1>1. RegInit => Init /\ PlanInit
  BY DEF RegInit
<1>2. [RegNext]_RegVars => [Next]_vars /\ [PlanNext]_planVars
  BY DEF RegNext, RegVars, OfPlanning, OfCampaign
<1> QED BY <1>1, <1>2, PTL DEF RegSpec, Spec, PlanSpec
=============================================================================
