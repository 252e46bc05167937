---------------------------- MODULE Regeneration ----------------------------
(***************************************************************************)
(* Regeneration before and after its first paid job, side by side: a       *)
(* behaviour is one of the planning of campaigns up to their launch        *)
(* (Planning) or one of the life of a single campaign (Campaign), which    *)
(* starts from the draft that planning ends in.                            *)
(***************************************************************************)
EXTENDS Campaign, Planning

VARIABLE chapter  \* which of the two the behaviour is of

RegInit == chapter \in {"planning", "campaign"} /\ Init /\ PlanInit

OfPlanning(a) == chapter = "planning" /\ a /\ UNCHANGED <<chapter, vars>>

OfCampaign(a) == chapter = "campaign" /\ a /\ UNCHANGED <<chapter, planVars>>

RegNext == OfPlanning(PlanNext) \/ OfCampaign(Next)

RegVars == <<chapter, vars, planVars>>

RegSpec == RegInit /\ [][RegNext]_RegVars

\* The fairness of FairSpec; nothing of the planning has to be done.
RegFairSpec ==
  /\ RegSpec
  /\ \A t \in Targets :
       /\ WF_RegVars(OfCampaign(JobStep(t))) /\ WF_RegVars(OfCampaign(Publish(t)))
       /\ WF_RegVars(OfCampaign(\E w \in Workers : SweepReads(w, t)))
  /\ \A w \in Workers : WF_RegVars(OfCampaign(Carry(w)))
=============================================================================
