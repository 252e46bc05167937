----------------------------- MODULE Destination -----------------------------
(***************************************************************************)
(* Where in Notion the revision of a lesson goes: the scan that decides it *)
(* (services/regeneration_destination.py) and the rule that a decision is  *)
(* stored by (repositories/regeneration_targets.py).                       *)
(*                                                                         *)
(* A source carries what the database knows of its lineage: the lesson's   *)
(* title, the page of its subject, the remembered page of the lesson       *)
(* (hint), the page of the published homework (home), whether that one is  *)
(* proved to be of this lineage, and whether the lineage was ever          *)
(* published.  Notion is a set of pages [id, parent, title, version];      *)
(* version is 0 but for the Homework pages that the publisher makes.       *)
(***************************************************************************)
EXTENDS Naturals, FiniteSets

CONSTANTS
  NoPage,         \* no page, no override
  ContainerTitle  \* what the page that holds the lessons is called

ChildPages(page, pages) == {p \in pages : p.parent = page}

\* get_page_parent; a page that is gone or not shared has no parent to read.
ParentOf(page, pages) ==
  LET found == {p \in pages : p.id = page} IN
  IF found = {} THEN NoPage ELSE (CHOOSE p \in found : TRUE).parent

\* Homework of this version is already there.
VersionExists(page, version, pages) ==
  \E p \in ChildPages(page, pages) : p.version = version

\* A DestinationResolution; its candidates and its reason only inform.
Decision(source, status, container, topic) ==
  [title           |-> source.title,
   status          |-> status,
   containerPolicy |-> container.policy, container |-> container.page,
   topicPolicy     |-> topic.policy,     topic     |-> topic.page]

Undecided   == [policy |-> "none", page |-> NoPage]
New         == [policy |-> "create", page |-> NoPage]
Reuse(page) == [policy |-> "reuse", page |-> page]

Blocked(source, container, topic) == Decision(source, "blocked", container, topic)

\* What becomes of a topic that was found: its versions are never written over.
Chosen(source, version, container, topic, pages) ==
  Decision(source, IF VersionExists(topic, version, pages) THEN "blocked" ELSE "reuse",
           Reuse(container), Reuse(topic))

\* The published homework proves the place: its parent, and that one's parent.
Proven(source, version, pages) ==
  LET topic     == ParentOf(source.home, pages)
      container == ParentOf(topic, pages) IN
  IF NoPage \in {source.home, topic, container}
  THEN Blocked(source, Undecided, Undecided)
  ELSE Chosen(source, version, container, topic, pages)

\* The lessons under the container that are of the source by title, or that the
\* database remembers as its page once it was published.
Candidates(source, container, pages) ==
  {p.id : p \in {c \in ChildPages(container, pages) :
                   \/ c.title = source.title
                   \/ source.published /\ c.id = source.hint}}

\* The scan under the one container: the operator's choice, else the remembered
\* page, else the only page of that title.
InContainer(source, version, override, container, pages) ==
  LET candidates == Candidates(source, container, pages)
      remembered == source.hint # NoPage
                      /\ \E c \in ChildPages(container, pages) : c.id = source.hint
      Pick(topic) == Chosen(source, version, container, topic, pages) IN
  CASE override # NoPage /\ override \notin candidates
         -> Blocked(source, Reuse(container), Undecided)
    [] override \in candidates
         -> Pick(override)
    [] override = NoPage /\ source.published
         -> Decision(source, IF candidates = {} THEN "blocked" ELSE "ambiguous",
                     Reuse(container), Undecided)
    [] override = NoPage /\ ~source.published /\ remembered
         -> Pick(source.hint)
    [] override = NoPage /\ ~source.published /\ ~remembered /\ candidates = {}
         -> Decision(source, "create", Reuse(container), New)
    [] OTHER
         -> IF Cardinality(candidates) = 1 THEN Pick(CHOOSE c \in candidates : TRUE)
            ELSE Decision(source, "ambiguous", Reuse(container), Undecided)

\* The scan under the subject's page, for a lineage whose place nothing proves.
Searched(source, version, override, pages) ==
  LET containers == {p \in ChildPages(source.subject, pages) : p.title = ContainerTitle} IN
  CASE source.subject = NoPage \/ Cardinality(containers) > 1
         -> Blocked(source, Undecided, Undecided)
    [] source.subject # NoPage /\ containers = {}
         -> IF override # NoPage \/ source.published
            THEN Blocked(source, Undecided, Undecided)
            ELSE Decision(source, "create", New, New)
    [] OTHER
         -> InContainer(source, version, override, (CHOOSE p \in containers : TRUE).id, pages)

\* _scan_destinations for one source.
Destined(source, version, override, pages) ==
  IF override = NoPage /\ source.verified
  THEN Proven(source, version, pages)
  ELSE Searched(source, version, override, pages)

\* resolve_destinations refuses an override where the place is proved.
Overridable(source, override) == override # NoPage => ~source.verified

Decided(decision) == decision.status \in {"reuse", "create"}

\* _validate_reviewed_destination, and the check constraint of the table; there
\* is always a title.
WholeReview(decision) ==
  /\ decision.containerPolicy \in {"reuse", "create"}
  /\ decision.topicPolicy \in {"reuse", "create"}
  /\ decision.containerPolicy = "reuse" <=> decision.container # NoPage
  /\ decision.topicPolicy = "reuse" <=> decision.topic # NoPage
  /\ decision.topicPolicy = "reuse" => decision.containerPolicy = "reuse"
=============================================================================
