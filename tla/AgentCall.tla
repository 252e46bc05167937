----------------------------- MODULE AgentCall -----------------------------
(***************************************************************************)
(* The model calls of one process (services/agent.py and below).           *)
(*                                                                         *)
(* An ask is what a caller awaits: a phase in markdown or against a        *)
(* schema, the sections of a book, their check against the printed pages,  *)
(* the extract of a lesson.  It is answered by one call of a model or by   *)
(* several in turn: a second round after a blank or malformed answer, and  *)
(* for an extract its verification, a regeneration, a look at its          *)
(* coverage.  Every call takes a permit of the process, runs a child       *)
(* process (cli) or a request (api), backs off without the permit and      *)
(* tries again when the provider is busy, and writes a row of the ledger,  *)
(* unless that write fails: then the row is lost, and the ask goes on.     *)
(* The caller may cancel the ask wherever it waits.                        *)
(*                                                                         *)
(* What a model says is one of good, odd (not the deliverable) and blank.  *)
(* CredentialSlots models the slot of an api call; here it is granted,     *)
(* bypassed or exhausted.                                                  *)
(***************************************************************************)
EXTENDS Naturals, FiniteSets, Sequences

CONSTANTS Calls,        \* asks of the process
          Asks,         \* what they may ask, and in which lane
          Books,        \* the books they may be about
          Permits,      \* agent_max_concurrency
          MaxRetries,   \* rate_limit_max_retries
          PageCount,    \* pages of a book's PDF
          FrontPages,   \* extract_toc_front_pages
          BackPages,    \* extract_toc_back_pages
          Margin,       \* extract_window_pages
          MaxPages      \* extract_window_max_pages

VARIABLES call,      \* what each ask has come to
          line,      \* asks that wait for a permit, in order of arrival
          free,      \* permits left
          child,     \* asks whose child process is alive
          scratch    \* asks with a last-message file in the temp directory

vars == <<call, line, free, child, scratch>>

ApiProviders == {"claude", "gemini", "clodex"}

Stages == {"structured", "markdown", "toc", "check", "summary", "vision", "verify", "regen",
           "coverage"}

OfExtract(s) == s \in {"summary", "vision", "verify", "regen", "coverage"}

(***************************************************************************)
(* What is read of the book before a model is asked.                       *)
(***************************************************************************)

\* Whether the text layer of a whole book can stand for the lesson.
Readable(b) == b.layer = "good" \/ (b.layer = "sparse" /\ b.size # "fits")

Ranged(b) == b.from > 0 /\ b.to >= b.from

\* How a lesson is extracted: from the text, from pictures of its pages, or not at all.
Route(b) ==
  IF b.size = "huge" \/ ((b.size = "large" \/ ~Readable(b)) /\ b.from = 0) THEN "refused"
  ELSE IF Readable(b) THEN "summary" ELSE "vision"

TocTextUsable(b) == b.layer = "good"

\* The first and the last pages of the book, where contents are printed.
TocWindow ==
  {p \in 1..PageCount : p <= FrontPages \/ p > PageCount - BackPages}

\* Pages of a section, widened by the margin and cut to MaxPages around its middle.
SectionWindow(b) ==
  LET from == IF b.from > Margin THEN b.from - Margin ELSE 1
      to   == IF b.to + Margin > PageCount THEN PageCount ELSE b.to + Margin
      mid  == (b.from + b.to) \div 2
      low  == IF mid > MaxPages \div 2 THEN mid - MaxPages \div 2 ELSE 1
      first == IF low + MaxPages - 1 <= PageCount THEN low ELSE PageCount - MaxPages + 1
  IN  IF ~Ranged(b) \/ from > to THEN {}
      ELSE IF to - from + 1 <= MaxPages THEN from..to
      ELSE first..(first + MaxPages - 1)

\* Attachments go over the api for gemini only; the others are put on their CLI.
Attached(lane) ==
  IF lane.provider = "gemini" THEN lane ELSE [lane EXCEPT !.transport = "cli"]

(***************************************************************************)
(* What a provider's reply is taken for.                                   *)
(***************************************************************************)

Replies == {"text", "noise", "nothing", "cut", "cutEmpty", "busy", "error"}

Said == {"good", "odd"}

\* A reply in the provider's format, whole or empty, reads alike everywhere.
Plain(r) == IF r = "text" THEN Said ELSE IF r = "busy" THEN {"limited"}
            ELSE IF r = "error" THEN {"fatal"} ELSE {"blank"}

\* Output that is not the envelope is handed on as it is.
ClaudeReads(r)   == IF r = "noise" THEN {"odd"} ELSE Plain(r)
GeminiReads(r)   == IF r = "noise" THEN {"odd"} ELSE Plain(r)
OpenCodeReads(r) == IF r = "noise" THEN {"odd"} ELSE Plain(r)

\* Lines that are no events are skipped.
KimiReads(r) == Plain(r)

\* The text is that of the last-message file, whatever the events say.
CodexReads(r) == IF r = "noise" THEN {"blank"} ELSE Plain(r)

\* A truncated text is a failure; of gemini, a truncation without text is blank.
GeminiApi(r) == IF r = "cut" THEN {"fatal"} ELSE Plain(r)
ClaudeApi(r) == IF r \in {"cut", "cutEmpty"} THEN {"fatal"} ELSE Plain(r)
ClodexApi(r) == IF r \in {"cut", "cutEmpty"} THEN {"fatal"} ELSE Plain(r)

CliReads(p, r) ==
  CASE p = "claude" -> ClaudeReads(r)
    [] p = "gemini" -> GeminiReads(r)
    [] p = "kimi"   -> KimiReads(r)
    [] p = "codex"  -> CodexReads(r)
    [] OTHER        -> OpenCodeReads(r)

ApiReads(p, r) ==
  CASE p = "gemini" -> GeminiApi(r)
    [] p = "claude" -> ClaudeApi(r)
    [] OTHER        -> ClodexApi(r)

\* A CLI does not tell that its output was cut, an SDK never returns noise.
Outcomes(lane) ==
  IF lane.transport = "api"
  THEN UNION {ApiReads(lane.provider, r) : r \in Replies \ {"noise"}}
  ELSE UNION {CliReads(lane.provider, r) : r \in Replies \ {"cut", "cutEmpty"}}

(***************************************************************************)
(* One ask.                                                                *)
(***************************************************************************)

NoBook == [size |-> "fits", layer |-> "good", from |-> 0, to |-> 0]

Idle == [pc |-> "idle", stage |-> "none", lane |-> [provider |-> "none", transport |-> "cli"],
         book |-> NoBook, window |-> {}, round |-> 1, tries |-> 0, got |-> "none",
         kept |-> FALSE, owed |-> "nothing", result |-> "none"]

Init ==
  /\ call = [c \in Calls |-> Idle]
  /\ line = <<>>
  /\ free = Permits
  /\ child = {}
  /\ scratch = {}

At(c, p) == call[c].pc = p

\* The lane of a call: one that attaches pages needs a lane that can.
LaneOf(k) == IF k.window # {} THEN Attached(k.lane) ELSE k.lane

Direct(k) == LaneOf(k).transport = "api" /\ LaneOf(k).provider \in ApiProviders

\* The next call of an ask; that the row of the last one is lost is of no more account.
Turn(k, s) == [k EXCEPT !.pc = "launch", !.stage = s, !.round = 1, !.tries = 0, !.got = "none",
                        !.owed = IF @ = "lost" THEN "nothing" ELSE @]

Ended(k, r) ==
  [k EXCEPT !.pc = "ended", !.result = r, !.window = {}, !.book = NoBook, !.got = "none",
            !.tries = 0, !.round = 1]

\* A call comes back; the window of a lesson is removed at once, that of contents at the end.
Landed(k, o) ==
  [k EXCEPT !.pc = "settle", !.got = o, !.owed = IF o = "raised" THEN "nothing" ELSE "row",
            !.window = IF k.stage = "vision" THEN {} ELSE @, !.book = NoBook]

(***************************************************************************)
(* The ask begins: what is read decides the first call.                    *)
(***************************************************************************)

AsExtract(k) ==
  CASE Route(k.book) = "refused" -> {Ended(k, "raised")}
    [] Route(k.book) = "summary" -> {[Turn(k, "summary") EXCEPT !.book = NoBook]}
    [] OTHER -> IF SectionWindow(k.book) = {} THEN {Ended(k, "raised")}
                ELSE {[Turn(k, "vision") EXCEPT !.window = SectionWindow(k.book)],
                      Ended(k, "raised")}

AsToc(k) ==
  {[Turn(k, "toc") EXCEPT !.window = w, !.book = NoBook] :
     w \in IF TocTextUsable(k.book) THEN {{}} ELSE {TocWindow, {}}}

AsCheck(k) ==
  {[Turn(k, "check") EXCEPT !.window = TocWindow, !.book = NoBook],
   Ended([k EXCEPT !.stage = "check"], "skipped")}

Begin(c) ==
  /\ At(c, "idle")
  /\ \E a \in Asks, b \in Books :
       LET k == [call[c] EXCEPT !.lane = a.lane, !.book = b]
       IN  \/ /\ a.kind \in {"structured", "markdown"}
              /\ call' = [call EXCEPT ![c] = [Turn(k, a.kind) EXCEPT !.book = NoBook]]
           \/ /\ a.kind = "extract"
              /\ \E n \in AsExtract(k) : call' = [call EXCEPT ![c] = n]
           \/ /\ a.kind = "toc"
              /\ \E n \in AsToc(k) : call' = [call EXCEPT ![c] = n]
           \/ /\ a.kind = "check"
              /\ \E n \in AsCheck(k) : call' = [call EXCEPT ![c] = n]
  /\ UNCHANGED <<line, free, child, scratch>>

(***************************************************************************)
(* One call: _spawn and _spawn_once.                                       *)
(***************************************************************************)

\* A CLI needs a binary and a scratch file; only an api provider has an api.
Launch(c) ==
  /\ At(c, "launch")
  /\ \/ /\ Direct(call[c])
        /\ line' = Append(line, c)
        /\ call' = [call EXCEPT ![c].pc = "queued"]
        /\ UNCHANGED scratch
     \/ /\ ~Direct(call[c])
        /\ call' = [call EXCEPT ![c] = Landed(@, "raised")]
        /\ UNCHANGED <<line, scratch>>
     \/ /\ ~Direct(call[c])
        /\ call[c].lane.provider # "clodex"
        /\ scratch' = scratch \cup {c}
        /\ IF LaneOf(call[c]).transport = "cli"
           THEN /\ line' = Append(line, c)
                /\ call' = [call EXCEPT ![c].pc = "queued"]
           ELSE /\ call' = [call EXCEPT ![c] = Landed(@, "raised")]
                /\ UNCHANGED line
  /\ UNCHANGED <<free, child>>

\* The permit is had, and the child started or the request sent.
Admit(c) ==
  /\ At(c, "queued")
  /\ free > 0
  /\ Head(line) = c
  /\ line' = Tail(line)
  /\ free' = free - 1
  /\ call' = [call EXCEPT ![c].pc = "running"]
  /\ child' = IF Direct(call[c]) THEN child ELSE child \cup {c}
  /\ UNCHANGED scratch

\* The child cannot be started; no slot, no model or no credential for the request.
Refuse(c) ==
  /\ At(c, "queued")
  /\ free > 0
  /\ Head(line) = c
  /\ line' = Tail(line)
  /\ \E o \in IF Direct(call[c]) THEN {"saturated", "raised"} ELSE {"raised"} :
       call' = [call EXCEPT ![c] = Landed(@, o)]
  /\ scratch' = scratch \ {c}
  /\ UNCHANGED <<free, child>>

\* Busy providers and the network are tried again, up to the bound.
Retries(k, o) == o = "limited" /\ k.tries < MaxRetries

Answer(c) ==
  /\ At(c, "running")
  /\ \E o \in Outcomes(LaneOf(call[c])) :
       call' = [call EXCEPT ![c] = IF Retries(@, o)
                                   THEN [@ EXCEPT !.pc = "backoff", !.tries = call[c].tries + 1]
                                   ELSE Landed(@, o)]
  /\ free' = free + 1
  /\ child' = child \ {c}
  /\ scratch' = scratch \ {c}
  /\ UNCHANGED line

\* Mutant: the retries are counted per attempt.
WakeAfresh(c) ==
  /\ At(c, "backoff")
  /\ call' = [call EXCEPT ![c].pc = "launch", ![c].tries = 0]
  /\ UNCHANGED <<line, free, child, scratch>>

Wake(c) ==
  /\ At(c, "backoff")
  /\ call' = [call EXCEPT ![c].pc = "launch"]
  /\ UNCHANGED <<line, free, child, scratch>>

(***************************************************************************)
(* What the ask makes of it.                                               *)
(***************************************************************************)

\* Gate B: a summary that is no refusal and not too short.
GateB(o) == o = "good"

Accepted(k) ==
  CASE k.stage = "markdown" -> k.got \in {"good", "odd"}
    [] k.stage \in {"summary", "vision", "regen"} -> GateB(k.got)
    [] OTHER -> k.got = "good"

\* A blank answer, or one against the schema, has a second round where the ask has one.
AnotherRound(k) ==
  /\ k.round = 1
  /\ \/ k.stage = "markdown" /\ k.got = "blank"
     \/ k.stage \in {"structured", "toc", "verify", "coverage"} /\ k.got \in {"odd", "blank"}

\* Mutant: blank answers are not booked.
OnlyGoodRows(k) == k.got \in {"good", "odd"}

\* The calls of an extract write no row when the call itself raised.
Rows(k) == k.got # "raised" \/ k.stage \notin {"summary", "vision", "regen"}

\* The coverage of an extract is checked if enabled and the pages are readable.
Delivered(k) == {Ended(k, "text"), Turn(k, "coverage")}

OfPhase(k) == IF Accepted(k) THEN {Ended(k, "text")} ELSE {Ended(k, "raised")}

OfCheck(k) ==
  IF Accepted(k) THEN {Ended(k, "verified"), Ended(k, "mismatch")} ELSE {Ended(k, "skipped")}

\* An accepted summary is verified when it has expressions that the book has not.
OfSummary(k) ==
  LET held == [k EXCEPT !.kept = TRUE]
  IN  IF ~Accepted(k) THEN {Ended(k, "raised")}
      ELSE IF k.stage = "vision" THEN Delivered(held)
      ELSE Delivered(held) \cup {Turn(held, "verify")}

\* A verification that fails finds nothing.
OfVerify(k) == Delivered(k) \cup (IF Accepted(k) THEN {Turn(k, "regen")} ELSE {})

\* Mutant: a regenerated summary replaces the first unchecked.
RegenUnchecked(k) == {Ended([k EXCEPT !.kept = Accepted(k)], "text")}

\* A regenerated summary replaces the first if it passes; its failure is not caught.
OfRegen(k) ==
  IF k.got \in {"good", "odd", "blank"}
  THEN Delivered([k EXCEPT !.kept = @ \/ Accepted(k)]) ELSE {Ended(k, "raised")}

OfCoverage(k) == {Ended(k, "text")}

After(k) ==
  CASE k.stage \in {"structured", "markdown", "toc"} -> OfPhase(k)
    [] k.stage = "check" -> OfCheck(k)
    [] k.stage \in {"summary", "vision"} -> OfSummary(k)
    [] k.stage = "verify" -> OfVerify(k)
    [] k.stage = "regen" -> OfRegen(k)
    [] OTHER -> OfCoverage(k)

\* _record_usage: the row is written, or its failure is logged and swallowed.
Booked(k) == IF Rows(k) THEN {"nothing", "lost"} ELSE {k.owed}

\* After the ledger the ask goes on, whatever has become of the row.
Settle(c) ==
  /\ At(c, "settle")
  /\ \E owed \in Booked(call[c]) :
       LET k == [call[c] EXCEPT !.owed = owed]
       IN  IF AnotherRound(k)
           THEN call' = [call EXCEPT ![c] = [Turn(k, k.stage) EXCEPT !.round = 2]]
           ELSE \E n \in After(k) : call' = [call EXCEPT ![c] = n]
  /\ UNCHANGED <<line, free, child, scratch>>

(***************************************************************************)
(* The caller gives up: a cancel, a deadline of its own.                   *)
(***************************************************************************)

Awaits(c) == call[c].pc \in {"queued", "running", "backoff", "settle"}

\* Mutant: the child of a cancelled call is left alone.
KilledLater(c) == child

Killed(c) == child \ {c}

\* Every process of the call is killed inside its permit, its files go with it.
Unwind(c) ==
  /\ line' = SelectSeq(line, LAMBDA d : d # c)
  /\ free' = IF At(c, "running") THEN free + 1 ELSE free
  /\ child' = Killed(c)
  /\ scratch' = IF At(c, "running") THEN scratch \ {c} ELSE scratch

Cancel(c) ==
  /\ Awaits(c)
  /\ Unwind(c)
  /\ call' = [call EXCEPT ![c] = Ended(@, "cancelled")]

\* The check of the coverage has its own deadline, and the extract is kept.
CoverageDeadline(c) ==
  /\ Awaits(c)
  /\ call[c].stage = "coverage"
  /\ Unwind(c)
  /\ call' = [call EXCEPT ![c] = Ended(@, "text")]

Step(c) ==
  \/ Begin(c) \/ Launch(c) \/ Admit(c) \/ Refuse(c) \/ Answer(c) \/ Wake(c) \/ Settle(c)
  \/ Cancel(c) \/ CoverageDeadline(c)

Next == \E c \in Calls : Step(c)

\* The event loop runs what is ready, the semaphore is fair, and a child or request ends by
\* itself or at the deadline of its caller.
GoesOn(c)  == Launch(c) \/ Wake(c) \/ Settle(c)
Enters(c)  == Admit(c) \/ Refuse(c)
Returns(c) == Answer(c) \/ Cancel(c) \/ CoverageDeadline(c)

Fairness ==
  \A c \in Calls : WF_vars(GoesOn(c)) /\ WF_vars(Enters(c)) /\ WF_vars(Returns(c))

Spec == Init /\ [][Next]_vars /\ Fairness

(***************************************************************************)
(* Properties.                                                             *)
(***************************************************************************)

TypeOK ==
  /\ \A c \in Calls :
       /\ call[c].pc \in {"idle", "launch", "queued", "running", "backoff", "settle", "ended"}
       /\ call[c].stage \in Stages \cup {"none"}
       /\ call[c].window \subseteq 1..PageCount
       /\ call[c].tries \in 0..MaxRetries
       /\ call[c].round \in 1..2
  /\ free \in 0..Permits
  /\ child \subseteq Calls
  /\ scratch \subseteq Calls

\* However a call is cut short, retried or turned away, its permit comes back once, its
\* process does not outlive it, and the pages it attached exist while it may read them and
\* are gone when it has ended (_spawn_once and the callers' finally blocks; and everything
\* keeps its type).
NothingOutlivesItsCall ==
  /\ TypeOK
  /\ free + Cardinality({c \in Calls : At(c, "running")}) = Permits
  /\ \A c \in child : At(c, "running")
  /\ \A c \in Calls :
       /\ At(c, "ended") => call[c].window = {} /\ c \notin child
       /\ Awaits(c) /\ ~At(c, "settle") /\ call[c].stage \in {"vision", "check"}
            => call[c].window # {}

\* An extract that is delivered has passed Gate B, whatever its regeneration gave; no
\* failing check takes an accepted extract or the sections of a book down; and a lesson
\* that fits the window is read whole.
ExtractIsSound ==
  \A c \in Calls :
    /\ OfExtract(call[c].stage) /\ call[c].result = "text" => call[c].kept
    /\ call[c].result = "raised" => call[c].stage \notin {"verify", "coverage", "check"}
    /\ call[c].stage = "vision" /\ call[c].window # {}
         /\ call[c].book.to - call[c].book.from < MaxPages
         => (call[c].book.from..call[c].book.to) \cap (1..PageCount) \subseteq call[c].window

\* Every call that came back is given to the ledger before the ask goes on, also the
\* blank, malformed and failed ones: a row is missing only where the ask was cut short
\* in the write, or where the write itself failed ("lost"), which is swallowed.
EveryCallIsBooked ==
  \A c \in Calls :
    call[c].owed = "row" => At(c, "settle") \/ call[c].result = "cancelled"
                    \/ (call[c].stage = "coverage" /\ At(c, "ended"))

\* Every ask ends, whatever the providers do, while it shares its permits with others.
AsksEnd == \A c \in Calls : ~At(c, "idle") ~> At(c, "ended")
=============================================================================
