---------------------------- MODULE MCGeneration ----------------------------
(* Small instances of Generation for TLC: a provider outside the failover   *)
(* order and two inside it; jobs that differ from a plain one in a few      *)
(* respects each; every kind of ask and of book.                            *)
EXTENDS Generation

TwoInOrder == <<"codex", "gemini">>
Defaults   == [claude |-> "opus", codex |-> "gpt", gemini |-> "pro"]

Job == [kind |-> "markdown", keyed |-> FALSE, provider |-> "claude", model |-> "sonnet",
        transport |-> "cli", judgeTransport |-> "cli", solverTransport |-> "cli",
        strategy |-> "pause"]

Keyed    == [Job EXCEPT !.kind = "structured", !.keyed = TRUE]
ApiKeyed == [Keyed EXCEPT !.kind = "markdown", !.provider = "gemini", !.transport = "api",
                          !.judgeTransport = "api", !.solverTransport = "api"]
Switches == [Job EXCEPT !.strategy = "switch", !.judgeTransport = "api"]
Deck     == [Job EXCEPT !.kind = "deck"]
Extract  == [Job EXCEPT !.kind = "extract", !.provider = "gemini"]
Vision   == [Job EXCEPT !.kind = "vision"]

AllPlans == {Keyed, ApiKeyed, Switches, Deck, Extract, Vision}

\* Every kind of ask, an api and a CLI, and a provider that has no api.
Ask(k, p, t) == [kind |-> k, lane |-> [provider |-> p, transport |-> t]]

AllAsks ==
  {Ask("markdown", "gemini", "api"), Ask("structured", "claude", "cli"),
   Ask("structured", "codex", "api"), Ask("toc", "claude", "api"),
   Ask("check", "gemini", "api"), Ask("extract", "claude", "api")}

\* A readable book; scans with a section at the start, at the end, in the middle,
\* beyond the last page and without pages; a book that is too large.
Book(s, y, f, t) == [size |-> s, layer |-> y, from |-> f, to |-> t]

AllBooks ==
  {Book("fits", "good", 1, 2), Book("fits", "sparse", 1, 3), Book("large", "garbled", 3, 5),
   Book("fits", "garbled", 2, 3), Book("fits", "sparse", 6, 7), Book("fits", "sparse", 0, 0),
   Book("huge", "good", 2, 3)}
=============================================================================
