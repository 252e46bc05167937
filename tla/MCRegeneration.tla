--------------------------- MODULE MCRegeneration ---------------------------
(* A small instance of Regeneration for TLC: a campaign of three targets;   *)
(* one lesson whose phases depend on each other in a chain, and two offers. *)
EXTENDS Regeneration

AllModels == [claude |-> <<"sonnet", "opus">>, gemini |-> <<"pro">>,
              codex |-> <<"gpt">>, clodex |-> <<"sol">>]

Chain == [p1 |-> {}, p2 |-> {"p1"}, p3 |-> {"p2"}]

Role(p, m, t) == [provider |-> p, model |-> m, transport |-> t]

\* A contract that leaves two roles to the defaults, and has its writer solve.
Asked == [provider |-> "claude", model |-> "opus", transport |-> "api",
          extract |-> Role(Unset, Unset, "inherit"), judge |-> Role(Unset, Unset, "inherit"),
          solver |-> Role("claude", "opus", "api")]

Default == [extract |-> Role("gemini", Unset, "inherit"), judge |-> Role("clodex", "sol", "api"),
            solver |-> Role("gemini", "pro", "cli")]

\* One leaves out a phase that goes stale; the other comes a version later, has
\* everything written anew and names the page.
AllOffers ==
  {[lineages |-> {"l1"}, version |-> 2, contract |-> Asked,
    ask |-> [selected |-> {"p1"}, excluded |-> {"p3"}, refresh |-> FALSE, acknowledged |-> TRUE],
    overrides |-> [l \in {"l1"} |-> NoPage]],
   [lineages |-> {"l1"}, version |-> 3, contract |-> Asked,
    ask |-> [selected |-> {}, excluded |-> {}, refresh |-> TRUE, acknowledged |-> FALSE],
    overrides |-> [l \in {"l1"} |-> "t1"]]}

Whole(p) == [phase |-> p, copy |-> 1, status |-> "done", filled |-> TRUE, placed |-> TRUE]

\* The last phase may be about to be written anew.
AllSnapshots == {{Whole(p) : p \in {"p1", "p2", "p3", "extract"}},
                 {Whole(p) : p \in {"p1", "p2", "extract"}}}

Page(i, p, t, v) == [id |-> i, parent |-> p, title |-> t, version |-> v]
Tree(t) == {Page("c", "s", "container", 0), Page(t, "c", "lesson", 0)}
Mark == [title |-> "lesson", subject |-> "s", hint |-> NoPage, home |-> NoPage,
         verified |-> FALSE, published |-> FALSE]

\* No page of the lesson, one, another one, both, and a published homework.
AllPlaces ==
  {[mark |-> Mark, pages |-> p] : p \in {{}, Tree("t1"), Tree("t2"), Tree("t1") \cup Tree("t2")}}
    \cup {[mark |-> [Mark EXCEPT !.hint = "t1", !.home = "h1", !.verified = TRUE,
                                !.published = TRUE],
           pages |-> Tree("t1") \cup {Page("h1", "t1", "Homework", 0)}]}

\* One worker, with every key or too few.
AllFleets ==
  {[workers |-> {[online |-> TRUE, status |-> "online", keys |-> ks]},
    paused |-> FALSE, defaults |-> Default, retired |-> {}, notion |-> TRUE] :
      ks \in {{"claude", "gemini", "clodex"}, {"gemini"}}}

Ready == [shots |-> {Whole(p) : p \in {"p1", "p2", "p3", "extract"}},
          place |-> [mark |-> Mark, pages |-> Tree("t1")],
          fleet |-> CHOOSE f \in AllFleets : \A w \in f.workers : "claude" \in w.keys]
OneOpening == {Ready}
=============================================================================
