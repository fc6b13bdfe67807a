--------------------------- MODULE MCBodyPipeline ---------------------------
(* Engines, routes and bodies small enough for TLC: every provider, mode and *)
(* action occurs, texts of several kinds, and the same kind in two messages. *)
EXTENDS BodyPipelineProps

Entry(name, provider, mode, on, action, finds) ==
  [name |-> name, provider |-> provider, mode |-> mode, default_on |-> on,
   action |-> action, finds |-> finds, given |-> {"api_base", "api_key"}]

Injects   == Entry("inj", "prompt_guard", "both", TRUE, "stop", {"attack"})
Pii       == Entry("pii", "pii_filter", "both", TRUE, "redact", {"pii"})
PiiAsked  == Entry("pii", "regex_guard", "before", FALSE, "block", {"pii"})
Policy    == Entry("cel", "cel", "post_call", TRUE, "block", {"attack"})
Lenient   == Entry("cel", "keyword_block", "both", FALSE, "log_only", {"attack"})
Hook      == Entry("hook", "webhook", "both", FALSE, "block", {"pii"})
Flagged   == Entry("hook", "lakera", "pre_call", TRUE, "block", {"attack"})

\* Engines that are refused.
Unknown   == [Pii EXCEPT !.provider = "presidio"]
Unclear   == [Pii EXCEPT !.action = "stop"]
NoUrl     == [Hook EXCEPT !.given = {"api_key"}]
NoKey     == [Flagged EXCEPT !.given = {"api_base"}]
NoRules   == [Policy EXCEPT !.finds = {}]

MCEngines ==
  {<<>>, <<Policy>>, <<Pii, Injects>>, <<Hook, PiiAsked>>, <<Pii, Hook>>,
   <<Lenient, Flagged, Pii>>}
    \cup {<<Pii, e>> : e \in {Unknown, Unclear, NoUrl, NoKey, NoRules}}

Setup(endpoints, translators, engines, scopes, compactors) ==
  [endpoint : endpoints, translator : translators, engine : engines,
   scope : scopes, compactor : compactors]

Compactor(strategy, threshold, window, min, system, summarizer) ==
  [strategy |-> strategy, threshold |-> threshold, window |-> window, min |-> min,
   system |-> system, summarizer |-> summarizer]

Trims == Compactor("default", 7, 0, 1, TRUE, FALSE)
\* One that may drop the newest message and keep an older one.
Drops == Compactor("truncate", 6, 0, 0, TRUE, FALSE)

\* The bodies the guardrails look at, with compaction and without, and those
\* they do not look at.
Guarded ==
  Setup({"native", "chat"}, {"openai", "gemini", "anthropic"}, MCEngines,
        {{}, {"pii", "hook"}}, {None})
    \cup Setup({"native"}, {"cohere"}, MCEngines, {{}}, {None})
    \cup Setup({"chat"}, {"openai", "gemini"}, MCEngines, {{}}, {Trims})
    \cup Setup({"chat"}, {"openai"}, {<<Pii>>}, {{}}, {Drops})
    \cup Setup({"passthrough", "embeddings"}, {"openai", "anthropic"}, {<<Pii, Injects>>},
               {{}}, {None, Trims})

Say(role, text) == [role |-> role, text |-> text, blocks |-> FALSE]
User(text)      == Say("user", text)
System(text)    == Say("system", text)
Parted(text)    == [User(text) EXCEPT !.blocks = TRUE]

Requests ==
  [messages : {<<User({"plain"})>>, <<User({"pii"}), Parted({"attack", "pii"})>>,
               <<System({"attack"}), User({"pii"})>>},
   field : {TRUE}, asks : {{"hook", "pii"}}, stream : BOOLEAN, valid : {TRUE}, skip : {FALSE}]
    \cup [messages : {<<User({"pii"})>>}, field : {FALSE}, asks : {{}},
          stream : {FALSE}, valid : BOOLEAN, skip : {FALSE}]

\* The conversations compaction looks at: four messages, short and long, the
\* system's in any place, under every strategy and at its limits.
Compactors ==
  {Compactor(s, t, 0, m, p, TRUE) : s \in {"truncate", "llm"}, t \in {-1, 6, 12, 14},
                                    m \in {0, 2}, p \in BOOLEAN}
  \cup {Compactor("sliding_window", 0, w, 0, p, FALSE) : w \in {-1, 0, 2}, p \in BOOLEAN}
  \cup {Compactor("llm", 6, 0, 0, TRUE, FALSE), Compactor("middle_out", 6, 0, 0, TRUE, FALSE)}

Brief == User({"plain"})
Long  == Say("assistant", {"plain", "pii"})

Conversations ==
  [messages : SeqOf({System({"plain"}), Brief, Long}, 3) \cup SeqOf({Brief, Long}, 4),
   field : {FALSE}, asks : {{}}, stream : {FALSE}, valid : {TRUE}, skip : {FALSE}]
    \cup [messages : {<<Long, Brief, Long>>}, field : {FALSE}, asks : {{}},
          stream : {FALSE}, valid : {TRUE}, skip : {TRUE}]

MCCases ==
  (Guarded \X Requests)
    \cup (Setup({"chat"}, {"openai"}, {<<>>}, {{}}, Compactors) \X Conversations)

MCReplies == {{"plain"}, {"pii", "attack"}}

\* What a webhook makes of a text: nothing, or more than was there.
MCRewrites == {{}, {"pii", "attack"}}
=============================================================================
