----------------------------- MODULE Guardrails -----------------------------
(* The guardrail framework (maxllm-plugin/src/guardrail): which entries of   *)
(* the engine run, what each provider says of a text, and what the engine   *)
(* makes of the verdicts.  A text is the set of the kinds of content that   *)
(* can be found in it; an entry knows the kinds it `finds` (its patterns,   *)
(* keywords or rules).  What an external service answers is a parameter.    *)
EXTENDS Sequences, SequencesExt, FiniteSets

CONSTANTS
  Kinds,  \* the kinds of content an entry may look for
  Masked, \* what a redacted kind leaves behind ("[REDACTED]"), none of them
  Rewrites \* the texts a webhook may put in the place of the one it is shown

ASSUME GuardrailAssumption ==
  /\ IsFiniteSet(Kinds) /\ Masked \notin Kinds
  /\ Rewrites \subseteq SUBSET (Kinds \cup {Masked})

\* What a call to a webhook can come to: a decision, with any text at all when
\* it is to modify, or a failure (an error status, a timeout, a refused
\* connection, a body that does not parse).
Decisions ==
  [answer : {"allow", "block", "log", "failure"}, text : {{}}]
    \cup [answer : {"modify"}, text : Rewrites]

Allow == [answer |-> "allow", text |-> {}]

\* [[guardrails]] of the configuration: `given` are the optional keys that are set.
GuardrailConfigs ==
  [name : STRING, provider : STRING, mode : STRING, action : STRING,
   default_on : BOOLEAN, finds : SUBSET Kinds, given : SUBSET STRING]

-----------------------------------------------------------------------------
\* GuardrailMode::parse and GuardrailAction::parse: what they do not know is
\* the default.
ParseMode(mode)     == IF mode \in {"post_call", "both"} THEN mode ELSE "pre_call"
ParseAction(action) == IF action \in {"redact", "log_only"} THEN action ELSE "block"

\* from_config of each provider.  One that scans by a plugin passes its action
\* on, and the plugin refuses what the engine's parse would take for block.
Scanners == {"pii_filter", "secret_scan", "regex_guard"}

BuiltinFromConfig(c) ==
  /\ c.finds # {}
  /\ c.provider \in Scanners => c.action \in {"block", "redact", "log_only"}

CelFromConfig(c)     == c.finds # {}
WebhookFromConfig(c) == "api_base" \in c.given
LakeraFromConfig(c)  == "api_key" \in c.given

CreateGuardrail(c) ==
  CASE c.provider \in Scanners \cup {"prompt_guard", "keyword_block"} -> BuiltinFromConfig(c)
    [] c.provider = "cel"     -> CelFromConfig(c)
    [] c.provider = "webhook" -> WebhookFromConfig(c)
    [] c.provider = "lakera"  -> LakeraFromConfig(c)
    [] OTHER                  -> FALSE

\* build_engine: one entry for each configured guardrail, if all can be made.
EngineLoads(configs) == \A i \in DOMAIN configs : CreateGuardrail(configs[i])

BuildEngine(configs) ==
  [i \in DOMAIN configs |->
    [name |-> configs[i].name, provider |-> configs[i].provider, finds |-> configs[i].finds,
     default_on |-> configs[i].default_on, mode |-> ParseMode(configs[i].mode),
     action |-> ParseAction(configs[i].action)]]

-----------------------------------------------------------------------------
Pass          == [kind |-> "Pass"]
Block         == [kind |-> "Block"]
Log           == [kind |-> "Log"]
Modify(text)  == [kind |-> "Modify", text |-> text]

Redacted(text, found) ==
  IF text \cap found = {} THEN text ELSE (text \ found) \cup {Masked}

\* pii_filter, secret_scan and regex_guard: their own action decides.
Scan(e, text) ==
  IF text \cap e.finds = {} THEN Pass
  ELSE CASE e.action = "block"    -> Block
         [] e.action = "redact"   -> Modify(Redacted(text, e.finds))
         [] e.action = "log_only" -> Log

\* prompt_guard, keyword_block and cel: a match is always a Block verdict,
\* and it is for the engine to weigh it.  (A CEL rule that does not evaluate
\* to true, or not at all, does not match.)
Match(e, text) == IF text \cap e.finds = {} THEN Pass ELSE Block

\* Mutant: the webhook fails closed.
WebhookClosed(decision) ==
  CASE decision.answer \in {"block", "failure"} -> Block
    [] decision.answer = "modify" -> Modify(decision.text)
    [] decision.answer = "log"    -> Log
    [] decision.answer = "allow"  -> Pass

\* The generic webhook fails open, and its word is taken for the new text.
Webhook(decision) ==
  CASE decision.answer = "block"  -> Block
    [] decision.answer = "modify" -> Modify(decision.text)
    [] decision.answer = "log"    -> Log
    [] decision.answer \in {"allow", "failure"} -> Pass

\* Lakera knows "flagged" and nothing else, and fails open too.
Lakera(decision) == IF decision.answer = "block" THEN Block ELSE Pass

CheckInput(e, text, decision) ==
  CASE e.provider \in Scanners -> Scan(e, text)
    [] e.provider \in {"prompt_guard", "keyword_block", "cel"}     -> Match(e, text)
    [] e.provider = "webhook" -> Webhook(decision)
    [] e.provider = "lakera"  -> Lakera(decision)

\* Model output is not looked at by prompt_guard and by secret_scan.
CheckOutput(e, text, decision) ==
  IF e.provider \in {"prompt_guard", "secret_scan"} THEN Pass
  ELSE CheckInput(e, text, decision)

-----------------------------------------------------------------------------
Runs(e, mode) == e.mode \in {mode, "both"}

HasMode(engine, mode) == \E i \in DOMAIN engine : Runs(engine[i], mode)

\* The entries that run: of the right mode, within the scope of the route
\* (an empty scope is no scope), and either on by default or asked for.
active_entry(e, requested, scope, mode) ==
  /\ Runs(e, mode)
  /\ scope # {} => e.name \in scope
  /\ e.default_on \/ e.name \in requested

\* The engine runs the active entries in their order on the text as it then
\* stands, and stops at the first Block of an entry whose action is block.
RunEntry(st, e, verdict) ==
  [applied |-> Append(st.applied, e.name),
   blocked |-> verdict.kind = "Block" /\ e.action = "block",
   text    |-> IF verdict.kind = "Modify" THEN verdict.text ELSE st.text]

\* Whether an entry is asked about the client's text or about the model's.
Check(e, text, mode, decision) ==
  IF mode = "pre_call" THEN CheckInput(e, text, decision) ELSE CheckOutput(e, text, decision)

Run(engine, requested, scope, mode, text, decision) ==
  FoldLeft(LAMBDA st, e :
             IF st.blocked \/ ~active_entry(e, requested, scope, mode) THEN st
             ELSE RunEntry(st, e, Check(e, st.text, mode, decision)),
           [applied |-> <<>>, blocked |-> FALSE, text |-> text], engine)

Verdict(st, text) ==
  [applied |-> st.applied,
   kind |-> IF st.blocked THEN "Block" ELSE IF st.text # text THEN "Modify" ELSE "Pass",
   text |-> st.text]

RunPreCall(engine, requested, scope, text, decision) ==
  Verdict(Run(engine, requested, scope, "pre_call", text, decision), text)

\* Mutant: the output is not run past the entries that look at it alone.
RunPreOnOutput(engine, requested, scope, text, decision) ==
  Verdict(Run(engine, requested, scope, "pre_call", text, decision), text)

\* Mutant: what has been redacted is not in the text that is handed back.
RunPostUnredacted(engine, requested, scope, text, decision) ==
  Verdict([Run(engine, requested, scope, "post_call", text, decision) EXCEPT !.text = text],
          text)

RunPostCall(engine, requested, scope, text, decision) ==
  Verdict(Run(engine, requested, scope, "post_call", text, decision), text)
=============================================================================
