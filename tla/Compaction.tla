------------------------------ MODULE Compaction ------------------------------
(* Auto-compaction of a chat's messages                                      *)
(* (maxllm-plugin/src/builtin/auto_compaction.rs, and its call in            *)
(* gateway.rs:1209-1307).  A message has a role and a text, the set of the   *)
(* kinds of content in it, each KindChars characters long; its content is a  *)
(* string or made of blocks.                                                 *)
EXTENDS Integers, Sequences, SequencesExt, FiniteSets

CONSTANTS
  Word,       \* the numbers of a usize, 2^64 in the build
  KindChars

ASSUME CompactionAssumption == Word \in Nat /\ KindChars \in Nat

\* A plugin's table, with the fields from_config reads as numbers in place.
CompactorConfigs ==
  [strategy : STRING, threshold : -Word .. Word, window : -Word .. Word,
   min : -Word .. Word, system : BOOLEAN, summarizer : BOOLEAN]

\* A TOML integer is signed; `as usize` wraps the negative ones.
AsUsize(n) == IF n < 0 THEN n + Word ELSE n

\* What from_config makes of a plugin's table; "error" when it refuses it.
\* A field that is not given is "default".
Given(value, default) == IF value = "default" THEN default ELSE value

FromConfig(c) ==
  LET strategy == Given(c.strategy, "truncate") IN
  IF \/ strategy \notin {"truncate", "sliding_window", "llm"}
     \/ strategy = "llm" /\ ~c.summarizer
  THEN [strategy |-> "error"]
  ELSE [strategy |-> strategy, threshold |-> AsUsize(c.threshold),
        window |-> AsUsize(c.window), min |-> AsUsize(c.min),
        system |-> c.system, summarizer |-> c.summarizer]

\* on_request: the header of one request turns compaction off for it.
OnRequest(plugin, skip) == IF skip THEN [strategy |-> "off"] ELSE plugin

\* Four characters to a token, and four tokens for a message as such.
EstimateTokens(chars) == (chars + 3) \div 4
MessageTokens(m)      == 4 + EstimateTokens(KindChars * Cardinality(m.text))
BodyTokens(messages)  == FoldLeft(LAMBDA n, m : n + MessageTokens(m), 0, messages)

\* The system messages that are to be preserved, and the others, in order.
separate_system_messages(messages, preserve) ==
  FoldLeft(LAMBDA parts, m :
             IF preserve /\ m.role = "system"
             THEN [parts EXCEPT !.system = Append(parts.system, m)]
             ELSE [parts EXCEPT !.others = Append(parts.others, m)],
           [system |-> <<>>, others |-> <<>>], messages)

SystemMessages(messages, preserve) == separate_system_messages(messages, preserve).system
OtherMessages(messages, preserve)  == separate_system_messages(messages, preserve).others

NoOp(messages) == [result |-> "NoOp", messages |-> messages]
Kept(messages) == [result |-> "Compacted", messages |-> messages]

\* Mutant: the oldest messages that fit are kept.
TruncateOldest(messages, p) ==
  LET system == SystemMessages(messages, p.system)
      others == OtherMessages(messages, p.system)
      run    == FoldLeft(LAMBDA acc, m :
                  IF acc.tokens + MessageTokens(m) <= p.threshold \/ Len(acc.kept) < p.min
                  THEN [tokens |-> acc.tokens + MessageTokens(m), kept |-> Append(acc.kept, m)]
                  ELSE acc,
                  [tokens |-> BodyTokens(system), kept |-> <<>>], others)
  IN IF BodyTokens(messages) <= p.threshold \/ Len(run.kept) = Len(others)
     THEN NoOp(messages) ELSE Kept(system \o run.kept)

\* Mutant: the system messages do not count.
TruncateUncounted(messages, p) ==
  LET system == SystemMessages(messages, p.system)
      others == OtherMessages(messages, p.system)
      run    == FoldRight(LAMBDA m, acc :
                  IF acc.tokens + MessageTokens(m) <= p.threshold \/ Len(acc.kept) < p.min
                  THEN [tokens |-> acc.tokens + MessageTokens(m), kept |-> <<m>> \o acc.kept]
                  ELSE acc,
                  others, [tokens |-> 0, kept |-> <<>>])
  IN IF BodyTokens(messages) <= p.threshold \/ Len(run.kept) = Len(others)
     THEN NoOp(messages) ELSE Kept(system \o run.kept)

\* From the newest message back, each one that still fits, and the first
\* min_messages whether they fit or not.  A message that does not fit is left
\* out and the ones before it are still tried.
Truncate(messages, p) ==
  LET system == SystemMessages(messages, p.system)
      others == OtherMessages(messages, p.system)
      run    == FoldRight(LAMBDA m, acc :
                  IF acc.tokens + MessageTokens(m) <= p.threshold \/ Len(acc.kept) < p.min
                  THEN [tokens |-> acc.tokens + MessageTokens(m), kept |-> <<m>> \o acc.kept]
                  ELSE acc,
                  others, [tokens |-> BodyTokens(system), kept |-> <<>>])
  IN IF BodyTokens(messages) <= p.threshold \/ Len(run.kept) = Len(others)
     THEN NoOp(messages) ELSE Kept(system \o run.kept)

SlidingWindow(messages, p) ==
  LET others == OtherMessages(messages, p.system)
  IN IF Len(messages) <= p.window \/ Len(others) <= p.window THEN NoOp(messages)
     ELSE Kept(SystemMessages(messages, p.system)
                 \o SubSeq(others, Len(others) - p.window + 1, Len(others)))

Larger(m, n) == IF m < n THEN n ELSE m

\* The older half goes to the summarizer: what the request asks of it.
NeedsLlm(messages, p) ==
  /\ BodyTokens(messages) > p.threshold
  /\ p.summarizer
  /\ Len(OtherMessages(messages, p.system)) > p.min

Summary == [role |-> "assistant", text |-> {"summary"}, blocks |-> FALSE]

\* apply_llm_compaction, when the summarizer is a provider of the
\* configuration and answers with a text; the body stays as it is otherwise.
\* A message without text is not part of what is summarized but goes as well.
Summarized(messages, p, answer) ==
  LET others == OtherMessages(messages, p.system)
      keep   == Larger(Len(others) \div 2, p.min)
  IN IF ~NeedsLlm(messages, p) \/ answer = "failure" THEN NoOp(messages)
     ELSE Kept(SystemMessages(messages, p.system) \o <<Summary>>
                 \o SubSeq(others, Len(others) - keep + 1, Len(others)))

CompactMessages(messages, p, answer) ==
  CASE p.strategy = "truncate"       -> Truncate(messages, p)
    [] p.strategy = "sliding_window" -> SlidingWindow(messages, p)
    [] p.strategy = "llm"            -> Summarized(messages, p, answer)
    [] OTHER                         -> NoOp(messages)
=============================================================================
