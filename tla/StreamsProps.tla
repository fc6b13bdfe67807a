---------------------------- MODULE StreamsProps ----------------------------
(* What is checked of the stream translators. *)
EXTENDS Streams, FiniteSets

Items == {Role, Done, Finish} \cup
         ({"text", "tool", "args"} \X (DOMAIN wire)) \cup ({"call"} \X (0 .. st.calls))

\* Between two calls the buffer holds no event that is complete, however many
\* the last piece brought (the loop of process_chunk), but for comments that
\* precede the data Gemini's translator is waiting for.
StreamTypeOK ==
  /\ kind \in Kinds /\ wire \in Wires[kind] /\ closed \in BOOLEAN
  /\ pos \in 0 .. Len(Bytes) /\ phase \in {"flowing", "flushed", "cut"}
  /\ st.role \in BOOLEAN /\ st.calls \in Nat
  /\ \A i \in Boundaries(buf) :
       kind = "gemini" /\ i > 1 /\ wire[buf[i - 1][1]].data = "none"
  /\ \A i \in DOMAIN buf : buf[i] \in {NL} \cup ((DOMAIN wire) \X (1 .. 3))
  /\ \A i \in DOMAIN out : out[i] \in Items

\* The translator after the first n events one after the other, and what it
\* gave, as if no byte were ever waited for.
Translation ==
  LET after[n \in 0 .. Len(wire)] ==
        IF n = 0 THEN Gives(Silent, <<>>)
        ELSE LET one == Event(after[n - 1].st, n)
             IN Gives(one.st, after[n - 1].items \o one.items)
  IN after

Translated(n) == Translation[n].items

\* The events that have arrived complete with their newlines.
Arrived == pos \div 5

\* Where the pieces are cut decides nothing: after every piece the client has
\* the translation of the events that arrived whole, and after the last one of
\* all of them.  When the end comes alone (gateway.rs:1635), the last event
\* must have its newlines to be translated.  Gemini's translator also loses a
\* last event without newlines when it came in one piece with a comment before
\* it: strip_prefix looks at the whole rest (gemini_stream.rs:189).
AfterComment ==
  kind = "gemini" /\ ~closed /\ Len(wire) > 1 /\ wire[Len(wire) - 1].data = "none"

ChunkingIrrelevant ==
  ~AfterComment =>
  CASE phase = "flowing" -> out = Translated(Arrived)
    [] phase = "flushed" -> out = Translated(Len(wire)) \o
                              (IF kind = "gemini" THEN <<Done>> ELSE <<>>)
    [] phase = "cut"     -> out = Translated(IF closed THEN Len(wire) ELSE Len(wire) - 1)

\* The event that ends an answer.
Ending(k) == IF k = "anthropic" THEN "stop" ELSE "finish"

\* The protocol of the named events (the tests of anthropic_stream.rs and
\* cohere_stream.rs): message_start comes first if it comes, and what follows
\* the end is nothing that is shown.
ASSUME OrderAssumption ==
  \A k \in Kinds \ {"gemini"} : \A w \in Wires[k] : \A i \in DOMAIN w :
    /\ w[i].type = "start" => i = 1
    /\ w[i].type = Ending(k) =>
         \A j \in DOMAIN w : j > i => w[j].type \in {"stop", "other"} \ {Ending(k)}

Occurs(item) == {i \in DOMAIN out : out[i] = item}

\* The client is told the role once at most and never after the text it is the
\* role of, and nothing follows [DONE], which comes once: what the clients of
\* OpenAI rely on, for an answer whose ending event is its last.
RoleThenDone ==
  /\ Cardinality(Occurs(Role)) <= 1
  /\ \A i \in Occurs(Role), j \in DOMAIN out : j < i => out[j] \notin {"text"} \X (DOMAIN wire)
  /\ \A i \in Occurs(Done) : i = Len(out)
=============================================================================
