------------------------------- MODULE Streams -------------------------------
(* The incremental translators of a streamed answer into OpenAI's events     *)
(* (maxllm-translate: anthropic_stream.rs, cohere_stream.rs,                 *)
(* gemini_stream.rs), fed by upstream_response_body_filter with whatever     *)
(* pieces the upstream's bytes arrive in.  The wire is a sequence of bytes:  *)
(* three pieces of every event, so that a cut can fall inside its first      *)
(* word, and the two newlines that end it.                                   *)
EXTENDS Naturals, Sequences

CONSTANTS
  Kinds,  \* translators: "anthropic", "cohere", "gemini"
  Wires   \* [Kinds -> sets of sequences of events]

\* What the data of an event is: JSON that has what the translator looks for,
\* JSON or text that has not, or nothing.
Fitness == {"ok", "bad", "none"}

\* Anthropic's and Cohere's events, by what their translators tell apart ...
Named == [type : {"start", "text", "tool", "args", "finish", "stop", "other"},
          data : Fitness]

\* ... and Gemini's: the parts of a candidate are text or function calls.
Candidate == [content : BOOLEAN, parts : Seq({"text", "call"}), finish : BOOLEAN]
Answer    == [data : Fitness, cands : Seq(Candidate)]

ASSUME WiresAssumption ==
  /\ Kinds \subseteq {"anthropic", "cohere", "gemini"}
  /\ \A k \in Kinds : \A w \in Wires[k] :
       w # <<>> /\ w \in Seq(IF k = "gemini" THEN Answer ELSE Named)

VARIABLES
  kind, wire,
  closed,  \* the last event is ended by its newlines
  pos,     \* bytes the upstream has sent
  buf,     \* the translator's buffer
  st,      \* the rest of it: sent_role and tool_call_index
  out,     \* the events the client has received
  phase    \* "flowing", then "flushed" or "cut": how the end came

stream_vars == <<kind, wire, closed, pos, buf, st, out, phase>>

Byte(k, n) == <<k, n>>
NL         == Byte(0, 0)

\* Byte i of the wire: three pieces and two newlines for every event.
ByteAt(i) == IF (i - 1) % 5 < 3 THEN Byte(((i - 1) \div 5) + 1, ((i - 1) % 5) + 1) ELSE NL

Bytes == [i \in 1 .. 5 * Len(wire) - (IF closed THEN 0 ELSE 2) |-> ByteAt(i)]

Item(what, n) == <<what, n>>
Role   == Item("role", 0)
Finish == Item("finish", 0)
Done   == Item("[DONE]", 0)

\* What translating one event gives: the translator after it and the output.
Gives(s, items) == [st |-> s, items |-> items]

\* The first event of the answer announces the role, once.
Announce(s) == IF s.role THEN Gives(s, <<>>)
               ELSE Gives([s EXCEPT !.role = TRUE], <<Role>>)

\* Anthropic: an event whose data is missing or does not parse gives nothing,
\* but for message_stop, whose data is not read.
AnthropicEvent(s, n) ==
  LET e == wire[n] IN
  CASE e.type = "stop" -> Gives(s, <<Done>>)
    [] e.type = "start" /\ e.data = "ok" -> Announce(s)
    [] e.type \in {"text", "tool", "args"} /\ e.data = "ok" -> Gives(s, <<Item(e.type, n)>>)
    [] e.type = "finish" /\ e.data = "ok" -> Gives(s, <<Finish>>)
    [] OTHER -> Gives(s, <<>>)

\* Cohere: message-start and message-end do without data; message-end ends.
CohereEvent(s, n) ==
  LET e == wire[n] IN
  CASE e.type = "start" /\ e.data # "bad" -> Announce(s)
    [] e.type \in {"text", "tool", "args"} /\ e.data = "ok" -> Gives(s, <<Item(e.type, n)>>)
    [] e.type = "finish" /\ e.data # "bad" -> Gives(s, <<Finish, Done>>)
    [] OTHER -> Gives(s, <<>>)

\* Mutant: text does not count as having carried the role.
GeminiPartAgain(acc, part, n) ==
  IF part = "text"
  THEN Gives(acc.st,
             acc.items \o (IF acc.st.role THEN <<>> ELSE <<Role>>) \o <<Item("text", n)>>)
  ELSE Gives([role |-> TRUE, calls |-> acc.st.calls + 1],
             Append(acc.items, Item("call", acc.st.calls)))

\* Gemini: the parts of the candidates; text carries the role the first time,
\* a function call counts as having carried it.  A candidate without content
\* drops the event, what the candidates before it gave included, but the
\* translator has changed.
GeminiPart(acc, part, n) ==
  IF part = "text"
  THEN Gives([acc.st EXCEPT !.role = TRUE],
             acc.items \o (IF acc.st.role THEN <<>> ELSE <<Role>>) \o <<Item("text", n)>>)
  ELSE Gives([role |-> TRUE, calls |-> acc.st.calls + 1],
             Append(acc.items, Item("call", acc.st.calls)))

\* One after the other, from what the candidates before have given.
GeminiParts(acc, parts, n) ==
  LET after[k \in 0 .. Len(parts)] ==
        IF k = 0 THEN acc ELSE GeminiPart(after[k - 1], parts[k], n)
  IN after[Len(parts)]

GeminiCandidate(acc, c, n) ==
  IF acc.dropped \/ ~c.content THEN [acc EXCEPT !.dropped = TRUE]
  ELSE LET parts == GeminiParts(Gives(acc.st, acc.items), c.parts, n)
       IN [st |-> parts.st, dropped |-> FALSE,
           items |-> parts.items \o (IF c.finish THEN <<Finish>> ELSE <<>>)]

GeminiCandidates(s, cands, n) ==
  LET after[k \in 0 .. Len(cands)] ==
        IF k = 0 THEN [st |-> s, items |-> <<>>, dropped |-> FALSE]
                 ELSE GeminiCandidate(after[k - 1], cands[k], n)
  IN after[Len(cands)]

GeminiEvent(s, n) ==
  IF wire[n].data # "ok" THEN Gives(s, <<>>)
  ELSE LET all == GeminiCandidates(s, wire[n].cands, n)
       IN Gives(all.st, IF all.dropped THEN <<>> ELSE all.items)

-----------------------------------------------------------------------------
\* The bytes of an event in a piece of the buffer: the event they spell, 0
\* when they spell none.
Spelt(bytes) ==
  IF \E k \in DOMAIN wire : bytes = <<Byte(k, 1), Byte(k, 2), Byte(k, 3)>>
  THEN bytes[1][1] ELSE 0

Event(s, n) ==
  IF n = 0 THEN Gives(s, <<>>)
  ELSE IF kind = "anthropic" THEN AnthropicEvent(s, n)
  ELSE IF kind = "cohere" THEN CohereEvent(s, n) ELSE GeminiEvent(s, n)

Earliest(S)   == CHOOSE n \in S : \A m \in S : n <= m
Latest(S)     == CHOOSE n \in S : \A m \in S : m <= n
From(b, i)    == SubSeq(b, i, Len(b))
Newlines(b)   == {i \in DOMAIN b : b[i] = NL}
Boundaries(b) == {i \in 1 .. Len(b) - 1 : b[i] = NL /\ b[i + 1] = NL}

\* Gemini looks for "data: ", which only the events that carry data begin with.
DataStarts(b) ==
  {i \in 1 .. Len(b) - 1 : \E k \in DOMAIN wire :
     wire[k].data # "none" /\ b[i] = Byte(k, 1) /\ b[i + 1] = Byte(k, 2)}

\* A turn of the loop of process_chunk, on the buffer, the translator and what
\* the call returns, takes the event that ends at i from the buffer.
Take(a, start, i) ==
  LET one == Event(a.st, Spelt(SubSeq(a.buf, start, i - 1)))
  IN [buf |-> From(a.buf, i + 2), st |-> one.st, items |-> a.items \o one.items]

NamedTurn(a) ==
  IF Boundaries(a.buf) = {} THEN a ELSE Take(a, 1, Earliest(Boundaries(a.buf)))

\* Gemini's: without data, all but the line that has begun is thrown away.
GeminiTurn(a) ==
  LET starts == DataStarts(a.buf) IN
  IF starts = {}
  THEN IF Newlines(a.buf) = {} THEN a
       ELSE [a EXCEPT !.buf = From(@, Latest(Newlines(@)) + 1)]
  ELSE LET ends == {j \in Boundaries(a.buf) : j > Earliest(starts) + 1}
       IN IF ends = {} THEN a ELSE Take(a, Earliest(starts), Earliest(ends))

Turn(a) == IF kind = "gemini" THEN GeminiTurn(a) ELSE NamedTurn(a)

\* Mutant: a call translates one event at most.
DrainOne(a) == Turn(a)

\* The loop: as many turns as it can take before nothing is complete.
Drain(a) ==
  LET after[k \in 0 .. Len(a.buf)] == IF k = 0 THEN a ELSE Turn(after[k - 1])
  IN after[Len(a.buf)]

\* Mutant: the rest is thrown away.
FlushNothing(a) ==
  [buf |-> <<>>, st |-> a.st, items |-> IF kind = "gemini" THEN Append(a.items, Done) ELSE a.items]

\* The end of the stream: what is left is taken for an event.
Flush(a) ==
  LET rest == IF a.buf = <<>> THEN Gives(a.st, <<>>) ELSE Event(a.st, Spelt(a.buf))
      all  == a.items \o rest.items
  IN [buf |-> <<>>, st |-> rest.st, items |-> IF kind = "gemini" THEN Append(all, Done) ELSE all]

\* Mutant: every call ends the client's stream.
ChunkDone(data, end) == Flush(Drain([buf |-> buf \o data, st |-> st, items |-> <<>>]))

process_chunk(data, end) ==
  LET drained == Drain([buf |-> buf \o data, st |-> st, items |-> <<>>])
  IN IF end THEN Flush(drained) ELSE drained

-----------------------------------------------------------------------------
Silent == [role |-> FALSE, calls |-> 0]

StreamInit ==
  /\ kind \in Kinds /\ wire \in Wires[kind] /\ closed \in BOOLEAN
  /\ pos = 0 /\ buf = <<>> /\ st = Silent
  /\ out = <<>> /\ phase = "flowing"

\* A piece of the wire of any length, which may be the last one; the gateway
\* calls the translator with it.
Chunk(n, end) ==
  /\ phase = "flowing" /\ pos + n <= Len(Bytes)
  /\ end => pos + n = Len(Bytes)
  /\ LET got == process_chunk(SubSeq(Bytes, pos + 1, pos + n), end)
     IN buf' = got.buf /\ st' = got.st /\ out' = out \o got.items
  /\ pos' = pos + n
  /\ phase' = IF end THEN "flushed" ELSE phase
  /\ UNCHANGED <<kind, wire, closed>>

\* The end comes without a piece: body is None and nobody calls the
\* translator, so what it still holds is lost.
EndAlone ==
  /\ phase = "flowing" /\ pos = Len(Bytes)
  /\ phase' = "cut"
  /\ UNCHANGED <<kind, wire, closed, pos, buf, st, out>>

StreamNext == (\E n \in 1 .. Len(Bytes) - pos, end \in BOOLEAN : Chunk(n, end)) \/ EndAlone

StreamSpec == StreamInit /\ [][StreamNext]_stream_vars
=============================================================================
