------------------------- MODULE BodyPipelineProofs -------------------------
(***************************************************************************)
(* The bodies of a request and of its response, for any guardrails, any    *)
(* compaction, any messages and however Pingora cuts the bodies.           *)
(***************************************************************************)
EXTENDS BodyPipelineProps, FoldLemmas, SequenceTheorems

-----------------------------------------------------------------------------
(* The framing: what is sent on in each phase. *)

Openai  == setup.endpoint # "passthrough" /\ setup.translator = "openai"

\* What Flows comes to while a request's body is read, on every attempt.
Through == setup.endpoint = "passthrough" \/ (Openai /\ ~Compacts)

Parts(n) == [i \in 1 .. n |-> Part(i)]

\* The pieces m to n - 1.
Between(m, n) == [i \in 1 .. (n - m) |-> Part(m + i - 1)]

Upstream == {"start", "request", "sent"}

Typed ==
  /\ TypeOK
  /\ next <= parts + 1
  /\ buf \in Seq(Nat)
  /\ setup.endpoint \in {"passthrough", "embeddings", "native", "chat"}

\* The buffer holds what a first attempt has left in it, and the pieces so far.
Gathering ==
  \E k \in 0 .. parts : (k # 0 => again) /\ buf = Pieces(k) \o Pieces(next - 1)

\* What the upstream has: pieces, a body that was read, or one that was not.
Sent(items) ==
  \/ \E n \in 0 .. parts : items = Parts(n)
  \/ One(items) /\ items[1].what # "raw"
  \/ One(items) /\ again /\ Repeated(items[1].chunks)

Request ==
  /\ keep => Openai
  /\ phase = "request" => keep = Openai
  /\ phase = "start" => next = 1 /\ up = <<>>
  /\ phase \in {"start", "request"} /\ ~again => ~translated
  /\ phase = "sent" => translated \/ setup.endpoint = "passthrough"
  /\ phase \in {"start", "request"} /\ ~translated /\ setup.endpoint # "passthrough" => Gathering
  /\ phase = "request" => up = IF Through THEN Parts(next - 1) ELSE <<>>
  /\ phase \notin {"response", "done"} => Sent(up)
  /\ phase = "sent" /\ ~again => One(up) \/ up = Parts(parts)

Response ==
  /\ phase \in Upstream => down = <<>>
  /\ phase \in {"blocked", "gone"} => One(down)
  /\ phase = "response" =>
       IF Passes THEN \E first \in 1 .. next : down = Between(first, next) /\ (known => first = 1)
       ELSE down = <<>>
  /\ phase = "done" =>
       \/ One(down)
       \/ /\ next = parts + 1
          /\ \E first \in 1 .. parts + 1 : down = Between(first, parts + 1) /\ (known => first = 1)

\* What Next does, without the quantifiers over its parameters.
RequestStep ==
  \E data \in BOOLEAN :
    \/ \E end \in BOOLEAN : PassThrough(data, end) \/ FlowThrough(data, end) \/ Withhold(data, end)
    \/ Embeddings(data) \/ Unread(data) \/ ProviderGone(data)
    \/ \E d \in Decisions : Native(data, d) \/ (\E answer \in {"summary", "failure"} : Chat(data, d, answer))

\* What services answer is in the finite sets the model names.
LEMMA HeardDecisions == Heard \subseteq Decisions /\ Summaries \subseteq {"summary", "failure"}
BY DEF Heard, Decisions, Allow, Summaries

LEMMA RequestBodySteps == RequestBody => RequestStep
BY HeardDecisions DEF RequestBody, RequestStep

\* The chunks that have been passed on, and one more of them.
LEMMA PartsFacts ==
  /\ Parts(0) = <<>>
  /\ \A n \in Nat : /\ Parts(n) \in Seq({Part(i) : i \in Nat}) /\ Len(Parts(n)) = n
                    /\ \A i \in 1 .. n : Parts(n)[i] = Part(i)
                    /\ Append(Parts(n), Part(n + 1)) = Parts(n + 1)
<1>1. ASSUME NEW n \in Nat PROVE Parts(n) \in Seq({Part(i) : i \in Nat}) /\ Len(Parts(n)) = n
  BY DEF Parts
<1>2. ASSUME NEW n \in Nat PROVE Append(Parts(n), Part(n + 1)) = Parts(n + 1)
  BY DEF Parts
<1>3. Parts(0) = <<>>
  BY DEF Parts
<1> QED BY <1>1, <1>2, <1>3 DEF Parts

\* The same of pieces of which the first are missing.
LEMMA BetweenFacts ==
  /\ \A n \in Nat : Between(n, n) = <<>>
  /\ \A n \in Nat : \A m \in 1 .. n : /\ Append(Between(m, n), Part(n)) = Between(m, n + 1)
                                    /\ Span(Between(m, n), m, n)
<1>1. ASSUME NEW n \in Nat PROVE Between(n, n) = <<>>
  BY DEF Between
<1>2. ASSUME NEW n \in Nat, NEW m \in 1 .. n
      PROVE  Append(Between(m, n), Part(n)) = Between(m, n + 1) /\ Span(Between(m, n), m, n)
  <2>1. n - m \in Nat /\ (n + 1) - m = (n - m) + 1 /\ m + ((n - m) + 1) - 1 = n
    BY <1>2
  <2>2. Between(m, n) \in Seq({Part(i) : i \in Nat}) /\ Len(Between(m, n)) = n - m
    BY <2>1 DEF Between
  <2>3. Append(Between(m, n), Part(n)) = Between(m, n + 1)
    BY <2>1, <2>2 DEF Between
  <2> QED BY <2>1, <2>2, <2>3 DEF Between, Span
<1> QED BY <1>1, <1>2

\* What is appended to two sequences is appended to the second.
LEMMA AppendBehind ==
  ASSUME NEW s \in Seq(Nat), NEW t \in Seq(Nat), NEW e \in Nat
  PROVE  Append(s \o t, e) = s \o Append(t, e)
<1>1. s \o t \in Seq(Nat) /\ <<e>> \in Seq(Nat)
  OBVIOUS
<1>2. Append(s \o t, e) = (s \o t) \o <<e>> /\ Append(t, e) = t \o <<e>>
  BY <1>1, AppendIsConcat
<1>3. (s \o t) \o <<e>> = s \o (t \o <<e>>)
  BY <1>1, ConcatAssociative
<1>4. s \o (t \o <<e>>) = s \o Append(t, e)
  BY <1>2, Zenon
<1> QED BY <1>2, <1>3, <1>4, Zenon

LEMMA Previous ==
  \A p \in Nat : \A q \in 1 .. p + 1 : q - 1 \in 0 .. p /\ (q = p + 1 => q - 1 = p)
OBVIOUS

\* The chunks that have been gathered, and one more of them.
LEMMA PiecesFacts ==
  /\ Pieces(0) = <<>>
  /\ \A n \in Nat : Pieces(n) \in Seq(Nat) /\ Len(Pieces(n)) = n
  /\ \A k, n \in Nat : Append(Pieces(k) \o Pieces(n), n + 1) = Pieces(k) \o Pieces(n + 1)
  /\ \A n \in Nat : Pieces(n) \o Pieces(0) = Pieces(n) /\ Pieces(0) \o Pieces(n) = Pieces(n)
<1>1. Pieces(0) = <<>>
  BY DEF Pieces
<1>2. ASSUME NEW n \in Nat PROVE Pieces(n) \in Seq(Nat) /\ Len(Pieces(n)) = n
  BY DEF Pieces
<1>3. ASSUME NEW n \in Nat PROVE Pieces(n + 1) = Append(Pieces(n), n + 1)
  BY DEF Pieces
<1>4. ASSUME NEW k \in Nat, NEW n \in Nat
      PROVE  Append(Pieces(k) \o Pieces(n), n + 1) = Pieces(k) \o Pieces(n + 1)
  <2>1. /\ Pieces(k) \in Seq(Nat) /\ Pieces(n) \in Seq(Nat) /\ n + 1 \in Nat
        /\ Pieces(n + 1) = Append(Pieces(n), n + 1)
    <3>1. n + 1 \in Nat
      BY <1>4
    <3> QED BY <1>2, <1>3, <1>4, <3>1, Zenon
  <2>2. Append(Pieces(k) \o Pieces(n), n + 1) = Pieces(k) \o Append(Pieces(n), n + 1)
    BY <2>1, AppendBehind
  <2> QED BY <2>1, <2>2, Zenon
<1>5. ASSUME NEW n \in Nat
      PROVE  Pieces(n) \o Pieces(0) = Pieces(n) /\ Pieces(0) \o Pieces(n) = Pieces(n)
  <2>1. \A s \in Seq(Nat) : s \o <<>> = s /\ <<>> \o s = s
    OBVIOUS
  <2> QED BY <1>1, <1>2, <2>1
<1> QED BY <1>1, <1>2, <1>4, <1>5

\* A body put together by the gateway is one body.
LEMMA OneWhole == /\ \A body : One(<<Whole(body)>>) /\ Whole(body).what # "raw"
                  /\ \A chunks : One(<<Raw(chunks)>>) /\ Raw(chunks).chunks = chunks
BY DEF One, Whole, Raw

\* The setup and the request are those of one of the cases.
LEMMA Routed ==
  ASSUME UNCHANGED <<setup, request>>
  PROVE  Compacts' = Compacts /\ Openai' = Openai /\ Through' = Through
BY DEF Compacts, Plan, Openai, Through

\* Before the first hook nothing has been sent either way.
LEMMA InitFramed ==
  ASSUME Init
  PROVE  Typed /\ Request /\ Response
<1>1. PICK case \in Cases :
        setup = [case[1] EXCEPT !.engine = BuildEngine(case[1].engine)] /\ request = case[2]
  BY DEF Init
<1>2. case[1] \in RouteSetups /\ case[2] \in ClientRequests
  BY PipelineAssumption
<1>3. setup.engine = BuildEngine(case[1].engine) /\ setup.endpoint = case[1].endpoint
  BY <1>1, <1>2 DEF RouteSetups
<1>4. \A i \in DOMAIN setup.engine :
        /\ setup.engine[i].mode \in {"pre_call", "post_call", "both"}
        /\ setup.engine[i].action \in {"block", "redact", "log_only"}
  <2>1. DOMAIN setup.engine = DOMAIN case[1].engine
    BY <1>3 DEF BuildEngine
  <2>2. ASSUME NEW i \in DOMAIN setup.engine
        PROVE  /\ setup.engine[i].mode = ParseMode(case[1].engine[i].mode)
               /\ setup.engine[i].action = ParseAction(case[1].engine[i].action)
    <3>1. \A configs : i \in DOMAIN configs =>
            /\ BuildEngine(configs)[i].mode = ParseMode(configs[i].mode)
            /\ BuildEngine(configs)[i].action = ParseAction(configs[i].action)
      BY Zenon DEF BuildEngine
    <3> QED BY <1>3, <2>1, <3>1, Zenon
  <2> QED BY <2>2 DEF ParseMode, ParseAction
<1>5. TypeOK
  <2>1. 1 \in 1 .. MaxParts + 1
    BY PipelineAssumption
  <2> QED BY <1>4, <2>1 DEF Init, TypeOK
<1>6. Typed
  BY <1>2, <1>3, <1>5 DEF Init, Typed, RouteSetups
<1>7. Request
  <2>1. parts \in Nat /\ 0 \in 0 .. parts /\ next - 1 = 0
    BY PipelineAssumption DEF Init
  <2>2. Sent(up)
    BY <2>1, PartsFacts DEF Init, Sent
  <2>3. Gathering
    <3>1. Pieces(0) \o Pieces(0) = <<>>
      BY PiecesFacts
    <3> QED BY <2>1, <3>1 DEF Init, Gathering
  <2> QED BY <2>2, <2>3 DEF Init, Request, Upstream
<1>8. Response
  BY DEF Init, Response, Upstream
<1> QED BY <1>6, <1>7, <1>8

\* Each call of a body filter moves on by one chunk, or ends the body.
LEMMA CallFacts ==
  ASSUME Typed, NEW data \in BOOLEAN, NEW end \in BOOLEAN, Call(data, end)
  PROVE  /\ parts \in Nat /\ next \in Nat /\ next' \in Nat
         /\ next' \in 1 .. MaxParts + 1 /\ next' <= parts + 1
         /\ data => next \in 1 .. parts /\ next' = next + 1
         /\ ~data => next' = next /\ next = parts + 1
         /\ end => next' = parts + 1
<1>1. parts \in Nat /\ next \in Nat /\ MaxParts \in Nat /\ parts <= MaxParts /\ next >= 1
  BY PipelineAssumption DEF Typed, TypeOK
<1>2. next <= parts + 1
  BY DEF Typed
<1>3. CASE data
  BY <1>1, <1>3 DEF Call
<1>4. CASE ~data
  BY <1>1, <1>2, <1>4 DEF Call
<1> QED BY <1>3, <1>4

\* The hook goes on only with the whole body in its buffer.
LEMMA CompleteFacts ==
  ASSUME Typed, NEW data \in BOOLEAN, NEW endpoint, Complete(data, endpoint)
  PROVE  /\ phase = "request" /\ ~Flows /\ ~translated /\ setup.endpoint = endpoint
         /\ next' \in 1 .. MaxParts + 1 /\ next' <= parts + 1
         /\ translated' = TRUE /\ buf' = <<>> /\ keep' = FALSE
         /\ UNCHANGED <<setup, request, parts, framed, status, sized, again, known>>
<1>1. Call(data, TRUE)
  BY DEF Complete
<1>2. next' \in 1 .. MaxParts + 1 /\ next' <= parts + 1
  BY <1>1, CallFacts
<1> QED BY <1>2 DEF Complete

\* Every hook keeps the types.
LEMMA TypedStep ==
  ASSUME Typed, Next
  PROVE  Typed'
<1> USE PipelineAssumption DEF Typed, TypeOK
<1>1. CASE UpstreamRequest
  BY <1>1 DEF UpstreamRequest
<1>2. CASE RequestBody
  <2>1. PICK data \in BOOLEAN :
          \/ \E end \in BOOLEAN : PassThrough(data, end) \/ FlowThrough(data, end) \/ Withhold(data, end)
          \/ Embeddings(data) \/ Unread(data) \/ ProviderGone(data)
          \/ \E d \in Decisions : Native(data, d) \/ (\E answer \in {"summary", "failure"} : Chat(data, d, answer))
    BY <1>2, RequestBodySteps DEF RequestStep
  <2>2. ASSUME NEW end \in BOOLEAN, FlowThrough(data, end) \/ PassThrough(data, end) PROVE Typed'
    <3>1. Call(data, end)
      BY <2>2 DEF FlowThrough, PassThrough
    <3>2. buf' \in Seq(Nat)
      <4>1. next \in Nat
        OBVIOUS
      <4>2. Gathered(data) \in Seq(Nat)
        BY <4>1 DEF Gathered
      <4>3. buf' \in {<<>>, buf, Gathered(data)}
        BY <2>2 DEF FlowThrough, PassThrough
      <4>4. buf \in Seq(Nat) /\ <<>> \in Seq(Nat)
        OBVIOUS
      <4> QED BY <4>2, <4>3, <4>4, Zenon
    <3>3. next' \in 1 .. MaxParts + 1 /\ next' <= parts + 1
      BY <3>1, CallFacts
    <3>4. /\ UNCHANGED <<setup, request, parts, keep, requested, sized, again, known>>
          /\ phase' \in {"request", "sent"} /\ translated' \in BOOLEAN /\ streaming' \in BOOLEAN
      BY <2>2 DEF FlowThrough, PassThrough
    <3> QED BY <3>2, <3>3, <3>4
  <2>3. ASSUME NEW end \in BOOLEAN, Withhold(data, end) PROVE Typed'
    BY <2>3 DEF Withhold, Call, Gathered
  <2>4. ASSUME NEW endpoint, Complete(data, endpoint),
               phase' \in {"sent", "blocked", "gone"}, streaming' \in BOOLEAN,
               requested' \in {{}, request.asks}
        PROVE  Typed'
    <3>1. /\ next' \in 1 .. MaxParts + 1 /\ next' <= parts + 1
          /\ translated' = TRUE /\ buf' = <<>> /\ keep' = FALSE
          /\ UNCHANGED <<setup, request, parts, framed, status, sized, again, known>>
      BY <2>4, CompleteFacts
    <3>2. TypeOK'
      <4>1. keep' \in BOOLEAN /\ translated' \in BOOLEAN
        BY <3>1
      <4>2. requested' \in {{}, request'.asks} /\ parts' \in 1 .. MaxParts
        BY <2>4, <3>1
      <4>3. sized' \in BOOLEAN /\ again' \in BOOLEAN /\ known' \in BOOLEAN
        BY <3>1
      <4> QED BY <2>4, <3>1, <4>1, <4>2, <4>3
    <3>3. buf' \in Seq(Nat)
      BY <3>1
    <3> QED BY <3>1, <3>2, <3>3
  <2>5. CASE Embeddings(data)
    BY <2>4, <2>5 DEF Embeddings
  <2>6. CASE ProviderGone(data) \/ Unread(data)
    BY <2>4, <2>6 DEF ProviderGone, Unread
  <2>7. ASSUME NEW d, Native(data, d) PROVE Typed'
    BY <2>4, <2>7 DEF Native
  <2>8. ASSUME NEW d, NEW answer, Chat(data, d, answer) PROVE Typed'
    <3>1. phase' \in {"sent", "blocked", "gone"} /\ streaming' \in BOOLEAN
      BY <2>8 DEF Chat
    <3>2. Complete(data, "chat") /\ requested' \in {{}, request.asks}
      BY <2>8 DEF Chat, Asked
    <3> QED BY <2>4, <3>1, <3>2
  <2> QED BY <2>1, <2>2, <2>3, <2>4, <2>5, <2>6, <2>7, <2>8
<1>3. CASE NotSent
  BY <1>3 DEF NotSent
<1>4. ASSUME NEW st, NEW n \in 1 .. MaxParts, ResponseHeaders(st, n) PROVE Typed'
  BY <1>4 DEF ResponseHeaders
<1>5. CASE ResponseBody
  <2>1. ASSUME NEW data \in BOOLEAN, NEW end \in BOOLEAN, PassResponse(data, end) PROVE Typed'
    BY <2>1 DEF PassResponse, Call
  <2>2. ASSUME NEW data \in BOOLEAN, HoldResponse(data) PROVE Typed'
    BY <2>2 DEF HoldResponse, Call
  <2>3. ASSUME NEW data \in BOOLEAN, NEW t, NEW parses, NEW foreign, NEW d,
               Reply(data, t, parses, foreign, d) PROVE Typed'
    BY <2>3 DEF Reply, Call
  <2> QED BY <1>5, <2>1, <2>2, <2>3 DEF ResponseBody
<1>6. CASE Retry
  BY <1>6 DEF Retry
<1>7. CASE Reload
  BY <1>7 DEF Reload
<1> QED BY <1>1, <1>2, <1>3, <1>4, <1>5, <1>6, <1>7 DEF Next

LEMMA Reading ==
  ASSUME Typed, Request, phase = "request"
  PROVE  Flows = Through
BY DEF Request, Flows, Through, Openai

\* What the filter sees of the buffer, with this call's chunk in it.
LEMMA GatheredFacts ==
  ASSUME Typed, Request, phase = "request", ~translated, setup.endpoint # "passthrough",
         NEW data \in BOOLEAN, NEW end \in BOOLEAN, Call(data, end)
  PROVE  \E k \in 0 .. parts : /\ k # 0 => again
                               /\ Gathered(data) = Pieces(k) \o Pieces(next' - 1)
<1>1. PICK k \in 0 .. parts : (k # 0 => again) /\ buf = Pieces(k) \o Pieces(next - 1)
  BY DEF Request, Gathering
<1>2. /\ parts \in Nat /\ k \in Nat
      /\ data => next - 1 \in Nat /\ next = (next - 1) + 1 /\ next' - 1 = next
      /\ ~data => next' = next
  <2>1. /\ parts \in Nat /\ next \in Nat
        /\ data => next \in 1 .. parts /\ next' = next + 1
        /\ ~data => next' = next
    BY CallFacts
  <2> QED BY <2>1
<1>3. Gathered(data) = Pieces(k) \o Pieces(next' - 1)
  <2>1. CASE data
    <3>1. Append(Pieces(k) \o Pieces(next - 1), (next - 1) + 1)
            = Pieces(k) \o Pieces((next - 1) + 1)
      BY <1>2, <2>1, PiecesFacts
    <3> QED BY <1>1, <1>2, <2>1, <3>1 DEF Gathered
  <2>2. CASE ~data
    BY <1>1, <1>2, <2>2 DEF Gathered
  <2> QED BY <2>1, <2>2
<1> QED BY <1>1, <1>3

\* Outside the reading of a request's body nothing is said of the buffer.
LEMMA SentKept ==
  ASSUME UNCHANGED <<up, parts>>, again => again', Sent(up)
  PROVE  Sent(up)'
BY DEF Sent, Repeated

\* A body made by the gateway is sent in place of the pieces, or an error.
LEMMA CompleteFramed ==
  ASSUME Typed, Request, Response, NEW data \in BOOLEAN, NEW endpoint,
         Complete(data, endpoint),
         \/ phase' = "sent" /\ One(up') /\ (up'[1].what # "raw" \/ Sent(up)') /\ UNCHANGED down
         \/ phase' \in {"blocked", "gone"} /\ One(down') /\ UNCHANGED up
  PROVE  Request' /\ Response'
<1>1. /\ phase = "request" /\ ~Flows /\ ~translated
      /\ translated' = TRUE /\ buf' = <<>> /\ keep' = FALSE
      /\ UNCHANGED <<setup, request, parts, framed, status, sized, again, known>>
  BY CompleteFacts
<1>2. UNCHANGED <<Compacts, Openai, Through>> /\ ~Through
  BY <1>1, Reading, Routed
<1>3. up = <<>> /\ down = <<>> /\ Sent(up)
  BY <1>1, <1>2 DEF Request, Response, Upstream
<1>4. Sent(up)'
  BY <1>1, <1>3, SentKept DEF Sent
<1>5. Request'
  BY <1>1, <1>4 DEF Request, Upstream
<1>6. Response'
  BY <1>1, <1>3 DEF Response, Upstream
<1> QED BY <1>5, <1>6

\* The bytes that nobody could read are those of two attempts.
LEMMA UnreadSent ==
  ASSUME Typed, Request, NEW data \in BOOLEAN, Unread(data)
  PROVE  /\ \E endpoint : Complete(data, endpoint)
         /\ phase' = "sent" /\ One(up') /\ Sent(up)' /\ UNCHANGED down
<1>1. PICK endpoint \in {"embeddings", "native", "chat"} : Complete(data, endpoint)
  BY DEF Unread
<1>2. /\ phase = "request" /\ ~translated /\ setup.endpoint # "passthrough"
      /\ Call(data, TRUE) /\ UNCHANGED <<parts, again>>
  BY <1>1, CompleteFacts DEF Complete
<1>3. PICK k \in 0 .. parts : /\ k # 0 => again
                              /\ Gathered(data) = Pieces(k) \o Pieces(next' - 1)
  BY <1>2, GatheredFacts
<1>4. parts \in Nat /\ next' - 1 = parts
  <2>1. parts \in Nat /\ next' = parts + 1
    BY <1>2, CallFacts
  <2> QED BY <2>1
<1>5. k # 0
  <2>1. k = 0 => Gathered(data) = Pieces(parts)
    BY <1>3, <1>4, PiecesFacts
  <2> QED BY <2>1 DEF Unread, Intact
<1>6. k \in 1 .. parts
  BY <1>4, <1>5
<1>7. up' = <<Raw(Gathered(data))>> /\ phase' = "sent" /\ UNCHANGED down
  BY DEF Unread
<1>8. One(up') /\ up'[1].chunks = Gathered(data)
  BY <1>7, OneWhole
<1>9. Repeated(up[1].chunks)'
  <2>1. up'[1].chunks = Pieces(k) \o Pieces(parts)
    BY <1>3, <1>4, <1>8
  <2> QED BY <1>2, <1>6, <2>1 DEF Repeated
<1>10. again'
  BY <1>2, <1>3, <1>5
<1>11. Sent(up)'
  BY <1>8, <1>9, <1>10 DEF Sent
<1> QED BY <1>1, <1>7, <1>8, <1>11

\* A chunk that goes on is the next of the pieces.
LEMMA PieceSent ==
  ASSUME Typed, NEW data \in BOOLEAN, NEW end \in BOOLEAN, Call(data, end), UNCHANGED parts,
         up = Parts(next - 1), up' = IF data THEN Append(up, Part(next)) ELSE up
  PROVE  /\ up' = Parts(next' - 1) /\ Sent(up)'
         /\ end => up' = Parts(parts)
<1>1. up' = Parts(next' - 1)
  <2>1. CASE data
    <3>1. next \in 1 .. parts /\ next' = next + 1 /\ parts \in Nat
      BY <2>1, CallFacts
    <3>2. next - 1 \in Nat /\ next = (next - 1) + 1 /\ next' - 1 = next
      BY <3>1
    <3>3. up' = Append(up, Part(next))
      BY <2>1
    <3> QED BY <3>2, <3>3, PartsFacts
  <2>2. CASE ~data
    BY <2>2, CallFacts
  <2> QED BY <2>1, <2>2
<1>2. next' - 1 \in 0 .. parts /\ (end => next' - 1 = parts)
  <2>1. parts \in Nat /\ next' \in 1 .. MaxParts + 1 /\ next' <= parts + 1
        /\ (end => next' = parts + 1)
    BY CallFacts
  <2>2. next' \in 1 .. parts + 1
    BY <2>1, PipelineAssumption
  <2> QED BY <2>1, <2>2, Previous, Zenon
<1> QED BY <1>1, <1>2 DEF Sent

\* A call of request_body_filter keeps the frame of the request.
LEMMA RequestFramed ==
  ASSUME Typed, Request, Response, RequestBody
  PROVE  Request' /\ Response'
<1>1. PICK data \in BOOLEAN :
        \/ \E end \in BOOLEAN : PassThrough(data, end) \/ FlowThrough(data, end) \/ Withhold(data, end)
        \/ Embeddings(data) \/ Unread(data) \/ ProviderGone(data)
        \/ \E d \in Decisions : Native(data, d) \/ (\E answer \in {"summary", "failure"} : Chat(data, d, answer))
  BY RequestBodySteps DEF RequestStep
<1>2. ASSUME NEW end \in BOOLEAN, FlowThrough(data, end) PROVE Request' /\ Response'
  <2>1. phase = "request" /\ Flows /\ setup.endpoint # "passthrough" /\ Call(data, end)
        /\ UNCHANGED <<setup, request, parts, keep, down, again, known>>
        /\ phase' = (IF end THEN "sent" ELSE phase) /\ translated' = (translated \/ end)
        /\ up' = IF data THEN Append(up, Part(next)) ELSE up
    BY <1>2 DEF FlowThrough
  <2>2. UNCHANGED <<Compacts, Openai, Through>> /\ Through
    BY <2>1, Reading, Routed
  <2>3. up = Parts(next - 1)
    BY <2>1, <2>2 DEF Request
  <2>4. up' = Parts(next' - 1) /\ Sent(up)' /\ (end => up' = Parts(parts))
    BY <2>1, <2>3, PieceSent
  <2>5. phase' = "request" /\ ~translated' => Gathering'
    <3>1. SUFFICES ASSUME ~end, ~translated PROVE Gathering'
      BY <2>1
    <3>2. buf' = Gathered(data)
      BY <1>2, <3>1 DEF FlowThrough
    <3> QED BY <2>1, <3>1, <3>2, GatheredFacts DEF Gathering
  <2>6. Request'
    BY <2>1, <2>2, <2>4, <2>5 DEF Request, Upstream
  <2>7. Response'
    BY <2>1 DEF Response, Upstream
  <2> QED BY <2>6, <2>7
<1>3. ASSUME NEW end \in BOOLEAN, PassThrough(data, end) PROVE Request' /\ Response'
  <2>1. phase = "request" /\ setup.endpoint = "passthrough" /\ Call(data, end)
        /\ UNCHANGED <<setup, request, parts, keep, down, again, known, translated>>
        /\ phase' = (IF end THEN "sent" ELSE phase)
        /\ up' = IF data THEN Append(up, Part(next)) ELSE up
    BY <1>3 DEF PassThrough
  <2>2. UNCHANGED <<Compacts, Openai, Through>> /\ Through
    BY <2>1, Routed DEF Through
  <2>3. up = Parts(next - 1)
    BY <2>1, <2>2 DEF Request
  <2>4. up' = Parts(next' - 1) /\ Sent(up)' /\ (end => up' = Parts(parts))
    BY <2>1, <2>3, PieceSent
  <2>5. Request'
    BY <2>1, <2>2, <2>4 DEF Request, Upstream
  <2>6. Response'
    BY <2>1 DEF Response, Upstream
  <2> QED BY <2>5, <2>6
<1>4. ASSUME NEW end \in BOOLEAN, Withhold(data, end) PROVE Request' /\ Response'
  <2>1. phase = "request" /\ ~Flows /\ Call(data, end) /\ (end => translated)
        /\ UNCHANGED <<setup, request, parts, keep, up, down, again, known, translated>>
        /\ phase' = (IF end THEN "sent" ELSE phase) /\ buf' = Gathered(data)
    BY <1>4 DEF Withhold
  <2>2. UNCHANGED <<Compacts, Openai, Through>> /\ ~Through /\ setup.endpoint # "passthrough"
    BY <2>1, Reading, Routed DEF Through
  <2>3. Sent(up)'
    BY <2>1, SentKept DEF Request
  <2>4. ~translated' => Gathering'
    BY <2>1, <2>2, GatheredFacts DEF Gathering
  <2>5. Request'
    BY <2>1, <2>2, <2>3, <2>4 DEF Request, Upstream
  <2>6. Response'
    BY <2>1 DEF Response, Upstream
  <2> QED BY <2>5, <2>6
<1>5. CASE Embeddings(data)
  <2>1. Complete(data, "embeddings") /\ phase' = "sent" /\ UNCHANGED down
        /\ up' = <<Whole(ClientBody)>>
    BY <1>5 DEF Embeddings
  <2>2. One(up') /\ up'[1].what # "raw"
    BY <2>1, OneWhole
  <2> QED BY <2>1, <2>2, CompleteFramed
<1>6. CASE Unread(data)
  BY <1>6, UnreadSent, CompleteFramed
<1>7. CASE ProviderGone(data)
  <2>1. One(down')
    BY <1>7 DEF ProviderGone, One
  <2> QED BY <1>7, <2>1, CompleteFramed DEF ProviderGone
<1>8. ASSUME NEW d, Native(data, d) PROVE Request' /\ Response'
  <2>1. \/ phase' = "sent" /\ up' = <<Whole(ClientBody)>> /\ UNCHANGED down
        \/ phase' \in {"blocked", "gone"} /\ One(down') /\ UNCHANGED up
    BY <1>8 DEF Native, One
  <2>2. \/ phase' = "sent" /\ One(up') /\ up'[1].what # "raw" /\ UNCHANGED down
        \/ phase' \in {"blocked", "gone"} /\ One(down') /\ UNCHANGED up
    BY <2>1, OneWhole
  <2>3. Complete(data, "native")
    BY <1>8 DEF Native
  <2> QED BY <2>2, <2>3, CompleteFramed
<1>9. ASSUME NEW d, NEW answer, Chat(data, d, answer) PROVE Request' /\ Response'
  <2>1. \/ phase' = "sent" /\ (\E body : up' = <<Whole(body)>>) /\ UNCHANGED down
        \/ phase' \in {"blocked", "gone"} /\ One(down') /\ UNCHANGED up
    BY <1>9 DEF Chat, One
  <2>2. \/ phase' = "sent" /\ One(up') /\ up'[1].what # "raw" /\ UNCHANGED down
        \/ phase' \in {"blocked", "gone"} /\ One(down') /\ UNCHANGED up
    BY <2>1, OneWhole
  <2>3. Complete(data, "chat")
    BY <1>9 DEF Chat
  <2> QED BY <2>2, <2>3, CompleteFramed
<1> QED BY <1>1, <1>2, <1>3, <1>4, <1>5, <1>6, <1>7, <1>8, <1>9

\* A call of upstream_response_body_filter keeps the frame of the reply.
LEMMA ResponseFramed ==
  ASSUME Typed, Request, Response, ResponseBody
  PROVE  Request' /\ Response'
<1>1. ASSUME NEW data \in BOOLEAN, NEW end \in BOOLEAN, PassResponse(data, end)
      PROVE  Request' /\ Response'
  <2>1. phase = "response" /\ Passes /\ Call(data, end)
        /\ UNCHANGED <<setup, request, parts, keep, up, buf, streaming, again, known, translated>>
        /\ phase' = (IF end THEN "done" ELSE phase)
        /\ down' = IF data THEN Append(down, Part(next)) ELSE down
    BY <1>1 DEF PassResponse
  <2>2. Passes'
    BY <2>1 DEF Passes, Gemini
  <2>3. Request'
    BY <2>1, Routed DEF Request, Upstream
  <2>4. PICK first \in 1 .. next : down = Between(first, next) /\ (known => first = 1)
    BY <2>1 DEF Response
  <2>5. /\ parts \in Nat /\ next \in Nat /\ next' \in Nat /\ (end => next' = parts + 1)
        /\ data => next' = next + 1
        /\ ~data => next' = next
    BY <2>1, CallFacts
  <2>6. first \in 1 .. next' /\ down' = Between(first, next')
    <3>1. first \in 1 .. next'
      BY <2>4, <2>5
    <3>2. data => Append(Between(first, next), Part(next)) = Between(first, next + 1)
      BY <2>4, <2>5, BetweenFacts
    <3> QED BY <2>1, <2>4, <2>5, <3>1, <3>2
  <2>7. Response'
    <3>1. CASE end
      BY <2>1, <2>4, <2>5, <2>6, <3>1 DEF Response, Upstream
    <3>2. CASE ~end
      BY <2>1, <2>2, <2>4, <2>6, <3>2 DEF Response, Upstream
    <3> QED BY <3>1, <3>2
  <2> QED BY <2>3, <2>7
<1>2. ASSUME NEW data \in BOOLEAN, HoldResponse(data) PROVE Request' /\ Response'
  <2>1. phase = "response" /\ ~Passes
        /\ UNCHANGED <<setup, request, phase, parts, keep, up, down, streaming, again, known, translated>>
    BY <1>2 DEF HoldResponse
  <2>2. ~Passes'
    BY <2>1 DEF Passes, Gemini
  <2>3. Request'
    BY <2>1, Routed DEF Request, Upstream
  <2>4. Response'
    BY <2>1, <2>2 DEF Response, Upstream
  <2> QED BY <2>3, <2>4
<1>3. ASSUME NEW data \in BOOLEAN, NEW t, NEW parses, NEW foreign, NEW d,
             Reply(data, t, parses, foreign, d)
      PROVE  Request' /\ Response'
  <2>1. phase = "response" /\ ~Passes /\ phase' = "done"
        /\ UNCHANGED <<setup, request, parts, keep, up, streaming, again, known, translated>>
        /\ down' = Append(down, Delivered(t, parses, foreign, d))
    BY <1>3 DEF Reply
  <2>2. Request'
    BY <2>1, Routed DEF Request, Upstream
  <2>3. PostCall(t, d).kind \in {"Block", "Pass", "Modify"}
    BY DEF PostCall, RunPostCall, Verdict
  <2>4. Delivered(t, parses, foreign, d).what \in {"answer", "refusal", "error"}
    BY <2>3 DEF Delivered, Answered, Refused, Reported, normalize_error_response
  <2>5. One(down')
    BY <2>1, <2>4 DEF Response, One
  <2>6. Response'
    BY <2>1, <2>5 DEF Response, Upstream
  <2> QED BY <2>2, <2>6
<1> QED BY <1>1, <1>2, <1>3 DEF ResponseBody

Framed == Typed /\ Request /\ Response

LEMMA FramedStep ==
  ASSUME Framed, Next
  PROVE  Framed'
<1>1. Typed'
  BY TypedStep DEF Framed
<1>2. CASE UpstreamRequest
  <2>1. /\ phase = "start" /\ phase' = "request" /\ keep' = (keep \/ Openai)
        /\ UNCHANGED <<setup, request, parts, next, buf, translated, up, down, again, known>>
    BY <1>2 DEF UpstreamRequest, Openai
  <2>6. Sent(up)' /\ (Gathering => Gathering')
    BY <2>1, SentKept DEF Framed, Request, Gathering
  <2>2. UNCHANGED <<Compacts, Openai, Through>> /\ (keep' <=> Openai)
    BY <2>1, Routed DEF Framed, Request
  <2>3. up' = <<>> /\ next' = 1 /\ Parts(next' - 1) = <<>>
    BY <2>1, PartsFacts DEF Framed, Request
  <2>4. Request'
    <3>1. keep' = Openai'
      BY <2>2, <1>1 DEF Typed, TypeOK, Openai
    <3> QED BY <2>1, <2>2, <2>3, <2>6, <3>1 DEF Framed, Request, Upstream
  <2>5. Response'
    BY <2>1 DEF Framed, Response, Upstream
  <2> QED BY <1>1, <2>4, <2>5 DEF Framed
<1>3. CASE RequestBody
  BY <1>1, <1>3, RequestFramed DEF Framed
<1>4. CASE NotSent
  <2>1. One(down')
    BY <1>4 DEF NotSent, Reported, One
  <2>4. Sent(up)'
    BY <1>4, SentKept DEF NotSent, Framed, Request
  <2>2. Request'
    BY <1>4, <2>4, Routed DEF NotSent, Framed, Request, Upstream
  <2>3. Response'
    BY <1>4, <2>1 DEF NotSent, Framed, Response, Upstream
  <2> QED BY <1>1, <2>2, <2>3 DEF Framed
<1>5. ASSUME NEW st, NEW n \in 1 .. MaxParts, ResponseHeaders(st, n) PROVE Framed'
  <2>1. /\ phase = "sent" /\ phase' = "response" /\ next' = 1
        /\ UNCHANGED <<setup, request, keep, translated, up, down, again, known>>
    BY <1>5 DEF ResponseHeaders
  <2>2. Request'
    BY <2>1, Routed DEF Framed, Request, Upstream
  <2>3. down' = <<>> /\ Between(next', next') = <<>> /\ Between(1, 1) = <<>>
    BY <2>1, BetweenFacts DEF Framed, Response, Upstream
  <2>4. Response'
    BY <2>1, <2>3 DEF Response, Upstream
  <2> QED BY <1>1, <2>2, <2>4 DEF Framed
<1>6. CASE ResponseBody
  BY <1>1, <1>6, ResponseFramed DEF Framed
<1>7. CASE Retry
  <2>1. /\ phase \in {"request", "sent"} /\ phase' = "start" /\ next' = 1 /\ up' = <<>>
        /\ again' = TRUE
        /\ UNCHANGED <<setup, request, keep, buf, down, known>>
    BY <1>7 DEF Retry
  <2>2. Sent(up)'
    <3>1. parts' \in Nat
      BY <1>1, PipelineAssumption DEF Typed, TypeOK
    <3> QED BY <2>1, <3>1, PartsFacts DEF Sent
  <2>5. ~translated' /\ setup.endpoint # "passthrough" => Gathering'
    <3>1. SUFFICES ASSUME ~translated, setup.endpoint # "passthrough" PROVE Gathering'
      BY <1>7 DEF Retry
    <3>2. phase = "request"
      BY <2>1, <3>1 DEF Framed, Request
    <3>3. PICK k \in 0 .. parts : (k # 0 => again) /\ buf = Pieces(k) \o Pieces(next - 1)
      BY <3>1, <3>2 DEF Framed, Request, Gathering
    <3>4. ~again /\ next - 1 \in 0 .. parts
      BY <1>1, <1>7, PipelineAssumption DEF Framed, Retry, Typed, TypeOK
    <3>5. next - 1 \in Nat /\ parts' = parts /\ next' - 1 = 0
      BY <1>7, <3>4 DEF Retry
    <3>6. buf' = Pieces(next - 1) \o Pieces(0)
      BY <1>7, <3>3, <3>4, <3>5, PiecesFacts DEF Retry
    <3> QED BY <2>1, <3>4, <3>5, <3>6 DEF Gathering
  <2>3. Request'
    BY <1>7, <2>1, <2>2, <2>5, Routed DEF Framed, Request, Upstream, Retry
  <2>4. Response'
    BY <2>1 DEF Framed, Response, Upstream
  <2> QED BY <1>1, <2>3, <2>4 DEF Framed
<1>8. CASE Reload
  <2>3. Sent(up) => Sent(up)'
    BY <1>8, SentKept DEF Reload
  <2>4. Gathering => Gathering'
    BY <1>8 DEF Reload, Gathering
  <2>1. Request'
    BY <1>8, <2>3, <2>4, Routed DEF Reload, Framed, Request, Upstream
  <2>5. /\ phase \in {"request", "sent", "response"} /\ ~known'
        /\ UNCHANGED <<setup, phase, parts, next, down, streaming>>
    BY <1>8 DEF Reload
  <2>6. Passes => Passes'
    BY <2>5 DEF Passes, Gemini
  <2>7. next \in 1 .. next /\ <<>> = Between(next, next)
    BY <1>1, BetweenFacts, PipelineAssumption DEF Framed, Typed, TypeOK
  <2>2. Response'
    BY <2>5, <2>6, <2>7 DEF Framed, Response, Upstream
  <2> QED BY <1>1, <2>1, <2>2 DEF Framed
<1> QED BY <1>2, <1>3, <1>4, <1>5, <1>6, <1>7, <1>8 DEF Next

LEMMA FramedAlways == Spec => []Framed
<1>1. Init => Framed
  BY InitFramed DEF Framed
<1>2. Framed /\ [Next]_vars => Framed'
  <2>1. ASSUME Framed, UNCHANGED vars PROVE Framed'
    <3>1. UNCHANGED <<Compacts, Openai, Through>>
      BY <2>1, Routed DEF vars
    <3>2. UNCHANGED <<Passes>>
      BY <2>1 DEF vars, Passes, Gemini
    <3>3. (Sent(up) <=> Sent(up)') /\ (Gathering <=> Gathering')
      BY <2>1 DEF Sent, Repeated, Gathering, vars
    <3> QED BY <2>1, <3>1, <3>2, <3>3
          DEF Framed, Typed, TypeOK, Request, Response, vars
  <2> QED BY <2>1, FramedStep
<1> QED BY <1>1, <1>2, PTL DEF Spec

\* Type correctness, for any cases and any number of chunks
\* (gateway.rs:828-1789).
THEOREM TypeCorrect == Spec => []TypeOK
<1>1. Framed => TypeOK
  BY DEF Framed, Typed
<1> QED BY <1>1, FramedAlways, PTL

\* Chunks passed on in order are a prefix of the body.
LEMMA PartsSpan ==
  ASSUME NEW n \in Nat
  PROVE  Len(Parts(n)) = n /\ Span(Parts(n), 1, Len(Parts(n)) + 1)
<1>1. Len(Parts(n)) = n /\ DOMAIN Parts(n) = 1 .. n
  <2>1. DOMAIN Parts(n) = 1 .. n
    BY DEF Parts
  <2> QED BY <2>1, PartsFacts
<1>2. \A i \in 1 .. n : Parts(n)[i] = Part(i)
  BY PartsFacts, Zenon
<1>4. \A i \in 1 .. n : 1 + i - 1 = i
  OBVIOUS
<1>3. (n + 1) - 1 = n
  OBVIOUS
<1> QED BY <1>1, <1>2, <1>3, <1>4 DEF Span

\* The upstream is sent the client's pieces in order or one body in their
\* place, however the body is cut and its end announced; only after a retry may
\* that body be one that was gathered twice over and not read
\* (gateway.rs:968-1361).
THEOREM BodyWholeAlways == Spec => []BodyWhole
<1>1. ASSUME Framed PROVE BodyWhole
  <2>1. SUFFICES ASSUME phase \notin {"response", "done"} PROVE BodyWhole
    BY DEF BodyWhole
  <2>2. Sent(up) /\ parts \in Nat
    BY <1>1, <2>1, PipelineAssumption DEF Framed, Request, Typed, TypeOK
  <2>3. One(up) \/ (Len(up) <= parts /\ Span(up, 1, Len(up) + 1))
    <3>1. ASSUME NEW n \in 0 .. parts, up = Parts(n)
          PROVE  Len(up) <= parts /\ Span(up, 1, Len(up) + 1)
      <4>1. n \in Nat /\ n <= parts
        BY <2>2
      <4> QED BY <3>1, <4>1, PartsSpan
    <3> QED BY <2>2, <3>1 DEF Sent
  <2>4. One(up) /\ up[1].what = "raw" => again /\ Repeated(up[1].chunks)
    <3>1. ASSUME NEW n \in 0 .. parts, up = Parts(n) PROVE ~One(up)
      <4>2. n \in Nat /\ (n = 1 => 1 \in 1 .. n)
        BY <2>2
      <4>1. n \in Nat /\ (n = 1 => Parts(n)[1] = Part(1)) /\ Len(Parts(n)) = n
        BY <4>2, PartsFacts
      <4> QED BY <3>1, <4>1 DEF One, Part
    <3> QED BY <2>2, <3>1 DEF Sent
  <2>5. phase = "request" /\ ~Flows => up = <<>>
    BY <1>1, Reading DEF Framed, Request
  <2>6. phase = "sent" /\ ~again => One(up) \/ Len(up) = parts
    BY <1>1, <2>2, PartsSpan DEF Framed, Request
  <2> QED BY <2>3, <2>4, <2>5, <2>6 DEF BodyWhole
<1> QED BY <1>1, FramedAlways, PTL

\* The client is given the pieces of the response in order, without a gap and
\* without the first ones only when the provider was reloaded away, or one body
\* in their place (gateway.rs:1449-1789).
THEOREM ReplyWholeAlways == Spec => []ReplyWhole
<1>1. ASSUME Framed PROVE ReplyWhole
  <2>1. next \in Nat /\ parts \in Nat /\ next >= 1
    BY <1>1, PipelineAssumption DEF Framed, Typed, TypeOK
  <2>2. phase \in Upstream \cup {"blocked", "gone", "response", "done"}
    BY <1>1 DEF Framed, Typed, TypeOK, Upstream
  <2>3. Span(<<>>, next, next)
    BY <2>1, BetweenFacts
  <2>4. phase = "done" => \/ One(down)
                          \/ \E first \in 1 .. parts + 1 : /\ Span(down, first, parts + 1)
                                                           /\ known => first = 1
    <3>1. ASSUME NEW first \in 1 .. parts + 1 PROVE Span(Between(first, parts + 1), first, parts + 1)
      BY <2>1, BetweenFacts
    <3> QED BY <1>1, <3>1 DEF Framed, Response
  <2>5. One(down) \/ \E first \in 1 .. next : Span(down, first, next)
    <3>1. CASE phase \in Upstream \/ (phase = "response" /\ ~Passes)
      BY <1>1, <2>1, <2>3, <3>1 DEF Framed, Response
    <3>2. CASE phase = "response" /\ Passes
      BY <1>1, <2>1, <3>2, BetweenFacts DEF Framed, Response
    <3>3. CASE phase = "done"
      BY <1>1, <2>4, <3>3 DEF Framed, Response, Typed
    <3>4. CASE phase \in {"blocked", "gone"}
      BY <1>1, <3>4 DEF Framed, Response
    <3> QED BY <2>2, <3>1, <3>2, <3>3, <3>4
  <2> QED BY <2>4, <2>5 DEF ReplyWhole
<1> QED BY <1>1, FramedAlways, PTL

-----------------------------------------------------------------------------
(* What one entry of the engine makes of a text. *)

Providers == Scanners \cup {"prompt_guard", "keyword_block", "cel", "webhook", "lakera"}

Entries ==
  [name : STRING, provider : Providers, finds : SUBSET Kinds, default_on : BOOLEAN,
   mode : {"pre_call", "post_call", "both"}, action : {"block", "redact", "log_only"}]

Texts == SUBSET (Kinds \cup {Masked})

States == [applied : Seq(STRING), blocked : BOOLEAN, text : Texts]

Sides == {"pre_call", "post_call"}

\* An entry that looks for itself, at a text of this side.
Watches(e, mode) ==
  /\ e.provider \notin External
  /\ mode = "post_call" => e.provider \notin {"prompt_guard", "secret_scan"}

\* An entry that takes out of a text of this side what it looks for.
Redacts(e, mode) == Watches(e, mode) /\ e.provider \in Scanners /\ e.action = "redact"

\* An entry whose service has answered with a text of its own.
Rewrote(e, decision) == e.provider = "webhook" /\ decision.answer = "modify"

\* An entry that refuses a text, and for what.
Refuses(e, text, decision) ==
  /\ e.action = "block"
  /\ \/ e.provider \in External /\ decision.answer = "block"
     \/ e.provider \notin External /\ e.finds \cap text # {}

\* The text a webhook answers with is a text.
LEMMA RewritesText ==
  ASSUME NEW e, NEW decision \in Decisions, Rewrote(e, decision)
  PROVE  decision.text \in Texts
BY GuardrailAssumption DEF Rewrote, Decisions, Texts

\* An entry changes a text only by redacting it or by a webhook's word, blocks for a
\* cause, and does not let pass what it is to block or to redact.
LEMMA CheckFacts ==
  ASSUME NEW e \in Entries, NEW text \in Texts, NEW mode \in Sides, NEW decision \in Decisions
  PROVE  LET v == Check(e, text, mode, decision) IN
         /\ v.kind = "Modify" =>
              \/ Redacts(e, mode) /\ v.text = Redacted(text, e.finds)
              \/ Rewrote(e, decision) /\ v.text = decision.text
         /\ v.kind = "Block" =>
              \/ e.provider \in External /\ decision.answer = "block"
              \/ e.provider \notin External /\ e.finds \cap text # {}
         /\ Watches(e, mode) /\ e.finds \cap text # {} =>
              /\ e.action = "block" => v.kind = "Block"
              /\ Redacts(e, mode) => v.kind = "Modify"
<1> DEFINE v == Check(e, text, mode, decision)
<1> USE DEF Redacts, Rewrote, External, Watches, Pass, Block, Log, Modify
<1>1. e.provider \in Providers /\ e.action \in {"block", "redact", "log_only"}
  BY DEF Entries
<1>2. CASE mode = "post_call" /\ e.provider \in {"prompt_guard", "secret_scan"}
  <2>1. v.kind = "Pass"
    BY <1>2 DEF Check, CheckOutput
  <2> QED BY <1>2, <2>1
<1>3. CASE ~(mode = "post_call" /\ e.provider \in {"prompt_guard", "secret_scan"})
  <2>1. v = CheckInput(e, text, decision)
    BY <1>3 DEF Check, CheckOutput, Sides
  <2>2. CASE e.provider \in Scanners
    <3>1. v = Scan(e, text)
      BY <2>1, <2>2 DEF CheckInput, Scanners
    <3> QED BY <1>1, <1>3, <2>2, <3>1 DEF Scan, Scanners
  <2>3. CASE e.provider \in {"prompt_guard", "keyword_block", "cel"}
    <3>1. v = Match(e, text)
      BY <2>1, <2>3 DEF CheckInput, Scanners
    <3> QED BY <1>1, <2>3, <3>1 DEF Match, Scanners
  <2>4. CASE e.provider = "webhook"
    <3>1. v = Webhook(decision)
      BY <2>1, <2>4 DEF CheckInput, Scanners
    <3> QED BY <2>4, <3>1 DEF Webhook, Decisions
  <2>5. CASE e.provider = "lakera"
    <3>1. v = Lakera(decision)
      BY <2>1, <2>5 DEF CheckInput, Scanners
    <3> QED BY <2>5, <3>1 DEF Lakera
  <2> QED BY <1>1, <2>2, <2>3, <2>4, <2>5 DEF Providers
<1> QED BY <1>2, <1>3

(* One turn of the engine's loop. *)
Turn(st, e, asked, scope, mode, decision) ==
  IF st.blocked \/ ~active_entry(e, asked, scope, mode) THEN st
  ELSE RunEntry(st, e, Check(e, st.text, mode, decision))

\* What one turn of the loop makes of the text and of the verdict so far.
LEMMA TurnFacts ==
  ASSUME NEW st \in States, NEW e \in Entries, NEW asked, NEW scope, NEW mode \in Sides,
         NEW decision \in Decisions
  PROVE  LET new == Turn(st, e, asked, scope, mode, decision)
             active == active_entry(e, asked, scope, mode) IN
         /\ new \in States
         /\ \/ /\ new.text \subseteq st.text \cup {Masked}
               /\ \A x \in st.text \ new.text : active /\ x \in e.finds /\ Redacts(e, mode)
            \/ active /\ Rewrote(e, decision) /\ new.text = decision.text
         /\ st.blocked => new.blocked
         /\ new.blocked => st.blocked \/ (active /\ Refuses(e, st.text, decision))
         /\ ~new.blocked /\ active /\ Watches(e, mode) =>
              /\ e.action = "block" => e.finds \cap st.text = {}
              /\ e.action = "block" \/ Redacts(e, mode) => e.finds \cap new.text = {}
<1> DEFINE new    == Turn(st, e, asked, scope, mode, decision)
           active == active_entry(e, asked, scope, mode)
           v      == Check(e, st.text, mode, decision)
<1>1. CASE st.blocked \/ ~active
  <2>1. new = st
    BY <1>1 DEF Turn
  <2> QED BY <1>1, <2>1
<1>2. CASE ~st.blocked /\ active
  <2>1. new = [applied |-> Append(st.applied, e.name),
               blocked |-> v.kind = "Block" /\ e.action = "block",
               text    |-> IF v.kind = "Modify" THEN v.text ELSE st.text]
    BY <1>2 DEF Turn, RunEntry
  <2>2. /\ st.text \in Texts /\ e.finds \in SUBSET Kinds /\ e.name \in STRING
        /\ st.applied \in Seq(STRING)
    BY DEF States, Entries
  <2>3. /\ v.kind = "Modify" =>
             \/ Redacts(e, mode) /\ v.text = Redacted(st.text, e.finds)
             \/ Rewrote(e, decision) /\ v.text = decision.text
        /\ v.kind = "Block" =>
             \/ e.provider \in External /\ decision.answer = "block"
             \/ e.provider \notin External /\ e.finds \cap st.text # {}
        /\ Watches(e, mode) /\ e.finds \cap st.text # {} =>
             /\ e.action = "block" => v.kind = "Block"
             /\ Redacts(e, mode) => v.kind = "Modify"
    BY <2>2, CheckFacts
  <2>4. ~(Watches(e, mode) /\ Rewrote(e, decision))
    BY DEF Watches, Rewrote, External
  <2>5. Rewrote(e, decision) => decision.text \in Texts
    BY RewritesText
  <2>6. Masked \notin e.finds
    BY <2>2, GuardrailAssumption
  <2> HIDE DEF v, active
  <2>7. new.text \in Texts /\ new \in States
    <3>1. Redacted(st.text, e.finds) \in Texts
      BY <2>2 DEF Redacted, Texts
    <3>2. new.text \in Texts
      BY <2>1, <2>2, <2>3, <2>5, <3>1
    <3> QED BY <2>1, <2>2, <3>2 DEF States
  <2>8. \/ /\ new.text \subseteq st.text \cup {Masked}
           /\ \A x \in st.text \ new.text : x \in e.finds /\ Redacts(e, mode)
        \/ Rewrote(e, decision) /\ new.text = decision.text
    BY <2>1, <2>3 DEF Redacted
  <2>9. new.blocked <=> v.kind = "Block" /\ e.action = "block"
    <3>1. new.blocked = (v.kind = "Block" /\ e.action = "block")
      BY <2>1
    <3> QED BY <3>1, Zenon
  <2>10. ASSUME ~new.blocked, Watches(e, mode)
         PROVE  /\ e.action = "block" => e.finds \cap st.text = {}
                /\ e.action = "block" \/ Redacts(e, mode) => e.finds \cap new.text = {}
    <3>1. CASE e.finds \cap st.text = {}
      BY <3>1, <2>4, <2>6, <2>8, <2>10
    <3>2. CASE e.finds \cap st.text # {}
      <4>1. e.action # "block"
        BY <2>3, <2>9, <2>10, <3>2
      <4>2. Redacts(e, mode) => new.text = Redacted(st.text, e.finds)
        BY <2>1, <2>3, <2>4, <2>10, <3>2
      <4> QED BY <4>1, <4>2, <2>6 DEF Redacted
    <3> QED BY <3>1, <3>2
  <2>11. new.blocked => Refuses(e, st.text, decision)
    BY <2>3, <2>9 DEF Refuses
  <2> HIDE DEF new
  <2>12. st.blocked => new.blocked
    BY <1>2
  <2> QED
    <3>1. active
      BY <1>2
    <3> HIDE DEF Refuses, Redacts, Watches, Rewrote
    <3> QED BY <3>1, <2>7, <2>8, <2>10, <2>11, <2>12 DEF active, new
<1> QED BY <1>1, <1>2

(* The engine goes through its entries one at a time. *)
Start(text) == [applied |-> <<>>, blocked |-> FALSE, text |-> text]

Turns(h, engine, asked, scope, mode, text, decision) ==
  /\ h \in [0 .. Len(engine) -> States]
  /\ h[0] = Start(text)
  /\ \A k \in 1 .. Len(engine) :
       h[k] = Turn(h[k - 1], engine[k], asked, scope, mode, decision)
  /\ Run(engine, asked, scope, mode, text, decision) = h[Len(engine)]

\* The fold of Run, as the history of its turns.
LEMMA RunSteps ==
  ASSUME NEW engine \in Seq(Entries), NEW asked, NEW scope, NEW mode \in Sides,
         NEW text \in Texts, NEW decision \in Decisions
  PROVE  \E h : Turns(h, engine, asked, scope, mode, text, decision)
<1> DEFINE n == Len(engine)
           T(st, e) == Turn(st, e, asked, scope, mode, decision)
           step == [p \in (1 .. n) \X States |-> T(p[2], engine[p[1]])]
           Iter(f) == f = [t \in SUBSET DOMAIN engine |->
                             IF t = {} THEN Start(text)
                             ELSE LET x == Max(t) IN T(f[t \ {x}], engine[x])]
           iter == CHOOSE f : Iter(f)
<1>1. Run(engine, asked, scope, mode, text, decision) = iter[DOMAIN engine]
  BY DEF Run, Turn, Start, FoldLeft, MapThenFoldSet
<1>2. n \in Nat /\ DOMAIN engine = 1 .. n /\ \A k \in 1 .. n : engine[k] \in Entries
  OBVIOUS
<1>3. Start(text) \in States
  BY EmptySeq DEF Start, States
<1>4. \A st \in States : \A e \in Entries : T(st, e) \in States
  BY TurnFacts
<1> HIDE DEF T
<1>5. Stepping(step, n, States)
  BY <1>2, <1>4 DEF Stepping
<1>6. PICK f : FoldsMax(f, n, States, Start(text), step)
  <2> HIDE DEF step, n
  <2> QED BY <1>2, <1>3, <1>5, FoldMaxExists
<1>7. ASSUME NEW t \in SUBSET (1 .. n), t # {}
      PROVE  step[<<Max(t), f[t \ {Max(t)}]>>] = T(f[t \ {Max(t)}], engine[Max(t)])
  <2>1. Max(t) \in 1 .. n
    BY <1>2, <1>7, MaxMin
  <2>2. f[t \ {Max(t)}] \in States
    BY <1>6 DEF FoldsMax
  <2> QED BY <2>1, <2>2
<1>8. Iter(f)
  <2> HIDE DEF step
  <2> QED BY <1>2, <1>6, <1>7 DEF FoldsMax
<1>9. Iter(iter)
  <2> HIDE DEF Iter
  <2> QED BY <1>8
<1> HIDE DEF iter
<1>10. iter[{}] = Start(text)
  <2>1. {} \in SUBSET DOMAIN engine
    OBVIOUS
  <2> QED BY <2>1, <1>9
<1>11. ASSUME NEW k \in 1 .. n, iter[1 .. k - 1] \in States
       PROVE  iter[1 .. k] = step[<<k, iter[1 .. k - 1]>>]
  <2>1. iter[1 .. k] = T(iter[1 .. k - 1], engine[k])
    <3> DEFINE t == 1 .. k
    <3>1. /\ t \in SUBSET DOMAIN engine /\ t # {}
          /\ Max(t) = k /\ t \ {Max(t)} = 1 .. k - 1
      BY <1>2, PrefixMax
    <3> HIDE DEF t
    <3>2. iter[t] = T(iter[t \ {Max(t)}], engine[Max(t)])
      BY <1>9, <3>1
    <3> QED BY <3>1, <3>2 DEF t
  <2> QED BY <2>1, <1>11
<1>12. PICK h : Climb(h, n, States, Start(text), step) /\ iter[1 .. n] = h[n]
  <2>1. ClimbsBy(iter, n, States, Start(text), step)
    <3> HIDE DEF step, n
    <3> QED BY <1>10, <1>11 DEF ClimbsBy
  <2> HIDE DEF step, n
  <2> QED BY <1>2, <1>3, <1>5, <2>1, UnrollMax
<1>13. \A k \in 1 .. n : h[k] = Turn(h[k - 1], engine[k], asked, scope, mode, decision)
  <2>1. ASSUME NEW k \in 1 .. n PROVE h[k] = T(h[k - 1], engine[k])
    <3>1. h[k - 1] \in States /\ h[k] = step[<<k, h[k - 1]>>]
      <4> HIDE DEF step, n
      <4> QED BY <1>2, <1>12, ClimbAt
    <3> QED BY <3>1
  <2> QED BY <2>1 DEF T
<1> QED BY <1>1, <1>2, <1>12, <1>13 DEF Turns, Climb

(* What the engine makes of a text, entry by entry.  Up to the first webhook *)
(* that rewrites it, the text holds nothing but what the client or the model *)
(* has said and the mask, and lacks nothing but what has been redacted.      *)
LEMMA RunFacts ==
  ASSUME NEW engine \in Seq(Entries), NEW asked, NEW scope, NEW mode \in Sides,
         NEW text \in Texts, NEW decision \in Decisions
  PROVE  LET r       == Run(engine, asked, scope, mode, text, decision)
             Acts(i) == active_entry(engine[i], asked, scope, mode)
             New(i)  == Acts(i) /\ Rewrote(engine[i], decision)
             seen(i) == text \cup {Masked} \cup
                        (IF \E j \in DOMAIN engine : j < i /\ New(j) THEN decision.text ELSE {})
             gone(i) == UNION {engine[j].finds :
                          j \in {j \in DOMAIN engine : j < i /\ Acts(j) /\ Redacts(engine[j], mode)}}
         IN
         /\ r \in States
         /\ r.blocked =>
              \E i \in DOMAIN engine : Acts(i) /\ Refuses(engine[i], seen(i), decision)
         /\ ~r.blocked =>
              \A i \in DOMAIN engine : Acts(i) /\ Watches(engine[i], mode) =>
                /\ engine[i].action = "block" =>
                     \/ \E j \in DOMAIN engine : j < i /\ New(j)
                     \/ engine[i].finds \cap (text \ gone(i)) = {}
                /\ engine[i].action = "block" \/ Redacts(engine[i], mode) =>
                     \/ \E j \in DOMAIN engine : i < j /\ New(j)
                     \/ engine[i].finds \cap r.text = {}
<1>0. PICK h : Turns(h, engine, asked, scope, mode, text, decision)
  BY RunSteps
<1> DEFINE n       == Len(engine)
           r       == Run(engine, asked, scope, mode, text, decision)
           Acts(i) == active_entry(engine[i], asked, scope, mode)
           New(i)  == Acts(i) /\ Rewrote(engine[i], decision)
           Out(i)  == Acts(i) /\ Redacts(engine[i], mode)
<1>1. /\ h \in [0 .. n -> States] /\ h[0] = Start(text)
      /\ \A k \in 1 .. n : h[k] = Turn(h[k - 1], engine[k], asked, scope, mode, decision)
      /\ r = h[n]
  BY <1>0 DEF Turns
<1> DEFINE Known(k) == text \cup {Masked} \cup
                       (IF \E j \in 1 .. k : New(j) THEN decision.text ELSE {})
           Adds(k)   == h[k].text \subseteq Known(k)
           Loses(k)  == \/ \E j \in 1 .. k : New(j)
                        \/ \A x \in text \ h[k].text : \E j \in 1 .. k : Out(j) /\ x \in engine[j].finds
           Causes(k) == h[k].blocked =>
                          \E i \in 1 .. k : Acts(i) /\ Refuses(engine[i], Known(i - 1), decision)
           Cleans(i, k) == engine[i].action = "block" \/ Redacts(engine[i], mode) =>
             \/ \E j \in i + 1 .. k : New(j)
             \/ engine[i].finds \cap h[k].text = {}
           Frees(i) == engine[i].action = "block" =>
             \/ \E j \in 1 .. i - 1 : New(j)
             \/ \A x \in engine[i].finds \cap text :
                  \E j \in 1 .. i - 1 : Out(j) /\ x \in engine[j].finds
           Holds(k)  == ~h[k].blocked =>
             \A i \in 1 .. k : Acts(i) /\ Watches(engine[i], mode) => Cleans(i, k) /\ Frees(i)
           S == {k \in 0 .. n : Adds(k) /\ Loses(k) /\ Causes(k) /\ Holds(k)}
<1>2. n \in Nat /\ DOMAIN engine = 1 .. n /\ \A k \in 1 .. n : engine[k] \in Entries
  OBVIOUS
<1>3. 0 \in S
  BY <1>1, <1>2 DEF Start
<1>4. ASSUME NEW k \in 1 .. n, k - 1 \in S PROVE k \in S
  <2> DEFINE st == h[k - 1]
             e  == engine[k]
  <2>1. st \in States /\ e \in Entries /\ h[k] = Turn(st, e, asked, scope, mode, decision)
    BY <1>1, <1>2
  <2>2. Adds(k - 1) /\ Loses(k - 1) /\ Causes(k - 1) /\ Holds(k - 1)
    BY <1>4
  <2>3. /\ \/ /\ h[k].text \subseteq st.text \cup {Masked}
              /\ \A x \in st.text \ h[k].text : x \in e.finds /\ Out(k)
           \/ New(k) /\ h[k].text = decision.text
        /\ st.blocked => h[k].blocked
        /\ h[k].blocked => st.blocked \/ (Acts(k) /\ Refuses(e, st.text, decision))
        /\ ~h[k].blocked /\ Acts(k) /\ Watches(e, mode) =>
             /\ e.action = "block" => e.finds \cap st.text = {}
             /\ e.action = "block" \/ Redacts(e, mode) => e.finds \cap h[k].text = {}
    BY <2>1, TurnFacts
  <2>4. \A i \in 1 .. n : Masked \notin engine[i].finds
    BY <1>2, GuardrailAssumption DEF Entries
  <2>5. k - 1 \in 0 .. n /\ 1 .. k = (1 .. k - 1) \cup {k} /\ 1 .. k \subseteq 1 .. n
    BY <1>2
  <2> HIDE DEF st, e, n, Acts, New, Out
  <2>6. Adds(k)
    BY <2>2, <2>3, <2>5 DEF st
  <2>7. Loses(k)
    BY <2>2, <2>3, <2>5 DEF st, e
  <2>8. Causes(k)
    <3> HIDE DEF Known
    <3>1. CASE st.blocked
      BY <3>1, <2>2, <2>5 DEF st
    <3>2. CASE ~st.blocked
      <4>1. Refuses(e, st.text, decision) => Refuses(e, Known(k - 1), decision)
        BY <2>2 DEF st, Refuses
      <4> QED BY <4>1, <3>2, <2>3, <2>5 DEF e
    <3> QED BY <3>1, <3>2
  <2>9. ASSUME ~h[k].blocked, NEW i \in 1 .. k, Acts(i), Watches(engine[i], mode)
        PROVE  Cleans(i, k) /\ Frees(i)
    <3>1. CASE i \in 1 .. k - 1
      <4>1. Cleans(i, k - 1) /\ Frees(i)
        <5> HIDE DEF Cleans, Frees
        <5> QED BY <3>1, <2>2, <2>3, <2>9 DEF st
      <4>2. \A j \in i + 1 .. k - 1 : j \in i + 1 .. k
        BY <3>1
      <4>3. k \in i + 1 .. k
        BY <3>1
      <4>4. Cleans(i, k)
        BY <4>1, <4>2, <4>3, <2>3, <2>4, <2>5 DEF st
      <4> QED BY <4>1, <4>4
    <3>2. CASE i = k
      <4>1. Cleans(k, k)
        BY <3>2, <2>3, <2>9 DEF e
      <4>2. Frees(k)
        BY <3>2, <2>2, <2>3, <2>9 DEF e, st
      <4> QED BY <3>2, <4>1, <4>2
    <3> QED BY <3>1, <3>2, <2>5
  <2> QED
    <3> HIDE DEF Cleans, Frees, Adds, Loses, Causes
    <3> QED BY <2>5, <2>6, <2>7, <2>8, <2>9
<1>5. n \in S
  <2>1. 0 .. n \subseteq S
    <3> HIDE DEF S, n
    <3> QED BY <1>2, <1>3, <1>4, Upwards
  <2> HIDE DEF S
  <2> QED BY <2>1, <1>2
<1>6. r \in States
  BY <1>1, <1>2
<1> DEFINE seen(i) == text \cup {Masked} \cup
                      (IF \E j \in DOMAIN engine : j < i /\ New(j) THEN decision.text ELSE {})
           gone(i) == UNION {engine[j].finds :
                        j \in {j \in DOMAIN engine : j < i /\ Out(j)}}
<1>7. /\ \A i \in 1 .. n : \A j \in 1 .. i - 1 : j \in DOMAIN engine /\ j < i
      /\ \A i \in 1 .. n : \A j \in DOMAIN engine : j < i => j \in 1 .. i - 1
      /\ \A i \in 1 .. n : \A j \in i + 1 .. n : j \in DOMAIN engine /\ i < j
  BY <1>2
<1> HIDE DEF n, r, Acts, New, Out
<1>8. Causes(n) /\ Holds(n)
  BY <1>5
<1>9. \A i \in 1 .. n : Known(i - 1) = seen(i)
  BY <1>7
<1>10. r.blocked => \E i \in DOMAIN engine : Acts(i) /\ Refuses(engine[i], seen(i), decision)
  <2> HIDE DEF seen, Known
  <2> QED BY <1>1, <1>2, <1>8, <1>9
<1>11. ASSUME ~r.blocked, NEW i \in DOMAIN engine, Acts(i), Watches(engine[i], mode)
      PROVE  /\ engine[i].action = "block" =>
                  \/ \E j \in DOMAIN engine : j < i /\ New(j)
                  \/ engine[i].finds \cap (text \ gone(i)) = {}
             /\ engine[i].action = "block" \/ Redacts(engine[i], mode) =>
                  \/ \E j \in DOMAIN engine : i < j /\ New(j)
                  \/ engine[i].finds \cap r.text = {}
  <2>1. Cleans(i, n) /\ Frees(i) /\ i \in 1 .. n
    <3> HIDE DEF Cleans, Frees
    <3> QED BY <1>1, <1>2, <1>8, <1>11
  <2>2. \A x : (\E j \in 1 .. i - 1 : Out(j) /\ x \in engine[j].finds) => x \in gone(i)
    BY <1>7, <2>1
  <2>3. Frees(i) /\ engine[i].action = "block" =>
          \/ \E j \in DOMAIN engine : j < i /\ New(j)
          \/ engine[i].finds \cap (text \ gone(i)) = {}
    <3> HIDE DEF gone
    <3> QED BY <2>1, <2>2, <1>7
  <2>4. Cleans(i, n) => (engine[i].action = "block" \/ Redacts(engine[i], mode) =>
                            \/ \E j \in DOMAIN engine : i < j /\ New(j)
                            \/ engine[i].finds \cap r.text = {})
    BY <2>1, <1>1, <1>7
  <2> QED BY <2>1, <2>3, <2>4
<1> USE DEF r, Acts, New, Out
<1> HIDE DEF r
<1>12. /\ r.blocked => \E i \in DOMAIN engine : Acts(i) /\ Refuses(engine[i], seen(i), decision)
       /\ ~r.blocked =>
            \A i \in DOMAIN engine : Acts(i) /\ Watches(engine[i], mode) =>
                /\ engine[i].action = "block" =>
                     \/ \E j \in DOMAIN engine : j < i /\ New(j)
                     \/ engine[i].finds \cap (text \ gone(i)) = {}
                /\ engine[i].action = "block" \/ Redacts(engine[i], mode) =>
                     \/ \E j \in DOMAIN engine : i < j /\ New(j)
                     \/ engine[i].finds \cap r.text = {}
  <2> HIDE DEF seen, gone, Acts, New
  <2> QED BY <1>10, <1>11
<1> USE DEF r
<1> QED BY <1>6, <1>12, Zenon

-----------------------------------------------------------------------------
(* What the hooks make of it.  The setup and the request never change. *)

Setups ==
  [endpoint : {"passthrough", "embeddings", "native", "chat"}, translator : STRING,
   engine : Seq(Entries), scope : SUBSET STRING, compactor : {None} \cup CompactorConfigs]

Configured ==
  /\ setup \in Setups
  /\ request \in ClientRequests
  /\ setup.compactor # None => FromConfig(setup.compactor).strategy # "error"

\* build_engine makes an entry of every table, in their order, or the configuration is refused.
LEMMA EngineBuilt ==
  ASSUME NEW configs \in Seq(GuardrailConfigs), EngineLoads(configs)
  PROVE  BuildEngine(configs) \in Seq(Entries)
<1> DEFINE n == Len(configs)
           entry(i) ==
             [name |-> configs[i].name, provider |-> configs[i].provider, finds |-> configs[i].finds,
              default_on |-> configs[i].default_on, mode |-> ParseMode(configs[i].mode),
              action |-> ParseAction(configs[i].action)]
<1>1. n \in Nat /\ DOMAIN configs = 1 .. n /\ \A i \in 1 .. n : configs[i] \in GuardrailConfigs
  OBVIOUS
<1>2. ASSUME NEW i \in 1 .. n PROVE entry(i) \in Entries
  <2>1. configs[i] \in GuardrailConfigs
    BY <1>1
  <2>2. CreateGuardrail(configs[i])
    BY <1>1 DEF EngineLoads
  <2>3. configs[i].provider \in Providers
    BY <2>2 DEF CreateGuardrail, Providers
  <2>4. /\ ParseMode(configs[i].mode) \in {"pre_call", "post_call", "both"}
        /\ ParseAction(configs[i].action) \in {"block", "redact", "log_only"}
    BY DEF ParseMode, ParseAction
  <2> QED BY <2>1, <2>3, <2>4 DEF Entries, GuardrailConfigs
<1>3. BuildEngine(configs) = [i \in 1 .. n |-> entry(i)]
  BY <1>1 DEF BuildEngine
<1> HIDE DEF entry, n
<1>4. [i \in 1 .. n |-> entry(i)] \in [1 .. n -> Entries]
  BY <1>2
<1>5. [i \in 1 .. n |-> entry(i)] \in Seq(Entries)
  BY <1>1, <1>4
<1> QED BY <1>3, <1>5

\* The engine of the initial setup has been built from the route's configuration.
LEMMA InitConfigured ==
  ASSUME Init
  PROVE  Configured
<1>1. PICK case \in Cases :
        /\ Loads(case[1])
        /\ setup = [case[1] EXCEPT !.engine = BuildEngine(case[1].engine)] /\ request = case[2]
  BY DEF Init
<1>2. case[1] \in RouteSetups /\ case[2] \in ClientRequests
  BY PipelineAssumption
<1>3. BuildEngine(case[1].engine) \in Seq(Entries)
  BY <1>1, <1>2, EngineBuilt DEF RouteSetups, Loads
<1>4. setup \in Setups /\ setup.compactor = case[1].compactor
  BY <1>1, <1>2, <1>3 DEF RouteSetups, Setups
<1> QED BY <1>1, <1>2, <1>4 DEF Configured, Loads

\* No hook changes the setup or the request.
LEMMA SetupKept ==
  ASSUME Next
  PROVE  UNCHANGED <<setup, request>>
<1>1. CASE RequestBody
  <2>1. PICK data \in BOOLEAN :
          \/ \E end \in BOOLEAN : PassThrough(data, end) \/ FlowThrough(data, end) \/ Withhold(data, end)
          \/ Embeddings(data) \/ Unread(data) \/ ProviderGone(data)
          \/ \E d \in Decisions : Native(data, d) \/ (\E answer \in {"summary", "failure"} : Chat(data, d, answer))
    BY <1>1, RequestBodySteps DEF RequestStep
  <2>2. CASE \E end \in BOOLEAN : PassThrough(data, end) \/ FlowThrough(data, end) \/ Withhold(data, end)
    BY <2>2 DEF PassThrough, FlowThrough, Withhold
  <2>3. CASE Embeddings(data) \/ Unread(data) \/ ProviderGone(data)
    BY <2>3 DEF Embeddings, Unread, ProviderGone, Complete
  <2>4. ASSUME NEW d, Native(data, d) PROVE UNCHANGED <<setup, request>>
    BY <2>4 DEF Native, Complete
  <2>5. ASSUME NEW d, NEW answer, Chat(data, d, answer) PROVE UNCHANGED <<setup, request>>
    <3>1. Complete(data, "chat")
      BY <2>5 DEF Chat
    <3> QED BY <3>1 DEF Complete
  <2> QED BY <2>1, <2>2, <2>3, <2>4, <2>5
<1>2. CASE ResponseBody
  BY <1>2 DEF ResponseBody, PassResponse, HoldResponse, Reply
<1>3. CASE UpstreamRequest \/ NotSent \/ Retry \/ Reload
  BY <1>3 DEF UpstreamRequest, NotSent, Retry, Reload
<1>4. CASE \E st \in {"ok", "error"}, n \in 1 .. MaxParts : ResponseHeaders(st, n)
  BY <1>4 DEF ResponseHeaders
<1> QED BY <1>1, <1>2, <1>3, <1>4 DEF Next

LEMMA ConfiguredAlways == Spec => []Configured
<1>1. ASSUME Configured, [Next]_vars PROVE Configured'
  <2>1. UNCHANGED <<setup, request>>
    BY <1>1, SetupKept DEF vars
  <2> QED BY <1>1, <2>1 DEF Configured
<1> QED BY <1>1, InitConfigured, PTL DEF Spec

On(i, asked, mode) == active_entry(setup.engine[i], asked, setup.scope, mode)

\* The entries whose service has rewritten the text.
Rewriting(asked, mode, d) ==
  {i \in DOMAIN setup.engine : On(i, asked, mode) /\ Rewrote(setup.engine[i], d)}

\* What the entries before entry i have redacted.
Veiled(i, asked, mode) ==
  UNION {setup.engine[j].finds :
           j \in {j \in DOMAIN setup.engine :
                    j < i /\ On(j, asked, mode) /\ Redacts(setup.engine[j], mode)}}

\* The most that entry i is shown of a text.
Seen(i, text, asked, mode, d) ==
  text \cup {Masked} \cup
  (IF \E j \in Rewriting(asked, mode, d) : j < i THEN d.text ELSE {})

\* The text after the verdict v on a text.
Left(v, text) == IF v.kind = "Modify" THEN v.text ELSE text

\* What a verdict that lets a text pass promises of every active entry.
Lets(i, text, asked, mode, d) ==
  \/ \E j \in Rewriting(asked, mode, d) : j < i
  \/ setup.engine[i].finds \cap (text \ Veiled(i, asked, mode)) = {}

Clears(i, text, asked, mode, d) ==
  \/ \E j \in Rewriting(asked, mode, d) : i < j
  \/ setup.engine[i].finds \cap text = {}

Vouches(v, text, asked, mode, d) ==
  \A i \in DOMAIN setup.engine :
    On(i, asked, mode) /\ Watches(setup.engine[i], mode) =>
      /\ setup.engine[i].action = "block" => Lets(i, text, asked, mode, d)
      /\ setup.engine[i].action = "block" \/ Redacts(setup.engine[i], mode) =>
           Clears(i, Left(v, text), asked, mode, d)

\* What a verdict that refuses a text has found.
Cause(text, asked, mode, d) ==
  \E i \in DOMAIN setup.engine :
    On(i, asked, mode) /\ Refuses(setup.engine[i], Seen(i, text, asked, mode, d), d)

\* What the engine's verdict on a text promises.
LEMMA VerdictFacts ==
  ASSUME Configured, NEW asked, NEW mode \in Sides, NEW text \in Texts, NEW d \in Decisions
  PROVE  LET v == Verdict(Run(setup.engine, asked, setup.scope, mode, text, d), text) IN
         /\ v.kind \in {"Block", "Modify", "Pass"}
         /\ v.text \in Texts
         /\ v.kind = "Block" => Cause(text, asked, mode, d)
         /\ v.kind # "Block" => Vouches(v, text, asked, mode, d)
<1> DEFINE r == Run(setup.engine, asked, setup.scope, mode, text, d)
           v == Verdict(r, text)
           New(i) == On(i, asked, mode) /\ Rewrote(setup.engine[i], d)
<1>1. setup.engine \in Seq(Entries)
  BY DEF Configured, Setups
<1>2. /\ r \in States
      /\ r.blocked =>
           \E i \in DOMAIN setup.engine :
             /\ On(i, asked, mode)
             /\ Refuses(setup.engine[i],
                        text \cup {Masked} \cup
                        (IF \E j \in DOMAIN setup.engine : j < i /\ New(j) THEN d.text ELSE {}), d)
      /\ ~r.blocked =>
           \A i \in DOMAIN setup.engine : On(i, asked, mode) /\ Watches(setup.engine[i], mode) =>
             /\ setup.engine[i].action = "block" =>
                  \/ \E j \in DOMAIN setup.engine : j < i /\ New(j)
                  \/ setup.engine[i].finds \cap (text \ Veiled(i, asked, mode)) = {}
             /\ setup.engine[i].action = "block" \/ Redacts(setup.engine[i], mode) =>
                  \/ \E j \in DOMAIN setup.engine : i < j /\ New(j)
                  \/ setup.engine[i].finds \cap r.text = {}
  BY <1>1, RunFacts DEF On, Veiled
<1>3. \A j : j \in Rewriting(asked, mode, d) <=> j \in DOMAIN setup.engine /\ New(j)
  BY DEF Rewriting
<1> HIDE DEF r, New
<1>4. /\ v.kind \in {"Block", "Modify", "Pass"}
      /\ v.text = r.text /\ r.text \in Texts
      /\ v.kind = "Block" <=> r.blocked
      /\ v.kind # "Block" => Left(v, text) = r.text
  BY <1>2 DEF Verdict, Left, States
<1> HIDE DEF v
<1>5. v.kind = "Block" => Cause(text, asked, mode, d)
  <2>1. ASSUME NEW i \in DOMAIN setup.engine
        PROVE  (\E j \in DOMAIN setup.engine : j < i /\ New(j))
                 <=> (\E j \in Rewriting(asked, mode, d) : j < i)
    BY <1>3
  <2> QED BY <1>2, <1>4, <2>1 DEF Cause, Seen
<1>6. v.kind # "Block" => Vouches(v, text, asked, mode, d)
  BY <1>2, <1>3, <1>4 DEF Vouches, Lets, Clears
<1> USE DEF v, r
<1> QED BY <1>4, <1>5, <1>6

\* Without an entry for this side the text stays as it is.
LEMMA NoneActive ==
  ASSUME NEW mode, ~HasMode(setup.engine, mode), NEW v, NEW text, NEW asked, NEW d
  PROVE  Vouches(v, text, asked, mode, d)
BY DEF HasMode, Vouches, On, active_entry

\* What run_pre_call promises, whether it has entries to run or not.
LEMMA PreCallFacts ==
  ASSUME Configured, NEW asked, NEW content \in SUBSET Kinds, NEW d \in Decisions
  PROVE  LET v == PreCall(content, asked, d) IN
         /\ v.kind \in {"None", "Block", "Modify", "Pass"}
         /\ v.kind = "Modify" => v.text \in Texts
         /\ v.kind = "Block" => Cause(content, asked, "pre_call", d)
         /\ v.kind # "Block" /\ request.valid => Vouches(v, content, asked, "pre_call", d)
<1> DEFINE v == PreCall(content, asked, d)
<1>1. content \in Texts /\ "pre_call" \in Sides
  BY DEF Texts, Sides
<1>2. CASE ~request.valid \/ ~HasMode(setup.engine, "pre_call") \/ content = {}
  <2>1. v = [kind |-> "None"]
    BY <1>2 DEF PreCall
  <2>2. content = {} => Vouches(v, content, asked, "pre_call", d)
    BY <2>1 DEF Vouches, Lets, Clears, Left
  <2> QED BY <1>2, <2>1, <2>2, NoneActive
<1>3. CASE ~(~request.valid \/ ~HasMode(setup.engine, "pre_call") \/ content = {})
  <2>1. v = Verdict(Run(setup.engine, asked, setup.scope, "pre_call", content, d), content)
    BY <1>3 DEF PreCall, RunPreCall
  <2> HIDE DEF v
  <2>2. /\ v.kind \in {"Block", "Modify", "Pass"}
        /\ v.text \in Texts
        /\ v.kind = "Block" => Cause(content, asked, "pre_call", d)
        /\ v.kind # "Block" => Vouches(v, content, asked, "pre_call", d)
    BY <1>1, <2>1, VerdictFacts
  <2> USE DEF v
  <2> QED BY <2>2
<1> QED BY <1>2, <1>3

\* What run_post_call promises.
LEMMA PostCallFacts ==
  ASSUME Configured, NEW text \in SUBSET Kinds, NEW d \in Decisions
  PROVE  LET v == PostCall(text, d) IN
         /\ v.kind \in {"Block", "Modify", "Pass"}
         /\ v.kind # "Block" => Vouches(v, text, requested, "post_call", d)
<1> DEFINE v == PostCall(text, d)
<1>1. text \in Texts /\ "post_call" \in Sides
  BY DEF Texts, Sides
<1>2. CASE ~HasMode(setup.engine, "post_call") \/ text = {}
  <2>1. v = [kind |-> "Pass"]
    BY <1>2 DEF PostCall
  <2>2. text = {} => Vouches(v, text, requested, "post_call", d)
    BY <2>1 DEF Vouches, Lets, Clears, Left
  <2> QED BY <1>2, <2>1, <2>2, NoneActive
<1>3. CASE ~(~HasMode(setup.engine, "post_call") \/ text = {})
  <2>1. v = Verdict(Run(setup.engine, requested, setup.scope, "post_call", text, d), text)
    BY <1>3 DEF PostCall, RunPostCall
  <2> HIDE DEF v
  <2>2. /\ v.kind \in {"Block", "Modify", "Pass"}
        /\ v.kind # "Block" => Vouches(v, text, requested, "post_call", d)
    BY <1>1, <2>1, VerdictFacts
  <2> USE DEF v
  <2> QED BY <2>2
<1> QED BY <1>2, <1>3

\* What the guardrails are shown of a body is what the client sent.
LEMMA TextFacts ==
  ASSUME Configured
  PROVE  /\ Text(ClientBody) = Text(request) /\ Text(ClientBody) \in SUBSET Kinds
         /\ extract_message_content(ClientBody) = Text(ClientBody)
         /\ extract_native_content(setup.translator, ClientBody) \subseteq Text(ClientBody)
         /\ setup.endpoint = "chat" => Shown = Text(ClientBody)
         /\ setup.endpoint = "native" =>
              Shown = extract_native_content(setup.translator, ClientBody)
<1>1. ClientBody.messages = request.messages
  BY DEF ClientBody
<1>2. request.messages \in Seq(ClientMessages)
  BY DEF Configured, ClientRequests
<1>3. \A i \in DOMAIN request.messages : request.messages[i].text \in SUBSET Kinds
  <2>1. \A i \in DOMAIN request.messages : request.messages[i] \in ClientMessages
    BY <1>2
  <2> QED BY <2>1 DEF ClientMessages
<1>4. Text(ClientBody) = Text(request) /\ Text(ClientBody) \in SUBSET Kinds
  BY <1>1, <1>3 DEF Text
<1> DEFINE all == Range(request.messages)
<1>5. Text(ClientBody) = UNION {m.text : m \in all}
  BY <1>1 DEF Text, Range
<1>6. extract_native_content(setup.translator, ClientBody)
        = UNION {m.text : m \in {m \in all : setup.translator = "cohere" => ~m.blocks}}
  BY <1>1 DEF extract_native_content
<1>7. setup.endpoint = "chat" => Shown = Text(ClientBody)
  BY <1>5 DEF Shown
<1>8. setup.endpoint = "native" => Shown = extract_native_content(setup.translator, ClientBody)
  BY <1>6 DEF Shown
<1>9. extract_native_content(setup.translator, ClientBody) \subseteq Text(ClientBody)
  BY <1>5, <1>6
<1> QED BY <1>4, <1>7, <1>8, <1>9 DEF extract_message_content

\* When the request is refused: at the end of its body, by the verdict on it.
LEMMA BlockedStep ==
  ASSUME Configured, Framed, Next, phase' = "blocked"
  PROVE  \E d \in Decisions : \E content \in SUBSET Text(request) :
           PreCall(content, requested', d).kind = "Block" /\ said'[1] = d
<1>1. CASE RequestBody
  <2>1. PICK data \in BOOLEAN :
          \/ \E end \in BOOLEAN : PassThrough(data, end) \/ FlowThrough(data, end) \/ Withhold(data, end)
          \/ Embeddings(data) \/ Unread(data) \/ ProviderGone(data)
          \/ \E d \in Decisions : Native(data, d) \/ (\E answer \in {"summary", "failure"} : Chat(data, d, answer))
    BY <1>1, RequestBodySteps DEF RequestStep
  <2>2. CASE \E end \in BOOLEAN : PassThrough(data, end) \/ FlowThrough(data, end) \/ Withhold(data, end)
    BY <2>2 DEF PassThrough, FlowThrough, Withhold
  <2>3. CASE Embeddings(data) \/ Unread(data) \/ ProviderGone(data)
    BY <2>3 DEF Embeddings, Unread, ProviderGone
  <2>4. ASSUME NEW d \in Decisions, Native(data, d)
        PROVE  \E content \in SUBSET Text(request) :
                 PreCall(content, requested', d).kind = "Block" /\ said'[1] = d
    <3> DEFINE content == extract_native_content(setup.translator, ClientBody)
    <3>1. PreCall(content, requested, d).kind = "Block" /\ said' = <<d, None>> /\ requested' = requested
      BY <2>4 DEF Native
    <3>2. content \in SUBSET Text(request)
      BY TextFacts
    <3> HIDE DEF content
    <3> QED BY <3>1, <3>2
  <2>5. ASSUME NEW d \in Decisions, NEW answer, Chat(data, d, answer)
        PROVE  \E content \in SUBSET Text(request) :
                 PreCall(content, requested', d).kind = "Block" /\ said'[1] = d
    <3>1. PreCall(Text(ClientBody), Asked, d).kind = "Block" /\ said' = <<d, answer>> /\ requested' = Asked
      BY <2>5 DEF Chat, extract_message_content
    <3>2. Text(ClientBody) \in SUBSET Text(request)
      BY TextFacts
    <3> QED BY <3>1, <3>2
  <2> QED BY <2>1, <2>2, <2>3, <2>4, <2>5
<1>2. CASE ResponseBody
  BY <1>2 DEF ResponseBody, PassResponse, HoldResponse, Reply
<1>3. CASE UpstreamRequest \/ NotSent \/ Retry \/ Reload
  BY <1>3 DEF UpstreamRequest, NotSent, Retry, Reload
<1>4. CASE \E st \in {"ok", "error"}, n \in 1 .. MaxParts : ResponseHeaders(st, n)
  BY <1>4 DEF ResponseHeaders
<1> QED BY <1>1, <1>2, <1>3, <1>4 DEF Next

\* The properties' words for the entries, in those of the lemmas.
LEMMA Words ==
  ASSUME UNCHANGED setup, NEW mode
  PROVE  /\ Active(mode)' = {i \in DOMAIN setup.engine : On(i, requested', mode)}
         /\ Rewriters(mode)' = Rewriting(requested', mode, said'[1])
         /\ Redacting(mode)' = {i \in DOMAIN setup.engine :
                                  On(i, requested', mode) /\ Redacts(setup.engine[i], mode)}
         /\ Blocking(mode)' = {i \in DOMAIN setup.engine :
                                 /\ On(i, requested', mode) /\ Watches(setup.engine[i], mode)
                                 /\ setup.engine[i].action = "block"}
         /\ \A i : Hidden(i, mode)' = Veiled(i, requested', mode)
<1>1. Active(mode)' = {i \in DOMAIN setup.engine : On(i, requested', mode)}
  BY DEF Active, On, active_entry, Runs
<1>2. Rewriters(mode)' = Rewriting(requested', mode, said'[1])
  BY <1>1 DEF Rewriters, Rewriting, Rewrote
<1>3. Lookers(mode)' = {i \in DOMAIN setup.engine :
                          On(i, requested', mode) /\ Watches(setup.engine[i], mode)}
  BY <1>1 DEF Lookers, Watches
<1>4. Redacting(mode)' = {i \in DOMAIN setup.engine :
                            On(i, requested', mode) /\ Redacts(setup.engine[i], mode)}
  BY <1>3 DEF Redacting, Redacts
<1>5. Blocking(mode)' = {i \in DOMAIN setup.engine :
                           /\ On(i, requested', mode) /\ Watches(setup.engine[i], mode)
                           /\ setup.engine[i].action = "block"}
  BY <1>3 DEF Blocking
<1>6. \A i : Hidden(i, mode)' = Veiled(i, requested', mode)
  BY <1>4 DEF Hidden, Veiled
<1> QED BY <1>1, <1>2, <1>4, <1>5, <1>6

\* While nothing they look at changes, they mean the same.
LEMMA SameWords ==
  ASSUME UNCHANGED <<setup, requested, said>>, NEW mode
  PROVE  /\ UNCHANGED <<Active(mode), Rewriters(mode), Redacting(mode), Blocking(mode)>>
         /\ \A i : UNCHANGED Hidden(i, mode)
         /\ \A i, text : Passed(i, mode, text)' <=> Passed(i, mode, text)
<1>1. UNCHANGED <<Active(mode), Lookers(mode)>>
  BY DEF Active, Lookers
<1>2. UNCHANGED <<Rewriters(mode), Redacting(mode), Blocking(mode)>>
  BY <1>1 DEF Rewriters, Redacting, Blocking
<1>3. \A i : UNCHANGED Hidden(i, mode)
  BY <1>2 DEF Hidden
<1>4. \A i, text : Passed(i, mode, text)' <=> Passed(i, mode, text)
  BY <1>2, <1>3 DEF Passed
<1> QED BY <1>1, <1>2, <1>3, <1>4

\* A request is refused only for what an active entry finds in it or in the text
\* a webhook answered with, or for what a service decided
\* (webhook.rs:137,167; gateway.rs:1123-1180).
THEOREM RefusedForCauseAlways == Spec => []RefusedForCause
<1>1. Init => RefusedForCause
  BY DEF Init, RefusedForCause
<1>2. ASSUME Configured, Framed, RefusedForCause, [Next]_vars
      PROVE  RefusedForCause'
  <2>1. CASE phase' # "blocked"
    BY <2>1 DEF RefusedForCause
  <2>2. CASE UNCHANGED vars
    <3>1. UNCHANGED <<setup, request, phase, requested, said>>
      BY <2>2 DEF vars
    <3>2. UNCHANGED <<Active("pre_call"), Rewriters("pre_call"), Text(request)>>
      BY <3>1, SameWords DEF Text
    <3> QED BY <1>2, <3>1, <3>2 DEF RefusedForCause
  <2>3. CASE Next /\ phase' = "blocked"
    <3>1. PICK d \in Decisions, content \in SUBSET Text(request) :
            PreCall(content, requested', d).kind = "Block" /\ said'[1] = d
      BY <1>2, <2>3, BlockedStep
    <3>2. content \in SUBSET Kinds
      BY <1>2, TextFacts
    <3>3. PICK i \in DOMAIN setup.engine :
            /\ On(i, requested', "pre_call")
            /\ Refuses(setup.engine[i], Seen(i, content, requested', "pre_call", d), d)
      BY <1>2, <3>1, <3>2, PreCallFacts DEF Cause
    <3>4. UNCHANGED <<setup, request>> /\ UNCHANGED Text(request)
      BY <2>3, SetupKept DEF Text
    <3>5. i \in Active("pre_call")' /\ Rewriters("pre_call")' = Rewriting(requested', "pre_call", d)
      BY <3>1, <3>3, <3>4, Words
    <3>6. setup.engine[i].action = "block"
      BY <3>3 DEF Refuses
    <3>7. Masked \notin setup.engine[i].finds
      <4>1. setup.engine[i] \in Entries
        BY <1>2 DEF Configured, Setups
      <4> QED BY <4>1, GuardrailAssumption DEF Entries
    <3>8. \/ setup.engine[i].provider \in External /\ d.answer = "block"
          \/ /\ setup.engine[i].provider \notin External
             /\ setup.engine[i].finds \cap
                  (Text(request) \cup
                   (IF \E j \in Rewriters("pre_call")' : j < i THEN d.text ELSE {})) # {}
      BY <3>3, <3>5, <3>7 DEF Refuses, Seen
    <3> HIDE DEF External
    <3>9. setup' = setup /\ Text(request)' = Text(request) /\ said'[1] = d
      BY <3>1, <3>4
    <3>10. External' = External
      BY DEF External
    <3> QED BY <3>5, <3>6, <3>8, <3>9, <3>10 DEF RefusedForCause
  <2> QED BY <1>2, <2>1, <2>2, <2>3
<1> QED BY <1>1, <1>2, ConfiguredAlways, FramedAlways, PTL DEF Spec

\* Chunks are never taken for one body.
LEMMA PartsNotOne == \A n \in Nat : ~One(Parts(n))
<1>1. ASSUME NEW n \in Nat PROVE ~One(Parts(n))
  <2>1. Len(Parts(n)) = n /\ \A i \in 1 .. n : Parts(n)[i] = Part(i)
    BY PartsFacts
  <2> QED BY <2>1 DEF One, Part
<1> QED BY <1>1

\* When one body is put together for the upstream, and what it is.
ChatSends(d, answer) ==
  LET verdict == PreCall(Text(ClientBody), Asked, d) IN
  /\ setup.endpoint = "chat" /\ verdict.kind # "Block" /\ requested' = Asked
  /\ up' = <<Whole(Compacted(Applied(ClientBody, verdict), answer))>>
  /\ said' = <<d, answer>>

NativeSends(d) ==
  /\ setup.endpoint = "native" /\ requested' = requested /\ said'[1] = d
  /\ PreCall(extract_native_content(setup.translator, ClientBody), requested, d).kind # "Block"

\* The step that puts one body together for the upstream.
LEMMA SentStep ==
  ASSUME Configured, Framed, Next, Assembled'
  PROVE  \/ setup.endpoint = "embeddings"
         \/ \E d \in Decisions : NativeSends(d)
         \/ \E d \in Decisions, answer \in {"summary", "failure"} : ChatSends(d, answer)
         \/ UNCHANGED <<phase, up, requested, said>>
<1>0. phase' = "sent" /\ One(up') /\ up'[1].what = "body"
  BY DEF Assembled, One
<1>1. CASE RequestBody
  <2>1. PICK data \in BOOLEAN :
          \/ \E end \in BOOLEAN : PassThrough(data, end) \/ FlowThrough(data, end) \/ Withhold(data, end)
          \/ Embeddings(data) \/ Unread(data) \/ ProviderGone(data)
          \/ \E d \in Decisions : Native(data, d) \/ (\E answer \in {"summary", "failure"} : Chat(data, d, answer))
    BY <1>1, RequestBodySteps DEF RequestStep
  <2>2. ASSUME NEW end \in BOOLEAN, PassThrough(data, end) \/ FlowThrough(data, end) PROVE FALSE
    <3>1. phase = "request" /\ Flows /\ Call(data, end)
          /\ up' = IF data THEN Append(up, Part(next)) ELSE up
      BY <2>2 DEF PassThrough, FlowThrough, Flows
    <3>2. up = Parts(next - 1)
      BY <3>1, Reading DEF Framed, Request
    <3>3. next - 1 \in Nat /\ next \in Nat /\ next = (next - 1) + 1
      BY <3>1, CallFacts DEF Framed, Typed, TypeOK
    <3>4. \E n \in Nat : up' = Parts(n)
      <4>1. CASE data
        <5>1. Append(Parts(next - 1), Part(next)) = Parts(next)
          BY <3>3, PartsFacts
        <5> QED BY <3>1, <3>2, <3>3, <4>1, <5>1
      <4>2. CASE ~data
        BY <3>1, <3>2, <3>3, <4>2
      <4> QED BY <4>1, <4>2
    <3> QED BY <1>0, <3>4, PartsNotOne
  <2>3. ASSUME phase = "request", ~Flows, UNCHANGED up PROVE FALSE
    <3>1. up = Parts(0)
      BY <2>3, Reading, PartsFacts DEF Framed, Request
    <3> QED BY <1>0, <2>3, <3>1, PartsNotOne DEF One
  <2>4. ASSUME NEW end \in BOOLEAN, Withhold(data, end) PROVE FALSE
    BY <2>3, <2>4 DEF Withhold
  <2>5. CASE Embeddings(data)
    BY <2>5 DEF Embeddings, Complete
  <2>6. CASE ProviderGone(data)
    BY <1>0, <2>6 DEF ProviderGone
  <2>7. CASE Unread(data)
    <3>1. up'[1] = Raw(Gathered(data))
      BY <2>7 DEF Unread
    <3> QED BY <1>0, <3>1 DEF Raw
  <2>8. ASSUME NEW d \in Decisions, Native(data, d) PROVE NativeSends(d)
    <3>1. Complete(data, "native")
      BY <2>8 DEF Native
    <3>2. setup.endpoint = "native"
      BY <3>1 DEF Complete
    <3> QED BY <1>0, <2>8, <3>2 DEF Native, NativeSends
  <2>9. ASSUME NEW d \in Decisions, NEW answer \in {"summary", "failure"}, Chat(data, d, answer)
        PROVE  ChatSends(d, answer)
    <3>1. Complete(data, "chat")
      BY <2>9 DEF Chat
    <3>2. setup.endpoint = "chat"
      BY <3>1 DEF Complete
    <3> QED BY <1>0, <2>9, <3>2 DEF Chat, ChatSends, extract_message_content
  <2> QED BY <2>1, <2>2, <2>4, <2>5, <2>6, <2>7, <2>8, <2>9
<1>2. CASE ResponseBody
  <2>1. phase' \in {"response", "done"}
    BY <1>2 DEF ResponseBody, PassResponse, HoldResponse, Reply
  <2> QED BY <1>0, <2>1
<1>3. CASE UpstreamRequest \/ NotSent \/ Retry
  BY <1>0, <1>3 DEF UpstreamRequest, NotSent, Retry
<1>4. CASE Reload
  BY <1>4 DEF Reload
<1>5. CASE \E st \in {"ok", "error"}, n \in 1 .. MaxParts : ResponseHeaders(st, n)
  BY <1>0, <1>5 DEF ResponseHeaders
<1> QED BY <1>1, <1>2, <1>3, <1>4, <1>5 DEF Next

\* A chat or native body that the gateway has read and sent on was made of a
\* text that every active blocking entry lets pass, but for what earlier entries
\* redact and for texts that a webhook has rewritten before
\* (guardrail/mod.rs:345-431; gateway.rs:1045-1064, 1123-1180).
THEOREM BlockHoldsAlways == Spec => []BlockHolds
<1>1. Init => BlockHolds
  BY DEF Init, BlockHolds, Assembled
<1>2. ASSUME Configured, Framed, BlockHolds, [Next]_vars
      PROVE  BlockHolds'
  <2>1. ASSUME UNCHANGED <<setup, request, phase, up, requested, said>> PROVE BlockHolds'
    <3>1. /\ UNCHANGED <<Blocking("pre_call"), Shown>> /\ (Assembled' <=> Assembled)
          /\ \A i, text : Passed(i, "pre_call", text)' <=> Passed(i, "pre_call", text)
      BY <2>1, SameWords DEF Shown, Assembled
    <3> QED BY <1>2, <2>1, <3>1 DEF BlockHolds
  <2>2. CASE UNCHANGED vars
    BY <2>1, <2>2 DEF vars
  <2>3. CASE ~(Assembled' /\ request'.valid /\ setup'.endpoint \in {"chat", "native"})
    BY <2>3 DEF BlockHolds
  <2>4. CASE Next /\ Assembled' /\ request'.valid /\ setup'.endpoint \in {"chat", "native"}
    <3>1. UNCHANGED <<setup, request>> /\ Shown' = Shown
      BY <2>4, SetupKept DEF Shown
    <3>2. CASE UNCHANGED <<phase, up, requested, said>>
      BY <2>1, <3>1, <3>2
    <3>3. ASSUME NEW v, NEW d, said'[1] = d, Vouches(v, Shown, requested', "pre_call", d)
          PROVE  BlockHolds'
      <4>1. /\ Blocking("pre_call")' = {i \in DOMAIN setup.engine :
                                         /\ On(i, requested', "pre_call")
                                         /\ Watches(setup.engine[i], "pre_call")
                                         /\ setup.engine[i].action = "block"}
            /\ Rewriters("pre_call")' = Rewriting(requested', "pre_call", d)
            /\ \A i : Hidden(i, "pre_call")' = Veiled(i, requested', "pre_call")
        BY <3>1, <3>3, Words
      <4>2. ASSUME NEW i \in Blocking("pre_call")'
            PROVE  Passed(i, "pre_call", Shown)'
        <5>1. Lets(i, Shown, requested', "pre_call", d)
          BY <3>3, <4>1, <4>2 DEF Vouches
        <5> QED BY <3>1, <4>1, <5>1 DEF Passed, Lets
      <4> QED BY <4>2 DEF BlockHolds
    <3>4. ASSUME NEW d \in Decisions, NativeSends(d) PROVE BlockHolds'
      <4> DEFINE content == extract_native_content(setup.translator, ClientBody)
      <4>1. content \in SUBSET Kinds /\ Shown = content /\ request.valid
        BY <1>2, <2>4, <3>1, <3>4, TextFacts DEF NativeSends
      <4> HIDE DEF content
      <4>2. Vouches(PreCall(content, requested', d), content, requested', "pre_call", d)
        BY <1>2, <3>4, <4>1, PreCallFacts DEF NativeSends, content
      <4>3. said'[1] = d
        BY <3>4 DEF NativeSends
      <4> QED BY <3>3, <4>1, <4>2, <4>3
    <3>5. ASSUME NEW d \in Decisions, NEW answer \in {"summary", "failure"}, ChatSends(d, answer)
          PROVE  BlockHolds'
      <4>1. Text(ClientBody) \in SUBSET Kinds /\ Shown = Text(ClientBody) /\ request.valid
        BY <1>2, <2>4, <3>1, <3>5, TextFacts DEF ChatSends
      <4>2. Vouches(PreCall(Text(ClientBody), requested', d), Text(ClientBody), requested', "pre_call", d)
        BY <1>2, <3>5, <4>1, PreCallFacts DEF ChatSends
      <4>3. said'[1] = d
        BY <3>5 DEF ChatSends
      <4> QED BY <3>3, <4>1, <4>2, <4>3
    <3> QED BY <1>2, <2>4, <3>1, <3>2, <3>4, <3>5, SentStep
  <2> QED BY <1>2, <2>2, <2>3, <2>4
<1> QED BY <1>1, <1>2, ConfiguredAlways, FramedAlways, PTL DEF Spec

\* What Delivered gives the client of a reply: to a chat client what the verdict
\* has left of it, to a native client the reply as it is.
LEMMA DeliveredFacts ==
  ASSUME Configured, known, ~streaming, setup.endpoint \in {"chat", "native"},
         NEW text \in SUBSET Kinds, NEW parses, NEW foreign, NEW d \in Decisions,
         Delivered(text, parses, foreign, d).what = "answer",
         Delivered(text, parses, foreign, d).parsed
  PROVE  LET v == PostCall(text, d) IN
         /\ Vouches(v, text, requested, "post_call", d)
         /\ Delivered(text, parses, foreign, d).text
              = IF setup.endpoint = "chat" THEN Left(v, text) ELSE text
<1> DEFINE v     == PostCall(text, d)
           given == Delivered(text, parses, foreign, d)
<1>1. v.kind \in {"Block", "Modify", "Pass"} /\ (v.kind # "Block" => Vouches(v, text, requested, "post_call", d))
  BY PostCallFacts
<1>2. CASE v.kind = "Block"
  BY <1>2 DEF Delivered, Answered, Refused, Reported, normalize_error_response
<1>3. CASE v.kind # "Block"
  <2>1. given.text = IF setup.endpoint = "chat" THEN Left(v, text) ELSE text
    BY <1>1, <1>3 DEF Delivered, Answered, Refused, Reported, normalize_error_response, Left
  <2> HIDE DEF given, v
  <2> QED BY <1>1, <1>3, <2>1 DEF given, v
<1> QED BY <1>2, <1>3

\* A reply that is not streamed, that parses and whose provider is known reaches
\* a chat client without anything that an active entry which looks at output
\* blocks or redacts, unless a webhook behind it has rewritten the reply; a
\* native client is given it as it is once the blocking entries have let it pass
\* (gateway.rs:1586-1789).
THEOREM OutputHeldAlways == Spec => []OutputHeld
<1>1. Init => OutputHeld
  BY DEF Init, OutputHeld
<1>2. ASSUME Configured, Framed, OutputHeld, [Next]_vars
      PROVE  OutputHeld'
  <2>1. CASE UNCHANGED vars
    <3>1. UNCHANGED <<setup, phase, streaming, known, down, requested, said>>
      BY <2>1 DEF vars
    <3>2. /\ UNCHANGED <<Blocking("post_call"), Redacting("post_call"), Rewriters("post_call")>>
          /\ \A i, text : Passed(i, "post_call", text)' <=> Passed(i, "post_call", text)
      BY <3>1, SameWords
    <3> QED BY <1>2, <3>1, <3>2 DEF OutputHeld
  <2>2. CASE phase' # "done"
    BY <2>2 DEF OutputHeld
  <2>3. ASSUME NEW data \in BOOLEAN, NEW end \in BOOLEAN, PassResponse(data, end)
        PROVE  OutputHeld'
    <3>1. Passes /\ UNCHANGED <<setup, streaming>>
      BY <2>3 DEF PassResponse
    <3> QED BY <3>1 DEF Passes, OutputHeld
  <2>4. ASSUME NEW data \in BOOLEAN, NEW text \in Replies, NEW parses \in BOOLEAN,
               NEW foreign \in BOOLEAN, NEW d \in Decisions, Reply(data, text, parses, foreign, d)
        PROVE  OutputHeld'
    <3>1. /\ phase = "response" /\ ~Passes
          /\ down' = Append(down, Delivered(text, parses, foreign, d))
          /\ UNCHANGED <<setup, requested, streaming, known>>
          /\ said'[1] = d
      BY <2>4 DEF Reply
    <3>2. known => down'[1] = Delivered(text, parses, foreign, d)
      BY <1>2, <3>1 DEF Framed, Response
    <3>3. text \in SUBSET Kinds
      BY PipelineAssumption
    <3>4. /\ Blocking("post_call")' = {i \in DOMAIN setup.engine :
                                        /\ On(i, requested, "post_call")
                                        /\ Watches(setup.engine[i], "post_call")
                                        /\ setup.engine[i].action = "block"}
          /\ Redacting("post_call")' = {i \in DOMAIN setup.engine :
                                         On(i, requested, "post_call") /\ Redacts(setup.engine[i], "post_call")}
          /\ Rewriters("post_call")' = Rewriting(requested, "post_call", d)
          /\ \A i : Hidden(i, "post_call")' = Veiled(i, requested, "post_call")
      BY <3>1, Words
    <3>5. SUFFICES ASSUME ~streaming, known, setup.endpoint \in {"chat", "native"},
                          down'[1].what = "answer", down'[1].parsed
                   PROVE  OutputHeld'
      BY <3>1 DEF OutputHeld
    <3> DEFINE v == PostCall(text, d)
    <3>6. /\ Vouches(v, text, requested, "post_call", d)
          /\ down'[1].text = IF setup.endpoint = "chat" THEN Left(v, text) ELSE text
      BY <1>2, <3>2, <3>3, <3>5, DeliveredFacts
    <3> HIDE DEF v
    <3>7. ASSUME setup.endpoint = "chat",
                 NEW i \in Blocking("post_call")' \cup Redacting("post_call")'
          PROVE  \/ \E j \in Rewriters("post_call")' : i < j
                 \/ setup.engine[i].finds \cap down'[1].text = {}
      <4>1. /\ i \in DOMAIN setup.engine /\ On(i, requested, "post_call")
            /\ Watches(setup.engine[i], "post_call")
            /\ setup.engine[i].action = "block" \/ Redacts(setup.engine[i], "post_call")
        BY <3>4, <3>7 DEF Redacts
      <4>2. Clears(i, Left(v, text), requested, "post_call", d)
        BY <3>6, <4>1 DEF Vouches
      <4> QED BY <3>4, <3>6, <3>7, <4>2 DEF Clears
    <3>8. ASSUME setup.endpoint = "native", NEW i \in Blocking("post_call")'
          PROVE  Passed(i, "post_call", down[1].text)'
      <4>1. Lets(i, text, requested, "post_call", d)
        BY <3>4, <3>6, <3>8 DEF Vouches
      <4>2. down'[1].text = text
        BY <3>6, <3>8
      <4> QED BY <3>1, <3>4, <4>1, <4>2 DEF Lets, Passed
    <3> QED BY <3>1, <3>7, <3>8 DEF OutputHeld
  <2>5. CASE ResponseBody
    <3>1. PICK data \in BOOLEAN :
            \/ \E end \in BOOLEAN : PassResponse(data, end)
            \/ HoldResponse(data)
            \/ \E t \in Replies, parses \in BOOLEAN, foreign \in BOOLEAN, d \in Decisions :
                 Reply(data, t, parses, foreign, d)
      BY <2>5, HeardDecisions DEF ResponseBody
    <3>2. HoldResponse(data) => phase' # "done"
      BY DEF HoldResponse
    <3> QED BY <3>1, <3>2, <2>2, <2>3, <2>4
  <2>6. RequestBody => phase' # "done"
    <3>1. ASSUME RequestBody PROVE phase' # "done"
      <4>1. PICK data \in BOOLEAN :
              \/ \E end \in BOOLEAN : PassThrough(data, end) \/ FlowThrough(data, end) \/ Withhold(data, end)
              \/ Embeddings(data) \/ Unread(data) \/ ProviderGone(data)
              \/ \E d \in Decisions : Native(data, d) \/ (\E answer \in {"summary", "failure"} : Chat(data, d, answer))
        BY <3>1, RequestBodySteps DEF RequestStep
      <4> QED BY <4>1 DEF PassThrough, FlowThrough, Withhold, Embeddings, Unread, ProviderGone, Native, Chat
    <3> QED BY <3>1
  <2>7. CASE UpstreamRequest \/ NotSent \/ Retry \/ Reload
             \/ \E st \in {"ok", "error"}, n \in 1 .. MaxParts : ResponseHeaders(st, n)
    <3>1. phase' # "done"
      BY <2>7 DEF UpstreamRequest, NotSent, Retry, Reload, ResponseHeaders
    <3> QED BY <3>1, <2>2
  <2> QED BY <1>2, <2>1, <2>2, <2>5, <2>6, <2>7 DEF Next
<1> QED BY <1>1, <1>2, ConfiguredAlways, FramedAlways, PTL DEF Spec

-----------------------------------------------------------------------------
(* Compaction: what the plugin counts, and what it keeps. *)

\* (The provers do not know that "assistant" is in STRING.)
Messages ==
  [role : STRING \cup {"assistant"}, text : SUBSET (Kinds \cup {Masked, "summary"}), blocks : BOOLEAN]

\* Estimates are natural numbers.
LEMMA TokensNat ==
  ASSUME NEW m \in Messages
  PROVE  MessageTokens(m) \in Nat
<1>1. IsFiniteSet(Kinds \cup {Masked, "summary"})
  <2>1. IsFiniteSet(Kinds \cup {Masked})
    BY GuardrailAssumption, FS_AddElement
  <2>2. Kinds \cup {Masked, "summary"} = (Kinds \cup {Masked}) \cup {"summary"}
    OBVIOUS
  <2> QED BY <2>1, <2>2, FS_AddElement
<1>2. m.text \in SUBSET (Kinds \cup {Masked, "summary"})
  BY DEF Messages
<1>3. Cardinality(m.text) \in Nat
  BY <1>1, <1>2, FS_Subset, FS_CardinalityType
<1>4. KindChars * Cardinality(m.text) \in Nat
  BY <1>3, CompactionAssumption
<1> QED BY <1>4 DEF MessageTokens, EstimateTokens

\* The plugin adds a body up message by message.
Counts(t, messages) ==
  /\ t \in [0 .. Len(messages) -> Nat]
  /\ t[0] = 0
  /\ \A k \in 1 .. Len(messages) : t[k] = t[k - 1] + MessageTokens(messages[k])
  /\ BodyTokens(messages) = t[Len(messages)]

\* The sum of the estimates, message by message.
LEMMA CountSteps ==
  ASSUME NEW messages \in Seq(Messages)
  PROVE  \E t : Counts(t, messages)
<1> DEFINE n == Len(messages)
           T(c, m) == c + MessageTokens(m)
           step == [p \in (1 .. n) \X Nat |-> T(p[2], messages[p[1]])]
           Iter(f) == f = [s \in SUBSET DOMAIN messages |->
                             IF s = {} THEN 0
                             ELSE LET x == Max(s) IN T(f[s \ {x}], messages[x])]
           iter == CHOOSE f : Iter(f)
<1>1. BodyTokens(messages) = iter[DOMAIN messages]
  BY DEF BodyTokens, FoldLeft, MapThenFoldSet
<1>2. n \in Nat /\ DOMAIN messages = 1 .. n /\ \A k \in 1 .. n : messages[k] \in Messages
  OBVIOUS
<1>3. \A c \in Nat : \A m \in Messages : T(c, m) \in Nat
  BY TokensNat
<1> HIDE DEF T
<1>4. Stepping(step, n, Nat)
  BY <1>2, <1>3 DEF Stepping
<1>5. PICK f : FoldsMax(f, n, Nat, 0, step)
  <2> HIDE DEF step, n
  <2> QED BY <1>2, <1>4, FoldMaxExists
<1>6. ASSUME NEW s \in SUBSET (1 .. n), s # {}
      PROVE  step[<<Max(s), f[s \ {Max(s)}]>>] = T(f[s \ {Max(s)}], messages[Max(s)])
  <2>1. Max(s) \in 1 .. n
    BY <1>2, <1>6, MaxMin
  <2>2. f[s \ {Max(s)}] \in Nat
    BY <1>5 DEF FoldsMax
  <2> QED BY <2>1, <2>2
<1>7. Iter(f)
  <2> HIDE DEF step
  <2> QED BY <1>2, <1>5, <1>6 DEF FoldsMax
<1>8. Iter(iter)
  <2> HIDE DEF Iter
  <2> QED BY <1>7
<1> HIDE DEF iter
<1>9. iter[{}] = 0
  <2>1. {} \in SUBSET DOMAIN messages
    OBVIOUS
  <2> QED BY <2>1, <1>8
<1>10. ASSUME NEW k \in 1 .. n, iter[1 .. k - 1] \in Nat
       PROVE  iter[1 .. k] = step[<<k, iter[1 .. k - 1]>>]
  <2>1. iter[1 .. k] = T(iter[1 .. k - 1], messages[k])
    <3> DEFINE t == 1 .. k
    <3>1. /\ t \in SUBSET DOMAIN messages /\ t # {}
          /\ Max(t) = k /\ t \ {Max(t)} = 1 .. k - 1
      BY <1>2, PrefixMax
    <3> HIDE DEF t
    <3>2. iter[t] = T(iter[t \ {Max(t)}], messages[Max(t)])
      BY <1>8, <3>1
    <3> QED BY <3>1, <3>2 DEF t
  <2> QED BY <2>1, <1>10
<1>11. PICK h : Climb(h, n, Nat, 0, step) /\ iter[1 .. n] = h[n]
  <2> DEFINE D    == Nat
             zero == 0
  <2>1. ClimbsBy(iter, n, D, zero, step) /\ Stepping(step, n, D) /\ zero \in D
    <3> HIDE DEF step, n
    <3> QED BY <1>4, <1>9, <1>10 DEF ClimbsBy
  <2>2. PICK h : Climb(h, n, D, zero, step) /\ iter[1 .. n] = h[n]
    <3> HIDE DEF step, n, D, zero
    <3> QED BY <1>2, <2>1, UnrollMax
  <2> QED BY <2>2
<1>12. \A k \in 1 .. n : h[k] = h[k - 1] + MessageTokens(messages[k])
  <2>1. ASSUME NEW k \in 1 .. n PROVE h[k] = T(h[k - 1], messages[k])
    <3>1. h[k - 1] \in Nat /\ h[k] = step[<<k, h[k - 1]>>]
      <4> HIDE DEF step, n
      <4> QED BY <1>2, <1>11, ClimbAt
    <3> QED BY <3>1
  <2> QED BY <2>1 DEF T
<1> QED BY <1>1, <1>2, <1>11, <1>12 DEF Counts, Climb

\* One way to count: what two bodies in a row come to is the sum.
LEMMA CountConcat ==
  ASSUME NEW a \in Seq(Messages), NEW b \in Seq(Messages)
  PROVE  BodyTokens(a \o b) = BodyTokens(a) + BodyTokens(b) /\ BodyTokens(a) \in Nat
<1> DEFINE l == Len(a)
           n == Len(b)
<1>1. a \o b \in Seq(Messages) /\ Len(a \o b) = l + n /\ l \in Nat /\ n \in Nat
      /\ \A i \in 1 .. l + n : (a \o b)[i] = IF i <= l THEN a[i] ELSE b[i - l]
  BY ConcatProperties
<1>2. PICK s : Counts(s, a)
  BY CountSteps
<1>3. PICK t : Counts(t, b)
  BY CountSteps
<1>4. PICK u : Counts(u, a \o b)
  BY <1>1, CountSteps
<1>5. /\ s \in [0 .. l -> Nat] /\ s[0] = 0 /\ BodyTokens(a) = s[l]
      /\ \A k \in 1 .. l : s[k] = s[k - 1] + MessageTokens(a[k])
  BY <1>2 DEF Counts
<1>6. /\ t \in [0 .. n -> Nat] /\ t[0] = 0 /\ BodyTokens(b) = t[n]
      /\ \A k \in 1 .. n : t[k] = t[k - 1] + MessageTokens(b[k])
  BY <1>3 DEF Counts
<1>7. /\ u \in [0 .. l + n -> Nat] /\ u[0] = 0 /\ BodyTokens(a \o b) = u[l + n]
      /\ \A k \in 1 .. l + n : u[k] = u[k - 1] + MessageTokens((a \o b)[k])
  BY <1>1, <1>4 DEF Counts
<1> HIDE DEF l, n
<1> DEFINE S == {k \in 0 .. l : u[k] = s[k]}
           T == {k \in 0 .. n : u[l + k] = s[l] + t[k]}
<1>8. l \in S
  <2>1. 0 \in S
    BY <1>1, <1>5, <1>7
  <2>2. ASSUME NEW k \in 1 .. l, k - 1 \in S PROVE k \in S
    <3>1. u[k] = u[k - 1] + MessageTokens(a[k])
      <4>1. k \in 1 .. l + n /\ k <= l
        BY <1>1
      <4>2. (a \o b)[k] = a[k]
        BY <4>1, <1>1
      <4> QED BY <4>1, <4>2, <1>7
    <3> QED BY <2>2, <3>1, <1>1, <1>5
  <2>3. 0 .. l \subseteq S
    <3> HIDE DEF S
    <3> QED BY <1>1, <2>1, <2>2, Upwards
  <2> HIDE DEF S
  <2> QED BY <2>3, <1>1
<1>9. n \in T
  <2>1. 0 \in T
    <3>1. u[l] = s[l] /\ l + 0 = l /\ s[l] + 0 = s[l]
      BY <1>1, <1>5, <1>8
    <3> QED BY <3>1, <1>1, <1>6
  <2>2. ASSUME NEW k \in 1 .. n, k - 1 \in T PROVE k \in T
    <3>1. /\ l + k \in 1 .. l + n /\ (l + k) - 1 = l + (k - 1) /\ ~(l + k <= l) /\ (l + k) - l = k
      BY <1>1
    <3>2. u[l + k] = u[l + (k - 1)] + MessageTokens(b[k])
      <4>1. (a \o b)[l + k] = b[k]
        BY <3>1, <1>1
      <4>2. u[l + k] = u[(l + k) - 1] + MessageTokens((a \o b)[l + k])
        BY <3>1, <1>7
      <4> QED BY <3>1, <4>1, <4>2
    <3>3. MessageTokens(b[k]) \in Nat /\ t[k - 1] \in Nat /\ s[l] \in Nat
      <4>1. b[k] \in Messages
        BY DEF n
      <4> QED BY <4>1, <1>1, <1>5, <1>6, TokensNat, SMTT(30)
    <3> QED BY <2>2, <3>2, <3>3, <1>6
  <2>3. 0 .. n \subseteq T
    <3> HIDE DEF T
    <3> QED BY <1>1, <2>1, <2>2, Upwards
  <2> HIDE DEF T
  <2> QED BY <2>3, <1>1
<1> QED BY <1>1, <1>5, <1>6, <1>7, <1>9

LEMMA CountOne ==
  ASSUME NEW m \in Messages
  PROVE  BodyTokens(<<m>>) = MessageTokens(m)
<1>1. <<m>> \in Seq(Messages) /\ Len(<<m>>) = 1 /\ <<m>>[1] = m
  OBVIOUS
<1>2. PICK t : Counts(t, <<m>>)
  BY <1>1, CountSteps
<1>3. t[1] = t[1 - 1] + MessageTokens(m) /\ t[0] = 0 /\ BodyTokens(<<m>>) = t[1]
  BY <1>1, <1>2 DEF Counts
<1> QED BY <1>3, TokensNat

LEMMA CountNone == BodyTokens(<<>>) = 0
<1>1. <<>> \in Seq(Messages) /\ Len(<<>>) = 0
  OBVIOUS
<1>2. PICK t : Counts(t, <<>>)
  BY <1>1, CountSteps
<1> QED BY <1>1, <1>2 DEF Counts

\* The messages are told apart one by one.
Parted == [system : Seq(Messages), others : Seq(Messages)]

Preserved(m, preserve) == preserve /\ m.role = "system"

Sort(p, m, preserve) ==
  IF Preserved(m, preserve)
  THEN [p EXCEPT !.system = Append(p.system, m)]
  ELSE [p EXCEPT !.others = Append(p.others, m)]

Sorts(h, messages, preserve) ==
  /\ h \in [0 .. Len(messages) -> Parted]
  /\ h[0] = [system |-> <<>>, others |-> <<>>]
  /\ \A k \in 1 .. Len(messages) : h[k] = Sort(h[k - 1], messages[k], preserve)
  /\ separate_system_messages(messages, preserve) = h[Len(messages)]

\* A turn of separate_system_messages keeps two sequences of messages.
LEMMA SortTyped ==
  ASSUME NEW p \in Parted, NEW m \in Messages, NEW preserve
  PROVE  /\ Sort(p, m, preserve) \in Parted
         /\ Preserved(m, preserve) =>
              /\ Sort(p, m, preserve).system = Append(p.system, m)
              /\ Sort(p, m, preserve).others = p.others
         /\ ~Preserved(m, preserve) =>
              /\ Sort(p, m, preserve).others = Append(p.others, m)
              /\ Sort(p, m, preserve).system = p.system
<1>1. /\ p.system \in Seq(Messages) /\ p.others \in Seq(Messages)
      /\ Append(p.system, m) \in Seq(Messages) /\ Append(p.others, m) \in Seq(Messages)
  BY DEF Parted
<1>2. CASE Preserved(m, preserve)
  <2>1. Sort(p, m, preserve) = [system |-> Append(p.system, m), others |-> p.others]
    BY <1>2 DEF Sort, Parted
  <2> QED BY <1>1, <1>2, <2>1 DEF Parted
<1>3. CASE ~Preserved(m, preserve)
  <2>1. Sort(p, m, preserve) = [system |-> p.system, others |-> Append(p.others, m)]
    BY <1>3 DEF Sort, Parted
  <2> QED BY <1>1, <1>3, <2>1 DEF Parted
<1> QED BY <1>2, <1>3

\* The fold of separate_system_messages, as the history of its turns.
LEMMA SortSteps ==
  ASSUME NEW messages \in Seq(Messages), NEW preserve
  PROVE  \E h : Sorts(h, messages, preserve)
<1> DEFINE n == Len(messages)
           none == [system |-> <<>>, others |-> <<>>]
           T(p, m) == Sort(p, m, preserve)
           step == [p \in (1 .. n) \X Parted |-> T(p[2], messages[p[1]])]
           Iter(f) == f = [s \in SUBSET DOMAIN messages |->
                             IF s = {} THEN none
                             ELSE LET x == Max(s) IN T(f[s \ {x}], messages[x])]
           iter == CHOOSE f : Iter(f)
<1>1. separate_system_messages(messages, preserve) = iter[DOMAIN messages]
  BY DEF separate_system_messages, Sort, Preserved, FoldLeft, MapThenFoldSet
<1>2. n \in Nat /\ DOMAIN messages = 1 .. n /\ \A k \in 1 .. n : messages[k] \in Messages
  OBVIOUS
<1>3. none \in Parted
  BY EmptySeq DEF Parted
<1>4. \A p \in Parted : \A m \in Messages : T(p, m) \in Parted
  BY SortTyped
<1> HIDE DEF T, none
<1>5. Stepping(step, n, Parted)
  BY <1>2, <1>4 DEF Stepping
<1>6. PICK f : FoldsMax(f, n, Parted, none, step)
  <2> HIDE DEF step, n
  <2> QED BY <1>2, <1>3, <1>5, FoldMaxExists
<1>7. ASSUME NEW s \in SUBSET (1 .. n), s # {}
      PROVE  step[<<Max(s), f[s \ {Max(s)}]>>] = T(f[s \ {Max(s)}], messages[Max(s)])
  <2>1. Max(s) \in 1 .. n
    BY <1>2, <1>7, MaxMin
  <2>2. f[s \ {Max(s)}] \in Parted
    BY <1>6 DEF FoldsMax
  <2> QED BY <2>1, <2>2
<1>8. Iter(f)
  <2> HIDE DEF step
  <2> QED BY <1>2, <1>6, <1>7 DEF FoldsMax
<1>9. Iter(iter)
  <2> HIDE DEF Iter
  <2> QED BY <1>8
<1> HIDE DEF iter
<1>10. iter[{}] = none
  <2>1. {} \in SUBSET DOMAIN messages
    OBVIOUS
  <2> QED BY <2>1, <1>9
<1>11. ASSUME NEW k \in 1 .. n, iter[1 .. k - 1] \in Parted
       PROVE  iter[1 .. k] = step[<<k, iter[1 .. k - 1]>>]
  <2>1. /\ 1 .. k \in SUBSET DOMAIN messages /\ 1 .. k # {}
        /\ Max(1 .. k) = k /\ (1 .. k) \ {Max(1 .. k)} = 1 .. k - 1
    BY <1>2, PrefixMax
  <2>2. iter[1 .. k] = T(iter[1 .. k - 1], messages[k])
    BY <2>1, <1>9
  <2> QED BY <2>2, <1>2, <1>11
<1>12. PICK h : Climb(h, n, Parted, none, step) /\ iter[1 .. n] = h[n]
  <2>1. ClimbsBy(iter, n, Parted, none, step)
    <3> HIDE DEF step, n
    <3> QED BY <1>10, <1>11 DEF ClimbsBy
  <2> HIDE DEF step, n
  <2> QED BY <1>2, <1>3, <1>5, <2>1, UnrollMax
<1>13. \A k \in 1 .. n : h[k] = Sort(h[k - 1], messages[k], preserve)
  <2>1. ASSUME NEW k \in 1 .. n PROVE h[k] = T(h[k - 1], messages[k])
    <3>1. h[k - 1] \in Parted /\ h[k] = step[<<k, h[k - 1]>>]
      <4> HIDE DEF step, n
      <4> QED BY <1>2, <1>12, ClimbAt
    <3> QED BY <3>1
  <2> QED BY <2>1 DEF T
<1> QED BY <1>1, <1>2, <1>12, <1>13 DEF Sorts, Climb, none

LEMMA CountAppend ==
  ASSUME NEW s \in Seq(Messages), NEW m \in Messages
  PROVE  BodyTokens(Append(s, m)) = BodyTokens(s) + MessageTokens(m)
<1>1. Append(s, m) = s \o <<m>> /\ <<m>> \in Seq(Messages)
  OBVIOUS
<1> QED BY <1>1, CountConcat, CountOne

(* The system messages that are to be preserved, and the others: together as *)
(* long as the body, and a last message that is not preserved stays last.    *)
LEMMA SortFacts ==
  ASSUME NEW messages \in Seq(Messages), NEW preserve
  PROVE  LET p == separate_system_messages(messages, preserve) IN
         /\ p.system \in Seq(Messages) /\ p.others \in Seq(Messages)
         /\ \A i \in DOMAIN p.system : Preserved(p.system[i], preserve)
         /\ \A i \in DOMAIN p.others : ~Preserved(p.others[i], preserve)
         /\ BodyTokens(messages) = BodyTokens(p.system) + BodyTokens(p.others)
         /\ messages # <<>> /\ ~Preserved(messages[Len(messages)], preserve) =>
              p.others # <<>> /\ p.others[Len(p.others)] = messages[Len(messages)]
<1> DEFINE n == Len(messages)
           p == separate_system_messages(messages, preserve)
<1>0. n \in Nat /\ \A k \in 1 .. n : messages[k] \in Messages
  OBVIOUS
<1>1. PICK h0 : Sorts(h0, messages, preserve)
  BY SortSteps
<1>2. PICK t0 : Counts(t0, messages)
  BY CountSteps
<1> DEFINE h == h0
           t == t0
<1>3. /\ h \in [0 .. n -> Parted] /\ h[0] = [system |-> <<>>, others |-> <<>>] /\ p = h[n]
      /\ \A k \in 1 .. n : h[k] = Sort(h[k - 1], messages[k], preserve)
  BY <1>1 DEF Sorts
<1>4. /\ t \in [0 .. n -> Nat] /\ t[0] = 0 /\ BodyTokens(messages) = t[n]
      /\ \A k \in 1 .. n : t[k] = t[k - 1] + MessageTokens(messages[k])
  BY <1>2 DEF Counts
<1> DEFINE Good(q, c) ==
             /\ \A i \in DOMAIN q.system : Preserved(q.system[i], preserve)
             /\ \A i \in DOMAIN q.others : ~Preserved(q.others[i], preserve)
             /\ c = BodyTokens(q.system) + BodyTokens(q.others)
           S == {k \in 0 .. n : Good(h[k], t[k])}
<1> HIDE DEF n, p, h, t
<1>5. 0 \in S
  <2>1. h[0].system = <<>> /\ h[0].others = <<>> /\ DOMAIN <<>> = {} /\ t[0] = 0
    BY <1>3, <1>4
  <2>2. Good(h[0], t[0])
    BY <2>1, CountNone
  <2> QED BY <2>2, <1>0
<1>6. ASSUME NEW k \in 1 .. n, k - 1 \in S PROVE k \in S
  <2> DEFINE q == h[k - 1]
             m == messages[k]
  <2>1. /\ q \in Parted /\ m \in Messages /\ t[k - 1] \in Nat
        /\ h[k] = Sort(q, m, preserve) /\ t[k] = t[k - 1] + MessageTokens(m)
    BY <1>0, <1>3, <1>4
  <2>2. Good(q, t[k - 1])
    BY <1>6
  <2> HIDE DEF q, m
  <2>3. /\ q.system \in Seq(Messages) /\ q.others \in Seq(Messages)
        /\ BodyTokens(q.system) \in Nat /\ BodyTokens(q.others) \in Nat
        /\ MessageTokens(m) \in Nat
    BY <2>1, CountConcat, TokensNat DEF Parted
  <2>4. CASE Preserved(m, preserve)
    <3>1. h[k].system = Append(q.system, m) /\ h[k].others = q.others
      BY <2>1, <2>4, SortTyped
    <3>2. BodyTokens(h[k].system) = BodyTokens(q.system) + MessageTokens(m)
      BY <2>1, <2>3, <3>1, CountAppend
    <3>3. t[k] = BodyTokens(h[k].system) + BodyTokens(h[k].others)
      BY <2>1, <2>2, <2>3, <3>1, <3>2
    <3>4. \A i \in DOMAIN h[k].system : Preserved(h[k].system[i], preserve)
      BY <2>1, <2>2, <2>3, <2>4, <3>1, SMTT(30)
    <3>5. \A i \in DOMAIN h[k].others : ~Preserved(h[k].others[i], preserve)
      BY <2>2, <3>1
    <3> QED BY <3>3, <3>4, <3>5
  <2>5. CASE ~Preserved(m, preserve)
    <3>1. h[k].others = Append(q.others, m) /\ h[k].system = q.system
      BY <2>1, <2>5, SortTyped
    <3>2. BodyTokens(h[k].others) = BodyTokens(q.others) + MessageTokens(m)
      BY <2>1, <2>3, <3>1, CountAppend
    <3>3. t[k] = BodyTokens(h[k].system) + BodyTokens(h[k].others)
      BY <2>1, <2>2, <2>3, <3>1, <3>2
    <3>4. \A i \in DOMAIN h[k].others : ~Preserved(h[k].others[i], preserve)
      BY <2>1, <2>2, <2>3, <2>5, <3>1, SMTT(30)
    <3>5. \A i \in DOMAIN h[k].system : Preserved(h[k].system[i], preserve)
      BY <2>2, <3>1
    <3> QED BY <3>3, <3>4, <3>5
  <2> QED BY <2>4, <2>5
<1>7. Good(p, t[n])
  <2>1. 0 .. n \subseteq S
    <3> HIDE DEF S
    <3> QED BY <1>0, <1>5, <1>6, Upwards
  <2>2. n \in S
    <3> HIDE DEF S
    <3> QED BY <2>1, <1>0
  <2> QED BY <2>2, <1>3
<1>8. p \in Parted
  BY <1>0, <1>3
<1>9. ASSUME messages # <<>>, ~Preserved(messages[n], preserve)
      PROVE  p.others # <<>> /\ p.others[Len(p.others)] = messages[n]
  <2>1. n \in 1 .. n
    BY <1>0, <1>9 DEF n
  <2>2. h[n - 1] \in Parted /\ p = Sort(h[n - 1], messages[n], preserve) /\ messages[n] \in Messages
    BY <1>0, <1>3, <2>1
  <2>3. h[n - 1].others \in Seq(Messages) /\ p.others = Append(h[n - 1].others, messages[n])
    BY <1>9, <2>2, SortTyped DEF Parted
  <2> QED BY <2>2, <2>3
<1> USE DEF n, p
<1> QED BY <1>4, <1>7, <1>8, <1>9 DEF Parted

\* A body that has been put together again is told apart the same way.
LEMMA SortAgain ==
  ASSUME NEW a \in Seq(Messages), NEW b \in Seq(Messages), NEW preserve,
         \A i \in DOMAIN a : Preserved(a[i], preserve),
         \A i \in DOMAIN b : ~Preserved(b[i], preserve)
  PROVE  Len(OtherMessages(a \o b, preserve)) = Len(b)
<1> DEFINE l == Len(a)
           n == Len(b)
<1>1. a \o b \in Seq(Messages) /\ Len(a \o b) = l + n /\ l \in Nat /\ n \in Nat
      /\ \A i \in 1 .. l + n : (a \o b)[i] = IF i <= l THEN a[i] ELSE b[i - l]
  BY ConcatProperties
<1>2. /\ \A i \in 1 .. l : Preserved(a[i], preserve)
      /\ \A i \in 1 .. n : ~Preserved(b[i], preserve)
      /\ \A i \in 1 .. l + n : (a \o b)[i] \in Messages
  BY <1>1
<1>3. PICK h : Sorts(h, a \o b, preserve)
  BY <1>1, SortSteps
<1>4. /\ h \in [0 .. l + n -> Parted] /\ h[0] = [system |-> <<>>, others |-> <<>>]
      /\ \A k \in 1 .. l + n : h[k] = Sort(h[k - 1], (a \o b)[k], preserve)
      /\ separate_system_messages(a \o b, preserve) = h[l + n]
  BY <1>1, <1>3 DEF Sorts
<1> HIDE DEF l, n
<1> DEFINE S == {k \in 0 .. l + n : Len(h[k].others) = IF k <= l THEN 0 ELSE k - l}
<1>5. 0 \in S
  BY <1>1, <1>4
<1>6. ASSUME NEW k \in 1 .. l + n, k - 1 \in S PROVE k \in S
  <2>1. /\ h[k - 1].others \in Seq(Messages)
        /\ h[k] = Sort(h[k - 1], (a \o b)[k], preserve) /\ (a \o b)[k] \in Messages
        /\ h[k - 1] \in Parted
    <3>1. k - 1 \in 0 .. l + n /\ k \in 1 .. l + n
      BY <1>1
    <3>2. h[k - 1] \in Parted
      BY <3>1, <1>4
    <3> QED BY <3>1, <3>2, <1>2, <1>4 DEF Parted
  <2>2. CASE k <= l
    <3>1. Preserved((a \o b)[k], preserve)
      BY <1>1, <1>2, <2>2
    <3>2. h[k].others = h[k - 1].others
      <4> DEFINE q == h[k - 1]
                 m == (a \o b)[k]
      <4>1. q \in Parted /\ m \in Messages /\ h[k] = Sort(q, m, preserve)
        BY <2>1
      <4>2. Preserved(m, preserve)
        BY <3>1
      <4>3. h[k].others = q.others
        <5> HIDE DEF q, m
        <5> QED BY <4>1, <4>2, SortTyped
      <4> QED BY <4>3
    <3> QED BY <1>1, <1>6, <2>2, <3>2
  <2>3. CASE ~(k <= l)
    <3>1. ~Preserved((a \o b)[k], preserve)
      <4>1. k - l \in 1 .. n /\ (a \o b)[k] = b[k - l]
        BY <1>1, <2>3
      <4> QED BY <1>2, <4>1
    <3>2. h[k].others = Append(h[k - 1].others, (a \o b)[k])
      <4> DEFINE q == h[k - 1]
                 m == (a \o b)[k]
      <4>1. q \in Parted /\ m \in Messages /\ h[k] = Sort(q, m, preserve)
        BY <2>1
      <4>2. ~Preserved(m, preserve)
        BY <3>1
      <4>3. h[k].others = Append(q.others, m)
        <5> HIDE DEF q, m
        <5> QED BY <4>1, <4>2, SortTyped
      <4> QED BY <4>3
    <3>3. Len(h[k].others) = Len(h[k - 1].others) + 1
      BY <2>1, <3>2
    <3>4. Len(h[k - 1].others) = k - 1 - l
      <4>1. Len(h[k - 1].others) = IF k - 1 <= l THEN 0 ELSE k - 1 - l
        BY <1>6
      <4> QED BY <1>1, <2>3, <4>1
    <3> QED BY <1>1, <2>3, <3>3, <3>4
  <2> QED BY <2>2, <2>3
<1>7. l + n \in S
  <2> DEFINE all == l + n
  <2>1. all \in Nat /\ 0 \in S /\ \A k \in 1 .. all : k - 1 \in S => k \in S
    <3> HIDE DEF S
    <3> QED BY <1>1, <1>5, <1>6
  <2> HIDE DEF S, all
  <2>2. 0 .. all \subseteq S
    BY <2>1, Upwards
  <2>3. all \in S
    BY <2>1, <2>2
  <2> QED BY <2>3 DEF all
<1>8. Len(h[l + n].others) = n
  BY <1>1, <1>7
<1> QED BY <1>4, <1>8 DEF OtherMessages, n

\* What from_config makes of a table: a plan.
Plans ==
  [strategy : {"truncate", "sliding_window", "llm"}, threshold : Nat, window : Nat,
   min : Nat, system : BOOLEAN, summarizer : BOOLEAN]

\* Truncation tries the messages from the newest on.
Tries == [tokens : Nat, kept : Seq(Messages)]

Try(m, acc, p) ==
  IF acc.tokens + MessageTokens(m) <= p.threshold \/ Len(acc.kept) < p.min
  THEN [tokens |-> acc.tokens + MessageTokens(m), kept |-> <<m>> \o acc.kept]
  ELSE acc

Newest(others, p, used) ==
  FoldRight(LAMBDA m, acc : Try(m, acc, p), others, [tokens |-> used, kept |-> <<>>])

Trials(h, others, p, used) ==
  /\ h \in [1 .. Len(others) + 1 -> Tries]
  /\ h[Len(others) + 1] = [tokens |-> used, kept |-> <<>>]
  /\ \A k \in 1 .. Len(others) : h[k] = Try(others[k], h[k + 1], p)
  /\ Newest(others, p, used) = h[1]

\* A turn of truncate keeps a sequence of messages.
LEMMA TryTyped ==
  ASSUME NEW m \in Messages, NEW acc \in Tries, NEW p \in Plans
  PROVE  Try(m, acc, p) \in Tries
<1>1. acc.tokens + MessageTokens(m) \in Nat
  BY TokensNat DEF Tries
<1>2. <<m>> \in Seq(Messages) /\ acc.kept \in Seq(Messages)
  BY DEF Tries
<1>3. <<m>> \o acc.kept \in Seq(Messages)
  BY <1>2, ConcatProperties
<1> QED BY <1>1, <1>3 DEF Try, Tries

\* The fold of Truncate, as the history of its turns.
LEMMA TrySteps ==
  ASSUME NEW others \in Seq(Messages), NEW p \in Plans, NEW used \in Nat
  PROVE  \E h : Trials(h, others, p, used)
<1> DEFINE n == Len(others)
           none == [tokens |-> used, kept |-> <<>>]
           T(m, acc) == Try(m, acc, p)
           step == [q \in (1 .. n) \X Tries |-> T(others[q[1]], q[2])]
           Iter(f) == f = [s \in SUBSET DOMAIN others |->
                             IF s = {} THEN none
                             ELSE LET x == Min(s) IN T(others[x], f[s \ {x}])]
           iter == CHOOSE f : Iter(f)
<1>1. Newest(others, p, used) = iter[DOMAIN others]
  BY DEF Newest, FoldRight, MapThenFoldSet
<1>2. n \in Nat /\ DOMAIN others = 1 .. n /\ \A k \in 1 .. n : others[k] \in Messages
  OBVIOUS
<1>3. none \in Tries
  BY EmptySeq DEF Tries
<1>4. \A acc \in Tries : \A m \in Messages : T(m, acc) \in Tries
  BY TryTyped
<1> HIDE DEF T, none
<1>5. Stepping(step, n, Tries)
  BY <1>2, <1>4 DEF Stepping
<1>6. PICK f : FoldsMin(f, n, Tries, none, step)
  <2> HIDE DEF step, n
  <2> QED BY <1>2, <1>3, <1>5, FoldMinExists
<1>7. ASSUME NEW s \in SUBSET (1 .. n), s # {}
      PROVE  step[<<Min(s), f[s \ {Min(s)}]>>] = T(others[Min(s)], f[s \ {Min(s)}])
  <2>1. Min(s) \in 1 .. n
    BY <1>2, <1>7, MaxMin
  <2>2. f[s \ {Min(s)}] \in Tries
    BY <1>6 DEF FoldsMin
  <2> QED BY <2>1, <2>2
<1>8. Iter(f)
  <2> HIDE DEF step
  <2> QED BY <1>2, <1>6, <1>7 DEF FoldsMin
<1>9. Iter(iter)
  <2> HIDE DEF Iter
  <2> QED BY <1>8
<1> HIDE DEF iter
<1>10. iter[{}] = none
  <2>1. {} \in SUBSET DOMAIN others
    OBVIOUS
  <2> QED BY <2>1, <1>9
<1>11. ASSUME NEW k \in 1 .. n, iter[k + 1 .. n] \in Tries
       PROVE  iter[k .. n] = step[<<k, iter[k + 1 .. n]>>]
  <2>1. /\ k .. n \in SUBSET DOMAIN others /\ k .. n # {}
        /\ Min(k .. n) = k /\ (k .. n) \ {Min(k .. n)} = k + 1 .. n
    BY <1>2, SuffixMin
  <2>2. iter[k .. n] = T(others[k], iter[k + 1 .. n])
    BY <2>1, <1>9
  <2> QED BY <2>2, <1>2, <1>11
<1>12. PICK h : Descent(h, n, Tries, none, step) /\ iter[1 .. n] = h[1]
  <2>1. DescendsBy(iter, n, Tries, none, step)
    <3> HIDE DEF step, n
    <3> QED BY <1>10, <1>11 DEF DescendsBy
  <2> HIDE DEF step, n
  <2> QED BY <1>2, <1>3, <1>5, <2>1, UnrollMin
<1>13. \A k \in 1 .. n : h[k] = Try(others[k], h[k + 1], p)
  <2>1. ASSUME NEW k \in 1 .. n PROVE h[k] = T(others[k], h[k + 1])
    <3>1. h[k + 1] \in Tries /\ h[k] = step[<<k, h[k + 1]>>]
      <4> HIDE DEF step, n
      <4> QED BY <1>2, <1>12, DescentAt
    <3> QED BY <3>1
  <2> QED BY <2>1 DEF T
<1> QED BY <1>1, <1>2, <1>12, <1>13 DEF Trials, Descent, none

\* The newest c messages of a body, as far as `kept` has to hold them.
Ends(kept, others, q) ==
  /\ q <= Len(kept)
  /\ \A i \in 1 .. q : kept[(Len(kept) + 1) - i] = others[(Len(others) + 1) - i]

\* kept is made of messages of others from position k on, in their order.
Chosen(kept, others, k) ==
  \E at \in [1 .. Len(kept) -> k .. Len(others)] :
    /\ \A i, j \in 1 .. Len(kept) : i < j => at[i] < at[j]
    /\ \A i \in 1 .. Len(kept) : kept[i] = others[at[i]]

\* One more message, or not, leaves a choice in order.
LEMMA ChosenStep ==
  ASSUME NEW others \in Seq(Messages), NEW kept \in Seq(Messages),
         NEW k \in 1 .. Len(others), Chosen(kept, others, k + 1)
  PROVE  /\ Chosen(<<others[k]>> \o kept, others, k)
         /\ Chosen(kept, others, k)
<1> DEFINE n == Len(others)
           l == Len(kept)
           m == others[k]
           more == <<m>> \o kept
<1>1. PICK at \in [1 .. l -> k + 1 .. n] :
        /\ \A i, j \in 1 .. l : i < j => at[i] < at[j]
        /\ \A i \in 1 .. l : kept[i] = others[at[i]]
  BY DEF Chosen
<1>2. n \in Nat /\ l \in Nat /\ k + 1 .. n \subseteq k .. n /\ k \in k .. n
  OBVIOUS
<1>3. /\ Len(more) = l + 1
      /\ \A i \in 1 .. l + 1 : more[i] = IF i = 1 THEN m ELSE kept[i - 1]
  <2>1. <<m>> \in Seq(Messages) /\ Len(<<m>>) = 1 /\ <<m>>[1] = m
    OBVIOUS
  <2>2. /\ Len(more) = 1 + l
        /\ \A i \in 1 .. 1 + l : more[i] = IF i <= 1 THEN <<m>>[i] ELSE kept[i - 1]
    BY <2>1, ConcatProperties
  <2> QED BY <1>2, <2>1, <2>2
<1> HIDE DEF n, l, m, more
<1> DEFINE to == [i \in 1 .. l + 1 |-> IF i = 1 THEN k ELSE at[i - 1]]
<1>4. to \in [1 .. l + 1 -> k .. n]
  BY <1>2
<1>5. ASSUME NEW i \in 1 .. l + 1, NEW j \in 1 .. l + 1, i < j PROVE to[i] < to[j]
  <2>1. j - 1 \in 1 .. l /\ to[j] = at[j - 1] /\ at[j - 1] \in k + 1 .. n
    BY <1>2, <1>5
  <2>2. CASE i = 1
    BY <2>1, <2>2, <1>2
  <2>3. CASE i # 1
    <3>1. i - 1 \in 1 .. l /\ i - 1 < j - 1 /\ to[i] = at[i - 1]
      BY <1>2, <1>5, <2>3
    <3> QED BY <1>1, <2>1, <3>1
  <2> QED BY <2>2, <2>3
<1>6. ASSUME NEW i \in 1 .. l + 1 PROVE more[i] = others[to[i]]
  <2>1. CASE i = 1
    <3>1. more[i] = m /\ to[i] = k
      BY <2>1, <1>2, <1>3
    <3> QED BY <3>1 DEF m
  <2>2. CASE i # 1
    <3>1. i - 1 \in 1 .. l /\ to[i] = at[i - 1] /\ more[i] = kept[i - 1]
      BY <2>2, <1>2, <1>3
    <3> QED BY <3>1, <1>1
  <2> QED BY <2>1, <2>2
<1>7. Chosen(more, others, k)
  <2> HIDE DEF to
  <2> QED BY <1>3, <1>4, <1>5, <1>6 DEF Chosen, n
<1>8. at \in [1 .. l -> k .. n]
  BY <1>2
<1>9. Chosen(kept, others, k)
  BY <1>1, <1>8 DEF Chosen, n, l
<1> QED BY <1>7, <1>9 DEF more, m

\* One more of the newest messages, while there is to be room for them.
LEMMA EndsStep ==
  ASSUME NEW others \in Seq(Messages), NEW kept \in Seq(Messages), NEW m \in Messages,
         NEW q \in Nat, Ends(kept, others, q)
  PROVE  /\ Ends(<<m>> \o kept, others, q)
         /\ Len(kept) = q /\ q < Len(others) /\ m = others[Len(others) - q] =>
              Ends(<<m>> \o kept, others, q + 1)
<1> DEFINE more == <<m>> \o kept
           l    == Len(kept)
           n    == Len(others)
<1>1. /\ l \in Nat /\ n \in Nat /\ Len(more) = l + 1
      /\ \A i \in 1 .. l + 1 : more[i] = IF i = 1 THEN m ELSE kept[i - 1]
  <2>1. <<m>> \in Seq(Messages) /\ Len(<<m>>) = 1 /\ <<m>>[1] = m
    OBVIOUS
  <2>2. /\ Len(more) = 1 + l
        /\ \A i \in 1 .. 1 + l : more[i] = IF i <= 1 THEN <<m>>[i] ELSE kept[i - 1]
    BY <2>1, ConcatProperties
  <2>3. l \in Nat /\ n \in Nat
    OBVIOUS
  <2> QED BY <2>1, <2>2, <2>3
<1>2. q <= l /\ \A i \in 1 .. q : kept[(l + 1) - i] = others[(n + 1) - i]
  BY DEF Ends
<1> HIDE DEF more, l, n
<1>3. ASSUME NEW i \in 1 .. q PROVE more[((l + 1) + 1) - i] = others[(n + 1) - i]
  <2>1. /\ ((l + 1) + 1) - i \in 1 .. l + 1 /\ ((l + 1) + 1) - i # 1
        /\ (((l + 1) + 1) - i) - 1 = (l + 1) - i
    BY <1>1, <1>2
  <2>2. more[((l + 1) + 1) - i] = kept[(l + 1) - i]
    BY <1>1, <2>1
  <2> QED BY <1>2, <2>2
<1>4. Ends(more, others, q)
  BY <1>1, <1>2, <1>3 DEF Ends, n
<1>5. ASSUME l = q, q < n, m = others[n - q] PROVE Ends(more, others, q + 1)
  <2>1. ASSUME NEW i \in 1 .. q + 1 PROVE more[((l + 1) + 1) - i] = others[(n + 1) - i]
    <3>1. CASE i = q + 1
      <4>1. ((l + 1) + 1) - i = 1 /\ (n + 1) - i = n - q /\ 1 \in 1 .. l + 1
        BY <1>1, <1>5, <3>1
      <4> QED BY <1>1, <1>5, <4>1
    <3>2. CASE i # q + 1
      <4>1. i \in 1 .. q
        BY <3>2
      <4> QED BY <1>3, <4>1
    <3> QED BY <3>1, <3>2
  <2> QED BY <1>1, <1>5, <2>1 DEF Ends, n
<1> QED BY <1>4, <1>5 DEF more, l, n

(* Truncation keeps a choice of the messages that are not preserved, in their *)
(* order, and of the newest as many as it promises; what it keeps is within   *)
(* the threshold unless it is no more than it has to keep.                    *)
LEMMA NewestFacts ==
  ASSUME NEW others \in Seq(Messages), NEW p \in Plans, NEW used \in Nat
  PROVE  LET r == Newest(others, p, used) IN
         /\ r \in Tries
         /\ r.tokens = used + BodyTokens(r.kept)
         /\ r.tokens <= p.threshold \/ Len(r.kept) <= p.min
         /\ Len(r.kept) <= Len(others)
         /\ Len(r.kept) = Len(others) => r.kept = others
         /\ Ends(r.kept, others, Smaller(p.min, Len(others)))
         /\ Chosen(r.kept, others, 1)
<1> DEFINE n == Len(others)
           r == Newest(others, p, used)
<1>1. PICK h : Trials(h, others, p, used)
  BY TrySteps
<1>2. /\ h \in [1 .. n + 1 -> Tries] /\ h[n + 1] = [tokens |-> used, kept |-> <<>>] /\ r = h[1]
      /\ \A k \in 1 .. n : h[k] = Try(others[k], h[k + 1], p)
  BY <1>1 DEF Trials
<1>3. n \in Nat /\ \A k \in 1 .. n : others[k] \in Messages
  OBVIOUS
<1>4. p.threshold \in Nat /\ p.min \in Nat
  BY DEF Plans
<1> DEFINE Taken(k) == (n + 1) - k
           Good(t, k) ==
             /\ t.tokens = used + BodyTokens(t.kept)
             /\ t.tokens <= p.threshold \/ Len(t.kept) <= p.min
             /\ Len(t.kept) <= Taken(k)
             /\ Len(t.kept) = Taken(k) => Ends(t.kept, others, Taken(k))
             /\ Ends(t.kept, others, Smaller(p.min, Taken(k)))
             /\ Chosen(t.kept, others, k)
           S == {k \in 1 .. n + 1 : Good(h[k], k)}
<1>5. n + 1 \in S
  <2>1. h[n + 1].tokens = used /\ h[n + 1].kept = <<>> /\ Len(<<>>) = 0
    BY <1>2
  <2>2. Smaller(p.min, Taken(n + 1)) = 0 /\ Taken(n + 1) = 0
    BY <1>3, <1>4 DEF Smaller
  <2>3. Ends(<<>>, others, 0)
    BY <1>3, <2>1 DEF Ends
  <2>4. Chosen(<<>>, others, n + 1)
    <3>1. 1 .. 0 = {} /\ [i \in 1 .. 0 |-> i] \in [1 .. 0 -> n + 1 .. n]
      OBVIOUS
    <3> QED BY <2>1, <3>1 DEF Chosen
  <2>5. used + BodyTokens(<<>>) = used
    BY CountNone
  <2>6. Good(h[n + 1], n + 1)
    <3> HIDE DEF Taken, n
    <3> QED BY <1>4, <2>1, <2>2, <2>3, <2>4, <2>5
  <2> QED BY <1>3, <2>6
<1>6. ASSUME NEW k \in 1 .. n, k + 1 \in S PROVE k \in S
  <2> DEFINE t == h[k + 1]
             m == others[k]
             l == Len(t.kept)
             q == Smaller(p.min, Taken(k + 1))
  <2>1. t \in Tries /\ m \in Messages /\ h[k] = Try(m, t, p)
    <3> HIDE DEF n
    <3>1. k + 1 \in 1 .. n + 1
      BY <1>3
    <3> QED BY <1>2, <1>3, <3>1
  <2>2. Good(t, k + 1)
    BY <1>6
  <2>3. /\ t.kept \in Seq(Messages) /\ t.tokens \in Nat /\ MessageTokens(m) \in Nat
        /\ BodyTokens(t.kept) \in Nat /\ l \in Nat
    <3>1. t.kept \in Seq(Messages) /\ t.tokens \in Nat
      BY <2>1 DEF Tries
    <3>2. MessageTokens(m) \in Nat
      BY <2>1, TokensNat
    <3>3. BodyTokens(t.kept) \in Nat
      BY <3>1, CountConcat
    <3>4. l \in Nat
      BY <3>1
    <3> QED BY <3>1, <3>2, <3>3, <3>4
  <2>4. /\ Taken(k + 1) \in Nat /\ Taken(k) = Taken(k + 1) + 1 /\ k = n - Taken(k + 1)
        /\ Taken(k + 1) < n /\ q \in Nat /\ l <= Taken(k + 1) /\ q <= l
    <3>1. Taken(k + 1) \in Nat /\ Taken(k) = Taken(k + 1) + 1 /\ k = n - Taken(k + 1) /\ Taken(k + 1) < n
      BY <1>3
    <3>2. q \in Nat
      BY <1>4, <3>1 DEF Smaller
    <3>3. l <= Taken(k + 1) /\ q <= l
      BY <2>2 DEF Ends
    <3> QED BY <3>1, <3>2, <3>3
  <2>5. Ends(t.kept, others, q) /\ Chosen(t.kept, others, k + 1)
    BY <2>2
  <2>6. /\ Chosen(<<m>> \o t.kept, others, k) /\ Chosen(t.kept, others, k)
        /\ Ends(<<m>> \o t.kept, others, q)
        /\ l = q /\ q < n /\ m = others[n - q] => Ends(<<m>> \o t.kept, others, q + 1)
    BY <2>1, <2>3, <2>4, <2>5, ChosenStep, EndsStep
  <2>7. CASE t.tokens + MessageTokens(m) <= p.threshold \/ l < p.min
    <3> DEFINE new == [tokens |-> t.tokens + MessageTokens(m), kept |-> <<m>> \o t.kept]
    <3>1. h[k] = new
      BY <2>1, <2>7 DEF Try
    <3>2. Len(new.kept) = l + 1 /\ BodyTokens(new.kept) = BodyTokens(t.kept) + MessageTokens(m)
      <4>1. <<m>> \in Seq(Messages) /\ Len(<<m>>) = 1
        BY <2>1
      <4>2. Len(<<m>> \o t.kept) = 1 + l
        BY <2>3, <4>1, ConcatProperties
      <4>3. BodyTokens(<<m>> \o t.kept) = MessageTokens(m) + BodyTokens(t.kept)
        BY <2>1, <2>3, <4>1, CountConcat, CountOne
      <4> QED BY <2>3, <4>2, <4>3
    <3>3. Ends(new.kept, others, Smaller(p.min, Taken(k)))
      <4>1. CASE p.min <= Taken(k + 1)
        <5>1. Smaller(p.min, Taken(k)) = q
          BY <1>4, <2>4, <4>1 DEF Smaller
        <5> QED BY <2>6, <5>1
      <4>2. CASE ~(p.min <= Taken(k + 1))
        <5>1. q = Taken(k + 1) /\ Smaller(p.min, Taken(k)) = q + 1
          BY <1>4, <2>4, <4>2 DEF Smaller
        <5>2. l = q /\ q < n /\ m = others[n - q]
          BY <2>4, <5>1
        <5> QED BY <2>6, <5>1, <5>2
      <4> QED BY <4>1, <4>2
    <3>4. /\ new.tokens = used + BodyTokens(new.kept)
          /\ new.tokens <= p.threshold \/ Len(new.kept) <= p.min
          /\ Len(new.kept) <= Taken(k)
      <4>1. t.tokens = used + BodyTokens(t.kept)
        BY <2>2
      <4>2. new.tokens = t.tokens + MessageTokens(m)
        OBVIOUS
      <4> HIDE DEF new, m, l, Taken
      <4>3. new.tokens = used + BodyTokens(new.kept)
        BY <2>3, <3>2, <4>1, <4>2
      <4>4. new.tokens <= p.threshold \/ Len(new.kept) <= p.min
        BY <1>4, <2>3, <2>7, <3>2, <4>2
      <4>5. Len(new.kept) <= Taken(k)
        BY <2>3, <2>4, <3>2
      <4> QED BY <4>3, <4>4, <4>5
    <3>5. Chosen(new.kept, others, k)
      BY <2>6
    <3>6. ASSUME Len(new.kept) = Taken(k) PROVE Ends(new.kept, others, Taken(k))
      <4>1. l = Taken(k + 1)
        <5> HIDE DEF Taken, l, new
        <5> QED BY <2>3, <2>4, <3>2, <3>6
      <4>2. Ends(t.kept, others, Taken(k + 1))
        BY <2>2, <4>1
      <4>3. m = others[n - Taken(k + 1)]
        BY <2>4
      <4> HIDE DEF Taken, t, m
      <4>4. Ends(<<m>> \o t.kept, others, Taken(k + 1) + 1)
        BY <2>1, <2>3, <2>4, <4>1, <4>2, <4>3, EndsStep
      <4> QED BY <2>4, <4>4
    <3> HIDE DEF new, Taken
    <3> QED BY <3>1, <3>3, <3>4, <3>5, <3>6
  <2>8. CASE ~(t.tokens + MessageTokens(m) <= p.threshold \/ l < p.min)
    <3>1. h[k] = t
      BY <2>1, <2>8 DEF Try
    <3>2. Smaller(p.min, Taken(k)) = q
      <4>1. p.min <= Taken(k + 1)
        <5>1. p.min \in Nat /\ l \in Nat /\ Taken(k + 1) \in Nat /\ l <= Taken(k + 1)
          BY <1>4, <2>3, <2>4
        <5>2. ~(l < p.min)
          BY <2>8
        <5> HIDE DEF l, Taken, q
        <5> QED BY <5>1, <5>2
      <4> HIDE DEF Taken
      <4> QED BY <1>4, <2>4, <4>1 DEF Smaller
    <3>3. l <= Taken(k) /\ l # Taken(k)
      <4> HIDE DEF l, Taken, q
      <4> QED BY <2>3, <2>4
    <3> HIDE DEF Taken
    <3> QED BY <2>2, <2>6, <3>1, <3>2, <3>3
  <2> QED BY <2>7, <2>8
<1>7. 1 \in S
  <2>1. 1 .. n + 1 \subseteq S
    <3> HIDE DEF S, n
    <3> QED BY <1>3, <1>5, <1>6, Downwards
  <2> HIDE DEF S
  <2> QED BY <2>1, <1>3
<1>8. Good(r, 1) /\ Taken(1) = n /\ r \in Tries
  BY <1>2, <1>3, <1>7
<1>9. ASSUME Len(r.kept) = n PROVE r.kept = others
  <2>1. r.kept \in Seq(Messages) /\ Ends(r.kept, others, n)
    BY <1>8, <1>9 DEF Tries
  <2> DEFINE kept == r.kept
  <2> HIDE DEF r
  <2>2. ASSUME NEW i \in 1 .. n PROVE kept[i] = others[i]
    <3>1. (n + 1) - i \in 1 .. n /\ (n + 1) - ((n + 1) - i) = i
      BY <1>3
    <3>2. kept[(n + 1) - ((n + 1) - i)] = others[(n + 1) - ((n + 1) - i)]
      BY <1>9, <2>1, <3>1 DEF Ends
    <3> QED BY <3>1, <3>2
  <2>3. Len(kept) = Len(others) /\ kept \in Seq(Messages)
    BY <1>9, <2>1
  <2> HIDE DEF kept
  <2>4. kept = others
    BY <2>2, <2>3, SeqEqual
  <2> QED BY <2>4 DEF kept
<1> HIDE DEF r, Seen
<1>10. Good(r, 1)
  BY <1>8
<1> QED BY <1>8, <1>9, <1>10 DEF r

\* The newest n messages as they are.
LEMMA TailFacts ==
  ASSUME NEW others \in Seq(Messages), NEW c \in 0 .. Len(others)
  PROVE  LET tail == Suffix(others, c) IN
         /\ tail \in Seq(Messages) /\ Len(tail) = c
         /\ \A i \in 1 .. c : tail[i] = others[(Len(others) - c) + i]
         /\ Ends(tail, others, c)
         /\ Chosen(tail, others, 1)
<1> DEFINE n == Len(others)
           tail == Suffix(others, c)
<1>1. n \in Nat /\ c \in Nat /\ c <= n /\ (\A i \in 1 .. n : others[i] \in Messages)
  OBVIOUS
<1> HIDE DEF n
<1>2. tail = SubSeq(others, (n - c) + 1, n)
  BY DEF Suffix, n
<1>3. /\ (n - c) + 1 \in Int /\ n \in Int
      /\ \A i \in (n - c) + 1 .. n : others[i] \in Messages
  BY <1>1
<1>4. /\ tail \in Seq(Messages)
      /\ Len(tail) = IF (n - c) + 1 <= n THEN (n - ((n - c) + 1)) + 1 ELSE 0
      /\ \A i \in 1 .. (n - ((n - c) + 1)) + 1 : tail[i] = others[(((n - c) + 1) + i) - 1]
  <2> DEFINE from == (n - c) + 1
  <2>1. from \in Int /\ (\A i \in from .. n : others[i] \in Messages)
    BY <1>3
  <2> HIDE DEF from
  <2>2. /\ SubSeq(others, from, n) \in Seq(Messages)
        /\ Len(SubSeq(others, from, n)) = IF from <= n THEN n - from + 1 ELSE 0
        /\ \A i \in 1 .. n - from + 1 : SubSeq(others, from, n)[i] = others[from + i - 1]
    BY <1>3, <2>1, SubSeqProperties
  <2>3. \A i \in 1 .. (n - from) + 1 : from + i - 1 = (from + i) - 1
    BY <1>1, <2>1
  <2>4. /\ SubSeq(others, from, n) \in Seq(Messages)
        /\ Len(SubSeq(others, from, n)) = IF from <= n THEN (n - from) + 1 ELSE 0
        /\ \A i \in 1 .. (n - from) + 1 : SubSeq(others, from, n)[i] = others[(from + i) - 1]
    BY <2>2, <2>3
  <2> USE DEF from
  <2> QED BY <1>2, <2>4
<1> HIDE DEF tail
<1>5. Len(tail) = c
  BY <1>1, <1>4
<1>6. ASSUME NEW i \in 1 .. c PROVE tail[i] = others[(n - c) + i]
  <2>1. i \in 1 .. (n - ((n - c) + 1)) + 1 /\ (((n - c) + 1) + i) - 1 = (n - c) + i
    BY <1>1
  <2> QED BY <1>4, <2>1
<1>7. ASSUME NEW i \in 1 .. c PROVE tail[(c + 1) - i] = others[(n + 1) - i]
  <2>1. (c + 1) - i \in 1 .. c /\ (n - c) + ((c + 1) - i) = (n + 1) - i
    BY <1>1
  <2> QED BY <1>6, <2>1
<1>8. Ends(tail, others, c)
  <2>1. c <= Len(tail) /\ \A i \in 1 .. c : tail[(Len(tail) + 1) - i] = others[(n + 1) - i]
    BY <1>1, <1>5, <1>7
  <2> QED BY <2>1 DEF Ends, n
<1>9. Chosen(tail, others, 1)
  <2> DEFINE at == [i \in 1 .. c |-> (n - c) + i]
  <2>1. at \in [1 .. c -> 1 .. n] /\ \A i, j \in 1 .. c : i < j => at[i] < at[j]
    BY <1>1
  <2>2. \A i \in 1 .. c : tail[i] = others[at[i]]
    BY <1>6
  <2> HIDE DEF at
  <2> QED BY <1>5, <2>1, <2>2 DEF Chosen, n
<1> QED BY <1>4, <1>5, <1>6, <1>8, <1>9 DEF tail, n

\* Ending alike in n messages is ending alike in fewer.
LEMMA FewerEnds ==
  ASSUME NEW others, NEW kept, NEW c \in Nat, NEW q \in Nat, q <= c, Ends(kept, others, c),
         Len(kept) \in Nat
  PROVE  Ends(kept, others, q)
BY DEF Ends

\* What comes at the end of two bodies is the same.
LEMMA EndsSuffix ==
  ASSUME NEW others \in Seq(Messages), NEW kept \in Seq(Messages),
         NEW q \in 0 .. Len(others), Ends(kept, others, q)
  PROVE  Suffix(kept, q) = Suffix(others, q)
<1> DEFINE l == Len(kept)
           n == Len(others)
<1>1. l \in Nat /\ n \in Nat /\ q \in Nat /\ q <= n /\ q <= l
  BY DEF Ends
<1>2. q \in 0 .. Len(kept)
  BY <1>1
<1>3. /\ Suffix(kept, q) \in Seq(Messages) /\ Len(Suffix(kept, q)) = q
      /\ \A i \in 1 .. q : Suffix(kept, q)[i] = kept[(l - q) + i]
  BY <1>2, TailFacts
<1>4. /\ Suffix(others, q) \in Seq(Messages) /\ Len(Suffix(others, q)) = q
      /\ \A i \in 1 .. q : Suffix(others, q)[i] = others[(n - q) + i]
  BY TailFacts
<1>5. ASSUME NEW i \in 1 .. q PROVE kept[(l - q) + i] = others[(n - q) + i]
  <2>1. /\ (q + 1) - i \in 1 .. q
        /\ (l + 1) - ((q + 1) - i) = (l - q) + i /\ (n + 1) - ((q + 1) - i) = (n - q) + i
    BY <1>1
  <2>2. kept[(l + 1) - ((q + 1) - i)] = others[(n + 1) - ((q + 1) - i)]
    BY <2>1 DEF Ends
  <2> QED BY <2>1, <2>2
<1> DEFINE a == Suffix(kept, q)
           b == Suffix(others, q)
<1>6. /\ a \in Seq(Messages) /\ b \in Seq(Messages) /\ Len(a) = Len(b)
      /\ \A i \in 1 .. Len(a) : a[i] = b[i]
  BY <1>3, <1>4, <1>5
<1>7. a = b
  <2> HIDE DEF a, b
  <2> QED BY <1>6, SeqEqual
<1> QED BY <1>7

\* A choice in order is what LeftOut describes.
LEMMA ChosenLeftOut ==
  ASSUME NEW others \in Seq(Messages), NEW kept \in Seq(Messages),
         Chosen(kept, others, 1), Len(kept) <= Len(others)
  PROVE  LeftOut(kept, others) /\ LeftOut(<<Summary>> \o kept, others)
<1> DEFINE l == Len(kept)
<1>1. l \in 0 .. Len(others) /\ DOMAIN others = 1 .. Len(others)
  OBVIOUS
<1>2. PICK at \in [1 .. l -> DOMAIN others] :
        /\ \A i, j \in 1 .. l : i < j => at[i] < at[j]
        /\ \A i \in 1 .. l : kept[i] = others[at[i]]
  BY <1>1 DEF Chosen
<1>3. kept = [i \in 1 .. l |-> others[at[i]]]
  BY <1>2
<1>4. ASSUME NEW summary \in {<<>>, <<Summary>>} PROVE LeftOut(summary \o kept, others)
  <2> HIDE DEF l
  <2>1. summary \o kept = summary \o [i \in 1 .. l |-> others[at[i]]]
    BY <1>3
  <2>2. \E chosen \in [1 .. l -> DOMAIN others] :
          /\ \A i, j \in 1 .. l : i < j => chosen[i] < chosen[j]
          /\ summary \o kept = summary \o [i \in 1 .. l |-> others[chosen[i]]]
    BY <1>2, <2>1
  <2> QED BY <1>1, <2>2 DEF LeftOut
<1>5. <<>> \o kept = kept
  BY ConcatEmptySeq
<1>6. LeftOut(<<>> \o kept, others) /\ LeftOut(<<Summary>> \o kept, others)
  BY <1>4
<1> QED BY <1>5, <1>6

\* How many of the newest messages a plan promises to keep.
PromisedBy(p, others) ==
  Smaller(IF p.strategy = "sliding_window" THEN p.window ELSE p.min, Len(others))

\* What is left of a body: the preserved messages in front, a choice of the
\* others behind, and at the end as many of the newest as were promised.
LeavesNewest(after, messages, p) ==
  LET system == SystemMessages(messages, p.system)
      others == OtherMessages(messages, p.system)
  IN \/ after = messages
     \/ \E kept \in Seq(Messages) :
          /\ after = system \o kept
          /\ LeftOut(kept, others)
          /\ Ends(kept, others, PromisedBy(p, others))

LEMMA SummaryMessage == Summary \in Messages
<1>1. {"summary"} \in SUBSET (Kinds \cup {Masked, "summary"})
  OBVIOUS
<1> QED BY <1>1 DEF Summary, Messages

\* Truncation keeps its promise.
LEMMA TruncateFacts ==
  ASSUME NEW messages \in Seq(Messages), NEW p \in Plans, p.strategy = "truncate"
  PROVE  LET after == Truncate(messages, p).messages IN
         /\ LeavesNewest(after, messages, p)
         /\ \/ BodyTokens(after) <= p.threshold
            \/ Len(OtherMessages(after, p.system)) <= p.min
<1> DEFINE parted == separate_system_messages(messages, p.system)
           system == parted.system
           others == parted.others
           r      == Newest(others, p, BodyTokens(system))
           after  == Truncate(messages, p).messages
<1>1. /\ system \in Seq(Messages) /\ others \in Seq(Messages)
      /\ \A i \in DOMAIN system : Preserved(system[i], p.system)
      /\ \A i \in DOMAIN others : ~Preserved(others[i], p.system)
      /\ BodyTokens(messages) = BodyTokens(system) + BodyTokens(others)
      /\ SystemMessages(messages, p.system) = system /\ OtherMessages(messages, p.system) = others
  BY SortFacts DEF SystemMessages, OtherMessages
<1>2. Truncate(messages, p) =
        IF BodyTokens(messages) <= p.threshold \/ Len(r.kept) = Len(others)
        THEN NoOp(messages) ELSE Kept(system \o r.kept)
  BY DEF Truncate, Newest, Try, SystemMessages, OtherMessages, FoldRight, MapThenFoldSet
<1>3. p.threshold \in Nat /\ p.min \in Nat /\ BodyTokens(system) \in Nat
  BY <1>1, CountConcat DEF Plans
<1> HIDE DEF parted, system, others, r, after
<1>4. /\ r \in Tries
      /\ r.tokens = BodyTokens(system) + BodyTokens(r.kept)
      /\ r.tokens <= p.threshold \/ Len(r.kept) <= p.min
      /\ Len(r.kept) <= Len(others)
      /\ Len(r.kept) = Len(others) => r.kept = others
      /\ Ends(r.kept, others, Smaller(p.min, Len(others)))
      /\ Chosen(r.kept, others, 1)
  BY <1>1, <1>3, NewestFacts DEF r
<1>5. r.kept \in Seq(Messages) /\ Len(r.kept) \in Nat /\ Len(others) \in Nat
  BY <1>1, <1>4 DEF Tries
<1>6. CASE BodyTokens(messages) <= p.threshold \/ Len(r.kept) = Len(others)
  <2>1. after = messages
    BY <1>2, <1>6 DEF NoOp, after
  <2>2. BodyTokens(messages) <= p.threshold \/ Len(others) <= p.min
    BY <1>1, <1>4, <1>6
  <2> QED BY <1>1, <2>1, <2>2 DEF LeavesNewest, after
<1>7. CASE ~(BodyTokens(messages) <= p.threshold \/ Len(r.kept) = Len(others))
  <2>1. after = system \o r.kept
    BY <1>2, <1>7 DEF Kept, after
  <2>2. LeftOut(r.kept, others)
    BY <1>1, <1>4, <1>5, ChosenLeftOut
  <2>3. LeavesNewest(after, messages, p)
    BY <1>1, <1>4, <1>5, <2>1, <2>2 DEF LeavesNewest, PromisedBy
  <2>4. BodyTokens(after) = r.tokens
    BY <1>1, <1>4, <1>5, <2>1, CountConcat
  <2>5. Len(OtherMessages(after, p.system)) = Len(r.kept)
    <3>1. \A i \in DOMAIN r.kept : ~Preserved(r.kept[i], p.system)
      <4>1. PICK at \in [1 .. Len(r.kept) -> 1 .. Len(others)] :
              \A i \in 1 .. Len(r.kept) : r.kept[i] = others[at[i]]
        BY <1>4 DEF Chosen
      <4>2. DOMAIN r.kept = 1 .. Len(r.kept) /\ DOMAIN others = 1 .. Len(others)
        BY <1>1, <1>5
      <4> QED BY <1>1, <4>1, <4>2
    <3> DEFINE b == r.kept
               preserve == p.system
    <3>2. b \in Seq(Messages) /\ after = system \o b /\ system \in Seq(Messages)
      BY <1>1, <1>5, <2>1
    <3>3. \A i \in DOMAIN system : Preserved(system[i], preserve)
      BY <1>1
    <3>4. \A i \in DOMAIN b : ~Preserved(b[i], preserve)
      BY <3>1
    <3> HIDE DEF b, preserve
    <3>5. Len(OtherMessages(system \o b, preserve)) = Len(b)
      BY <3>2, <3>3, <3>4, SortAgain
    <3>6. Len(OtherMessages(after, preserve)) = Len(b)
      BY <3>2, <3>5
    <3> QED BY <3>6 DEF b, preserve
  <2> QED BY <1>4, <2>3, <2>4, <2>5 DEF after
<1> QED BY <1>6, <1>7

\* Keeping the newest messages as they are keeps the promise as well.
LEMMA TailLeaves ==
  ASSUME NEW messages \in Seq(Messages), NEW p \in Plans,
         NEW c \in 0 .. Len(OtherMessages(messages, p.system)),
         PromisedBy(p, OtherMessages(messages, p.system)) <= c,
         NEW after,
         LET tail == Suffix(OtherMessages(messages, p.system), c) IN
         \/ after = SystemMessages(messages, p.system) \o tail
         \/ after = SystemMessages(messages, p.system) \o (<<Summary>> \o tail)
  PROVE  LeavesNewest(after, messages, p)
<1> DEFINE system == SystemMessages(messages, p.system)
           others == OtherMessages(messages, p.system)
           tail   == Suffix(others, c)
           q      == PromisedBy(p, others)
<1>1. system \in Seq(Messages) /\ others \in Seq(Messages)
  BY SortFacts DEF SystemMessages, OtherMessages
<1>2. /\ tail \in Seq(Messages) /\ Len(tail) = c /\ Ends(tail, others, c) /\ Chosen(tail, others, 1)
  BY <1>1, TailFacts
<1>3. /\ c \in Nat /\ c <= Len(others) /\ Len(others) \in Nat
  BY <1>1
<1>4. q \in Nat /\ q <= c
  BY <1>3 DEF PromisedBy, Smaller, Plans
<1> HIDE DEF system, others, tail, q
<1>5. Ends(tail, others, q)
  BY <1>2, <1>3, <1>4, FewerEnds
<1>6. Ends(<<Summary>> \o tail, others, q)
  BY <1>1, <1>2, <1>4, <1>5, EndsStep, SummaryMessage
<1>7. LeftOut(tail, others) /\ LeftOut(<<Summary>> \o tail, others)
  BY <1>1, <1>2, <1>3, ChosenLeftOut
<1>8. <<Summary>> \o tail \in Seq(Messages)
  BY <1>2, SummaryMessage, ConcatProperties
<1>9. after = system \o tail \/ after = system \o (<<Summary>> \o tail)
  BY DEF system, others, tail
<1> QED BY <1>2, <1>5, <1>6, <1>7, <1>8, <1>9 DEF LeavesNewest, system, others, q

(* Whatever the strategy. *)
LEMMA CompactFacts ==
  ASSUME NEW messages \in Seq(Messages), NEW p \in Plans, NEW answer
  PROVE  LET run == CompactMessages(messages, p, answer) IN
         /\ LeavesNewest(run.messages, messages, p)
         /\ run.result = "NoOp" => run.messages = messages
         /\ p.strategy = "truncate" =>
              \/ BodyTokens(run.messages) <= p.threshold
              \/ Len(OtherMessages(run.messages, p.system)) <= p.min
<1> DEFINE system == SystemMessages(messages, p.system)
           others == OtherMessages(messages, p.system)
           n      == Len(others)
           run    == CompactMessages(messages, p, answer)
<1>1. system \in Seq(Messages) /\ others \in Seq(Messages) /\ n \in Nat /\ Len(messages) \in Nat
  BY SortFacts DEF SystemMessages, OtherMessages
<1>2. p.strategy \in {"truncate", "sliding_window", "llm"} /\ p.window \in Nat /\ p.min \in Nat
  BY DEF Plans
<1>3. run.result = "NoOp" => run.messages = messages
  BY DEF CompactMessages, Truncate, SlidingWindow, Summarized, NoOp, Kept
<1>4. NoOp(messages).messages = messages /\ LeavesNewest(messages, messages, p)
  BY DEF NoOp, LeavesNewest
<1>5. CASE p.strategy = "truncate"
  <2>1. run = Truncate(messages, p)
    BY <1>5 DEF CompactMessages
  <2> HIDE DEF run
  <2>2. /\ LeavesNewest(run.messages, messages, p)
        /\ \/ BodyTokens(run.messages) <= p.threshold
           \/ Len(OtherMessages(run.messages, p.system)) <= p.min
    BY <1>5, <2>1, TruncateFacts
  <2> USE DEF run
  <2> QED BY <1>3, <2>2
<1>6. CASE p.strategy = "sliding_window"
  <2>1. run = SlidingWindow(messages, p)
    BY <1>6 DEF CompactMessages
  <2>2. CASE Len(messages) <= p.window \/ n <= p.window
    <3>1. run = NoOp(messages)
      BY <2>1, <2>2 DEF SlidingWindow
    <3> QED BY <1>3, <1>4, <1>6, <3>1
  <2>3. CASE ~(Len(messages) <= p.window \/ n <= p.window)
    <3>1. run.messages = system \o Suffix(others, p.window)
      <4>1. run = Kept(system \o SubSeq(others, n - p.window + 1, n))
        BY <2>1, <2>3 DEF SlidingWindow
      <4>2. Suffix(others, p.window) = SubSeq(others, n - p.window + 1, n)
        BY DEF Suffix
      <4> HIDE DEF run, system, others, n
      <4> QED BY <4>1, <4>2 DEF Kept
    <3>2. p.window \in 0 .. n /\ PromisedBy(p, others) <= p.window
      BY <1>1, <1>2, <1>6, <2>3 DEF PromisedBy, Smaller
    <3>3. LeavesNewest(run.messages, messages, p)
      <4> HIDE DEF run
      <4> QED BY <3>1, <3>2, TailLeaves
    <3> QED BY <1>3, <1>6, <3>3
  <2> QED BY <2>2, <2>3
<1>7. CASE p.strategy = "llm"
  <2> DEFINE c == Larger(n \div 2, p.min)
  <2>1. run = Summarized(messages, p, answer)
    BY <1>7 DEF CompactMessages
  <2>2. CASE ~NeedsLlm(messages, p) \/ answer = "failure"
    <3>1. run = NoOp(messages)
      BY <2>1, <2>2 DEF Summarized
    <3> QED BY <1>3, <1>4, <1>7, <3>1
  <2>3. CASE ~(~NeedsLlm(messages, p) \/ answer = "failure")
    <3>1. run.messages = system \o <<Summary>> \o Suffix(others, c)
      <4>1. run = Kept(system \o <<Summary>> \o SubSeq(others, n - c + 1, n))
        BY <2>1, <2>3 DEF Summarized
      <4>2. Suffix(others, c) = SubSeq(others, n - c + 1, n)
        BY DEF Suffix
      <4> HIDE DEF run, system, others, n, c
      <4> QED BY <4>1, <4>2 DEF Kept
    <3>2. c \in 0 .. n /\ PromisedBy(p, others) <= c
      <4>1. p.min < n
        BY <1>1, <1>2, <2>3 DEF NeedsLlm
      <4>2. n \div 2 \in Nat /\ n \div 2 <= n
        <5> HIDE DEF n
        <5> QED BY <1>1
      <4> HIDE DEF n
      <4> QED BY <1>1, <1>2, <1>7, <4>1, <4>2 DEF PromisedBy, Smaller, Larger, n
    <3>3. system \o <<Summary>> \o Suffix(others, c) = system \o (<<Summary>> \o Suffix(others, c))
      <4>1. <<Summary>> \in Seq(Messages)
        BY SummaryMessage
      <4>2. Suffix(others, c) \in Seq(Messages)
        BY <1>1, <3>2, TailFacts
      <4> QED BY <1>1, <4>1, <4>2, ConcatAssociative
    <3>4. LeavesNewest(run.messages, messages, p)
      <4> HIDE DEF run, c
      <4> QED BY <3>1, <3>2, <3>3, TailLeaves
    <3> QED BY <1>3, <1>7, <3>4
  <2> QED BY <2>2, <2>3
<1> QED BY <1>2, <1>5, <1>6, <1>7

\* A body of two parts comes apart again.
LEMMA PartsOfConcat ==
  ASSUME NEW a \in Seq(Messages), NEW b \in Seq(Messages)
  PROVE  /\ SubSeq(a \o b, 1, Len(a)) = a
         /\ SubSeq(a \o b, Len(a) + 1, Len(a \o b)) = b
<1> DEFINE s == a \o b
           l == Len(a)
           n == Len(b)
           to == Len(s)
           from == l + 1
<1>1. /\ s \in Seq(Messages) /\ to = l + n /\ l \in Nat /\ n \in Nat
      /\ \A i \in 1 .. l + n : s[i] = IF i <= l THEN a[i] ELSE b[i - l]
      /\ \A i \in 1 .. l + n : s[i] \in Messages
  BY ConcatProperties, ElementOfSeq
<1>2. SubSeq(s, 1, l) = a
  <2> DEFINE one == 1
             front == SubSeq(s, one, l)
  <2>1. one \in Int /\ l \in Int /\ \A i \in one .. l : s[i] \in Messages
    BY <1>1
  <2> HIDE DEF s, l, one
  <2>2. /\ SubSeq(s, one, l) \in Seq(Messages)
        /\ Len(SubSeq(s, one, l)) = IF one <= l THEN l - one + 1 ELSE 0
        /\ \A i \in 1 .. l - one + 1 : SubSeq(s, one, l)[i] = s[one + i - 1]
    BY <2>1, SubSeqProperties
  <2> USE DEF one
  <2>3. /\ front \in Seq(Messages) /\ Len(front) = l
        /\ \A i \in 1 .. l : front[i] = s[i]
    BY <1>1, <2>2
  <2>4. \A i \in 1 .. l : front[i] = a[i]
    BY <1>1, <2>3
  <2>5. Len(front) = Len(a)
    BY <2>3 DEF l
  <2> HIDE DEF front
  <2>6. front = a
    BY <2>3, <2>4, <2>5, SeqEqual
  <2> QED BY <2>6 DEF front
<1>3. SubSeq(s, from, to) = b
  <2> DEFINE back == SubSeq(s, from, to)
  <2>1. from \in Int /\ to \in Int /\ \A i \in from .. to : s[i] \in Messages
    BY <1>1
  <2> HIDE DEF s, from, to
  <2>2. /\ SubSeq(s, from, to) \in Seq(Messages)
        /\ Len(SubSeq(s, from, to)) = IF from <= to THEN to - from + 1 ELSE 0
        /\ \A i \in 1 .. to - from + 1 : SubSeq(s, from, to)[i] = s[from + i - 1]
    BY <2>1, SubSeqProperties
  <2> USE DEF from
  <2> HIDE DEF l, n
  <2>3. to - from + 1 = n /\ (from <= to <=> n # 0)
    BY <1>1
  <2>4. back \in Seq(Messages) /\ Len(back) = n
    BY <1>1, <2>2, <2>3
  <2>5. ASSUME NEW i \in 1 .. n PROVE back[i] = b[i]
    <3>1. back[i] = s[from + i - 1]
      BY <2>2, <2>3
    <3>2. from + i - 1 = l + i /\ l + i \in 1 .. l + n /\ ~(l + i <= l) /\ (l + i) - l = i
      BY <1>1
    <3> QED BY <1>1, <3>1, <3>2
  <2> HIDE DEF back
  <2>6. Len(back) = Len(b)
    BY <2>4 DEF n
  <2>7. back = b
    BY <2>4, <2>5, <2>6, SeqEqual DEF n
  <2> QED BY <2>7 DEF back
<1> QED BY <1>2, <1>3

\* What the lemmas say of a compacted body, in the words of NewestKept.
LEMMA NewestFound ==
  ASSUME NEW after, NEW messages \in Seq(Messages), NEW p \in Plans,
         LeavesNewest(after, messages, p)
  PROVE  LET system == SystemMessages(messages, p.system)
             others == OtherMessages(messages, p.system)
             kept   == SubSeq(after, Len(system) + 1, Len(after))
             q      == PromisedBy(p, others)
         IN \/ after = messages
            \/ /\ SubSeq(after, 1, Len(system)) = system
               /\ LeftOut(kept, others)
               /\ Len(kept) >= q
               /\ Suffix(kept, q) = Suffix(others, q)
<1> DEFINE system == SystemMessages(messages, p.system)
           others == OtherMessages(messages, p.system)
           q      == PromisedBy(p, others)
<1>1. system \in Seq(Messages) /\ others \in Seq(Messages) /\ Len(others) \in Nat
  BY SortFacts DEF SystemMessages, OtherMessages
<1>2. q \in 0 .. Len(others)
  BY <1>1 DEF PromisedBy, Smaller, Plans
<1>3. ASSUME NEW kept \in Seq(Messages), after = system \o kept, LeftOut(kept, others),
             Ends(kept, others, q)
      PROVE  /\ SubSeq(after, 1, Len(system)) = system
             /\ SubSeq(after, Len(system) + 1, Len(after)) = kept
             /\ Len(kept) >= q
             /\ Suffix(kept, q) = Suffix(others, q)
  <2> HIDE DEF system, others, q
  <2>1. /\ SubSeq(after, 1, Len(system)) = system
        /\ SubSeq(after, Len(system) + 1, Len(after)) = kept
    BY <1>1, <1>3, PartsOfConcat
  <2>2. Len(kept) >= q
    BY <1>1, <1>2, <1>3 DEF Ends
  <2>3. Suffix(kept, q) = Suffix(others, q)
    BY <1>1, <1>2, <1>3, EndsSuffix
  <2> QED BY <2>1, <2>2, <2>3
<1>4. CASE after = messages
  BY <1>4
<1>5. CASE \E kept \in Seq(Messages) :
             after = system \o kept /\ LeftOut(kept, others) /\ Ends(kept, others, q)
  <2>1. PICK kept \in Seq(Messages) :
          after = system \o kept /\ LeftOut(kept, others) /\ Ends(kept, others, q)
    BY <1>5
  <2> HIDE DEF system, others, q
  <2>2. /\ SubSeq(after, 1, Len(system)) = system
        /\ SubSeq(after, Len(system) + 1, Len(after)) = kept
        /\ Len(kept) >= q /\ Suffix(kept, q) = Suffix(others, q)
    BY <1>3, <2>1
  <2>3. \/ after = messages
        \/ /\ SubSeq(after, 1, Len(system)) = system
           /\ LeftOut(SubSeq(after, Len(system) + 1, Len(after)), others)
           /\ Len(SubSeq(after, Len(system) + 1, Len(after))) >= q
           /\ Suffix(SubSeq(after, Len(system) + 1, Len(after)), q) = Suffix(others, q)
    BY <2>1, <2>2
  <2> QED BY <2>3 DEF system, others, q
<1> QED BY <1>4, <1>5 DEF LeavesNewest

\* The last message stays the last, where the plan promises any.
LEMMA LastStays ==
  ASSUME NEW after, NEW messages \in Seq(Messages), NEW p \in Plans,
         LeavesNewest(after, messages, p),
         messages # <<>>, ~Preserved(messages[Len(messages)], p.system),
         PromisedBy(p, messages) >= 1
  PROVE  /\ after \in Seq(Messages) /\ after # <<>>
         /\ after[Len(after)] = messages[Len(messages)]
<1> DEFINE system == SystemMessages(messages, p.system)
           others == OtherMessages(messages, p.system)
           q      == PromisedBy(p, others)
<1>1. /\ system \in Seq(Messages) /\ others \in Seq(Messages) /\ Len(others) \in Nat
      /\ others # <<>> /\ others[Len(others)] = messages[Len(messages)]
  BY SortFacts DEF SystemMessages, OtherMessages
<1>2. Len(others) >= 1 /\ Len(messages) \in Nat /\ Len(system) \in Nat
  BY <1>1
<1>3. q >= 1
  <2> HIDE DEF others
  <2> QED BY <1>1, <1>2 DEF PromisedBy, Smaller, Plans
<1>4. q \in Nat
  BY <1>2 DEF PromisedBy, Smaller, Plans
<1>5. CASE after = messages
  BY <1>5
<1>6. CASE \E kept \in Seq(Messages) :
             after = system \o kept /\ LeftOut(kept, others) /\ Ends(kept, others, q)
  <2>1. PICK kept \in Seq(Messages) : after = system \o kept /\ Ends(kept, others, q)
    BY <1>6
  <2> HIDE DEF system, others, q
  <2>2. 1 \in 1 .. q /\ q <= Len(kept) /\ Len(kept) \in Nat
    BY <1>3, <1>4, <2>1 DEF Ends
  <2>3. kept[(Len(kept) + 1) - 1] = others[(Len(others) + 1) - 1]
    BY <2>1, <2>2 DEF Ends
  <2>4. kept[Len(kept)] = others[Len(others)]
    BY <1>1, <2>2, <2>3
  <2>5. /\ after \in Seq(Messages) /\ Len(after) = Len(system) + Len(kept)
        /\ \A i \in 1 .. Len(system) + Len(kept) :
             after[i] = IF i <= Len(system) THEN system[i] ELSE kept[i - Len(system)]
    BY <1>1, <2>1, ConcatProperties
  <2>6. /\ Len(after) \in 1 .. Len(system) + Len(kept) /\ ~(Len(after) <= Len(system))
        /\ Len(after) - Len(system) = Len(kept) /\ Len(after) >= 1
    BY <1>2, <1>3, <1>4, <2>2, <2>5
  <2>7. after[Len(after)] = kept[Len(kept)]
    BY <2>5, <2>6
  <2> QED BY <1>1, <2>4, <2>5, <2>6, <2>7
<1> QED BY <1>5, <1>6 DEF LeavesNewest

-----------------------------------------------------------------------------
(* The compaction of a chat's body. *)

\* The plan of a request is one that from_config makes, or off.
LEMMA PlanTyped ==
  ASSUME Configured, Compacts
  PROVE  Plan \in Plans
<1> DEFINE c == setup.compactor
<1>1. c # None /\ Plan = FromConfig(c)
  BY DEF Compacts, Plan, OnRequest
<1>2. c \in CompactorConfigs /\ FromConfig(c).strategy # "error"
  BY <1>1 DEF Configured, Setups
<1> HIDE DEF c
<1>3. \A n \in -Word .. Word : AsUsize(n) \in Nat
  BY CompactionAssumption DEF AsUsize
<1>4. /\ AsUsize(c.threshold) \in Nat /\ AsUsize(c.window) \in Nat /\ AsUsize(c.min) \in Nat
      /\ c.system \in BOOLEAN /\ c.summarizer \in BOOLEAN
  BY <1>2, <1>3 DEF CompactorConfigs
<1> DEFINE strategy == Given(c.strategy, "truncate")
<1> DEFINE refused == \/ strategy \notin {"truncate", "sliding_window", "llm"}
                      \/ strategy = "llm" /\ ~c.summarizer
           made == [strategy |-> strategy, threshold |-> AsUsize(c.threshold),
                    window |-> AsUsize(c.window), min |-> AsUsize(c.min),
                    system |-> c.system, summarizer |-> c.summarizer]
<1>5. FromConfig(c) = IF refused THEN [strategy |-> "error"] ELSE made
  BY DEF FromConfig
<1>6. ~refused
  <2> HIDE DEF refused, made
  <2> QED BY <1>2, <1>5
<1>7. strategy \in {"truncate", "sliding_window", "llm"}
  BY <1>6
<1>8. made \in Plans
  <2> HIDE DEF strategy
  <2> QED BY <1>4, <1>7 DEF Plans
<1>9. FromConfig(c) = made
  <2> HIDE DEF refused, made
  <2> QED BY <1>5, <1>6
<1> QED BY <1>1, <1>8, <1>9

\* What the guardrails make of a chat body, when the services answer d.
Checked(d) == Applied(ClientBody, PreCall(Text(ClientBody), Asked, d))

Bodies == [messages : Seq(Messages), field : BOOLEAN, pad : {0}]

\* The redacted text, message by message.
LEMMA ExchangedText ==
  ASSUME NEW m \in ClientMessages, NEW text \in SUBSET (Kinds \cup {Masked, "summary"})
  PROVE  LET e == [m EXCEPT !.text = text, !.blocks = FALSE] IN
         e \in Messages /\ e.role = m.role /\ e.text = text
<1> DEFINE f == [m EXCEPT !.text = text]
           e == [m EXCEPT !.text = text, !.blocks = FALSE]
           M == [role : STRING, text : SUBSET (Kinds \cup {Masked, "summary"}), blocks : BOOLEAN]
<1>1. m \in M
  BY DEF ClientMessages
<1>2. f \in M /\ f.role = m.role /\ f.text = text
  BY <1>1
<1>3. e = [f EXCEPT !.blocks = FALSE]
  OBVIOUS
<1> HIDE DEF f
<1>4. e \in M /\ e.role = m.role /\ e.text = text
  BY <1>2, <1>3
<1> HIDE DEF e
<1>5. e \in Messages
  BY <1>4 DEF Messages
<1> QED BY <1>4, <1>5 DEF e

\* The messages stay in number and in their roles; the text is exchanged of
\* the last user message alone, and for what the verdict leaves of all of it.
LEMMA CheckedFacts ==
  ASSUME Configured, NEW d \in Decisions, PreCall(Text(ClientBody), Asked, d).kind # "Block"
  PROVE  LET v    == PreCall(Text(ClientBody), Asked, d)
             body == Checked(d)
         IN /\ body \in Bodies /\ Len(body.messages) = Len(request.messages)
            /\ \A i \in DOMAIN request.messages :
                 body.messages[i].role = request.messages[i].role
            /\ \A i \in LastUser(request.messages) :
                 body.messages[i].text \subseteq Left(v, Text(ClientBody))
<1> DEFINE v    == PreCall(Text(ClientBody), Asked, d)
           body == Checked(d)
           text == Text(ClientBody)
           n    == Len(request.messages)
<1>1. /\ request \in ClientRequests /\ request.messages \in Seq(ClientMessages)
      /\ request.field \in BOOLEAN
  BY DEF Configured, ClientRequests
<1>2. /\ n \in Nat /\ DOMAIN request.messages = 1 .. n
      /\ \A i \in 1 .. n : request.messages[i] \in ClientMessages
  BY <1>1
<1>3. \A m \in ClientMessages : m \in Messages
  BY DEF ClientMessages, Messages
<1>4. request.messages \in Seq(Messages)
  BY <1>1, <1>3, SeqMonotonic
<1>5. ClientBody \in Bodies /\ ClientBody.messages = request.messages
  BY <1>1, <1>4 DEF ClientBody, Bodies
<1>6. /\ v.kind \in {"None", "Modify", "Pass"}
      /\ v.kind = "Modify" => v.text \in Texts
  BY TextFacts, PreCallFacts
<1>7. \A i \in 1 .. n : request.messages[i].text \subseteq text
  BY <1>2, <1>5 DEF Text
<1> HIDE DEF v, text, n
<1>8. body = Applied(ClientBody, v)
  BY DEF Checked, v
<1> HIDE DEF body
<1>9. CASE v.kind # "Modify"
  <2>1. body.messages = request.messages /\ body \in Bodies
    BY <1>5, <1>6, <1>8, <1>9 DEF Applied, Bodies
  <2>2. \A i \in LastUser(request.messages) : i \in 1 .. n
    BY <1>2 DEF LastUser
  <2> QED BY <1>7, <1>9, <2>1, <2>2 DEF Left, v, text, body
<1>10. CASE v.kind = "Modify"
  <2> DEFINE to(i) == IF i \in LastUser(request.messages)
                      THEN [request.messages[i] EXCEPT !.text = v.text, !.blocks = FALSE]
                      ELSE request.messages[i]
             changed == [i \in 1 .. n |-> to(i)]
  <2>1. body = Replaced(ClientBody, v.text)
    BY <1>8, <1>10 DEF Applied
  <2>2. body.messages = changed /\ body.field = FALSE /\ body.pad = ClientBody.pad
        /\ body = [messages |-> changed, field |-> FALSE, pad |-> 0]
    <3>1. ClientBody = [messages |-> request.messages, field |-> request.field, pad |-> 0]
      BY DEF ClientBody
    <3>2. changed = [i \in DOMAIN request.messages |-> to(i)]
      BY <1>2
    <3>3. body = [ClientBody EXCEPT !.field = FALSE, !.messages = changed]
      BY <2>1, <3>1, <3>2 DEF Replaced
    <3> HIDE DEF changed
    <3> QED BY <3>1, <3>3
  <2>3. ASSUME NEW i \in 1 .. n
        PROVE  /\ to(i) \in Messages /\ to(i).role = request.messages[i].role
               /\ i \in LastUser(request.messages) => to(i).text = v.text
    <3>1. request.messages[i] \in ClientMessages /\ v.text \in SUBSET (Kinds \cup {Masked, "summary"})
      BY <1>2, <1>6, <1>10 DEF Texts
    <3>2. CASE i \in LastUser(request.messages)
      <4>1. to(i) = [request.messages[i] EXCEPT !.text = v.text, !.blocks = FALSE]
        BY <3>2
      <4> DEFINE m == request.messages[i]
                 given == v.text
                 e == [m EXCEPT !.text = given, !.blocks = FALSE]
      <4>2. m \in ClientMessages /\ given \in SUBSET (Kinds \cup {Masked, "summary"}) /\ to(i) = e
        BY <3>1, <4>1
      <4> HIDE DEF m, given, to
      <4>3. e \in Messages /\ e.role = m.role /\ e.text = given
        BY <4>2, ExchangedText, Zenon
      <4> HIDE DEF e
      <4>4. to(i) \in Messages /\ to(i).role = m.role /\ to(i).text = given
        BY <4>2, <4>3
      <4> QED BY <4>4 DEF m, given
    <3>3. CASE i \notin LastUser(request.messages)
      BY <1>3, <3>1, <3>3
    <3> QED BY <3>2, <3>3
  <2> HIDE DEF to
  <2>4. changed \in Seq(Messages) /\ Len(changed) = n
    <3>1. changed \in [1 .. n -> Messages]
      BY <2>3
    <3> QED BY <1>2, <3>1
  <2>5. \A i \in 1 .. n : changed[i].role = request.messages[i].role
    BY <2>3
  <2>6. \A i \in LastUser(request.messages) : i \in 1 .. n /\ changed[i].text = v.text
    BY <1>2, <2>3 DEF LastUser
  <2> HIDE DEF changed
  <2>7. body \in Bodies
    BY <2>2, <2>4 DEF Bodies
  <2>8. /\ Len(body.messages) = Len(request.messages)
        /\ \A i \in DOMAIN request.messages : body.messages[i].role = request.messages[i].role
    BY <1>2, <2>2, <2>4, <2>5 DEF n
  <2>9. \A i \in LastUser(request.messages) : body.messages[i].text \subseteq Left(v, text)
    BY <1>10, <2>2, <2>6 DEF Left
  <2> QED BY <2>7, <2>8, <2>9 DEF v, text, body
<1> QED BY <1>9, <1>10

\* Padding touches no message.
LEMMA CompactedFacts ==
  ASSUME Configured, NEW body \in Bodies, NEW answer
  PROVE  LET after == Compacted(body, answer).messages IN
         /\ ~(Compacts /\ request.valid) => after = body.messages
         /\ Compacts /\ request.valid =>
              /\ LeavesNewest(after, body.messages, Plan)
              /\ Plan.strategy = "truncate" =>
                   \/ BodyTokens(after) <= Plan.threshold
                   \/ Len(OtherMessages(after, Plan.system)) <= Plan.min
<1> DEFINE run   == CompactMessages(body.messages, Plan, answer)
           after == Compacted(body, answer).messages
<1>1. ~(Compacts /\ request.valid) => after = body.messages
  BY DEF Compacted
<1>2. CASE Compacts /\ request.valid
  <2>1. body.messages \in Seq(Messages)
    BY DEF Bodies
  <2>2. Plan \in Plans
    BY <1>2, PlanTyped
  <2> DEFINE p == Plan
             messages == body.messages
  <2>3. run = CompactMessages(messages, p, answer)
    OBVIOUS
  <2> HIDE DEF p, messages, run
  <2>4. /\ LeavesNewest(run.messages, messages, p)
        /\ run.result = "NoOp" => run.messages = messages
        /\ p.strategy = "truncate" =>
             \/ BodyTokens(run.messages) <= p.threshold
             \/ Len(OtherMessages(run.messages, p.system)) <= p.min
    BY <2>1, <2>2, <2>3, CompactFacts DEF p, messages
  <2>5. after = run.messages
    <3>1. CASE run.result = "NoOp"
      BY <1>2, <2>4, <3>1 DEF Compacted, run, messages
    <3>2. CASE run.result # "NoOp"
      <4> DEFINE made == [body EXCEPT !.messages = run.messages]
      <4>1. made = [messages |-> run.messages, field |-> body.field, pad |-> body.pad]
        BY DEF Bodies
      <4>2. Compacted(body, answer) = Padded(made)
        BY <1>2, <3>2 DEF Compacted, run
      <4> HIDE DEF made
      <4>3. Padded(made).messages = made.messages
        BY <4>1 DEF Padded
      <4> QED BY <4>1, <4>2, <4>3
    <3> QED BY <3>1, <3>2
  <2> HIDE DEF after
  <2>6. /\ LeavesNewest(after, messages, p)
        /\ p.strategy = "truncate" =>
             \/ BodyTokens(after) <= p.threshold
             \/ Len(OtherMessages(after, p.system)) <= p.min
    BY <2>4, <2>5
  <2> QED BY <1>2, <2>6 DEF p, messages, after
<1> QED BY <1>1, <1>2

\* A chat body as it was before compaction and as it is after, when it is sent.
LEMMA ChatBodies ==
  ASSUME Configured, NEW d \in Decisions, NEW answer, ChatSends(d, answer),
         UNCHANGED <<setup, request>>
  PROVE  /\ Before' = Checked(d).messages
         /\ After' = Compacted(Checked(d), answer).messages
         /\ Checked(d) \in Bodies
<1>1. /\ up' = <<Whole(Compacted(Checked(d), answer))>> /\ said' = <<d, answer>>
      /\ PreCall(Text(ClientBody), Asked, d).kind # "Block"
  BY DEF ChatSends, Checked
<1>2. After' = Compacted(Checked(d), answer).messages
  <2> HIDE DEF Checked
  <2> QED BY <1>1 DEF After, Whole
<1>3. said'[1] = d
  BY <1>1
<1>4. Before' = Checked(said'[1]).messages
  BY DEF Before, Checked, Applied, Replaced, LastUser, ClientBody, Text, Asked, PreCall
<1>5. Checked(d) \in Bodies
  BY <1>1, CheckedFacts
<1> QED BY <1>2, <1>3, <1>4, <1>5

\* A property of the chat bodies that are sent holds if it holds of each when
\* it is put together.
LEMMA ChatSent ==
  ASSUME Configured, Framed, [Next]_vars, (Assembled /\ setup.endpoint = "chat")'
  PROVE  \/ /\ Assembled /\ setup.endpoint = "chat"
            /\ UNCHANGED <<setup, request, up, requested, said>>
         \/ /\ UNCHANGED <<setup, request>>
            /\ \E d \in Decisions, answer \in {"summary", "failure"} : ChatSends(d, answer)
<1>1. ASSUME UNCHANGED <<setup, phase, up>> PROVE Assembled /\ setup.endpoint = "chat"
  BY <1>1 DEF Assembled, One
<1>2. CASE UNCHANGED vars
  BY <1>1, <1>2 DEF vars
<1>3. CASE Next
  <2>1. UNCHANGED <<setup, request>>
    BY <1>3, SetupKept
  <2>2. ASSUME NEW d \in Decisions, NativeSends(d) PROVE FALSE
    BY <2>1, <2>2 DEF NativeSends
  <2>3. CASE UNCHANGED <<phase, up, requested, said>>
    BY <1>1, <2>1, <2>3
  <2>4. Assembled'
    OBVIOUS
  <2> QED BY <1>3, <2>1, <2>2, <2>3, <2>4, SentStep
<1> QED BY <1>2, <1>3

\* Compaction keeps the system messages in front and the newest of the others
\* behind, as many as the strategy promises (auto_compaction.rs:128-241,
\* 280-301; gateway.rs:1209-1307).
THEOREM NewestKeptAlways == Spec => []NewestKept
<1>1. Init => NewestKept
  BY DEF Init, NewestKept, Assembled
<1>2. ASSUME Configured, Framed, NewestKept, [Next]_vars
      PROVE  NewestKept'
  <2>1. CASE ~(Assembled /\ request.valid /\ setup.endpoint = "chat" /\ Compacts)'
    BY <2>1 DEF NewestKept
  <2>2. CASE (Assembled /\ request.valid /\ setup.endpoint = "chat" /\ Compacts)'
    <3>1. CASE /\ Assembled /\ setup.endpoint = "chat"
               /\ UNCHANGED <<setup, request, up, requested, said>>
      <4>1. Plan' = Plan /\ After' = After
        BY <3>1 DEF Plan, After
      <4>2. Before' = Before
        BY <3>1 DEF Before, Applied, Replaced, LastUser, ClientBody, Text, Asked, PreCall
      <4>3. \A others : Promised(others)' = Promised(others)
        BY <4>1 DEF Promised
      <4>4. Assembled /\ request.valid /\ setup.endpoint = "chat" /\ Compacts
        BY <2>2, <3>1, <4>1 DEF Compacts
      <4> QED BY <1>2, <4>1, <4>2, <4>3, <4>4 DEF NewestKept
    <3>2. ASSUME NEW d \in Decisions, NEW answer, ChatSends(d, answer), UNCHANGED <<setup, request>>
          PROVE  NewestKept'
      <4> DEFINE after == Compacted(Checked(d), answer).messages
                 messages == Checked(d).messages
                 p == Plan
      <4>1. Before' = messages /\ After' = after /\ Checked(d) \in Bodies
        BY <1>2, <3>2, ChatBodies
      <4>2. messages \in Seq(Messages)
        BY <4>1 DEF Bodies
      <4>3. Compacts /\ request.valid /\ p \in Plans
        BY <1>2, <2>2, <3>2, PlanTyped DEF Compacts, Plan
      <4>4. LeavesNewest(after, messages, p)
        BY <1>2, <4>1, <4>3, CompactedFacts
      <4>5. Plan' = p
        BY <3>2 DEF Plan
      <4>6. \A others : Promised(others)' = PromisedBy(p, others)
        BY <4>5 DEF Promised, PromisedBy
      <4> HIDE DEF after, messages, p
      <4>7. LET system == SystemMessages(messages, p.system)
                others == OtherMessages(messages, p.system)
                kept   == SubSeq(after, Len(system) + 1, Len(after))
                q      == PromisedBy(p, others)
            IN \/ after = messages
               \/ /\ SubSeq(after, 1, Len(system)) = system
                  /\ LeftOut(kept, others)
                  /\ Len(kept) >= q
                  /\ Suffix(kept, q) = Suffix(others, q)
        BY <4>2, <4>3, <4>4, NewestFound
      <4> QED BY <4>1, <4>5, <4>6, <4>7 DEF NewestKept
    <3> QED BY <1>2, <2>2, <3>1, <3>2, ChatSent
  <2> QED BY <2>1, <2>2
<1> QED BY <1>1, <1>2, ConfiguredAlways, FramedAlways, PTL DEF Spec

\* A truncated body fits the threshold, unless it holds no more than what is
\* to be kept at least (auto_compaction.rs:163-205).
THEOREM WithinThresholdAlways == Spec => []WithinThreshold
<1>1. Init => WithinThreshold
  BY DEF Init, WithinThreshold, Assembled
<1>2. ASSUME Configured, Framed, WithinThreshold, [Next]_vars
      PROVE  WithinThreshold'
  <2> DEFINE Read == Assembled /\ request.valid /\ setup.endpoint = "chat"
                     /\ Plan.strategy = "truncate"
  <2>1. CASE ~Read'
    BY <2>1 DEF WithinThreshold
  <2>2. CASE Read'
    <3>1. CASE /\ Assembled /\ setup.endpoint = "chat"
               /\ UNCHANGED <<setup, request, up, requested, said>>
      BY <1>2, <2>2, <3>1 DEF WithinThreshold, Plan, After
    <3>2. ASSUME NEW d \in Decisions, NEW answer, ChatSends(d, answer), UNCHANGED <<setup, request>>
          PROVE  WithinThreshold'
      <4> DEFINE after == Compacted(Checked(d), answer).messages
      <4>1. After' = after /\ Checked(d) \in Bodies
        BY <1>2, <3>2, ChatBodies
      <4>2. Plan' = Plan
        BY <3>2 DEF Plan
      <4>3. Compacts /\ request.valid /\ Plan.strategy = "truncate"
        BY <2>2, <3>2, <4>2 DEF Compacts
      <4>4. \/ BodyTokens(after) <= Plan.threshold
            \/ Len(OtherMessages(after, Plan.system)) <= Plan.min
        BY <1>2, <4>1, <4>3, CompactedFacts
      <4> HIDE DEF after
      <4> QED BY <4>1, <4>2, <4>4 DEF WithinThreshold
    <3> QED BY <1>2, <2>2, <3>1, <3>2, ChatSent
  <2> QED BY <2>1, <2>2
<1> QED BY <1>1, <1>2, ConfiguredAlways, FramedAlways, PTL DEF Spec

LEMMA OneLastUser ==
  ASSUME NEW messages, NEW n, LastUser(messages) = {n}
  PROVE  n \in DOMAIN messages /\ messages[n].role = "user"
BY DEF LastUser

LEMMA LastIsLastUser ==
  ASSUME NEW messages \in Seq(Messages), messages # <<>>,
         messages[Len(messages)].role = "user"
  PROVE  LastUser(messages) = {Len(messages)}
<1> DEFINE n == Len(messages)
<1>1. n \in Nat /\ n >= 1 /\ DOMAIN messages = 1 .. n
  OBVIOUS
<1> HIDE DEF n
<1>2. messages[n].role = "user" /\ n \in 1 .. n
  BY <1>1 DEF n
<1>3. n \in LastUser(messages)
  BY <1>1, <1>2 DEF LastUser
<1>4. ASSUME NEW i \in LastUser(messages) PROVE i = n
  <2>1. i \in 1 .. n /\ n <= i
    BY <1>1, <1>2 DEF LastUser
  <2> QED BY <1>1, <2>1
<1> QED BY <1>3, <1>4 DEF n

\* The last user message of a chat body as it is sent is one of those the
\* guardrails left, where compaction keeps the client's last.
LEMMA LastUserSent ==
  ASSUME Configured, NEW d \in Decisions, NEW answer, ChatSends(d, answer), request.valid,
         LastIsUsers
  PROVE  LET v     == PreCall(Text(ClientBody), Asked, d)
             after == Compacted(Checked(d), answer).messages
         IN \A n \in LastUser(after) : after[n].text \subseteq Left(v, Text(ClientBody))
<1> DEFINE v        == PreCall(Text(ClientBody), Asked, d)
           text     == Text(ClientBody)
           messages == Checked(d).messages
           after    == Compacted(Checked(d), answer).messages
           n        == Len(request.messages)
<1>1. /\ Checked(d) \in Bodies /\ Len(messages) = n
      /\ \A i \in DOMAIN request.messages : messages[i].role = request.messages[i].role
      /\ \A i \in LastUser(request.messages) : messages[i].text \subseteq Left(v, text)
  BY CheckedFacts DEF ChatSends
<1>2. messages \in Seq(Messages)
  BY <1>1 DEF Bodies
<1>3. request.messages \in Seq(ClientMessages)
  BY DEF Configured, ClientRequests
<1>4. n \in Nat /\ DOMAIN request.messages = 1 .. n /\ DOMAIN messages = 1 .. n
  BY <1>1, <1>2, <1>3
<1>5. /\ ~Compacts => after = messages
      /\ Compacts => LeavesNewest(after, messages, Plan)
  BY <1>1, CompactedFacts
<1> HIDE DEF v, text, messages, after
<1>6. CASE ~Compacts
  <2>1. LastUser(messages) = LastUser(request.messages)
    BY <1>1, <1>4 DEF LastUser
  <2> QED BY <1>1, <1>5, <1>6, <2>1 DEF v, text, after
<1>7. CASE Compacts
  <2>1. LastUser(request.messages) = {n} /\ Promised(request.messages) >= 1
    BY <1>7 DEF LastIsUsers
  <2>2. n \in 1 .. n /\ messages[n].role = "user" /\ messages[n].text \subseteq Left(v, text)
    BY <1>1, <1>4, <2>1, OneLastUser
  <2> DEFINE p == Plan
  <2>3. p \in Plans
    BY <1>7, PlanTyped
  <2>4. PromisedBy(p, messages) >= 1
    BY <1>1, <2>1 DEF PromisedBy, Promised
  <2>5. LeavesNewest(after, messages, p)
    BY <1>5, <1>7
  <2> HIDE DEF p, n
  <2>6. messages # <<>> /\ ~Preserved(messages[Len(messages)], p.system)
    BY <1>1, <1>2, <1>4, <2>2 DEF Preserved
  <2>7. after \in Seq(Messages) /\ after # <<>> /\ after[Len(after)] = messages[n]
    BY <1>1, <1>2, <2>3, <2>4, <2>5, <2>6, LastStays
  <2>8. LastUser(after) = {Len(after)}
    BY <2>2, <2>7, LastIsLastUser
  <2>9. \A i \in LastUser(after) : after[i].text \subseteq Left(v, text)
    BY <2>2, <2>7, <2>8
  <2> QED BY <2>9 DEF v, text, after
<1> QED BY <1>6, <1>7

\* Redaction reaches the message a model answers to: the last user message of a
\* body that the gateway has read holds nothing that an active redacting entry
\* looks for, wherever in the conversation it was found, unless a webhook behind
\* that entry has rewritten the text (gateway.rs:1140-1201).
THEOREM LastMessageCleanAlways == Spec => []LastMessageClean
<1>1. Init => LastMessageClean
  BY DEF Init, LastMessageClean, Assembled
<1>2. ASSUME Configured, Framed, LastMessageClean, [Next]_vars
      PROVE  LastMessageClean'
  <2>1. CASE ~(Assembled /\ request.valid /\ setup.endpoint = "chat" /\ LastIsUsers)'
    BY <2>1 DEF LastMessageClean
  <2>2. CASE (Assembled /\ request.valid /\ setup.endpoint = "chat" /\ LastIsUsers)'
    <3>1. CASE /\ Assembled /\ setup.endpoint = "chat"
               /\ UNCHANGED <<setup, request, up, requested, said>>
      <4>1. UNCHANGED <<Redacting("pre_call"), Rewriters("pre_call")>>
        BY <3>1, SameWords
      <4>2. LastIsUsers /\ request.valid
        BY <2>2, <3>1 DEF LastIsUsers, Compacts, Plan, Promised
      <4> QED BY <1>2, <3>1, <4>1, <4>2 DEF LastMessageClean
    <3>2. ASSUME NEW d \in Decisions, NEW answer \in {"summary", "failure"}, ChatSends(d, answer),
                 UNCHANGED <<setup, request>>
          PROVE  LastMessageClean'
      <4> DEFINE v     == PreCall(Text(ClientBody), Asked, d)
                 text  == Text(ClientBody)
                 after == Compacted(Checked(d), answer).messages
      <4>1. /\ text \in SUBSET Kinds /\ v.kind # "Block" /\ requested' = Asked /\ request.valid
            /\ said'[1] = d
        BY <1>2, <2>2, <3>2, TextFacts DEF ChatSends
      <4>2. LastIsUsers
        BY <2>2, <3>2 DEF LastIsUsers, Compacts, Plan, Promised
      <4>3. Vouches(v, text, Asked, "pre_call", d)
        BY <1>2, <4>1, PreCallFacts
      <4>4. \A n \in LastUser(after) : after[n].text \subseteq Left(v, text)
        BY <1>2, <3>2, <4>1, <4>2, LastUserSent
      <4>5. After' = after
        BY <1>2, <3>2, ChatBodies
      <4>6. up'[1].body.messages = after
        BY <4>5 DEF After
      <4>7. /\ Redacting("pre_call")' = {i \in DOMAIN setup.engine :
                                          On(i, Asked, "pre_call") /\ Redacts(setup.engine[i], "pre_call")}
            /\ Rewriters("pre_call")' = Rewriting(Asked, "pre_call", d)
        BY <3>2, <4>1, Words
      <4> HIDE DEF v, text, after
      <4>8. ASSUME NEW i \in Redacting("pre_call")'
            PROVE  \/ \E j \in Rewriters("pre_call")' : i < j
                   \/ \A n \in LastUser(after) : after[n].text \cap setup.engine[i].finds = {}
        <5>1. /\ i \in DOMAIN setup.engine /\ On(i, Asked, "pre_call")
              /\ Watches(setup.engine[i], "pre_call") /\ Redacts(setup.engine[i], "pre_call")
          BY <4>7, <4>8 DEF Redacts
        <5>2. Clears(i, Left(v, text), Asked, "pre_call", d)
          BY <4>3, <5>1 DEF Vouches
        <5> QED BY <4>4, <4>7, <5>2 DEF Clears
      <4>9. setup' = setup /\ LastUser(up[1].body.messages)' = LastUser(after)
        BY <3>2, <4>6 DEF LastUser
      <4> QED BY <4>6, <4>8, <4>9 DEF LastMessageClean
    <3> QED BY <1>2, <2>2, <3>1, <3>2, ChatSent
  <2> QED BY <2>1, <2>2
<1> QED BY <1>1, <1>2, ConfiguredAlways, FramedAlways, PTL DEF Spec
=============================================================================
