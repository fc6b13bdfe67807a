---------------------------- MODULE BodyPipeline ----------------------------
(* What the gateway does to the bodies of one request and of its response:  *)
(* upstream_request_filter's framing, request_body_filter,                  *)
(* response_filter's framing and upstream_response_body_filter              *)
(* (maxllm-gateway/src/gateway.rs:828-1361, 1383-1407, 1449-1789), called by *)
(* Pingora chunk by chunk, with the guardrails of Guardrails.  A chunk is   *)
(* its number; a body is its messages.  Pingora may run the hooks again on  *)
(* another connection, and a reload may drop the provider at any moment.    *)
EXTENDS Guardrails, Compaction

CONSTANTS
  Cases,     \* setups, [endpoint, translator, engine, scope, compactor], with
             \* the requests of them, [messages, field, asks, stream, valid, skip]
  Replies,   \* texts a model may answer with
  MaxParts,  \* bound: chunks of a body
  None

\* A route, the plugins and guardrails configured for it and its provider, and
\* what a client asks of it.
RouteSetups ==
  [endpoint : {"passthrough", "embeddings", "native", "chat"}, translator : STRING,
   engine : Seq(GuardrailConfigs), scope : SUBSET STRING,
   compactor : {None} \cup CompactorConfigs]

ClientMessages == [role : STRING, text : SUBSET Kinds, blocks : BOOLEAN]

ClientRequests ==
  [messages : Seq(ClientMessages), field : BOOLEAN, asks : SUBSET STRING,
   stream : BOOLEAN, valid : BOOLEAN, skip : BOOLEAN]

ASSUME PipelineAssumption ==
  /\ MaxParts \in Nat \ {0}
  /\ Cases \subseteq RouteSetups \X ClientRequests
  /\ None \notin CompactorConfigs
  /\ Replies \subseteq SUBSET Kinds

VARIABLES
  setup, request,
  phase,     \* "start", "request", "sent", "response", "done", "blocked", "gone"
  parts,     \* chunks of the body in flight
  next,      \* the next of them
  keep,      \* ctx.keep_request_content_length
  framed,    \* the size the upstream was told, None when chunked
  buf,       \* ctx.request_body_buf, then ctx.response_body_buf: chunks in it
  translated,\* ctx.body_translated
  requested, \* ctx.requested_guardrails
  streaming, \* ctx.is_streaming
  up,        \* what the upstream has received on this attempt
  status,    \* the upstream's status, below 400 or not
  sized,     \* the response keeps the upstream's Content-Length
  down,      \* what the client has received
  said,      \* history: what the external services answered, None before
  again,     \* Pingora has retried
  known      \* the provider is in the configuration

vars == <<setup, request, phase, parts, next, keep, framed, buf, translated,
          requested, streaming, up, status, sized, down, said, again, known>>

\* What is sent: chunks as they came, one body that the gateway has read and
\* maybe changed, or the bytes it gathered and could not read.
Part(n)     == [what |-> "part", n |-> n]
Whole(body) == [what |-> "body", body |-> body]
Raw(chunks) == [what |-> "raw", chunks |-> chunks]

Pieces(n) == [i \in 1 .. n |-> i]

ClientBody == [messages |-> request.messages, field |-> request.field, pad |-> 0]

Text(body) == UNION {body.messages[i].text : i \in DOMAIN body.messages}

\* The text the guardrails are shown: of a chat body all of it; of a native
\* body what the extractor of the provider's format reads, and Cohere's reads
\* only contents that are strings, not those made of blocks.
extract_message_content(body) == Text(body)

extract_native_content(kind, body) ==
  UNION {m.text : m \in {m \in Range(body.messages) : kind = "cohere" => ~m.blocks}}

\* A body's length, in messages, kinds of content and padding.
Size(body) ==
  FoldLeft(LAMBDA n, m : n + 1 + Cardinality(m.text),
           body.pad + (IF body.field THEN 1 ELSE 0), body.messages)

\* A plugin or a guardrail that from_config refuses keeps the gateway from
\* starting.
Loads(configured) ==
  /\ configured.compactor # None => FromConfig(configured.compactor).strategy # "error"
  /\ EngineLoads(configured.engine)

Init ==
  /\ \E case \in Cases :
       /\ Loads(case[1])
       /\ setup = [case[1] EXCEPT !.engine = BuildEngine(@)]
       /\ request = case[2]
  /\ phase = "start" /\ parts \in 1 .. MaxParts /\ next = 1
  /\ keep = FALSE /\ framed = None /\ buf = <<>> /\ translated = FALSE
  /\ requested = {} /\ streaming = FALSE
  /\ up = <<>> /\ status = None /\ sized = FALSE /\ said = None /\ down = <<>>
  /\ again = FALSE /\ known = TRUE

-----------------------------------------------------------------------------
\* OpenAI keeps the client's Content-Length; the others are sent chunked.
UpstreamRequest ==
  /\ phase = "start" /\ known
  /\ LET passthrough == setup.endpoint = "passthrough"
         openai      == setup.translator = "openai"
     IN /\ keep' = (keep \/ (~passthrough /\ openai))
        /\ framed' = IF passthrough \/ openai THEN Size(ClientBody) ELSE None
  /\ phase' = "request"
  /\ UNCHANGED <<setup, request, parts, next, buf, translated, requested,
                 streaming, up, status, sized, down, said, again, known>>

\* One call of a body filter: a chunk or nothing, and whether it is the last.
\* The end may come with the last chunk or in a call of its own.
Call(data, end) ==
  /\ data <=> next <= parts
  /\ ~data => end
  /\ end => next >= parts
  /\ next' = IF data THEN next + 1 ELSE next

\* What the plugin left in the request's context.
Plan == IF setup.compactor = None THEN [strategy |-> "off"]
        ELSE OnRequest(FromConfig(setup.compactor), request.skip)

Compacts == Plan.strategy # "off"

Flows == setup.endpoint = "passthrough" \/ (keep /\ ~Compacts)

\* The request's buffer with this call's chunk.  Nothing empties it before it
\* is read, so that after a retry it may begin with chunks of the first
\* attempt: the client's body it is only when it holds every chunk once, and
\* otherwise it does not parse.
Gathered(data) == IF data THEN Append(buf, next) ELSE buf
Intact(data)   == Gathered(data) = Pieces(parts)

\* A chunk of a passthrough body is not looked at.
PassThrough(data, end) ==
  /\ phase = "request" /\ setup.endpoint = "passthrough" /\ Call(data, end)
  /\ up' = IF data THEN Append(up, Part(next)) ELSE up
  /\ phase' = IF end THEN "sent" ELSE phase
  /\ UNCHANGED <<setup, request, parts, keep, framed, buf, translated, requested,
                 streaming, status, sized, down, said, again, known>>

\* The chunk goes on as it is and a copy of it is kept; at the first end the
\* copy is read for the metadata.
FlowThrough(data, end) ==
  /\ phase = "request" /\ Flows /\ setup.endpoint # "passthrough" /\ Call(data, end)
  /\ up' = IF data THEN Append(up, Part(next)) ELSE up
  /\ phase' = IF end THEN "sent" ELSE phase
  /\ translated' = (translated \/ end)
  /\ IF end /\ ~translated
     THEN /\ buf' = <<>>
          /\ streaming' = (Intact(data) /\ request.valid /\ request.stream)
     ELSE buf' = Gathered(data) /\ UNCHANGED streaming
  /\ UNCHANGED <<setup, request, parts, keep, framed, requested, status, sized,
                 down, said, again, known>>

\* Mutant: the chunk is copied into the buffer and goes on as well.
WithholdCopy(data, end) ==
  /\ phase = "request" /\ ~Flows /\ Call(data, end)
  /\ end => translated
  /\ buf' = Gathered(data)
  /\ up' = IF data THEN Append(up, Part(next)) ELSE up
  /\ phase' = IF end THEN "sent" ELSE phase
  /\ UNCHANGED <<setup, request, parts, keep, framed, translated, requested,
                 streaming, status, sized, down, said, again, known>>

\* The chunk is taken into the buffer and nothing goes on: before the end, and
\* at the end too when the body has been translated on an earlier attempt.
Withhold(data, end) ==
  /\ phase = "request" /\ ~Flows /\ Call(data, end)
  /\ end => translated
  /\ buf' = Gathered(data)
  /\ phase' = IF end THEN "sent" ELSE phase
  /\ UNCHANGED <<setup, request, parts, keep, framed, translated, requested,
                 streaming, up, status, sized, down, said, again, known>>

\* The end of a body that has been buffered, seen for the first time.  (What
\* a chat's translation leaves in the buffer is not read again.)
Complete(data, endpoint) ==
  /\ phase = "request" /\ ~Flows /\ ~translated /\ Call(data, TRUE)
  /\ setup.endpoint = endpoint
  /\ translated' = TRUE
  /\ buf' = <<>>
  /\ keep' = FALSE
  /\ UNCHANGED <<setup, request, parts, framed, status, sized, again, known>>

Embeddings(data) ==
  /\ Complete(data, "embeddings") /\ Intact(data)
  /\ up' = <<Whole(ClientBody)>>
  /\ phase' = "sent"
  /\ UNCHANGED <<requested, streaming, down, said>>

\* The provider was reloaded away since it was chosen: 502.
ProviderGone(data) ==
  /\ \E endpoint \in {"native", "chat"} : Complete(data, endpoint)
  /\ ~known
  /\ phase' = "gone"
  /\ down' = <<[what |-> "error"]>>
  /\ UNCHANGED <<requested, streaming, up, said>>

\* What has been gathered over two attempts does not parse: no metadata, no
\* guardrail, no compaction and no translation, and the bytes are sent as they
\* are.
Unread(data) ==
  /\ ~Intact(data)
  /\ \/ Complete(data, "embeddings")
     \/ Complete(data, "native") /\ known
     \/ Complete(data, "chat") /\ known
  /\ up' = <<Raw(Gathered(data))>>
  /\ phase' = "sent"
  /\ UNCHANGED <<requested, streaming, down, said>>

\* Mutant: the guardrails are asked only for requests that name them.
PreCallAsked(content, asked, decision) ==
  IF ~request.valid \/ asked = {} \/ content = {}
  THEN [kind |-> "None"]
  ELSE RunPreCall(setup.engine, asked, setup.scope, content, decision)

\* The engine's verdict on a body's text, none when there is nothing to look at.
PreCall(content, asked, decision) ==
  IF ~request.valid \/ ~HasMode(setup.engine, "pre_call") \/ content = {}
  THEN [kind |-> "None"]
  ELSE RunPreCall(setup.engine, asked, setup.scope, content, decision)

\* A native body is checked and then forwarded untouched: only Block counts.
\* The client's list of guardrails is not read from it.
Native(data, decision) ==
  /\ Complete(data, "native") /\ Intact(data) /\ known
  /\ streaming' = (request.valid /\ request.stream /\ setup.translator # "gemini")
  /\ IF PreCall(extract_native_content(setup.translator, ClientBody), requested,
                decision).kind = "Block"
     THEN phase' = "blocked" /\ down' = <<[what |-> "error"]>> /\ UNCHANGED up
     ELSE phase' = "sent" /\ up' = <<Whole(ClientBody)>> /\ UNCHANGED down
  /\ said' = <<decision, None>>
  /\ UNCHANGED requested

\* Modify replaces the content of the last user message by the whole text.
LastUser(messages) ==
  {i \in DOMAIN messages : /\ messages[i].role = "user"
                           /\ \A j \in DOMAIN messages :
                                messages[j].role = "user" => j <= i}

\* Mutant: the redacted text replaces nothing.
NotReplaced(body, text) == [body EXCEPT !.field = FALSE]

Replaced(body, text) ==
  [body EXCEPT !.field = FALSE,
     !.messages = [i \in DOMAIN body.messages |->
       IF i \in LastUser(body.messages)
       THEN [body.messages[i] EXCEPT !.text = text, !.blocks = FALSE]
       ELSE body.messages[i]]]

Applied(body, verdict) ==
  CASE verdict.kind = "Modify" -> Replaced(body, verdict.text)
    [] verdict.kind = "Pass"   -> [body EXCEPT !.field = FALSE]
    [] verdict.kind = "None"   ->
         IF setup.engine = <<>> /\ request.valid THEN [body EXCEPT !.field = FALSE] ELSE body

\* Only a body that compaction has changed is padded to the length the
\* upstream was told.
Padded(body) ==
  IF keep /\ framed > Size(body)
  THEN [body EXCEPT !.pad = framed - Size(body)] ELSE body

Compacted(body, answer) ==
  LET run == CompactMessages(body.messages, Plan, answer)
  IN IF ~Compacts \/ ~request.valid \/ run.result = "NoOp" THEN body
     ELSE Padded([body EXCEPT !.messages = run.messages])

\* Mutant: naming any guardrail asks for all of them.
AskedAll == {setup.engine[i].name : i \in DOMAIN setup.engine}

\* The guardrails the client names in its body.
Asked == IF request.valid THEN request.asks ELSE {}

\* A chat body: the guardrails, compaction, translation; a body that does not
\* translate goes on as it is.
Chat(data, decision, summary) ==
  LET verdict == PreCall(extract_message_content(ClientBody), Asked, decision)
  IN /\ Complete(data, "chat") /\ Intact(data) /\ known
     /\ requested' = Asked /\ said' = <<decision, summary>>
     /\ IF verdict.kind = "Block"
        THEN /\ phase' = "blocked" /\ down' = <<[what |-> "error"]>>
             /\ UNCHANGED <<up, streaming>>
        ELSE /\ up' = <<Whole(Compacted(Applied(ClientBody, verdict), summary))>>
             /\ streaming' = (request.valid /\ request.stream)
             /\ phase' = "sent" /\ UNCHANGED down

-----------------------------------------------------------------------------
\* Whether the Content-Length of the response stays.
ResponseHeaders(st, n) ==
  /\ phase = "sent"
  /\ status' = st
  /\ LET gemini == streaming /\ known /\ setup.translator = "gemini"
         asIs   == setup.endpoint # "chat" \/ (known /\ setup.translator = "openai")
     IN sized' = (asIs /\ st = "ok" /\ ~gemini)
  /\ phase' = "response" /\ parts' = n /\ next' = 1 /\ buf' = <<>>
  /\ UNCHANGED <<setup, request, keep, framed, translated, requested, streaming,
                 up, down, said, again, known>>

Gemini == streaming /\ known /\ setup.translator = "gemini"

\* The chunks that go to the client as they come (through the stream
\* translator where there is one), those that are held back, and neither.
Passes ==
  \/ setup.endpoint \in {"passthrough", "embeddings"}
  \/ setup.endpoint = "native" /\ streaming
  \/ setup.endpoint = "chat" /\ streaming /\ ~Gemini

PassResponse(data, end) ==
  /\ phase = "response" /\ Passes /\ Call(data, end)
  /\ down' = IF data THEN Append(down, Part(next)) ELSE down
  /\ phase' = IF end THEN "done" ELSE phase
  /\ UNCHANGED <<setup, request, parts, keep, framed, buf, translated, requested,
                 streaming, up, status, sized, said, again, known>>

\* Mutant: the chunk that is held back goes to the client as well.
PassAndHold(data) ==
  /\ phase = "response" /\ ~Passes /\ data /\ Call(data, FALSE)
  /\ buf' = Append(buf, next)
  /\ down' = Append(down, Part(next))
  /\ UNCHANGED <<setup, request, phase, parts, keep, framed, translated, requested,
                 streaming, up, status, sized, said, again, known>>

HoldResponse(data) ==
  /\ phase = "response" /\ ~Passes /\ data /\ Call(data, FALSE)
  /\ buf' = Append(buf, next)
  /\ UNCHANGED <<setup, request, phase, parts, keep, framed, translated, requested,
                 streaming, up, status, sized, down, said, again, known>>

\* What the client is given for a whole reply: after the post-call guardrails
\* when the reply is looked at, the reply itself otherwise.
PostCall(text, decision) ==
  IF HasMode(setup.engine, "post_call") /\ text # {}
  THEN RunPostCall(setup.engine, requested, setup.scope, text, decision)
  ELSE [kind |-> "Pass"]

Answered(text, parsed) == [what |-> "answer", text |-> text, parsed |-> parsed]
Refused        == [what |-> "refusal"]
Reported       == [what |-> "error"]

\* An error reply is put in OpenAI's format, unless it is in it already.
normalize_error_response(parses, foreign) == IF parses /\ foreign THEN Reported ELSE None

\* Native replies can be blocked but not modified; a chat reply is replaced.
\* Replies that do not parse, error replies put in OpenAI's format, a provider
\* that is gone and Gemini's streams are not looked at.
Delivered(text, parses, foreign, decision) ==
  LET verdict    == PostCall(text, decision)
      normalized == normalize_error_response(parses, foreign)
  IN
  CASE /\ setup.endpoint = "chat" /\ ~streaming /\ status = "error" /\ known
       /\ normalized # None -> normalized
    [] setup.endpoint = "chat" /\ (streaming \/ ~known \/ ~parses) ->
         Answered(text, parses)
    [] setup.endpoint = "native" /\ ~parses -> Answered(text, FALSE)
    [] OTHER -> CASE verdict.kind = "Block"  -> Refused
                  [] verdict.kind = "Pass"   -> Answered(text, TRUE)
                  [] verdict.kind = "Modify" ->
                       Answered(IF setup.endpoint = "native" THEN text ELSE verdict.text, TRUE)

Reply(data, text, parses, foreign, decision) ==
  /\ phase = "response" /\ ~Passes /\ Call(data, TRUE)
  /\ data \/ buf # <<>>
  /\ down' = Append(down, Delivered(text, parses, foreign, decision))
  /\ phase' = "done"
  /\ buf' = <<>> /\ said' = <<decision, None>>
  /\ UNCHANGED <<setup, request, parts, keep, framed, translated, requested,
                 streaming, up, status, sized, again, known>>

\* A reused connection broke: Pingora starts over with what it has read of the
\* client's body, in the same context; the request's buffer is in it.
Retry ==
  /\ phase \in {"request", "sent"} /\ ~again
  /\ again' = TRUE
  /\ phase' = "start" /\ next' = 1 /\ up' = <<>>
  /\ UNCHANGED <<setup, request, parts, keep, framed, buf, translated, requested,
                 streaming, status, sized, down, said, known>>

\* The configuration is replaced by one without the provider.
Reload ==
  /\ known /\ phase \in {"request", "sent", "response"}
  /\ known' = FALSE
  /\ UNCHANGED <<setup, request, phase, parts, next, keep, framed, buf, translated,
                 requested, streaming, up, status, sized, down, said, again>>

\* The hooks find the provider gone before anything is sent.
NotSent ==
  /\ phase = "start" /\ ~known
  /\ phase' = "gone" /\ down' = <<Reported>>
  /\ UNCHANGED <<setup, request, parts, next, keep, framed, buf, translated,
                 requested, streaming, up, status, sized, said, again, known>>

\* The answers of the external services of the engine, if there are any.
Heard == IF \E i \in DOMAIN setup.engine : setup.engine[i].provider \in {"webhook", "lakera"}
         THEN Decisions ELSE {Allow}

Summaries == IF Compacts /\ Plan.strategy = "llm" THEN {"summary", "failure"} ELSE {"failure"}

RequestBody ==
  \E data \in BOOLEAN :
    \/ \E end \in BOOLEAN :
         PassThrough(data, end) \/ FlowThrough(data, end) \/ Withhold(data, end)
    \/ Embeddings(data) \/ Unread(data) \/ ProviderGone(data)
    \/ \E d \in Heard : Native(data, d) \/ (\E answer \in Summaries : Chat(data, d, answer))

ResponseBody ==
  \E data \in BOOLEAN :
    \/ \E end \in BOOLEAN : PassResponse(data, end)
    \/ HoldResponse(data)
    \/ \E t \in Replies, parses \in BOOLEAN, foreign \in BOOLEAN, d \in Heard :
         Reply(data, t, parses, foreign, d)

Next ==
  \/ UpstreamRequest \/ RequestBody \/ NotSent
  \/ \E st \in {"ok", "error"}, n \in 1 .. MaxParts : ResponseHeaders(st, n)
  \/ ResponseBody \/ Retry \/ Reload

Spec == Init /\ [][Next]_vars
=============================================================================
