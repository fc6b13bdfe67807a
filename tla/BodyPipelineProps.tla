------------------------- MODULE BodyPipelineProps -------------------------
(* What is checked of the bodies of a request and of its response. *)
EXTENDS BodyPipeline

\* Pieces m to n - 1 of a body, one after the other.
Span(items, m, n) ==
  Len(items) = n - m /\ \A i \in DOMAIN items : items[i] = Part(m + i - 1)

One(items) == Len(items) = 1 /\ items[1].what # "part"

\* The upstream was sent a body that the gateway has read.
Assembled == phase = "sent" /\ One(up) /\ up[1].what = "body"

TypeOK ==
  /\ \A i \in DOMAIN setup.engine : /\ setup.engine[i].mode \in {"pre_call", "post_call", "both"}
                                   /\ setup.engine[i].action \in {"block", "redact", "log_only"}
  /\ phase \in {"start", "request", "sent", "response", "done", "blocked", "gone"}
  /\ parts \in 1 .. MaxParts /\ next \in 1 .. MaxParts + 1
  /\ keep \in BOOLEAN /\ translated \in BOOLEAN /\ streaming \in BOOLEAN
  /\ sized \in BOOLEAN /\ again \in BOOLEAN /\ known \in BOOLEAN
  /\ requested \in {{}, request.asks}

\* All of the client's body behind what a first attempt had gathered of it.
Repeated(chunks) == \E k \in 1 .. parts : chunks = Pieces(k) \o Pieces(parts)

\* In whatever pieces the client's body comes, and whether its end comes with
\* a piece or alone: nothing of a body that is held back goes on before it is
\* complete, and the upstream is sent the pieces in order or one body in their
\* place, on the first attempt all of it.  Only after a retry may that body be
\* one that nobody has read, the beginning of the client's body and all of it
\* once more (gateway.rs:1001-1003 appends and nothing empties the buffer).
BodyWhole ==
  phase \notin {"response", "done"} =>
    /\ One(up) \/ (Len(up) <= parts /\ Span(up, 1, Len(up) + 1))
    /\ One(up) /\ up[1].what = "raw" => again /\ Repeated(up[1].chunks)
    /\ phase = "request" /\ ~Flows => up = <<>>
    /\ phase = "sent" /\ ~again => One(up) \/ Len(up) = parts

\* The entries that are to run on the client's text, said without the loop.
Active(mode) ==
  {i \in DOMAIN setup.engine :
     LET e == setup.engine[i] IN
     /\ e.mode \in {mode, "both"}
     /\ setup.scope = {} \/ e.name \in setup.scope
     /\ e.default_on \/ e.name \in requested}

External == {"webhook", "lakera"}

\* Those of them that look at a text themselves (prompt_guard and secret_scan
\* do not look at what a model says).
Lookers(mode) ==
  {i \in Active(mode) :
     /\ setup.engine[i].provider \notin External
     /\ mode = "post_call" => setup.engine[i].provider \notin {"prompt_guard", "secret_scan"}}

Blocking(mode)  == {i \in Lookers(mode) : setup.engine[i].action = "block"}
Redacting(mode) == {i \in Lookers(mode) : /\ setup.engine[i].provider \in Scanners
                                          /\ setup.engine[i].action = "redact"}

\* The webhooks that have put a text of their own in the place of what they
\* were shown.
Rewriters(mode) ==
  {i \in Active(mode) : setup.engine[i].provider = "webhook" /\ said[1].answer = "modify"}

\* What entry i is not shown of a text, for an earlier entry has redacted it.
Hidden(i, mode) == UNION {setup.engine[j].finds : j \in {j \in Redacting(mode) : j < i}}

\* A text has passed entry i, which blocks: what it looks for is not in there,
\* but for what was hidden from it; of a text that a webhook has rewritten
\* before i looked, nothing is said.
Passed(i, mode, text) ==
  \/ \E j \in Rewriters(mode) : j < i
  \/ setup.engine[i].finds \cap (text \ Hidden(i, mode)) = {}

\* What the client sends where the guardrails look: contents made of blocks are
\* out of their sight in a body in Cohere's format.
Shown ==
  UNION {m.text : m \in {m \in Range(request.messages) :
    ~(m.blocks /\ setup.endpoint = "native" /\ setup.translator = "cohere")}}

\* A chat or native body that the gateway has read and sent on was made of a
\* client's text that every active blocking entry lets pass.  (What an earlier
\* entry redacts is hidden from the later ones, though it goes upstream all
\* the same in a native body, gateway.rs:1065-1092, and in all but the last
\* user message of a chat; a body that a retry has doubled is not read.)
BlockHolds ==
  Assembled /\ request.valid /\ setup.endpoint \in {"chat", "native"} =>
    \A i \in Blocking("pre_call") : Passed(i, "pre_call", Shown)

\* A request is refused for what an active entry found in it or for what a
\* service decided: a service that fails refuses nothing (webhook.rs:137,167).
\* What an entry finds may also be in the text that a webhook answered with.
RefusedForCause ==
  phase = "blocked" =>
    \E i \in Active("pre_call") :
      /\ setup.engine[i].action = "block"
      /\ \/ setup.engine[i].provider \in External /\ said[1].answer = "block"
         \/ /\ setup.engine[i].provider \notin External
            /\ LET seen == Text(request) \cup
                           (IF \E j \in Rewriters("pre_call") : j < i THEN said[1].text ELSE {})
               IN setup.engine[i].finds \cap seen # {}

Smaller(m, n) == IF m < n THEN m ELSE n

\* The newest messages a strategy promises to keep (auto_compaction.rs:56-75).
Promised(others) ==
  IF Plan.strategy = "sliding_window" THEN Smaller(Plan.window, Len(others))
  ELSE Smaller(Plan.min, Len(others))

\* Compaction, if there is any, leaves the client's last message where it is,
\* and it is the user's.  Where it does not, it may drop the message that was
\* redacted and keep an older one that was not.
LastIsUsers ==
  Compacts => /\ LastUser(request.messages) = {Len(request.messages)}
              /\ Promised(request.messages) >= 1

\* The last user message of a chat body that the gateway has read holds nothing
\* that an active redacting entry looks for, in whatever message it was found,
\* unless a webhook behind that entry has rewritten the text.
LastMessageClean ==
  Assembled /\ request.valid /\ setup.endpoint = "chat" /\ LastIsUsers =>
    \A i \in Redacting("pre_call") :
      \/ \E j \in Rewriters("pre_call") : i < j
      \/ \A n \in LastUser(up[1].body.messages) :
           up[1].body.messages[n].text \cap setup.engine[i].finds = {}

\* A reply that is not streamed, that parses and whose provider is known
\* reaches a chat client without anything that an active entry which looks at
\* output blocks or redacts, unless a webhook behind it has rewritten the
\* reply.  To a native client it is never changed: it has passed the entries
\* that block, each without what earlier ones redact.
OutputHeld ==
  phase = "done" /\ ~streaming /\ known /\ down[1].what = "answer" /\ down[1].parsed =>
    /\ setup.endpoint = "chat" =>
         \A i \in Blocking("post_call") \cup Redacting("post_call") :
           \/ \E j \in Rewriters("post_call") : i < j
           \/ setup.engine[i].finds \cap down[1].text = {}
    /\ setup.endpoint = "native" =>
         \A i \in Blocking("post_call") : Passed(i, "post_call", down[1].text)

\* The client is given the pieces of the response in order, none twice and none
\* left out in between, or one body in their place.  When the provider is
\* reloaded away meanwhile, the pieces that were held back are lost, and what
\* follows them is given; while it is there, all of the response is.
ReplyWhole ==
  /\ One(down) \/ \E first \in 1 .. next : Span(down, first, next)
  /\ phase = "done" => \/ One(down)
                      \/ \E first \in 1 .. parts + 1 : /\ Span(down, first, parts + 1)
                                                      /\ known => first = 1

\* A chat body before compaction and after.
Before == Applied(ClientBody, PreCall(Text(ClientBody), Asked, said[1])).messages
After  == up[1].body.messages

Suffix(s, n) == SubSeq(s, Len(s) - n + 1, Len(s))

\* s is others with messages left out, and possibly a summary in front.
LeftOut(s, others) ==
  \E summary \in {<<>>, <<Summary>>}, n \in 0 .. Len(others) :
    \E at \in [1 .. n -> DOMAIN others] :
      /\ \A i, j \in 1 .. n : i < j => at[i] < at[j]
      /\ s = summary \o [i \in 1 .. n |-> others[at[i]]]

\* Whatever is dropped of a body that the gateway has read, the system messages
\* that are to be preserved are all there, in front and in their order, and
\* behind them the newest messages, as many as the strategy promises, with
\* nothing repeated, turned around or made up in between.
NewestKept ==
  Assembled /\ request.valid /\ setup.endpoint = "chat" /\ Compacts =>
    \/ After = Before
    \/ LET system == SystemMessages(Before, Plan.system)
           others == OtherMessages(Before, Plan.system)
           kept   == SubSeq(After, Len(system) + 1, Len(After))
       IN /\ SubSeq(After, 1, Len(system)) = system
          /\ LeftOut(kept, others)
          /\ Len(kept) >= Promised(others)
          /\ Suffix(kept, Promised(others)) = Suffix(others, Promised(others))

\* A truncated body that the gateway has read is within the threshold by the
\* plugin's own estimate, or holds no more than the messages it has to keep.
WithinThreshold ==
  Assembled /\ request.valid /\ setup.endpoint = "chat" /\ Plan.strategy = "truncate" =>
    \/ BodyTokens(After) <= Plan.threshold
    \/ Len(OtherMessages(After, Plan.system)) <= Plan.min

\* Stated by gateway.rs:1312-1316: the upstream is told the length of the
\* client's body and reads exactly that much.
FramingKept ==
  Assembled /\ framed # None => Size(up[1].body) = framed
=============================================================================
