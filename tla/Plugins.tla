------------------------------- MODULE Plugins -------------------------------
(* The plugins of maxllm-plugin (chain.rs, factory.rs, builtin/) over the     *)
(* life of a request: on_request of the global chain and then of the route's  *)
(* in gateway.rs:637-695, on_response and on_response_body of both            *)
(* (gateway.rs:1436-1446, 1776-1786) for whatever configuration is loaded     *)
(* then, and what the plugins share between requests: the counters of         *)
(* rate_limit and the entries of cache.  A configuration has one instance for *)
(* each name in its table of plugins, however many chains list the name; a    *)
(* reload builds new ones (build_hot_state, gateway.rs:244-283).  A request   *)
(* keeps the chains request_filter loaded while it is in it.                  *)
EXTENDS PluginKinds, Integers, Sequences, SequencesExt

CONSTANTS
  Requests,
  Clients,    \* [ip, key, length, query, nocache]: what a request brings
  Configs,    \* sequences of configurations, [plugins, global, route] each
  Answers,    \* [status, chunks] of the upstream
  MaxBegun,   \* bound: requests
  MaxWindows  \* bound: ends of a rate window

\* A limit is an integer of TOML, negative ones too; a cache of fewer than no
\* entries is a panic when it is built.
ASSUME ConfigsAssumption ==
  \A configs \in Configs :
    /\ DOMAIN configs = 1 .. Len(configs)
    /\ \A g \in DOMAIN configs :
         /\ configs[g].global \in Seq(ToSet(configs[g].global))
         /\ configs[g].route \in Seq(ToSet(configs[g].route))
         /\ \A name \in DOMAIN configs[g].plugins :
              LET c == configs[g].plugins[name]
              IN /\ c.category = "rate_limit" => c.requests_per_minute \in Int \cup {None}
                 /\ c.category = "cache" => c.max_entries \in Nat \cup {None}

ASSUME TrafficAssumption ==
  /\ \A client \in Clients : client.nocache \in BOOLEAN
  /\ \A answer \in Answers : /\ answer.chunks \in Seq(ToSet(answer.chunks))
                             /\ None \notin ToSet(answer.chunks)
  /\ MaxBegun \in Nat /\ MaxWindows \in Nat

VARIABLES
  built,    \* generation -> [name -> plugin]
  chains,   \* generation -> the names of its chain
  gen,      \* the generation that is loaded
  begun,    \* history: requests that have begun
  windows,  \* history: rate windows that have ended
  rate,     \* [generation, name] -> [key -> requests counted in this window]
  passed,   \* history: those of them that were let through
  cache,    \* [generation, name] -> [order, entries]
  req       \* request -> its context and its progress

vars == <<built, chains, gen, begun, windows, rate, passed, cache, req>>

Generations == DOMAIN built
Instances   == {at \in Generations \X UNION {DOMAIN built[g] : g \in Generations} :
                  at[2] \in DOMAIN built[at[1]]}

Plugin(at) == built[at[1]][at[2]]

\* The plugins a request meets in generation g, in their order.
Met(g) == [i \in DOMAIN chains[g] |-> built[g][chains[g][i]]]

EmptyCache == [order |-> <<>>, entries |-> <<>>]  \* no key, no entry

\* Mutant: the key of the answer is known before the answer.
NewCtxKeyed(client) ==
  [client_ip |-> client.ip, client_id |-> None, header |-> client.key,
   enabled |-> FALSE, headers |-> FALSE, body |-> <<>>, cache_key |-> <<client.key>>]

\* What the context of a request holds before its first plugin.
NewCtx(client) ==
  [client_ip |-> client.ip, client_id |-> None, header |-> client.key,
   enabled |-> FALSE, headers |-> FALSE, body |-> <<>>, cache_key |-> None]

Chunks == UNION {ToSet(answer.chunks) : answer \in Answers}

Idle == [phase |-> "idle"]

\* The elements of a sequence that are in S, in their order.
retain(seq, S) ==
  FoldLeft(LAMBDA kept, e : IF e \in S THEN Append(kept, e) ELSE kept, <<>>, seq)

\* The global chain, then the route's; a name the table has not got is left out.
Chain(config) == retain(config.global \o config.route, DOMAIN config.plugins)

\* build_hot_state refuses a configuration with a plugin that is refused.
Builds(plugins) == \A name \in DOMAIN plugins : plugins[name] # Invalid

Init ==
  /\ \E config \in Configs :
       /\ built  = [g \in DOMAIN config |-> [name \in DOMAIN config[g].plugins |->
                                             create_plugin(config[g].plugins[name])]]
       /\ chains = [g \in DOMAIN config |-> Chain(config[g])]
  /\ gen \in {g \in Generations : Builds(built[g]) /\ \A h \in 1 .. g - 1 : ~Builds(built[h])}
  /\ begun = 0 /\ windows = 0
  /\ rate  = [at \in Instances |-> <<>>] /\ passed = rate
  /\ cache = [at \in Instances |-> EmptyCache]
  /\ req   = [r \in Requests |-> Idle]

-----------------------------------------------------------------------------
Count(bag, key) == IF key \in DOMAIN bag THEN bag[key] ELSE 0

OneMore(key, bag) ==
  [k \in DOMAIN bag \cup {key} |-> Count(bag, k) + (IF k = key THEN 1 ELSE 0)]

\* Mutant: a key is counted once.
ObservedOnce(key, bag) ==
  [k \in DOMAIN bag \cup {key} |-> IF k \in DOMAIN bag THEN bag[k] ELSE 1]

\* Rate::observe counts the request before it is judged, refused or not.
Observed(key, bag) == OneMore(key, bag)

\* The answer that is kept under the request's key, which no request has yet
\* when its plugins run.
Hit(p, at, ctx) == p.kind = "cache" /\ ctx.cache_key # None
                     /\ ctx.cache_key \in DOMAIN cache[at].entries

After(p, client, ctx) ==
  CASE p.kind = "key_auth" -> [ctx EXCEPT !.client_id = ctx.header,
                                          !.header = IF p.hide THEN None ELSE @]
    [] p.kind = "cache"    -> [ctx EXCEPT !.enabled = @ \/ ~client.nocache]
    [] OTHER               -> ctx

Begin(r, client) ==
  /\ req[r].phase = "idle" /\ begun < MaxBegun
  /\ begun' = begun + 1
  /\ req' = [req EXCEPT ![r] = [phase |-> "request", client |-> client, gen |-> gen,
                                at |-> 1, ctx |-> NewCtx(client)]]
  /\ UNCHANGED <<built, chains, gen, windows, rate, passed, cache>>

\* One plugin's on_request.  The chains are those of the generation the
\* request began with.
RunPlugin(r, generation) ==
  LET at     == <<generation, chains[generation][req[r].at]>>
      p      == Plugin(at)
      ctx    == req[r].ctx
      key    == IF p.kind = "rate_limit" THEN extract_key(p, ctx) ELSE None
      bag    == IF key = None THEN rate[at] ELSE Observed(key, rate[at])
      refuse == IF Hit(p, at, ctx) THEN 200
                ELSE Refusal(p, req[r].client, ctx, IF key = None THEN 0 ELSE Count(bag, key))
  IN /\ req[r].phase = "request" /\ req[r].at <= Len(chains[generation])
     /\ rate' = [rate EXCEPT ![at] = bag]
     /\ passed' = [passed EXCEPT ![at] =
                     IF key = None \/ refuse # None THEN @ ELSE OneMore(key, @)]
     /\ req' = [req EXCEPT ![r] =
          IF refuse # None THEN [phase |-> "refused", status |-> refuse]
          ELSE [req[r] EXCEPT !.at = req[r].at + 1, !.ctx = After(p, req[r].client, ctx)]]
     /\ UNCHANGED <<built, chains, gen, begun, windows, cache>>

\* Mutant: every plugin is taken from the configuration as it is then.
OnRequestReloaded(r) == RunPlugin(r, gen)

OnRequest(r) == RunPlugin(r, req[r].gen)

\* Both chains have let the request through: it goes to the upstream.
Forward(r) ==
  /\ req[r].phase = "request" /\ req[r].at > Len(chains[req[r].gen])
  /\ req' = [req EXCEPT ![r].phase = "upstream"]
  /\ UNCHANGED <<built, chains, gen, begun, windows, rate, passed, cache>>

\* on_response of every plugin: cache keeps the headers of a 200, and forgets
\* about any other answer.
OnResponse(r, answer) ==
  LET caches == \E i \in DOMAIN chains[gen] : Met(gen)[i].kind = "cache"
  IN /\ req[r].phase = "upstream"
     /\ req' = [req EXCEPT ![r] =
          [phase |-> "body", client |-> req[r].client, gen |-> req[r].gen, at |-> req[r].at,
           answer |-> answer, sent |-> 0,
           ctx |-> [req[r].ctx EXCEPT
             !.enabled = IF caches THEN @ /\ answer.status = 200 ELSE @,
             !.headers = caches /\ req[r].ctx.enabled /\ answer.status = 200]]]
     /\ UNCHANGED <<built, chains, gen, begun, windows, rate, passed, cache>>

\* Mutant: the place in the order of a key that is replaced is kept.
InsertTwice(c, key, body, max) ==
  LET excess  == Cardinality(DOMAIN c.entries) + 1 - max
      evicted == IF excess <= 0 THEN 0 ELSE IF excess > Len(c.order) THEN Len(c.order) ELSE excess
      kept    == SubSeq(c.order, evicted + 1, Len(c.order))
  IN [order |-> Append(kept, key),
      entries |-> [k \in ToSet(kept) \cup {key} |-> IF k = key THEN body ELSE c.entries[k]]]

\* BoundedCache::insert: the oldest entries are evicted until there is room,
\* for a key that is replaced as well (its old entry still counts).
Insert(c, key, body, max) ==
  LET order   == retain(c.order, ToSet(c.order) \ {key})
      excess  == Cardinality(DOMAIN c.entries) + 1 - max
      evicted == IF excess <= 0 THEN 0 ELSE IF excess > Len(order) THEN Len(order) ELSE excess
      kept    == SubSeq(order, evicted + 1, Len(order))
  IN [order |-> Append(kept, key),
      entries |-> [k \in ToSet(kept) \cup {key} |-> IF k = key THEN body ELSE c.entries[k]]]

\* on_response_body of one cache plugin, on the context and its own entries.
Keep(st, at, chunk, end) ==
  LET body == IF chunk = None THEN st.ctx.body ELSE Append(st.ctx.body, chunk)
      key  == IF st.ctx.cache_key = None THEN body ELSE st.ctx.cache_key
  IN IF ~st.ctx.enabled THEN st
     ELSE IF ~end THEN [st EXCEPT !.ctx.body = body]
     ELSE [ctx |-> [st.ctx EXCEPT !.body = <<>>, !.cache_key = key,
                                  !.headers = FALSE, !.enabled = FALSE],
           cache |-> [st.cache EXCEPT ![at] = Insert(@, key, body, Plugin(at).max)]]

\* The on_response_body of the chains that are loaded now, one after the other.
run_response_body(ctx, chunk, end) ==
  LET caches == {i \in DOMAIN chains[gen] : Met(gen)[i].kind = "cache"}
  IN FoldLeft(LAMBDA st, i : IF i \in caches THEN Keep(st, <<gen, chains[gen][i]>>, chunk, end)
                                            ELSE st,
              [ctx |-> ctx, cache |-> cache], [i \in DOMAIN chains[gen] |-> i])

\* One chunk, or none, of the answer.
OnResponseBody(r, chunk, end) ==
  LET all == run_response_body(req[r].ctx, chunk, end)
  IN /\ req[r].phase = "body"
     /\ chunk = (IF req[r].sent < Len(req[r].answer.chunks)
                 THEN req[r].answer.chunks[req[r].sent + 1] ELSE None)
     /\ chunk = None => end
     /\ end => req[r].sent + 1 >= Len(req[r].answer.chunks)
     /\ cache' = all.cache
     /\ req' = [req EXCEPT ![r] =
          IF end THEN [phase |-> "done"]
          ELSE [req[r] EXCEPT !.sent = req[r].sent + 1, !.ctx = all.ctx]]
     /\ UNCHANGED <<built, chains, gen, begun, windows, rate, passed>>

\* logging: the request is over, and its place is free for another.
Logging(r) ==
  /\ req[r].phase \in {"refused", "done"}
  /\ req' = [req EXCEPT ![r] = Idle]
  /\ UNCHANGED <<built, chains, gen, begun, windows, rate, passed, cache>>

\* A window of one limiter ends (each counts its own 60 seconds).
WindowEnds(at) ==
  /\ windows < MaxWindows /\ rate[at] # <<>>
  /\ windows' = windows + 1
  /\ rate' = [rate EXCEPT ![at] = <<>>]
  /\ passed' = [passed EXCEPT ![at] = <<>>]
  /\ UNCHANGED <<built, chains, gen, begun, cache, req>>

\* The new configuration has plugins of its own, with nothing counted or kept.
\* One that does not build is passed over.
Reload ==
  /\ gen' \in {g \in Generations : g > gen /\ Builds(built[g])}
  /\ UNCHANGED <<built, chains, begun, windows, rate, passed, cache, req>>

Next ==
  \/ \E r \in Requests :
       \/ \E client \in Clients : Begin(r, client)
       \/ OnRequest(r) \/ Forward(r)
       \/ \E answer \in Answers : OnResponse(r, answer)
       \/ \E chunk \in Chunks \cup {None}, end \in BOOLEAN : OnResponseBody(r, chunk, end)
       \/ Logging(r)
  \/ \E at \in Instances : WindowEnds(at)
  \/ Reload

Spec == Init /\ [][Next]_vars
=============================================================================
