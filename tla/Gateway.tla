------------------------------ MODULE Gateway ------------------------------
(***************************************************************************)
(* The request lifecycle of AiGateway (maxllm-gateway/src/gateway.rs) run   *)
(* by several requests at once while the configuration is reloaded.        *)
(*                                                                         *)
(* Pingora calls the ProxyHttp hooks of a request one after the other and  *)
(* lets the hooks of different requests interleave.  A hook is one action, *)
(* except request_filter, which is cut where it awaits.  Every hook loads  *)
(* the current HotState again (self.hot.load()), so one request may see    *)
(* several generations of the configuration.                               *)
(*                                                                         *)
(* A request is one element of Reqs and runs once.  What it carries        *)
(* (headers, bodies, model names) is abstracted to the choices of each     *)
(* hook's outcome.                                                         *)
(***************************************************************************)
EXTENDS Routing, Integers

CONSTANTS
  Reqs,          \* the requests clients send
  Providers,     \* provider names that may occur in a configuration
  Paths,         \* request paths, as classes of route prefixes
  Configs,       \* the configurations the file may hold; each has been
                 \* accepted by Config::validate
  InitialConfigs,\* bound: the ones a gateway starts with
  Kinds,         \* bound: the kinds of request that arrive
  MaxReloads,    \* bound: how often the configuration is reloaded
  None           \* no provider

Translators == {"openai", "other"}   \* "openai" stands for azure_openai too
Endpoints   == {"normal", "native", "embeddings", "passthrough"}

\* ProviderConfig and RouteConfig, reduced to what control depends on.  A
\* route's prefix is the set of request paths it matches.
Provider == [translator : Translators, weight : Nat, max_fails : Nat]
Route    == [prefix : SUBSET Paths, provider : Providers,
             fallback : Seq(Providers), strategy : Strategies,
             endpoint : Endpoints]
IsConfig(c) ==
  /\ DOMAIN c.providers \subseteq Providers
  /\ \A p \in DOMAIN c.providers : c.providers[p] \in Provider
  /\ c.routes \in Seq(Route)
  /\ c.guarded \in BOOLEAN /\ c.metrics_enabled \in BOOLEAN

\* Config::validate: there is a provider, and a route names only configured
\* ones.
Validate(c) ==
  /\ DOMAIN c.providers # {}
  /\ \A n \in 1 .. Len(c.routes) :
       \A i \in 1 .. Len(c.routes[n].fallback) + 1 :
         Entry(c.routes[n], i) \in DOMAIN c.providers

ASSUME ConfigsAssumption ==
  \A c \in Configs : IsConfig(c) /\ Validate(c)
ASSUME InitialAssumption == InitialConfigs \subseteq Configs
ASSUME KindsAssumption ==
  Kinds \subseteq {"fast", "metrics", "method", "admin", "api"}
ASSUME BoundAssumption == MaxReloads \in Nat
ASSUME ReqsAssumption == IsFiniteSet(Reqs)
ASSUME NoneAssumption == None \notin Providers

VARIABLES
  built,         \* the configurations turned into a HotState, in order; the
                 \* last one is the HotState in the ArcSwap
  failures,      \* per generation and provider: CircuitBreaker.failures
  cooling,       \* the same: less than fail_timeout since last_failure_at
  rr_counter,    \* ROUND_ROBIN_COUNTER
  active,        \* METRICS.active_requests, an IntGauge
  logs,          \* requests with a RequestLog in the admin store
  pc,            \* the hook a request is about to run
  snap,          \* generation request_filter loaded
  route_index,   \* ctx.route_index, 0 for None
  provider_name, \* ctx.provider_name
  original,      \* ctx.original_provider; None also means ~ctx.fallback_used
  skip_logging,  \* ctx.skip_logging
  outcome,       \* why the request was answered, "" while it is not
  status         \* class of the upstream response, "" before it arrives

breakers == <<failures, cooling>>
ctx  == <<snap, route_index, provider_name, original, skip_logging, status>>
vars == <<built, breakers, rr_counter, active, logs, pc, outcome, ctx>>

Statuses == {"", "2xx", "fail", "other"}   \* "fail" is 5xx or 429

\* "early" and "503" are the answers request_filter writes itself after it has
\* decremented the gauge, "fast_failed" a fast path that could not write its
\* answer: logging runs and the gauge does not count the request any more, or
\* never did.  "error" is any other error that ends the request.
Uncounted == {"early", "503", "fast_failed"}
Outcomes == Uncounted \cup {"", "fast", "metrics", "error", "upstream"}

Hooks == {"metrics", "admin", "global_chain", "route_chain", "upstream_peer",
          "upstream_request", "request_body", "copy_body",
          "await_response", "response_body", "logging"}
Finals == {"done", "panicked", "log_panicked"}

Hot == Len(built)
Providers_(g) == built[g].providers
RouteOf(r) == built[snap[r]].routes[route_index[r]]
Endpoint(r) == RouteOf(r).endpoint

\* Mutant of ChainInRange: the 1-based index used where 0-based is meant.
ChainInRangeShifted(r) == route_index[r] + 1 \in 1 .. Len(built[Hot].routes)

\* Indexing route_chains with ctx.route_index panics out of range.
ChainInRange(r) == route_index[r] \in 1 .. Len(built[Hot].routes)

\* CircuitBreaker::is_open.
IsOpen(g, p) ==
  /\ failures[g][p] >= Providers_(g)[p].max_fails
  /\ cooling[g][p]

Healthy(g, route) ==
  {i \in Candidates(Providers_(g), route) : ~IsOpen(g, Entry(route, i))}

----------------------------------------------------------------------------
SharedTypes ==
  /\ built \in Seq(Configs) /\ Len(built) \in 1 .. MaxReloads + 1
  /\ failures \in Seq([Providers -> Nat]) /\ Len(failures) = Len(built)
  /\ cooling \in Seq([Providers -> BOOLEAN]) /\ Len(cooling) = Len(built)
  /\ rr_counter \in Nat
  /\ active \in Int
  /\ logs \in SUBSET Reqs

RequestTypes ==
  /\ pc \in [Reqs -> {"idle"} \cup Hooks \cup Finals]
  /\ snap \in [Reqs -> 0 .. Len(built)]
  /\ route_index \in [Reqs -> Nat]
  /\ provider_name \in [Reqs -> Providers \cup {None}]
  /\ original \in [Reqs -> Providers \cup {None}]
  /\ skip_logging \in [Reqs -> BOOLEAN]
  /\ outcome \in [Reqs -> Outcomes]
  /\ status \in [Reqs -> Statuses]

TypeOK == SharedTypes /\ RequestTypes

Init ==
  /\ built \in {<<c>> : c \in InitialConfigs}
  /\ failures = <<[p \in Providers |-> 0]>>
  /\ cooling = <<[p \in Providers |-> FALSE]>>
  /\ rr_counter = 0
  /\ active = 0
  /\ logs = {}
  /\ pc = [r \in Reqs |-> "idle"]
  /\ snap = [r \in Reqs |-> 0]
  /\ route_index = [r \in Reqs |-> 0]
  /\ provider_name = [r \in Reqs |-> None]
  /\ original = [r \in Reqs |-> None]
  /\ skip_logging = [r \in Reqs |-> FALSE]
  /\ outcome = [r \in Reqs |-> ""]
  /\ status = [r \in Reqs |-> ""]

----------------------------------------------------------------------------
(* Building blocks of the hooks.                                           *)

Goto(r, next) == pc' = [pc EXCEPT ![r] = next]

\* The hook is over and the response, or the error, is decided: logging next.
Answer(r, what) ==
  /\ Goto(r, "logging")
  /\ outcome' = [outcome EXCEPT ![r] = what]

\* METRICS.active_requests.dec() followed by the answer.
EarlyAnswer(r, what) ==
  /\ active' = active - 1
  /\ Answer(r, what)

\* The hook ends with its plugin chains; the request's task panics when the
\* configuration no longer has the route's index.
ThenChains(r, next) ==
  Goto(r, IF ChainInRange(r) THEN next ELSE "panicked")

----------------------------------------------------------------------------
(* request_filter                                                          *)

\* /health, /healthz and /v1/models: answered before the gauge is touched.
\* When the answer cannot be written, skip_logging is not set yet.
FastPath(r) ==
  /\ pc[r] = "idle" /\ "fast" \in Kinds
  /\ \/ /\ skip_logging' = [skip_logging EXCEPT ![r] = TRUE]
        /\ Answer(r, "fast")
     \/ /\ UNCHANGED skip_logging
        /\ Answer(r, "fast_failed")
  /\ UNCHANGED <<built, breakers, rr_counter, active, logs, snap, route_index,
                 provider_name, original, status>>

\* Any other request: load the snapshot and count the request.
Enter(r, next) ==
  /\ pc[r] = "idle"
  /\ active' = active + 1
  /\ snap' = [snap EXCEPT ![r] = Hot]
  /\ Goto(r, next)
  /\ UNCHANGED <<built, breakers, rr_counter, logs, route_index, outcome,
                 provider_name, original, skip_logging, status>>

EnterMetrics(r) == /\ "metrics" \in Kinds /\ built[Hot].metrics_enabled
                   /\ Enter(r, "metrics")
EnterAdmin(r)   == "admin" \in Kinds /\ Enter(r, "admin")
EnterApi(r)     == "api" \in Kinds /\ Enter(r, "global_chain")

\* /metrics once its response is written.
AnswerMetrics(r) ==
  /\ pc[r] = "metrics"
  /\ skip_logging' = [skip_logging EXCEPT ![r] = TRUE]
  /\ EarlyAnswer(r, "metrics")
  /\ UNCHANGED <<built, breakers, rr_counter, logs, snap, route_index,
                 provider_name, original, status>>

\* A method other than POST: refused in the same step that counted it.
RefuseMethod(r) ==
  /\ pc[r] = "idle" /\ "method" \in Kinds
  /\ snap' = [snap EXCEPT ![r] = Hot]
  /\ active' = (active + 1) - 1
  /\ Answer(r, "early")
  /\ UNCHANGED <<built, breakers, rr_counter, logs, route_index,
                 provider_name, original, skip_logging, status>>

\* handle_admin_request once its response is written.
AnswerAdmin(r) ==
  /\ pc[r] = "admin"
  /\ EarlyAnswer(r, "early")
  /\ UNCHANGED <<built, breakers, rr_counter, logs, ctx>>

\* Mutant of FilterError: the gauge is decremented on the error path too.
FilterErrorUncounted(r) ==
  /\ pc[r] \in {"metrics", "admin", "global_chain", "route_chain"}
  /\ EarlyAnswer(r, "error")
  /\ UNCHANGED <<built, breakers, rr_counter, logs, ctx>>

\* An await of request_filter returns Err (a plugin fails, the client goes
\* away): Pingora calls logging with the error.
FilterError(r) ==
  /\ pc[r] \in {"metrics", "admin", "global_chain", "route_chain"}
  /\ Answer(r, "error")
  /\ UNCHANGED <<built, breakers, rr_counter, active, logs, ctx>>

\* A plugin of the global or the route's chain answers.
PluginRespond(r) ==
  /\ pc[r] \in {"global_chain", "route_chain"}
  /\ EarlyAnswer(r, "early")
  /\ UNCHANGED <<built, breakers, rr_counter, logs, ctx>>

\* match_route on the snapshot: the first route with a matching prefix.
Matching(c, path) == {n \in 1 .. Len(c.routes) : path \in c.routes[n].prefix}

NoRoute(r) ==
  /\ pc[r] = "global_chain"
  /\ \E path \in Paths : Matching(built[snap[r]], path) = {}
  /\ EarlyAnswer(r, "early")
  /\ UNCHANGED <<built, breakers, rr_counter, logs, ctx>>

MatchRoute(r) ==
  /\ pc[r] = "global_chain"
  /\ \E path \in Paths :
       LET matching == Matching(built[snap[r]], path)
       IN  /\ matching # {}
           /\ route_index' = [route_index EXCEPT ![r] = First(matching)]
  /\ Goto(r, "route_chain")
  /\ UNCHANGED <<built, breakers, rr_counter, active, logs, snap, outcome,
                 provider_name, original, skip_logging, status>>

\* select_provider: every candidate's breaker is open.
NoProvider(r) ==
  /\ pc[r] = "route_chain"
  /\ Healthy(snap[r], RouteOf(r)) = {}
  /\ EarlyAnswer(r, "503")
  /\ UNCHANGED <<built, breakers, rr_counter, logs, ctx>>

SelectProvider(r) ==
  /\ pc[r] = "route_chain"
  /\ LET g       == snap[r]
         route   == RouteOf(r)
         healthy == Healthy(g, route)
         i       == Select(Providers_(g), route, healthy, failures[g],
                           rr_counter)
     IN  /\ healthy # {}
         /\ provider_name' = [provider_name EXCEPT ![r] = Entry(route, i)]
         /\ original' = [original EXCEPT ![r] =
                           IF i = 1 THEN None ELSE route.provider]
         /\ rr_counter' = IF AdvancesCounter(Providers_(g), route, healthy)
                            THEN rr_counter + 1 ELSE rr_counter
  /\ Goto(r, "upstream_peer")
  /\ UNCHANGED <<built, breakers, active, logs, snap, route_index, outcome,
                 skip_logging, status>>

----------------------------------------------------------------------------
(* The hooks of the proxied request                                        *)

Exists(r) == provider_name[r] \in DOMAIN Providers_(Hot)

\* Mutant of ProviderGone: upstream_peer waits for a provider that is gone.
ProviderGoneLate(r) ==
  /\ pc[r] \in {"upstream_request", "request_body"}
  /\ ~Exists(r)
  /\ Answer(r, "error")
  /\ UNCHANGED <<built, breakers, rr_counter, active, logs, ctx>>

\* A hook finds that a reload removed the request's provider.
ProviderGone(r) ==
  /\ pc[r] \in {"upstream_peer", "upstream_request", "request_body"}
  /\ ~Exists(r)
  /\ Answer(r, "error")
  /\ UNCHANGED <<built, breakers, rr_counter, active, logs, ctx>>

UpstreamPeer(r) ==
  /\ pc[r] = "upstream_peer"
  /\ Exists(r)
  /\ Goto(r, "upstream_request")
  /\ UNCHANGED <<built, breakers, rr_counter, active, logs, outcome, ctx>>

\* Headers and framing from the current generation.  A normal or native body
\* is rewritten, unless the upstream is OpenAI: that keeps the client's
\* Content-Length (ctx.keep_request_content_length) and body, except when
\* compaction is on.  Every other body is copied.
UpstreamRequestFilter(r) ==
  /\ pc[r] = "upstream_request"
  /\ Exists(r)
  /\ \E compaction_enabled \in BOOLEAN :
       LET keep == /\ Providers_(Hot)[provider_name[r]].translator = "openai"
                   /\ ~compaction_enabled
       IN  ThenChains(r, IF Endpoint(r) \in {"normal", "native"} /\ ~keep
                           THEN "request_body" ELSE "copy_body")
  /\ UNCHANGED <<built, breakers, rr_counter, active, logs, outcome, ctx>>

\* The body is forwarded: copied, or rewritten with the current provider.
RequestBodyFilter(r) ==
  /\ \/ pc[r] = "copy_body"
     \/ pc[r] = "request_body" /\ Exists(r)
  /\ Goto(r, "await_response")
  /\ UNCHANGED <<built, breakers, rr_counter, active, logs, outcome, ctx>>

\* send_guardrail_block: only a rewritten body runs the pre-call guardrails.
\* The client gets a 400 and Pingora an error.
GuardrailBlock(r) ==
  /\ pc[r] = "request_body"
  /\ Exists(r)
  /\ built[Hot].guarded
  /\ Answer(r, "error")
  /\ UNCHANGED <<built, breakers, rr_counter, active, logs, ctx>>

\* Mutant of RecordStatus: every status from 400 up is a failure.
RecordStatusStrict(g, p, s) ==
  IF s = "2xx"
    THEN failures' = [failures EXCEPT ![g][p] = 0] /\ UNCHANGED cooling
    ELSE /\ failures' = [failures EXCEPT ![g][p] = @ + 1]
         /\ cooling' = [cooling EXCEPT ![g][p] = TRUE]

\* The breaker update of response_filter.
RecordStatus(g, p, s) ==
  CASE s = "fail" -> /\ failures' = [failures EXCEPT ![g][p] = @ + 1]
                     /\ cooling' = [cooling EXCEPT ![g][p] = TRUE]
    [] s = "2xx"  -> /\ failures' = [failures EXCEPT ![g][p] = 0]
                     /\ UNCHANGED cooling
    [] OTHER      -> UNCHANGED breakers

\* The response is credited to the provider of that name in the current
\* generation, if there is one, before the chains run.
ResponseFilter(r) ==
  /\ pc[r] = "await_response"
  /\ \E s \in Statuses \ {""} :
       /\ status' = [status EXCEPT ![r] = s]
       /\ IF Exists(r) THEN RecordStatus(Hot, provider_name[r], s)
                       ELSE UNCHANGED breakers
  /\ ThenChains(r, "response_body")
  /\ UNCHANGED <<built, rr_counter, active, logs, outcome, snap, route_index,
                 provider_name, original, skip_logging>>

\* The last chunk of the response body.
ResponseBodyFilter(r) ==
  /\ pc[r] = "response_body"
  /\ ThenChains(r, "logging")
  /\ outcome' = [outcome EXCEPT ![r] = "upstream"]
  /\ UNCHANGED <<built, breakers, rr_counter, active, logs, snap, route_index,
                 provider_name, original, skip_logging, status>>

\* A connection fails or times out on either side: Pingora ends the request
\* with an error.  No hook of the gateway records it in a breaker.
ProxyError(r) ==
  /\ pc[r] \in {"upstream_request", "request_body", "copy_body",
                "await_response", "response_body"}
  /\ Answer(r, "error")
  /\ UNCHANGED <<built, breakers, rr_counter, active, logs, ctx>>

\* logging: nothing for the fast paths; otherwise the gauge, the plugin
\* chains of the route index, if any, and the request log.
Logging(r) ==
  /\ pc[r] = "logging"
  /\ IF skip_logging[r]
       THEN Goto(r, "done") /\ UNCHANGED <<active, logs>>
       ELSE /\ active' = active - 1
            /\ IF route_index[r] = 0 \/ ChainInRange(r)
                 THEN Goto(r, "done") /\ logs' = logs \cup {r}
                 ELSE Goto(r, "log_panicked") /\ UNCHANGED logs
  /\ UNCHANGED <<built, breakers, rr_counter, outcome, ctx>>

----------------------------------------------------------------------------
(* The environment of the requests                                         *)

\* Mutant of Reload: the breakers of the old HotState are kept.
ReloadKeepingBreakers ==
  /\ Len(built) <= MaxReloads
  /\ \E c \in Configs : built' = Append(built, c)
  /\ UNCHANGED <<breakers, rr_counter, active, logs, pc, outcome, ctx>>

\* The config watcher swaps in a new HotState, with new breakers.
Reload ==
  /\ Len(built) <= MaxReloads
  /\ \E c \in Configs : built' = Append(built, c)
  /\ failures' = Append(failures, [p \in Providers |-> 0])
  /\ cooling' = Append(cooling, [p \in Providers |-> FALSE])
  /\ UNCHANGED <<rr_counter, active, logs, pc, outcome, ctx>>

\* fail_timeout passes since a breaker's last failure.
TimeoutElapses(g, p) ==
  /\ cooling[g][p]
  /\ cooling' = [cooling EXCEPT ![g][p] = FALSE]
  /\ UNCHANGED <<built, failures, rr_counter, active, logs, pc, outcome, ctx>>

AllFinished ==
  /\ \A r \in Reqs : pc[r] \in Finals
  /\ UNCHANGED vars

RequestFilter(r) ==
  \/ AnswerMetrics(r) \/ AnswerAdmin(r) \/ FilterError(r) \/ PluginRespond(r)
  \/ NoRoute(r) \/ MatchRoute(r) \/ NoProvider(r) \/ SelectProvider(r)

Proxy(r) ==
  \/ ProviderGone(r) \/ UpstreamPeer(r)
  \/ UpstreamRequestFilter(r) \/ RequestBodyFilter(r) \/ GuardrailBlock(r)
  \/ ResponseFilter(r) \/ ResponseBodyFilter(r) \/ ProxyError(r)

Arrive(r) ==
  \/ FastPath(r) \/ EnterMetrics(r) \/ EnterAdmin(r) \/ EnterApi(r)
  \/ RefuseMethod(r)

Next ==
  \/ \E r \in Reqs : Arrive(r) \/ RequestFilter(r) \/ Proxy(r) \/ Logging(r)
  \/ Reload
  \/ \E g \in 1 .. Len(built), p \in Providers : TimeoutElapses(g, p)
  \/ AllFinished

Spec == Init /\ [][Next]_vars

\* Tokio keeps polling a request that has work to do, and Pingora bounds each
\* wait for a peer (upstream_peer sets connection, read and write timeouts).
Fairness == \A r \in Reqs :
  WF_vars(RequestFilter(r) \/ Proxy(r) \/ Logging(r))

FairSpec == Spec /\ Fairness
=============================================================================
