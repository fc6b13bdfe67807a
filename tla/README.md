# MaxLLM in TLA+

MaxLLM is an LLM gateway: a Pingora proxy that routes OpenAI-style requests to
upstream providers, with plugin chains and guardrails around each request, an
admin API for virtual keys and teams, and hot reload of its configuration file.
This directory models the parts of it that have state, order or concurrency,
checks them with TLC on small instances, and proves the main safety results with
TLAPS. Paths below are relative to the repository, `crates/…/src/…`.

## 1. Inventory

| Component | State | Operations | Talks to | What is hard | What makes it correct |
|---|---|---|---|---|---|
| Request lifecycle, `maxllm-gateway/gateway.rs`, `ctx.rs` | `hot` (ArcSwap of `HotState`), a `RequestCtx` per request, the gauge `active_requests` | the `ProxyHttp` hooks, in Pingora's order; `logging` at the end of every request | routing, breakers, chains, metrics, admin API | every hook loads `hot` again, so a reload falls between two hooks; errors end a request at any await | every request ends; the gauge is accounted for; a stale index is used only after a reload that took routes away |
| Bodies, `request_body_filter`, `upstream_response_body_filter` | two buffers, `body_translated`, `keep_request_content_length` | one call per chunk, twice on a retry | guardrails, compaction, translators | chunks, an end that comes alone, framing decided before the body is known, a retry, a reload in the middle | the upstream and the client get everything in order; what a guardrail forbids does not pass in a body that is read |
| Selection, `routing.rs` | `ROUND_ROBIN_COUNTER`, global | `select`, `weighted_select` | breakers, `select_provider` | the healthy set changes under it; the counter is shared by all routes | a healthy candidate is returned; the primary first under the priority strategies |
| Circuit breaker, `circuit_breaker.rs` | `failures`, `last_failure_at`, two atomics | `is_open`, `record_failure`, `record_success` | `response_filter`, selection | late answers; two relaxed atomics; a wall clock that may step back | skipped only for a cause, and skipped when down |
| Config watcher, `main.rs` | `last_reload`, the event channel, the file | watch, receive, debounce, parse, build, swap | the file system, `hot` | edits before the watch and racing the read; debounced events; half-written files, of which some parse | the last good configuration is served |
| Configuration, `maxllm-config/lib.rs` | none | parse, `validate` | watcher, plugins, guardrails | settings that are refused, and names that nothing defines | a configuration is refused whole or loaded whole |
| Keys, teams, budgets, `maxllm-admin/{keys,teams,budget}.rs` | keys, teams, spend log in an `AdminStore` | `generate_key`, `revoke_key`, `create_team`, `add_member`, `remove_member`, `record_usage`, `reset_expired_budgets` | store | read-modify-write of whole records with no lock over the operation; a store call that fails half-way | a revoked key stays revoked; counters agree with the spend log |
| Admin stores, `store.rs`, `sqlite_store.rs` | four tables, a hash index, locks | sixteen methods | – | two locks in one method; one lock after the other in another; reports of several statements; crashes | every call takes effect at one moment; the index agrees with the keys |
| Plugin chains, `maxllm-plugin/{chain,context,factory}.rs`, `builtin/` | instances of one generation, a context per request | `create_plugin`, `run_request`, `run_response`, `run_response_body` | hooks | order, early answers, chains of an older generation | only what every plugin of one configuration admits goes to the upstream |
| Rate limit, `builtin/rate_limit.rs` | counters of a window | `observe` | chain | overlapping requests, shared instances, reloads | the limit is met exactly within a window |
| Cache, `builtin/cache.rs` | `BoundedCache` | `insert`, the response hooks | chain | eviction, repeated keys, several caches, chunks | bounded; order and entries agree; a kept body is one answer's |
| Auto-compaction, `builtin/auto_compaction.rs` | none | `compact_messages` | body filter | limits met exactly, negative settings | the newest and the system messages survive |
| Guardrails, `guardrail/*` | engine entries | pre- and post-call runs | body filters | order, redaction feeding the next entry, failing services | a block holds; nothing is refused without cause |
| Stream translators, `maxllm-translate/*_stream.rs` | a buffer per stream, `sent_role` | `process_chunk` | response body filter | events cut anywhere; three different loops; the end of the stream | the cut decides nothing |
| Command line, `maxllm-cli` | the pid file | `start`, `stop`, `status` | the server process, signals | separate system calls; reused pids; a daemon that forks | "not running" is true |
| Admin API, cost calculator, other plugins, request and response translators | none between requests | – | – | – | – |

`PROJECT.json` lists every component with its status, and every hazard at its
line with the properties that look at it.

## 2. Modules

| Module | Models | State and actions |
|---|---|---|
| `Routing` | `routing.rs` and the candidate list of `select_provider` | Pure operators. `Select` has one branch per strategy; `AdvancesCounter` says when the call moves the counter. |
| `Gateway` (EXTENDS `Routing`) | the hooks of `gateway.rs`, `Config::validate` | One action per hook and per way it can end. |
| `Guardrails` | `guardrail/*` | Pure operators: what can be configured, which entries run, what each provider says, what the engine makes of it. |
| `Compaction` | `auto_compaction.rs`, its call in `gateway.rs` | Pure operators: settings, estimate, the three strategies. |
| `BodyPipeline` (EXTENDS both) | framing and the two body filters | One action per kind of call of a filter: `PassThrough`, `FlowThrough`, `Withhold`, `Embeddings`, `Native`, `Chat`, `Unread`, `PassResponse`, `HoldResponse`, `Reply`; `Retry`, `Reload`. |
| `Breaker` | `circuit_breaker.rs` | One action per atomic access of a call; `calls` is the history the properties are stated on. |
| `PluginKinds` | `factory.rs`, the `from_config` and `on_request` of the built-in plugins | Pure operators. |
| `Plugins` (EXTENDS it) | `chain.rs` under the hooks of the gateway | One plugin of a chain is one step; requests overlap, windows end, configurations are reloaded. |
| `Streams` | the stream translators | One piece of the wire is one step (`Chunk`); `Turn` is a turn of the loop of `process_chunk`, `Drain` the loop, `Flush` what it does at the end. |
| `AdminKeys` | `keys.rs`, `teams.rs`, the writing half of `budget.rs` | One action per store call; `pc` is the next call of a thread, `copies` and `team_copy` the records it will write back. |
| `StoreData` | the calls and answers of the `AdminStore` trait | – |
| `AdminStore` (EXTENDS it) | the promise of the trait, abstractly | A call is invoked, takes effect, returns; the durable store may fail, a crash may come. |
| `StoreBackends` (EXTENDS `StoreData`) | `InMemoryStore` and `SqliteStore` | Every method, cut where it takes or gives back a lock or runs another statement. |
| `ConfigWatcher` | `start_config_watcher` and the editors of the file | `Watch`, `Receive`, `Parse` (reads the file at that moment), `Build` (builds and swaps). |
| `Launcher` | `start`, `stop`, `status` and the processes of the machine | One system call is one step. |
| `*Props`, `MC*`, `*Proofs` | – | Properties, instances, theorems. `EdgeProofs` has those of `ConfigWatcher`, `Launcher` and `Streams`; `FoldLemmas` what the proofs know of recursive functions. |

How they relate to the code, where it is not one to one:

* **`Gateway`.** `built` is the history of configurations swapped into `hot`;
  `Hot` is the one in it now. `snap[r]` is the generation `request_filter` loaded;
  later hooks use `Hot`, as the code loads `self.hot` again. `request_filter` is
  cut at its awaits; `select_provider` has none and is one step. A breaker is a
  failure count and `cooling`, "less than `fail_timeout` since the last failure";
  `Breaker` takes that cell apart. What a plugin, a guardrail or a peer decides is
  a choice between the outcomes the code has for it; bodies are `BodyPipeline`'s.
* **`BodyPipeline`.** A chunk is its number, a body its messages, a text the set
  of kinds of content that a pattern could find in it. The end of a body may come
  with the last chunk or in a call of its own. Text that a guardrail redacts
  becomes `Masked`. What an external service answers is a choice: a decision, a
  failure, or any text of `Rewrites` in the place of the one it was shown; so is what
  a summarizer answers. `Retry` starts over with the same context, as Pingora does
  when a reused connection breaks. Nothing empties `request_body_buf` before it is
  read, so `buf` may then begin with chunks of the first attempt. It is the client's
  body only when it holds every chunk once (`Intact`); otherwise it does not parse,
  and `Unread` is what becomes of it: the bytes go upstream as they are.
* **`Breaker`.** The accesses are relaxed, so those of one call to different
  fields may take effect in either order; each field is coherent.
* **`Plugins`.** A plugin is the record of the settings that matter to what it lets
  through. A generation has one instance per configured name, however many chains
  list it. `pingora_limits::Rate` counts exactly within a window.
* **`Streams`.** A byte is a third of an event's line or a newline, so that a cut
  can fall inside the first word of a line, between lines and between the two
  newlines of an event. `buf` and `st` are the two halves of a translator, the bytes
  it holds and what it has said; the client's events carry the number of the event
  they come from.
* **`StoreBackends`.** A key stands for its id and its hash, a row's columns are
  one value. Creation times are the callers', so a page of keys is any rows after any
  others (`TablePages`). A method of `SqliteStore` is one step where it is one statement;
  `get_spend_summary` is two, with the connection locked between them.
* **`AdminKeys`** counts one unit per usage: `total` stands for the lifetime
  counters of a key, `spent` for the counters of its budget window. With
  `StoreErrors` any call of an operation after its first may fail; what was
  written stays. Its store calls are the atomic ones of `AdminStore`.
* **`ConfigWatcher`** keeps the number of queued events, and `recent` for "less
  than one second since `last_reload`". `EditorKinds` fixes how the file is edited:
  renamed into place and never within a second of a reload, or in any way. A
  behaviour begins when `main.rs:54` has read the file; until `Watch` an edit raises
  no event, and `early` says that the last one was of that kind. What is half
  written may be refused, or be a good configuration that lacks its end.
* **`Launcher`** has the kernel give freed pids to any process, also of another
  user: `kill(pid, 0)` then fails with `EPERM`, which the commands take for dead
  (`Alive`). `orderly` is
  the history of a user who runs one command at a time, without `--daemon`.

## 3. Runs

| Run | Instance | Shows |
|---|---|---|
| `gateway` | 3 API requests, 2 providers, 2 routes, 1 reload that removes one of each | `UnavailableIsEarned`, `FallbackIsEarned`, `PanicNeedsShrink` |
| `gateway_live` | 2 requests of all five kinds, every start and one reload to either configuration | `TypeOK`, `GaugeAccounts`, and `Completes` under fairness |
| `admin_overlap` | 2 threads, 1 key, 1 team, 5 calls of all 7 operations, window of 1 day, 2 days | `TypeOK`, `NeverOverbilled`, `RevocationIsFinal` |
| `admin_serial` | 1 thread, 2 keys, 2 teams, 6 calls, failing store calls | `CountersMatchLog`, `CountersCoverLog`, `RevokedStaysRevoked`: what holds while calls do not overlap |
| `watcher` | 3 edits, 5 contents, two of them halves of others, editors of both kinds, before the watch and after | `TypeOK`, `NothingMissed`, `LastEditServed`, `FreshEventIsEnough` |
| `store` | either backend, 2 threads, 1 key, 1 team, 3 calls of all 16 methods, failing statements, crashes at any moment | `TypeOK`, `IndexAgrees`, `SpendHasItsKey`, the refinement `Implements`, `EveryCallReturns` |
| `pipeline` | 2 chunks each way, four endpoints, 3 translators (4 for native bodies), 6 engines and 5 that are refused, 2 texts a webhook may answer with, all compaction strategies | `TypeOK`, `BodyWhole`, `BlockHolds`, `RefusedForCause`, `LastMessageClean`, `OutputHeld`, `ReplyWhole`, `NewestKept`, `WithinThreshold` |
| `framing` | the same | refutes `FramingKept`, see 4 |
| `streams` | 3 translators, answers of up to 5 events fit and unfit, every cut of their bytes, both ways to end | `StreamTypeOK`, `ChunkingIrrelevant`, `RoleThenDone` |
| `plugins` | 2 requests at a time, 3 in all, 5 histories of up to 3 configurations, 1 end of a window | `TypeOK`, `AdmittedByAll`, `LimitHeld`, `CacheSound` |
| `breaker` | 2 threads, 4 calls, 2 clock values a timeout apart | `OpenIsEarned`, `SkippedWhenDown` |
| `cli` | 3 pids, 3 commands | `NotRunningIsTrue` |

**Bounds.** Three requests are what it takes to open a breaker, to see it open and
to have a request answer late; `max_fails` is 1 in the first configuration so that
this fits, and 2 in the second so that a count has to add up. One reload is enough
for two generations, the most two hooks of one request need to disagree. Two threads
are what a lost update takes, five calls are create key, create team and three more
that overlap. Three edits are one that is served, one that is debounced and one
after it. Three store calls are two that overlap and one that sees what they left;
one key is enough for the locks, and pages of more are proved of. Two chunks are one
that is not the last and one that is, and what a retry takes to repeat a beginning;
a conversation of four messages has something to drop, something to keep and a
system message anywhere. Four breaker calls are two failures, a success and a
reader. Three pids are a gateway, the one before it and a stranger. `Word` stands
for the range of `usize`: it only has to be larger than every length. Counters and
histories are bounded by the number of requests, calls or commands. `SYMMETRY` is
used over requests, threads, keys, teams and pids, and only in runs without
liveness.

**Deadlock** is checked where the model says when the system may stop
(`AllFinished`, `Finished`, `Idle` of the gateway, the admin operations and the
watcher). The others say `CHECK_DEADLOCK FALSE`: they are finite by their bounds, a
body or a stream is over when it has been sent. `EveryCallReturns` is what says
that nobody waits for a lock for ever.

**Fairness.** `Gateway`: weak fairness of each request's own steps. Tokio polls
every task that is ready, and a request that waits for its upstream is bounded by
the connection, read and write timeouts that `upstream_peer` sets, after which
Pingora ends it (`ProxyError`). The arrival of a request, a reload and the passing
of `fail_timeout` are not fair. `ConfigWatcher`: the thread runs, a second passes,
and a write that began ends. `StoreBackends`: a thread inside a method runs on. Weak
fairness is enough for the locks, because the number of calls is finite. The other
modules have safety properties only.

**Refinement.** `Implements` in `StoreProps` is `Promise!Spec`, where `Promise` is
`AdminStore` with `relational`, the calls and the answers of `StoreBackends`
substituted. The tables are the same ones: a call takes effect at the step that
changes them, or at its last read. The exception is `delete_key` of `InMemoryStore`,
which has taken effect when it has removed the key and still has to clean the
index; the mapping gives it its answer there. TLC checks it for both backends.

## 4. Disagreements with what the repository says

`framing` is the run TLC refutes: `gateway.rs:1312-1316` says the body sent to an
OpenAI upstream is padded "so the upstream reads exactly Content-Length bytes". The
body is padded only when compaction changed it, and never shortened; a body whose
`guardrails` field was removed, or whose text was redacted, has another length than
was announced.

A retry may double a body, though `gateway.rs:978`, `1021` and `1091` say that
embeddings and native bodies are forwarded as they are. When a retry comes after
chunks of the first attempt were buffered, they are appended once more (`1001-1003`,
`980-981`, `923-925`), and the upstream gets the beginning of the body twice. Such a
body does not parse, so no guardrail, redaction or compaction runs on it. `Unread` is
that step, and the run `pipeline` takes it; `BodyWhole` says that this, after a retry
only, is the worst of it, and the properties of guardrails and compaction speak of
bodies that were read (`Assembled`).

Others are recorded in `PROJECT.json` with the lines that disagree; those that
shaped a property:

* Early answers decrement `active_requests` in `request_filter` and again in
  `logging`. `GaugeAccounts` gives the exact value.
* "Load hot state snapshot for this request": later hooks load it again.
  `PanicNeedsShrink` says what the worst of it needs.
* `add_member` overlapping `revoke_key` makes the key active again.
  `RevocationIsFinal` is what does hold, and `RevokedStaysRevoked` without overlap.
* An edit within a second of the previous reload is not loaded, nor one between the
  first reading of the file and the watch. `NothingMissed` holds of careful editors
  and of edits that were watched, `FreshEventIsEnough` of all.
* A redacted text replaces the last user message only: `LastMessageClean`, while
  the last message that goes out is still the user's last one (`LastIsUsers`).
* On native endpoints nothing is redacted: the body goes on as it came, while the
  entries behind a redacting one are shown the redacted text. `Passed` says what that
  leaves of a block; `OutputHeld` promises a chat client that nothing blocked or
  redacted reaches it, and a native client only this.
* A webhook's `modify` puts any text in the place of the one it was shown, also what
  an earlier entry removed: `LastMessageClean` and `OutputHeld` say nothing of an
  entry in front of one that rewrote (`Rewriters`).
* Cohere's native extractor does not read content blocks: `BlockHolds` is stated of
  `Shown`.
* A chat client's guardrails do not run on bodies that flow through to OpenAI, on
  embeddings and on streamed replies: `BlockHolds` speaks of bodies the gateway put
  together, `OutputHeld` of replies that are not streamed.
* The rate limiter has fixed windows, not a sliding one: `LimitHeld` is about one.
* The cache's key is computed from the response, and no request is ever answered
  from it: `CacheSound` is about what is kept.
* `start --daemon` records the pid of a process that exits: `NotRunningIsTrue` is
  about users who do not use it.

## 5. Proofs

TLAPS proves every invariant and every action property of the runs, and the
refinement, for any requests, threads, keys, configurations, texts, streams, pids
and bounds. The invariants of the serial runs are proved for one thread, as they
are checked. A theorem whose name ends in `Alone` says so in its statement.

### Lifecycle, selection, breaker

* `GatewayProofs`, selection: `SelectReturnsHealthy` (every strategy returns a
  healthy position: the sum of weights is a natural number, as `MapThenSumSet`, and
  the cumulative test falls back to the last position) and `PrimaryFirst`.
* `GatewayProofs`, lifecycle: `TypeCorrect`, `GaugeCorrect`, `UnavailableCorrect`,
  `FallbackCorrect`, `PanicCorrect`. The invariant is
  `TypeOK /\ Phases /\ CreditedFailures`. `Phases` ties each hook to what the
  earlier ones have set (a matched request has an index into the routes of `snap`,
  a selected one a provider, a request without an index is not in a later hook).
  `CreditedFailures` says that a breaker's count, in whatever generation, is at
  most the number of requests that saw that provider fail; without it a 503 could
  not be traced to the failures behind it. `GaugeAccounts` is inductive with the
  first two; `HookMoves` says how each hook moves a request between those the
  gauge counts, those it has forgotten and the rest, and `Balance` turns that into
  cardinalities.
* `BreakerProofs`: `OpenIsEarnedAlways` and `SkippedWhenDownAlways`, for any number
  of threads. The count is kept between two sets of failures: those recorded after
  every success so far, and those no success followed entirely (`CountBounds`). The
  stamp is that of a failure no other followed (`StampSource`), and a reader keeps
  what was true when it read (`ReadCount`, `ReadStamp`). Two assumptions: no clock is
  nearer to the epoch than `fail_timeout`, and, for the second theorem, `max_fails`
  above zero (with zero, a breaker nobody stamped yet is not open).

### Keys and store

* `AdminKeysProofs`, overlapping operations: `AdminTypeCorrect` and
  `RevocationCorrect`, from `TypeOK /\ Steps`; `Steps` says what a thread holds at
  each stage of its operation (the key and the team it is about exist, the copy it
  will write is there) and that a team's members exist. `NeverOverbilledAlways`
  assumes `~StoreErrors`: a stale copy may be written long after it was read, so
  the invariant bounds the store and every copy, `Billed(k)` for the record,
  `Slack(t)` for what a thread's copy may be ahead of the log by. With store errors
  the property is false (a charge whose log entry failed).
* `AdminKeysProofs`, one thread: `CountersMatchLogAlone`, `CountersCoverLogAlone`
  and `RevokedStaysRevokedAlone`, assuming `\E t : Threads = {t}`, for any keys,
  teams and number of calls. `KeyLedger` and `TeamLedger` say how far a record, and the
  copy being written, are from the log at each stage of the one operation in
  progress; between operations nothing is in progress and the difference is none,
  or, after a store error, a charge that was never logged. `Buried` is what makes a
  revocation final: a revoked key is dead, in the store and in every copy.
* `StoreProofs`: `IndexCorrect` (whenever nobody holds the lock of the
  keys) and `StoreImplements`, the refinement, for both backends with failing statements and crashes. The invariant `StoreInv` has five
  parts: `Shape`; `Stage`, what a thread inside a method has taken and found;
  `Holders`, that a lock names a thread that is where it should be; `Tables`; and
  `Index`, that `hash_index` is the keys, plus the hash of a delete in progress.
  Each step is then a step of `AdminStore` or leaves it alone. `delete_key` takes
  effect at its first lock, when the key goes, and a report is a snapshot because
  whoever holds the connection finds the log as its first statement read it. That
  the newest rows are one of the pages the promise allows is shown by counting the
  entries after each. `StoreTypeOK` and `SpendNamesItsKey` come from `Tabled`, which
  needs what the cascade of `delete_key` leaves of the log, a fold over any log.

### Bodies and plugins

* `BodyPipelineProofs` proves all nine invariants of the run `pipeline`. `Framed`
  (the types, `Request`, `Response`) says how what was sent, what is buffered and
  what is still to come make up the body, at every chunk, and that behind what a
  first attempt left (`Gathering`) the buffer holds the chunks of this one:
  `TypeCorrect`, `BodyWholeAlways` and `ReplyWholeAlways` follow. `Configured` says
  that engines and compactors are as the configuration builds them and texts are kinds of
  content. `RunFacts` is the guardrail engine, unrolled entry by entry: a run that
  ends without a block has found nothing a blocking entry looks for, in the text as
  the entries before left it, and one that ends with a block was given cause. From
  it `BlockHoldsAlways`, `RefusedForCauseAlways`, `OutputHeldAlways` and
  `LastMessageCleanAlways`. `CompactFacts` is the compaction, unrolled message by
  message (sort the system messages out, drop from the front or try which of the
  rest fit): `NewestKeptAlways` and `WithinThresholdAlways`, for any settings and
  any conversation.
* `PluginsProofs`: `AdmittedByAllAlways`, from `Progress` (the plugins before a
  request's place have admitted it, and its context still holds its address and its
  key, or no key), and `LimitHeldAlways`, from `Limiters`. Limits may be any
  integers. `PluginsTypeCorrect` and `CacheSoundAlways` add `Chained` (a loaded
  generation built), `Carried` (the body a request carries is the chunks of its own
  answer so far) and `Books` (a cache's order names its entries once each, and no
  more than it may hold); `Inserted` is one `insert`, its eviction loop included,
  and `Course` the walk of one chunk through a chain.

### The edges

* `EdgeProofs`, watcher: `WatcherTypeCorrect` for any editors, and
  `NothingMissedAlways` for careful ones, from `TypeOK`, `~Writing` and `Fresh`:
  unless what is served or being built is what the file holds, an event is waiting
  that will not be dropped, or the file was last changed before it was watched.
* `EdgeProofs`, command line: `NotRunningIsTrueAlways`. Of an orderly user there is
  one start at most, which waits while anything else is asked (`OneOfEach`);
  whatever is up is the child that start waits for, and the file names it
  (`Watched`); and a `stop` that holds a pid holds that of what is up (`Asked`).
* `EdgeProofs`, streams: `StreamsTypeCorrect`, `ChunkingIsIrrelevant` and
  `RoleComesThenDone`, for any stream of events cut anywhere. `Caught` says that the
  buffer is what the wire has between the event the translator has reached and what
  has arrived (`Window`, and `Clean` for where it may begin), and that state and
  output are those of translating that many events. A turn of the loop brings that
  one event further or is the last (`Advances`), so the loop ends with nothing
  complete in the buffer (`Drained`), and the flush takes what is left for an event
  if it is one (`Flushed`). What the client is told is then a matter of the
  translation alone: `Told`, and `Adds` for Gemini's parts and candidates.

### What the proofs rest on

`FoldLemmas` is how recursive functions and folds are reasoned about without
induction over an operator: a function defined by recursion on `1 .. n` is shown
to exist and to satisfy its equation from any set of naturals having a least
element (`Least`, `FoldExists`, `UnrollMax`, `UnrollMin`), and a set of naturals
closed under the step is everything (`Steps`, `Upwards`, `Downwards`).

The assumptions on constants are named in the modules that declare them, and TLC
evaluates them in every run:

| Assumption | Says | Because |
|---|---|---|
| `Gateway!ConfigsAssumption` and its neighbours | a configuration is one `validate` passes | the watcher and `start` load no other |
| `GuardrailAssumption`, `CompactionAssumption` | finitely many kinds of content, `Masked` is none of them, a webhook's text is made of them; lengths are natural | a redacted text holds nothing a pattern finds |
| `PipelineAssumption` | cases are routes and requests of the shapes the model names | – |
| `Plugins!ConfigsAssumption` | a limit is an integer or missing, `max_entries` is not negative | TOML integers; a negative capacity, taken as `usize`, is a panic when the cache is built |
| `TrafficAssumption` | an answer is a sequence of chunks | a call without a body is `None` |
| `LauncherAssumption` | no pid is "no file" or "an empty file" | – |
| `WiresAssumption` | a stream has an event, and its events are of its translator's kinds | an empty stream calls no translator |
| `OrderAssumption`, for `RoleComesThenDone` only | `message_start` comes first if it comes, nothing that is shown comes after the end | the providers' protocol, as the tests of the translators use it |
| `BreakerAssumption`, `StoreAssumption`, `ContentsAssumption`, `AdminBounds`, … | bounds are natural numbers, markers are not names | – |

Only model-checked: the liveness properties `Completes`, `LastEditServed`,
`FreshEventIsEnough` and `EveryCallReturns`, which rest on fairness and `ENABLED`,
out of the prover's reach; and the refutation in `framing`.

## 6. Not modelled

* Header rewriting, URL building, model aliases, and the fields of log lines and
  metrics other than the gauge.
* The request and response translators and the cost calculator: stateless
  conversions of JSON and floating-point prices. `BodyPipeline` keeps that and when
  a body is translated.
* The widths of weights and counters; prices, tokens and the columns of a row.
* Expiry of cache entries: no entry is ever looked up. `pingora_limits::Rate`,
  Pingora, SQLite and the kernel are modelled from how they are used.
* `check_budget` and `validate_key` only read the store. No gateway code calls the
  budget operations yet; they are modelled as `maxllm-admin` offers them.
* Parsing of admin paths and bodies, and authentication of the admin API.
* `request_id`, `cors` and the `webhook` plugin, which add headers or send notices
  and let every request through.
* A watcher that could not be created, `--no-reload`, and a server that daemonizes
  after the watcher's thread was spawned.
* Two external services of one engine are taken to decide alike on one text.
* The commands that read one file or make one HTTP call: `init`, `keys`, `health`,
  `config`, `test`.

## 7. How it composes, and what could come next

`MCGateway` composes `Routing`, `Gateway` and their environment. The watcher's swap
is the action `Reload` of `Gateway`, `BodyPipeline` and `Plugins`, and
`ConfigWatcher` says which contents it may swap in. `BodyPipeline` composes
`Guardrails` and `Compaction` with the filters; its provider lookups are those of
`Gateway`'s hooks, seen from one request. Its `Retry` is its own: in `Gateway` a
connection that breaks ends the request (`ProxyError`), and that Pingora may first
run `upstream_peer` and what follows again is left out. `AdminKeys` stands on
`AdminStore`, which `StoreBackends` implements. `Breaker` is one cell of `Gateway`'s
`failures` and `cooling`.

Left: a refinement of `Gateway`'s cell by `Breaker` for calls that do not overlap,
evenness of round robin for one route, and the cost lookup against a reference
definition.
