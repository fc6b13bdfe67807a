----------------------------- MODULE PluginKinds -----------------------------
(* The categories of plugins (maxllm-plugin/src/factory.rs and builtin/): how *)
(* each is built from its table of settings, which may be refused, and what   *)
(* its on_request decides.  A setting that is absent is None.  A text is the  *)
(* set of the patterns that occur in it; a pattern is built in, custom, or    *)
(* Broken, a regular expression or an address that does not parse.            *)
EXTENDS Naturals, FiniteSets

CONSTANTS
  None,
  Broken,   \* what does not parse
  BuiltIn   \* the names builtin_pattern and builtin_rule know

Given(setting, default) == IF setting = None THEN default ELSE setting

\* The statuses a request may be refused with are none of None.
ASSUME StatusAssumption == None \notin {200, 400, 401, 403, 413, 429}

\* PluginError: the configuration is refused.
Invalid == [kind |-> "invalid"]

----------------------------------------------------------------------------
(* from_config *)

KeyAuthFromConfig(c) ==
  IF Given(c.keys, {}) = {} THEN Invalid
  ELSE [kind |-> "key_auth", keys |-> c.keys, hide |-> Given(c.hide_credentials, FALSE)]

\* What is neither a network nor an address is skipped.
IpRestrictionFromConfig(c) ==
  LET type == Given(c.type, "deny")
      nets == Given(c.ip_list, {}) \ {Broken}
  IN IF type \notin {"allow", "deny"} \/ nets = {} THEN Invalid
     ELSE [kind |-> "ip_restriction", type |-> type, nets |-> nets]

RateLimitFromConfig(c) ==
  IF c.requests_per_minute = None THEN Invalid
  ELSE [kind |-> "rate_limit", max |-> c.requests_per_minute, by |-> Given(c.key, "client_ip")]

MaxSizeFromConfig(c) == [kind |-> "max_size", max |-> Given(c.max_body_bytes, 3)]

KeywordBlockFromConfig(c) ==
  IF Given(c.keywords, {}) = {} THEN Invalid ELSE [kind |-> "keyword_block", finds |-> c.keywords]

\* The patterns of a scanner: built-in names that are not known are skipped,
\* a custom one must parse, and there must be one in the end.
Patterns(named, custom) == (Given(named, BuiltIn) \cap BuiltIn) \cup Given(custom, {})

Scanner(kind, action, actions, finds) ==
  IF Given(action, "block") \notin actions \/ Broken \in finds \/ finds = {} THEN Invalid
  ELSE [kind |-> kind, action |-> Given(action, "block"), finds |-> finds]

Modes == {"pre_call", "post_call", "both"}

PiiFilterFromConfig(c) ==
  IF Given(c.mode, "pre_call") \notin Modes THEN Invalid
  ELSE Scanner("pii_filter", c.action, {"block", "redact", "log_only"},
               Patterns(c.patterns, c.custom))

PromptGuardFromConfig(c) ==
  Scanner("prompt_guard", c.action, {"block", "log_only"}, Patterns(c.rules, c.custom))

SecretScanFromConfig(c) ==
  Scanner("secret_scan", c.action, {"block", "redact", "log_only"},
          Patterns(c.patterns, c.custom))

\* No rule is built in.
RegexGuardFromConfig(c) ==
  IF Given(c.mode, "pre_call") \notin Modes THEN Invalid
  ELSE Scanner("regex_guard", c.action, {"block", "redact", "log_only"}, Given(c.rules, {}))

CacheFromConfig(c) == [kind |-> "cache", max |-> Given(c.max_entries, 2)]

\* cors, request_id and webhook accept every setting.
create_plugin(c) ==
  CASE c.category = "key_auth"       -> KeyAuthFromConfig(c)
    [] c.category = "ip_restriction" -> IpRestrictionFromConfig(c)
    [] c.category = "rate_limit"     -> RateLimitFromConfig(c)
    [] c.category = "max_size"       -> MaxSizeFromConfig(c)
    [] c.category = "keyword_block"  -> KeywordBlockFromConfig(c)
    [] c.category = "pii_filter"     -> PiiFilterFromConfig(c)
    [] c.category = "prompt_guard"   -> PromptGuardFromConfig(c)
    [] c.category = "secret_scan"    -> SecretScanFromConfig(c)
    [] c.category = "regex_guard"    -> RegexGuardFromConfig(c)
    [] c.category = "cache"          -> CacheFromConfig(c)
    [] c.category \in {"cors", "request_id", "webhook", "auto_compaction"} ->
         [kind |-> c.category]
    [] OTHER                         -> Invalid

----------------------------------------------------------------------------
(* on_request: the status a request is refused with, None to continue. *)

KeyAuth(p, ctx) == IF ctx.header # None /\ ctx.header \in p.keys THEN None ELSE 401

IpRestriction(p, ctx) ==
  IF ctx.client_ip # None /\ (ctx.client_ip \in p.nets <=> p.type = "deny") THEN 403 ELSE None

\* By the announced length: a body of unknown length passes.
MaxSize(p, client) ==
  IF client.length # None /\ client.length > p.max THEN 413 ELSE None

\* In the path and the query, for the body is not there yet.
KeywordBlock(p, client) == IF client.query \cap p.finds # {} THEN 400 ELSE None

scan_text(p, text) == text \cap p.finds

Scan(p, client) ==
  IF scan_text(p, client.query) # {} /\ p.action = "block" THEN 400 ELSE None

\* counted is what Rate::observe returned, 0 without a key.
RateLimit(p, counted) == IF counted > p.max THEN 429 ELSE None

\* The key a limiter counts: None when the request has not got it.
extract_key(p, ctx) ==
  CASE p.by = "client_ip" -> ctx.client_ip
    [] p.by = "client_id" -> ctx.client_id
    [] OTHER              -> ctx.header

\* OPTIONS, which cors would answer, is refused before the plugins run.
Refusal(p, client, ctx, counted) ==
  CASE p.kind = "key_auth"       -> KeyAuth(p, ctx)
    [] p.kind = "ip_restriction" -> IpRestriction(p, ctx)
    [] p.kind = "max_size"       -> MaxSize(p, client)
    [] p.kind = "keyword_block"  -> KeywordBlock(p, client)
    [] p.kind \in {"pii_filter", "prompt_guard", "secret_scan", "regex_guard"} -> Scan(p, client)
    [] p.kind = "rate_limit"     -> RateLimit(p, counted)
    [] OTHER                     -> None
=============================================================================
