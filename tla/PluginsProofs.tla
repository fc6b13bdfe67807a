--------------------------- MODULE PluginsProofs ---------------------------
(***************************************************************************)
(* The chains and the limiters keep their word for any configurations,     *)
(* clients and reloads, and any number of requests at once: a request is   *)
(* admitted by the chains it began with, plugin by plugin (Progress), a    *)
(* limiter counts what it lets through (Limiters), and a cache keeps whole *)
(* answers, each under one place of its order (Carried, Books).            *)
(***************************************************************************)
EXTENDS PluginsProps, FoldLemmas

-----------------------------------------------------------------------------
(* A request and the plugins it has met. *)

LEMMA LenNat == ASSUME NEW s PROVE Len(s) \in Nat
OBVIOUS

HasFields(rec, fields) == rec = [f \in fields |-> rec[f]]

CtxFields == {"client_ip", "client_id", "header", "enabled", "headers", "body", "cache_key"}

\* The plugins before place n of generation g have let the client through.
Admitted(g, n, client) ==
  \A i \in 1 .. Len(chains[g]) : i < n => Admits(Plugin(<<g, chains[g][i]>>), client)

\* What a request holds between two of its plugins.
Meeting(r) ==
  /\ HasFields(req[r], {"phase", "client", "gen", "at", "ctx"})
  /\ HasFields(req[r].ctx, CtxFields)
  /\ req[r].at \in Nat
  /\ req[r].ctx.client_ip = req[r].client.ip
  /\ req[r].ctx.header \in {None, req[r].client.key}
  /\ Admitted(req[r].gen, req[r].at, req[r].client)

\* Once it has left them, they have all let it through.
Through(r) ==
  /\ HasFields(req[r], {"phase", "client", "gen", "at", "ctx"} \cup
                       (IF req[r].phase = "body" THEN {"answer", "sent"} ELSE {}))
  /\ LET g == req[r].gen
     IN \A i \in 1 .. Len(chains[g]) : Admits(Plugin(<<g, chains[g][i]>>), req[r].client)

Progress ==
  /\ DOMAIN req = Requests /\ req = [r \in Requests |-> req[r]]
  /\ \A r \in Requests :
       /\ req[r].phase = "request" => Meeting(r)
       /\ req[r].phase \in {"upstream", "body"} => Through(r)

\* A plugin that lets a request through leaves its address, and its header or none.
LEMMA AfterKeeps ==
  ASSUME NEW p, NEW c, NEW ctx, HasFields(ctx, CtxFields)
  PROVE  /\ HasFields(After(p, c, ctx), CtxFields)
         /\ After(p, c, ctx).client_ip = ctx.client_ip
         /\ After(p, c, ctx).header \in {None, ctx.header}
<1> USE DEF HasFields, CtxFields
<1>1. CASE p.kind = "key_auth"
  <2>1. After(p, c, ctx) = [ctx EXCEPT !.client_id = ctx.header,
                                       !.header = IF p.hide THEN None ELSE @]
    BY <1>1, Zenon DEF After
  <2> QED BY <2>1
<1>2. CASE p.kind = "cache"
  <2>1. After(p, c, ctx) = [ctx EXCEPT !.enabled = @ \/ ~c.nocache]
    BY <1>2 DEF After
  <2> QED BY <2>1
<1>3. CASE p.kind \notin {"key_auth", "cache"}
  <2>1. After(p, c, ctx) = ctx
    BY <1>3 DEF After
  <2> QED BY <2>1
<1> QED BY <1>1, <1>2, <1>3

\* A request a plugin does not refuse is one that it admits: hiding the header
\* from the next plugin can only refuse more.
LEMMA NotRefused ==
  ASSUME NEW p, NEW c, NEW ctx, NEW counted,
         Refusal(p, c, ctx, counted) = None,
         ctx.client_ip = c.ip, ctx.header \in {None, c.key}
  PROVE  Admits(p, c)
<1> USE StatusAssumption DEF Refusal, Admits, Scanners
<1>1. CASE p.kind = "key_auth"       BY <1>1 DEF KeyAuth
<1>2. CASE p.kind = "ip_restriction" BY <1>2 DEF IpRestriction
<1>3. CASE p.kind = "max_size"       BY <1>3 DEF MaxSize
<1>4. CASE p.kind = "keyword_block"  BY <1>4 DEF KeywordBlock
<1>5. CASE p.kind \in Scanners       BY <1>5 DEF Scan, scan_text
<1> QED BY <1>1, <1>2, <1>3, <1>4, <1>5

\* Whatever does not touch the chains and the other requests.
LEMMA OthersKeep ==
  ASSUME Progress, NEW r \in Requests, built' = built, chains' = chains,
         NEW x, req' = [req EXCEPT ![r] = x],
         x.phase = "request" => Meeting(r)',
         x.phase \in {"upstream", "body"} => Through(r)'
  PROVE  Progress'
<1>1. ASSUME NEW q \in Requests, q # r
      PROVE  /\ req'[q].phase = "request" => Meeting(q)'
             /\ req'[q].phase \in {"upstream", "body"} => Through(q)'
  <2>1. req'[q] = req[q]
    BY <1>1 DEF Progress
  <2> QED BY <2>1, <1>1 DEF Progress, Meeting, Through, Admitted, Plugin
<1>2. req'[r] = x
  BY DEF Progress
<1> QED BY <1>1, <1>2 DEF Progress

LEMMA ProgressInit == Init => Progress
  BY DEF Init, Progress, Idle

LEMMA ProgressStep ==
  ASSUME Progress, [Next]_vars
  PROVE  Progress'
<1>1. CASE UNCHANGED vars
  BY <1>1, ZenonT(40) DEF vars, Progress, Meeting, Through, Admitted, Plugin
<1>2. ASSUME NEW r \in Requests, NEW client \in Clients, Begin(r, client)
      PROVE  Progress'
  <2> DEFINE x == [phase |-> "request", client |-> client, gen |-> gen,
                   at |-> 1, ctx |-> NewCtx(client)]
  <2>1. req' = [req EXCEPT ![r] = x] /\ built' = built /\ chains' = chains /\ req'[r] = x
    BY <1>2 DEF Begin, Progress
  <2>2. Meeting(r)'
    BY <2>1 DEF Meeting, HasFields, NewCtx, CtxFields, Admitted
  <2> QED BY <2>1, <2>2, OthersKeep
<1>3. ASSUME NEW r \in Requests, OnRequest(r)
      PROVE  Progress'
  <2> DEFINE g   == req[r].gen
             at  == <<g, chains[g][req[r].at]>>
             p   == Plugin(at)
             ctx == req[r].ctx
  <2>1. PICK refuse, counted :
          /\ req[r].phase = "request" /\ built' = built /\ chains' = chains
          /\ refuse = 200 \/ refuse = Refusal(p, req[r].client, ctx, counted)
          /\ refuse # None =>
               req' = [req EXCEPT ![r] = [phase |-> "refused", status |-> refuse]]
          /\ refuse = None =>
               req' = [req EXCEPT ![r] =
                  [req[r] EXCEPT !.at = req[r].at + 1, !.ctx = After(p, req[r].client, ctx)]]
    <3> DEFINE key     == IF p.kind = "rate_limit" THEN extract_key(p, ctx) ELSE None
               bag     == IF key = None THEN rate[at] ELSE Observed(key, rate[at])
               many    == IF key = None THEN 0 ELSE Count(bag, key)
               refuses == IF Hit(p, at, ctx) THEN 200 ELSE Refusal(p, req[r].client, ctx, many)
    <3>1. /\ req[r].phase = "request" /\ built' = built /\ chains' = chains
          /\ req' = [req EXCEPT ![r] =
               IF refuses # None THEN [phase |-> "refused", status |-> refuses]
               ELSE [req[r] EXCEPT !.at = req[r].at + 1, !.ctx = After(p, req[r].client, ctx)]]
      BY <1>3 DEF OnRequest, RunPlugin
    <3>2. refuses = 200 \/ refuses = Refusal(p, req[r].client, ctx, many)
      OBVIOUS
    <3> HIDE DEF refuses, many
    <3> QED BY <3>1, <3>2
  <2>2. CASE refuse # None
    BY <2>1, <2>2, OthersKeep
  <2>3. CASE refuse = None
    <3> DEFINE x == [req[r] EXCEPT !.at = req[r].at + 1, !.ctx = After(p, req[r].client, ctx)]
    <3>1. Meeting(r)
      BY <2>1 DEF Progress
    <3>2. req' = [req EXCEPT ![r] = x] /\ req'[r] = x
      <4>1. req' = [req EXCEPT ![r] = x]
        BY <2>1, <2>3, Zenon
      <4> HIDE DEF x
      <4> QED BY <4>1 DEF Progress
    <3>3. /\ x.client = req[r].client /\ x.gen = g /\ x.at = req[r].at + 1
          /\ x.phase = "request" /\ x.ctx = After(p, req[r].client, ctx)
          /\ HasFields(x, {"phase", "client", "gen", "at", "ctx"})
      BY <3>1, <2>1 DEF Meeting, HasFields
    <3>4. /\ HasFields(x.ctx, CtxFields) /\ x.ctx.client_ip = ctx.client_ip
          /\ x.ctx.header \in {None, ctx.header}
      BY <3>1, <3>3, AfterKeeps DEF Meeting
    <3>5. Admits(p, req[r].client)
      BY <2>1, <2>3, <3>1, NotRefused, StatusAssumption, SMTT(30) DEF Meeting
    <3>6. ASSUME NEW i \in 1 .. Len(chains[g]), i < x.at
          PROVE  Admits(Plugin(<<g, chains[g][i]>>), req[r].client)
      <4>1. CASE i = req[r].at
        BY <4>1, <3>5
      <4>2. CASE i # req[r].at
        BY <4>2, <3>1, <3>3, <3>6 DEF Meeting, Admitted
      <4> QED BY <4>1, <4>2
    <3>7. Meeting(r)'
      <4> HIDE DEF x
      <4>1. HasFields(req'[r], {"phase", "client", "gen", "at", "ctx"})
        BY <3>2, <3>3
      <4>2. HasFields(req'[r].ctx, CtxFields)
        BY <3>2, <3>4
      <4>3. req'[r].at \in Nat
        BY <3>1, <3>2, <3>3 DEF Meeting
      <4>4. /\ req'[r].ctx.client_ip = req'[r].client.ip
            /\ req'[r].ctx.header \in {None, req'[r].client.key}
        BY <3>1, <3>2, <3>3, <3>4 DEF Meeting
      <4>5. Admitted(req[r].gen, req[r].at, req[r].client)'
        <5>1. req'[r].gen = g /\ req'[r].at = x.at /\ req'[r].client = req[r].client
          BY <3>2, <3>3
        <5>2. \A i \in 1 .. Len(chains[g]) :
                i < x.at => Admits(built[g][chains[g][i]], req[r].client)
          BY <3>6 DEF Plugin
        <5> QED BY <2>1, <5>1, <5>2 DEF Admitted, Plugin
      <4> QED BY <4>1, <4>2, <4>3, <4>4, <4>5, <3>2, <3>3 DEF Meeting, Admitted
    <3> QED BY <2>1, <3>2, <3>3, <3>7, OthersKeep
  <2> QED BY <2>2, <2>3
<1>4. ASSUME NEW r \in Requests, Forward(r)
      PROVE  Progress'
  <2> DEFINE x == [req[r] EXCEPT !.phase = "upstream"]
  <2>1. /\ req' = [req EXCEPT ![r] = x] /\ req'[r] = x /\ built' = built /\ chains' = chains
        /\ Meeting(r) /\ req[r].at > Len(chains[req[r].gen])
    BY <1>4 DEF Forward, Progress
  <2>2. /\ x.client = req[r].client /\ x.gen = req[r].gen /\ x.phase = "upstream"
        /\ HasFields(x, {"phase", "client", "gen", "at", "ctx"})
    BY <2>1 DEF Meeting, HasFields
  <2>3. Through(r)'
    <3> DEFINE g == req[r].gen
    <3>1. req'[r].gen = g /\ req'[r].client = req[r].client /\ req'[r].phase = "upstream"
      BY <2>1, <2>2
    <3>2. ASSUME NEW i \in 1 .. Len(chains[g])
          PROVE  Admits(Plugin(<<g, chains[g][i]>>), req[r].client)
      <4>1. i < req[r].at
        BY <2>1, <3>2, LenNat, SMTT(30) DEF Meeting
      <4> QED BY <2>1, <4>1 DEF Meeting, Admitted
    <3> HIDE DEF x
    <3> QED BY <2>1, <2>2, <3>1, <3>2 DEF Through, Plugin
  <2> QED BY <2>1, <2>2, <2>3, OthersKeep
<1>5. ASSUME NEW r \in Requests, NEW answer \in Answers, OnResponse(r, answer)
      PROVE  Progress'
  <2>1. PICK ctx :
          LET x == [phase |-> "body", client |-> req[r].client, gen |-> req[r].gen,
                    at |-> req[r].at, answer |-> answer, sent |-> 0, ctx |-> ctx]
          IN req' = [req EXCEPT ![r] = x] /\ req'[r] = x
    BY <1>5, ZenonT(40) DEF OnResponse, Progress
  <2>2. built' = built /\ chains' = chains /\ Through(r)
    BY <1>5 DEF OnResponse, Progress
  <2>3. Through(r)'
    BY <2>1, <2>2 DEF Through, Admitted, Plugin, HasFields
  <2> QED BY <2>1, <2>2, <2>3, OthersKeep
<1>6. ASSUME NEW r \in Requests, NEW chunk, NEW end, OnResponseBody(r, chunk, end)
      PROVE  Progress'
  <2>1. PICK ctx :
          /\ end => req' = [req EXCEPT ![r] = [phase |-> "done"]]
          /\ ~ end => req' = [req EXCEPT ![r] = 
                  [req[r] EXCEPT !.sent = req[r].sent + 1, !.ctx = ctx]]
    BY <1>6 DEF OnResponseBody
  <2>2. built' = built /\ chains' = chains /\ Through(r) /\ req[r].phase = "body"
    BY <1>6 DEF OnResponseBody, Progress
  <2>3. CASE end
    BY <2>1, <2>2, <2>3, OthersKeep
  <2>4. CASE ~ end
    <3> DEFINE x == [req[r] EXCEPT !.sent = req[r].sent + 1, !.ctx = ctx]
    <3>1. req' = [req EXCEPT ![r] = x] /\ req'[r] = x
      <4>1. req' = [req EXCEPT ![r] = x]
        BY <2>1, <2>4, Zenon
      <4> HIDE DEF x
      <4> QED BY <4>1 DEF Progress
    <3>2. /\ x.client = req[r].client /\ x.gen = req[r].gen /\ x.phase = "body"
          /\ HasFields(x, {"phase", "client", "gen", "at", "ctx", "answer", "sent"})
      BY <2>2 DEF Through, HasFields
    <3>3. Through(r)'
      BY <2>2, <3>1, <3>2 DEF Through, Admitted, Plugin, HasFields
    <3> QED BY <2>2, <3>1, <3>2, <3>3, OthersKeep
  <2> QED BY <2>3, <2>4
<1>7. ASSUME NEW r \in Requests, Logging(r)
      PROVE  Progress'
  BY <1>7, OthersKeep DEF Logging, Idle
<1>8. ASSUME NEW at \in Instances, WindowEnds(at)
      PROVE  Progress'
  BY <1>8, ZenonT(40) DEF WindowEnds, Progress, Meeting, Through, Admitted, Plugin
<1>9. ASSUME Reload
      PROVE  Progress'
  BY <1>9, ZenonT(40) DEF Reload, Progress, Meeting, Through, Admitted, Plugin
<1> QED BY <1>1, <1>2, <1>3, <1>4, <1>5, <1>6, <1>7, <1>8, <1>9 DEF Next

\* A request is sent to the upstream only when every plugin of the chains it
\* began with has let it through, for any chains, requests and reloads.
THEOREM AdmittedByAllAlways == Spec => []AdmittedByAll
<1>1. Progress => AdmittedByAll
  <2> SUFFICES ASSUME Progress, NEW r \in Requests, req[r].phase \in {"upstream", "body"},
                      NEW i \in 1 .. Len(chains[req[r].gen])
               PROVE  Admits(Plugin(<<req[r].gen, chains[req[r].gen][i]>>), req[r].client)
    BY DEF AdmittedByAll
  <2> QED BY DEF Progress, Through, Admitted
<1> QED BY <1>1, ProgressInit, ProgressStep, PTL DEF Spec

-----------------------------------------------------------------------------
(* A limiter and what it counts. *)

IsBag(b) == \A k \in DOMAIN b : b[k] \in Nat

\* A limiter's maximum is an integer; its counts and what it has let through
\* are the smaller of the count and the maximum, key by key.
Limiter(at) ==
  /\ IsBag(rate[at]) /\ IsBag(passed[at])
  /\ Plugin(at).kind = "rate_limit" =>
       /\ Plugin(at).max \in Int
       /\ DOMAIN passed[at] \subseteq DOMAIN rate[at]
       /\ \A k \in DOMAIN rate[at] :
            Count(passed[at], k) = IF rate[at][k] <= Plugin(at).max THEN rate[at][k]
                                   ELSE Allowed(Plugin(at))

Limiters ==
  /\ rate = [at \in Instances |-> rate[at]] /\ passed = [at \in Instances |-> passed[at]]
  /\ \A at \in Instances : Limiter(at)

\* Only a rate_limit table makes a limiter.
LEMMA LimiterMade ==
  ASSUME NEW c, create_plugin(c).kind = "rate_limit"
  PROVE  /\ c.category = "rate_limit" /\ c.requests_per_minute # None
         /\ create_plugin(c).max = c.requests_per_minute
<1> USE DEF create_plugin, Invalid
<1>1. CASE c.category = "key_auth" BY <1>1 DEF KeyAuthFromConfig
<1>2. CASE c.category = "ip_restriction" BY <1>2 DEF IpRestrictionFromConfig
<1>3. CASE c.category = "rate_limit" BY <1>3 DEF RateLimitFromConfig
<1>4. CASE c.category = "max_size" BY <1>4 DEF MaxSizeFromConfig
<1>5. CASE c.category = "keyword_block" BY <1>5 DEF KeywordBlockFromConfig
<1>6. CASE c.category = "pii_filter" BY <1>6 DEF PiiFilterFromConfig, Scanner
<1>7. CASE c.category = "prompt_guard" BY <1>7 DEF PromptGuardFromConfig, Scanner
<1>8. CASE c.category = "secret_scan" BY <1>8 DEF SecretScanFromConfig, Scanner
<1>9. CASE c.category = "regex_guard" BY <1>9 DEF RegexGuardFromConfig, Scanner
<1>10. CASE c.category = "cache" BY <1>10 DEF CacheFromConfig
<1> QED BY <1>1, <1>2, <1>3, <1>4, <1>5, <1>6, <1>7, <1>8, <1>9, <1>10

\* Counting one more use of a key.
LEMMA OneMoreCounts ==
  ASSUME NEW b, IsBag(b), NEW key
  PROVE  /\ IsBag(OneMore(key, b))
         /\ DOMAIN OneMore(key, b) = DOMAIN b \cup {key}
         /\ Count(b, key) \in Nat
         /\ OneMore(key, b)[key] = Count(b, key) + 1
         /\ \A k \in DOMAIN b : k # key => OneMore(key, b)[k] = b[k]
         /\ \A k : k # key => Count(OneMore(key, b), k) = Count(b, k)
         /\ Count(OneMore(key, b), key) = Count(b, key) + 1
BY DEF IsBag, OneMore, Count

\* Nothing is counted before the first request.
LEMMA LimitersInit == Init => Limiters
<1> SUFFICES ASSUME Init PROVE Limiters
  OBVIOUS
<1>1. rate = [at \in Instances |-> <<>>] /\ passed = [at \in Instances |-> <<>>]
  BY DEF Init
<1>2. ASSUME NEW at \in Instances PROVE Limiter(at)
  <2>1. rate[at] = <<>> /\ passed[at] = <<>> /\ DOMAIN <<>> = {}
    BY <1>1
  <2>2. ASSUME Plugin(at).kind = "rate_limit" PROVE Plugin(at).max \in Int
    <3>1. PICK config \in Configs :
            built = [g \in DOMAIN config |-> [name \in DOMAIN config[g].plugins |->
                                              create_plugin(config[g].plugins[name])]]
      BY DEF Init
    <3>2. PICK g, name : at = <<g, name>> /\ g \in DOMAIN built /\ name \in DOMAIN built[g]
      BY DEF Instances, Generations
    <3>3. /\ g \in DOMAIN config /\ name \in DOMAIN config[g].plugins
          /\ Plugin(at) = create_plugin(config[g].plugins[name])
      BY <3>1, <3>2 DEF Plugin
    <3> QED BY <3>3, <2>2, LimiterMade, ConfigsAssumption
  <2> QED BY <2>1, <2>2 DEF Limiter, IsBag
<1> QED BY <1>1, <1>2 DEF Limiters

\* Plugins are never rebuilt within their generation.
LEMMA PluginsStay ==
  ASSUME built' = built
  PROVE  Instances' = Instances /\ \A a : Plugin(a)' = Plugin(a)
<1>1. \A a : Plugin(a)' = Plugin(a)
  BY DEF Plugin
<1>2. Generations' = Generations
  BY DEF Generations
<1> QED BY <1>1, <1>2 DEF Instances

\* What keeps every limiter, or changes one of them.
LEMMA OneLimiter ==
  ASSUME Limiters, built' = built, NEW at \in Instances, NEW b, NEW let,
         rate' = [rate EXCEPT ![at] = b], passed' = [passed EXCEPT ![at] = let],
         IsBag(b), IsBag(let),
         Plugin(at).kind = "rate_limit" =>
           /\ DOMAIN let \subseteq DOMAIN b
           /\ \A k \in DOMAIN b :
                Count(let, k) = IF b[k] <= Plugin(at).max THEN b[k] ELSE Allowed(Plugin(at))
  PROVE  Limiters'
<1>1. Instances' = Instances /\ \A a : Plugin(a)' = Plugin(a)
  BY PluginsStay
<1>2. rate = [a \in Instances |-> rate[a]] /\ passed = [a \in Instances |-> passed[a]]
  BY DEF Limiters
<1>3. rate'[at] = b /\ passed'[at] = let
  BY <1>2
<1>4. \A a \in Instances : a # at => rate'[a] = rate[a] /\ passed'[a] = passed[a]
  BY <1>2
<1>5. rate' = [a \in Instances |-> rate'[a]] /\ passed' = [a \in Instances |-> passed'[a]]
  BY <1>2
<1>6. Limiter(at)
  BY DEF Limiters
<1>7. Limiter(at)'
  BY <1>1, <1>3, <1>6 DEF Limiter, Count, IsBag, Allowed
<1>8. ASSUME NEW a \in Instances, a # at PROVE Limiter(a)'
  <2>1. Limiter(a)
    BY <1>8 DEF Limiters
  <2> QED BY <1>1, <1>4, <1>8, <2>1 DEF Limiter, Count, IsBag, Allowed
<1>9. \A a \in Instances : Limiter(a)'
  BY <1>7, <1>8
<1> QED BY <1>1, <1>5, <1>9 DEF Limiters

\* A limiter that judges a request.
LEMMA JudgedKeeps ==
  ASSUME Limiters, built' = built, NEW at \in Instances, Plugin(at).kind = "rate_limit", NEW key,
         rate' = [rate EXCEPT ![at] = Observed(key, rate[at])],
         passed' = [passed EXCEPT ![at] =
           IF Count(Observed(key, rate[at]), key) > Plugin(at).max
           THEN passed[at] ELSE OneMore(key, passed[at])]
  PROVE  Limiters'
<1> DEFINE bag == Observed(key, rate[at])
           let == IF Count(bag, key) > Plugin(at).max THEN passed[at] ELSE OneMore(key, passed[at])
<1>1. Limiter(at)
  BY DEF Limiters
<1>2. /\ bag = Observed(key, rate[at])
      /\ Count(bag, key) > Plugin(at).max => let = passed[at]
      /\ ~ (Count(bag, key) > Plugin(at).max) => let = OneMore(key, passed[at])
  OBVIOUS
<1>3. rate' = [rate EXCEPT ![at] = bag] /\ passed' = [passed EXCEPT ![at] = let]
  OBVIOUS
<1> HIDE DEF bag, let
<1>4. /\ IsBag(bag) /\ IsBag(let) /\ DOMAIN let \subseteq DOMAIN bag
      /\ \A k \in DOMAIN bag :
           Count(let, k) = IF bag[k] <= Plugin(at).max THEN bag[k] ELSE Allowed(Plugin(at))
  <2> DEFINE n == Count(rate[at], key)
             m == Plugin(at).max
  <2>1. /\ IsBag(rate[at]) /\ IsBag(passed[at]) /\ m \in Int
        /\ DOMAIN passed[at] \subseteq DOMAIN rate[at]
    BY <1>1 DEF Limiter
  <2>2. n \in Nat /\ Count(passed[at], key) \in Nat
    BY <2>1, OneMoreCounts
  <2>3. Count(passed[at], key) = IF n <= m THEN n ELSE Allowed(Plugin(at))
    <3>1. CASE key \in DOMAIN rate[at]
      BY <3>1, <1>1 DEF Limiter, Count
    <3>2. CASE key \notin DOMAIN rate[at]
      BY <3>2, <2>1 DEF Count, Allowed
    <3> QED BY <3>1, <3>2
  <2>4. /\ IsBag(bag) /\ DOMAIN bag = DOMAIN rate[at] \cup {key}
        /\ bag[key] = n + 1 /\ Count(bag, key) = n + 1
        /\ \A k \in DOMAIN rate[at] : k # key => bag[k] = rate[at][k]
    <3>1. bag = OneMore(key, rate[at])
      BY <1>2 DEF Observed
    <3>2. /\ IsBag(OneMore(key, rate[at])) /\ DOMAIN OneMore(key, rate[at]) = DOMAIN rate[at] \cup {key}
          /\ OneMore(key, rate[at])[key] = n + 1 /\ Count(OneMore(key, rate[at]), key) = n + 1
          /\ \A k \in DOMAIN rate[at] : k # key => OneMore(key, rate[at])[k] = rate[at][k]
      BY <2>1, OneMoreCounts
    <3> QED BY <3>1, <3>2
  <2>5. \A k \in DOMAIN bag : k # key =>
          Count(passed[at], k) = IF bag[k] <= m THEN bag[k] ELSE Allowed(Plugin(at))
    BY <1>1, <2>4 DEF Limiter
  <2>6. CASE n + 1 > m
    <3>1. let = passed[at]
      BY <1>2, <2>4, <2>6
    <3>2. Count(let, key) = IF bag[key] <= m THEN bag[key] ELSE Allowed(Plugin(at))
      BY <3>1, <2>1, <2>2, <2>3, <2>4, <2>6 DEF Allowed
    <3> QED BY <3>1, <3>2, <2>1, <2>4, <2>5
  <2>7. CASE ~ (n + 1 > m)
    <3>1. let = OneMore(key, passed[at])
      BY <1>2, <2>4, <2>7
    <3>2. /\ IsBag(let) /\ DOMAIN let = DOMAIN passed[at] \cup {key}
          /\ Count(let, key) = Count(passed[at], key) + 1
          /\ \A k : k # key => Count(let, k) = Count(passed[at], k)
      <4>1. /\ IsBag(OneMore(key, passed[at]))
            /\ DOMAIN OneMore(key, passed[at]) = DOMAIN passed[at] \cup {key}
            /\ Count(OneMore(key, passed[at]), key) = Count(passed[at], key) + 1
            /\ \A k : k # key => Count(OneMore(key, passed[at]), k) = Count(passed[at], k)
        BY <2>1, OneMoreCounts
      <4> QED BY <3>1, <4>1
    <3>3. Count(let, key) = n + 1 /\ n + 1 <= m
      BY <3>2, <2>1, <2>2, <2>3, <2>7
    <3> QED BY <3>2, <3>3, <2>1, <2>4, <2>5
  <2> QED BY <2>6, <2>7
<1> QED BY <1>3, <1>4, OneLimiter

LEMMA LimitersStep ==
  ASSUME Limiters, [Next]_vars
  PROVE  Limiters'
<1>1. ASSUME built' = built, rate' = rate, passed' = passed
      PROVE  Limiters'
  <2>1. Instances' = Instances /\ \A a : Plugin(a)' = Plugin(a)
    BY <1>1, PluginsStay
  <2>2. ASSUME NEW a \in Instances PROVE Limiter(a)'
    <3>1. Limiter(a)
      BY DEF Limiters
    <3> QED BY <1>1, <2>1, <3>1 DEF Limiter, Count, IsBag, Allowed
  <2> QED BY <1>1, <2>1, <2>2 DEF Limiters
<1>2. ASSUME NEW r \in Requests, OnRequest(r)
      PROVE  Limiters'
  <2> DEFINE g   == req[r].gen
             at  == <<g, chains[g][req[r].at]>>
             p   == Plugin(at)
             ctx == req[r].ctx
             key == IF p.kind = "rate_limit" THEN extract_key(p, ctx) ELSE None
             bag == IF key = None THEN rate[at] ELSE Observed(key, rate[at])
             n   == IF key = None THEN 0 ELSE Count(bag, key)
             refuse == IF Hit(p, at, ctx) THEN 200 ELSE Refusal(p, req[r].client, ctx, n)
  <2>1. /\ built' = built
        /\ rate' = [rate EXCEPT ![at] = bag]
        /\ passed' = [passed EXCEPT ![at] =
             IF key = None \/ refuse # None THEN passed[at] ELSE OneMore(key, passed[at])]
    BY <1>2 DEF OnRequest, RunPlugin
  <2>3. CASE key = None \/ at \notin Instances
    <3>1. rate' = rate /\ passed' = passed
      <4> HIDE DEF key, at, refuse
      <4> QED BY <2>1, <2>3 DEF Limiters
    <3> QED BY <2>1, <3>1, <1>1
  <2>4. CASE key # None /\ at \in Instances
    <3>1. p.kind = "rate_limit" /\ bag = Observed(key, rate[at]) /\ n = Count(bag, key)
      BY <2>4
    <3>2. refuse # None <=> Count(bag, key) > p.max
      <4>1. ~Hit(p, at, ctx)
        BY <3>1 DEF Hit
      <4>2. Refusal(p, req[r].client, ctx, n) = IF n > p.max THEN 429 ELSE None
        <5> HIDE DEF p, n, ctx
        <5> QED BY <3>1 DEF Refusal, RateLimit
      <4> HIDE DEF p, at, ctx, n, bag
      <4> QED BY <3>1, <4>1, <4>2, StatusAssumption
    <3>3. /\ rate' = [rate EXCEPT ![at] = Observed(key, rate[at])]
          /\ passed' = [passed EXCEPT ![at] =
               IF Count(Observed(key, rate[at]), key) > Plugin(at).max
               THEN passed[at] ELSE OneMore(key, passed[at])]
      BY <2>1, <2>4, <3>1, <3>2
    <3> HIDE DEF key, at
    <3>4. at \in Instances /\ Plugin(at).kind = "rate_limit"
      BY <2>4, <3>1
    <3> QED BY <2>1, <3>3, <3>4, JudgedKeeps
  <2> QED BY <2>3, <2>4
<1>3. ASSUME NEW at \in Instances, WindowEnds(at)
      PROVE  Limiters'
  <2>1. /\ built' = built
        /\ rate' = [rate EXCEPT ![at] = <<>>] /\ passed' = [passed EXCEPT ![at] = <<>>]
    BY <1>3 DEF WindowEnds
  <2>2. IsBag(<<>>) /\ DOMAIN <<>> = {}
    BY DEF IsBag
  <2> QED BY <2>1, <2>2, OneLimiter
<1>4. CASE UNCHANGED vars
  BY <1>1, <1>4 DEF vars
<1>5. ASSUME NEW r \in Requests,
             \/ \E client \in Clients : Begin(r, client)
             \/ Forward(r) \/ Logging(r)
             \/ \E answer \in Answers : OnResponse(r, answer)
             \/ \E chunk, end : OnResponseBody(r, chunk, end)
      PROVE  Limiters'
  BY <1>1, <1>5 DEF Begin, Forward, Logging, OnResponse, OnResponseBody
<1>6. CASE Reload
  BY <1>1, <1>6 DEF Reload
<1> QED BY <1>2, <1>3, <1>4, <1>5, <1>6 DEF Next

\* A limiter lets as many requests through as it says and no more, for any
\* limits, keys and number of requests at once.
THEOREM LimitHeldAlways == Spec => []LimitHeld
<1>1. Limiters => LimitHeld
  BY DEF Limiters, Limiter, LimitHeld
<1> QED BY <1>1, LimitersInit, LimitersStep, PTL DEF Spec

-----------------------------------------------------------------------------
(* Retaining elements of a sequence. *)

\* No element twice.
Distinct(s) == \A i, j \in 1 .. Len(s) : s[i] = s[j] => i = j

\* Appending one element that is new.
LEMMA AppendAdds ==
  ASSUME NEW T, NEW s \in Seq(T), NEW e \in T
  PROVE  ToSet(Append(s, e)) = ToSet(s) \cup {e}
<1>1. /\ DOMAIN Append(s, e) = DOMAIN s \cup {Len(s) + 1}
      /\ Append(s, e)[Len(s) + 1] = e
      /\ \A i \in DOMAIN s : Append(s, e)[i] = s[i]
  OBVIOUS
<1>2. ASSUME NEW x \in ToSet(Append(s, e)) PROVE x \in ToSet(s) \cup {e}
  BY <1>1, <1>2 DEF ToSet
<1>3. ASSUME NEW x \in ToSet(s) PROVE x \in ToSet(Append(s, e))
  BY <1>1, <1>3 DEF ToSet
<1>4. e \in ToSet(Append(s, e))
  BY <1>1 DEF ToSet
<1> QED BY <1>2, <1>3, <1>4

\* What is left of the first k elements of seq.
Left(s, seq, k, S, T) ==
  /\ s \in Seq(T) /\ Len(s) <= k
  /\ \A e : e \in ToSet(s) <=> e \in S /\ \E i \in 1 .. k : seq[i] = e
  /\ Distinct(seq) => Distinct(s)

\* retain goes through the sequence and keeps what is in S: no other element,
\* and none twice that was not there twice.
LEMMA RetainLeaves ==
  ASSUME NEW T, NEW seq \in Seq(T), NEW S
  PROVE  Left(retain(seq, S), seq, Len(seq), S, T)
<1> DEFINE n == Len(seq)
           D == Seq(T)
           none == <<>>
           F(kept, e) == IF e \in S THEN Append(kept, e) ELSE kept
           step == [p \in (1 .. n) \X D |-> F(p[2], seq[p[1]])]
           Iter(f) == f = [s \in SUBSET DOMAIN seq |->
                             IF s = {} THEN none
                             ELSE LET x == Max(s) IN F(f[s \ {x}], seq[x])]
           iter == CHOOSE f : Iter(f)
<1>1. retain(seq, S) = iter[DOMAIN seq]
  BY DEF retain, FoldLeft, MapThenFoldSet
<1>2. n \in Nat /\ DOMAIN seq = 1 .. n /\ \A i \in 1 .. n : seq[i] \in T
  OBVIOUS
<1>3. none \in D /\ none = << >>
  OBVIOUS
<1>4. ASSUME NEW kept \in D, NEW i \in 1 .. n PROVE F(kept, seq[i]) \in D
  BY <1>2
<1>f. ASSUME NEW kept, NEW e PROVE F(kept, e) = IF e \in S THEN Append(kept, e) ELSE kept
  OBVIOUS
<1> HIDE DEF F, none
<1>5. Stepping(step, n, D)
  BY <1>2, <1>4 DEF Stepping
<1>6. PICK f : FoldsMax(f, n, D, none, step)
  <2> HIDE DEF step, n, D
  <2> QED BY <1>2, <1>3, <1>5, FoldMaxExists
<1>7. ASSUME NEW s \in SUBSET (1 .. n), s # {}
      PROVE  step[<<Max(s), f[s \ {Max(s)}]>>] = F(f[s \ {Max(s)}], seq[Max(s)])
  <2>1. Max(s) \in 1 .. n
    BY <1>2, <1>7, MaxMin
  <2>2. f[s \ {Max(s)}] \in D
    BY <1>6 DEF FoldsMax
  <2> QED BY <2>1, <2>2
<1>8. Iter(f)
  <2> HIDE DEF step
  <2> QED BY <1>2, <1>6, <1>7 DEF FoldsMax
<1>9. Iter(iter)
  <2> HIDE DEF Iter
  <2> QED BY <1>8
<1> HIDE DEF iter
<1>10. iter[{}] = none
  <2>1. {} \in SUBSET DOMAIN seq
    OBVIOUS
  <2> QED BY <2>1, <1>9
<1>11. ASSUME NEW j \in 1 .. n, iter[1 .. j - 1] \in D
       PROVE  iter[1 .. j] = step[<<j, iter[1 .. j - 1]>>]
  <2>1. /\ 1 .. j \in SUBSET DOMAIN seq /\ 1 .. j # {}
        /\ Max(1 .. j) = j /\ (1 .. j) \ {Max(1 .. j)} = 1 .. j - 1
    BY <1>2, PrefixMax
  <2>2. iter[1 .. j] = F(iter[1 .. j - 1], seq[j])
    BY <2>1, <1>9
  <2> QED BY <2>2, <1>2, <1>11
<1>12. PICK h : Climb(h, n, D, none, step) /\ iter[1 .. n] = h[n]
  <2>1. ClimbsBy(iter, n, D, none, step)
    <3> HIDE DEF step, n
    <3> QED BY <1>10, <1>11 DEF ClimbsBy
  <2> HIDE DEF step, n, D
  <2> QED BY <1>2, <1>3, <1>5, <2>1, UnrollMax
<1> DEFINE K == {k \in 0 .. n : Left(h[k], seq, k, S, T)}
<1>13. \A k \in 0 .. n : h[k] \in Seq(T)
  BY <1>12 DEF Climb
<1>14. \A k \in 1 .. n : h[k] = F(h[k - 1], seq[k])
  <2> SUFFICES ASSUME NEW k \in 1 .. n PROVE h[k] = F(h[k - 1], seq[k])
    OBVIOUS
  <2>1. h[k] = step[<<k, h[k - 1]>>]
    BY <1>12 DEF Climb
  <2>2. k - 1 \in 0 .. n /\ h[k - 1] \in D
    BY <1>2, <1>13
  <2> QED BY <2>1, <2>2
<1>15. 0 \in K
  <2>1. h[0] = << >>
    BY <1>3, <1>12 DEF Climb
  <2>2. ToSet(<< >>) = {} /\ Distinct(<< >>) /\ << >> \in Seq(T) /\ Len(<< >>) = 0
    BY DEF ToSet, Distinct
  <2>3. Left(h[0], seq, 0, S, T)
    BY <2>1, <2>2 DEF Left
  <2> QED BY <1>2, <2>3
<1> HIDE DEF step, iter, Iter
<1>16. ASSUME NEW k \in 1 .. n, k - 1 \in K PROVE k \in K
  <2> DEFINE s == h[k - 1]
  <2>1. Left(s, seq, k - 1, S, T) /\ h[k] = F(s, seq[k]) /\ s \in Seq(T) /\ seq[k] \in T
    BY <1>2, <1>13, <1>14, <1>16
  <2> HIDE DEF s
  <2>2. CASE seq[k] \in S
    <3> DEFINE t == Append(s, seq[k])
    <3>1. t \in Seq(T) /\ Len(t) = Len(s) + 1 /\ t[Len(s) + 1] = seq[k]
          /\ \A i \in 1 .. Len(s) : t[i] = s[i]
      BY <2>1
    <3>2. ToSet(t) = ToSet(s) \cup {seq[k]}
      BY <2>1, AppendAdds
    <3>3. t = h[k]
      BY <2>1, <2>2, <1>f
    <3> HIDE DEF t
    <3>4. \A e : e \in ToSet(t) <=> e \in S /\ \E i \in 1 .. k : seq[i] = e
      <4>1. 1 .. k = (1 .. k - 1) \cup {k}
        OBVIOUS
      <4> QED BY <2>1, <2>2, <3>2, <4>1 DEF Left
    <3>5. ASSUME Distinct(seq) PROVE Distinct(t)
      <4>1. Distinct(s) /\ \A i \in 1 .. k - 1 : seq[i] # seq[k]
        BY <2>1, <3>5, <1>2 DEF Left, Distinct
      <4>2. seq[k] \notin ToSet(s)
        BY <4>1, <2>1 DEF Left
      <4>3. \A i \in 1 .. Len(s) : s[i] # seq[k]
        BY <4>2, <2>1 DEF ToSet
      <4> QED BY <2>1, <3>1, <4>1, <4>3 DEF Distinct
    <3> QED BY <2>1, <3>1, <3>3, <3>4, <3>5 DEF Left
  <2>3. CASE seq[k] \notin S
    <3>1. h[k] = s
      BY <2>1, <2>3, <1>f
    <3>2. 1 .. k = (1 .. k - 1) \cup {k}
      OBVIOUS
    <3> QED BY <2>1, <2>3, <3>1, <3>2 DEF Left
  <2> QED BY <2>2, <2>3
<1>17. n \in K
  <2> HIDE DEF K
  <2>1. 0 .. n \subseteq K
    <3> HIDE DEF n
    <3> QED BY <1>2, <1>15, <1>16, Upwards
  <2> QED BY <1>2, <2>1
<1> QED BY <1>1, <1>2, <1>12, <1>17

-----------------------------------------------------------------------------
(* A cache and the order of its keys. *)

\* What a cache can be told to keep, and under which key.
Bodies == Seq(Chunks)

Entries == UNION {[S -> Bodies] : S \in SUBSET Bodies}

\* The order names every entry once.
CacheStates ==
  {c \in [order : Seq(Bodies), entries : Entries] :
     Distinct(c.order) /\ ToSet(c.order) = DOMAIN c.entries}

Room(max) == IF max = 0 THEN 1 ELSE max

\* A sequence that repeats nothing is as long as its set is large.
LEMMA DistinctCounts ==
  ASSUME NEW T, NEW s \in Seq(T), Distinct(s)
  PROVE  IsFiniteSet(ToSet(s)) /\ Cardinality(ToSet(s)) = Len(s)
<1>1. Len(s) \in Nat /\ s \in Bijection(1 .. Len(s), ToSet(s))
  BY DEF Distinct, ToSet, Bijection, Injection, Surjection, IsInjective
<1>2. ExistsBijection(1 .. Len(s), ToSet(s))
  BY <1>1 DEF ExistsBijection
<1> DEFINE n == Len(s)
<1>3. IsFiniteSet(1 .. n) /\ Cardinality(1 .. n) = n
  <2>1. n \in Nat
    OBVIOUS
  <2> HIDE DEF n
  <2> QED BY <2>1, FS_Interval
<1> QED BY <1>2, <1>3, FS_Bijection

\* What is left when the first elements are taken away.
LEMMA DropsFirst ==
  ASSUME NEW T, NEW s \in Seq(T), NEW k \in 0 .. Len(s), Distinct(s)
  PROVE  LET t == SubSeq(s, k + 1, Len(s))
         IN t \in Seq(T) /\ Len(t) = Len(s) - k /\ Distinct(t) /\ ToSet(t) \subseteq ToSet(s)
<1> DEFINE t == SubSeq(s, k + 1, Len(s))
<1>1. t \in Seq(T) /\ Len(t) = Len(s) - k /\ \A i \in 1 .. Len(t) : t[i] = s[i + k]
  <2>1. k \in Nat /\ Len(s) \in Nat /\ k <= Len(s)
    OBVIOUS
  <2>2. Len(t) = Len(s) - k
    BY <2>1
  <2>3. ASSUME NEW i \in 1 .. Len(s) - k PROVE t[i] = s[i + k]
    BY <2>1
  <2>4. t \in Seq(T)
    BY <2>1
  <2> HIDE DEF t
  <2> QED BY <2>2, <2>3, <2>4
<1>2. \A i \in 1 .. Len(t) : i + k \in 1 .. Len(s)
  BY <1>1
<1> HIDE DEF t
<1>3. Distinct(t)
  BY <1>1, <1>2 DEF Distinct
<1>4. ASSUME NEW x \in ToSet(t) PROVE x \in ToSet(s)
  <2>1. PICK i \in 1 .. Len(t) : x = t[i]
    BY <1>1 DEF ToSet
  <2>2. x = s[i + k] /\ i + k \in DOMAIN s
    BY <1>1, <1>2, <2>1
  <2> QED BY <2>2 DEF ToSet
<1> QED BY <1>1, <1>3, <1>4 DEF t

\* insert leaves a cache that names its entries once each and no more of them
\* than it has room for, and changes no body but the one under the key.
Inserted(d, c, key, body, max) ==
  /\ d \in CacheStates
  /\ Len(d.order) <= Room(max)
  /\ \A k \in DOMAIN d.entries :
       d.entries[k] = body \/ (k \in DOMAIN c.entries /\ d.entries[k] = c.entries[k])

\* insert evicts from the front until there is room, whatever key comes.
LEMMA InsertInserts ==
  ASSUME NEW c \in CacheStates, NEW key \in Bodies, NEW body \in Bodies, NEW max \in Nat
  PROVE  Inserted(Insert(c, key, body, max), c, key, body, max)
<1> DEFINE order   == retain(c.order, ToSet(c.order) \ {key})
           excess  == Cardinality(DOMAIN c.entries) + 1 - max
           evicted == IF excess <= 0 THEN 0 ELSE IF excess > Len(order) THEN Len(order) ELSE excess
           kept    == SubSeq(order, evicted + 1, Len(order))
           d == [order |-> Append(kept, key),
                 entries |-> [k \in ToSet(kept) \cup {key} |->
                                IF k = key THEN body ELSE c.entries[k]]]
<1>1. Insert(c, key, body, max) = d
  BY DEF Insert
<1>2. c.order \in Seq(Bodies) /\ Distinct(c.order) /\ ToSet(c.order) = DOMAIN c.entries
      /\ c.entries \in Entries
  BY DEF CacheStates
<1>3. Left(order, c.order, Len(c.order), ToSet(c.order) \ {key}, Bodies)
  BY <1>2, RetainLeaves
<1> HIDE DEF order
<1>4. /\ order \in Seq(Bodies) /\ Len(order) <= Len(c.order) /\ Distinct(order)
      /\ key \notin ToSet(order) /\ ToSet(order) \subseteq ToSet(c.order)
  BY <1>2, <1>3 DEF Left
<1>5. Cardinality(DOMAIN c.entries) = Len(c.order) /\ Len(c.order) \in Nat /\ Len(order) \in Nat
  BY <1>2, <1>4, DistinctCounts
<1>6. excess = Len(c.order) + 1 - max
  BY <1>5
<1> HIDE DEF excess
<1>7. evicted \in 0 .. Len(order) /\ Len(order) - evicted + 1 <= Room(max)
  <2> DEFINE n == Len(c.order)
             m == Len(order)
  <2>1. n \in Nat /\ m \in Nat /\ m <= n /\ excess = n + 1 - max
        /\ evicted = IF excess <= 0 THEN 0 ELSE IF excess > m THEN m ELSE excess
    BY <1>4, <1>5, <1>6
  <2> HIDE DEF n, m, evicted
  <2>2. evicted \in 0 .. m /\ m - evicted + 1 <= Room(max)
    <3>1. CASE excess <= 0
      BY <2>1, <3>1 DEF Room
    <3>2. CASE excess > 0 /\ excess > m
      BY <2>1, <3>2 DEF Room
    <3>3. CASE excess > 0 /\ excess <= m
      BY <2>1, <3>3 DEF Room
    <3> QED BY <2>1, <3>1, <3>2, <3>3
  <2> QED BY <2>2 DEF m
<1> HIDE DEF evicted
<1>8. kept \in Seq(Bodies) /\ Len(kept) = Len(order) - evicted /\ Distinct(kept)
      /\ ToSet(kept) \subseteq ToSet(order)
  BY <1>4, <1>7, DropsFirst
<1> HIDE DEF kept
<1>9. /\ Append(kept, key) \in Seq(Bodies) /\ Len(Append(kept, key)) = Len(kept) + 1
      /\ ToSet(Append(kept, key)) = ToSet(kept) \cup {key}
  BY <1>8, AppendAdds
<1>10. Distinct(Append(kept, key))
  <2>1. /\ Append(kept, key)[Len(kept) + 1] = key
        /\ \A i \in 1 .. Len(kept) : Append(kept, key)[i] = kept[i] /\ kept[i] \in ToSet(kept)
    BY <1>8 DEF ToSet
  <2>2. \A i \in 1 .. Len(kept) : kept[i] # key
    BY <1>4, <1>8, <2>1
  <2> QED BY <1>8, <1>9, <2>1, <2>2 DEF Distinct
<1>11. d.order = Append(kept, key) /\ DOMAIN d.entries = ToSet(kept) \cup {key}
       /\ d.entries[key] = body /\ \A k \in ToSet(kept) : k # key => d.entries[k] = c.entries[k]
  OBVIOUS
<1>12. \A k \in ToSet(kept) : k \in DOMAIN c.entries /\ c.entries[k] \in Bodies
  <2>1. PICK S \in SUBSET Bodies : c.entries \in [S -> Bodies]
    BY <1>2 DEF Entries
  <2> QED BY <1>2, <1>4, <1>8, <2>1
<1>13. d.entries \in Entries
  <2> DEFINE S == ToSet(kept) \cup {key}
  <2>1. S \in SUBSET Bodies
    BY <1>2, <1>8 DEF ToSet
  <2>2. d.entries \in [S -> Bodies]
    BY <1>12
  <2> QED BY <2>1, <2>2 DEF Entries
<1>14. d \in [order : Seq(Bodies), entries : Entries]
  BY <1>9, <1>13
<1> HIDE DEF d
<1>15. d \in CacheStates
  BY <1>9, <1>10, <1>11, <1>14 DEF CacheStates
<1> QED BY <1>1, <1>7, <1>8, <1>9, <1>11, <1>12, <1>15 DEF Inserted

-----------------------------------------------------------------------------
(* The chains and what a cache plugin does with the body of an answer. *)

\* The chains are made of what their generation has built, and a cache has
\* room for a natural number of entries.
Chained ==
  /\ \E n \in Nat : Generations = 1 .. n
  /\ gen \in Generations /\ Builds(built[gen])
  /\ \A g \in Generations : chains[g] \in Seq(DOMAIN built[g])
  /\ \A at \in Instances : Plugin(at).kind = "cache" => Plugin(at).max \in Nat

\* The contexts that the caches can make of ctx.
Contexts(ctx, end) ==
  {c \in [client_ip : {ctx.client_ip}, client_id : {ctx.client_id}, header : {ctx.header},
          enabled : BOOLEAN, headers : BOOLEAN, body : Bodies, cache_key : Bodies \cup {None}] :
     ~ end => c.cache_key = None}

\* Every cache in order, and no fuller than it may be.
Bounded(caches) ==
  /\ caches \in [Instances -> CacheStates]
  /\ \A at \in Instances : Plugin(at).kind = "cache" => Len(caches[at].order) <= Room(Plugin(at).max)

KeptStates(ctx, end) ==
  {st \in [ctx : Contexts(ctx, end), cache : [Instances -> CacheStates]] : Bounded(st.cache)}

Body(st, chunk) == IF chunk = None THEN st.ctx.body ELSE Append(st.ctx.body, chunk)

\* What is gathered is made of chunks.
LEMMA BodyGrows ==
  ASSUME NEW ctx, NEW end, NEW st \in KeptStates(ctx, end), NEW chunk \in Chunks \cup {None}
  PROVE  Body(st, chunk) \in Bodies
BY DEF KeptStates, Contexts, Body, Bodies

\* One cache plugin keeps the order of its own entries, and leaves the others'.
LEMMA KeepKeeps ==
  ASSUME Chained, NEW ctx, NEW end \in BOOLEAN, NEW st \in KeptStates(ctx, end),
         NEW chunk \in Chunks \cup {None}, NEW at \in Instances, Plugin(at).kind = "cache"
  PROVE  Keep(st, at, chunk, end) \in KeptStates(ctx, end)
<1> DEFINE body == Body(st, chunk)
           key  == IF st.ctx.cache_key = None THEN body ELSE st.ctx.cache_key
           max  == Plugin(at).max
           new  == Insert(st.cache[at], key, body, max)
<1>1. /\ st = [ctx |-> st.ctx, cache |-> st.cache]
      /\ st.ctx \in Contexts(ctx, end) /\ st.cache \in [Instances -> CacheStates]
      /\ Bounded(st.cache) /\ body \in Bodies /\ max \in Nat
  BY BodyGrows DEF KeptStates, Chained
<1>2. key \in Bodies
  BY <1>1 DEF Contexts
<1>3. CASE ~ st.ctx.enabled
  BY <1>3 DEF Keep
<1>4. CASE st.ctx.enabled /\ ~ end
  <2>1. Keep(st, at, chunk, end) = [st EXCEPT !.ctx.body = body]
    BY <1>4 DEF Keep, Body
  <2> HIDE DEF body
  <2>2. [st.ctx EXCEPT !.body = body] \in Contexts(ctx, end)
    BY <1>1 DEF Contexts
  <2>3. [st EXCEPT !.ctx.body = body] = [ctx |-> [st.ctx EXCEPT !.body = body], cache |-> st.cache]
    BY <1>1
  <2> QED BY <1>1, <2>1, <2>2, <2>3 DEF KeptStates
<1>5. CASE st.ctx.enabled /\ end
  <2> DEFINE c == [st.ctx EXCEPT !.body = <<>>, !.cache_key = key,
                                 !.headers = FALSE, !.enabled = FALSE]
             caches == [st.cache EXCEPT ![at] = new]
  <2>1. Keep(st, at, chunk, end) = [ctx |-> c, cache |-> caches]
    BY <1>5 DEF Keep, Body
  <2>2. st.cache[at] \in CacheStates
    BY <1>1
  <2> HIDE DEF body, key, max
  <2>3. Inserted(new, st.cache[at], key, body, max)
    BY <1>1, <1>2, <2>2, InsertInserts
  <2> HIDE DEF new
  <2>4. new \in CacheStates /\ Len(new.order) <= Room(max)
    BY <2>3 DEF Inserted
  <2>5. <<>> \in Bodies
    BY DEF Bodies
  <2>6. c \in Contexts(ctx, end)
    BY <1>1, <1>2, <1>5, <2>5 DEF Contexts
  <2>7. Bounded(caches)
    BY <1>1, <2>4 DEF Bounded, max
  <2> QED BY <2>1, <2>6, <2>7 DEF KeptStates, Bounded
<1> QED BY <1>3, <1>4, <1>5

\* The states a chunk goes through, plugin by plugin.
Course(h, ctx, chunk, end) ==
  /\ h \in [0 .. Len(chains[gen]) -> KeptStates(ctx, end)]
  /\ h[0] = [ctx |-> ctx, cache |-> cache]
  /\ \A k \in 1 .. Len(chains[gen]) :
       h[k] = IF Met(gen)[k].kind = "cache"
              THEN Keep(h[k - 1], <<gen, chains[gen][k]>>, chunk, end) ELSE h[k - 1]

\* The fold of run_response_body, as the history of its plugins.
LEMMA ChainRuns ==
  ASSUME Chained, NEW ctx, NEW end \in BOOLEAN, NEW chunk \in Chunks \cup {None},
         [ctx |-> ctx, cache |-> cache] \in KeptStates(ctx, end)
  PROVE  \E h : /\ Course(h, ctx, chunk, end)
                /\ run_response_body(ctx, chunk, end) = h[Len(chains[gen])]
<1> DEFINE n == Len(chains[gen])
           D == KeptStates(ctx, end)
           base == [ctx |-> ctx, cache |-> cache]
           caches == {i \in DOMAIN chains[gen] : Met(gen)[i].kind = "cache"}
           seq == [i \in DOMAIN chains[gen] |-> i]
           F(st, i) == IF i \in caches THEN Keep(st, <<gen, chains[gen][i]>>, chunk, end) ELSE st
           step == [p \in (1 .. n) \X D |-> F(p[2], p[1])]
           Iter(f) == f = [s \in SUBSET DOMAIN seq |->
                             IF s = {} THEN base
                             ELSE LET x == Max(s) IN F(f[s \ {x}], seq[x])]
           iter == CHOOSE f : Iter(f)
<1>1. run_response_body(ctx, chunk, end) = iter[DOMAIN seq]
  BY DEF run_response_body, FoldLeft, MapThenFoldSet
<1>2. n \in Nat /\ DOMAIN chains[gen] = 1 .. n /\ DOMAIN seq = 1 .. n
      /\ \A i \in 1 .. n : seq[i] = i /\ <<gen, chains[gen][i]>> \in Instances
  <2>1. chains[gen] \in Seq(DOMAIN built[gen]) /\ gen \in Generations
    BY DEF Chained
  <2> QED BY <2>1 DEF Instances, Generations
<1>3. base \in D
  OBVIOUS
<1>4. ASSUME NEW st \in D, NEW i \in 1 .. n PROVE F(st, i) \in D
  <2>1. CASE i \in caches
    <3>1. Plugin(<<gen, chains[gen][i]>>).kind = "cache"
      BY <1>2, <2>1 DEF Met, Plugin
    <3>2. Keep(st, <<gen, chains[gen][i]>>, chunk, end) \in D
      BY <1>2, <3>1, KeepKeeps
    <3> QED BY <2>1, <3>2
  <2>2. CASE i \notin caches
    BY <2>2
  <2> QED BY <2>1, <2>2
<1>f. ASSUME NEW st, NEW i \in 1 .. n
      PROVE  F(st, i) = IF Met(gen)[i].kind = "cache"
                        THEN Keep(st, <<gen, chains[gen][i]>>, chunk, end) ELSE st
  BY <1>2
<1> HIDE DEF F, base, D
<1>5. Stepping(step, n, D)
  BY <1>2, <1>4 DEF Stepping
<1>6. PICK f : FoldsMax(f, n, D, base, step)
  <2> HIDE DEF step, n
  <2> QED BY <1>2, <1>3, <1>5, FoldMaxExists
<1> HIDE DEF seq
<1>7. ASSUME NEW s \in SUBSET (1 .. n), s # {}
      PROVE  step[<<Max(s), f[s \ {Max(s)}]>>] = F(f[s \ {Max(s)}], seq[Max(s)])
  <2>1. Max(s) \in 1 .. n
    BY <1>2, <1>7, MaxMin
  <2>2. f[s \ {Max(s)}] \in D
    BY <1>6 DEF FoldsMax
  <2>3. step[<<Max(s), f[s \ {Max(s)}]>>] = F(f[s \ {Max(s)}], Max(s))
    BY <2>1, <2>2
  <2>4. seq[Max(s)] = Max(s)
    BY <1>2, <2>1
  <2> HIDE DEF step
  <2> QED BY <2>3, <2>4
<1>8. Iter(f)
  <2> HIDE DEF step
  <2> QED BY <1>2, <1>6, <1>7 DEF FoldsMax
<1>9. Iter(iter)
  <2> HIDE DEF Iter
  <2> QED BY <1>8
<1> HIDE DEF iter
<1>10. iter[{}] = base
  <2>1. {} \in SUBSET DOMAIN seq
    OBVIOUS
  <2> QED BY <2>1, <1>9
<1>11. ASSUME NEW j \in 1 .. n, iter[1 .. j - 1] \in D
       PROVE  iter[1 .. j] = step[<<j, iter[1 .. j - 1]>>]
  <2>1. /\ 1 .. j \in SUBSET DOMAIN seq /\ 1 .. j # {}
        /\ Max(1 .. j) = j /\ (1 .. j) \ {Max(1 .. j)} = 1 .. j - 1
    BY <1>2, PrefixMax
  <2>2. iter[1 .. j] = F(iter[1 .. j - 1], seq[j])
    BY <2>1, <1>9
  <2>3. seq[j] = j
    BY <1>2
  <2>4. step[<<j, iter[1 .. j - 1]>>] = F(iter[1 .. j - 1], j)
    BY <1>11
  <2> HIDE DEF step
  <2> QED BY <2>2, <2>3, <2>4
<1>12. PICK h : Climb(h, n, D, base, step) /\ iter[1 .. n] = h[n]
  <2>1. ClimbsBy(iter, n, D, base, step)
    <3> HIDE DEF step, n
    <3> QED BY <1>10, <1>11 DEF ClimbsBy
  <2> HIDE DEF step, n
  <2> QED BY <1>2, <1>3, <1>5, <2>1, UnrollMax
<1>13. /\ h \in [0 .. n -> D] /\ h[0] = base
       /\ \A k \in 1 .. n : h[k] = F(h[k - 1], k)
  <2>1. h \in [0 .. n -> D] /\ h[0] = base
    BY <1>12 DEF Climb
  <2>2. ASSUME NEW k \in 1 .. n PROVE h[k] = F(h[k - 1], k)
    <3>1. h[k] = step[<<k, h[k - 1]>>]
      BY <1>12 DEF Climb
    <3>2. k - 1 \in 0 .. n /\ h[k - 1] \in D
      BY <1>2, <2>1
    <3> QED BY <3>1, <3>2
  <2> QED BY <2>1, <2>2
<1>14. Course(h, ctx, chunk, end)
  BY <1>13, <1>f DEF Course, D, base
<1> QED BY <1>1, <1>2, <1>12, <1>14

\* Whatever the chains, the caches stay in order.
LEMMA ChainKeeps ==
  ASSUME Chained, NEW ctx, NEW end \in BOOLEAN, NEW chunk \in Chunks \cup {None},
         [ctx |-> ctx, cache |-> cache] \in KeptStates(ctx, end)
  PROVE  run_response_body(ctx, chunk, end) \in KeptStates(ctx, end)
<1>1. PICK h : /\ Course(h, ctx, chunk, end)
               /\ run_response_body(ctx, chunk, end) = h[Len(chains[gen])]
  BY ChainRuns
<1>2. Len(chains[gen]) \in Nat
  BY DEF Chained
<1> QED BY <1>1, <1>2 DEF Course

\* With one cache in the chains, what it does is what happens.
LEMMA OneCacheKeeps ==
  ASSUME Chained, OneCache, NEW ctx, NEW end \in BOOLEAN, NEW chunk \in Chunks \cup {None},
         [ctx |-> ctx, cache |-> cache] \in KeptStates(ctx, end)
  PROVE  \E at \in Instances :
           /\ Plugin(at).kind = "cache"
           /\ run_response_body(ctx, chunk, end)
                = Keep([ctx |-> ctx, cache |-> cache], at, chunk, end)
<1> DEFINE n == Len(chains[gen])
           caches == {i \in DOMAIN chains[gen] : Met(gen)[i].kind = "cache"}
           base == [ctx |-> ctx, cache |-> cache]
<1>1. PICK h : Course(h, ctx, chunk, end) /\ run_response_body(ctx, chunk, end) = h[n]
  BY ChainRuns
<1>2. n \in Nat /\ DOMAIN chains[gen] = 1 .. n /\ gen \in Generations
      /\ \A i \in 1 .. n : <<gen, chains[gen][i]>> \in Instances
  <2>1. chains[gen] \in Seq(DOMAIN built[gen]) /\ gen \in Generations
    BY DEF Chained
  <2> QED BY <2>1 DEF Instances, Generations
<1>3. Cardinality(caches) = 1 /\ caches \subseteq 1 .. n
  BY <1>2 DEF OneCache
<1>4. PICK i : caches = {i}
  <2>1. IsFiniteSet(caches)
    <3> HIDE DEF caches, n
    <3>1. IsFiniteSet(1 .. n)
      BY <1>2, FS_Interval
    <3> QED BY <1>3, <3>1, FS_Subset
  <2> HIDE DEF caches
  <2> QED BY <1>3, <2>1, FS_Singleton
<1> DEFINE at == <<gen, chains[gen][i]>>
           K == {k \in 0 .. n : h[k] = IF k < i THEN base ELSE Keep(base, at, chunk, end)}
<1>5. i \in 1 .. n /\ \A k \in 1 .. n : Met(gen)[k].kind = "cache" <=> k = i
  BY <1>2, <1>3, <1>4
<1>6. /\ h[0] = base
      /\ \A k \in 1 .. n : h[k] = IF k = i THEN Keep(h[k - 1], at, chunk, end) ELSE h[k - 1]
  BY <1>1, <1>5 DEF Course
<1> HIDE DEF base, at
<1>7. 0 \in K
  BY <1>2, <1>5, <1>6
<1>8. ASSUME NEW k \in 1 .. n, k - 1 \in K PROVE k \in K
  BY <1>2, <1>5, <1>6, <1>8
<1>9. n \in K
  <2> HIDE DEF K
  <2>1. 0 .. n \subseteq K
    <3> HIDE DEF n
    <3> QED BY <1>2, <1>7, <1>8, Upwards
  <2> QED BY <1>2, <2>1
<1>10. h[n] = Keep(base, at, chunk, end)
  BY <1>5, <1>9
<1>11. at \in Instances /\ Plugin(at).kind = "cache"
  BY <1>2, <1>5 DEF at, Plugin, Met
<1> QED BY <1>1, <1>10, <1>11 DEF base

-----------------------------------------------------------------------------
(* What a request carries for the caches, and what they keep of it. *)

FromAnswer(body) == \E answer \in Answers : answer.status = 200 /\ body = answer.chunks

\* While its answer comes back, a request has gathered what was sent of it.
Replying(r) ==
  /\ req[r].answer \in Answers /\ req[r].sent \in 0 .. Len(req[r].answer.chunks)
  /\ OneCache /\ req[r].ctx.enabled =>
       /\ req[r].answer.status = 200
       /\ req[r].ctx.body = SubSeq(req[r].answer.chunks, 1, req[r].sent)

Carries(r) ==
  /\ HasFields(req[r].ctx, CtxFields)
  /\ req[r].client \in Clients
  /\ req[r].gen \in 1 .. gen /\ req[r].at \in 1 .. Len(chains[req[r].gen]) + 1
  /\ req[r].ctx.client_id \in {None, req[r].client.key}
  /\ req[r].ctx.cache_key = None
  /\ req[r].ctx.enabled \in BOOLEAN /\ req[r].ctx.headers \in BOOLEAN
  /\ req[r].ctx.body \in Bodies
  /\ req[r].phase # "body" => req[r].ctx.body = << >>
  /\ req[r].phase = "body" => Replying(r)

Busy == {"request", "upstream", "body"}

Carried ==
  \A r \in Requests : req[r].phase \in Phases /\ (req[r].phase \in Busy => Carries(r))

Books ==
  /\ Bounded(cache)
  /\ OneCache => \A at \in Instances : \A k \in DOMAIN cache[at].entries :
                   FromAnswer(cache[at].entries[k])

Counters == begun \in 0 .. MaxBegun /\ windows \in 0 .. MaxWindows

PluginsInv == Progress /\ Chained /\ Carried /\ Books /\ Counters

\* Only a cache table makes a cache.
LEMMA CacheMade ==
  ASSUME NEW c, create_plugin(c).kind = "cache"
  PROVE  c.category = "cache" /\ create_plugin(c).max = Given(c.max_entries, 2)
<1> USE DEF create_plugin, Invalid
<1>1. CASE c.category = "key_auth" BY <1>1 DEF KeyAuthFromConfig
<1>2. CASE c.category = "ip_restriction" BY <1>2 DEF IpRestrictionFromConfig
<1>3. CASE c.category = "rate_limit" BY <1>3 DEF RateLimitFromConfig
<1>4. CASE c.category = "max_size" BY <1>4 DEF MaxSizeFromConfig
<1>5. CASE c.category = "keyword_block" BY <1>5 DEF KeywordBlockFromConfig
<1>6. CASE c.category = "pii_filter" BY <1>6 DEF PiiFilterFromConfig, Scanner
<1>7. CASE c.category = "prompt_guard" BY <1>7 DEF PromptGuardFromConfig, Scanner
<1>8. CASE c.category = "secret_scan" BY <1>8 DEF SecretScanFromConfig, Scanner
<1>9. CASE c.category = "regex_guard" BY <1>9 DEF RegexGuardFromConfig, Scanner
<1>10. CASE c.category = "cache" BY <1>10 DEF CacheFromConfig
<1> QED BY <1>1, <1>2, <1>3, <1>4, <1>5, <1>6, <1>7, <1>8, <1>9, <1>10

\* A sequence is one over any set that holds its elements.
LEMMA SeqWithin ==
  ASSUME NEW T, NEW s \in Seq(T), NEW S, ToSet(s) \subseteq S
  PROVE  s \in Seq(S)
<1>1. \A i \in 1 .. Len(s) : s[i] \in S
  BY DEF ToSet
<1> QED BY <1>1

\* The chains of the initial configurations are what retain leaves of their lists.
LEMMA ChainedInit == Init => Chained
<1> SUFFICES ASSUME Init PROVE Chained
  OBVIOUS
<1>1. PICK configs \in Configs :
        /\ built = [g \in DOMAIN configs |-> [name \in DOMAIN configs[g].plugins |->
                                               create_plugin(configs[g].plugins[name])]]
        /\ chains = [g \in DOMAIN configs |-> Chain(configs[g])]
  BY DEF Init
<1>2. Generations = 1 .. Len(configs) /\ DOMAIN configs = 1 .. Len(configs) /\ Len(configs) \in Nat
  BY <1>1, ConfigsAssumption, LenNat DEF Generations
<1>3. gen \in Generations /\ Builds(built[gen])
  BY DEF Init
<1>4. ASSUME NEW g \in Generations PROVE chains[g] \in Seq(DOMAIN built[g])
  <2> DEFINE config == configs[g]
             T == ToSet(config.global) \cup ToSet(config.route)
             names == config.global \o config.route
             S == DOMAIN config.plugins
  <2>1. g \in DOMAIN configs /\ DOMAIN built[g] = S /\ chains[g] = retain(names, S)
    BY <1>1, <1>2 DEF Chain
  <2>2. config.global \in Seq(ToSet(config.global)) /\ config.route \in Seq(ToSet(config.route))
    BY <2>1, ConfigsAssumption
  <2>3. names \in Seq(T)
    <3>1. config.global \in Seq(T) /\ config.route \in Seq(T)
      BY <2>2
    <3> QED BY <3>1
  <2> HIDE DEF names, T, S
  <2>4. Left(retain(names, S), names, Len(names), S, T)
    BY <2>3, RetainLeaves
  <2>5. retain(names, S) \in Seq(T) /\ ToSet(retain(names, S)) \subseteq S
    BY <2>4 DEF Left
  <2> QED BY <2>1, <2>5, SeqWithin
<1>5. ASSUME NEW at \in Instances, Plugin(at).kind = "cache" PROVE Plugin(at).max \in Nat
  <2>1. PICK g, name : at = <<g, name>> /\ g \in DOMAIN built /\ name \in DOMAIN built[g]
    BY DEF Instances, Generations
  <2>2. /\ g \in DOMAIN configs /\ name \in DOMAIN configs[g].plugins
        /\ Plugin(at) = create_plugin(configs[g].plugins[name])
    BY <1>1, <2>1 DEF Plugin
  <2> QED BY <1>5, <2>2, CacheMade, ConfigsAssumption DEF Given
<1> QED BY <1>2, <1>3, <1>4, <1>5 DEF Chained

LEMMA PluginsInit == Init => PluginsInv
<1> SUFFICES ASSUME Init PROVE PluginsInv
  OBVIOUS
<1>1. Progress /\ Chained
  BY ProgressInit, ChainedInit
<1>2. Carried
  BY DEF Init, Carried, Idle, Phases, Busy
<1>3. EmptyCache \in CacheStates /\ EmptyCache.order = << >> /\ DOMAIN EmptyCache.entries = {}
  <2>1. << >> \in Seq(Bodies) /\ ToSet(<< >>) = {} /\ Distinct(<< >>) /\ DOMAIN << >> = {}
    BY DEF ToSet, Distinct
  <2>2. << >> \in Entries
    <3>1. << >> \in [{} -> Bodies] /\ {} \in SUBSET Bodies
      OBVIOUS
    <3> QED BY <3>1 DEF Entries
  <2> QED BY <2>1, <2>2 DEF EmptyCache, CacheStates
<1>4. Books
  <2>1. cache = [at \in Instances |-> EmptyCache]
    BY DEF Init
  <2>2. \A at \in Instances : cache[at] = EmptyCache
    BY <2>1
  <2>3. cache \in [Instances -> CacheStates]
    BY <1>3, <2>1
  <2>4. \A at \in Instances : Plugin(at).kind = "cache" => Len(cache[at].order) <= Room(Plugin(at).max)
    <3>1. Len(<< >>) = 0
      OBVIOUS
    <3> QED BY <1>1, <1>3, <2>2, <3>1 DEF Room, Chained
  <2> QED BY <1>3, <2>2, <2>3, <2>4 DEF Books, Bounded
<1>5. Counters
  BY TrafficAssumption DEF Init, Counters
<1> QED BY <1>1, <1>2, <1>4, <1>5 DEF PluginsInv

\* One plugin refuses the request or passes it on.
Judged(r, refuse) ==
  LET g   == req[r].gen
      p   == Plugin(<<g, chains[g][req[r].at]>>)
  IN /\ req[r].phase = "request" /\ req[r].at <= Len(chains[g])
     /\ UNCHANGED <<built, chains, gen, begun, windows, cache>>
     /\ refuse # None => req' = [req EXCEPT ![r] = [phase |-> "refused", status |-> refuse]]
     /\ refuse = None =>
          req' = [req EXCEPT ![r] = [req[r] EXCEPT !.at = req[r].at + 1,
                                                   !.ctx = After(p, req[r].client, req[r].ctx)]]

\* on_request of one plugin.
LEMMA OnRequestJudges ==
  ASSUME NEW r \in Requests, OnRequest(r)
  PROVE  \E refuse : Judged(r, refuse)
<1> DEFINE g   == req[r].gen
           at  == <<g, chains[g][req[r].at]>>
           p   == Plugin(at)
           ctx == req[r].ctx
           key == IF p.kind = "rate_limit" THEN extract_key(p, ctx) ELSE None
           bag == IF key = None THEN rate[at] ELSE Observed(key, rate[at])
           refuse == IF Hit(p, at, ctx) THEN 200
                     ELSE Refusal(p, req[r].client, ctx, IF key = None THEN 0 ELSE Count(bag, key))
<1>1. /\ req[r].phase = "request" /\ req[r].at <= Len(chains[g])
      /\ UNCHANGED <<built, chains, gen, begun, windows, cache>>
      /\ req' = [req EXCEPT ![r] =
           IF refuse # None THEN [phase |-> "refused", status |-> refuse]
           ELSE [req[r] EXCEPT !.at = req[r].at + 1, !.ctx = After(p, req[r].client, ctx)]]
  BY DEF OnRequest, RunPlugin
<1> HIDE DEF refuse
<1>2. Judged(r, refuse)
  BY <1>1 DEF Judged
<1> QED BY <1>2

\* No step changes the plugins that are built, nor the chains.
LEMMA SameChains ==
  ASSUME built' = built, chains' = chains
  PROVE  Instances' = Instances /\ (OneCache' <=> OneCache) /\ \A a : Plugin(a)' = Plugin(a)
<1>1. Instances' = Instances /\ \A a : Plugin(a)' = Plugin(a)
  BY PluginsStay
<1>2. OneCache' <=> OneCache
  BY DEF OneCache, Generations, Met
<1> QED BY <1>1, <1>2

\* Only a reload changes what is loaded.
LEMMA LoadedStays ==
  ASSUME [Next]_vars
  PROVE  Reload \/ (built' = built /\ chains' = chains /\ gen' = gen)
<1> DEFINE Stays == built' = built /\ chains' = chains /\ gen' = gen
           Hooks(r) == \/ \E client \in Clients : Begin(r, client)
                       \/ OnRequest(r) \/ Forward(r)
                       \/ \E answer \in Answers : OnResponse(r, answer)
                       \/ \E chunk \in Chunks \cup {None}, end \in BOOLEAN :
                            OnResponseBody(r, chunk, end)
                       \/ Logging(r)
<1>1. ASSUME NEW r \in Requests, Hooks(r) PROVE Stays
  <2>1. CASE \E client \in Clients : Begin(r, client)
    BY <2>1 DEF Begin
  <2>2. CASE OnRequest(r)
    BY <2>2 DEF OnRequest, RunPlugin
  <2>3. CASE \E answer \in Answers : OnResponse(r, answer)
    BY <2>3 DEF OnResponse
  <2>4. CASE \E chunk \in Chunks \cup {None}, end \in BOOLEAN : OnResponseBody(r, chunk, end)
    BY <2>4 DEF OnResponseBody
  <2>5. CASE Forward(r) \/ Logging(r)
    BY <2>5 DEF Forward, Logging
  <2> QED BY <1>1, <2>1, <2>2, <2>3, <2>4, <2>5
<1>2. ASSUME NEW at \in Instances, WindowEnds(at) PROVE Stays
  BY <1>2 DEF WindowEnds
<1>3. CASE UNCHANGED vars
  BY <1>3 DEF vars
<1>4. Next <=> Reload \/ (\E at \in Instances : WindowEnds(at)) \/ \E r \in Requests : Hooks(r)
  BY DEF Next
<1> HIDE DEF Hooks
<1> QED BY <1>1, <1>2, <1>3, <1>4

LEMMA ChainedStep ==
  ASSUME Chained, [Next]_vars
  PROVE  Chained' /\ built' = built /\ chains' = chains /\ gen' \in Nat /\ gen <= gen'
<1>1. built' = built /\ chains' = chains
  BY LoadedStays DEF Reload
<1>2. gen' \in Generations /\ Builds(built[gen']) /\ gen <= gen'
  <2>1. gen \in Nat
    BY DEF Chained
  <2>2. CASE gen' = gen
    BY <2>1, <2>2 DEF Chained
  <2>3. CASE Reload
    BY <2>1, <2>3 DEF Chained, Reload
  <2> QED BY <2>2, <2>3, LoadedStays
<1>3. Generations' = Generations /\ Instances' = Instances /\ \A a : Plugin(a)' = Plugin(a)
  BY <1>1, SameChains DEF Generations
<1>4. Chained'
  BY <1>1, <1>2, <1>3 DEF Chained, Builds
<1>5. gen' \in Nat
  BY <1>2 DEF Chained
<1> QED BY <1>1, <1>2, <1>4, <1>5

\* What a request carries is its own, whatever the others do.
LEMMA CarriesStill ==
  ASSUME built' = built, chains' = chains, gen \in Nat, gen' \in Nat, gen <= gen',
         NEW q, req'[q] = req[q], Carries(q)
  PROVE  Carries(q)'
BY SameChains DEF Carries, Replying

\* What one request does leaves to the others what they carry.
LEMMA OthersCarry ==
  ASSUME Progress, Carried, Chained, built' = built, chains' = chains, gen' \in Nat, gen <= gen',
         NEW r \in Requests, NEW x, req' = [req EXCEPT ![r] = x],
         x.phase \in Phases, x.phase \in Busy => Carries(r)'
  PROVE  Carried'
<1>1. gen \in Nat /\ req'[r] = x
  BY DEF Chained, Progress
<1>2. ASSUME NEW q \in Requests, q # r
      PROVE  req'[q].phase \in Phases /\ (req'[q].phase \in Busy => Carries(q)')
  <2>1. req'[q] = req[q]
    BY <1>2 DEF Progress
  <2> QED BY <1>1, <2>1, CarriesStill DEF Carried
<1> QED BY <1>1, <1>2 DEF Carried

\* The context of a request as the caches are given it.
LEMMA CacheContext ==
  ASSUME Books, NEW r \in Requests, Carries(r), NEW end
  PROVE  [ctx |-> req[r].ctx, cache |-> cache] \in KeptStates(req[r].ctx, end)
<1>1. req[r].ctx \in Contexts(req[r].ctx, end)
  BY DEF Carries, HasFields, CtxFields, Contexts
<1> QED BY <1>1 DEF Books, Bounded, KeptStates

\* A chunk is the next one of the answer; what is gathered with the last one
\* is the whole answer.
LEMMA GathersNext ==
  ASSUME NEW T, NEW s \in Seq(T), NEW n \in 0 .. Len(s)
  PROVE  /\ n < Len(s) => Append(SubSeq(s, 1, n), s[n + 1]) = SubSeq(s, 1, n + 1)
         /\ n >= Len(s) => SubSeq(s, 1, n) = s
         /\ n < Len(s) /\ n + 1 >= Len(s) => SubSeq(s, 1, n + 1) = s
<1>1. ASSUME n < Len(s) PROVE Append(SubSeq(s, 1, n), s[n + 1]) = SubSeq(s, 1, n + 1)
  <2> DEFINE a == Append(SubSeq(s, 1, n), s[n + 1])
             b == SubSeq(s, 1, n + 1)
  <2>1. /\ a \in Seq(T) /\ b \in Seq(T) /\ Len(a) = n + 1 /\ Len(b) = n + 1
        /\ \A i \in 1 .. n + 1 : a[i] = s[i] /\ b[i] = s[i]
    BY <1>1
  <2> HIDE DEF a, b
  <2>2. a = b
    BY <2>1
  <2> QED BY <2>2 DEF a, b
<1>2. SubSeq(s, 1, Len(s)) = s
  <2> DEFINE b == SubSeq(s, 1, Len(s))
  <2>1. b \in Seq(T) /\ Len(b) = Len(s) /\ \A i \in 1 .. Len(s) : b[i] = s[i]
    OBVIOUS
  <2> HIDE DEF b
  <2>2. b = s
    BY <2>1
  <2> QED BY <2>2 DEF b
<1>3. /\ n >= Len(s) => n = Len(s)
      /\ (n < Len(s) /\ n + 1 >= Len(s)) => n + 1 = Len(s)
  OBVIOUS
<1>4. n >= Len(s) => SubSeq(s, 1, n) = s
  BY <1>2, <1>3
<1>5. (n < Len(s) /\ n + 1 >= Len(s)) => SubSeq(s, 1, n + 1) = s
  BY <1>2, <1>3
<1> QED BY <1>1, <1>4, <1>5

\* body is what the context of a request holds, with the chunk that comes now:
\* as much of the answer as has been sent, or all of it.
Gathers(r, chunk, body) ==
  IF chunk = None THEN body = req[r].ctx.body ELSE body = Append(req[r].ctx.body, chunk)

SoFar(r, body) ==
  /\ body = SubSeq(req[r].answer.chunks, 1, req[r].sent + 1)
  /\ req[r].sent + 1 \in 0 .. Len(req[r].answer.chunks)

\* With the last chunk the whole answer has been gathered, and before it what was sent of it.
LEMMA AnswerGathered ==
  ASSUME NEW r \in Requests, NEW chunk, NEW end \in BOOLEAN, OnResponseBody(r, chunk, end), Replying(r),
         req[r].ctx.body = SubSeq(req[r].answer.chunks, 1, req[r].sent),
         NEW body, Gathers(r, chunk, body)
  PROVE  IF end THEN body = req[r].answer.chunks ELSE SoFar(r, body)
<1> DEFINE s == req[r].answer.chunks
           n == req[r].sent
<1>1. /\ s \in Seq(ToSet(s)) /\ n \in 0 .. Len(s) /\ None \notin ToSet(s)
  BY TrafficAssumption DEF Replying
<1>2. /\ chunk = (IF n < Len(s) THEN s[n + 1] ELSE None) /\ (chunk = None => end)
      /\ (end => n + 1 >= Len(s))
  BY DEF OnResponseBody
<1>3. n < Len(s) => s[n + 1] # None
  <2> HIDE DEF s, n
  <2>1. n < Len(s) => n + 1 \in DOMAIN s
    BY <1>1
  <2>2. n + 1 \in DOMAIN s => s[n + 1] \in ToSet(s)
    BY DEF ToSet
  <2> QED BY <1>1, <2>1, <2>2
<1>4. chunk = None <=> ~ (n < Len(s))
  BY <1>2, <1>3
<1>5. req[r].ctx.body = SubSeq(s, 1, n)
  OBVIOUS
<1>6. /\ chunk = None => body = SubSeq(s, 1, n)
      /\ chunk # None => body = Append(SubSeq(s, 1, n), chunk)
  BY <1>5 DEF Gathers
<1> HIDE DEF s, n
<1>7. /\ n < Len(s) => Append(SubSeq(s, 1, n), s[n + 1]) = SubSeq(s, 1, n + 1)
      /\ n >= Len(s) => SubSeq(s, 1, n) = s
      /\ (n < Len(s) /\ n + 1 >= Len(s)) => SubSeq(s, 1, n + 1) = s
  BY <1>1, GathersNext
<1>8. Len(s) \in Nat /\ n \in Nat
  BY <1>1
<1>9. ASSUME ~ end PROVE body = SubSeq(s, 1, n + 1) /\ n + 1 \in 0 .. Len(s)
  BY <1>2, <1>4, <1>6, <1>7, <1>8, <1>9
<1>10. ASSUME end PROVE body = s
  <2>1. CASE chunk = None
    <3>1. n >= Len(s)
      BY <1>4, <1>8, <2>1
    <3> QED BY <1>6, <1>7, <2>1, <3>1
  <2>2. CASE chunk # None
    <3>1. n < Len(s) /\ n + 1 >= Len(s)
      BY <1>2, <1>4, <1>10, <2>2
    <3> QED BY <1>2, <1>6, <1>7, <2>2, <3>1
  <2> QED BY <2>1, <2>2
<1> QED BY <1>9, <1>10 DEF s, n, SoFar

\* What a plugin leaves of the context it is given.
LEMMA AfterLeaves ==
  ASSUME NEW p, NEW client, NEW ctx, HasFields(ctx, CtxFields), client.nocache \in BOOLEAN,
         ctx.enabled \in BOOLEAN
  PROVE  LET c == After(p, client, ctx)
         IN /\ HasFields(c, CtxFields) /\ c.client_id \in {ctx.client_id, ctx.header}
            /\ c.cache_key = ctx.cache_key /\ c.enabled \in BOOLEAN
            /\ c.headers = ctx.headers /\ c.body = ctx.body
<1> DEFINE c == After(p, client, ctx)
<1>1. CASE p.kind = "key_auth"
  <2>1. c = [ctx EXCEPT !.client_id = ctx.header, !.header = IF p.hide THEN None ELSE ctx.header]
    BY <1>1 DEF After
  <2> HIDE DEF c
  <2> QED BY <2>1 DEF HasFields, CtxFields, c
<1>2. CASE p.kind = "cache"
  <2>1. c = [ctx EXCEPT !.enabled = ctx.enabled \/ ~ client.nocache]
    BY <1>2 DEF After
  <2> HIDE DEF c
  <2>2. (ctx.enabled \/ ~ client.nocache) \in BOOLEAN
    OBVIOUS
  <2> QED BY <2>1, <2>2 DEF HasFields, CtxFields, c
<1>3. CASE p.kind \notin {"key_auth", "cache"}
  BY <1>3 DEF After
<1> QED BY <1>1, <1>2, <1>3

\* Every hook keeps what a request carries for the caches.
LEMMA CarriedStep ==
  ASSUME PluginsInv, [Next]_vars
  PROVE  Carried'
<1>1. /\ built' = built /\ chains' = chains /\ gen \in Nat /\ gen' \in Nat /\ gen <= gen'
      /\ Progress /\ Carried /\ Chained /\ Books
  BY ChainedStep DEF PluginsInv, Chained
<1>2. ASSUME req' = req PROVE Carried'
  <2>1. ASSUME NEW q \in Requests
        PROVE  req'[q].phase \in Phases /\ (req'[q].phase \in Busy => Carries(q)')
    <3>1. req'[q] = req[q]
      BY <1>2
    <3> QED BY <1>1, <3>1, CarriesStill DEF Carried
  <2> QED BY <2>1 DEF Carried
<1>3. ASSUME NEW r \in Requests, NEW client \in Clients, Begin(r, client)
      PROVE  Carried'
  <2> DEFINE x == [phase |-> "request", client |-> client, gen |-> gen,
                   at |-> 1, ctx |-> NewCtx(client)]
  <2>1. req' = [req EXCEPT ![r] = x] /\ gen' = gen
    BY <1>3 DEF Begin
  <2>2. req'[r] = x
    BY <1>1, <2>1 DEF Progress
  <2>3. gen \in 1 .. gen /\ 1 \in 1 .. Len(chains[gen]) + 1
    <3>1. gen \in Generations /\ chains[gen] \in Seq(DOMAIN built[gen])
      BY <1>1 DEF Chained
    <3>2. Len(chains[gen]) \in Nat
      BY <3>1
    <3>3. gen >= 1
      BY <1>1, <3>1 DEF Chained
    <3> QED BY <1>1, <3>2, <3>3
  <2>4. Carries(r)'
    <3>1. /\ HasFields(NewCtx(client), CtxFields) /\ NewCtx(client).client_id = None
          /\ NewCtx(client).cache_key = None /\ NewCtx(client).enabled = FALSE
          /\ NewCtx(client).headers = FALSE /\ NewCtx(client).body = << >> /\ << >> \in Bodies
      BY DEF HasFields, NewCtx, CtxFields, Bodies
    <3>2. /\ req'[r].phase = "request" /\ req'[r].client = client /\ req'[r].gen = gen
          /\ req'[r].at = 1 /\ req'[r].ctx = NewCtx(client)
      BY <2>2
    <3>3. req'[r].gen \in 1 .. gen' /\ req'[r].at \in 1 .. Len(chains'[req'[r].gen]) + 1
      BY <1>1, <2>1, <2>3, <3>2
    <3> QED BY <3>1, <3>2, <3>3 DEF Carries
  <2> QED BY <1>1, <2>1, <2>4, OthersCarry DEF Phases
<1>4. ASSUME NEW r \in Requests, OnRequest(r)
      PROVE  Carried'
  <2> DEFINE p == Plugin(<<req[r].gen, chains[req[r].gen][req[r].at]>>)
             x == [req[r] EXCEPT !.at = req[r].at + 1, !.ctx = After(p, req[r].client, req[r].ctx)]
  <2>1. PICK refuse : Judged(r, refuse)
    BY <1>4, OnRequestJudges
  <2>2. CASE refuse # None
    BY <1>1, <2>1, <2>2, OthersCarry DEF Judged, Phases, Busy
  <2>3. CASE refuse = None
    <3>1. /\ req' = [req EXCEPT ![r] = x] /\ gen' = gen
          /\ req[r].phase = "request" /\ req[r].at <= Len(chains[req[r].gen])
      BY <2>1, <2>3 DEF Judged
    <3>2. Carries(r) /\ Meeting(r)
      BY <1>1, <3>1 DEF Carried, Busy, Progress
    <3>3. /\ x.phase = "request" /\ x.client = req[r].client /\ x.gen = req[r].gen
          /\ x.at = req[r].at + 1 /\ x.ctx = After(p, req[r].client, req[r].ctx)
      BY <3>1, <3>2 DEF Meeting, HasFields
    <3>4. /\ HasFields(x.ctx, CtxFields) /\ x.ctx.client_id \in {None, req[r].client.key}
          /\ x.ctx.cache_key = None /\ x.ctx.enabled \in BOOLEAN /\ x.ctx.headers \in BOOLEAN
          /\ x.ctx.body = << >>
      <4> HIDE DEF p
      <4>1. /\ HasFields(req[r].ctx, CtxFields) /\ req[r].ctx.client_id \in {None, req[r].client.key}
            /\ req[r].ctx.header \in {None, req[r].client.key}
            /\ req[r].ctx.cache_key = None /\ req[r].ctx.enabled \in BOOLEAN
            /\ req[r].ctx.headers \in BOOLEAN /\ req[r].ctx.body = << >>
            /\ req[r].client.nocache \in BOOLEAN
        BY <3>1, <3>2, TrafficAssumption DEF Carries, Meeting
      <4> DEFINE c == After(p, req[r].client, req[r].ctx)
      <4>2. /\ HasFields(c, CtxFields) /\ c.client_id \in {req[r].ctx.client_id, req[r].ctx.header}
            /\ c.cache_key = req[r].ctx.cache_key /\ c.enabled \in BOOLEAN
            /\ c.headers = req[r].ctx.headers /\ c.body = req[r].ctx.body
        BY <4>1, AfterLeaves
      <4> HIDE DEF c
      <4>3. x.ctx = c
        BY <3>3 DEF c
      <4> HIDE DEF x
      <4> QED BY <4>1, <4>2, <4>3
    <3>5. req'[r] = x
      <4> HIDE DEF x
      <4> QED BY <1>1, <3>1 DEF Progress
    <3>6. x.at \in 1 .. Len(chains[x.gen]) + 1
      <4> DEFINE n == Len(chains[req[r].gen])
      <4>1. n \in Nat /\ req[r].at <= n
        BY <3>1, LenNat
      <4>2. req[r].at \in 1 .. n + 1
        BY <3>2 DEF Carries
      <4> HIDE DEF n, x
      <4>3. req[r].at + 1 \in 1 .. n + 1
        BY <4>1, <4>2
      <4>4. Len(chains[x.gen]) = n /\ x.at = req[r].at + 1
        BY <3>3 DEF n
      <4> QED BY <4>3, <4>4
    <3>7. Carries(r)'
      <4> HIDE DEF x
      <4>1. << >> \in Bodies
        BY DEF Bodies
      <4> QED BY <1>1, <3>1, <3>2, <3>3, <3>4, <3>5, <3>6, <4>1 DEF Carries
    <3> QED BY <1>1, <3>1, <3>3, <3>7, OthersCarry DEF Phases
  <2> QED BY <2>2, <2>3
<1>5. ASSUME NEW r \in Requests, Forward(r)
      PROVE  Carried'
  <2> DEFINE x == [req[r] EXCEPT !.phase = "upstream"]
  <2>1. req' = [req EXCEPT ![r] = x] /\ req[r].phase = "request" /\ gen' = gen
    BY <1>5 DEF Forward
  <2>2. Carries(r) /\ Meeting(r)
    BY <1>1, <2>1 DEF Carried, Busy, Progress
  <2>3. /\ x.phase = "upstream" /\ x.client = req[r].client /\ x.gen = req[r].gen
        /\ x.at = req[r].at /\ x.ctx = req[r].ctx
    BY <2>2 DEF Meeting, HasFields
  <2>4. req'[r] = x
    <3> HIDE DEF x
    <3> QED BY <1>1, <2>1 DEF Progress
  <2>5. Carries(r)'
    <3> HIDE DEF x
    <3> QED BY <1>1, <2>1, <2>2, <2>3, <2>4 DEF Carries
  <2> QED BY <1>1, <2>1, <2>3, <2>5, OthersCarry DEF Phases
<1>6. ASSUME NEW r \in Requests, NEW answer \in Answers, OnResponse(r, answer)
      PROVE  Carried'
  <2> DEFINE caches == \E i \in DOMAIN chains[gen] : Met(gen)[i].kind = "cache"
             ctx == [req[r].ctx EXCEPT
                       !.enabled = IF caches THEN req[r].ctx.enabled /\ answer.status = 200
                                   ELSE req[r].ctx.enabled,
                       !.headers = caches /\ req[r].ctx.enabled /\ answer.status = 200]
             x == [phase |-> "body", client |-> req[r].client, gen |-> req[r].gen,
                   at |-> req[r].at, answer |-> answer, sent |-> 0, ctx |-> ctx]
  <2>1. req' = [req EXCEPT ![r] = x] /\ req[r].phase = "upstream" /\ gen' = gen
    BY <1>6 DEF OnResponse
  <2>2. Carries(r)
    BY <1>1, <2>1 DEF Carried, Busy
  <2>3. OneCache => caches
    <3> SUFFICES ASSUME OneCache PROVE caches
      OBVIOUS
    <3>1. gen \in Generations
      BY <1>1 DEF Chained
    <3>2. Cardinality({i \in DOMAIN chains[gen] : Met(gen)[i].kind = "cache"}) = 1
      BY <3>1 DEF OneCache
    <3>3. {i \in DOMAIN chains[gen] : Met(gen)[i].kind = "cache"} # {}
      BY <3>2, FS_EmptySet
    <3> QED BY <3>3
  <2> HIDE DEF caches
  <2>4. /\ HasFields(ctx, CtxFields) /\ ctx.client_id = req[r].ctx.client_id
        /\ ctx.cache_key = None /\ ctx.enabled \in BOOLEAN /\ ctx.headers \in BOOLEAN
        /\ ctx.body = << >> /\ (OneCache /\ ctx.enabled => answer.status = 200)
    BY <2>1, <2>2, <2>3, ZenonT(40) DEF Carries, HasFields, CtxFields
  <2> HIDE DEF ctx
  <2>5. req'[r] = x
    BY <1>1, <2>1 DEF Progress
  <2>6. /\ answer.chunks \in Seq(ToSet(answer.chunks)) /\ 0 \in 0 .. Len(answer.chunks)
        /\ SubSeq(answer.chunks, 1, 0) = << >>
    BY TrafficAssumption
  <2>7. OneCache' <=> OneCache
    BY <1>1, SameChains
  <2>8. Replying(r)'
    <3>1. req'[r].answer = answer /\ req'[r].sent = 0 /\ req'[r].ctx = ctx
      BY <2>5
    <3> QED BY <2>4, <2>6, <2>7, <3>1 DEF Replying
  <2>9. Carries(r)'
    <3>1. << >> \in Bodies
      BY DEF Bodies
    <3> QED BY <1>1, <2>1, <2>2, <2>4, <2>5, <2>8, <3>1 DEF Carries
  <2> QED BY <1>1, <2>1, <2>9, OthersCarry DEF Phases
<1>7. ASSUME NEW r \in Requests, NEW chunk \in Chunks \cup {None}, NEW end \in BOOLEAN,
             OnResponseBody(r, chunk, end)
      PROVE  Carried'
  <2> DEFINE base == [ctx |-> req[r].ctx, cache |-> cache]
             all == run_response_body(req[r].ctx, chunk, end)
             x == [req[r] EXCEPT !.sent = req[r].sent + 1, !.ctx = all.ctx]
  <2>1. /\ req[r].phase = "body" /\ gen' = gen
        /\ end => req' = [req EXCEPT ![r] = [phase |-> "done"]]
        /\ ~ end => req' = [req EXCEPT ![r] = x]
    BY <1>7 DEF OnResponseBody
  <2>2. Carries(r) /\ Through(r)
    BY <1>1, <2>1 DEF Carried, Busy, Progress
  <2>3. CASE end
    BY <1>1, <2>1, <2>3, OthersCarry DEF Phases, Busy
  <2>4. CASE ~ end
    <3>1. base \in KeptStates(req[r].ctx, end)
      BY <1>1, <2>2, CacheContext
    <3>2. all \in KeptStates(req[r].ctx, end)
      BY <1>1, <3>1, ChainKeeps
    <3>3. ASSUME OneCache, all.ctx.enabled
          PROVE  /\ req[r].answer.status = 200 /\ req[r].sent + 1 \in 0 .. Len(req[r].answer.chunks)
                 /\ all.ctx.body = SubSeq(req[r].answer.chunks, 1, req[r].sent + 1)
      <4>1. PICK at \in Instances : all = Keep(base, at, chunk, end)
        BY <1>1, <3>1, <3>3, OneCacheKeeps
      <4> HIDE DEF all
      <4>2. req[r].ctx.enabled
        BY <2>4, <3>3, <4>1 DEF Keep
      <4>3. all.ctx.body = IF chunk = None THEN req[r].ctx.body ELSE Append(req[r].ctx.body, chunk)
        <5> DEFINE body == IF chunk = None THEN base.ctx.body ELSE Append(base.ctx.body, chunk)
        <5>1. all = [base EXCEPT !.ctx.body = body]
          BY <2>4, <4>1, <4>2 DEF Keep
        <5> HIDE DEF body
        <5>2. base.ctx = [f \in CtxFields |-> base.ctx[f]]
          BY <2>2 DEF Carries, HasFields
        <5>3. all.ctx.body = body
          BY <5>1, <5>2 DEF CtxFields
        <5> QED BY <5>3 DEF body
      <4>4. Replying(r)
        BY <2>1, <2>2 DEF Carries
      <4>5. /\ req[r].answer.status = 200
            /\ req[r].ctx.body = SubSeq(req[r].answer.chunks, 1, req[r].sent)
        BY <3>3, <4>2, <4>4 DEF Replying
      <4>6. /\ all.ctx.body = SubSeq(req[r].answer.chunks, 1, req[r].sent + 1)
            /\ req[r].sent + 1 \in 0 .. Len(req[r].answer.chunks)
        <5> DEFINE body == all.ctx.body
        <5>1. Gathers(r, chunk, body)
          BY <4>3 DEF Gathers
        <5> HIDE DEF body
        <5>2. IF end THEN body = req[r].answer.chunks ELSE SoFar(r, body)
          BY <1>7, <4>4, <4>5, <5>1, AnswerGathered
        <5> QED BY <2>4, <5>2 DEF body, SoFar
      <4> QED BY <4>5, <4>6
    <3>4. req[r].answer \in Answers /\ req[r].sent + 1 \in 0 .. Len(req[r].answer.chunks)
      <4>1. Replying(r)
        BY <2>1, <2>2 DEF Carries
      <4>2. /\ req[r].answer.chunks \in Seq(ToSet(req[r].answer.chunks))
            /\ req[r].sent \in 0 .. Len(req[r].answer.chunks) /\ req[r].answer \in Answers
        BY <4>1, TrafficAssumption DEF Replying
      <4>3. req[r].sent < Len(req[r].answer.chunks)
        BY <1>7, <2>4 DEF OnResponseBody
      <4> QED BY <4>2, <4>3
    <3> HIDE DEF all, base
    <3>5. /\ x.phase = "body" /\ x.client = req[r].client /\ x.gen = req[r].gen
          /\ x.at = req[r].at /\ x.ctx = all.ctx /\ x.answer = req[r].answer
          /\ x.sent = req[r].sent + 1
      BY <2>1, <2>2 DEF Through, HasFields
    <3>6. req'[r] = x
      <4> HIDE DEF x
      <4> QED BY <1>1, <2>1, <2>4 DEF Progress
    <3>7. OneCache' <=> OneCache
      BY <1>1, SameChains
    <3> HIDE DEF x
    <3>8. Replying(r)'
      BY <3>3, <3>4, <3>5, <3>6, <3>7 DEF Replying
    <3>9. /\ HasFields(all.ctx, CtxFields) /\ all.ctx.client_id = req[r].ctx.client_id
          /\ all.ctx.cache_key = None /\ all.ctx.enabled \in BOOLEAN
          /\ all.ctx.headers \in BOOLEAN /\ all.ctx.body \in Bodies
      BY <2>4, <3>2 DEF KeptStates, Contexts, HasFields, CtxFields
    <3>10. Carries(r)'
      BY <1>1, <2>1, <2>2, <3>5, <3>6, <3>8, <3>9 DEF Carries
    <3> QED BY <1>1, <2>1, <2>4, <3>5, <3>10, OthersCarry DEF Phases
  <2> QED BY <2>3, <2>4
<1>8. ASSUME NEW r \in Requests, Logging(r)
      PROVE  Carried'
  <2>1. req' = [req EXCEPT ![r] = Idle] /\ Idle.phase \in Phases /\ Idle.phase \notin Busy
    BY <1>8 DEF Logging, Idle, Phases, Busy
  <2> QED BY <1>1, <2>1, OthersCarry
<1>9. ASSUME NEW at \in Instances, WindowEnds(at) PROVE Carried'
  BY <1>2, <1>9 DEF WindowEnds
<1>10. CASE Reload
  BY <1>2, <1>10 DEF Reload
<1>11. CASE UNCHANGED vars
  BY <1>2, <1>11 DEF vars
<1> QED BY <1>3, <1>4, <1>5, <1>6, <1>7, <1>8, <1>9, <1>10, <1>11 DEF Next

\* What the caches keep after the last chunk is the whole of a good answer.
LEMMA KeptIsAnswer ==
  ASSUME Chained, Books, OneCache, NEW r \in Requests, Carries(r), req[r].phase = "body",
         NEW chunk \in Chunks \cup {None}, NEW end \in BOOLEAN, OnResponseBody(r, chunk, end),
         NEW a \in Instances,
         NEW k \in DOMAIN run_response_body(req[r].ctx, chunk, end).cache[a].entries
  PROVE  FromAnswer(run_response_body(req[r].ctx, chunk, end).cache[a].entries[k])
<1> DEFINE base == [ctx |-> req[r].ctx, cache |-> cache]
           all  == run_response_body(req[r].ctx, chunk, end)
<1>1. base \in KeptStates(req[r].ctx, end)
  BY CacheContext
<1>2. PICK at \in Instances : Plugin(at).kind = "cache" /\ all = Keep(base, at, chunk, end)
  BY <1>1, OneCacheKeeps
<1>3. cache \in [Instances -> CacheStates]
      /\ \A b \in Instances : \A key \in DOMAIN cache[b].entries : FromAnswer(cache[b].entries[key])
  BY DEF Books, Bounded
<1>4. CASE all.cache = cache
  <2> HIDE DEF all
  <2>1. k \in DOMAIN cache[a].entries
    BY <1>4 DEF all
  <2> QED BY <1>3, <1>4, <2>1 DEF all
<1>5. CASE req[r].ctx.enabled /\ end
  <2> DEFINE body == Body(base, chunk)
             key  == IF base.ctx.cache_key = None THEN body ELSE base.ctx.cache_key
             max  == Plugin(at).max
             new  == Insert(cache[at], key, body, max)
  <2>1. all.cache = [cache EXCEPT ![at] = new]
    BY <1>2, <1>5 DEF Keep, Body
  <2>2. body \in Bodies /\ max \in Nat
    BY <1>1, <1>2, BodyGrows DEF Chained
  <2>3. key \in Bodies /\ cache[at] \in CacheStates
    BY <1>3, <2>2 DEF Carries
  <2>4. FromAnswer(body)
    <3>1. Replying(r)
      BY DEF Carries
    <3>2. /\ req[r].answer.status = 200 /\ req[r].answer \in Answers
          /\ req[r].ctx.body = SubSeq(req[r].answer.chunks, 1, req[r].sent)
      BY <1>5, <3>1 DEF Replying
    <3>3. Gathers(r, chunk, body)
      BY DEF Body, Gathers
    <3> HIDE DEF body
    <3>4. IF end THEN body = req[r].answer.chunks ELSE SoFar(r, body)
      BY <3>1, <3>2, <3>3, AnswerGathered
    <3> QED BY <1>5, <3>2, <3>4 DEF FromAnswer
  <2> HIDE DEF body, key, max
  <2>5. Inserted(new, cache[at], key, body, max)
    BY <2>2, <2>3, InsertInserts
  <2> HIDE DEF new, all
  <2>6. CASE a = at
    <3>1. all.cache[a] = new
      BY <1>3, <2>1, <2>6
    <3>2. k \in DOMAIN new.entries
      BY <3>1 DEF all
    <3>3. new.entries[k] = body \/ (k \in DOMAIN cache[at].entries /\ new.entries[k] = cache[at].entries[k])
      BY <2>5, <3>2 DEF Inserted
    <3>4. FromAnswer(new.entries[k])
      BY <1>3, <2>4, <3>3
    <3> QED BY <3>1, <3>4 DEF all
  <2>7. CASE a # at
    <3>1. all.cache[a] = cache[a]
      BY <1>3, <2>1, <2>7
    <3>2. k \in DOMAIN cache[a].entries
      BY <3>1 DEF all
    <3> QED BY <1>3, <3>1, <3>2 DEF all
  <2> QED BY <2>6, <2>7
<1>6. all.cache = cache \/ (req[r].ctx.enabled /\ end)
  <2>1. ~ req[r].ctx.enabled => all = base
    BY <1>2 DEF Keep
  <2>2. ASSUME req[r].ctx.enabled, ~ end PROVE all.cache = cache
    <3> DEFINE body == Body(base, chunk)
    <3>1. all = [base EXCEPT !.ctx.body = body]
      BY <1>2, <2>2 DEF Keep, Body
    <3> HIDE DEF all, body
    <3> QED BY <3>1
  <2> QED BY <2>1, <2>2
<1> QED BY <1>4, <1>5, <1>6

\* Only the end of an answer changes a cache, and leaves it in order.
LEMMA BooksStep ==
  ASSUME PluginsInv, [Next]_vars
  PROVE  Books'
<1>1. /\ built' = built /\ chains' = chains /\ Progress /\ Carried /\ Chained /\ Books
  BY ChainedStep DEF PluginsInv
<1>2. Instances' = Instances /\ (OneCache' <=> OneCache) /\ \A a : Plugin(a)' = Plugin(a)
  BY <1>1, SameChains
<1>3. CASE cache' = cache
  BY <1>1, <1>2, <1>3 DEF Books, Bounded
<1>4. ASSUME NEW r \in Requests, NEW chunk \in Chunks \cup {None}, NEW end \in BOOLEAN,
             OnResponseBody(r, chunk, end)
      PROVE  Books'
  <2> DEFINE all == run_response_body(req[r].ctx, chunk, end)
  <2>1. cache' = all.cache /\ req[r].phase = "body"
    BY <1>4 DEF OnResponseBody
  <2>2. Carries(r)
    BY <1>1, <2>1 DEF Carried, Busy
  <2>3. [ctx |-> req[r].ctx, cache |-> cache] \in KeptStates(req[r].ctx, end)
    BY <1>1, <2>2, CacheContext
  <2>4. all \in KeptStates(req[r].ctx, end)
    BY <1>1, <2>3, ChainKeeps
  <2>5. Bounded(cache)'
    <3> HIDE DEF all
    <3> QED BY <1>2, <2>1, <2>4 DEF KeptStates, Bounded
  <2>6. ASSUME OneCache, NEW a \in Instances, NEW k \in DOMAIN all.cache[a].entries
        PROVE  FromAnswer(all.cache[a].entries[k])
    BY <1>1, <1>4, <2>1, <2>2, <2>6, KeptIsAnswer
  <2>7. OneCache' => \A a \in Instances' : \A k \in DOMAIN cache'[a].entries :
                       FromAnswer(cache'[a].entries[k])
    <3> HIDE DEF all
    <3> QED BY <1>2, <2>1, <2>6
  <2> HIDE DEF all
  <2> QED BY <2>5, <2>7 DEF Books, FromAnswer
<1>5. CASE Reload \/ UNCHANGED vars \/ \E at \in Instances : WindowEnds(at)
  BY <1>3, <1>5 DEF Reload, vars, WindowEnds
<1>6. ASSUME NEW r \in Requests,
             \/ \E client \in Clients : Begin(r, client)
             \/ OnRequest(r) \/ Forward(r) \/ Logging(r)
             \/ \E answer \in Answers : OnResponse(r, answer)
      PROVE  Books'
  BY <1>3, <1>6 DEF Begin, OnRequest, RunPlugin, Forward, Logging, OnResponse
<1> QED BY <1>4, <1>5, <1>6 DEF Next

LEMMA CountersStep ==
  ASSUME Counters, [Next]_vars
  PROVE  Counters'
<1> USE TrafficAssumption DEF Counters
<1>1. ASSUME NEW r \in Requests, NEW client \in Clients, Begin(r, client) PROVE Counters'
  BY <1>1 DEF Begin
<1>2. ASSUME NEW at \in Instances, WindowEnds(at) PROVE Counters'
  BY <1>2 DEF WindowEnds
<1>3. CASE begun' = begun /\ windows' = windows
  BY <1>3
<1>4. CASE UNCHANGED vars
  BY <1>3, <1>4 DEF vars
<1>5. ASSUME NEW r \in Requests,
             \/ OnRequest(r) \/ Forward(r) \/ Logging(r)
             \/ \E answer \in Answers : OnResponse(r, answer)
             \/ \E chunk \in Chunks \cup {None}, end \in BOOLEAN : OnResponseBody(r, chunk, end)
      PROVE  Counters'
  <2>1. CASE OnRequest(r)
    BY <1>3, <2>1 DEF OnRequest, RunPlugin
  <2>2. CASE \E answer \in Answers : OnResponse(r, answer)
    BY <1>3, <2>2 DEF OnResponse
  <2>3. CASE \E chunk \in Chunks \cup {None}, end \in BOOLEAN : OnResponseBody(r, chunk, end)
    BY <1>3, <2>3 DEF OnResponseBody
  <2>4. CASE Forward(r) \/ Logging(r)
    BY <1>3, <2>4 DEF Forward, Logging
  <2> QED BY <1>5, <2>1, <2>2, <2>3, <2>4
<1>6. CASE Reload
  BY <1>3, <1>6 DEF Reload
<1> HIDE DEF Counters
<1> QED BY <1>1, <1>2, <1>4, <1>5, <1>6 DEF Next

LEMMA PluginsStep == PluginsInv /\ [Next]_vars => PluginsInv'
<1> SUFFICES ASSUME PluginsInv, [Next]_vars PROVE PluginsInv'
  OBVIOUS
<1>1. Progress' /\ Chained'
  BY ProgressStep, ChainedStep DEF PluginsInv
<1>2. Carried' /\ Books'
  BY CarriedStep, BooksStep
<1>3. Counters'
  BY CountersStep DEF PluginsInv
<1> QED BY <1>1, <1>2, <1>3 DEF PluginsInv

\* The loaded configuration is one that builds, and a request keeps its place
\* in the chains it began with, under its own key, with no cache key of its own.
THEOREM PluginsTypeCorrect == Spec => []TypeOK
<1>1. PluginsInv => TypeOK
  <2> SUFFICES ASSUME PluginsInv PROVE TypeOK
    OBVIOUS
  <2>1. gen \in Generations /\ Builds(built[gen])
    BY DEF PluginsInv, Chained
  <2>2. begun \in 0 .. MaxBegun /\ windows \in 0 .. MaxWindows
    BY DEF PluginsInv, Counters
  <2> QED BY <2>1, <2>2 DEF PluginsInv, Carried, Carries, Busy, TypeOK
<1> QED BY <1>1, PluginsInit, PluginsStep, PTL DEF Spec

\* A cache names every entry once and no other and never holds more than it may;
\* with one cache in the chains, what it keeps is a whole answer of the upstream.
THEOREM CacheSoundAlways == Spec => []CacheSound
<1>1. PluginsInv => CacheSound
  <2> SUFFICES ASSUME PluginsInv, NEW at \in Instances, Plugin(at).kind = "cache"
               PROVE  LET c == cache[at] IN
                      /\ ToSet(c.order) = DOMAIN c.entries
                      /\ Len(c.order) = Cardinality(DOMAIN c.entries)
                      /\ Len(c.order) <= (IF Plugin(at).max = 0 THEN 1 ELSE Plugin(at).max)
                      /\ OneCache => \A k \in DOMAIN c.entries :
                                       \E answer \in Answers :
                                         answer.status = 200 /\ c.entries[k] = answer.chunks
    BY DEF CacheSound
  <2> DEFINE c == cache[at]
  <2>1. c \in CacheStates /\ Len(c.order) <= Room(Plugin(at).max)
    BY DEF PluginsInv, Books, Bounded
  <2>2. c.order \in Seq(Bodies) /\ Distinct(c.order) /\ ToSet(c.order) = DOMAIN c.entries
    BY <2>1 DEF CacheStates
  <2>3. Cardinality(ToSet(c.order)) = Len(c.order)
    BY <2>2, DistinctCounts
  <2>4. OneCache => \A k \in DOMAIN c.entries : FromAnswer(c.entries[k])
    BY DEF PluginsInv, Books
  <2> QED BY <2>1, <2>2, <2>3, <2>4 DEF Room, FromAnswer
<1> QED BY <1>1, PluginsInit, PluginsStep, PTL DEF Spec
=============================================================================
