---------------------------- MODULE PluginsProps ----------------------------
(* What is checked of the plugins. *)
EXTENDS Plugins

Phases == {"idle", "request", "refused", "upstream", "body", "done"}

TypeOK ==
  /\ gen \in Generations /\ Builds(built[gen])
  /\ begun \in 0 .. MaxBegun /\ windows \in 0 .. MaxWindows
  /\ \A r \in Requests :
       /\ req[r].phase \in Phases
       /\ req[r].phase \in {"request", "upstream", "body"} =>
            /\ req[r].gen \in 1 .. gen /\ req[r].at \in 1 .. Len(chains[req[r].gen]) + 1
            /\ req[r].ctx.client_id \in {None, req[r].client.key}
            /\ req[r].ctx.cache_key = None

Scanners == {"pii_filter", "prompt_guard", "secret_scan", "regex_guard"}

\* What plugin p demands of a request.  A client whose address is not known
\* (a Unix socket) passes every ip_restriction.
Admits(p, c) ==
  CASE p.kind = "key_auth"       -> c.key # None /\ c.key \in p.keys
    [] p.kind = "ip_restriction" -> c.ip # None => (c.ip \in p.nets <=> p.type # "deny")
    [] p.kind = "max_size"       -> ~ (c.length # None /\ c.length > p.max)
    [] p.kind = "keyword_block"  -> c.query \cap p.finds = {}
    [] p.kind \in Scanners       -> p.action = "block" => c.query \cap p.finds = {}
    [] OTHER                     -> TRUE

\* A request that went to the upstream was let through by every plugin of both
\* chains of one configuration, the one it began with, whatever was loaded
\* meanwhile: with the key, the address, the size and the query it came with.
\* What a rate limiter lets through is the matter of LimitHeld.
AdmittedByAll ==
  \A r \in Requests : req[r].phase \in {"upstream", "body"} =>
    LET g == req[r].gen
    IN \A i \in 1 .. Len(chains[g]) : Admits(Plugin(<<g, chains[g][i]>>), req[r].client)

\* No limit lets less than nothing through.
Allowed(p) == IF p.max < 0 THEN 0 ELSE p.max

\* In one window a limiter lets no key through more often than it says, however
\* the requests overlap, and refuses none before it has let that many through.
LimitHeld ==
  \A at \in Instances : Plugin(at).kind = "rate_limit" =>
    /\ DOMAIN passed[at] \subseteq DOMAIN rate[at]
    /\ \A k \in DOMAIN rate[at] :
         Count(passed[at], k) = IF rate[at][k] <= Plugin(at).max THEN rate[at][k]
                                ELSE Allowed(Plugin(at))

OneCache ==
  \A g \in Generations : Cardinality({i \in DOMAIN chains[g] : Met(g)[i].kind = "cache"}) = 1

\* The order of a cache names every entry once and no other, there are no more
\* of them than it may hold (an empty cache holds one), and a kept body is that
\* of one good answer of the upstream from its first chunk to its last, if every
\* chain has one cache.
CacheSound ==
  \A at \in Instances : Plugin(at).kind = "cache" =>
    LET c == cache[at] IN
    /\ ToSet(c.order) = DOMAIN c.entries
    /\ Len(c.order) = Cardinality(DOMAIN c.entries)
    /\ Len(c.order) <= (IF Plugin(at).max = 0 THEN 1 ELSE Plugin(at).max)
    /\ OneCache => \A k \in DOMAIN c.entries :
                     \E answer \in Answers : answer.status = 200 /\ c.entries[k] = answer.chunks
=============================================================================
