----------------------------- MODULE MCGateway -----------------------------
(* Small configurations for the gateway: a fallback route and a second     *)
(* route, and a reload that removes a provider and a route.                *)
EXTENDS GatewayProps, TLC

CONSTANTS p1, p2

MCProviders == {p1, p2}
MCPaths == {"chat", "raw"}

OpenAI == [translator |-> "openai", weight |-> 1, max_fails |-> 1]
Gemini == [translator |-> "other", weight |-> 2, max_fails |-> 1]

ChatRoute == [prefix |-> {"chat"}, provider |-> p2, fallback |-> <<p1>>,
              strategy |-> "fallback", endpoint |-> "normal"]
RawRoute  == [prefix |-> {"raw"}, provider |-> p1, fallback |-> <<p2>>,
              strategy |-> "round_robin", endpoint |-> "passthrough"]
LoneRoute == [prefix |-> {"chat"}, provider |-> p2, fallback |-> <<>>,
              strategy |-> "weighted", endpoint |-> "native"]

Full  == [providers |-> (p1 :> OpenAI @@ p2 :> Gemini),
          routes |-> <<ChatRoute, RawRoute>>,
          guarded |-> TRUE, metrics_enabled |-> TRUE]
Small == [providers |-> (p2 :> [Gemini EXCEPT !.max_fails = 2]), routes |-> <<LoneRoute>>,
          guarded |-> FALSE, metrics_enabled |-> FALSE]

\* Full with a second route that has one candidate: fewer states.
Lean  == [Full EXCEPT !.routes[2] =
            [prefix |-> {"raw"}, provider |-> p1, fallback |-> <<>>,
             strategy |-> "least_connections", endpoint |-> "embeddings"]]

MCConfigs == {Full, Small}
LeanConfigs == {Lean, Small}
LeanOnly == {Lean}
ReqSymmetry == Permutations(Reqs)
=============================================================================
