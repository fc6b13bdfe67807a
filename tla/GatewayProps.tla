---------------------------- MODULE GatewayProps ----------------------------
(***************************************************************************)
(* What the request lifecycle promises.                                    *)
(***************************************************************************)
EXTENDS Gateway

\* Requests the gauge has counted and logging has not uncounted, with those
\* whose task panicked before logging.
Counted == {r \in Reqs : /\ pc[r] \in Hooks \cup {"panicked"}
                         /\ ~skip_logging[r]}

GoneUncounted == {r \in Reqs : outcome[r] \in Uncounted}

\* active_requests is the number of requests in flight, less one for every
\* answer request_filter ever wrote early (it decrements and so does logging)
\* and every fast path that failed (only logging decrements), plus one for
\* every request whose task panicked: nothing else moves it.
GaugeAccounts ==
  active + Cardinality(GoneUncounted) = Cardinality(Counted)

\* The upstream failures clients saw from a provider, in any generation.
Failed(p) == {q \in Reqs : provider_name[q] = p /\ status[q] = "fail"}

MaxFailsIn(g, p) == built[g].providers[p].max_fails

\* A client is told "All providers are unavailable" only if each candidate of
\* its route has answered at least max_fails requests with 5xx or 429: the
\* breakers of one route are never opened by other outcomes, by other
\* providers, or by a reload.
UnavailableIsEarned ==
  \A r \in Reqs : outcome[r] = "503" =>
    \A i \in Candidates(built[snap[r]].providers, RouteOf(r)) :
      LET p == Entry(RouteOf(r), i)
      IN  Cardinality(Failed(p)) >= MaxFailsIn(snap[r], p)

\* Under a priority strategy a request leaves its primary provider only after
\* that provider failed max_fails requests (select_provider, the source of
\* X-MaxLLM-Fallback-From).
FallbackIsEarned ==
  \A r \in Reqs :
    (original[r] # None /\ RouteOf(r).strategy \in FirstHealthy) =>
      Cardinality(Failed(original[r])) >= MaxFailsIn(snap[r], original[r])

\* A request's task panics on its route index only when a reload since the
\* request was matched has left fewer routes.
PanicNeedsShrink ==
  \A r \in Reqs : pc[r] \in {"panicked", "log_panicked"} =>
    \E g \in snap[r] + 1 .. Len(built) :
      Len(built[g].routes) < route_index[r]

\* Every request that arrives ends, whatever fails and whatever is reloaded.
Completes == \A r \in Reqs : (pc[r] # "idle") ~> (pc[r] \in Finals)

=============================================================================
