------------------------------ MODULE Routing ------------------------------
(***************************************************************************)
(* Provider selection: ProviderSelector::select and the candidate list     *)
(* AiGateway::select_provider gives it.  Pure operators.                   *)
(*                                                                         *)
(* A candidate is its position in <<route.provider>> \o route.fallback:    *)
(* position 1 is the primary (ProviderTarget::is_primary).  A position     *)
(* identifies a target even when one provider is listed twice.             *)
(***************************************************************************)
EXTENDS Naturals, Sequences, FiniteSets, FiniteSetsExt

Strategies == {"fallback", "weighted", "round_robin", "least_connections",
               "latency_based", "cost_based"}

\* The strategies that return the first healthy candidate (the last two are
\* marked TODO in the code and fall through to the first).
FirstHealthy == {"fallback", "latency_based", "cost_based"}

\* The provider named at position i of a route's target list.
Entry(route, i) == IF i = 1 THEN route.provider ELSE route.fallback[i - 1]

\* The positions whose provider exists in the snapshot being used.
Candidates(providers, route) ==
  {i \in 1 .. Len(route.fallback) + 1 : Entry(route, i) \in DOMAIN providers}

\* The element of a set of positions that has n smaller ones: healthy[n].
Nth(S, n) == CHOOSE i \in S : Cardinality({j \in S : j < i}) = n

First(S) == CHOOSE i \in S : \A j \in S : i <= j
Last(S)  == CHOOSE i \in S : \A j \in S : i >= j

\* Sum of the weights of the healthy positions up to and including i.
CumulativeWeight(providers, route, healthy, i) ==
  MapThenSumSet(LAMBDA j : providers[Entry(route, j)].weight,
                {j \in healthy : j <= i})

TotalWeight(providers, route, healthy) ==
  MapThenSumSet(LAMBDA j : providers[Entry(route, j)].weight, healthy)

\* weighted_select: the first position whose cumulative weight exceeds the
\* counter modulo the total; the first candidate when every weight is zero.
WeightedSelect(providers, route, healthy, counter) ==
  LET total   == TotalWeight(providers, route, healthy)
      covered == {i \in healthy : counter % total <
                    CumulativeWeight(providers, route, healthy, i)}
  IN  CASE total = 0    -> First(healthy)
        [] covered = {} -> Last(healthy)
        [] OTHER        -> First(covered)

\* min_by_key(failure_count), which keeps the first of equal minima.
LeastFailures(route, healthy, failures) ==
  First({i \in healthy : \A j \in healthy :
           failures[Entry(route, i)] <= failures[Entry(route, j)]})

\* Mutant of Select: the last healthy candidate instead of the first.
SelectLast(providers, route, healthy, failures, counter) ==
  Last(healthy)

\* ProviderSelector::select on a non-empty set of healthy positions.
Select(providers, route, healthy, failures, counter) ==
  CASE route.strategy = "weighted" ->
         WeightedSelect(providers, route, healthy, counter)
    [] route.strategy = "round_robin" ->
         Nth(healthy, counter % Cardinality(healthy))
    [] route.strategy = "least_connections" ->
         LeastFailures(route, healthy, failures)
    [] OTHER -> First(healthy)

\* Whether that call advances ROUND_ROBIN_COUNTER.
AdvancesCounter(providers, route, healthy) ==
  \/ route.strategy = "round_robin"
  \/ /\ route.strategy = "weighted"
     /\ TotalWeight(providers, route, healthy) > 0
=============================================================================
