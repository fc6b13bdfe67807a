--------------------------- MODULE GatewayProofs ---------------------------
(***************************************************************************)
(* Theorems about provider selection, for every route, strategy, health    *)
(* and counter, and about the request lifecycle, for every set of          *)
(* requests, providers and configurations and any number of reloads.       *)
(***************************************************************************)
EXTENDS GatewayProps, FiniteSetTheorems, SequenceTheorems, TLAPS

----------------------------------------------------------------------------
(* What selection returns                                                  *)

\* The least-number principle for a set.
LEMMA Minimum ==
  ASSUME NEW S \in SUBSET Nat, S # {}
  PROVE  \E m \in S : \A k \in S : m <= k
<1>1. PICK m \in S : \A k \in S : ~(<<k, m>> \in OpToRel(<, Nat))
  BY WFMin, NatLessThanWellFounded
<1>2. ASSUME NEW k \in S PROVE ~(k < m)
  <2>1. <<k, m>> \in Nat \X Nat OBVIOUS
  <2>2. <<k, m>>[1] = k /\ <<k, m>>[2] = m OBVIOUS
  <2> QED BY <1>1, <2>1, <2>2, Zenon DEF OpToRel
<1>3. \A k \in S : k \in Nat /\ m \in Nat
  OBVIOUS
<1> QED BY <1>2, <1>3

\* A bounded set has a largest element.
LEMMA Maximum ==
  ASSUME NEW n \in Nat, NEW S \in SUBSET (1 .. n), S # {}
  PROVE  \E m \in S : \A k \in S : m >= k
<1> DEFINE Gap == {n - k : k \in S}
<1>1. Gap \in SUBSET Nat /\ Gap # {}
  <2>1. \A k \in S : n - k \in Nat OBVIOUS
  <2> QED BY <2>1
<1>2. PICK d \in Gap : \A e \in Gap : d <= e
  <2> HIDE DEF Gap
  <2> QED BY <1>1, Minimum
<1>3. PICK m \in S : d = n - m
  OBVIOUS
<1>4. ASSUME NEW k \in S PROVE m >= k
  <2>1. n - k \in Gap OBVIOUS
  <2>2. n - m <= n - k BY <1>2, <1>3, <2>1
  <2> QED BY <2>2
<1> QED BY <1>4

LEMMA FirstInSet ==
  ASSUME NEW S \in SUBSET Nat, S # {}
  PROVE  First(S) \in S /\ \A j \in S : First(S) <= j
<1>1. \E i \in S : \A j \in S : i <= j BY Minimum
<1> QED BY <1>1 DEF First

LEMMA LastInSet ==
  ASSUME NEW n \in Nat, NEW S \in SUBSET (1 .. n), S # {}
  PROVE  Last(S) \in S
<1>1. \E i \in S : \A j \in S : i >= j BY Maximum
<1> QED BY <1>1 DEF Last

LEMMA FiniteCandidates ==
  ASSUME NEW n \in Nat, NEW S \in SUBSET (1 .. n)
  PROVE  IsFiniteSet(S) /\ Cardinality(S) \in Nat
<1>1. IsFiniteSet(1 .. n) BY FS_Interval
<1>2. IsFiniteSet(S) BY <1>1, FS_Subset
<1> QED BY <1>2, FS_CardinalityType

\* healthy[k] is one of the healthy positions for every k below their number.
LEMMA NthInSet ==
  ASSUME NEW n \in Nat, NEW S \in SUBSET (1 .. n),
         NEW k \in Nat, k < Cardinality(S)
  PROVE  Nth(S, k) \in S
<1> DEFINE Below(i) == {j \in S : j < i}
           UpTo(i)  == {j \in S : j <= i}
           Past == {i \in S : Cardinality(UpTo(i)) > k}
<1>1. IsFiniteSet(S) /\ Cardinality(S) \in Nat
  BY FiniteCandidates
<1>2. ASSUME NEW i \in S
      PROVE  /\ IsFiniteSet(Below(i)) /\ Cardinality(Below(i)) \in Nat
             /\ Cardinality(UpTo(i)) = Cardinality(Below(i)) + 1
  <2>1. IsFiniteSet(Below(i)) /\ Cardinality(Below(i)) \in Nat
    BY <1>1, FS_Subset, FS_CardinalityType
  <2>2. UpTo(i) = Below(i) \cup {i} /\ i \notin Below(i)
    <3>1. \A j \in S : j <= i <=> (j < i \/ j = i) OBVIOUS
    <3>2. ~(i < i) OBVIOUS
    <3> QED BY <3>1, <3>2
  <2>3. Cardinality(Below(i) \cup {i}) = Cardinality(Below(i)) + 1
    BY <2>1, <2>2, FS_AddElement
  <2> QED BY <2>1, <2>2, <2>3
<1>3. Past \in SUBSET Nat /\ Past # {}
  <2>1. S # {} BY <1>1, FS_EmptySet
  <2>2. PICK m \in S : \A j \in S : m >= j BY <2>1, Maximum
  <2>3. UpTo(m) = S BY <2>2
  <2>4. m \in Past BY <2>3
  <2>5. \A j \in S : j \in Nat OBVIOUS
  <2> QED BY <2>4, <2>5
<1>4. PICK i \in Past : \A j \in Past : i <= j
  <2> HIDE DEF Past
  <2> QED BY <1>3, Minimum
<1>5. Cardinality(Below(i)) <= k
  <2>1. CASE Below(i) = {} BY <2>1, FS_EmptySet
  <2>2. CASE Below(i) # {}
    <3>1. Below(i) \in SUBSET (1 .. n) OBVIOUS
    <3>2. PICK m \in Below(i) : \A j \in Below(i) : m >= j
      <4> HIDE DEF Below
      <4> QED BY <2>2, <3>1, Maximum
    <3>3. UpTo(m) = Below(i)
      <4>1. \A j \in S : j \in Nat OBVIOUS
      <4>2. \A j \in S : j <= m => j < i BY <3>2, <4>1
      <4>3. \A j \in S : j < i => j <= m BY <3>2
      <4> QED BY <4>2, <4>3
    <3>4. m \in S /\ m \notin Past
      BY <1>4, <3>2
    <3>5. ~(Cardinality(UpTo(m)) > k)
      BY <3>4
    <3>6. Cardinality(Below(i)) \in Nat BY <1>2
    <3> QED BY <3>3, <3>5, <3>6
  <2> QED BY <2>1, <2>2
<1>6. Cardinality(Below(i)) = k
  <2>1. Cardinality(UpTo(i)) > k OBVIOUS
  <2> QED BY <1>2, <1>5, <2>1
<1>7. \E j \in S : Cardinality({l \in S : l < j}) = k
  BY <1>6
<1> QED BY <1>7 DEF Nth

\* ProviderSelector::select returns one of the healthy candidates it is given,
\* whatever the strategy, the weights and the counter.
THEOREM SelectReturnsHealthy ==
  ASSUME NEW n \in Nat, NEW healthy \in SUBSET (1 .. n), healthy # {},
         NEW providers, NEW route, NEW counts, NEW counter \in Nat,
         \A i \in healthy : counts[Entry(route, i)] \in Nat
  PROVE  Select(providers, route, healthy, counts, counter) \in healthy
<1>0. \A i \in healthy : i \in Nat OBVIOUS
<1>1. IsFiniteSet(healthy) /\ Cardinality(healthy) \in Nat \ {0}
  BY FiniteCandidates, FS_EmptySet
<1>2. First(healthy) \in healthy /\ Last(healthy) \in healthy
  BY <1>0, FirstInSet, LastInSet
<1>3. CASE route.strategy = "weighted"
  <2> DEFINE total   == TotalWeight(providers, route, healthy)
             covered == {i \in healthy : counter % total <
                           CumulativeWeight(providers, route, healthy, i)}
  <2>1. covered # {} => First(covered) \in healthy
    <3>1. covered \in SUBSET Nat /\ covered \subseteq healthy BY <1>0
    <3> HIDE DEF covered
    <3> QED BY <3>1, FirstInSet
  <2>2. WeightedSelect(providers, route, healthy, counter) \in healthy
    BY <1>2, <2>1 DEF WeightedSelect
  <2> QED BY <1>3, <2>2 DEF Select
<1>4. CASE route.strategy = "round_robin"
  <2>1. /\ counter % Cardinality(healthy) \in Nat
        /\ counter % Cardinality(healthy) < Cardinality(healthy)
    BY <1>1
  <2>2. Nth(healthy, counter % Cardinality(healthy)) \in healthy
    BY <1>1, <2>1, NthInSet
  <2> QED BY <1>4, <2>2 DEF Select
<1>5. CASE route.strategy = "least_connections"
  <2> DEFINE Load(i)  == counts[Entry(route, i)]
             Loads    == {Load(i) : i \in healthy}
             Lightest == {i \in healthy : \A j \in healthy : Load(i) <= Load(j)}
  <2>1. Loads \in SUBSET Nat /\ Loads # {} OBVIOUS
  <2>2. PICK m \in Loads : \A l \in Loads : m <= l
    <3> HIDE DEF Loads
    <3> QED BY <2>1, Minimum
  <2>3. Lightest # {} BY <2>2
  <2>4. Lightest \in SUBSET Nat /\ Lightest \subseteq healthy BY <1>0
  <2>5. First(Lightest) \in healthy
    <3> HIDE DEF Lightest
    <3> QED BY <2>3, <2>4, FirstInSet
  <2>6. LeastFailures(route, healthy, counts) = First(Lightest)
    BY DEF LeastFailures
  <2> QED BY <1>5, <2>5, <2>6 DEF Select
<1>6. CASE route.strategy \notin {"weighted", "round_robin", "least_connections"}
  BY <1>2, <1>6 DEF Select
<1> QED BY <1>3, <1>4, <1>5, <1>6

\* A priority strategy returns the primary whenever it is healthy.
THEOREM PrimaryFirst ==
  ASSUME NEW n \in Nat, NEW healthy \in SUBSET (1 .. n), 1 \in healthy,
         NEW providers, NEW route, NEW counts, NEW counter,
         route.strategy \in FirstHealthy
  PROVE  Select(providers, route, healthy, counts, counter) = 1
<1>1. First(healthy) \in healthy /\ First(healthy) <= 1
  <2>1. healthy \in SUBSET Nat /\ healthy # {} OBVIOUS
  <2> QED BY <2>1, FirstInSet
<1>2. \A i \in healthy : i \in Nat /\ 1 <= i OBVIOUS
<1>3. First(healthy) \in Nat /\ 1 <= First(healthy) BY <1>1, <1>2
<1>4. First(healthy) = 1 BY <1>1, <1>2, <1>3
<1>5. Select(providers, route, healthy, counts, counter) = First(healthy)
  BY DEF Select, FirstHealthy
<1> QED BY <1>4, <1>5

----------------------------------------------------------------------------
(* The inductive invariant                                                 *)

Unmatched  == {"idle", "metrics", "admin", "global_chain"}
Unselected == Unmatched \cup {"route_chain"}
Unserved   == Unselected \cup {"upstream_peer", "upstream_request",
                               "request_body", "copy_body", "await_response"}
Matched    == {"route_chain", "upstream_peer", "upstream_request",
               "request_body", "copy_body", "await_response", "response_body",
               "panicked", "log_panicked"}
Unanswered == {"idle"} \cup (Hooks \ {"logging"})

\* What a request's hook says about its context.
Phase(r) ==
  /\ pc[r] \in Unanswered => outcome[r] = "" /\ ~skip_logging[r]
  /\ pc[r] \in Unserved => status[r] = ""
  /\ pc[r] \in Unselected => original[r] = None
  /\ pc[r] \in Unmatched => route_index[r] = 0
  /\ pc[r] = "global_chain" => snap[r] # 0
  /\ pc[r] \in Matched => route_index[r] # 0
  /\ (original[r] # None \/ outcome[r] = "503") => route_index[r] # 0
  /\ original[r] # None => original[r] = RouteOf(r).provider
  /\ route_index[r] # 0 =>
       /\ snap[r] # 0
       /\ route_index[r] \in 1 .. Len(built[snap[r]].routes)

Phases == \A r \in Reqs : Phase(r)

\* A breaker never counts more failures than clients saw from its provider.
CreditedFailures ==
  \A g \in 1 .. Len(built), p \in Providers :
    failures[g][p] <= Cardinality(Failed(p))

----------------------------------------------------------------------------
(* Types                                                                   *)

LEMMA BuiltFacts ==
  ASSUME TypeOK
  PROVE  /\ Len(built) \in Nat /\ Hot = Len(built)
         /\ Hot \in 1 .. Len(built) /\ Hot \in 0 .. Len(built)
BY BoundAssumption DEF TypeOK, SharedTypes, Hot

\* What the assumptions say of every configuration in use.
LEMMA ConfigFacts ==
  ASSUME TypeOK, NEW g \in 1 .. Len(built)
  PROVE  /\ built[g] \in Configs
         /\ DOMAIN built[g].providers \subseteq Providers
         /\ built[g].routes \in Seq(Route)
         /\ \A p \in DOMAIN built[g].providers :
              built[g].providers[p].max_fails \in Nat
         /\ failures[g] \in [Providers -> Nat]
         /\ cooling[g] \in [Providers -> BOOLEAN]
<1>1. built[g] \in Configs /\ failures[g] \in [Providers -> Nat]
      /\ cooling[g] \in [Providers -> BOOLEAN]
  BY ElementOfSeq DEF TypeOK, SharedTypes
<1> QED BY <1>1, ConfigsAssumption DEF IsConfig, Provider

\* The route of a matched request.
LEMMA RouteFacts ==
  ASSUME TypeOK, NEW r \in Reqs, Phase(r), route_index[r] # 0
  PROVE  /\ snap[r] \in 1 .. Len(built)
         /\ RouteOf(r) \in Route
         /\ \A i \in 1 .. Len(RouteOf(r).fallback) + 1 :
              Entry(RouteOf(r), i) \in DOMAIN built[snap[r]].providers
<1>1. snap[r] \in 1 .. Len(built)
  <2>1. snap[r] \in 0 .. Len(built) /\ Len(built) \in Nat
    BY BuiltFacts DEF TypeOK, RequestTypes
  <2>2. snap[r] # 0 BY DEF Phase
  <2> QED BY <2>1, <2>2
<1>2. route_index[r] \in 1 .. Len(built[snap[r]].routes)
  BY DEF Phase
<1>3. RouteOf(r) \in Route
  BY <1>1, <1>2, ConfigFacts, ElementOfSeq DEF RouteOf
<1>4. Validate(built[snap[r]])
  BY <1>1, ConfigFacts, ConfigsAssumption
<1> QED BY <1>1, <1>2, <1>3, <1>4 DEF Validate, RouteOf

\* Selection on the snapshot returns a candidate of the route.
LEMMA SelectionFacts ==
  ASSUME TypeOK, NEW r \in Reqs, Phase(r), route_index[r] # 0,
         Healthy(snap[r], RouteOf(r)) # {}
  PROVE  LET route == RouteOf(r)
             i == Select(Providers_(snap[r]), route, Healthy(snap[r], route),
                         failures[snap[r]], rr_counter)
         IN  /\ i \in Healthy(snap[r], route)
             /\ Entry(route, i) \in Providers
             /\ route.provider \in Providers
<1> DEFINE route   == RouteOf(r)
           g       == snap[r]
           healthy == Healthy(g, route)
           n       == Len(route.fallback) + 1
<1>1. g \in 1 .. Len(built) /\ route \in Route BY RouteFacts
<1>2. n \in Nat BY <1>1 DEF Route
<1>3. healthy \in SUBSET (1 .. n) BY DEF Healthy, Candidates
<1>4. \A i \in healthy : Entry(route, i) \in DOMAIN built[g].providers
  BY DEF Healthy, Candidates, Providers_
<1>5. \A i \in healthy : Entry(route, i) \in Providers
  BY <1>1, <1>4, ConfigFacts
<1>6. \A i \in healthy : failures[g][Entry(route, i)] \in Nat
  BY <1>1, <1>5, ConfigFacts
<1>7. rr_counter \in Nat BY DEF TypeOK, SharedTypes
<1>8. Select(Providers_(g), route, healthy, failures[g], rr_counter) \in healthy
  <2> HIDE DEF route, g, healthy, n
  <2>1. healthy # {} BY DEF healthy, g, route
  <2> QED BY <1>2, <1>3, <1>6, <1>7, <2>1, SelectReturnsHealthy
<1>9. route.provider \in Providers BY <1>1 DEF Route
<1> QED BY <1>5, <1>8, <1>9

\* One entry of a sequence of breakers changes.
LEMMA UpdateBreaker ==
  ASSUME NEW S, NEW T, NEW seq \in Seq([S -> T]), NEW g \in 1 .. Len(seq),
         NEW p \in S, NEW v \in T,
         NEW new, new = [seq EXCEPT ![g][p] = v]
  PROVE  new \in Seq([S -> T]) /\ Len(new) = Len(seq)
<1>1. seq[g] \in [S -> T] BY ElementOfSeq
<1>2. [seq[g] EXCEPT ![p] = v] \in [S -> T] BY <1>1
<1>3. new = [seq EXCEPT ![g] = [seq[g] EXCEPT ![p] = v]]
  OBVIOUS
<1> QED BY <1>1, <1>2, <1>3, ExceptSeq

LEMMA OneElement ==
  ASSUME NEW S, NEW e \in S
  PROVE  <<e>> \in Seq(S) /\ Len(<<e>>) = 1
OBVIOUS

LEMMA TypeInit == Init => TypeOK
<1> SUFFICES ASSUME Init PROVE TypeOK
  OBVIOUS
<1>1. PICK c \in InitialConfigs : built = <<c>> BY DEF Init
<1>2. built \in Seq(Configs) /\ Len(built) = 1
  BY <1>1, InitialAssumption
<1>3. 1 \in 1 .. MaxReloads + 1 BY BoundAssumption
<1>4. failures \in Seq([Providers -> Nat]) /\ Len(failures) = 1
  <2>1. [p \in Providers |-> 0] \in [Providers -> Nat] OBVIOUS
  <2>2. <<[p \in Providers |-> 0]>> \in Seq([Providers -> Nat])
        /\ Len(<<[p \in Providers |-> 0]>>) = 1
    BY <2>1, OneElement
  <2> QED BY <2>2 DEF Init
<1>5. cooling \in Seq([Providers -> BOOLEAN]) /\ Len(cooling) = 1
  <2>1. [p \in Providers |-> FALSE] \in [Providers -> BOOLEAN] OBVIOUS
  <2>2. <<[p \in Providers |-> FALSE]>> \in Seq([Providers -> BOOLEAN])
        /\ Len(<<[p \in Providers |-> FALSE]>>) = 1
    BY <2>1, OneElement
  <2> QED BY <2>2 DEF Init
<1>6. SharedTypes
  <2>1. Len(built) = 1 /\ Len(failures) = Len(built) /\ Len(cooling) = Len(built)
    BY <1>2, <1>4, <1>5
  <2>2. rr_counter = 0 /\ active = 0 /\ logs = {}
    BY DEF Init
  <2>3. rr_counter \in Nat /\ active \in Int /\ logs \in SUBSET Reqs
    BY <2>2
  <2> QED BY <1>2, <1>3, <1>4, <1>5, <2>1, <2>3 DEF SharedTypes
<1>7. RequestTypes
  <2>1. 0 \in 0 .. Len(built) BY <1>2
  <2> QED BY <2>1 DEF Init, RequestTypes, Hooks, Finals, Outcomes, Uncounted, Statuses
<1> QED BY <1>6, <1>7 DEF TypeOK

\* The steps of one request.
HooksOf(r) ==
  Arrive(r) \/ RequestFilter(r) \/ Proxy(r) \/ Logging(r)

\* What the request's own variables become.
LEMMA RequestTypesHook ==
  ASSUME TypeOK, Phases, NEW r \in Reqs, HooksOf(r)
  PROVE  RequestTypes'
<1> USE DEF RequestTypes, ctx, breakers, Goto, Answer, EarlyAnswer, Hooks,
            Finals, Outcomes, Uncounted, Statuses
<1>0. RequestTypes /\ Hot \in 0 .. Len(built)
  BY BuiltFacts DEF TypeOK
<1>1. CASE FastPath(r) BY <1>0, <1>1 DEF FastPath
<1>2. ASSUME NEW next \in {"metrics", "admin", "global_chain"}, Enter(r, next)
      PROVE RequestTypes'
  BY <1>0, <1>2 DEF Enter
<1>3. CASE RefuseMethod(r) BY <1>0, <1>3 DEF RefuseMethod
<1>4. CASE Arrive(r)
  BY <1>1, <1>2, <1>3, <1>4
     DEF Arrive, EnterMetrics, EnterAdmin, EnterApi
<1>5. CASE AnswerMetrics(r) BY <1>0, <1>5 DEF AnswerMetrics
<1>6. CASE AnswerAdmin(r) BY <1>0, <1>6 DEF AnswerAdmin
<1>7. CASE FilterError(r) BY <1>0, <1>7 DEF FilterError
<1>8. CASE PluginRespond(r) BY <1>0, <1>8 DEF PluginRespond
<1>9. CASE NoRoute(r) BY <1>0, <1>9 DEF NoRoute
<1>10. CASE MatchRoute(r)
  <2>1. PICK path \in Paths :
          LET matching == Matching(built[snap[r]], path)
          IN  /\ matching # {}
              /\ route_index' = [route_index EXCEPT ![r] = First(matching)]
    BY <1>10 DEF MatchRoute
  <2> DEFINE matching == Matching(built[snap[r]], path)
  <2>2. matching \in SUBSET Nat BY DEF Matching
  <2>3. First(matching) \in Nat
    <3>1. matching # {} BY <2>1
    <3> HIDE DEF matching
    <3> QED BY <2>2, <3>1, FirstInSet
  <2>4. route_index' \in [Reqs -> Nat] BY <1>0, <2>1, <2>3
  <2> QED BY <1>0, <1>10, <2>4 DEF MatchRoute
<1>11. CASE NoProvider(r) BY <1>0, <1>11 DEF NoProvider
<1>12. CASE SelectProvider(r)
  <2>1. Phase(r) /\ route_index[r] # 0
    BY <1>12 DEF Phases, Phase, SelectProvider, Matched
  <2>2. Healthy(snap[r], RouteOf(r)) # {} BY <1>12 DEF SelectProvider
  <2>3. provider_name' \in [Reqs -> Providers \cup {None}]
    BY <1>0, <1>12, <2>1, <2>2, SelectionFacts DEF SelectProvider
  <2>4. original' \in [Reqs -> Providers \cup {None}]
    BY <1>0, <1>12, <2>1, <2>2, SelectionFacts DEF SelectProvider
  <2> QED BY <1>0, <1>12, <2>3, <2>4 DEF SelectProvider
<1>13. CASE RequestFilter(r)
  BY <1>5, <1>6, <1>7, <1>8, <1>9, <1>10, <1>11, <1>12, <1>13
     DEF RequestFilter
<1>14. CASE ProviderGone(r) BY <1>0, <1>14 DEF ProviderGone
<1>15. CASE UpstreamPeer(r) BY <1>0, <1>15 DEF UpstreamPeer
<1>16. CASE UpstreamRequestFilter(r)
  BY <1>0, <1>16 DEF UpstreamRequestFilter, ThenChains
<1>17. CASE RequestBodyFilter(r) BY <1>0, <1>17 DEF RequestBodyFilter
<1>18. CASE GuardrailBlock(r) BY <1>0, <1>18 DEF GuardrailBlock
<1>19. CASE ResponseFilter(r)
  BY <1>0, <1>19 DEF ResponseFilter, ThenChains
<1>20. CASE ResponseBodyFilter(r)
  BY <1>0, <1>20 DEF ResponseBodyFilter, ThenChains
<1>21. CASE ProxyError(r) BY <1>0, <1>21 DEF ProxyError
<1>22. CASE Proxy(r)
  BY <1>14, <1>15, <1>16, <1>17, <1>18, <1>19, <1>20, <1>21, <1>22
     DEF Proxy
<1>23. CASE Logging(r) BY <1>0, <1>23 DEF Logging
<1> QED BY <1>4, <1>13, <1>22, <1>23 DEF HooksOf

\* The breaker update of a response.
LEMMA RecordStatusTypes ==
  ASSUME TypeOK, NEW p \in Providers, NEW s \in Statuses,
         RecordStatus(Hot, p, s)
  PROVE  /\ failures' \in Seq([Providers -> Nat])
         /\ Len(failures') = Len(failures)
         /\ cooling' \in Seq([Providers -> BOOLEAN])
         /\ Len(cooling') = Len(cooling)
         /\ \A g \in 1 .. Len(built) : \A q \in Providers :
              failures'[g][q] <= IF s = "fail" /\ g = Hot /\ q = p
                                   THEN failures[g][q] + 1 ELSE failures[g][q]
<1>1. /\ failures \in Seq([Providers -> Nat])
      /\ cooling \in Seq([Providers -> BOOLEAN])
      /\ Len(failures) = Len(built) /\ Len(cooling) = Len(built)
      /\ Hot \in 1 .. Len(built)
  BY BuiltFacts DEF TypeOK, SharedTypes
<1>2. \A g \in 1 .. Len(built) : failures[g] \in [Providers -> Nat]
  BY ConfigFacts
<1>3. failures[Hot][p] \in Nat /\ failures[Hot][p] + 1 \in Nat
  BY <1>1, <1>2
<1>4. CASE s = "fail"
  <2> DEFINE n == failures[Hot][p] + 1
  <2>1. /\ failures' = [failures EXCEPT ![Hot][p] = n]
        /\ cooling' = [cooling EXCEPT ![Hot][p] = TRUE]
    BY <1>4 DEF RecordStatus
  <2>2. n \in Nat /\ Hot \in 1 .. Len(failures) /\ Hot \in 1 .. Len(cooling)
    BY <1>1, <1>3
  <2>3. n = failures[Hot][p] + 1 OBVIOUS
  <2> HIDE DEF n
  <2>4. failures' \in Seq([Providers -> Nat]) /\ Len(failures') = Len(failures)
    BY <1>1, <2>1, <2>2, UpdateBreaker
  <2>5. /\ cooling' \in Seq([Providers -> BOOLEAN])
        /\ Len(cooling') = Len(cooling)
    BY <1>1, <2>1, <2>2, UpdateBreaker
  <2>6. ASSUME NEW g \in 1 .. Len(built), NEW q \in Providers
        PROVE  failures'[g][q] <= IF s = "fail" /\ g = Hot /\ q = p
                                    THEN failures[g][q] + 1 ELSE failures[g][q]
    <3>1. failures[g][q] \in Nat BY <1>2
    <3>2. failures'[g][q] = IF g = Hot /\ q = p THEN n ELSE failures[g][q]
      BY <1>1, <1>2, <2>1, LenProperties
    <3> QED BY <1>4, <2>2, <2>3, <3>1, <3>2
  <2> QED BY <2>4, <2>5, <2>6
<1>5. CASE s = "2xx"
  <2>1. failures' = [failures EXCEPT ![Hot][p] = 0] /\ cooling' = cooling
    BY <1>5 DEF RecordStatus
  <2>2. failures' \in Seq([Providers -> Nat]) /\ Len(failures') = Len(failures)
    BY <1>1, <2>1, UpdateBreaker
  <2>3. ASSUME NEW g \in 1 .. Len(built), NEW q \in Providers
        PROVE  failures'[g][q] <= IF s = "fail" /\ g = Hot /\ q = p
                                    THEN failures[g][q] + 1 ELSE failures[g][q]
    <3>1. failures[g][q] \in Nat BY <1>2
    <3>2. failures'[g][q] = IF g = Hot /\ q = p THEN 0 ELSE failures[g][q]
      BY <1>1, <1>2, <2>1, LenProperties
    <3> QED BY <1>5, <3>1, <3>2
  <2> QED BY <1>1, <2>1, <2>2, <2>3
<1>6. CASE s \notin {"fail", "2xx"}
  <2>1. failures' = failures /\ cooling' = cooling
    BY <1>6 DEF RecordStatus, breakers
  <2> QED BY <1>1, <1>2, <1>6, <2>1
<1> QED BY <1>4, <1>5, <1>6

\* What a response does to the breakers.
LEMMA ResponseFacts ==
  ASSUME TypeOK, NEW r \in Reqs, ResponseFilter(r)
  PROVE  \E s \in Statuses \ {""} :
           /\ status' = [status EXCEPT ![r] = s]
           /\ \/ UNCHANGED breakers
              \/ /\ provider_name[r] \in Providers
                 /\ RecordStatus(Hot, provider_name[r], s)
<1>1. PICK s \in Statuses \ {""} :
        /\ status' = [status EXCEPT ![r] = s]
        /\ IF Exists(r) THEN RecordStatus(Hot, provider_name[r], s)
                        ELSE UNCHANGED breakers
  BY DEF ResponseFilter
<1>2. Exists(r) => provider_name[r] \in Providers
  BY BuiltFacts, ConfigFacts DEF Exists, Providers_
<1> QED BY <1>1, <1>2

LEMMA SharedTypesHook ==
  ASSUME TypeOK, NEW r \in Reqs, HooksOf(r)
  PROVE  SharedTypes' /\ built' = built
<1> USE DEF ctx, breakers, Goto, Answer, EarlyAnswer
<1>0. SharedTypes BY DEF TypeOK
<1>1. CASE UNCHANGED <<built, failures, cooling>>
  <2>0. active \in Int /\ rr_counter \in Nat /\ logs \in SUBSET Reqs
    BY <1>0 DEF SharedTypes
  <2>1. CASE Arrive(r)
    <3>1. rr_counter' = rr_counter /\ logs' = logs
      BY <2>1 DEF Arrive, FastPath, EnterMetrics, EnterAdmin, EnterApi, Enter,
                  RefuseMethod
    <3>2. active' \in {active, active + 1, (active + 1) - 1}
      BY <2>1 DEF Arrive, FastPath, EnterMetrics, EnterAdmin, EnterApi, Enter,
                  RefuseMethod
    <3> QED BY <1>0, <1>1, <2>0, <3>1, <3>2 DEF SharedTypes
  <2>2. CASE RequestFilter(r)
    <3>1. rr_counter' \in {rr_counter, rr_counter + 1} /\ logs' = logs
      BY <2>2 DEF RequestFilter, AnswerMetrics, AnswerAdmin, FilterError,
                  PluginRespond, NoRoute, MatchRoute, NoProvider, SelectProvider
    <3>2. active' \in {active, active - 1}
      BY <2>2 DEF RequestFilter, AnswerMetrics, AnswerAdmin, FilterError,
                  PluginRespond, NoRoute, MatchRoute, NoProvider, SelectProvider
    <3> QED BY <1>0, <1>1, <2>0, <3>1, <3>2 DEF SharedTypes
  <2>3. CASE Proxy(r)
    <3>1. UNCHANGED <<rr_counter, logs, active>>
      BY <2>3 DEF Proxy, ProviderGone, UpstreamPeer, UpstreamRequestFilter,
                  RequestBodyFilter, GuardrailBlock, ResponseFilter,
                  ResponseBodyFilter, ProxyError
    <3> QED BY <1>0, <1>1, <2>0, <3>1 DEF SharedTypes
  <2>4. CASE Logging(r)
    <3>1. /\ rr_counter' = rr_counter /\ logs' \in SUBSET Reqs
          /\ active' \in {active, active - 1}
      BY <2>0, <2>4 DEF Logging
    <3> QED BY <1>0, <1>1, <2>0, <3>1 DEF SharedTypes
  <2> QED BY <2>1, <2>2, <2>3, <2>4 DEF HooksOf
<1>2. CASE ResponseFilter(r)
  <2>1. PICK s \in Statuses \ {""} :
          \/ UNCHANGED breakers
          \/ /\ provider_name[r] \in Providers
             /\ RecordStatus(Hot, provider_name[r], s)
    BY <1>2, ResponseFacts
  <2>2. UNCHANGED <<built, rr_counter, active, logs>>
    BY <1>2 DEF ResponseFilter
  <2>3. CASE UNCHANGED breakers
    BY <1>0, <2>2, <2>3 DEF SharedTypes
  <2>4. CASE /\ provider_name[r] \in Providers
             /\ RecordStatus(Hot, provider_name[r], s)
    <3>1. /\ failures' \in Seq([Providers -> Nat])
          /\ Len(failures') = Len(failures)
          /\ cooling' \in Seq([Providers -> BOOLEAN])
          /\ Len(cooling') = Len(cooling)
      BY <2>4, RecordStatusTypes
    <3> QED BY <1>0, <2>2, <3>1 DEF SharedTypes
  <2> QED BY <2>1, <2>3, <2>4
<1>3. CASE ~ResponseFilter(r)
  <2>1. UNCHANGED <<built, failures, cooling>>
    BY <1>3 DEF HooksOf, Arrive, RequestFilter, Proxy, FastPath,
       EnterMetrics, EnterAdmin, EnterApi, Enter, RefuseMethod,
       AnswerMetrics, AnswerAdmin, FilterError, PluginRespond, NoRoute,
       MatchRoute, NoProvider, SelectProvider, ProviderGone, UpstreamPeer,
       UpstreamRequestFilter, RequestBodyFilter, GuardrailBlock,
       ResponseBodyFilter, ProxyError, Logging
  <2> QED BY <1>1, <2>1
<1> QED BY <1>2, <1>3

\* Reload adds one generation; the passing of time touches only cooling.
LEMMA ReloadFacts ==
  ASSUME TypeOK, Reload
  PROVE  /\ Len(built') = Len(built) + 1
         /\ \A g \in 1 .. Len(built) :
              /\ built'[g] = built[g]
              /\ failures'[g] = failures[g]
         /\ failures'[Len(built) + 1] = [p \in Providers |-> 0]
         /\ TypeOK'
<1>1. PICK c \in Configs : built' = Append(built, c) BY DEF Reload
<1>2. /\ built \in Seq(Configs) /\ Len(built) \in Nat
      /\ failures \in Seq([Providers -> Nat]) /\ Len(failures) = Len(built)
      /\ cooling \in Seq([Providers -> BOOLEAN]) /\ Len(cooling) = Len(built)
  BY BuiltFacts DEF TypeOK, SharedTypes
<1>3. /\ [p \in Providers |-> 0] \in [Providers -> Nat]
      /\ [p \in Providers |-> FALSE] \in [Providers -> BOOLEAN]
  OBVIOUS
<1>4. /\ built' \in Seq(Configs) /\ Len(built') = Len(built) + 1
      /\ \A g \in 1 .. Len(built) : built'[g] = built[g]
  BY <1>1, <1>2
<1>5. /\ failures' \in Seq([Providers -> Nat])
      /\ Len(failures') = Len(failures) + 1
      /\ \A g \in 1 .. Len(failures) : failures'[g] = failures[g]
      /\ failures'[Len(failures) + 1] = [p \in Providers |-> 0]
  <2> DEFINE fresh == [p \in Providers |-> 0]
  <2>1. failures' = Append(failures, fresh) /\ fresh \in [Providers -> Nat]
    BY <1>3 DEF Reload
  <2> HIDE DEF fresh
  <2>2. /\ failures' \in Seq([Providers -> Nat])
        /\ Len(failures') = Len(failures) + 1
        /\ \A g \in 1 .. Len(failures) : failures'[g] = failures[g]
        /\ failures'[Len(failures) + 1] = fresh
    BY <1>2, <2>1
  <2> QED BY <2>2 DEF fresh
<1>6. /\ cooling' \in Seq([Providers -> BOOLEAN])
      /\ Len(cooling') = Len(cooling) + 1
  BY <1>2, <1>3 DEF Reload
<1>7. SharedTypes'
  <2>1. Len(built) + 1 \in 1 .. MaxReloads + 1
    BY <1>2, BoundAssumption DEF Reload
  <2> QED BY <1>2, <1>4, <1>5, <1>6, <2>1
          DEF SharedTypes, TypeOK, Reload
<1>8. RequestTypes'
  <2>1. RequestTypes BY DEF TypeOK
  <2>2. \A n \in 0 .. Len(built) : n \in 0 .. Len(built')
    BY <1>2, <1>4
  <2> QED BY <2>1, <2>2 DEF RequestTypes, Reload, ctx
<1> QED BY <1>2, <1>4, <1>5, <1>7, <1>8 DEF TypeOK

LEMMA TimeoutFacts ==
  ASSUME TypeOK, NEW g \in 1 .. Len(built), NEW p \in Providers,
         TimeoutElapses(g, p)
  PROVE  TypeOK'
<1>1. cooling' = [cooling EXCEPT ![g][p] = FALSE]
  BY DEF TimeoutElapses
<1>2. cooling \in Seq([Providers -> BOOLEAN]) /\ Len(cooling) = Len(built)
  BY DEF TypeOK, SharedTypes
<1>3. cooling' \in Seq([Providers -> BOOLEAN]) /\ Len(cooling') = Len(built)
  BY <1>1, <1>2, UpdateBreaker
<1> QED BY <1>3 DEF TimeoutElapses, TypeOK, SharedTypes, RequestTypes, ctx

LEMMA TypeStep ==
  ASSUME TypeOK, Phases, [Next]_vars
  PROVE  TypeOK'
<1>1. ASSUME NEW r \in Reqs, HooksOf(r) PROVE TypeOK'
  BY <1>1, RequestTypesHook, SharedTypesHook DEF TypeOK
<1>2. CASE Reload BY <1>2, ReloadFacts
<1>3. ASSUME NEW g \in 1 .. Len(built), NEW p \in Providers,
             TimeoutElapses(g, p)
      PROVE  TypeOK'
  BY <1>3, TimeoutFacts
<1>4. CASE UNCHANGED vars
  BY <1>4 DEF vars, ctx, breakers, TypeOK, SharedTypes, RequestTypes
<1> QED BY <1>1, <1>2, <1>3, <1>4 DEF Next, HooksOf, AllFinished

----------------------------------------------------------------------------
(* The phases of a request                                                 *)

\* A hook touches the context of its own request only.
LEMMA OthersKeep ==
  ASSUME TypeOK, NEW r \in Reqs, HooksOf(r), NEW q \in Reqs, q # r
  PROVE  /\ pc'[q] = pc[q] /\ outcome'[q] = outcome[q]
         /\ snap'[q] = snap[q] /\ route_index'[q] = route_index[q]
         /\ provider_name'[q] = provider_name[q] /\ original'[q] = original[q]
         /\ skip_logging'[q] = skip_logging[q] /\ status'[q] = status[q]
<1> USE DEF ctx, Goto, Answer, EarlyAnswer
<1>0. RequestTypes BY DEF TypeOK
<1>1. CASE Arrive(r)
  BY <1>0, <1>1 DEF RequestTypes, Arrive, FastPath, EnterMetrics, EnterAdmin,
     EnterApi, Enter, RefuseMethod
<1>2. CASE RequestFilter(r)
  BY <1>0, <1>2 DEF RequestTypes, RequestFilter, AnswerMetrics, AnswerAdmin,
     FilterError, PluginRespond, NoRoute, MatchRoute, NoProvider, SelectProvider
<1>3. CASE Proxy(r)
  BY <1>0, <1>3 DEF RequestTypes, Proxy, ProviderGone, UpstreamPeer,
     UpstreamRequestFilter, RequestBodyFilter, GuardrailBlock, ResponseFilter,
     ResponseBodyFilter, ProxyError, ThenChains
<1>4. CASE Logging(r)
  BY <1>0, <1>4 DEF RequestTypes, Logging
<1> QED BY <1>1, <1>2, <1>3, <1>4 DEF HooksOf

LEMMA PhaseOfActor ==
  ASSUME TypeOK, Phases, NEW r \in Reqs, HooksOf(r)
  PROVE  Phase(r)'
<1> USE DEF Phase, Unmatched, Unselected, Unserved, Unanswered, Matched, Hooks,
            RouteOf, ctx, Goto, Answer, EarlyAnswer, RequestTypes
<1>0. Phase(r) /\ RequestTypes /\ built' = built
      /\ (outcome[r] = "503" => pc[r] \notin Unanswered)
  BY SharedTypesHook DEF Phases, TypeOK
<1>1. CASE FastPath(r) BY <1>0, <1>1 DEF FastPath
<1>2. ASSUME NEW next \in {"metrics", "admin", "global_chain"}, Enter(r, next)
      PROVE  Phase(r)'
  <2>1. Hot # 0 BY BuiltFacts
  <2> QED BY <1>0, <1>2, <2>1 DEF Enter
<1>3. CASE RefuseMethod(r) BY <1>0, <1>3 DEF RefuseMethod
<1>4. CASE Arrive(r)
  BY <1>1, <1>2, <1>3, <1>4
     DEF Arrive, EnterMetrics, EnterAdmin, EnterApi
<1>5. CASE AnswerMetrics(r) BY <1>0, <1>5 DEF AnswerMetrics
<1>6. CASE AnswerAdmin(r) BY <1>0, <1>6 DEF AnswerAdmin
<1>7. CASE FilterError(r) BY <1>0, <1>7 DEF FilterError
<1>8. CASE PluginRespond(r) BY <1>0, <1>8 DEF PluginRespond
<1>9. CASE NoRoute(r) BY <1>0, <1>9 DEF NoRoute
<1>10. CASE MatchRoute(r)
  <2>1. PICK path \in Paths :
          LET matching == Matching(built[snap[r]], path)
          IN  /\ matching # {}
              /\ route_index' = [route_index EXCEPT ![r] = First(matching)]
    BY <1>10 DEF MatchRoute
  <2> DEFINE matching == Matching(built[snap[r]], path)
  <2>2. First(matching) \in 1 .. Len(built[snap[r]].routes)
    <3>1. matching # {} /\ matching \in SUBSET Nat
          /\ matching \subseteq 1 .. Len(built[snap[r]].routes)
      BY <2>1 DEF Matching
    <3> HIDE DEF matching
    <3> QED BY <3>1, FirstInSet
  <2>3. route_index'[r] \in 1 .. Len(built[snap[r]].routes)
    BY <1>0, <2>1, <2>2
  <2>4. route_index'[r] # 0 BY <2>3
  <2> QED BY <1>0, <1>10, <2>3, <2>4 DEF MatchRoute
<1>11. CASE NoProvider(r) BY <1>0, <1>11 DEF NoProvider
<1>12. CASE SelectProvider(r) BY <1>0, <1>12 DEF SelectProvider
<1>13. CASE RequestFilter(r)
  BY <1>5, <1>6, <1>7, <1>8, <1>9, <1>10, <1>11, <1>12, <1>13
     DEF RequestFilter
<1>14. CASE ProviderGone(r) BY <1>0, <1>14 DEF ProviderGone
<1>15. CASE UpstreamPeer(r) BY <1>0, <1>15 DEF UpstreamPeer
<1>16. CASE UpstreamRequestFilter(r)
  BY <1>0, <1>16 DEF UpstreamRequestFilter, ThenChains
<1>17. CASE RequestBodyFilter(r) BY <1>0, <1>17 DEF RequestBodyFilter
<1>18. CASE GuardrailBlock(r) BY <1>0, <1>18 DEF GuardrailBlock
<1>19. CASE ResponseFilter(r)
  BY <1>0, <1>19 DEF ResponseFilter, ThenChains
<1>20. CASE ResponseBodyFilter(r)
  BY <1>0, <1>20 DEF ResponseBodyFilter, ThenChains
<1>21. CASE ProxyError(r) BY <1>0, <1>21 DEF ProxyError
<1>22. CASE Proxy(r)
  BY <1>14, <1>15, <1>16, <1>17, <1>18, <1>19, <1>20, <1>21, <1>22
     DEF Proxy
<1>23. CASE Logging(r) BY <1>0, <1>23 DEF Logging
<1> QED BY <1>4, <1>13, <1>22, <1>23 DEF HooksOf

LEMMA PhasesStep ==
  ASSUME TypeOK, Phases, [Next]_vars
  PROVE  Phases'
<1>1. ASSUME NEW r \in Reqs, HooksOf(r) PROVE Phases'
  <2>1. ASSUME NEW q \in Reqs, q # r PROVE Phase(q)'
    <3>1. built' = built BY <1>1, SharedTypesHook
    <3> QED BY <1>1, <2>1, <3>1, OthersKeep, ZenonT(40) DEF Phases, Phase, RouteOf
  <2> QED BY <1>1, <2>1, PhaseOfActor DEF Phases
<1>2. CASE Reload
  <2>1. ASSUME NEW q \in Reqs PROVE Phase(q)'
    <3>1. Phase(q) /\ snap[q] \in 0 .. Len(built) /\ Len(built) \in Nat
      BY BuiltFacts DEF Phases, TypeOK, RequestTypes
    <3>2. snap[q] # 0 => built'[snap[q]] = built[snap[q]]
      BY <1>2, <3>1, ReloadFacts
    <3> QED BY <1>2, <3>1, <3>2 DEF Phase, RouteOf, Reload, ctx
  <2> QED BY <2>1 DEF Phases
<1>3. ASSUME NEW g \in 1 .. Len(built), NEW p \in Providers,
             TimeoutElapses(g, p)
      PROVE  Phases'
  BY <1>3 DEF TimeoutElapses, Phases, Phase, RouteOf, ctx
<1>4. CASE UNCHANGED vars
  BY <1>4 DEF vars, ctx, Phases, Phase, RouteOf
<1> QED BY <1>1, <1>2, <1>3, <1>4 DEF Next, HooksOf, AllFinished

LEMMA PhasesInit == Init => Phases
BY ZenonT(40) DEF Init, Phases, Phase, Unmatched, Unselected, Unserved, Unanswered, Matched,
       Hooks

\* Every variable has its type in every reachable state.
THEOREM TypeCorrect == Spec => []TypeOK
<1> DEFINE Typed == TypeOK /\ Phases
<1>1. Init => Typed BY TypeInit, PhasesInit
<1>2. Typed /\ [Next]_vars => Typed' BY TypeStep, PhasesStep
<1>3. Typed => TypeOK OBVIOUS
<1> QED BY <1>1, <1>2, <1>3, PTL DEF Spec

----------------------------------------------------------------------------
(* The gauge                                                               *)

\* The three ways a step moves the accounts.
LEMMA Balance ==
  ASSUME NEW A \in SUBSET Reqs, NEW C \in SUBSET Reqs, NEW r \in Reqs
  PROVE  /\ Cardinality(A) \in Nat /\ Cardinality(C) \in Nat
         /\ r \notin A => Cardinality(A \cup {r}) = Cardinality(A) + 1
         /\ r \notin C => Cardinality(C \cup {r}) = Cardinality(C) + 1
         /\ r \in C => Cardinality(C \ {r}) = Cardinality(C) - 1
<1>1. IsFiniteSet(A) /\ IsFiniteSet(C)
  BY ReqsAssumption, FS_Subset
<1> QED BY <1>1, FS_CardinalityType, FS_AddElement, FS_RemoveElement

\* What a hook can do to the gauge and to its request's place in the accounts.
Answered(r) == outcome[r] \in Uncounted
InFlight(r) == pc[r] \in Hooks \cup {"panicked"} /\ ~skip_logging[r]

Keeps(r)  == /\ (Answered(r)' <=> Answered(r)) /\ (InFlight(r)' <=> InFlight(r))
             /\ active' = active
Enters(r) == /\ (Answered(r)' <=> Answered(r)) /\ ~InFlight(r) /\ InFlight(r)'
             /\ active' = active + 1
Leaves(r) == /\ (Answered(r)' <=> Answered(r)) /\ InFlight(r) /\ ~InFlight(r)'
             /\ active' = active - 1
Early(r)  == /\ ~Answered(r) /\ Answered(r)' /\ (InFlight(r)' <=> InFlight(r))
             /\ active' = active - 1
AtOnce(r) == /\ ~Answered(r) /\ Answered(r)' /\ ~InFlight(r) /\ InFlight(r)'
             /\ active' = active

Move(r) == Keeps(r) \/ Enters(r) \/ Leaves(r) \/ Early(r) \/ AtOnce(r)

LEMMA HookMoves ==
  ASSUME TypeOK, Phases, NEW r \in Reqs, HooksOf(r)
  PROVE  Move(r)
<1> USE DEF Answered, InFlight, Unanswered, Hooks, Uncounted,
            ctx, Goto, Answer, EarlyAnswer, RequestTypes
<1>0. /\ RequestTypes /\ active \in Int
      /\ pc[r] \in Unanswered => outcome[r] = "" /\ ~skip_logging[r]
  BY DEF Phases, Phase, TypeOK, SharedTypes
<1>1. CASE FastPath(r)
  <2>1. CASE outcome'[r] = "fast_failed"
    <3>1. AtOnce(r) BY <1>0, <1>1, <2>1 DEF FastPath, AtOnce
    <3> QED BY <3>1 DEF Move
  <2>2. CASE outcome'[r] # "fast_failed"
    <3>1. Keeps(r) BY <1>0, <1>1, <2>2 DEF FastPath, Keeps
    <3> QED BY <3>1 DEF Move
  <2> QED BY <2>1, <2>2
<1>2. ASSUME NEW next \in {"metrics", "admin", "global_chain"}, Enter(r, next)
      PROVE  Move(r)
  <2>1. Enters(r) BY <1>0, <1>2 DEF Enter, Enters
  <2> QED BY <2>1 DEF Move
<1>3. CASE RefuseMethod(r)
  <2>1. active' = active
    <3>1. active \in Int /\ active' = (active + 1) - 1
      BY <1>0, <1>3 DEF RefuseMethod
    <3> QED BY <3>1
  <2>2. /\ ~Answered(r) /\ Answered(r)'
        /\ ~InFlight(r) /\ InFlight(r)'
    BY <1>0, <1>3 DEF RefuseMethod
  <2> QED BY <2>1, <2>2 DEF Move, AtOnce
<1>4. CASE Arrive(r)
  BY <1>1, <1>2, <1>3, <1>4
     DEF Arrive, EnterMetrics, EnterAdmin, EnterApi
<1>5. CASE AnswerMetrics(r)
  <2>1. Leaves(r) BY <1>0, <1>5 DEF AnswerMetrics, Leaves
  <2> QED BY <2>1 DEF Move
<1>6. CASE AnswerAdmin(r) \/ PluginRespond(r) \/ NoRoute(r) \/ NoProvider(r)
  <2>1. Early(r)
    BY <1>0, <1>6 DEF AnswerAdmin, PluginRespond, NoRoute, NoProvider, Early
  <2> QED BY <2>1 DEF Move
<1>7. CASE FilterError(r) \/ MatchRoute(r) \/ SelectProvider(r)
  <2>1. Keeps(r)
    BY <1>0, <1>7 DEF FilterError, MatchRoute, SelectProvider, Keeps
  <2> QED BY <2>1 DEF Move
<1>8. CASE Proxy(r)
  <2>1. Keeps(r)
    BY <1>0, <1>8 DEF Proxy, ProviderGone, UpstreamPeer,
       UpstreamRequestFilter, RequestBodyFilter, GuardrailBlock,
       ResponseFilter, ResponseBodyFilter, ProxyError, ThenChains, Keeps
  <2> QED BY <2>1 DEF Move
<1>9. CASE Logging(r)
  <2>1. CASE skip_logging[r]
    <3>1. Keeps(r) BY <1>0, <1>9, <2>1 DEF Logging, Keeps
    <3> QED BY <3>1 DEF Move
  <2>2. CASE ~skip_logging[r]
    <3>1. Leaves(r) BY <1>0, <1>9, <2>2 DEF Logging, Leaves
    <3> QED BY <3>1 DEF Move
  <2> QED BY <2>1, <2>2
<1> QED BY <1>4, <1>5, <1>6, <1>7, <1>8, <1>9 DEF HooksOf, RequestFilter

LEMMA AccountsHook ==
  ASSUME TypeOK, Phases, GaugeAccounts, NEW r \in Reqs, HooksOf(r)
  PROVE  GaugeAccounts'
<1> DEFINE A  == GoneUncounted
           C  == Counted
           A1 == GoneUncounted'
           C1 == Counted'
<1>1. active \in Int /\ active + Cardinality(A) = Cardinality(C)
  BY DEF TypeOK, SharedTypes, GaugeAccounts
<1>2. A \in SUBSET Reqs /\ C \in SUBSET Reqs
  BY DEF GoneUncounted, Counted
<1>3. A1 \in SUBSET Reqs /\ C1 \in SUBSET Reqs
  BY DEF GoneUncounted, Counted
<1>4. /\ Cardinality(A) \in Nat /\ Cardinality(C) \in Nat
      /\ r \notin A => Cardinality(A \cup {r}) = Cardinality(A) + 1
      /\ r \notin C => Cardinality(C \cup {r}) = Cardinality(C) + 1
      /\ r \in C => Cardinality(C \ {r}) = Cardinality(C) - 1
  <2> HIDE DEF A, C
  <2> QED BY <1>2, Balance
<1>5. \A q \in Reqs \ {r} :
        (q \in A1 <=> q \in A) /\ (q \in C1 <=> q \in C)
  BY OthersKeep DEF GoneUncounted, Counted
<1>6. /\ r \in A <=> Answered(r)
      /\ r \in C <=> InFlight(r)
      /\ r \in A1 <=> Answered(r)'
      /\ r \in C1 <=> InFlight(r)'
  BY DEF GoneUncounted, Counted, Answered, InFlight
<1>7. active' + Cardinality(A1) = Cardinality(C1)
  <2> HIDE DEF A, C, A1, C1
  <2>1. CASE Keeps(r)
    <3>1. A1 = A /\ C1 = C BY <1>2, <1>3, <1>5, <1>6, <2>1 DEF Keeps
    <3> QED BY <1>1, <2>1, <3>1 DEF Keeps
  <2>2. CASE Enters(r)
    <3>1. A1 = A /\ C1 = C \cup {r} /\ r \notin C
      BY <1>2, <1>3, <1>5, <1>6, <2>2 DEF Enters
    <3> QED BY <1>1, <1>4, <2>2, <3>1 DEF Enters
  <2>3. CASE Leaves(r)
    <3>1. A1 = A /\ C1 = C \ {r} /\ r \in C
      BY <1>2, <1>3, <1>5, <1>6, <2>3 DEF Leaves
    <3> QED BY <1>1, <1>4, <2>3, <3>1 DEF Leaves
  <2>4. CASE Early(r)
    <3>1. A1 = A \cup {r} /\ r \notin A /\ C1 = C
      BY <1>2, <1>3, <1>5, <1>6, <2>4 DEF Early
    <3> QED BY <1>1, <1>4, <2>4, <3>1 DEF Early
  <2>5. CASE AtOnce(r)
    <3>1. A1 = A \cup {r} /\ r \notin A /\ C1 = C \cup {r} /\ r \notin C
      BY <1>2, <1>3, <1>5, <1>6, <2>5 DEF AtOnce
    <3> QED BY <1>1, <1>4, <2>5, <3>1 DEF AtOnce
  <2> QED BY <2>1, <2>2, <2>3, <2>4, <2>5, HookMoves DEF Move
<1> QED BY <1>7 DEF GaugeAccounts

LEMMA AccountsInit == Init => GaugeAccounts
<1> SUFFICES ASSUME Init PROVE GaugeAccounts
  OBVIOUS
<1>1. GoneUncounted = {} /\ Counted = {} /\ active = 0
  BY DEF Init, GoneUncounted, Counted, Uncounted, Hooks
<1> QED BY <1>1, FS_EmptySet DEF GaugeAccounts

LEMMA AccountsStep ==
  ASSUME TypeOK, Phases, GaugeAccounts, [Next]_vars
  PROVE  GaugeAccounts'
<1>1. CASE \E r \in Reqs : HooksOf(r) BY <1>1, AccountsHook
<1>2. CASE UNCHANGED <<active, pc, skip_logging, outcome>>
  BY <1>2 DEF GaugeAccounts, GoneUncounted, Counted
<1> QED BY <1>1, <1>2 DEF Next, HooksOf, AllFinished, Reload, TimeoutElapses,
        vars, ctx

\* active_requests is exactly the requests in flight and panicked, less the
\* answers request_filter wrote early.
THEOREM GaugeCorrect == Spec => []GaugeAccounts
<1> DEFINE Kept == TypeOK /\ Phases /\ GaugeAccounts
<1>1. Init => Kept BY TypeInit, PhasesInit, AccountsInit
<1>2. Kept /\ [Next]_vars => Kept' BY TypeStep, PhasesStep, AccountsStep
<1>3. Kept => GaugeAccounts OBVIOUS
<1> QED BY <1>1, <1>2, <1>3, PTL DEF Spec

----------------------------------------------------------------------------
(* Breakers                                                                *)

\* Once matched, a request keeps its route whatever is reloaded.
LEMMA RouteStable ==
  ASSUME TypeOK, Phases, [Next]_vars, NEW q \in Reqs, route_index[q] # 0
  PROVE  /\ snap'[q] = snap[q] /\ route_index'[q] = route_index[q]
         /\ built'[snap[q]] = built[snap[q]]
         /\ RouteOf(q)' = RouteOf(q)
<1> USE DEF ctx, Goto, Answer, EarlyAnswer
<1>0. /\ RequestTypes /\ pc[q] \notin Unmatched /\ snap[q] \in 1 .. Len(built)
  BY RouteFacts DEF TypeOK, Phases, Phase
<1>1. ASSUME NEW r \in Reqs, HooksOf(r)
      PROVE  snap'[q] = snap[q] /\ route_index'[q] = route_index[q]
  <2>1. CASE q # r BY <1>1, <2>1, OthersKeep
  <2>2. CASE q = r
    BY <1>0, <1>1, <2>2
       DEF HooksOf, Arrive, FastPath, EnterMetrics, EnterAdmin, EnterApi, Enter,
       RefuseMethod, RequestFilter, AnswerMetrics, AnswerAdmin, FilterError,
       PluginRespond, NoRoute, MatchRoute, NoProvider, SelectProvider, Proxy,
       ProviderGone, UpstreamPeer, UpstreamRequestFilter, RequestBodyFilter,
       GuardrailBlock, ResponseFilter, ResponseBodyFilter, ProxyError, Logging,
       Unmatched
  <2> QED BY <2>1, <2>2
<1>2. ASSUME NEW r \in Reqs, HooksOf(r)
      PROVE  built'[snap[q]] = built[snap[q]]
  BY <1>2, SharedTypesHook
<1>3. /\ snap'[q] = snap[q] /\ route_index'[q] = route_index[q]
      /\ built'[snap[q]] = built[snap[q]]
  <2>1. CASE \E r \in Reqs : HooksOf(r) BY <1>1, <1>2, <2>1
  <2>2. CASE UNCHANGED <<built, snap, route_index>> BY <2>2
  <2>3. CASE Reload BY <1>0, <2>3, ReloadFacts DEF Reload
  <2> QED BY <2>1, <2>2, <2>3 DEF Next, HooksOf, AllFinished, TimeoutElapses, vars
<1> QED BY <1>3 DEF RouteOf

\* A status, once seen, and the provider it came from are never rewritten.
LEMMA StatusStable ==
  ASSUME TypeOK, Phases, NEW r \in Reqs, HooksOf(r), NEW q \in Reqs,
         status[q] # ""
  PROVE  status'[q] = status[q] /\ provider_name'[q] = provider_name[q]
<1>1. CASE q # r BY <1>1, OthersKeep
<1>2. CASE q = r
  <2>1. RequestTypes /\ pc[r] \notin Unserved
    BY <1>2 DEF TypeOK, Phases, Phase
  <2> QED
    BY <1>2, <2>1
       DEF HooksOf, Arrive, FastPath, EnterMetrics, EnterAdmin, EnterApi, Enter,
       RefuseMethod, RequestFilter, AnswerMetrics, AnswerAdmin, FilterError,
       PluginRespond, NoRoute, MatchRoute, NoProvider, SelectProvider, Proxy,
       ProviderGone, UpstreamPeer, UpstreamRequestFilter, RequestBodyFilter,
       GuardrailBlock, ResponseFilter, ResponseBodyFilter, ProxyError, Logging,
       Unserved, Unselected, Unmatched, ctx
<1> QED BY <1>1, <1>2

LEMMA FailedGrows ==
  ASSUME TypeOK, Phases, [Next]_vars, NEW p
  PROVE  /\ IsFiniteSet(Failed(p)) /\ IsFiniteSet(Failed(p)')
         /\ Failed(p) \subseteq Failed(p)'
         /\ Cardinality(Failed(p)) \in Nat /\ Cardinality(Failed(p)') \in Nat
         /\ Cardinality(Failed(p)) <= Cardinality(Failed(p)')
<1>1. Failed(p) \in SUBSET Reqs /\ Failed(p)' \in SUBSET Reqs
  BY DEF Failed
<1>2. IsFiniteSet(Failed(p)) /\ IsFiniteSet(Failed(p)')
  BY <1>1, ReqsAssumption, FS_Subset
<1>3. Failed(p) \subseteq Failed(p)'
  <2>1. ASSUME NEW r \in Reqs, HooksOf(r)
        PROVE  Failed(p) \subseteq Failed(p)'
    BY <2>1, StatusStable DEF Failed
  <2>2. CASE UNCHANGED <<status, provider_name>>
    BY <2>2 DEF Failed
  <2> QED BY <2>1, <2>2 DEF Next, HooksOf, AllFinished, Reload,
          TimeoutElapses, vars, ctx
<1> QED BY <1>2, <1>3, FS_Subset, FS_CardinalityType

LEMMA CreditResponse ==
  ASSUME TypeOK, Phases, CreditedFailures, NEW r \in Reqs, ResponseFilter(r),
         [Next]_vars, NEW g \in 1 .. Len(built), NEW p \in Providers
  PROVE  failures'[g][p] <= Cardinality(Failed(p)')
<1> DEFINE old == failures[g][p]
           new == failures'[g][p]
           before == Cardinality(Failed(p))
           after  == Cardinality(Failed(p)')
<1>1. PICK s :
        /\ s \in Statuses
        /\ status' = [status EXCEPT ![r] = s]
        /\ \/ UNCHANGED breakers
           \/ /\ provider_name[r] \in Providers
              /\ RecordStatus(Hot, provider_name[r], s)
  BY ResponseFacts
<1>2. old \in Nat /\ old <= before
  BY ConfigFacts DEF CreditedFailures
<1>3. IsFiniteSet(Failed(p)) /\ before \in Nat /\ after \in Nat /\ before <= after
  BY FailedGrows
<1>4. CASE UNCHANGED breakers
  <2>1. new = old BY <1>4 DEF breakers
  <2> HIDE DEF old, new, before, after
  <2>2. new <= after BY <1>2, <1>3, <2>1
  <2> QED BY <2>2 DEF new, after
<1>5. CASE /\ provider_name[r] \in Providers
           /\ RecordStatus(Hot, provider_name[r], s)
  <2>1. new <= IF s = "fail" /\ g = Hot /\ p = provider_name[r]
                 THEN old + 1 ELSE old
    BY <1>1, <1>5, RecordStatusTypes
  <2>2. new \in Nat
    <3>1. failures' \in Seq([Providers -> Nat]) /\ Len(failures') = Len(failures)
      BY <1>1, <1>5, RecordStatusTypes
    <3>2. Len(failures) = Len(built) BY DEF TypeOK, SharedTypes
    <3>3. failures'[g] \in [Providers -> Nat] BY <3>1, <3>2, ElementOfSeq
    <3> QED BY <3>3
  <2>3. CASE s = "fail" /\ p = provider_name[r]
    <3>1. Failed(p)' = Failed(p) \cup {r} /\ r \notin Failed(p)
      <4>1. status[r] = "" /\ RequestTypes
        BY DEF ResponseFilter, Phases, Phase, Unserved, TypeOK
      <4>2. provider_name' = provider_name BY DEF ResponseFilter
      <4> QED BY <1>1, <2>3, <4>1, <4>2 DEF Failed, RequestTypes
    <3>2. after = before + 1
      BY <1>3, <3>1, FS_AddElement
    <3> HIDE DEF old, new, before, after
    <3>3. new <= old + 1 BY <1>2, <2>1, <2>2
    <3>4. new <= after BY <1>2, <1>3, <2>2, <3>2, <3>3
    <3> QED BY <3>4 DEF new, after
  <2>4. CASE ~(s = "fail" /\ p = provider_name[r])
    <3>1. new <= old BY <2>1, <2>4
    <3> HIDE DEF old, new, before, after
    <3>2. new <= after BY <1>2, <1>3, <2>2, <3>1
    <3> QED BY <3>2 DEF new, after
  <2> QED BY <2>3, <2>4
<1> QED BY <1>1, <1>4, <1>5

LEMMA CreditStep ==
  ASSUME TypeOK, Phases, CreditedFailures, [Next]_vars
  PROVE  CreditedFailures'
<1>1. ASSUME NEW g \in 1 .. Len(built), NEW p \in Providers,
             failures'[g][p] = failures[g][p]
      PROVE  failures'[g][p] <= Cardinality(Failed(p)')
  <2> DEFINE old == failures[g][p]
             new == failures'[g][p]
             before == Cardinality(Failed(p))
             after  == Cardinality(Failed(p)')
  <2>1. old \in Nat /\ old <= before /\ new = old
    BY <1>1, ConfigFacts DEF CreditedFailures
  <2>2. before \in Nat /\ after \in Nat /\ before <= after
    BY FailedGrows
  <2> HIDE DEF old, new, before, after
  <2>3. new <= after BY <2>1, <2>2
  <2> QED BY <2>3 DEF new, after
<1>2. CASE Reload
  <2>1. ASSUME NEW g \in 1 .. Len(built'), NEW p \in Providers
        PROVE  failures'[g][p] <= Cardinality(Failed(p)')
    <3>1. CASE g \in 1 .. Len(built)
      BY <1>1, <1>2, <3>1, ReloadFacts
    <3>2. CASE g = Len(built) + 1
      <4>1. failures'[g][p] = 0 BY <1>2, <3>2, ReloadFacts
      <4>2. Cardinality(Failed(p)') \in Nat BY FailedGrows
      <4> QED BY <4>1, <4>2
    <3>3. g \in 1 .. Len(built) \/ g = Len(built) + 1
      <4>1. Len(built') = Len(built) + 1 /\ Len(built) \in Nat
        BY <1>2, ReloadFacts, BuiltFacts
      <4> QED BY <4>1
    <3> QED BY <3>1, <3>2, <3>3
  <2> QED BY <2>1 DEF CreditedFailures
<1>3. CASE built' = built /\ failures' = failures
  BY <1>1, <1>3 DEF CreditedFailures
<1>4. ASSUME NEW r \in Reqs, ResponseFilter(r)
      PROVE  CreditedFailures'
  <2>1. built' = built BY <1>4, SharedTypesHook DEF HooksOf, Proxy
  <2>2. \A g \in 1 .. Len(built), p \in Providers :
          failures'[g][p] <= Cardinality(Failed(p)')
    BY <1>4, CreditResponse
  <2> QED BY <2>1, <2>2 DEF CreditedFailures
<1>5. ASSUME NEW r \in Reqs, HooksOf(r), ~ResponseFilter(r)
      PROVE  built' = built /\ failures' = failures
  BY <1>5 DEF HooksOf, Arrive, RequestFilter, Proxy, FastPath,
     EnterMetrics, EnterAdmin, EnterApi, Enter, RefuseMethod,
     AnswerMetrics, AnswerAdmin, FilterError, PluginRespond, NoRoute,
     MatchRoute, NoProvider, SelectProvider, ProviderGone, UpstreamPeer,
     UpstreamRequestFilter, RequestBodyFilter, GuardrailBlock,
     ResponseBodyFilter, ProxyError, Logging, breakers
<1>6. CASE \E r \in Reqs : HooksOf(r) BY <1>3, <1>4, <1>5, <1>6
<1> QED BY <1>2, <1>3, <1>6 DEF Next, HooksOf, AllFinished, TimeoutElapses,
        vars, breakers

\* An open breaker has max_fails failures to show for it.
LEMMA OpenIsEarned ==
  ASSUME TypeOK, CreditedFailures, NEW g \in 1 .. Len(built),
         NEW p \in DOMAIN built[g].providers, IsOpen(g, p)
  PROVE  Cardinality(Failed(p)) >= MaxFailsIn(g, p)
<1> DEFINE n == failures[g][p]
           m == built[g].providers[p].max_fails
           c == Cardinality(Failed(p))
<1>1. p \in Providers /\ m \in Nat /\ n \in Nat
  BY ConfigFacts
<1>2. n >= m BY DEF IsOpen, Providers_
<1>3. n <= c BY <1>1 DEF CreditedFailures
<1>4. c \in Nat
  <2>1. Failed(p) \in SUBSET Reqs BY DEF Failed
  <2> QED BY <2>1, ReqsAssumption, FS_Subset, FS_CardinalityType
<1> HIDE DEF n, m, c
<1>5. c >= m BY <1>1, <1>2, <1>3, <1>4
<1> QED BY <1>5 DEF c, m, MaxFailsIn

\* The same promise, carried through a step: the failures stay counted.
LEMMA EarnedStays ==
  ASSUME TypeOK, Phases, [Next]_vars, NEW q \in Reqs, route_index[q] # 0,
         NEW p \in DOMAIN built[snap[q]].providers,
         Cardinality(Failed(p)) >= MaxFailsIn(snap[q], p)
  PROVE  /\ built'[snap'[q]] = built[snap[q]]
         /\ Cardinality(Failed(p)') >= MaxFailsIn(snap[q], p)'
<1> DEFINE before == Cardinality(Failed(p))
           after  == Cardinality(Failed(p)')
           m == built[snap[q]].providers[p].max_fails
<1>1. snap[q] \in 1 .. Len(built) BY RouteFacts DEF Phases
<1>2. m \in Nat /\ before >= m BY <1>1, ConfigFacts DEF MaxFailsIn
<1>3. before \in Nat /\ after \in Nat /\ before <= after
  BY FailedGrows
<1>4. built'[snap'[q]] = built[snap[q]] /\ snap'[q] = snap[q]
  BY RouteStable
<1>5. after >= m
  <2> HIDE DEF before, after, m
  <2> QED BY <1>2, <1>3
<1> QED BY <1>4, <1>5 DEF MaxFailsIn

LEMMA NewlyUnavailable ==
  ASSUME TypeOK, Phases, [Next]_vars, NEW q \in Reqs,
         outcome'[q] = "503", outcome[q] # "503"
  PROVE  NoProvider(q)
<1>1. ASSUME NEW r \in Reqs, HooksOf(r) PROVE NoProvider(q)
  <2>1. q = r BY <1>1, OthersKeep
  <2>2. RequestTypes BY DEF TypeOK
  <2> QED
    BY <1>1, <2>1, <2>2
       DEF RequestTypes, HooksOf, Arrive, FastPath, EnterMetrics, EnterAdmin,
       EnterApi, Enter, RefuseMethod, RequestFilter, AnswerMetrics, AnswerAdmin,
       FilterError, PluginRespond, NoRoute, MatchRoute, SelectProvider, Proxy,
       ProviderGone, UpstreamPeer, UpstreamRequestFilter, RequestBodyFilter,
       GuardrailBlock, ResponseFilter, ResponseBodyFilter, ProxyError, Logging,
       EarlyAnswer, Answer, ctx
<1>2. outcome' # outcome OBVIOUS
<1> QED BY <1>1, <1>2 DEF Next, HooksOf, AllFinished, Reload, TimeoutElapses, vars

LEMMA UnavailableStep ==
  ASSUME TypeOK, Phases, CreditedFailures, UnavailableIsEarned, [Next]_vars
  PROVE  UnavailableIsEarned'
<1> SUFFICES ASSUME NEW q \in Reqs, outcome'[q] = "503",
                    NEW i \in (Candidates(built[snap[q]].providers, RouteOf(q)))'
             PROVE  (Cardinality(Failed(Entry(RouteOf(q), i)))
                       >= MaxFailsIn(snap[q], Entry(RouteOf(q), i)))'
  BY DEF UnavailableIsEarned
<1>1. route_index[q] # 0
  <2>1. CASE outcome[q] = "503" BY <2>1 DEF Phases, Phase
  <2>2. CASE outcome[q] # "503"
    BY <2>2, NewlyUnavailable DEF NoProvider, Phases, Phase, Matched
  <2> QED BY <2>1, <2>2
<1>2. /\ snap[q] \in 1 .. Len(built) /\ RouteOf(q)' = RouteOf(q)
      /\ built'[snap'[q]] = built[snap[q]] /\ snap'[q] = snap[q]
  BY <1>1, RouteFacts, RouteStable DEF Phases
<1> PICK p : p = Entry(RouteOf(q), i) OBVIOUS
<1>3. i \in Candidates(built[snap[q]].providers, RouteOf(q))
  BY <1>2 DEF Candidates
<1>4. p \in DOMAIN built[snap[q]].providers BY <1>3 DEF Candidates
<1>5. Cardinality(Failed(p)) >= MaxFailsIn(snap[q], p)
  <2>1. CASE outcome[q] = "503" BY <1>3, <2>1 DEF UnavailableIsEarned
  <2>2. CASE outcome[q] # "503"
    <3>1. NoProvider(q) BY <2>2, NewlyUnavailable
    <3>2. IsOpen(snap[q], p)
      BY <1>3, <3>1 DEF NoProvider, Healthy, Providers_
    <3> QED BY <1>2, <1>4, <3>2, OpenIsEarned
  <2> QED BY <2>1, <2>2
<1>6. Cardinality(Failed(p)') >= MaxFailsIn(snap[q], p)'
  BY <1>1, <1>4, <1>5, EarnedStays
<1>7. Entry(RouteOf(q), i)' = p BY <1>2 DEF Entry
<1> QED BY <1>6, <1>7 DEF Failed, MaxFailsIn

LEMMA CreditInit == Init => CreditedFailures
<1> SUFFICES ASSUME Init, NEW g \in 1 .. Len(built), NEW p \in Providers
             PROVE  failures[g][p] <= Cardinality(Failed(p))
  BY DEF CreditedFailures
<1>1. PICK c \in InitialConfigs : built = <<c>> BY DEF Init
<1>2. Len(built) = 1 BY <1>1
<1>3. g = 1 BY <1>2
<1>4. failures = <<[x \in Providers |-> 0]>> BY DEF Init
<1>5. failures[g][p] = 0 BY <1>3, <1>4
<1>6. Failed(p) = {} BY DEF Init, Failed
<1> QED BY <1>5, <1>6, FS_EmptySet

\* "All providers are unavailable" is told only when every candidate of the
\* route has failed max_fails requests.
THEOREM UnavailableCorrect == Spec => []UnavailableIsEarned
<1> DEFINE Kept == TypeOK /\ Phases /\ CreditedFailures /\ UnavailableIsEarned
<1>1. Init => UnavailableIsEarned BY DEF Init, UnavailableIsEarned
<1>2. Init => Kept BY <1>1, CreditInit, TypeInit, PhasesInit
<1>3. Kept /\ [Next]_vars => Kept'
  BY TypeStep, PhasesStep, CreditStep, UnavailableStep
<1>4. Kept => UnavailableIsEarned OBVIOUS
<1> QED BY <1>2, <1>3, <1>4, PTL DEF Spec

LEMMA NewFallback ==
  ASSUME TypeOK, Phases, [Next]_vars, NEW q \in Reqs,
         original'[q] # original[q]
  PROVE  SelectProvider(q)
<1>1. ASSUME NEW r \in Reqs, HooksOf(r) PROVE SelectProvider(q)
  <2>1. q = r BY <1>1, OthersKeep
  <2>2. RequestTypes BY DEF TypeOK
  <2> QED
    BY <1>1, <2>1, <2>2
       DEF RequestTypes, HooksOf, Arrive, FastPath, EnterMetrics, EnterAdmin,
       EnterApi, Enter, RefuseMethod, RequestFilter, AnswerMetrics, AnswerAdmin,
       FilterError, PluginRespond, NoRoute, NoProvider, MatchRoute, Proxy,
       ProviderGone, UpstreamPeer, UpstreamRequestFilter, RequestBodyFilter,
       GuardrailBlock, ResponseFilter, ResponseBodyFilter, ProxyError, Logging,
       ctx
<1>2. original' # original OBVIOUS
<1> QED BY <1>1, <1>2
        DEF Next, HooksOf, AllFinished, Reload, TimeoutElapses, vars, ctx

\* Selecting another target than the primary means that its breaker is open.
LEMMA FallbackMeansOpen ==
  ASSUME TypeOK, Phases, NEW q \in Reqs, SelectProvider(q),
         original'[q] # None, RouteOf(q).strategy \in FirstHealthy
  PROVE  /\ original'[q] = RouteOf(q).provider
         /\ RouteOf(q).provider \in DOMAIN built[snap[q]].providers
         /\ IsOpen(snap[q], RouteOf(q).provider)
<1> DEFINE g       == snap[q]
           route   == RouteOf(q)
           healthy == Healthy(g, route)
           i == Select(Providers_(g), route, healthy, failures[g], rr_counter)
           n == Len(route.fallback) + 1
<1>1. Phase(q) /\ route_index[q] # 0 /\ RequestTypes
  BY DEF Phases, Phase, SelectProvider, Matched, TypeOK
<1>2. original'[q] = IF i = 1 THEN None ELSE route.provider
  BY <1>1 DEF SelectProvider, RequestTypes
<1>3. i # 1 /\ original'[q] = route.provider BY <1>2
<1>4. /\ route \in Route
      /\ \A k \in 1 .. n : Entry(route, k) \in DOMAIN built[g].providers
  BY <1>1, RouteFacts
<1>5. n \in Nat /\ 1 \in 1 .. n BY <1>4 DEF Route
<1>6. healthy \in SUBSET (1 .. n) BY DEF Healthy, Candidates
<1>7. 1 \notin healthy
  <2> HIDE DEF healthy, n, route, g
  <2>1. route.strategy \in FirstHealthy BY DEF route
  <2> QED BY <1>3, <1>5, <1>6, <2>1, PrimaryFirst
<1>8. Entry(route, 1) = route.provider BY DEF Entry
<1>9. route.provider \in DOMAIN built[g].providers BY <1>4, <1>5, <1>8
<1>10. 1 \in Candidates(Providers_(g), route)
  BY <1>5, <1>8, <1>9 DEF Candidates, Providers_
<1>11. IsOpen(g, route.provider) BY <1>7, <1>8, <1>10 DEF Healthy
<1> QED BY <1>3, <1>9, <1>11

LEMMA FallbackStep ==
  ASSUME TypeOK, Phases, CreditedFailures, FallbackIsEarned, [Next]_vars
  PROVE  FallbackIsEarned'
<1> SUFFICES ASSUME NEW q \in Reqs, original'[q] # None,
                    RouteOf(q)'.strategy \in FirstHealthy
             PROVE  (Cardinality(Failed(original[q]))
                       >= MaxFailsIn(snap[q], original[q]))'
  BY DEF FallbackIsEarned, FirstHealthy
<1>1. route_index[q] # 0
  <2>1. CASE original[q] # None BY <2>1 DEF Phases, Phase
  <2>2. CASE original[q] = None
    BY <2>2, NewFallback DEF SelectProvider, Phases, Phase, Matched
  <2> QED BY <2>1, <2>2
<1>2. RouteOf(q)' = RouteOf(q) /\ snap[q] \in 1 .. Len(built)
  BY <1>1, RouteFacts, RouteStable DEF Phases
<1> PICK p : p = original'[q] OBVIOUS
<1>3. /\ p \in DOMAIN built[snap[q]].providers
      /\ Cardinality(Failed(p)) >= MaxFailsIn(snap[q], p)
  <2>1. CASE SelectProvider(q)
    <3>1. /\ p \in DOMAIN built[snap[q]].providers
          /\ IsOpen(snap[q], p)
      BY <1>2, <2>1, FallbackMeansOpen
    <3> QED BY <1>2, <3>1, OpenIsEarned
  <2>2. CASE ~SelectProvider(q)
    <3>1. original[q] = p BY <2>2, NewFallback
    <3>2. Cardinality(Failed(p)) >= MaxFailsIn(snap[q], p)
      BY <1>2, <3>1 DEF FallbackIsEarned
    <3>3. p \in DOMAIN built[snap[q]].providers
      <4>1. /\ Len(RouteOf(q).fallback) \in Nat
            /\ \A k \in 1 .. Len(RouteOf(q).fallback) + 1 :
                 Entry(RouteOf(q), k) \in DOMAIN built[snap[q]].providers
        BY <1>1, RouteFacts DEF Phases, Route
      <4>2. p = Entry(RouteOf(q), 1) BY <3>1 DEF Phases, Phase, Entry
      <4>3. 1 \in 1 .. Len(RouteOf(q).fallback) + 1 BY <4>1
      <4> QED BY <4>1, <4>2, <4>3
    <3> QED BY <3>2, <3>3
  <2> QED BY <2>1, <2>2
<1>4. Cardinality(Failed(p)') >= MaxFailsIn(snap[q], p)'
  BY <1>1, <1>3, EarnedStays
<1> QED BY <1>4 DEF Failed, MaxFailsIn

\* A request leaves its primary provider only after that provider failed
\* max_fails requests.
THEOREM FallbackCorrect == Spec => []FallbackIsEarned
<1> DEFINE Kept == TypeOK /\ Phases /\ CreditedFailures /\ FallbackIsEarned
<1>1. Init => FallbackIsEarned BY DEF Init, FallbackIsEarned
<1>2. Init => Kept BY <1>1, CreditInit, TypeInit, PhasesInit
<1>3. Kept /\ [Next]_vars => Kept'
  BY TypeStep, PhasesStep, CreditStep, FallbackStep
<1>4. Kept => FallbackIsEarned OBVIOUS
<1> QED BY <1>2, <1>3, <1>4, PTL DEF Spec

----------------------------------------------------------------------------
(* Panics                                                                  *)

\* A hook that panics has found fewer routes than the snapshot had.
LEMMA NewPanic ==
  ASSUME TypeOK, Phases, NEW r \in Reqs, HooksOf(r),
         pc'[r] \in {"panicked", "log_panicked"}
  PROVE  /\ Hot \in snap[r] + 1 .. Len(built)
         /\ Len(built[Hot].routes) < route_index[r]
<1> USE DEF ctx, Goto, Answer, EarlyAnswer
<1>1. ~ChainInRange(r) /\ route_index[r] # 0
  <2>1. RequestTypes /\ Phase(r) BY DEF TypeOK, Phases
  <2>2. CASE Arrive(r)
    BY <2>1, <2>2 DEF RequestTypes, Arrive, FastPath, EnterMetrics, EnterAdmin,
       EnterApi, Enter, RefuseMethod
  <2>3. CASE RequestFilter(r)
    BY <2>1, <2>3 DEF RequestTypes, RequestFilter, AnswerMetrics, AnswerAdmin,
       FilterError, PluginRespond, NoRoute, MatchRoute, NoProvider,
       SelectProvider
  <2>4. CASE Proxy(r)
    BY <2>1, <2>4 DEF RequestTypes, Proxy, ProviderGone, UpstreamPeer,
       UpstreamRequestFilter, RequestBodyFilter, GuardrailBlock, ResponseFilter,
       ResponseBodyFilter, ProxyError, ThenChains, Phase, Matched
  <2>5. CASE Logging(r)
    BY <2>1, <2>5 DEF RequestTypes, Logging
  <2> QED BY <2>2, <2>3, <2>4, <2>5 DEF HooksOf
<1>2. /\ snap[r] \in 1 .. Len(built) /\ Len(built) \in Nat
      /\ Hot = Len(built) /\ Hot \in 1 .. Len(built)
  BY <1>1, RouteFacts, BuiltFacts DEF Phases
<1>3. route_index[r] \in 1 .. Len(built[snap[r]].routes)
  BY <1>1 DEF Phases, Phase
<1>4. Len(built[Hot].routes) \in Nat /\ Len(built[snap[r]].routes) \in Nat
  BY <1>2, ConfigFacts, LenProperties
<1>5. Len(built[Hot].routes) < route_index[r]
  BY <1>1, <1>3, <1>4 DEF ChainInRange
<1>6. snap[r] # Hot BY <1>3, <1>4, <1>5
<1> QED BY <1>2, <1>5, <1>6

LEMMA PanicStep ==
  ASSUME TypeOK, Phases, PanicNeedsShrink, [Next]_vars
  PROVE  PanicNeedsShrink'
<1> SUFFICES ASSUME NEW q \in Reqs, pc'[q] \in {"panicked", "log_panicked"}
             PROVE  (\E g \in snap[q] + 1 .. Len(built) :
                       Len(built[g].routes) < route_index[q])'
  BY DEF PanicNeedsShrink
<1>1. route_index[q] # 0 /\ \E g \in snap[q] + 1 .. Len(built) :
                               Len(built[g].routes) < route_index[q]
  <2>1. CASE pc[q] \in {"panicked", "log_panicked"}
    BY <2>1 DEF PanicNeedsShrink, Phases, Phase, Matched
  <2>2. CASE pc[q] \notin {"panicked", "log_panicked"}
    <3>1. HooksOf(q)
      <4>1. pc' # pc BY <2>2
      <4>2. PICK r \in Reqs : HooksOf(r)
        BY <4>1 DEF Next, HooksOf, AllFinished, Reload, TimeoutElapses, vars
      <4>3. q = r BY <2>2, <4>2, OthersKeep
      <4> QED BY <4>2, <4>3
    <3>2. /\ Hot \in snap[q] + 1 .. Len(built)
          /\ Len(built[Hot].routes) < route_index[q]
      BY <3>1, NewPanic
    <3>3. route_index[q] # 0
      <4>1. Len(built[Hot].routes) \in Nat
        BY BuiltFacts, ConfigFacts, LenProperties
      <4> QED BY <3>2, <4>1
    <3> QED BY <3>2, <3>3
  <2> QED BY <2>1, <2>2
<1>2. PICK g \in snap[q] + 1 .. Len(built) :
        Len(built[g].routes) < route_index[q]
  BY <1>1
<1>3. snap'[q] = snap[q] /\ route_index'[q] = route_index[q]
  BY <1>1, RouteStable
<1>4. snap[q] \in Nat /\ Len(built) \in Nat /\ g \in 1 .. Len(built)
  <2>1. snap[q] \in 1 .. Len(built) BY <1>1, RouteFacts DEF Phases
  <2>2. Len(built) \in Nat BY BuiltFacts
  <2> QED BY <2>1, <2>2
<1>5. built'[g] = built[g] /\ g \in snap[q] + 1 .. Len(built')
  <2>1. CASE built' = built BY <2>1
  <2>2. CASE Reload
    <3>1. built'[g] = built[g] /\ Len(built') = Len(built) + 1
      BY <1>4, <2>2, ReloadFacts
    <3> QED BY <1>4, <3>1
  <2>3. built' = built \/ Reload
    BY SharedTypesHook DEF Next, HooksOf, AllFinished, TimeoutElapses, vars
  <2> QED BY <2>1, <2>2, <2>3
<1> QED BY <1>2, <1>3, <1>5

\* A request panics on its route index only after a reload that shrank the
\* route list below it.
THEOREM PanicCorrect == Spec => []PanicNeedsShrink
<1> DEFINE Kept == TypeOK /\ Phases /\ PanicNeedsShrink
<1>1. Init => PanicNeedsShrink BY DEF Init, PanicNeedsShrink
<1>2. Init => Kept BY <1>1, TypeInit, PhasesInit
<1>3. Kept /\ [Next]_vars => Kept' BY TypeStep, PhasesStep, PanicStep
<1>4. Kept => PanicNeedsShrink OBVIOUS
<1> QED BY <1>2, <1>3, <1>4, PTL DEF Spec
=============================================================================
