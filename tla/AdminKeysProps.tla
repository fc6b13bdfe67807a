--------------------------- MODULE AdminKeysProps ---------------------------
(***************************************************************************)
(* What the key, team and budget operations promise when they overlap, and *)
(* what they promise only while they do not.                               *)
(***************************************************************************)
EXTENDS AdminKeys

Logged(k) == {i \in DOMAIN spend_logs : spend_logs[i].key_id = k}

\* Threads whose record_usage has written key k but not the spend log yet.
Charging(k) ==
  {t \in Threads :
     /\ key_id[t] = k
     /\ pc[t] \in {"record_get_team", "record_update_team", "record_spend"}}

\* However the operations overlap, a key's lifetime counter never exceeds the
\* usages recorded for it (record_usage), as long as no store call fails: stale
\* writes lose charges, they do not invent them.
NeverOverbilled ==
  \A k \in DOMAIN keys :
    keys[k].total <= Cardinality(Logged(k)) + Cardinality(Charging(k))

\* A key that is revoked in the store and in every copy still to be written.
HoldsActiveCopy(t, k) == k \in DOMAIN copies[t] /\ copies[t][k].is_active
Dead(k) == /\ k \in DOMAIN keys
           /\ ~keys[k].is_active
           /\ \A t \in Threads : ~HoldsActiveCopy(t, k)

\* Only an operation that read a key before revoke_key wrote it can make the
\* key active again: once those operations are over, none revives it.
RevocationIsFinal == [][\A k \in Keys : Dead(k) => Dead(k)']_vars

\* Operations that neither overlap nor fail half-way keep the counters equal to
\* the spend log:
\* record_usage "updates the key's lifetime counters ... and writes a spend
\* log entry" (budget.rs), and no other operation disturbs either.
CountersMatchLog ==
  (AllIdle /\ ~failed) =>
    /\ \A k \in DOMAIN keys : keys[k].total = Cardinality(Logged(k))
    /\ \A m \in DOMAIN teams :
         teams[m].spent =
           Cardinality({i \in DOMAIN spend_logs : spend_logs[i].team_id = m})

\* A usage is in the spend log only if its key, and the team it names, were
\* charged for it: record_usage writes the log last, so a store call that fails
\* leaves counters ahead of the log, never behind it.
CountersCoverLog ==
  AllIdle =>
    /\ \A k \in DOMAIN keys : Cardinality(Logged(k)) <= keys[k].total
    /\ \A m \in DOMAIN teams :
         Cardinality({i \in DOMAIN spend_logs : spend_logs[i].team_id = m})
           <= teams[m].spent

----------------------------------------------------------------------------
\* "Mark a key as inactive (soft delete)" (keys.rs, revoke_key): once revoked,
\* a key is never active again.
RevokedStaysRevoked ==
  [][\A k \in DOMAIN keys : ~keys[k].is_active => ~keys'[k].is_active]_vars
=============================================================================
