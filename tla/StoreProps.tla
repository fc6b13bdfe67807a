----------------------------- MODULE StoreProps -----------------------------
(* What is checked of the two store backends. *)
EXTENDS StoreBackends

TypeOK ==
  /\ backend \in {"memory", "sqlite"}
  /\ DOMAIN db.keys \subseteq KeyIds /\ DOMAIN db.teams \subseteq TeamIds
  /\ db.spend \in Seq([key : KeyIds, model : Models])
  /\ db.requests \in Seq(Models)
  /\ hash_index \subseteq KeyIds
  /\ {keysLock, indexLock, connLock} \subseteq Threads \cup {NoOne}
  /\ pc \in [Threads -> {"idle", "called", "create_index", "by_id",
                         "delete_index", "groups", "done"}]
  /\ \A t \in Threads :
       IF pc[t] = "idle" THEN call[t] = <<>> ELSE call[t][1] \in Calls
  /\ left \in 0 .. MaxCalls

\* Whenever nobody is in the middle of create_key or delete_key, the hash
\* index of InMemoryStore finds exactly the keys that exist (store.rs:83-84):
\* no key that cannot authenticate, no hash left behind by a deleted one.
IndexAgrees ==
  backend = "memory" /\ Free(keysLock) => hash_index = DOMAIN db.keys

\* The spend log of SqliteStore speaks of keys that exist only, whatever
\* order keys are deleted and spend is recorded in (sqlite_store.rs:97-109).
SpendHasItsKey ==
  backend = "sqlite" =>
    \A n \in DOMAIN db.spend : db.spend[n].key \in DOMAIN db.keys

\* Both backends implement the promise of the trait: every call takes effect
\* at one moment while it runs, failed statements do nothing, a report is one
\* snapshot, and only InMemoryStore forgets in a crash.  delete_key takes
\* effect when it removes the key, before it has cleaned the index.
AnsweredOf(t) ==
  IF pc[t] = "delete_index"
  THEN Answer("Ok", {<<call[t][1].id, All>>}) ELSE answer[t]

Promise == INSTANCE AdminStore
  WITH relational <- (backend = "sqlite"), pending <- call,
       answer <- [t \in Threads |-> AnsweredOf(t)]

Implements == Promise!Spec

\* No call waits for ever: the locks of InMemoryStore are taken keys first
\* and index second, and never the other way round.
EveryCallReturns == \A t \in Threads : pc[t] = "called" ~> pc[t] \in {"done", "idle"}

=============================================================================
