--------------------------- MODULE StoreBackends ---------------------------
(* The two implementations of the AdminStore trait: InMemoryStore           *)
(* (maxllm-admin/src/store.rs), with a lock per map, and SqliteStore        *)
(* (maxllm-admin/src/sqlite_store.rs), one connection behind a mutex whose  *)
(* statements commit one by one.  gateway.rs:370-408 chooses one of them    *)
(* when the process starts.  A thread is inside one call at a time; a       *)
(* method returns by dropping the guards it still holds.  Both are shown to *)
(* implement AdminStore.                                                    *)
EXTENDS StoreData

VARIABLES
  backend,     \* "memory" or "sqlite"
  db,          \* keys, teams, spend_logs, request_logs
  hash_index,  \* InMemoryStore: the keys whose hash is indexed
  keysLock,    \* the writer of InMemoryStore.keys
  indexLock,   \* the writer of InMemoryStore.hash_index
  connLock,    \* the owner of SqliteStore.conn
  pc, call, answer,  \* of each thread
  partial,     \* what a method has computed before its last step
  left         \* calls still to be made

locks == <<keysLock, indexLock, connLock>>
vars  == <<backend, db, hash_index, locks, pc, call, answer, partial, left>>

Init ==
  /\ backend \in {"memory", "sqlite"}
  /\ db = EmptyDb
  /\ hash_index = {}
  /\ keysLock = NoOne /\ indexLock = NoOne /\ connLock = NoOne
  /\ pc = [t \in Threads |-> "idle"]
  /\ call = [t \in Threads |-> <<>>]
  /\ answer = [t \in Threads |-> NoAnswer]
  /\ partial = [t \in Threads |-> {}]
  /\ left = MaxCalls

Free(lock) == lock = NoOne

At(t, where, kind) == pc[t] = where /\ backend = kind

Goto(t, where) == pc' = [pc EXCEPT ![t] = where]

\* Return from the method: its guards are dropped.
Dropped(lock, t) == IF lock = t THEN NoOne ELSE lock
Finish(t, status, rows) ==
  /\ Goto(t, "done")
  /\ answer' = [answer EXCEPT ![t] = Answer(status, rows)]
  /\ partial' = [partial EXCEPT ![t] = {}]
  /\ keysLock' = Dropped(keysLock, t)
  /\ indexLock' = Dropped(indexLock, t)
  /\ connLock' = Dropped(connLock, t)
  /\ UNCHANGED <<backend, call, left>>

\* Return without touching the tables.
Reply(t, status, rows) == Finish(t, status, rows) /\ UNCHANGED <<db, hash_index>>

Invoke(t) ==
  /\ pc[t] = "idle" /\ left > 0
  /\ \E c \in Calls : call' = [call EXCEPT ![t] = <<c>>]
  /\ Goto(t, "called")
  /\ left' = left - 1
  /\ UNCHANGED <<backend, db, hash_index, locks, answer, partial>>

Return(t) ==
  /\ pc[t] = "done"
  /\ Goto(t, "idle")
  /\ call' = [call EXCEPT ![t] = <<>>]
  /\ answer' = [answer EXCEPT ![t] = NoAnswer]
  /\ UNCHANGED <<backend, db, hash_index, locks, partial, left>>

Called(t, op) == pc[t] = "called" /\ call[t][1].op = op

-----------------------------------------------------------------------------
(* InMemoryStore. *)

\* create_key locks the keys, then the index, and fills both.
MemCreateKey(t) ==
  /\ backend = "memory" /\ Called(t, "create_key") /\ Free(keysLock)
  /\ IF call[t][1].id \in DOMAIN db.keys
     THEN Reply(t, "Duplicate", {})
     ELSE /\ keysLock' = t
          /\ Goto(t, "create_index")
          /\ UNCHANGED <<backend, db, hash_index, indexLock, connLock, call,
                         answer, partial, left>>

\* Mutant: the index filled with the row instead of the key.
IndexOfRow(t) ==
  /\ At(t, "create_index", "memory") /\ Free(indexLock)
  /\ hash_index' = hash_index \cup {call[t][1].val}
  /\ db' = [db EXCEPT !.keys = Put(@, call[t][1].id, call[t][1].val)]
  /\ Finish(t, "Ok", {})

MemCreateIndex(t) ==
  /\ At(t, "create_index", "memory") /\ Free(indexLock)
  /\ hash_index' = hash_index \cup {call[t][1].id}
  /\ db' = [db EXCEPT !.keys = Put(@, call[t][1].id, call[t][1].val)]
  /\ Finish(t, "Ok", {})

\* Mutant: the index is still locked while the keys are read.
KeepIndex(t) ==
  /\ backend = "memory" /\ Called(t, "get_key_by_hash") /\ Free(indexLock)
  /\ IF call[t][1].id \in hash_index
     THEN /\ Goto(t, "by_id")
          /\ indexLock' = t
          /\ UNCHANGED <<backend, db, hash_index, keysLock, connLock, call,
                         answer, partial, left>>
     ELSE Reply(t, "Ok", {})

\* get_key_by_hash reads the index, drops it, and reads the keys.
MemGetByHash(t) ==
  /\ backend = "memory" /\ Called(t, "get_key_by_hash") /\ Free(indexLock)
  /\ IF call[t][1].id \in hash_index
     THEN /\ Goto(t, "by_id")
          /\ UNCHANGED <<backend, db, hash_index, locks, call, answer, partial,
                         left>>
     ELSE Reply(t, "Ok", {})

MemGetById(t) ==
  /\ backend = "memory"
  /\ pc[t] # "by_id" => Called(t, "get_key_by_id")
  /\ Free(keysLock)
  /\ Reply(t, "Ok", Row(db.keys, call[t][1].id))

\* Sorted by creation time, newest first; skip(offset), take(limit).
MemListKeys(t) ==
  /\ backend = "memory" /\ Called(t, "list_keys") /\ Free(keysLock)
  /\ \E page \in TablePages(db.keys, call[t][1].offset, call[t][1].limit) :
       Reply(t, "Ok", page)

MemUpdateKey(t) ==
  /\ backend = "memory" /\ Called(t, "update_key") /\ Free(keysLock)
  /\ IF call[t][1].id \notin DOMAIN db.keys
     THEN Reply(t, "NotFound", {})
     ELSE /\ db' = [db EXCEPT !.keys = Put(@, call[t][1].id, call[t][1].val)]
          /\ Finish(t, "Ok", {})
          /\ UNCHANGED hash_index

\* Mutant: the hash of a deleted key stays in the index.
HashStays(t) ==
  /\ backend = "memory" /\ Called(t, "delete_key") /\ Free(keysLock)
  /\ db' = [db EXCEPT !.keys = Without(@, call[t][1].id)]
  /\ Finish(t, "Ok", {<<i, All>> : i \in DOMAIN db.keys \cap {call[t][1].id}})
  /\ UNCHANGED hash_index

\* delete_key removes the key and, still holding the keys, its hash.
MemDeleteKey(t) ==
  /\ backend = "memory" /\ Called(t, "delete_key") /\ Free(keysLock)
  /\ IF call[t][1].id \notin DOMAIN db.keys
     THEN Reply(t, "Ok", {})
     ELSE /\ db' = [db EXCEPT !.keys = Without(@, call[t][1].id)]
          /\ keysLock' = t
          /\ Goto(t, "delete_index")
          /\ UNCHANGED <<backend, hash_index, indexLock, connLock, call, answer,
                         partial, left>>

MemDeleteIndex(t) ==
  /\ At(t, "delete_index", "memory") /\ Free(indexLock)
  /\ hash_index' = hash_index \ {call[t][1].id}
  /\ Finish(t, "Ok", {<<call[t][1].id, All>>})
  /\ UNCHANGED db

\* Each of the team methods holds the one lock of the teams for its length.
Teams(t) ==
  LET c == call[t][1] IN
  /\ \/ /\ Called(t, "create_team")
        /\ IF c.id \in DOMAIN db.teams
           THEN Reply(t, "Duplicate", {})
           ELSE /\ db' = [db EXCEPT !.teams = Put(@, c.id, c.val)]
                /\ Finish(t, "Ok", {})
     \/ Called(t, "get_team") /\ Reply(t, "Ok", Row(db.teams, c.id))
     \/ Called(t, "list_teams") /\ Reply(t, "Ok", Rows(db.teams))
     \/ /\ Called(t, "update_team")
        /\ IF c.id \notin DOMAIN db.teams
           THEN Reply(t, "NotFound", {})
           ELSE /\ db' = [db EXCEPT !.teams = Put(@, c.id, c.val)]
                /\ Finish(t, "Ok", {})
     \/ /\ Called(t, "delete_team")
        /\ db' = [db EXCEPT !.teams = Without(@, c.id)]
        /\ Finish(t, "Ok", {<<i, All>> : i \in DOMAIN db.teams \cap {c.id}})
  /\ UNCHANGED hash_index

MemTeams(t) == backend = "memory" /\ Teams(t)

\* The spend log does not look at the keys.
MemSpend(t) ==
  LET c == call[t][1] IN
  /\ backend = "memory"
  /\ \/ /\ Called(t, "record_spend")
        /\ db' = [db EXCEPT !.spend = Append(@, [key |-> c.key, model |-> c.model])]
        /\ Finish(t, "Ok", {})
     \/ /\ Called(t, "get_spend_logs")
        /\ Reply(t, "Ok", Entries(Newest(Spends(db.spend, c.of), c.limit)))
     \/ /\ Called(t, "get_spend_summary")
        /\ Reply(t, "Ok", Totals(db.spend, c.of) \cup Groups(db.spend, c.of))
  /\ UNCHANGED hash_index

MemRequests(t) ==
  LET c == call[t][1] IN
  /\ backend = "memory"
  /\ \/ /\ Called(t, "record_request_log")
        /\ db' = [db EXCEPT !.requests = Append(@, c.model)]
        /\ Finish(t, "Ok", {})
     \/ /\ Called(t, "get_request_logs")
        /\ Reply(t, "Ok", Entries(Newest(Requests(db.requests, c.of), c.limit)))
  /\ UNCHANGED hash_index

-----------------------------------------------------------------------------
(* SqliteStore: a statement holds the connection and commits on its own. *)

Sql(t, op) == backend = "sqlite" /\ Free(connLock) /\ Called(t, op)

\* A key that breaks the primary key or the unique hash is a Duplicate.
SqlCreateKey(t) ==
  /\ Sql(t, "create_key")
  /\ IF call[t][1].id \in DOMAIN db.keys
     THEN Reply(t, "Duplicate", {})
     ELSE /\ db' = [db EXCEPT !.keys = Put(@, call[t][1].id, call[t][1].val)]
          /\ Finish(t, "Ok", {}) /\ UNCHANGED hash_index

SqlReadKeys(t) ==
  \/ /\ \E op \in {"get_key_by_hash", "get_key_by_id"} : Sql(t, op)
     /\ Reply(t, "Ok", Row(db.keys, call[t][1].id))
  \/ /\ Sql(t, "list_keys")
     /\ \E page \in TablePages(db.keys, call[t][1].offset, call[t][1].limit) :
          Reply(t, "Ok", page)

\* UPDATE ... WHERE id: no row changed is NotFound.
SqlUpdateKey(t) ==
  /\ Sql(t, "update_key")
  /\ IF call[t][1].id \notin DOMAIN db.keys
     THEN Reply(t, "NotFound", {})
     ELSE /\ db' = [db EXCEPT !.keys = Put(@, call[t][1].id, call[t][1].val)]
          /\ Finish(t, "Ok", {}) /\ UNCHANGED hash_index

\* Mutant: no ON DELETE CASCADE.
NoCascade(log, k) == log

\* FOREIGN KEY (key_id) ... ON DELETE CASCADE takes the key's spend with it.
Cascade(log, k) == SpendOfOthers(log, k)

SqlDeleteKey(t) ==
  /\ Sql(t, "delete_key")
  /\ db' = [db EXCEPT !.keys = Without(@, call[t][1].id),
                      !.spend = Cascade(@, call[t][1].id)]
  /\ Finish(t, "Ok", {<<i, All>> : i \in DOMAIN db.keys \cap {call[t][1].id}})
  /\ UNCHANGED hash_index

SqlTeams(t) == backend = "sqlite" /\ Free(connLock) /\ Teams(t)

\* The foreign key refuses the spend of a key that is not there.
SqlRecordSpend(t) ==
  LET c == call[t][1] IN
  /\ Sql(t, "record_spend")
  /\ IF c.key \notin DOMAIN db.keys
     THEN Reply(t, "Internal", {})
     ELSE /\ db' = [db EXCEPT !.spend = Append(@, [key |-> c.key, model |-> c.model])]
          /\ Finish(t, "Ok", {}) /\ UNCHANGED hash_index

\* ORDER BY timestamp: the callers' clocks, not the order of insertion.
SqlSpendLogs(t) ==
  LET c == call[t][1] IN
  /\ Sql(t, "get_spend_logs")
  /\ \E S \in Pages(Spends(db.spend, c.of), c.limit) : Reply(t, "Ok", Entries(S))

\* Mutant: the connection is given back between the statements of a report.
TotalsThenUnlock(t) ==
  /\ Sql(t, "get_spend_summary")
  /\ partial' = [partial EXCEPT ![t] = Totals(db.spend, call[t][1].of)]
  /\ Goto(t, "groups")
  /\ UNCHANGED <<backend, db, hash_index, locks, call, answer, left>>

\* The report is a SELECT for the totals and one for each grouping; the
\* connection stays locked from the first to the last.
SqlTotals(t) ==
  /\ Sql(t, "get_spend_summary")
  /\ partial' = [partial EXCEPT ![t] = Totals(db.spend, call[t][1].of)]
  /\ connLock' = t
  /\ Goto(t, "groups")
  /\ UNCHANGED <<backend, db, hash_index, keysLock, indexLock, call, answer, left>>

SqlGroups(t) ==
  /\ pc[t] = "groups"
  /\ Reply(t, "Ok", partial[t] \cup Groups(db.spend, call[t][1].of))

SqlRequests(t) ==
  LET c == call[t][1] IN
  \/ /\ Sql(t, "record_request_log")
     /\ db' = [db EXCEPT !.requests = Append(@, c.model)]
     /\ Finish(t, "Ok", {}) /\ UNCHANGED hash_index
  \/ /\ Sql(t, "get_request_logs")
     /\ \E S \in Pages(Requests(db.requests, c.of), c.limit) :
          Reply(t, "Ok", Entries(S))

\* A statement fails (busy, disk full, a row that does not decode): Internal.
SqlFails(t) ==
  /\ backend = "sqlite"
  /\ pc[t] = "called" => Free(connLock)
  /\ pc[t] \in {"called", "groups"}
  /\ Reply(t, "Internal", {})

-----------------------------------------------------------------------------
\* The process dies and starts again: only the database file is left.
Crash ==
  /\ db' = IF backend = "sqlite" THEN db ELSE EmptyDb
  /\ hash_index' = {}
  /\ keysLock' = NoOne /\ indexLock' = NoOne /\ connLock' = NoOne
  /\ pc' = [t \in Threads |-> "idle"]
  /\ call' = [t \in Threads |-> <<>>]
  /\ answer' = [t \in Threads |-> NoAnswer]
  /\ partial' = [t \in Threads |-> {}]
  /\ UNCHANGED <<backend, left>>

Memory(t) ==
  \/ MemCreateKey(t) \/ MemCreateIndex(t) \/ MemGetByHash(t) \/ MemGetById(t)
  \/ MemListKeys(t) \/ MemUpdateKey(t) \/ MemDeleteKey(t) \/ MemDeleteIndex(t)
  \/ MemTeams(t) \/ MemSpend(t) \/ MemRequests(t)

Sqlite(t) ==
  \/ SqlCreateKey(t) \/ SqlReadKeys(t) \/ SqlUpdateKey(t) \/ SqlDeleteKey(t)
  \/ SqlTeams(t) \/ SqlRecordSpend(t) \/ SqlSpendLogs(t) \/ SqlTotals(t)
  \/ SqlGroups(t) \/ SqlRequests(t) \/ SqlFails(t)

Next ==
  \/ \E t \in Threads : Invoke(t) \/ Memory(t) \/ Sqlite(t) \/ Return(t)
  \/ Crash

\* A thread inside a method runs on, and a lock that is free is handed out:
\* the calls are finite, so nobody is overtaken for ever.
Fairness == \A t \in Threads : WF_vars(Memory(t) \/ Sqlite(t))

Spec == Init /\ [][Next]_vars /\ Fairness
=============================================================================
