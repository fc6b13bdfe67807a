----------------------------- MODULE StoreProofs -----------------------------
(***************************************************************************)
(* Both backends implement the atomic store, for any number of threads,    *)
(* keys, teams and calls, and the hash index of InMemoryStore agrees with  *)
(* its keys.                                                               *)
(*                                                                         *)
(* Neither is inductive.  Stage says what a thread in the middle of a      *)
(* method holds and has done: the writer of the keys is the only one that  *)
(* may find the index and the keys apart, and the owner of the connection  *)
(* finds the spend log as its first statement read it.                     *)
(*                                                                         *)
(* Every table holds rows of its type (Tabled); that spend names a key     *)
(* that is there rests on the cascade, a fold over the whole log.          *)
(***************************************************************************)
EXTENDS StoreProps, FoldLemmas, FiniteSetTheorems, SequenceTheorems,
        TLAPS

Places == {"idle", "called", "create_index", "by_id", "delete_index", "groups", "done"}

\* Where each thread is, and what it has been told.
Shape ==
  /\ backend \in {"memory", "sqlite"}
  /\ pc \in [Threads -> Places]
  /\ DOMAIN call = Threads /\ DOMAIN answer = Threads /\ DOMAIN partial = Threads
  /\ \A t \in Threads : IF pc[t] = "idle" THEN call[t] = <<>>
                        ELSE \E c \in Calls : call[t] = <<c>>
  /\ \A t \in Threads : answer[t] = NoAnswer <=> pc[t] # "done"

\* What a thread inside a method holds.
Stage(t) ==
  /\ pc[t] \in {"create_index", "delete_index"} =>
       /\ backend = "memory" /\ keysLock = t
       /\ call[t][1].id \notin DOMAIN db.keys
  /\ pc[t] = "create_index" => call[t][1].op = "create_key"
  /\ pc[t] = "delete_index" => call[t][1].op = "delete_key"
  /\ pc[t] = "by_id" => backend = "memory" /\ call[t][1].op = "get_key_by_hash"
  /\ pc[t] = "groups" =>
       /\ backend = "sqlite" /\ connLock = t
       /\ call[t][1].op = "get_spend_summary"
       /\ partial[t] = Totals(db.spend, call[t][1].of)

\* Who holds a lock is in the middle of a method that took it.
Holders ==
  /\ keysLock # NoOne =>
       keysLock \in Threads /\ pc[keysLock] \in {"create_index", "delete_index"}
  /\ connLock # NoOne => connLock \in Threads /\ pc[connLock] = "groups"
  /\ indexLock = NoOne

\* The hash that delete_key has still to remove.
Stale == {call[t][1].id : t \in {t \in Threads : pc[t] = "delete_index"}}

\* The logs of InMemoryStore only grow, by well-formed records.
Tables ==
  /\ db = [keys |-> db.keys, teams |-> db.teams, spend |-> db.spend,
           requests |-> db.requests]
  /\ backend = "memory" =>
       /\ db.keys = [i \in DOMAIN db.keys |-> db.keys[i]]
       /\ db.spend \in Seq([key : KeyIds, model : Models])
       /\ db.requests \in Seq(Models)

Index == backend = "memory" => hash_index = DOMAIN db.keys \cup Stale

StoreInv == Shape /\ (\A t \in Threads : Stage(t)) /\ Holders /\ Tables /\ Index

LEMMA StoreInit == Init => StoreInv
BY DEF Init, StoreInv, Shape, Places, Stage, Holders, Index, Stale, Tables, EmptyDb

\* What a call is about: the fields of its record.
LEMMA CallFields ==
  ASSUME NEW c \in Calls
  PROVE  /\ c.op \in KeyCalls \cup {"create_team", "update_team", "get_team", "delete_team",
              "list_teams", "record_spend", "get_spend_logs", "get_spend_summary",
              "record_request_log", "get_request_logs"}
         /\ c.op \in {"get_spend_logs", "get_request_logs"} => c.limit \in 1 .. 2
BY DEF Calls, KeyCalls, Limits

LEMMA PutIsFunction ==
  ASSUME NEW table, NEW i, NEW v
  PROVE  Put(table, i, v) = [j \in DOMAIN Put(table, i, v) |-> Put(table, i, v)[j]]
BY DEF Put

LEMMA WithoutDomain ==
  ASSUME NEW table, NEW i
  PROVE  DOMAIN Without(table, i) = DOMAIN table \ {i}
BY DEF Without

-----------------------------------------------------------------------------
Statuses == {"Ok", "Duplicate", "NotFound", "Internal"}

\* Nobody holds the keys of a relational store, and whoever holds them is
\* in the middle of a method.
LEMMA KeysHeld ==
  ASSUME StoreInv, keysLock # NoOne
  PROVE  /\ backend = "memory" /\ keysLock \in Threads
         /\ pc[keysLock] \in {"create_index", "delete_index"}
BY DEF StoreInv, Holders, Stage

LEMMA NothingStale ==
  ASSUME StoreInv, Free(keysLock)
  PROVE  Stale = {}
BY StoreAssumption DEF StoreInv, Stage, Stale, Free

\* The one stale hash is that of the call of the keys' writer.
LEMMA StaleOfHolder ==
  ASSUME StoreInv, NEW t \in Threads, pc[t] = "delete_index"
  PROVE  Stale = {call[t][1].id}
BY DEF StoreInv, Stage, Stale

\* The end of a method leaves the threads as StoreInv wants them; what it
\* does to the tables is the caller's to prove.
LEMMA FinishKeeps ==
  ASSUME StoreInv, NEW t \in Threads, pc[t] # "idle",
         NEW status \in Statuses, NEW rows, Finish(t, status, rows),
         keysLock \in {NoOne, t} \/ db'.keys = db.keys,
         connLock \in {NoOne, t} \/ db'.spend = db.spend,
         Tables', Index'
  PROVE  StoreInv'
<1>1. Shape'
  BY DEF StoreInv, Shape, Finish, Goto, Answer, NoAnswer, Statuses, Places
<1>2. Holders'
  BY StoreAssumption DEF StoreInv, Shape, Holders, Finish, Goto, Dropped, Places
<1>3. ASSUME NEW u \in Threads PROVE Stage(u)'
  <2>1. CASE u = t
    BY <2>1 DEF StoreInv, Shape, Stage, Finish, Goto
  <2>2. CASE u # t
    <3>1. pc'[u] = pc[u] /\ call'[u] = call[u] /\ partial'[u] = partial[u]
          /\ backend' = backend
      BY <2>2 DEF StoreInv, Shape, Finish, Goto
    <3>2. keysLock = u => keysLock' = u /\ db'.keys = db.keys
      BY <2>2, StoreAssumption DEF Finish, Dropped
    <3>3. connLock = u => connLock' = u /\ db'.spend = db.spend
      BY <2>2, StoreAssumption DEF Finish, Dropped
    <3>4. Stage(u)
      BY DEF StoreInv
    <3> QED BY <3>1, <3>2, <3>3, <3>4 DEF Stage
  <2> QED BY <2>1, <2>2
<1> QED BY <1>1, <1>2, <1>3 DEF StoreInv

\* The end of any method but delete_key leaves no other stale hash.
LEMMA FinishStale ==
  ASSUME StoreInv, NEW t \in Threads, pc[t] # "delete_index",
         NEW status, NEW rows, Finish(t, status, rows)
  PROVE  Stale' = Stale
BY DEF StoreInv, Shape, Stale, Finish, Goto

LEMMA ReplyKeeps ==
  ASSUME StoreInv, NEW t \in Threads, pc[t] \notin {"idle", "delete_index"},
         NEW status \in Statuses, NEW rows, Reply(t, status, rows)
  PROVE  StoreInv'
<1>1. Finish(t, status, rows) /\ db' = db /\ hash_index' = hash_index
  BY DEF Reply
<1>2. backend' = backend
  BY <1>1 DEF Finish
<1>3. Stale' = Stale
  BY <1>1, FinishStale
<1>4. Tables' /\ Index'
  BY <1>1, <1>2, <1>3 DEF StoreInv, Tables, Index
<1> QED BY <1>1, <1>4, FinishKeeps

-----------------------------------------------------------------------------
(* One lemma per action, or per group of actions that disturb the same     *)
(* conjuncts.                                                              *)

LEMMA InvokeKeeps ==
  ASSUME StoreInv, NEW t \in Threads, Invoke(t)
  PROVE  StoreInv'
<1>1. pc[t] = "idle" /\ pc' = [pc EXCEPT ![t] = "called"]
      /\ UNCHANGED <<backend, db, hash_index, keysLock, indexLock, connLock,
                     answer, partial>>
  BY DEF Invoke, Goto, locks
<1>2. PICK c \in Calls : call' = [call EXCEPT ![t] = <<c>>]
  BY DEF Invoke
<1>3. Shape'
  BY <1>1, <1>2 DEF StoreInv, Shape, Places
<1>4. Holders'
  BY <1>1 DEF StoreInv, Shape, Holders
<1>5. ASSUME NEW u \in Threads PROVE Stage(u)'
  BY <1>1, <1>2 DEF StoreInv, Shape, Stage
<1>6. Stale' = Stale
  BY <1>1, <1>2 DEF StoreInv, Shape, Stale
<1>7. Tables' /\ Index'
  BY <1>1, <1>6 DEF StoreInv, Tables, Index
<1> QED BY <1>3, <1>4, <1>5, <1>7 DEF StoreInv

LEMMA ReturnKeeps ==
  ASSUME StoreInv, NEW t \in Threads, Return(t)
  PROVE  StoreInv'
<1>1. pc[t] = "done" /\ pc' = [pc EXCEPT ![t] = "idle"]
      /\ call' = [call EXCEPT ![t] = <<>>]
      /\ answer' = [answer EXCEPT ![t] = NoAnswer]
      /\ UNCHANGED <<backend, db, hash_index, keysLock, indexLock, connLock, partial>>
  BY DEF Return, Goto, locks
<1>3. Shape'
  BY <1>1 DEF StoreInv, Shape, Places
<1>4. Holders'
  BY <1>1 DEF StoreInv, Shape, Holders
<1>5. ASSUME NEW u \in Threads PROVE Stage(u)'
  BY <1>1 DEF StoreInv, Shape, Stage
<1>6. Stale' = Stale
  BY <1>1 DEF StoreInv, Shape, Stale
<1>7. Tables' /\ Index'
  BY <1>1, <1>6 DEF StoreInv, Tables, Index
<1> QED BY <1>3, <1>4, <1>5, <1>7 DEF StoreInv

\* Only the columns of the keys and the hash index are between the locks.
LEMMA MemCreateKeyKeeps ==
  ASSUME StoreInv, NEW t \in Threads, MemCreateKey(t)
  PROVE  StoreInv'
<1>1. CASE call[t][1].id \in DOMAIN db.keys
  <2>1. Reply(t, "Duplicate", {}) /\ pc[t] = "called"
    BY <1>1 DEF MemCreateKey, Called
  <2> QED BY <2>1, ReplyKeeps DEF Statuses
<1>2. CASE call[t][1].id \notin DOMAIN db.keys
  <2>1. /\ backend = "memory" /\ pc[t] = "called" /\ call[t][1].op = "create_key"
        /\ Free(keysLock) /\ keysLock' = t /\ pc' = [pc EXCEPT ![t] = "create_index"]
        /\ UNCHANGED <<backend, db, hash_index, indexLock, connLock, call, answer, partial>>
    BY <1>2 DEF MemCreateKey, Called, Goto
  <2>2. Shape'
    BY <2>1 DEF StoreInv, Shape, Places
  <2>3. Holders'
    BY <2>1 DEF StoreInv, Shape, Holders
  <2>4. ASSUME NEW u \in Threads PROVE Stage(u)'
    BY <2>1, <1>2, StoreAssumption DEF StoreInv, Shape, Stage, Free
  <2>5. Stale' = Stale
    BY <2>1 DEF StoreInv, Shape, Stale
  <2>6. Tables' /\ Index'
    BY <2>1, <2>5 DEF StoreInv, Tables, Index
  <2> QED BY <2>2, <2>3, <2>4, <2>6 DEF StoreInv
<1> QED BY <1>1, <1>2

LEMMA MemCreateIndexKeeps ==
  ASSUME StoreInv, NEW t \in Threads, MemCreateIndex(t)
  PROVE  StoreInv'
<1>1. /\ backend = "memory" /\ pc[t] = "create_index" /\ keysLock = t
      /\ hash_index' = hash_index \cup {call[t][1].id}
      /\ db' = [db EXCEPT !.keys = Put(db.keys, call[t][1].id, call[t][1].val)]
      /\ Finish(t, "Ok", {})
  BY DEF MemCreateIndex, At, StoreInv, Stage
<1>2. Stale' = Stale /\ backend' = backend
  BY <1>1, FinishStale DEF Finish
<1>3. db'.keys = Put(db.keys, call[t][1].id, call[t][1].val)
      /\ db'.spend = db.spend /\ db'.requests = db.requests /\ Tables'
  BY <1>1, <1>2, PutIsFunction DEF StoreInv, Tables
<1>4. DOMAIN db'.keys = DOMAIN db.keys \cup {call[t][1].id}
  BY <1>3 DEF Put
<1>5. Index'
  BY <1>1, <1>2, <1>4 DEF StoreInv, Index
<1> QED BY <1>1, <1>3, <1>5, FinishKeeps DEF Statuses

LEMMA MemGetByHashKeeps ==
  ASSUME StoreInv, NEW t \in Threads, MemGetByHash(t)
  PROVE  StoreInv'
<1>1. CASE call[t][1].id \notin hash_index
  <2>1. Reply(t, "Ok", {}) /\ pc[t] = "called"
    BY <1>1 DEF MemGetByHash, Called
  <2> QED BY <2>1, ReplyKeeps DEF Statuses
<1>2. CASE call[t][1].id \in hash_index
  <2>1. /\ backend = "memory" /\ pc[t] = "called"
        /\ call[t][1].op = "get_key_by_hash" /\ pc' = [pc EXCEPT ![t] = "by_id"]
        /\ UNCHANGED <<backend, db, hash_index, keysLock, indexLock, connLock,
                       call, answer, partial>>
    BY <1>2 DEF MemGetByHash, Called, Goto, locks
  <2>2. Shape'
    BY <2>1 DEF StoreInv, Shape, Places
  <2>3. Holders'
    BY <2>1 DEF StoreInv, Shape, Holders
  <2>4. ASSUME NEW u \in Threads PROVE Stage(u)'
    BY <2>1 DEF StoreInv, Shape, Stage
  <2>5. Stale' = Stale
    BY <2>1 DEF StoreInv, Shape, Stale
  <2>6. Tables' /\ Index'
    BY <2>1, <2>5 DEF StoreInv, Tables, Index
  <2> QED BY <2>2, <2>3, <2>4, <2>6 DEF StoreInv
<1> QED BY <1>1, <1>2

LEMMA MemReadKeysKeeps ==
  ASSUME StoreInv, NEW t \in Threads, MemGetById(t) \/ MemListKeys(t)
  PROVE  StoreInv'
<1>1. PICK rows : pc[t] \in {"by_id", "called"} /\ Reply(t, "Ok", rows)
  BY DEF MemGetById, MemListKeys, Called
<1> QED BY <1>1, ReplyKeeps DEF Statuses

LEMMA UpdateKeeps ==
  ASSUME StoreInv, NEW t \in Threads, pc[t] = "called", Free(keysLock),
         NEW i \in DOMAIN db.keys, NEW v,
         db' = [db EXCEPT !.keys = Put(db.keys, i, v)],
         Finish(t, "Ok", {}), UNCHANGED hash_index
  PROVE  StoreInv'
<1>1. Stale' = Stale /\ backend' = backend
  BY FinishStale DEF Finish
<1>2. db'.keys = Put(db.keys, i, v) /\ db'.spend = db.spend
      /\ db'.requests = db.requests /\ Tables'
  BY <1>1, PutIsFunction DEF StoreInv, Tables
<1>3. DOMAIN db'.keys = DOMAIN db.keys
  BY <1>2 DEF Put
<1>4. Index'
  BY <1>1, <1>3 DEF StoreInv, Index
<1> QED BY <1>2, <1>4, FinishKeeps DEF Statuses, Free

LEMMA MemUpdateKeyKeeps ==
  ASSUME StoreInv, NEW t \in Threads, MemUpdateKey(t)
  PROVE  StoreInv'
<1>1. pc[t] = "called" /\ Free(keysLock)
  BY DEF MemUpdateKey, Called
<1>2. CASE call[t][1].id \notin DOMAIN db.keys
  BY <1>1, <1>2, ReplyKeeps DEF MemUpdateKey, Statuses
<1>3. CASE call[t][1].id \in DOMAIN db.keys
  BY <1>1, <1>3, UpdateKeeps DEF MemUpdateKey
<1> QED BY <1>2, <1>3

LEMMA MemDeleteKeyKeeps ==
  ASSUME StoreInv, NEW t \in Threads, MemDeleteKey(t)
  PROVE  StoreInv'
<1>1. CASE call[t][1].id \notin DOMAIN db.keys
  BY <1>1, ReplyKeeps DEF MemDeleteKey, Called, Statuses
<1>2. CASE call[t][1].id \in DOMAIN db.keys
  <2> DEFINE id == call[t][1].id
  <2>1. /\ backend = "memory" /\ pc[t] = "called" /\ call[t][1].op = "delete_key"
        /\ Free(keysLock) /\ keysLock' = t /\ pc' = [pc EXCEPT ![t] = "delete_index"]
        /\ db' = [db EXCEPT !.keys = Without(db.keys, id)]
        /\ UNCHANGED <<backend, hash_index, indexLock, connLock, call, answer, partial>>
    BY <1>2 DEF MemDeleteKey, Called, Goto
  <2>2. /\ db'.keys = Without(db.keys, id) /\ db'.spend = db.spend
        /\ db'.requests = db.requests /\ Tables'
    <3>1. Without(db.keys, id)
            = [i \in DOMAIN Without(db.keys, id) |-> Without(db.keys, id)[i]]
      BY DEF Without
    <3> QED BY <2>1, <3>1 DEF StoreInv, Tables
  <2>3. DOMAIN db'.keys = DOMAIN db.keys \ {id}
    BY <2>2, WithoutDomain
  <2>4. Shape'
    BY <2>1 DEF StoreInv, Shape, Places
  <2>5. Holders'
    BY <2>1 DEF StoreInv, Shape, Holders
  <2>6. ASSUME NEW u \in Threads PROVE Stage(u)'
    BY <2>1, <2>2, <2>3, StoreAssumption DEF StoreInv, Shape, Stage, Free
  <2>7. Stale = {} /\ Stale' = {id}
    <3>1. Stale = {}
      BY <2>1, NothingStale
    <3>2. {u \in Threads : pc'[u] = "delete_index"} = {t}
      BY <2>1, StoreAssumption DEF StoreInv, Shape, Stage, Free
    <3> QED BY <2>1, <3>1, <3>2 DEF Stale
  <2>8. hash_index = DOMAIN db.keys
    BY <2>1, <2>7 DEF StoreInv, Index
  <2>9. Index'
    BY <1>2, <2>1, <2>3, <2>7, <2>8 DEF Index
  <2> QED BY <2>2, <2>4, <2>5, <2>6, <2>9 DEF StoreInv
<1> QED BY <1>1, <1>2

LEMMA MemDeleteIndexKeeps ==
  ASSUME StoreInv, NEW t \in Threads, MemDeleteIndex(t)
  PROVE  StoreInv'
<1> DEFINE id == call[t][1].id
<1>1. /\ backend = "memory" /\ pc[t] = "delete_index" /\ keysLock = t
      /\ hash_index' = hash_index \ {id} /\ db' = db
      /\ Finish(t, "Ok", {<<id, All>>}) /\ id \notin DOMAIN db.keys
  BY DEF MemDeleteIndex, At, StoreInv, Stage
<1>2. Stale = {id}
  BY <1>1, StaleOfHolder
<1>3. {u \in Threads : pc'[u] = "delete_index"} = {}
  BY <1>1, StoreAssumption DEF StoreInv, Shape, Stage, Finish, Goto
<1>4. Stale' = {} /\ backend' = backend
  BY <1>1, <1>3 DEF Stale, Finish
<1>5. Tables' /\ Index'
  BY <1>1, <1>2, <1>4 DEF StoreInv, Tables, Index
<1> QED BY <1>1, <1>5, FinishKeeps DEF Statuses

\* A method that leaves the keys and the spend log alone.
LEMMA TeamsKeeps ==
  ASSUME StoreInv, NEW t \in Threads, Teams(t)
  PROVE  StoreInv'
<1>1. PICK status, rows, teams :
        /\ status \in Statuses
        /\ pc[t] = "called" /\ Finish(t, status, rows) /\ hash_index' = hash_index
        /\ db' = [db EXCEPT !.teams = teams]
  <2>1. db = [db EXCEPT !.teams = db.teams]
    BY DEF StoreInv, Tables
  <2>2. \/ \E status \in Statuses : \E rows : Reply(t, status, rows)
        \/ \E teams, rows : Finish(t, "Ok", rows) /\ db' = [db EXCEPT !.teams = teams]
    BY Zenon DEF Teams, Statuses
  <2>3. pc[t] = "called" /\ hash_index' = hash_index
    BY DEF Teams, Called
  <2>4. "Ok" \in Statuses
    BY DEF Statuses
  <2> QED BY <2>1, <2>2, <2>3, <2>4, Zenon DEF Reply
<1>2. Stale' = Stale /\ backend' = backend
  BY <1>1, FinishStale DEF Finish
<1>3. db'.keys = db.keys /\ db'.spend = db.spend /\ db'.requests = db.requests /\ Tables'
  BY <1>1, <1>2 DEF StoreInv, Tables
<1>4. Index'
  BY <1>1, <1>2, <1>3 DEF StoreInv, Index
<1> QED BY <1>1, <1>3, <1>4, FinishKeeps

\* A method of InMemoryStore that appends to one of the logs.
LEMMA LogKeeps ==
  ASSUME StoreInv, NEW t \in Threads, backend = "memory", pc[t] = "called",
         Finish(t, "Ok", {}), hash_index' = hash_index,
         \/ \E r \in [key : KeyIds, model : Models] :
              db' = [db EXCEPT !.spend = Append(db.spend, r)]
         \/ \E m \in Models : db' = [db EXCEPT !.requests = Append(db.requests, m)]
  PROVE  StoreInv'
<1>1. Stale' = Stale /\ backend' = backend
  BY FinishStale DEF Finish
<1>2. db'.keys = db.keys /\ Tables'
  <2>1. CASE \E r \in [key : KeyIds, model : Models] :
               db' = [db EXCEPT !.spend = Append(db.spend, r)]
    <3>1. PICK r \in [key : KeyIds, model : Models] :
            db' = [db EXCEPT !.spend = Append(db.spend, r)]
      BY <2>1
    <3>2. db'.keys = db.keys /\ db'.requests = db.requests
          /\ db'.spend = Append(db.spend, r)
          /\ db' = [keys |-> db'.keys, teams |-> db'.teams, spend |-> db'.spend,
                    requests |-> db'.requests]
      BY <3>1 DEF StoreInv, Tables
    <3>3. Append(db.spend, r) \in Seq([key : KeyIds, model : Models])
      BY DEF StoreInv, Tables
    <3> QED BY <1>1, <3>2, <3>3 DEF StoreInv, Tables
  <2>2. CASE \E m \in Models : db' = [db EXCEPT !.requests = Append(db.requests, m)]
    <3>1. PICK m \in Models : db' = [db EXCEPT !.requests = Append(db.requests, m)]
      BY <2>2
    <3>2. db'.keys = db.keys /\ db'.spend = db.spend
          /\ db'.requests = Append(db.requests, m)
          /\ db' = [keys |-> db'.keys, teams |-> db'.teams, spend |-> db'.spend,
                    requests |-> db'.requests]
      BY <3>1 DEF StoreInv, Tables
    <3>3. Append(db.requests, m) \in Seq(Models)
      BY DEF StoreInv, Tables
    <3> QED BY <1>1, <3>2, <3>3 DEF StoreInv, Tables
  <2> QED BY <2>1, <2>2
<1>3. connLock \in {NoOne, t}
  BY DEF StoreInv, Holders, Stage
<1>4. Index'
  BY <1>1, <1>2 DEF StoreInv, Index
<1> QED BY <1>2, <1>3, <1>4, FinishKeeps DEF Statuses

\* The record of a thread that is inside a method.
LEMMA TheCall ==
  ASSUME StoreInv, NEW t \in Threads, pc[t] # "idle"
  PROVE  call[t][1] \in Calls /\ call[t] # <<>>
BY DEF StoreInv, Shape

LEMMA SpendFields ==
  ASSUME NEW c \in Calls
  PROVE  /\ c.op = "record_spend" => c.key \in KeyIds /\ c.model \in Models
         /\ c.op = "record_request_log" => c.model \in Models
BY DEF Calls

LEMMA MemLogsKeep ==
  ASSUME StoreInv, NEW t \in Threads, MemSpend(t) \/ MemRequests(t)
  PROVE  StoreInv'
<1>1. backend = "memory" /\ pc[t] = "called" /\ hash_index' = hash_index
  BY DEF MemSpend, MemRequests, Called
<1>2. call[t][1] \in Calls
  BY <1>1, TheCall
<1>3. \/ \E rows : Reply(t, "Ok", rows)
      \/ /\ Called(t, "record_spend") /\ Finish(t, "Ok", {})
         /\ db' = [db EXCEPT !.spend = Append(db.spend,
                     [key |-> call[t][1].key, model |-> call[t][1].model])]
      \/ /\ Called(t, "record_request_log") /\ Finish(t, "Ok", {})
         /\ db' = [db EXCEPT !.requests = Append(db.requests, call[t][1].model)]
  BY Zenon DEF MemSpend, MemRequests
<1>4. CASE \E rows : Reply(t, "Ok", rows)
  BY <1>1, <1>4, ReplyKeeps DEF Statuses
<1>5. CASE /\ Called(t, "record_spend") /\ Finish(t, "Ok", {})
           /\ db' = [db EXCEPT !.spend = Append(db.spend,
                       [key |-> call[t][1].key, model |-> call[t][1].model])]
  <2>1. [key |-> call[t][1].key, model |-> call[t][1].model]
          \in [key : KeyIds, model : Models]
    BY <1>2, <1>5, SpendFields DEF Called
  <2> QED BY <1>1, <1>5, <2>1, LogKeeps
<1>6. CASE /\ Called(t, "record_request_log") /\ Finish(t, "Ok", {})
           /\ db' = [db EXCEPT !.requests = Append(db.requests, call[t][1].model)]
  <2>1. call[t][1].model \in Models
    BY <1>2, <1>6, SpendFields DEF Called
  <2> QED BY <1>1, <1>6, <2>1, LogKeeps
<1> QED BY <1>3, <1>4, <1>5, <1>6

\* A statement of SqliteStore runs while nobody holds the connection, and
\* it may write what it likes.
LEMMA SqlKeeps ==
  ASSUME StoreInv, NEW t \in Threads, backend = "sqlite", Free(connLock),
         pc[t] = "called", NEW status \in Statuses, NEW rows,
         Finish(t, status, rows), Tables'
  PROVE  StoreInv'
<1>1. keysLock = NoOne
  BY KeysHeld
<1>2. Index'
  BY DEF Index, Finish
<1> QED BY <1>1, <1>2, FinishKeeps DEF Free

LEMMA SqlWrites ==
  ASSUME StoreInv, backend' = "sqlite",
         \/ db' = db
         \/ \E x : db' = [db EXCEPT !.keys = x]
         \/ \E x : db' = [db EXCEPT !.spend = x]
         \/ \E x : db' = [db EXCEPT !.requests = x]
         \/ \E x, y : db' = [db EXCEPT !.keys = x, !.spend = y]
  PROVE  Tables'
BY DEF StoreInv, Tables

LEMMA SqlStatementsKeep ==
  ASSUME StoreInv, NEW t \in Threads,
         \/ SqlCreateKey(t) \/ SqlReadKeys(t) \/ SqlUpdateKey(t) \/ SqlDeleteKey(t)
         \/ SqlRecordSpend(t) \/ SqlSpendLogs(t) \/ SqlRequests(t)
  PROVE  StoreInv'
<1>1. backend = "sqlite" /\ Free(connLock) /\ pc[t] = "called"
  BY DEF SqlCreateKey, SqlReadKeys, SqlUpdateKey, SqlDeleteKey, SqlRecordSpend,
         SqlSpendLogs, SqlRequests, Sql, Called
<1>2. \E status \in Statuses : \E rows :
        /\ Finish(t, status, rows)
        /\ \/ db' = db
           \/ \E x : db' = [db EXCEPT !.keys = x]
           \/ \E x : db' = [db EXCEPT !.spend = x]
           \/ \E x : db' = [db EXCEPT !.requests = x]
           \/ \E x, y : db' = [db EXCEPT !.keys = x, !.spend = y]
  <2>0. {"Ok", "Duplicate", "NotFound", "Internal"} = Statuses
    BY DEF Statuses
  <2>1. CASE SqlCreateKey(t)
    BY <2>0, <2>1, Zenon DEF SqlCreateKey, Reply, Statuses
  <2>2. CASE SqlReadKeys(t)
    BY <2>0, <2>2, Zenon DEF SqlReadKeys, Reply, Statuses
  <2>3. CASE SqlUpdateKey(t)
    BY <2>0, <2>3, Zenon DEF SqlUpdateKey, Reply, Statuses
  <2>4. CASE SqlDeleteKey(t)
    BY <2>0, <2>4, Zenon DEF SqlDeleteKey, Statuses
  <2>5. CASE SqlRecordSpend(t)
    BY <2>0, <2>5, Zenon DEF SqlRecordSpend, Reply, Statuses
  <2>6. CASE SqlSpendLogs(t)
    BY <2>0, <2>6, Zenon DEF SqlSpendLogs, Reply, Statuses
  <2>7. CASE SqlRequests(t)
    BY <2>0, <2>7, Zenon DEF SqlRequests, Reply, Statuses
  <2> QED BY <2>1, <2>2, <2>3, <2>4, <2>5, <2>6, <2>7
<1>3. PICK status, rows :
        /\ status \in Statuses
        /\ Finish(t, status, rows)
        /\ \/ db' = db
           \/ \E x : db' = [db EXCEPT !.keys = x]
           \/ \E x : db' = [db EXCEPT !.spend = x]
           \/ \E x : db' = [db EXCEPT !.requests = x]
           \/ \E x, y : db' = [db EXCEPT !.keys = x, !.spend = y]
  BY <1>2
<1>4. Tables'
  BY <1>1, <1>3, SqlWrites DEF Finish
<1> QED BY <1>1, <1>3, <1>4, SqlKeeps

LEMMA SqlTotalsKeeps ==
  ASSUME StoreInv, NEW t \in Threads, SqlTotals(t)
  PROVE  StoreInv'
<1>1. /\ backend = "sqlite" /\ Free(connLock) /\ pc[t] = "called"
      /\ call[t][1].op = "get_spend_summary"
      /\ partial' = [partial EXCEPT ![t] = Totals(db.spend, call[t][1].of)]
      /\ connLock' = t /\ pc' = [pc EXCEPT ![t] = "groups"]
      /\ UNCHANGED <<backend, db, hash_index, keysLock, indexLock, call, answer>>
  BY DEF SqlTotals, Sql, Called, Goto
<1>2. Shape'
  BY <1>1 DEF StoreInv, Shape, Places
<1>3. Holders'
  BY <1>1 DEF StoreInv, Shape, Holders
<1>4. ASSUME NEW u \in Threads PROVE Stage(u)'
  BY <1>1, StoreAssumption DEF StoreInv, Shape, Stage, Free
<1>5. Tables' /\ Index'
  BY <1>1 DEF StoreInv, Tables, Index
<1> QED BY <1>2, <1>3, <1>4, <1>5 DEF StoreInv

LEMMA SqlEndsKeep ==
  ASSUME StoreInv, NEW t \in Threads, SqlGroups(t) \/ SqlFails(t)
  PROVE  StoreInv'
<1>1. PICK status, rows :
        status \in Statuses /\ Reply(t, status, rows) /\ pc[t] \in {"called", "groups"}
  <2>1. CASE SqlGroups(t)
    BY <2>1, Zenon DEF SqlGroups, Statuses
  <2>2. CASE SqlFails(t)
    BY <2>2, Zenon DEF SqlFails, Statuses
  <2> QED BY <2>1, <2>2
<1> QED BY <1>1, ReplyKeeps

LEMMA CrashKeeps ==
  ASSUME StoreInv, Crash
  PROVE  StoreInv'
<1>1. Shape'
  BY DEF StoreInv, Shape, Crash, Places, NoAnswer
<1>2. Holders'
  BY DEF Holders, Crash
<1>3. ASSUME NEW u \in Threads PROVE Stage(u)'
  BY DEF Stage, Crash
<1>4. Stale' = {}
  BY DEF Stale, Crash
<1>5. Tables'
  BY DEF StoreInv, Tables, Crash, EmptyDb
<1>6. Index'
  BY <1>4 DEF StoreInv, Shape, Index, Crash, EmptyDb
<1> QED BY <1>1, <1>2, <1>3, <1>5, <1>6 DEF StoreInv

LEMMA StutterKeeps ==
  ASSUME StoreInv, UNCHANGED vars
  PROVE  StoreInv'
<1>1. Stale' = Stale
  BY DEF vars, locks, Stale
<1>2. Shape' /\ Holders' /\ Tables' /\ Index'
  BY <1>1 DEF StoreInv, Shape, Holders, Tables, Index, vars, locks
<1>3. ASSUME NEW u \in Threads PROVE Stage(u)'
  BY DEF StoreInv, Stage, vars, locks
<1> QED BY <1>2, <1>3 DEF StoreInv

LEMMA StoreStep == StoreInv /\ [Next]_vars => StoreInv'
<1> SUFFICES ASSUME StoreInv, Next PROVE StoreInv'
  BY StutterKeeps
<1>1. CASE Crash
  BY <1>1, CrashKeeps
<1>2. ASSUME NEW t \in Threads, Invoke(t) \/ Return(t) PROVE StoreInv'
  BY <1>2, InvokeKeeps, ReturnKeeps
<1>3. ASSUME NEW t \in Threads, Memory(t) PROVE StoreInv'
  BY <1>3, MemCreateKeyKeeps, MemCreateIndexKeeps, MemGetByHashKeeps,
     MemReadKeysKeeps, MemUpdateKeyKeeps, MemDeleteKeyKeeps, MemDeleteIndexKeeps,
     TeamsKeeps, MemLogsKeep DEF Memory, MemTeams
<1>4. ASSUME NEW t \in Threads, Sqlite(t) PROVE StoreInv'
  BY <1>4, SqlStatementsKeep, SqlTotalsKeeps, SqlEndsKeep, TeamsKeeps
     DEF Sqlite, SqlTeams
<1> QED BY <1>1, <1>2, <1>3, <1>4 DEF Next

THEOREM StoreInvariant == Spec => []StoreInv
BY StoreInit, StoreStep, PTL DEF Spec

\* Whenever nobody holds the keys of InMemoryStore, the index finds exactly
\* the keys that exist, for any number of threads and keys and whatever
\* crashes: the stale hash of a key being deleted is its writer's secret.
THEOREM IndexCorrect == Spec => []IndexAgrees
<1>1. StoreInv => IndexAgrees
  BY NothingStale DEF IndexAgrees, StoreInv, Index
<1> QED BY <1>1, StoreInvariant, PTL

-----------------------------------------------------------------------------
(* A page of InMemoryStore, the last entries appended, is one of the pages  *)
(* that the order of the timestamps may give.                              *)

\* Counting the later entries numbers the entries from zero.
LEMMA LaterCounts ==
  ASSUME NEW hits, IsFiniteSet(hits), hits \subseteq Nat
  PROVE  LET later == [n \in hits |-> Cardinality({m \in hits : m > n})]
         IN  /\ later \in Injection(hits, 0 .. Cardinality(hits) - 1)
             /\ later \in Surjection(hits, 0 .. Cardinality(hits) - 1)
<1> DEFINE After(n) == {m \in hits : m > n}
           size == Cardinality(hits)
           later == [n \in hits |-> Cardinality(After(n))]
<1>1. size \in Nat
  BY FS_CardinalityType
<1>2. ASSUME NEW n \in hits PROVE /\ IsFiniteSet(After(n))
                                  /\ Cardinality(After(n)) \in 0 .. size - 1
  <2>1. After(n) \in SUBSET hits /\ After(n) # hits
    OBVIOUS
  <2>2. IsFiniteSet(After(n)) /\ Cardinality(After(n)) <= size
        /\ Cardinality(After(n)) # size
    BY <2>1, FS_Subset
  <2>3. Cardinality(After(n)) \in Nat
    BY <2>2, FS_CardinalityType
  <2> QED BY <1>1, <2>2, <2>3
<1>3. ASSUME NEW n \in hits, NEW k \in hits, n < k
      PROVE  Cardinality(After(k)) < Cardinality(After(n))
  <2>1. After(k) \in SUBSET After(n) /\ After(k) # After(n)
    <3>1. k \in After(n) /\ k \notin After(k)
      BY <1>3
    <3>2. ASSUME NEW m \in hits, m > k PROVE m > n
      <4>1. m \in Nat /\ n \in Nat /\ k \in Nat
        OBVIOUS
      <4> QED BY <1>3, <3>2, <4>1
    <3>3. After(k) \subseteq After(n)
      BY <3>2
    <3> HIDE DEF After
    <3> QED BY <3>1, <3>3
  <2>2. IsFiniteSet(After(n)) /\ IsFiniteSet(After(k))
    BY <1>2
  <2>3. Cardinality(After(k)) <= Cardinality(After(n))
        /\ Cardinality(After(n)) # Cardinality(After(k))
    BY <2>1, <2>2, FS_Subset
  <2> QED BY <1>1, <1>2, <2>3
<1>4. later \in [hits -> 0 .. size - 1]
  BY <1>2
<1>5. \A n, k \in hits : later[n] = later[k] => n = k
  <2> SUFFICES ASSUME NEW n \in hits, NEW k \in hits, n # k PROVE later[n] # later[k]
    OBVIOUS
  <2>1. n < k \/ k < n
    OBVIOUS
  <2>2. Cardinality(After(k)) < Cardinality(After(n))
        \/ Cardinality(After(n)) < Cardinality(After(k))
    BY <2>1, <1>3
  <2>3. Cardinality(After(k)) \in Int /\ Cardinality(After(n)) \in Int
    BY <1>1, <1>2
  <2> HIDE DEF After
  <2> QED BY <2>2, <2>3
<1>6. later \in Injection(hits, 0 .. size - 1)
  BY <1>4, <1>5 DEF Injection, IsInjective
<1>7. IsFiniteSet(0 .. size - 1) /\ Cardinality(0 .. size - 1) = size
  <2> HIDE DEF size
  <2>1. 0 \in Int /\ size - 1 \in Int
    BY <1>1
  <2>2. /\ IsFiniteSet(0 .. size - 1)
        /\ Cardinality(0 .. size - 1) = IF 0 > size - 1 THEN 0 ELSE size - 1 - 0 + 1
    BY <2>1, FS_Interval
  <2> QED BY <1>1, <2>2
<1>8. later \in Surjection(hits, 0 .. size - 1)
  BY <1>6, <1>7, FS_Injection
<1> QED BY <1>6, <1>8

\* The later entries of a page that stops after `limit` are fewer than that.
LEMMA NewestIsAPage ==
  ASSUME NEW hits, IsFiniteSet(hits), hits \subseteq Nat, NEW limit \in Nat
  PROVE  Newest(hits, limit) \in Pages(hits, limit)
<1> DEFINE later == [n \in hits |-> Cardinality({m \in hits : m > n})]
           size  == Cardinality(hits)
           page  == Newest(hits, limit)
           full  == IF size < limit THEN size ELSE limit
           rank  == [n \in page |-> later[n]]
<1>1. size \in Nat /\ full \in Nat
  BY FS_CardinalityType
<1>2. /\ later \in Injection(hits, 0 .. size - 1)
      /\ later \in Surjection(hits, 0 .. size - 1)
  BY LaterCounts
<1>3. page \subseteq hits /\ \A n \in hits : n \in page <=> later[n] < limit
  BY DEF Newest
<1>4. /\ \A n \in hits : later[n] \in 0 .. size - 1
      /\ \A n, k \in hits : later[n] = later[k] => n = k
      /\ \A r \in 0 .. size - 1 : \E n \in hits : later[n] = r
  <2> HIDE DEF later
  <2>1. later \in [hits -> 0 .. size - 1] /\ IsInjective(later)
    BY <1>2 DEF Injection
  <2>2. \A r \in 0 .. size - 1 : \E n \in hits : later[n] = r
    BY <1>2 DEF Surjection
  <2> QED BY <2>1, <2>2 DEF IsInjective
<1> HIDE DEF later, page, size
<1>5. \A n \in page : rank[n] \in 0 .. full - 1
  BY <1>1, <1>3, <1>4
<1>6. \A r \in 0 .. full - 1 : \E n \in page : rank[n] = r
  <2> SUFFICES ASSUME NEW r \in 0 .. full - 1 PROVE \E n \in page : rank[n] = r
    OBVIOUS
  <2>1. r \in 0 .. size - 1 /\ r < limit
    BY <1>1
  <2>2. PICK n \in hits : later[n] = r
    BY <1>4, <2>1
  <2> QED BY <1>3, <2>1, <2>2
<1>7. rank \in Injection(page, 0 .. full - 1)
  BY <1>3, <1>4, <1>5 DEF Injection, IsInjective
<1>8. rank \in Surjection(page, 0 .. full - 1)
  BY <1>5, <1>6 DEF Surjection
<1> HIDE DEF rank
<1>9. IsFiniteSet(0 .. full - 1) /\ Cardinality(0 .. full - 1) = full
  <2> HIDE DEF full
  <2>1. 0 \in Int /\ full - 1 \in Int
    BY <1>1
  <2>2. /\ IsFiniteSet(0 .. full - 1)
        /\ Cardinality(0 .. full - 1) = IF 0 > full - 1 THEN 0 ELSE full - 1 - 0 + 1
    BY <2>1, FS_Interval
  <2> QED BY <1>1, <2>2
<1>10. Cardinality(page) = full
  BY <1>7, <1>8, <1>9, FS_Injection
<1> QED BY <1>3, <1>10 DEF Pages, page, size

-----------------------------------------------------------------------------
(* The refinement: what the promise sees of a thread is its call and Told.  *)

Told == [t \in Threads |-> AnsweredOf(t)]

\* The call of t has, among its possible effects, this step with this answer.
Lands(t, status, rows) ==
  \E e \in Promise!Effects(call[t][1]) : e.db = db' /\ e.answer = Answer(status, rows)

\* Before its last step a method has told nobody anything, but for
\* delete_key between its two locks.
LEMMA NotYetTold ==
  ASSUME StoreInv, NEW t \in Threads, pc[t] \notin {"done", "delete_index"}
  PROVE  Told[t] = NoAnswer
BY DEF Told, AnsweredOf, StoreInv, Shape

LEMMA FinishTells ==
  ASSUME StoreInv, NEW t \in Threads, NEW status \in Statuses, NEW rows,
         Finish(t, status, rows)
  PROVE  Told' = [Told EXCEPT ![t] = Answer(status, rows)]
<1>1. AnsweredOf(t)' = Answer(status, rows)
  BY DEF AnsweredOf, StoreInv, Shape, Finish, Goto
<1>2. ASSUME NEW u \in Threads, u # t PROVE AnsweredOf(u)' = AnsweredOf(u)
  BY <1>2 DEF AnsweredOf, StoreInv, Shape, Finish, Goto
<1> QED BY <1>1, <1>2 DEF Told

LEMMA FinishIsEffect ==
  ASSUME StoreInv, NEW t \in Threads, pc[t] \notin {"idle", "done", "delete_index"},
         NEW status \in Statuses, NEW rows, Finish(t, status, rows),
         Lands(t, status, rows)
  PROVE  Promise!Effect(t)
<1>1. call[t] # <<>>
  BY TheCall
<1>2. Told[t] = NoAnswer /\ Told' = [Told EXCEPT ![t] = Answer(status, rows)]
  BY NotYetTold, FinishTells
<1>3. call' = call /\ left' = left /\ (backend = "sqlite")' = (backend = "sqlite")
  BY DEF Finish
<1> QED BY <1>1, <1>2, <1>3 DEF Promise!Effect, Promise!Idle, Promise!NoAnswer, NoAnswer, Promise!Answer, Answer, Lands, Told

\* The two modules compute answers in the same way.
LEMMA SameRows ==
  ASSUME NEW f, NEW i, NEW v
  PROVE  /\ Promise!Row(f, i) = Row(f, i) /\ Promise!Rows(f) = Rows(f)
         /\ Promise!Put(f, i, v) = Put(f, i, v)
         /\ Promise!Without(f, i) = Without(f, i)
BY DEF Promise!Row, Row, Promise!Rows, Rows, Promise!Put, Put, Promise!Without, Without

LEMMA SameHits ==
  ASSUME NEW log, NEW of
  PROVE  Promise!Spends(log, of) = Spends(log, of)
         /\ Promise!Requests(log, of) = Requests(log, of)
BY DEF Promise!Spends, Spends, Promise!Requests, Requests

LEMMA SameCardinality ==
  ASSUME NEW S
  PROVE  Promise!Cardinality(S) = Cardinality(S)
BY Zenon DEF Promise!Cardinality, Cardinality

LEMMA SamePages ==
  ASSUME NEW hits, NEW limit
  PROVE  Promise!Pages(hits, limit) = Pages(hits, limit)
         /\ Promise!Entries(hits) = Entries(hits)
BY SameCardinality DEF Promise!Pages, Pages, Promise!Entries, Entries

LEMMA SameTotals ==
  ASSUME NEW log, NEW of
  PROVE  Promise!Totals(log, of) = Totals(log, of)
         /\ Promise!Groups(log, of) = Groups(log, of)
<1>1. \A S : Promise!Cardinality(S) = Cardinality(S)
  BY SameCardinality
<1>2. Promise!Totals(log, of) = Totals(log, of)
  BY <1>1, SameHits DEF Promise!Totals, Totals
<1>3. Promise!Groups(log, of) = Groups(log, of)
  <2>1. Promise!Spends(log, of) = Spends(log, of)
    BY SameHits
  <2> QED BY <1>1, <2>1 DEF Promise!Groups, Groups
<1> QED BY <1>2, <1>3

\* What delete answers: the row it removed, if there was one.
LEMMA RowOfAll ==
  ASSUME NEW table, NEW i
  PROVE  Promise!Row([j \in DOMAIN table |-> All], i)
           = {<<j, All>> : j \in DOMAIN table \cap {i}}
BY DEF Promise!Row

-----------------------------------------------------------------------------
(* What each method does is among the effects of its call.                  *)

LEMMA KeyReadLands ==
  ASSUME NEW t \in Threads, db' = db,
         call[t][1].op \in {"get_key_by_hash", "get_key_by_id"}
  PROVE  Lands(t, "Ok", Row(db.keys, call[t][1].id))
BY SameRows DEF Lands, Promise!Effects, Promise!To, Answer, Promise!Answer

LEMMA SameTablePages ==
  ASSUME NEW table, NEW offset, NEW limit
  PROVE  Promise!TablePages(table, offset, limit) = TablePages(table, offset, limit)
<1>1. Promise!Rows(table) = Rows(table)
  BY SameRows
<1>2. \A hits, n : Promise!Pages(hits, n) = Pages(hits, n)
  BY SamePages
<1> QED BY <1>1, <1>2, Zenon DEF Promise!TablePages, TablePages

LEMMA ListLands ==
  ASSUME NEW t \in Threads, db' = db, call[t][1].op = "list_keys",
         NEW page \in TablePages(db.keys, call[t][1].offset, call[t][1].limit)
  PROVE  Lands(t, "Ok", page)
<1> DEFINE c == call[t][1]
           e == [db |-> db, answer |-> Answer("Ok", page)]
<1>0. e.db = db' /\ e.answer = Answer("Ok", page)
  OBVIOUS
<1>1. page \in Promise!TablePages(db.keys, c.offset, c.limit)
  BY SameTablePages
<1>2. Promise!Effects(c) = {[db |-> db, answer |-> Promise!Answer("Ok", rows)] :
                              rows \in Promise!TablePages(db.keys, c.offset, c.limit)}
  BY DEF Promise!Effects
<1>3. e \in Promise!Effects(c)
  BY <1>1, <1>2 DEF Answer, Promise!Answer
<1> QED BY <1>0, <1>3 DEF Lands

LEMMA CreateLands ==
  ASSUME NEW t \in Threads, call[t][1].op = "create_key"
  PROVE  /\ call[t][1].id \in DOMAIN db.keys /\ db' = db => Lands(t, "Duplicate", {})
         /\ /\ call[t][1].id \notin DOMAIN db.keys
            /\ db' = [db EXCEPT !.keys = Put(@, call[t][1].id, call[t][1].val)]
            => Lands(t, "Ok", {})
BY DEF Lands, Promise!Effects, Promise!To, Answer, Promise!Answer, Promise!Put, Put

LEMMA UpdateLands ==
  ASSUME NEW t \in Threads, call[t][1].op = "update_key"
  PROVE  /\ call[t][1].id \notin DOMAIN db.keys /\ db' = db => Lands(t, "NotFound", {})
         /\ /\ call[t][1].id \in DOMAIN db.keys
            /\ db' = [db EXCEPT !.keys = Put(@, call[t][1].id, call[t][1].val)]
            => Lands(t, "Ok", {})
BY DEF Lands, Promise!Effects, Promise!To, Answer, Promise!Answer, Promise!Put, Put

\* In memory the spend of a deleted key stays.
LEMMA MemDeleteLands ==
  ASSUME StoreInv, NEW t \in Threads, call[t][1].op = "delete_key", backend = "memory",
         db' = [db EXCEPT !.keys = Without(@, call[t][1].id)]
  PROVE  Lands(t, "Ok", {<<i, All>> : i \in DOMAIN db.keys \cap {call[t][1].id}})
<1>1. db' = [db EXCEPT !.keys = Without(@, call[t][1].id), !.spend = db.spend]
  BY DEF StoreInv, Tables
<1>2. Lands(t, "Ok", Promise!Row([i \in DOMAIN db.keys |-> All], call[t][1].id))
  BY <1>1 DEF Lands, Promise!Effects, Promise!To, Answer, Promise!Answer,
              Promise!Without, Without
<1> QED BY <1>2, RowOfAll

LEMMA MemDeleteNothingLands ==
  ASSUME StoreInv, NEW t \in Threads, call[t][1].op = "delete_key", backend = "memory",
         call[t][1].id \notin DOMAIN db.keys, db' = db
  PROVE  Lands(t, "Ok", {})
<1>1. Without(db.keys, call[t][1].id) = db.keys
  <2>1. DOMAIN db.keys \ {call[t][1].id} = DOMAIN db.keys
    OBVIOUS
  <2>2. db.keys = [i \in DOMAIN db.keys |-> db.keys[i]]
    BY DEF StoreInv, Tables
  <2> QED BY <2>1, <2>2 DEF Without
<1>2. db' = [db EXCEPT !.keys = Without(@, call[t][1].id)]
  BY <1>1 DEF StoreInv, Tables
<1>3. Lands(t, "Ok", {<<i, All>> : i \in DOMAIN db.keys \cap {call[t][1].id}})
  BY <1>2, MemDeleteLands
<1>4. {<<i, All>> : i \in DOMAIN db.keys \cap {call[t][1].id}} = {}
  OBVIOUS
<1> QED BY <1>3, <1>4

LEMMA SameCascade ==
  ASSUME NEW log, NEW k
  PROVE  Promise!SpendOfOthers(log, k) = Cascade(log, k)
BY DEF Promise!SpendOfOthers, Cascade, SpendOfOthers, Promise!FoldLeft, FoldLeft,
       Promise!MapThenFoldSet, MapThenFoldSet, Promise!Max, Max

LEMMA SqlDeleteLands ==
  ASSUME NEW t \in Threads, call[t][1].op = "delete_key", backend = "sqlite",
         db' = [db EXCEPT !.keys = Without(@, call[t][1].id),
                          !.spend = Cascade(@, call[t][1].id)]
  PROVE  Lands(t, "Ok", {<<i, All>> : i \in DOMAIN db.keys \cap {call[t][1].id}})
<1>1. Lands(t, "Ok", Promise!Row([i \in DOMAIN db.keys |-> All], call[t][1].id))
  BY SameCascade DEF Lands, Promise!Effects, Promise!To, Answer, Promise!Answer,
         Promise!Without, Without
<1> QED BY <1>1, RowOfAll

LEMMA TeamLands ==
  ASSUME NEW t \in Threads, Teams(t)
  PROVE  \E status \in Statuses : \E rows : Finish(t, status, rows) /\ Lands(t, status, rows)
<1>1. CASE Called(t, "create_team")
  BY <1>1 DEF Teams, Called, Reply, Statuses, Lands, Promise!Effects, Promise!To, Answer, Promise!Answer, Promise!Put, Put
<1>2. CASE Called(t, "get_team")
  <2>1. db' = db /\ Finish(t, "Ok", Row(db.teams, call[t][1].id))
    BY <1>2 DEF Teams, Called, Reply
  <2>2. Lands(t, "Ok", Row(db.teams, call[t][1].id))
    BY <1>2, <2>1, SameRows DEF Called, Lands, Promise!Effects, Promise!To, Answer, Promise!Answer
  <2> QED BY <2>1, <2>2 DEF Statuses
<1>3. CASE Called(t, "list_teams")
  <2>1. db' = db /\ Finish(t, "Ok", Rows(db.teams))
    BY <1>3 DEF Teams, Called, Reply
  <2>2. Lands(t, "Ok", Rows(db.teams))
    BY <1>3, <2>1, SameRows DEF Called, Lands, Promise!Effects, Promise!To, Answer, Promise!Answer
  <2> QED BY <2>1, <2>2 DEF Statuses
<1>4. CASE Called(t, "update_team")
  BY <1>4 DEF Teams, Called, Reply, Statuses, Lands, Promise!Effects, Promise!To, Answer, Promise!Answer, Promise!Put, Put
<1>5. CASE Called(t, "delete_team")
  <2> DEFINE rows == {<<i, All>> : i \in DOMAIN db.teams \cap {call[t][1].id}}
  <2>1. db' = [db EXCEPT !.teams = Without(@, call[t][1].id)] /\ Finish(t, "Ok", rows)
    BY <1>5 DEF Teams, Called, Reply
  <2>2. Lands(t, "Ok", Promise!Row([i \in DOMAIN db.teams |-> All], call[t][1].id))
    BY <1>5, <2>1 DEF Called, Lands, Promise!Effects, Promise!To, Answer, Promise!Answer, Promise!Without, Without
  <2> QED BY <2>1, <2>2, RowOfAll DEF Statuses
<1> QED BY <1>1, <1>2, <1>3, <1>4, <1>5 DEF Teams

LEMMA SpendLands ==
  ASSUME NEW t \in Threads, call[t][1].op = "record_spend"
  PROVE  /\ /\ backend = "sqlite" /\ call[t][1].key \notin DOMAIN db.keys /\ db' = db
            => Lands(t, "Internal", {})
         /\ /\ backend = "memory" \/ call[t][1].key \in DOMAIN db.keys
            /\ db' = [db EXCEPT !.spend = Append(@, [key |-> call[t][1].key,
                                                    model |-> call[t][1].model])]
            => Lands(t, "Ok", {})
BY DEF Lands, Promise!Effects, Promise!To, Answer, Promise!Answer

LEMMA RequestLands ==
  ASSUME NEW t \in Threads, call[t][1].op = "record_request_log",
         db' = [db EXCEPT !.requests = Append(@, call[t][1].model)]
  PROVE  Lands(t, "Ok", {})
BY DEF Lands, Promise!Effects, Promise!To, Answer, Promise!Answer

LEMMA LogsLand ==
  ASSUME NEW t \in Threads, db' = db, NEW S
  PROVE  /\ /\ call[t][1].op = "get_spend_logs"
            /\ S \in Pages(Spends(db.spend, call[t][1].of), call[t][1].limit)
            => Lands(t, "Ok", Entries(S))
         /\ /\ call[t][1].op = "get_request_logs"
            /\ S \in Pages(Requests(db.requests, call[t][1].of), call[t][1].limit)
            => Lands(t, "Ok", Entries(S))
<1> DEFINE c == call[t][1]
           e == [db |-> db, answer |-> Answer("Ok", Entries(S))]
<1>1. e.db = db' /\ e.answer = Answer("Ok", Entries(S))
  OBVIOUS
<1>2. ASSUME c.op = "get_spend_logs", S \in Pages(Spends(db.spend, c.of), c.limit)
      PROVE  e \in Promise!Effects(c)
  <2>1. S \in Promise!Pages(Promise!Spends(db.spend, c.of), c.limit)
        /\ Promise!Entries(S) = Entries(S)
    BY <1>2, SameHits, SamePages
  <2>2. Promise!Effects(c) =
          {[db |-> db, answer |-> Promise!Answer("Ok", Promise!Entries(P))] :
             P \in Promise!Pages(Promise!Spends(db.spend, c.of), c.limit)}
    BY <1>2 DEF Promise!Effects
  <2> QED BY <2>1, <2>2 DEF Answer, Promise!Answer
<1>3. ASSUME c.op = "get_request_logs", S \in Pages(Requests(db.requests, c.of), c.limit)
      PROVE  e \in Promise!Effects(c)
  <2>1. S \in Promise!Pages(Promise!Requests(db.requests, c.of), c.limit)
        /\ Promise!Entries(S) = Entries(S)
    BY <1>3, SameHits, SamePages
  <2>2. Promise!Effects(c) =
          {[db |-> db, answer |-> Promise!Answer("Ok", Promise!Entries(P))] :
             P \in Promise!Pages(Promise!Requests(db.requests, c.of), c.limit)}
    BY <1>3 DEF Promise!Effects
  <2> QED BY <2>1, <2>2 DEF Answer, Promise!Answer
<1> QED BY <1>1, <1>2, <1>3 DEF Lands

LEMMA SummaryLands ==
  ASSUME NEW t \in Threads, call[t][1].op = "get_spend_summary", db' = db
  PROVE  Lands(t, "Ok", Totals(db.spend, call[t][1].of) \cup Groups(db.spend, call[t][1].of))
BY SameTotals DEF Lands, Promise!Effects, Promise!To, Answer, Promise!Answer

-----------------------------------------------------------------------------
(* Every step of a backend is a step of the promise, or none.               *)

PromiseStep == Promise!Next \/ UNCHANGED <<(backend = "sqlite"), db, call, Told, left>>

LEMMA EffectIsStep ==
  ASSUME NEW t \in Threads, Promise!Effect(t)
  PROVE  PromiseStep
BY DEF PromiseStep, Promise!Next

\* A step of a thread that has told nothing, and does not yet.
LEMMA SilentStep ==
  ASSUME StoreInv, NEW t \in Threads, pc[t] \notin {"done", "delete_index"},
         NEW place \in Places \ {"done", "delete_index"}, Goto(t, place),
         UNCHANGED <<backend, db, call, answer, left>>
  PROVE  PromiseStep
<1>1. ASSUME NEW u \in Threads PROVE AnsweredOf(u)' = AnsweredOf(u)
  BY DEF AnsweredOf, StoreInv, Shape, Goto
<1>2. Told' = Told
  BY <1>1 DEF Told
<1> QED BY <1>2 DEF PromiseStep

LEMMA InvokeStep ==
  ASSUME StoreInv, NEW t \in Threads, Invoke(t)
  PROVE  PromiseStep
<1>1. call[t] = <<>> /\ left > 0 /\ left' = left - 1 /\ pc[t] = "idle"
      /\ backend' = backend /\ db' = db
  BY DEF Invoke, StoreInv, Shape
<1>2. ASSUME NEW u \in Threads PROVE AnsweredOf(u)' = AnsweredOf(u)
  BY DEF AnsweredOf, StoreInv, Shape, Invoke, Goto
<1>3. Told' = Told
  BY <1>2 DEF Told
<1>4. \E c \in Promise!Calls : call' = [call EXCEPT ![t] = <<c>>]
  BY DEF Invoke, Calls, Promise!Calls, Limits, Promise!Limits,
         Offsets, Promise!Offsets
<1>5. Promise!Invoke(t)
  BY <1>1, <1>3, <1>4 DEF Promise!Invoke, Promise!Idle, Told
<1> QED BY <1>5 DEF PromiseStep, Promise!Next

LEMMA ReturnStep ==
  ASSUME StoreInv, NEW t \in Threads, Return(t)
  PROVE  PromiseStep
<1>1. Told[t] # NoAnswer
  BY DEF Told, AnsweredOf, Return, StoreInv, Shape
<1>2. AnsweredOf(t)' = NoAnswer
  BY DEF AnsweredOf, Return, StoreInv, Shape, Goto
<1>3. ASSUME NEW u \in Threads, u # t PROVE AnsweredOf(u)' = AnsweredOf(u)
  BY <1>3 DEF AnsweredOf, Return, StoreInv, Shape, Goto
<1>4. Told' = [Told EXCEPT ![t] = NoAnswer]
  BY <1>2, <1>3 DEF Told
<1>5. call' = [call EXCEPT ![t] = <<>>] /\ backend' = backend /\ db' = db /\ left' = left
  BY DEF Return
<1>6. Promise!Return(t)
  BY <1>1, <1>4, <1>5 DEF Promise!Return, Promise!Idle, Promise!NoAnswer, NoAnswer,
     Promise!Answer, Answer, Told
<1> QED BY <1>6 DEF PromiseStep, Promise!Next

LEMMA CrashStep ==
  ASSUME StoreInv, Crash
  PROVE  PromiseStep
<1>1. Told' = [t \in Threads |-> NoAnswer]
  BY DEF Told, AnsweredOf, Crash
<1>2. Promise!Crash
  BY <1>1 DEF Crash, Promise!Crash, Promise!Idle, Promise!NoAnswer, NoAnswer,
     Promise!Answer, Answer, Promise!EmptyDb, EmptyDb, Told
<1> QED BY <1>2 DEF PromiseStep, Promise!Next

\* The methods that end: the effect and the answer come with the last step.
LEMMA EndStep ==
  ASSUME StoreInv, NEW t \in Threads, pc[t] \notin {"idle", "done", "delete_index"},
         NEW status \in Statuses, NEW rows, Finish(t, status, rows),
         Lands(t, status, rows)
  PROVE  PromiseStep
BY FinishIsEffect, EffectIsStep

LEMMA MemCreateStep ==
  ASSUME StoreInv, NEW t \in Threads, MemCreateKey(t) \/ MemCreateIndex(t)
  PROVE  PromiseStep
<1>1. CASE MemCreateKey(t) /\ call[t][1].id \in DOMAIN db.keys
  BY <1>1, CreateLands, EndStep DEF MemCreateKey, Called, Reply, Statuses
<1>2. CASE MemCreateKey(t) /\ call[t][1].id \notin DOMAIN db.keys
  BY <1>2, SilentStep DEF MemCreateKey, Called, Places
<1>3. CASE MemCreateIndex(t)
  BY <1>3, CreateLands, EndStep DEF MemCreateIndex, At, StoreInv, Stage, Statuses
<1> QED BY <1>1, <1>2, <1>3

\* A hash the index does not know is that of no key.
LEMMA MemReadStep ==
  ASSUME StoreInv, NEW t \in Threads, MemGetByHash(t) \/ MemGetById(t) \/ MemListKeys(t)
  PROVE  PromiseStep
<1>1. CASE MemGetByHash(t) /\ call[t][1].id \in hash_index
  BY <1>1, SilentStep DEF MemGetByHash, Called, Places
<1>2. CASE MemGetByHash(t) /\ call[t][1].id \notin hash_index
  <2>1. pc[t] = "called" /\ call[t][1].op = "get_key_by_hash" /\ db' = db
        /\ Finish(t, "Ok", {})
    BY <1>2 DEF MemGetByHash, Called, Reply
  <2>2. call[t][1].id \notin DOMAIN db.keys
    BY <1>2 DEF MemGetByHash, StoreInv, Index
  <2>3. Row(db.keys, call[t][1].id) = {}
    BY <2>2 DEF Row
  <2>4. Lands(t, "Ok", Row(db.keys, call[t][1].id))
    BY <2>1, KeyReadLands
  <2> QED BY <2>1, <2>3, <2>4, EndStep DEF Statuses
<1>3. CASE MemGetById(t)
  <2>1. pc[t] \in {"by_id", "called"} /\ db' = db
        /\ call[t][1].op \in {"get_key_by_hash", "get_key_by_id"}
        /\ Finish(t, "Ok", Row(db.keys, call[t][1].id))
    BY <1>3 DEF MemGetById, Called, Reply, StoreInv, Stage
  <2> QED BY <2>1, KeyReadLands, EndStep DEF Statuses
<1>4. CASE MemListKeys(t)
  <2>1. PICK page \in TablePages(db.keys, call[t][1].offset, call[t][1].limit) :
          Reply(t, "Ok", page)
    BY <1>4 DEF MemListKeys
  <2>2. pc[t] = "called" /\ call[t][1].op = "list_keys"
        /\ db' = db /\ Finish(t, "Ok", page)
    BY <1>4, <2>1 DEF MemListKeys, Called, Reply
  <2> QED BY <2>2, ListLands, EndStep DEF Statuses
<1> QED BY <1>1, <1>2, <1>3, <1>4

LEMMA UpdateStep ==
  ASSUME StoreInv, NEW t \in Threads, MemUpdateKey(t) \/ SqlUpdateKey(t)
  PROVE  PromiseStep
BY UpdateLands, EndStep DEF MemUpdateKey, SqlUpdateKey, Sql, Called, Reply, Statuses

\* delete_key of InMemoryStore takes effect when the key goes, and is then
\* told its answer, although it is still to clean the index.
LEMMA MemDeleteStep ==
  ASSUME StoreInv, NEW t \in Threads, MemDeleteKey(t)
  PROVE  PromiseStep
<1> DEFINE id == call[t][1].id
<1>0. backend = "memory" /\ pc[t] = "called" /\ call[t][1].op = "delete_key"
  BY DEF MemDeleteKey, Called
<1>1. CASE id \notin DOMAIN db.keys
  <2>1. db' = db /\ Finish(t, "Ok", {})
    BY <1>1 DEF MemDeleteKey, Reply
  <2> QED BY <1>0, <1>1, <2>1, MemDeleteNothingLands, EndStep DEF Statuses
<1>2. CASE id \in DOMAIN db.keys
  <2>1. /\ db' = [db EXCEPT !.keys = Without(@, id)] /\ Goto(t, "delete_index")
        /\ UNCHANGED <<backend, call, answer, left>>
    BY <1>2 DEF MemDeleteKey
  <2>2. Lands(t, "Ok", {<<i, All>> : i \in DOMAIN db.keys \cap {id}})
    BY <1>0, <2>1, MemDeleteLands
  <2>3. {<<i, All>> : i \in DOMAIN db.keys \cap {id}} = {<<id, All>>}
    BY <1>2
  <2>4. AnsweredOf(t)' = Answer("Ok", {<<id, All>>})
    BY <2>1 DEF AnsweredOf, Goto, StoreInv, Shape
  <2>5. ASSUME NEW u \in Threads, u # t PROVE AnsweredOf(u)' = AnsweredOf(u)
    BY <2>1, <2>5 DEF AnsweredOf, Goto, StoreInv, Shape
  <2>6. Told' = [Told EXCEPT ![t] = Answer("Ok", {<<id, All>>})]
    BY <2>4, <2>5 DEF Told
  <2>7. Told[t] = NoAnswer /\ call[t] # <<>>
    BY <1>0, NotYetTold, TheCall
  <2>8. Promise!Effect(t)
    BY <2>1, <2>2, <2>3, <2>6, <2>7 DEF Promise!Effect, Promise!Idle, Promise!NoAnswer,
       NoAnswer, Promise!Answer, Answer, Lands, Told
  <2> QED BY <2>8, EffectIsStep
<1> QED BY <1>1, <1>2

LEMMA MemDeleteIndexStep ==
  ASSUME StoreInv, NEW t \in Threads, MemDeleteIndex(t)
  PROVE  PromiseStep
<1>1. pc[t] = "delete_index" /\ Finish(t, "Ok", {<<call[t][1].id, All>>}) /\ db' = db
  BY DEF MemDeleteIndex, At
<1>2. Told' = [Told EXCEPT ![t] = Answer("Ok", {<<call[t][1].id, All>>})]
  BY <1>1, FinishTells DEF Statuses
<1>3. Told[t] = Answer("Ok", {<<call[t][1].id, All>>})
  BY <1>1 DEF Told, AnsweredOf
<1>4. Told' = Told
  BY <1>2, <1>3 DEF Told
<1> QED BY <1>1, <1>4 DEF PromiseStep, Finish

LEMMA TeamsStep ==
  ASSUME StoreInv, NEW t \in Threads, Teams(t)
  PROVE  PromiseStep
<1>1. pc[t] = "called"
  BY DEF Teams, Called
<1> QED BY <1>1, TeamLands, EndStep

\* The entries of a log of InMemoryStore are finitely many.
LEMMA HitsAreFinite ==
  ASSUME StoreInv, backend = "memory", NEW of
  PROVE  /\ IsFiniteSet(Spends(db.spend, of)) /\ Spends(db.spend, of) \subseteq Nat
         /\ IsFiniteSet(Requests(db.requests, of)) /\ Requests(db.requests, of) \subseteq Nat
<1>1. DOMAIN db.spend = 1 .. Len(db.spend) /\ Len(db.spend) \in Nat
      /\ DOMAIN db.requests = 1 .. Len(db.requests) /\ Len(db.requests) \in Nat
  BY DEF StoreInv, Tables
<1>2. IsFiniteSet(1 .. Len(db.spend)) /\ IsFiniteSet(1 .. Len(db.requests))
  BY <1>1, FS_Interval, SMTT(30)
<1>3. Spends(db.spend, of) \in SUBSET (1 .. Len(db.spend))
      /\ Requests(db.requests, of) \in SUBSET (1 .. Len(db.requests))
  BY <1>1 DEF Spends, Requests
<1> QED BY <1>1, <1>2, <1>3, FS_Subset

LEMMA PageSizes ==
  ASSUME NEW c \in Calls
  PROVE  c.op \in {"get_spend_logs", "get_request_logs"} => c.limit \in Nat
BY CallFields

LEMMA MemSpendStep ==
  ASSUME StoreInv, NEW t \in Threads, MemSpend(t)
  PROVE  PromiseStep
<1> DEFINE c == call[t][1]
<1>0. pc[t] = "called" /\ backend = "memory" /\ c \in Calls
  BY TheCall DEF MemSpend, Called
<1>1. CASE Called(t, "record_spend")
  <2>1. /\ c.op = "record_spend" /\ Finish(t, "Ok", {})
        /\ db' = [db EXCEPT !.spend = Append(@, [key |-> c.key, model |-> c.model])]
    BY <1>1 DEF MemSpend, Called
  <2> QED BY <1>0, <2>1, SpendLands, EndStep DEF Statuses
<1>2. CASE Called(t, "get_spend_logs")
  <2>1. /\ c.op = "get_spend_logs" /\ db' = db
        /\ Finish(t, "Ok", Entries(Newest(Spends(db.spend, c.of), c.limit)))
    BY <1>2 DEF MemSpend, Called, Reply
  <2>2. Newest(Spends(db.spend, c.of), c.limit) \in Pages(Spends(db.spend, c.of), c.limit)
    BY <1>0, <2>1, PageSizes, HitsAreFinite, NewestIsAPage
  <2> QED BY <1>0, <2>1, <2>2, LogsLand, EndStep DEF Statuses
<1>3. CASE Called(t, "get_spend_summary")
  <2>1. /\ c.op = "get_spend_summary" /\ db' = db
        /\ Finish(t, "Ok", Totals(db.spend, c.of) \cup Groups(db.spend, c.of))
    BY <1>3 DEF MemSpend, Called, Reply
  <2> QED BY <1>0, <2>1, SummaryLands, EndStep DEF Statuses
<1> QED BY <1>1, <1>2, <1>3 DEF MemSpend

LEMMA MemRequestsStep ==
  ASSUME StoreInv, NEW t \in Threads, MemRequests(t)
  PROVE  PromiseStep
<1> DEFINE c == call[t][1]
<1>0. pc[t] = "called" /\ backend = "memory" /\ c \in Calls
  BY TheCall DEF MemRequests, Called
<1>1. CASE Called(t, "record_request_log")
  <2>1. /\ c.op = "record_request_log" /\ Finish(t, "Ok", {})
        /\ db' = [db EXCEPT !.requests = Append(@, c.model)]
    BY <1>1 DEF MemRequests, Called
  <2> QED BY <1>0, <2>1, RequestLands, EndStep DEF Statuses
<1>2. CASE Called(t, "get_request_logs")
  <2>1. /\ c.op = "get_request_logs" /\ db' = db
        /\ Finish(t, "Ok", Entries(Newest(Requests(db.requests, c.of), c.limit)))
    BY <1>2 DEF MemRequests, Called, Reply
  <2>2. Newest(Requests(db.requests, c.of), c.limit)
          \in Pages(Requests(db.requests, c.of), c.limit)
    BY <1>0, <2>1, PageSizes, HitsAreFinite, NewestIsAPage
  <2> QED BY <1>0, <2>1, <2>2, LogsLand, EndStep DEF Statuses
<1> QED BY <1>1, <1>2 DEF MemRequests

LEMMA SqlKeysStep ==
  ASSUME StoreInv, NEW t \in Threads, SqlCreateKey(t) \/ SqlReadKeys(t) \/ SqlDeleteKey(t)
  PROVE  PromiseStep
<1>0. pc[t] = "called" /\ backend = "sqlite"
  BY DEF SqlCreateKey, SqlReadKeys, SqlDeleteKey, Sql, Called
<1>1. CASE SqlCreateKey(t)
  BY <1>0, <1>1, CreateLands, EndStep DEF SqlCreateKey, Sql, Called, Reply, Statuses
<1>2. CASE SqlReadKeys(t) /\ call[t][1].op # "list_keys"
  BY <1>0, <1>2, KeyReadLands, EndStep DEF SqlReadKeys, Sql, Called, Reply, Statuses
<1>5. CASE SqlReadKeys(t) /\ call[t][1].op = "list_keys"
  <2>1. PICK page \in TablePages(db.keys, call[t][1].offset, call[t][1].limit) :
          Reply(t, "Ok", page)
    BY <1>5 DEF SqlReadKeys, Sql, Called
  <2>2. db' = db /\ Finish(t, "Ok", page)
    BY <2>1 DEF Reply
  <2> QED BY <1>0, <1>5, <2>2, ListLands, EndStep DEF Statuses
<1>3. CASE SqlDeleteKey(t)
  <2>1. /\ call[t][1].op = "delete_key"
        /\ db' = [db EXCEPT !.keys = Without(@, call[t][1].id),
                            !.spend = Cascade(@, call[t][1].id)]
        /\ Finish(t, "Ok", {<<i, All>> : i \in DOMAIN db.keys \cap {call[t][1].id}})
    BY <1>3 DEF SqlDeleteKey, Sql, Called
  <2>2. Lands(t, "Ok", {<<i, All>> : i \in DOMAIN db.keys \cap {call[t][1].id}})
    BY <1>0, <2>1, SqlDeleteLands
  <2> QED BY <1>0, <2>1, <2>2, EndStep DEF Statuses
<1> QED BY <1>1, <1>2, <1>3, <1>5

LEMMA SqlLogsStep ==
  ASSUME StoreInv, NEW t \in Threads, SqlRecordSpend(t) \/ SqlSpendLogs(t) \/ SqlRequests(t)
  PROVE  PromiseStep
<1> DEFINE c == call[t][1]
<1>0. pc[t] = "called" /\ backend = "sqlite"
  BY DEF SqlRecordSpend, SqlSpendLogs, SqlRequests, Sql, Called
<1>1. CASE SqlRecordSpend(t) /\ c.key \notin DOMAIN db.keys
  <2>1. c.op = "record_spend" /\ db' = db /\ Finish(t, "Internal", {})
    BY <1>1 DEF SqlRecordSpend, Sql, Called, Reply
  <2> QED BY <1>0, <1>1, <2>1, SpendLands, EndStep DEF Statuses
<1>2. CASE SqlRecordSpend(t) /\ c.key \in DOMAIN db.keys
  <2>1. /\ c.op = "record_spend" /\ Finish(t, "Ok", {})
        /\ db' = [db EXCEPT !.spend = Append(@, [key |-> c.key, model |-> c.model])]
    BY <1>2 DEF SqlRecordSpend, Sql, Called
  <2> QED BY <1>0, <1>2, <2>1, SpendLands, EndStep DEF Statuses
<1>3. CASE SqlSpendLogs(t)
  <2>1. PICK S \in Pages(Spends(db.spend, c.of), c.limit) : Reply(t, "Ok", Entries(S))
    BY <1>3 DEF SqlSpendLogs
  <2>2. c.op = "get_spend_logs" /\ db' = db /\ Finish(t, "Ok", Entries(S))
    BY <1>3, <2>1 DEF SqlSpendLogs, Sql, Called, Reply
  <2> QED BY <1>0, <2>1, <2>2, LogsLand, EndStep DEF Statuses
<1>4. CASE SqlRequests(t) /\ c.op = "record_request_log"
  <2>1. Finish(t, "Ok", {}) /\ db' = [db EXCEPT !.requests = Append(@, c.model)]
    BY <1>4 DEF SqlRequests, Sql, Called
  <2> QED BY <1>0, <1>4, <2>1, RequestLands, EndStep DEF Statuses
<1>5. CASE SqlRequests(t) /\ c.op # "record_request_log"
  <2>1. PICK S \in Pages(Requests(db.requests, c.of), c.limit) : Reply(t, "Ok", Entries(S))
    BY <1>5 DEF SqlRequests, Sql, Called
  <2>2. c.op = "get_request_logs" /\ db' = db /\ Finish(t, "Ok", Entries(S))
    BY <1>5, <2>1 DEF SqlRequests, Sql, Called, Reply
  <2> QED BY <1>0, <2>1, <2>2, LogsLand, EndStep DEF Statuses
<1> QED BY <1>1, <1>2, <1>3, <1>4, <1>5

\* A report is one snapshot: nobody else had the connection in between.
LEMMA SqlReportStep ==
  ASSUME StoreInv, NEW t \in Threads, SqlTotals(t) \/ SqlGroups(t)
  PROVE  PromiseStep
<1>1. CASE SqlTotals(t)
  BY <1>1, SilentStep DEF SqlTotals, Sql, Called, Places
<1>2. CASE SqlGroups(t)
  <2>1. /\ pc[t] = "groups" /\ db' = db
        /\ Finish(t, "Ok", partial[t] \cup Groups(db.spend, call[t][1].of))
        /\ call[t][1].op = "get_spend_summary"
        /\ partial[t] = Totals(db.spend, call[t][1].of)
    BY <1>2 DEF SqlGroups, Reply, StoreInv, Stage
  <2> QED BY <2>1, SummaryLands, EndStep DEF Statuses
<1> QED BY <1>1, <1>2

LEMMA SqlFailsStep ==
  ASSUME StoreInv, NEW t \in Threads, SqlFails(t)
  PROVE  PromiseStep
<1>1. pc[t] \in {"called", "groups"} /\ backend = "sqlite" /\ db' = db
      /\ Finish(t, "Internal", {})
  BY DEF SqlFails, Reply
<1>2. Told[t] = NoAnswer /\ Told' = [Told EXCEPT ![t] = Answer("Internal", {})]
      /\ call[t] # <<>>
  BY <1>1, NotYetTold, FinishTells, TheCall DEF Statuses
<1>3. Promise!Fail(t)
  BY <1>1, <1>2 DEF Promise!Fail, Promise!Idle, Promise!NoAnswer, NoAnswer,
     Promise!Answer, Answer, Finish, Told
<1> QED BY <1>3 DEF PromiseStep, Promise!Next

LEMMA StutterStep ==
  ASSUME UNCHANGED vars
  PROVE  PromiseStep
<1>1. ASSUME NEW u \in Threads PROVE AnsweredOf(u)' = AnsweredOf(u)
  BY DEF AnsweredOf, vars
<1>2. Told' = Told
  BY <1>1 DEF Told
<1> QED BY <1>2 DEF PromiseStep, vars

LEMMA EveryStepIsPromised == StoreInv /\ [Next]_vars => [Promise!Next]_(Promise!vars)
<1> SUFFICES ASSUME StoreInv, [Next]_vars PROVE PromiseStep
  BY DEF PromiseStep, Promise!vars, Told
<1>1. CASE UNCHANGED vars
  BY <1>1, StutterStep
<1>2. CASE Crash
  BY <1>2, CrashStep
<1>3. ASSUME NEW t \in Threads, Invoke(t) \/ Return(t) PROVE PromiseStep
  BY <1>3, InvokeStep, ReturnStep
<1>4. ASSUME NEW t \in Threads, Memory(t) PROVE PromiseStep
  BY <1>4, MemCreateStep, MemReadStep, UpdateStep, MemDeleteStep, MemDeleteIndexStep,
     TeamsStep, MemSpendStep, MemRequestsStep DEF Memory, MemTeams
<1>5. ASSUME NEW t \in Threads, Sqlite(t) PROVE PromiseStep
  BY <1>5, SqlKeysStep, UpdateStep, TeamsStep, SqlLogsStep, SqlReportStep, SqlFailsStep
     DEF Sqlite, SqlTeams
<1> QED BY <1>1, <1>2, <1>3, <1>4, <1>5 DEF Next

\* Both backends keep the promise of the AdminStore trait, whatever the
\* number of threads, keys and calls, and with crashes at any moment: each
\* call takes effect at one moment between its invocation and its return.
THEOREM StoreImplements == Spec => Implements
<1>1. Init => Promise!Init
  BY DEF Init, AnsweredOf, Promise!Init, Promise!Idle, Promise!NoAnswer, NoAnswer,
     Promise!Answer, Answer, Promise!EmptyDb, EmptyDb
<1>2. StoreInv /\ [Next]_vars => [Promise!Next]_(Promise!vars)
  BY EveryStepIsPromised
<1> QED BY <1>1, <1>2, StoreInvariant, PTL DEF Spec, Implements, Promise!Spec

-----------------------------------------------------------------------------
(* What is in the tables. *)

Records == [key : KeyIds, model : Models]

\* Logs made of entries of `log` that are not about k.
Others(log, k) ==
  {s \in Seq(Records) :
     \A n \in DOMAIN s : s[n].key # k /\ \E m \in DOMAIN log : log[m] = s[n]}

\* The cascade of a deleted key leaves entries of the log, and none of the key.
LEMMA CascadeLeavesOthers ==
  ASSUME NEW log \in Seq(Records), NEW k
  PROVE  Cascade(log, k) \in Others(log, k)
<1> DEFINE n == Len(log)
           D == Others(log, k)
           none == <<>>
           T(rest, r) == IF r.key = k THEN rest ELSE Append(rest, r)
           step == [p \in (1 .. n) \X D |-> T(p[2], log[p[1]])]
           Iter(f) == f = [s \in SUBSET DOMAIN log |->
                             IF s = {} THEN none
                             ELSE LET x == Max(s) IN T(f[s \ {x}], log[x])]
           iter == CHOOSE f : Iter(f)
<1>1. Cascade(log, k) = iter[DOMAIN log]
  BY DEF Cascade, SpendOfOthers, FoldLeft, MapThenFoldSet
<1>2. n \in Nat /\ DOMAIN log = 1 .. n /\ \A i \in 1 .. n : log[i] \in Records
  OBVIOUS
<1>3. none \in D
  BY EmptySeq DEF Others
<1>4. ASSUME NEW rest \in D, NEW i \in 1 .. n PROVE T(rest, log[i]) \in D
  <2>1. CASE log[i].key = k
    BY <2>1
  <2>2. CASE log[i].key # k
    <3>1. rest \in Seq(Records) /\ log[i] \in Records
      BY <1>2 DEF Others
    <3>2. /\ Append(rest, log[i]) \in Seq(Records)
          /\ DOMAIN Append(rest, log[i]) = DOMAIN rest \cup {Len(rest) + 1}
          /\ Append(rest, log[i])[Len(rest) + 1] = log[i]
          /\ \A j \in DOMAIN rest : Append(rest, log[i])[j] = rest[j]
      BY <3>1
    <3>3. Append(rest, log[i]) \in D
      BY <1>2, <2>2, <3>2 DEF Others
    <3> QED BY <2>2, <3>3
  <2> QED BY <2>1, <2>2
<1> HIDE DEF T, none, D
<1>5. Stepping(step, n, D)
  BY <1>2, <1>4 DEF Stepping
<1>6. PICK f : FoldsMax(f, n, D, none, step)
  <2> HIDE DEF step, n
  <2> QED BY <1>2, <1>3, <1>5, FoldMaxExists
<1>7. ASSUME NEW s \in SUBSET (1 .. n), s # {}
      PROVE  step[<<Max(s), f[s \ {Max(s)}]>>] = T(f[s \ {Max(s)}], log[Max(s)])
  <2>1. Max(s) \in 1 .. n
    BY <1>2, <1>7, MaxMin
  <2>2. f[s \ {Max(s)}] \in D
    BY <1>6 DEF FoldsMax
  <2> QED BY <2>1, <2>2
<1>8. Iter(f)
  <2> HIDE DEF step
  <2> QED BY <1>2, <1>6, <1>7 DEF FoldsMax
<1>9. Iter(iter)
  <2> HIDE DEF Iter
  <2> QED BY <1>8
<1> HIDE DEF iter
<1>10. iter[{}] = none
  <2>1. {} \in SUBSET DOMAIN log
    OBVIOUS
  <2> QED BY <2>1, <1>9
<1>11. ASSUME NEW j \in 1 .. n, iter[1 .. j - 1] \in D
       PROVE  iter[1 .. j] = step[<<j, iter[1 .. j - 1]>>]
  <2>1. /\ 1 .. j \in SUBSET DOMAIN log /\ 1 .. j # {}
        /\ Max(1 .. j) = j /\ (1 .. j) \ {Max(1 .. j)} = 1 .. j - 1
    BY <1>2, PrefixMax
  <2>2. iter[1 .. j] = T(iter[1 .. j - 1], log[j])
    BY <2>1, <1>9
  <2> QED BY <2>2, <1>2, <1>11
<1>12. PICK h : Climb(h, n, D, none, step) /\ iter[1 .. n] = h[n]
  <2>1. ClimbsBy(iter, n, D, none, step)
    <3> HIDE DEF step, n
    <3> QED BY <1>10, <1>11 DEF ClimbsBy
  <2> HIDE DEF step, n
  <2> QED BY <1>2, <1>3, <1>5, <2>1, UnrollMax
<1>13. iter[1 .. n] \in D
  <2> HIDE DEF step, n
  <2> QED BY <1>2, <1>12 DEF Climb
<1> QED BY <1>1, <1>2, <1>13 DEF D

\* The tables hold rows of keys and teams, and logs of records; the spend
\* log of SqliteStore is about keys that are there.
Filed(d) ==
  /\ DOMAIN d.keys \subseteq KeyIds /\ DOMAIN d.teams \subseteq TeamIds
  /\ d.spend \in Seq(Records) /\ d.requests \in Seq(Models)
  /\ backend = "sqlite" => \A n \in DOMAIN d.spend : d.spend[n].key \in DOMAIN d.keys

Tabled ==
  /\ Filed(db)
  /\ hash_index \subseteq KeyIds
  /\ left \in 0 .. MaxCalls

\* What a step may do to the tables.
Written ==
  \/ db' = db \/ db' = EmptyDb
  \/ \E i \in KeyIds : \E v : db' = [db EXCEPT !.keys = Put(db.keys, i, v)]
  \/ \E i \in KeyIds : backend = "memory" /\ db' = [db EXCEPT !.keys = Without(db.keys, i)]
  \/ \E i \in KeyIds : db' = [db EXCEPT !.keys = Without(db.keys, i),
                                        !.spend = Cascade(db.spend, i)]
  \/ \E i \in TeamIds : \E v : db' = [db EXCEPT !.teams = Put(db.teams, i, v)]
  \/ \E i \in TeamIds : db' = [db EXCEPT !.teams = Without(db.teams, i)]
  \/ \E r \in Records : /\ backend = "sqlite" => r.key \in DOMAIN db.keys
                        /\ db' = [db EXCEPT !.spend = Append(db.spend, r)]
  \/ \E m \in Models : db' = [db EXCEPT !.requests = Append(db.requests, m)]

\* Whichever table a step writes, what it writes is of the table's type.
LEMMA WritesKeepTables ==
  ASSUME StoreInv, Filed(db), Written, backend' = backend
  PROVE  Filed(db)'
<1>0. db = [keys |-> db.keys, teams |-> db.teams, spend |-> db.spend,
            requests |-> db.requests]
  BY DEF StoreInv, Tables
<1>1. CASE db' = db
  BY <1>1 DEF Filed
<1>2. CASE db' = EmptyDb
  BY <1>2, EmptySeq DEF Filed, EmptyDb
<1>3. ASSUME NEW i \in KeyIds, NEW v, db' = [db EXCEPT !.keys = Put(db.keys, i, v)]
      PROVE  Filed(db)'
  <2>1. /\ db'.keys = Put(db.keys, i, v) /\ db'.teams = db.teams
        /\ db'.spend = db.spend /\ db'.requests = db.requests
    BY <1>0, <1>3
  <2>2. DOMAIN db'.keys = DOMAIN db.keys \cup {i}
    BY <2>1 DEF Put
  <2> QED BY <2>1, <2>2 DEF Filed
<1>4. ASSUME NEW i \in KeyIds, backend = "memory",
             db' = [db EXCEPT !.keys = Without(db.keys, i)]
      PROVE  Filed(db)'
  <2>1. /\ db'.keys = Without(db.keys, i) /\ db'.teams = db.teams
        /\ db'.spend = db.spend /\ db'.requests = db.requests
    BY <1>0, <1>4
  <2>2. DOMAIN db'.keys = DOMAIN db.keys \ {i}
    BY <2>1, WithoutDomain
  <2> QED BY <1>4, <2>1, <2>2 DEF Filed
<1>5. ASSUME NEW i \in KeyIds,
             db' = [db EXCEPT !.keys = Without(db.keys, i),
                              !.spend = Cascade(db.spend, i)]
      PROVE  Filed(db)'
  <2>1. /\ db'.keys = Without(db.keys, i) /\ db'.teams = db.teams
        /\ db'.spend = Cascade(db.spend, i) /\ db'.requests = db.requests
    BY <1>0, <1>5
  <2>2. DOMAIN db'.keys = DOMAIN db.keys \ {i}
    BY <2>1, WithoutDomain
  <2>3. Cascade(db.spend, i) \in Others(db.spend, i)
    BY CascadeLeavesOthers DEF Filed
  <2>4. /\ db'.spend \in Seq(Records)
        /\ \A n \in DOMAIN db'.spend :
             db'.spend[n].key # i /\ \E m \in DOMAIN db.spend : db.spend[m] = db'.spend[n]
    BY <2>1, <2>3 DEF Others
  <2> QED BY <2>1, <2>2, <2>4 DEF Filed
<1>6. ASSUME NEW i \in TeamIds, NEW v,
             db' = [db EXCEPT !.teams = Put(db.teams, i, v)]
                \/ db' = [db EXCEPT !.teams = Without(db.teams, i)]
      PROVE  Filed(db)'
  <2>1. /\ db'.teams = Put(db.teams, i, v) \/ db'.teams = Without(db.teams, i)
        /\ db'.keys = db.keys /\ db'.spend = db.spend /\ db'.requests = db.requests
    BY <1>0, <1>6
  <2>2. DOMAIN db'.teams \subseteq DOMAIN db.teams \cup {i}
    BY <2>1 DEF Put, Without
  <2> QED BY <2>1, <2>2 DEF Filed
<1>7. ASSUME NEW r \in Records, backend = "sqlite" => r.key \in DOMAIN db.keys,
             db' = [db EXCEPT !.spend = Append(db.spend, r)]
      PROVE  Filed(db)'
  <2>1. /\ db'.keys = db.keys /\ db'.teams = db.teams
        /\ db'.spend = Append(db.spend, r) /\ db'.requests = db.requests
    BY <1>0, <1>7
  <2>2. db.spend \in Seq(Records)
    BY DEF Filed
  <2>3. /\ Append(db.spend, r) \in Seq(Records)
        /\ \A n \in DOMAIN Append(db.spend, r) :
             \/ Append(db.spend, r)[n] = r
             \/ n \in DOMAIN db.spend /\ Append(db.spend, r)[n] = db.spend[n]
    BY <2>2
  <2> QED BY <1>7, <2>1, <2>3 DEF Filed
<1>8. ASSUME NEW m \in Models, db' = [db EXCEPT !.requests = Append(db.requests, m)]
      PROVE  Filed(db)'
  <2>1. /\ db'.keys = db.keys /\ db'.teams = db.teams
        /\ db'.spend = db.spend /\ db'.requests = Append(db.requests, m)
    BY <1>0, <1>8
  <2>2. Append(db.requests, m) \in Seq(Models)
    BY DEF Filed
  <2> QED BY <2>1, <2>2 DEF Filed
<1> QED BY <1>1, <1>2, <1>3, <1>4, <1>5, <1>6, <1>7, <1>8 DEF Written

\* The fields that the operations read of a call.
LEMMA CallOperands ==
  ASSUME NEW c \in Calls
  PROVE  /\ c.op \in {"create_key", "update_key", "delete_key", "get_key_by_hash",
                      "get_key_by_id"} => c.id \in KeyIds
         /\ c.op \in {"create_team", "update_team", "delete_team"} => c.id \in TeamIds
         /\ c.op = "record_spend" => c.key \in KeyIds /\ c.model \in Models
         /\ c.op = "record_request_log" => c.model \in Models
BY DEF Calls

\* A step files what it writes; only create_key and delete_key touch the index.
StepFiles ==
  /\ Written /\ backend' = backend
  /\ hash_index' \subseteq hash_index \cup KeyIds
  /\ left' = left \/ (left > 0 /\ left' = left - 1)

LEMMA TeamsFile ==
  ASSUME StoreInv, NEW t \in Threads, Teams(t)
  PROVE  StepFiles
<1> DEFINE c == call[t][1]
<1>1. backend' = backend /\ hash_index' = hash_index /\ left' = left
  BY DEF Teams, Reply, Finish
<1>2. CASE c.op \in {"create_team", "update_team", "delete_team"} /\ pc[t] = "called"
  <2>1. c \in Calls
    BY <1>2, TheCall
  <2>2. c.id \in TeamIds
    BY <1>2, <2>1, CallOperands
  <2>3. \/ db' = db \/ db' = [db EXCEPT !.teams = Put(db.teams, c.id, c.val)]
        \/ db' = [db EXCEPT !.teams = Without(db.teams, c.id)]
    BY DEF Teams, Reply
  <2> QED BY <1>1, <2>2, <2>3 DEF StepFiles, Written
<1>3. CASE ~(c.op \in {"create_team", "update_team", "delete_team"} /\ pc[t] = "called")
  <2>1. db' = db
    BY <1>3 DEF Teams, Called, Reply
  <2> QED BY <1>1, <2>1 DEF StepFiles, Written
<1> QED BY <1>2, <1>3

LEMMA MemoryFiles ==
  ASSUME StoreInv, Filed(db), NEW t \in Threads, Memory(t)
  PROVE  StepFiles
<1> DEFINE c == call[t][1]
<1>0. pc[t] # "idle" => c \in Calls
  BY TheCall
<1>1. CASE MemCreateKey(t) \/ MemGetByHash(t) \/ MemGetById(t) \/ MemListKeys(t)
  BY <1>1 DEF MemCreateKey, MemGetByHash, MemGetById, MemListKeys, Reply, Finish,
     StepFiles, Written
<1>2. CASE MemCreateIndex(t)
  <2>1. c \in Calls /\ c.op = "create_key"
    BY <1>0, <1>2 DEF MemCreateIndex, At, StoreInv, Stage
  <2>2. c.id \in KeyIds
    BY <2>1, CallOperands
  <2> QED BY <1>2, <2>2 DEF MemCreateIndex, Finish, StepFiles, Written
<1>3. CASE MemUpdateKey(t)
  <2>1. c \in Calls /\ c.op = "update_key"
    BY <1>0, <1>3 DEF MemUpdateKey, Called
  <2>2. c.id \in KeyIds
    BY <2>1, CallOperands
  <2> QED BY <1>3, <2>2 DEF MemUpdateKey, Reply, Finish, StepFiles, Written
<1>4. CASE MemDeleteKey(t)
  <2>1. c \in Calls /\ c.op = "delete_key"
    BY <1>0, <1>4 DEF MemDeleteKey, Called
  <2>2. c.id \in KeyIds
    BY <2>1, CallOperands
  <2> QED BY <1>4, <2>2 DEF MemDeleteKey, Reply, Finish, StepFiles, Written
<1>5. CASE MemDeleteIndex(t)
  BY <1>5 DEF MemDeleteIndex, Finish, StepFiles, Written
<1>6. CASE MemTeams(t)
  BY <1>6, <1>0, TeamsFile DEF MemTeams
<1>7. CASE MemSpend(t)
  <2>1. CASE Called(t, "record_spend")
    <3>1. c \in Calls /\ c.op = "record_spend" /\ backend = "memory"
      BY <1>0, <1>7, <2>1 DEF Called, MemSpend
    <3>2. [key |-> c.key, model |-> c.model] \in Records
      BY <3>1, CallOperands DEF Records
    <3>3. db' = [db EXCEPT !.spend = Append(db.spend, [key |-> c.key, model |-> c.model])]
      BY <1>7, <2>1 DEF MemSpend, Called
    <3> QED BY <1>7, <3>1, <3>2, <3>3 DEF MemSpend, Reply, Finish, StepFiles, Written
  <2>2. CASE ~Called(t, "record_spend")
    BY <1>7, <2>2 DEF MemSpend, Reply, Finish, StepFiles, Written
  <2> QED BY <2>1, <2>2
<1>8. CASE MemRequests(t)
  <2>1. CASE Called(t, "record_request_log")
    <3>1. c.model \in Models
      BY <1>0, <2>1, CallOperands DEF Called
    <3> QED BY <1>8, <2>1, <3>1 DEF MemRequests, Called, Reply, Finish, StepFiles, Written
  <2>2. CASE ~Called(t, "record_request_log")
    BY <1>8, <2>2 DEF MemRequests, Reply, Finish, StepFiles, Written
  <2> QED BY <2>1, <2>2
<1> QED BY <1>1, <1>2, <1>3, <1>4, <1>5, <1>6, <1>7, <1>8 DEF Memory

LEMMA SqliteFiles ==
  ASSUME StoreInv, Filed(db), NEW t \in Threads, Sqlite(t)
  PROVE  StepFiles
<1> DEFINE c == call[t][1]
<1>0. pc[t] # "idle" => c \in Calls
  BY TheCall
<1>1. CASE SqlReadKeys(t) \/ SqlSpendLogs(t) \/ SqlTotals(t) \/ SqlGroups(t) \/ SqlFails(t)
  BY <1>1 DEF SqlReadKeys, SqlSpendLogs, SqlTotals, SqlGroups, SqlFails, Reply, Finish,
     StepFiles, Written
<1>2. CASE SqlCreateKey(t) \/ SqlUpdateKey(t)
  <2>1. c \in Calls /\ c.op \in {"create_key", "update_key"}
    BY <1>0, <1>2 DEF SqlCreateKey, SqlUpdateKey, Sql, Called
  <2>2. c.id \in KeyIds
    BY <2>1, CallOperands
  <2> QED BY <1>2, <2>2 DEF SqlCreateKey, SqlUpdateKey, Reply, Finish, StepFiles, Written
<1>3. CASE SqlDeleteKey(t)
  <2>1. c \in Calls /\ c.op = "delete_key"
    BY <1>0, <1>3 DEF SqlDeleteKey, Sql, Called
  <2>2. c.id \in KeyIds
    BY <2>1, CallOperands
  <2> QED BY <1>3, <2>2 DEF SqlDeleteKey, Finish, StepFiles, Written
<1>4. CASE SqlTeams(t)
  BY <1>4, <1>0, TeamsFile DEF SqlTeams
<1>5. CASE SqlRecordSpend(t)
  <2>1. c \in Calls /\ c.op = "record_spend"
    BY <1>0, <1>5 DEF SqlRecordSpend, Sql, Called
  <2>2. [key |-> c.key, model |-> c.model] \in Records
    BY <2>1, CallOperands DEF Records
  <2> DEFINE r == [key |-> c.key, model |-> c.model]
  <2>3. CASE c.key \in DOMAIN db.keys
    <3>1. db' = [db EXCEPT !.spend = Append(db.spend, r)] /\ r.key = c.key
      BY <1>5, <2>3 DEF SqlRecordSpend
    <3>2. Written
      <4> HIDE DEF r
      <4> QED BY <2>2, <2>3, <3>1 DEF Written, r
    <3> QED BY <1>5, <2>3, <3>2 DEF SqlRecordSpend, Finish, StepFiles
  <2>4. CASE c.key \notin DOMAIN db.keys
    BY <1>5, <2>4 DEF SqlRecordSpend, Reply, Finish, StepFiles, Written
  <2> QED BY <2>3, <2>4
<1>6. CASE SqlRequests(t)
  <2>1. CASE Sql(t, "record_request_log")
    <3>1. c.model \in Models
      BY <1>0, <2>1, CallOperands DEF Called, Sql
    <3> QED BY <1>6, <2>1, <3>1 DEF SqlRequests, Sql, Called, Reply, Finish, StepFiles, Written
  <2>2. CASE ~Sql(t, "record_request_log")
    BY <1>6, <2>2 DEF SqlRequests, Reply, Finish, StepFiles, Written
  <2> QED BY <2>1, <2>2
<1> QED BY <1>1, <1>2, <1>3, <1>4, <1>5, <1>6 DEF Sqlite

\* Every step of either backend files rows of their own type.
LEMMA TabledStep == StoreInv /\ Tabled /\ [Next]_vars => Tabled'
<1> SUFFICES ASSUME StoreInv, Tabled, [Next]_vars PROVE Tabled'
  OBVIOUS
<1>1. StepFiles
  <2>1. CASE UNCHANGED vars
    BY <2>1 DEF vars, StepFiles, Written
  <2>2. CASE Crash
    BY <2>2 DEF Crash, StepFiles, Written
  <2>3. ASSUME NEW t \in Threads, Invoke(t) \/ Return(t) PROVE StepFiles
    BY <2>3 DEF Invoke, Return, StepFiles, Written
  <2>4. ASSUME NEW t \in Threads, Memory(t) \/ Sqlite(t) PROVE StepFiles
    BY <2>4, MemoryFiles, SqliteFiles DEF Tabled
  <2> QED BY <2>1, <2>2, <2>3, <2>4 DEF Next
<1>2. Filed(db)'
  BY <1>1, WritesKeepTables DEF Tabled, StepFiles
<1>3. left' \in 0 .. MaxCalls
  BY <1>1, StoreAssumption DEF Tabled, StepFiles
<1> QED BY <1>1, <1>2, <1>3 DEF Tabled, StepFiles

LEMMA TabledInit == Init => Tabled
BY StoreAssumption, EmptySeq DEF Init, Tabled, Filed, EmptyDb

\* Every table, and every call in progress, holds rows of its own type, and the
\* spend log of SqliteStore names only keys that are there (store.rs:105-341,
\* sqlite_store.rs:58-636).
THEOREM TablesCorrect == Spec => []Tabled
<1>1. Init => Tabled
  BY TabledInit
<1>2. StoreInv /\ Tabled /\ [Next]_vars => Tabled'
  BY TabledStep
<1> QED BY <1>1, <1>2, StoreInvariant, PTL DEF Spec

\* The spend log of SqliteStore is about keys that exist, whatever order keys
\* are created and deleted and spend is recorded in, by any number of callers
\* (sqlite_store.rs:97-109).
THEOREM SpendNamesItsKey == Spec => []SpendHasItsKey
<1>1. Tabled => SpendHasItsKey
  BY DEF Tabled, Filed, SpendHasItsKey
<1> QED BY <1>1, TablesCorrect, PTL

\* The state of both backends has its type: rows of keys and teams, logs of
\* records, locks held by threads, each thread inside the call it has made.
THEOREM StoreTypeOK == Spec => []TypeOK
<1>1. StoreInv /\ Tabled => TypeOK
  <2> SUFFICES ASSUME StoreInv, Tabled PROVE TypeOK
    OBVIOUS
  <2>1. {keysLock, indexLock, connLock} \subseteq Threads \cup {NoOne}
    BY DEF StoreInv, Holders
  <2>2. ASSUME NEW t \in Threads
        PROVE  IF pc[t] = "idle" THEN call[t] = <<>> ELSE call[t][1] \in Calls
    BY TheCall DEF StoreInv, Shape
  <2>3. backend \in {"memory", "sqlite"} /\ pc \in [Threads -> Places]
    BY DEF StoreInv, Shape
  <2> QED BY <2>1, <2>2, <2>3 DEF Tabled, Filed, TypeOK, Records, Places
<1> QED BY <1>1, StoreInvariant, TablesCorrect, PTL
=============================================================================
