----------------------------- MODULE AdminStore -----------------------------
(* What the AdminStore trait (maxllm-admin/src/store.rs:37-70) promises its  *)
(* callers: every call takes effect at one moment between its invocation    *)
(* and its return (linearizability), a failed call has no effect, and a     *)
(* crash loses either nothing that was answered (relational store) or       *)
(* everything (in-memory store).  Nothing is said of how this is done: see  *)
(* StoreBackends.                                                           *)
EXTENDS StoreData

VARIABLES
  relational,  \* durable, with spend logs that refer to keys
  db,          \* the four tables
  pending,     \* what each thread has called, <<>> when nothing
  answer,      \* its answer, once the call has taken effect
  left         \* calls still to be made

vars == <<relational, db, pending, answer, left>>

Idle == <<>>

Init ==
  /\ relational \in BOOLEAN
  /\ db = EmptyDb
  /\ pending = [t \in Threads |-> Idle]
  /\ answer = [t \in Threads |-> NoAnswer]
  /\ left = MaxCalls

Invoke(t) ==
  /\ pending[t] = Idle /\ left > 0
  /\ \E c \in Calls : pending' = [pending EXCEPT ![t] = <<c>>]
  /\ left' = left - 1
  /\ UNCHANGED <<relational, db, answer>>

\* What a call may do to the tables, with what it then answers.
To(d, status, rows) == {[db |-> d, answer |-> Answer(status, rows)]}

Effects(c) ==
  CASE c.op = "create_key" ->
         IF c.id \in DOMAIN db.keys THEN To(db, "Duplicate", {})
         ELSE To([db EXCEPT !.keys = Put(@, c.id, c.val)], "Ok", {})
    [] c.op \in {"get_key_by_hash", "get_key_by_id"} ->
         To(db, "Ok", Row(db.keys, c.id))
    [] c.op = "list_keys" ->
         {[db |-> db, answer |-> Answer("Ok", rows)] :
            rows \in TablePages(db.keys, c.offset, c.limit)}
    [] c.op = "update_key" ->
         IF c.id \notin DOMAIN db.keys THEN To(db, "NotFound", {})
         ELSE To([db EXCEPT !.keys = Put(@, c.id, c.val)], "Ok", {})
    [] c.op = "delete_key" ->
         To([db EXCEPT !.keys = Without(@, c.id),
                       !.spend = IF relational
                                 THEN SpendOfOthers(@, c.id)
                                 ELSE @],
            "Ok", Row([i \in DOMAIN db.keys |-> All], c.id))
    [] c.op = "create_team" ->
         IF c.id \in DOMAIN db.teams THEN To(db, "Duplicate", {})
         ELSE To([db EXCEPT !.teams = Put(@, c.id, c.val)], "Ok", {})
    [] c.op = "get_team" -> To(db, "Ok", Row(db.teams, c.id))
    [] c.op = "list_teams" -> To(db, "Ok", Rows(db.teams))
    [] c.op = "update_team" ->
         IF c.id \notin DOMAIN db.teams THEN To(db, "NotFound", {})
         ELSE To([db EXCEPT !.teams = Put(@, c.id, c.val)], "Ok", {})
    [] c.op = "delete_team" ->
         To([db EXCEPT !.teams = Without(@, c.id)],
            "Ok", Row([i \in DOMAIN db.teams |-> All], c.id))
    [] c.op = "record_spend" ->
         IF relational /\ c.key \notin DOMAIN db.keys
         THEN To(db, "Internal", {})
         ELSE To([db EXCEPT !.spend = Append(@, [key |-> c.key, model |-> c.model])],
                 "Ok", {})
    [] c.op = "get_spend_logs" ->
         {[db |-> db, answer |-> Answer("Ok", Entries(S))] :
            S \in Pages(Spends(db.spend, c.of), c.limit)}
    [] c.op = "get_spend_summary" ->
         To(db, "Ok", Totals(db.spend, c.of) \cup Groups(db.spend, c.of))
    [] c.op = "record_request_log" ->
         To([db EXCEPT !.requests = Append(@, c.model)], "Ok", {})
    [] c.op = "get_request_logs" ->
         {[db |-> db, answer |-> Answer("Ok", Entries(S))] :
            S \in Pages(Requests(db.requests, c.of), c.limit)}

\* The moment at which the call takes effect.
Effect(t) ==
  /\ pending[t] # Idle /\ answer[t] = NoAnswer
  /\ \E e \in Effects(pending[t][1]) :
       db' = e.db /\ answer' = [answer EXCEPT ![t] = e.answer]
  /\ UNCHANGED <<relational, pending, left>>

\* A statement of the durable store may fail, and has then done nothing.
Fail(t) ==
  /\ relational /\ pending[t] # Idle /\ answer[t] = NoAnswer
  /\ answer' = [answer EXCEPT ![t] = Answer("Internal", {})]
  /\ UNCHANGED <<relational, db, pending, left>>

Return(t) ==
  /\ answer[t] # NoAnswer
  /\ pending' = [pending EXCEPT ![t] = Idle]
  /\ answer' = [answer EXCEPT ![t] = NoAnswer]
  /\ UNCHANGED <<relational, db, left>>

Crash ==
  /\ db' = IF relational THEN db ELSE EmptyDb
  /\ pending' = [t \in Threads |-> Idle]
  /\ answer' = [t \in Threads |-> NoAnswer]
  /\ UNCHANGED <<relational, left>>

Next ==
  \/ \E t \in Threads : Invoke(t) \/ Effect(t) \/ Fail(t) \/ Return(t)
  \/ Crash

Spec == Init /\ [][Next]_vars
=============================================================================
