----------------------------- MODULE AdminKeys -----------------------------
(***************************************************************************)
(* Virtual keys, teams and spend (maxllm-admin: keys.rs, teams.rs and the  *)
(* bookkeeping of budget.rs) over the AdminStore trait.                    *)
(*                                                                         *)
(* Every store method holds its lock (InMemoryStore) or its connection     *)
(* (SqliteStore) for the whole call, so a store call is one atomic step.   *)
(* The operations are sequences of store calls with no lock around them:   *)
(* they read a record, change their copy and write the whole record back.  *)
(* Threads run operations one after the other; a record in copies is the   *)
(* one the operation will write.  No operation deletes a key or a team.    *)
(* A call that names an unknown key or team, or whose first store call     *)
(* fails, changes nothing and is left out.  One request costs 1.           *)
(***************************************************************************)
EXTENDS Naturals, Sequences, FiniteSets, Functions

CONSTANTS
  Threads,       \* threads that call into the admin crate
  Keys,          \* key ids (UUIDs generate_key may draw)
  Teams,         \* team ids (UUIDs create_team may draw)
  NoTeam,        \* team_id = None
  Unknown,       \* a team_id no team has: generate_key does not look it up
  Operations,    \* bound: the operations that are called
  MaxCalls,      \* bound: how many calls are made
  ResetDays,     \* VirtualKey.budget_reset_days, in days
  MaxTime,       \* bound: the last day
  StoreErrors    \* TRUE: a store call may fail (SqliteStore); FALSE: none
                 \* does (InMemoryStore)

AllOperations == {"generate_key", "create_team", "revoke_key", "add_member",
                  "remove_member", "record_usage", "reset_expired_budgets"}

ASSUME OperationsAssumption == Operations \subseteq AllOperations
ASSUME AdminBounds == /\ MaxCalls \in Nat /\ MaxTime \in Nat
                      /\ ResetDays \in Nat
                      /\ StoreErrors \in BOOLEAN
ASSUME TeamNames == NoTeam \notin Teams /\ Unknown \notin Teams
ASSUME ThreadsAssumption == IsFiniteSet(Threads)

VARIABLES
  keys,          \* id -> VirtualKey, for the keys created
  teams,         \* id -> Team, for the teams created
  spend_logs,    \* the SpendRecords, in order
  now,           \* the day
  failed,        \* history: a store call has failed in the middle of an
                 \* operation
  calls,         \* calls made so far
  pc,            \* the store call a thread makes next
  key_id,        \* the key a thread's operation is about
  team_id,       \* and the team
  copies,        \* id -> VirtualKey, the copies it has not written yet
  team_copy      \* its copy of the team

store  == <<keys, teams, spend_logs>>
locals == <<pc, key_id, team_id, copies, team_copy>>
world  == <<now, failed>>
vars   == <<store, world, calls, locals>>

TeamIds == Teams \cup {NoTeam, Unknown}

\* windowed: the key has a budget_reset_days; reset_at means something only
\* then.  total stands for every lifetime counter, spent for the window's.
VirtualKey == [is_active : BOOLEAN, team_id : TeamIds, windowed : BOOLEAN,
               total : Nat, spent : Nat, reset_at : Nat]
Team       == [members : SUBSET Keys, spent : Nat]
SpendRecord == [key_id : Keys, team_id : TeamIds]

NoCopies == [k \in {} |-> {}]
EmptyTeam == [members |-> {}, spent |-> 0]

Stages == {"idle", "revoke_update", "add_get_team", "add_update_team",
           "add_update_key", "remove_update_team", "remove_get_key",
           "remove_update_key", "record_update_key", "record_get_team",
           "record_update_team", "record_spend", "reset_update"}

TypeOK ==
  /\ DOMAIN keys \subseteq Keys /\ keys \in [DOMAIN keys -> VirtualKey]
  /\ DOMAIN teams \subseteq Teams /\ teams \in [DOMAIN teams -> Team]
  /\ spend_logs \in Seq(SpendRecord)
  /\ now \in 0 .. MaxTime /\ failed \in BOOLEAN
  /\ calls \in 0 .. MaxCalls
  /\ pc \in [Threads -> Stages]
  /\ key_id \in [Threads -> Keys \cup {NoTeam}]
  /\ team_id \in [Threads -> TeamIds]
  /\ DOMAIN copies = Threads
  /\ \A t \in Threads : /\ DOMAIN copies[t] \subseteq DOMAIN keys
                        /\ copies[t] \in [DOMAIN copies[t] -> VirtualKey]
  /\ team_copy \in [Threads -> Team]

Init ==
  /\ keys = [k \in {} |-> {}]
  /\ teams = [m \in {} |-> {}]
  /\ spend_logs = <<>>
  /\ now = 0 /\ failed = FALSE
  /\ calls = 0
  /\ pc = [t \in Threads |-> "idle"]
  /\ key_id = [t \in Threads |-> NoTeam]
  /\ team_id = [t \in Threads |-> NoTeam]
  /\ copies = [t \in Threads |-> NoCopies]
  /\ team_copy = [t \in Threads |-> EmptyTeam]

----------------------------------------------------------------------------
With(f, x, v) == [y \in DOMAIN f \cup {x} |-> IF y = x THEN v ELSE f[y]]

\* A call begins: the thread is free and the operation may be called.
Call(t, operation) ==
  /\ pc[t] = "idle"
  /\ operation \in Operations
  /\ calls < MaxCalls
  /\ calls' = calls + 1

Goto(t, stage) == pc' = [pc EXCEPT ![t] = stage]

\* The operation is about key k and has read it: it will write `changed`.
Copy(t, k, changed) ==
  /\ key_id' = [key_id EXCEPT ![t] = k]
  /\ copies' = [copies EXCEPT ![t] = With(NoCopies, k, changed)]

CopyTeam(t, m, changed) ==
  /\ team_id' = [team_id EXCEPT ![t] = m]
  /\ team_copy' = [team_copy EXCEPT ![t] = changed]

\* update_key with the copy of k: the whole record is replaced.
UpdateKey(t, k) ==
  /\ keys' = [keys EXCEPT ![k] = copies[t][k]]
  /\ copies' = [copies EXCEPT ![t] = Restrict(@, DOMAIN @ \ {k})]

\* update_team with the copy; the copy is not needed any more.
UpdateTeam(t) ==
  /\ teams' = [teams EXCEPT ![team_id[t]] = team_copy[t]]
  /\ team_copy' = [team_copy EXCEPT ![t] = EmptyTeam]

----------------------------------------------------------------------------
(* keys.rs                                                                 *)

NewKey(team, windowed) ==
  [is_active |-> TRUE, team_id |-> team, windowed |-> windowed, total |-> 0,
   spent |-> 0, reset_at |-> IF windowed THEN now + ResetDays ELSE 0]

\* generate_key: one store call.  The team is taken as the request gives it.
GenerateKey(t) ==
  /\ Call(t, "generate_key")
  /\ \E k \in Keys \ DOMAIN keys, windowed \in BOOLEAN,
        team \in DOMAIN teams \cup {NoTeam, Unknown} :
       keys' = With(keys, k, NewKey(team, windowed))
  /\ UNCHANGED <<teams, spend_logs, world, locals>>

\* revoke_key reads the key and will write it inactive.
RevokeGetKey(t) ==
  /\ Call(t, "revoke_key")
  /\ \E k \in DOMAIN keys :
       Copy(t, k, [keys[k] EXCEPT !.is_active = FALSE])
  /\ Goto(t, "revoke_update")
  /\ UNCHANGED <<store, world, team_id, team_copy>>

RevokeUpdateKey(t) ==
  /\ pc[t] = "revoke_update"
  /\ UpdateKey(t, key_id[t])
  /\ Goto(t, "idle")
  /\ UNCHANGED <<teams, spend_logs, world, calls, key_id, team_id, team_copy>>

----------------------------------------------------------------------------
(* teams.rs                                                                *)

CreateTeam(t) ==
  /\ Call(t, "create_team")
  /\ \E m \in Teams \ DOMAIN teams : teams' = With(teams, m, EmptyTeam)
  /\ UNCHANGED <<keys, spend_logs, world, locals>>

\* add_member reads the key first ...
AddGetKey(t) ==
  /\ Call(t, "add_member")
  /\ \E k \in DOMAIN keys, m \in DOMAIN teams :
       /\ Copy(t, k, [keys[k] EXCEPT !.team_id = m])
       /\ team_id' = [team_id EXCEPT ![t] = m]
  /\ Goto(t, "add_get_team")
  /\ UNCHANGED <<store, world, team_copy>>

\* ... then the team: Err(AlreadyMember) ends the call ...
AddGetTeam(t) ==
  /\ pc[t] = "add_get_team"
  /\ LET m == team_id[t]
         k == key_id[t]
     IN  IF k \in teams[m].members
           THEN /\ Goto(t, "idle")
                /\ copies' = [copies EXCEPT ![t] = NoCopies]
                /\ UNCHANGED team_copy
           ELSE /\ Goto(t, "add_update_team")
                /\ team_copy' = [team_copy EXCEPT ![t] =
                     [teams[m] EXCEPT !.members = @ \cup {k}]]
                /\ UNCHANGED copies
  /\ UNCHANGED <<store, world, calls, key_id, team_id>>

\* ... and writes both, the key from the copy it read first.
AddUpdateTeam(t) ==
  /\ pc[t] = "add_update_team"
  /\ UpdateTeam(t)
  /\ Goto(t, "add_update_key")
  /\ UNCHANGED <<keys, spend_logs, world, calls, key_id, team_id, copies>>

AddUpdateKey(t) ==
  /\ pc[t] = "add_update_key"
  /\ UpdateKey(t, key_id[t])
  /\ Goto(t, "idle")
  /\ UNCHANGED <<teams, spend_logs, world, calls, key_id, team_id, team_copy>>

\* remove_member: a key that is not a member is an error, with no effect.
RemoveGetTeam(t) ==
  /\ Call(t, "remove_member")
  /\ \E m \in DOMAIN teams : \E k \in teams[m].members :
       /\ key_id' = [key_id EXCEPT ![t] = k]
       /\ CopyTeam(t, m, [teams[m] EXCEPT !.members = @ \ {k}])
  /\ Goto(t, "remove_update_team")
  /\ UNCHANGED <<store, world, copies>>

RemoveUpdateTeam(t) ==
  /\ pc[t] = "remove_update_team"
  /\ UpdateTeam(t)
  /\ Goto(t, "remove_get_key")
  /\ UNCHANGED <<keys, spend_logs, world, calls, key_id, team_id, copies>>

RemoveGetKey(t) ==
  /\ pc[t] = "remove_get_key"
  /\ LET k == key_id[t]
     IN  Copy(t, k, [keys[k] EXCEPT !.team_id = NoTeam])
  /\ Goto(t, "remove_update_key")
  /\ UNCHANGED <<store, world, calls, team_id, team_copy>>

RemoveUpdateKey(t) ==
  /\ pc[t] = "remove_update_key"
  /\ UpdateKey(t, key_id[t])
  /\ Goto(t, "idle")
  /\ UNCHANGED <<teams, spend_logs, world, calls, key_id, team_id, team_copy>>

----------------------------------------------------------------------------
(* budget.rs                                                               *)

\* Mutant of Charged: the request and its cost are both added to the total.
ChargedTwice(vk) == [vk EXCEPT !.total = @ + 2, !.spent = @ + 1]

\* Mutant of Charged: the window counts down what is left instead of up.
ChargedDown(vk) == [vk EXCEPT !.total = @ + 1, !.spent = @ - 1]

Charged(vk) == [vk EXCEPT !.total = @ + 1, !.spent = @ + 1]

\* record_usage reads the key and counts the request on its copy.
RecordGetKey(t) ==
  /\ Call(t, "record_usage")
  /\ \E k \in DOMAIN keys :
       /\ Copy(t, k, Charged(keys[k]))
       /\ team_id' = [team_id EXCEPT ![t] = keys[k].team_id]
  /\ Goto(t, "record_update_key")
  /\ UNCHANGED <<store, world, team_copy>>

\* The team is charged only if the copy named one.
RecordUpdateKey(t) ==
  /\ pc[t] = "record_update_key"
  /\ UpdateKey(t, key_id[t])
  /\ Goto(t, IF team_id[t] = NoTeam THEN "record_spend" ELSE "record_get_team")
  /\ UNCHANGED <<teams, spend_logs, world, calls, key_id, team_id, team_copy>>

RecordGetTeam(t) ==
  /\ pc[t] = "record_get_team"
  /\ IF team_id[t] \in DOMAIN teams
       THEN /\ CopyTeam(t, team_id[t], [teams[team_id[t]] EXCEPT !.spent = @ + 1])
            /\ Goto(t, "record_update_team")
       ELSE /\ Goto(t, "record_spend")
            /\ UNCHANGED <<team_id, team_copy>>
  /\ UNCHANGED <<store, world, calls, key_id, copies>>

RecordUpdateTeam(t) ==
  /\ pc[t] = "record_update_team"
  /\ UpdateTeam(t)
  /\ Goto(t, "record_spend")
  /\ UNCHANGED <<keys, spend_logs, world, calls, key_id, team_id, copies>>

RecordSpend(t) ==
  /\ pc[t] = "record_spend"
  /\ spend_logs' = Append(spend_logs,
                          [key_id |-> key_id[t], team_id |-> team_id[t]])
  /\ Goto(t, "idle")
  /\ UNCHANGED <<keys, teams, world, calls, key_id, team_id, copies, team_copy>>

\* Mutant of Renewed: the new window starts from a fresh, active record.
RenewedActive(vk) == [vk EXCEPT !.spent = 0, !.reset_at = now + ResetDays,
                                !.is_active = TRUE]

\* Mutant of Renewed: the lifetime counters are reset with the window's.
RenewedTotals(vk) == [vk EXCEPT !.spent = 0, !.reset_at = now + ResetDays,
                                !.total = 0]

\* A key whose window starts again now.
Renewed(vk) == [vk EXCEPT !.spent = 0, !.reset_at = now + ResetDays]

\* reset_expired_budgets lists the keys and renews the expired ones ...
ResetListKeys(t) ==
  /\ Call(t, "reset_expired_budgets")
  /\ LET expired == {k \in DOMAIN keys :
                       keys[k].windowed /\ now >= keys[k].reset_at}
     IN  /\ expired # {}
         /\ copies' = [copies EXCEPT ![t] = [k \in expired |-> Renewed(keys[k])]]
  /\ Goto(t, "reset_update")
  /\ UNCHANGED <<store, world, key_id, team_id, team_copy>>

\* ... which it writes one after the other, from the list it took.
ResetUpdateKey(t) ==
  /\ pc[t] = "reset_update"
  /\ \E k \in DOMAIN copies[t] :
       /\ UpdateKey(t, k)
       /\ Goto(t, IF DOMAIN copies[t] = {k} THEN "idle" ELSE "reset_update")
  /\ UNCHANGED <<teams, spend_logs, world, calls, key_id, team_id, team_copy>>

----------------------------------------------------------------------------
\* Mutant of StoreError: record_usage goes on to its log when the write of the
\* key's record fails.
StoreErrorIgnored(t) ==
  /\ StoreErrors
  /\ pc[t] # "idle"
  /\ Goto(t, IF pc[t] = "record_update_key" THEN "record_spend" ELSE "idle")
  /\ copies' = [copies EXCEPT ![t] = NoCopies]
  /\ failed' = TRUE
  /\ UNCHANGED <<store, now, calls, key_id, team_id, team_copy>>

\* A later store call of the operation fails: the `?` after it returns the
\* error, and what the operation has written stays.
StoreError(t) ==
  /\ StoreErrors
  /\ pc[t] # "idle"
  /\ Goto(t, "idle")
  /\ copies' = [copies EXCEPT ![t] = NoCopies]
  /\ failed' = TRUE
  /\ UNCHANGED <<store, now, calls, key_id, team_id, team_copy>>

DayPasses ==
  /\ now < MaxTime
  /\ now' = now + 1
  /\ UNCHANGED <<failed, store, calls, locals>>

AllIdle == \A t \in Threads : pc[t] = "idle"

\* The bounds are used up, or no operation applies.
Finished == AllIdle /\ UNCHANGED vars

KeyOps(t) == GenerateKey(t) \/ RevokeGetKey(t) \/ RevokeUpdateKey(t)

TeamOps(t) ==
  \/ CreateTeam(t)
  \/ AddGetKey(t) \/ AddGetTeam(t) \/ AddUpdateTeam(t) \/ AddUpdateKey(t)
  \/ RemoveGetTeam(t) \/ RemoveUpdateTeam(t)
  \/ RemoveGetKey(t) \/ RemoveUpdateKey(t)

BudgetOps(t) ==
  \/ RecordGetKey(t) \/ RecordUpdateKey(t) \/ RecordGetTeam(t)
  \/ RecordUpdateTeam(t) \/ RecordSpend(t)
  \/ ResetListKeys(t) \/ ResetUpdateKey(t)

Next ==
  \/ \E t \in Threads :
       KeyOps(t) \/ TeamOps(t) \/ BudgetOps(t) \/ StoreError(t)
  \/ DayPasses
  \/ Finished

Spec == Init /\ [][Next]_vars
=============================================================================
