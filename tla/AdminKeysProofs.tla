-------------------------- MODULE AdminKeysProofs --------------------------
(***************************************************************************)
(* Type correctness of the admin operations, for any number of threads,    *)
(* keys, teams and calls, and that a revocation no overlapping operation   *)
(* still contradicts is final.                                             *)
(*                                                                         *)
(* TypeOK is inductive together with Steps, which says what a thread has   *)
(* read at each stage of its operation: the key it is about exists, the    *)
(* copy it is going to write is there, and so is the team.                 *)
(*                                                                         *)
(* The counters of keys and teams are accounts of the usages: what is      *)
(* charged is never more than what was recorded (Billing), and with one    *)
(* thread a ledger says at each stage by how much a counter may be ahead   *)
(* of the spend log (KeyLedger, TeamLedger).                               *)
(***************************************************************************)
EXTENDS AdminKeysProps, FiniteSetTheorems, TLAPS

USE DEF world

\* The stages of the operations about one key; those that still have to write
\* their copy of it; those that have read the team.
OneKey   == Stages \ {"idle", "reset_update"}
Copying  == {"revoke_update", "add_get_team", "add_update_team",
             "add_update_key", "remove_update_key", "record_update_key"}
TeamRead == {"add_get_team", "add_update_team", "remove_update_team",
             "record_update_team"}

Step(t) ==
  /\ pc[t] \in OneKey   => key_id[t] \in DOMAIN keys
  /\ pc[t] \in Copying  => key_id[t] \in DOMAIN copies[t]
  /\ pc[t] \in TeamRead => team_id[t] \in DOMAIN teams
  /\ team_copy[t].members \subseteq DOMAIN keys

Steps ==
  /\ \A t \in Threads : Step(t)
  /\ \A m \in DOMAIN teams : teams[m].members \subseteq DOMAIN keys

Inductive == TypeOK /\ Steps

----------------------------------------------------------------------------
(* The building blocks                                                     *)

\* A single copy: the partial function with one entry.
LEMMA OneCopy ==
  ASSUME NEW S, NEW x, NEW v \in S
  PROVE  /\ With(NoCopies, x, v) \in [{x} -> S]
         /\ DOMAIN With(NoCopies, x, v) = {x}
         /\ With(NoCopies, x, v)[x] = v
BY DEF With, NoCopies

LEMMA GotoFacts ==
  ASSUME TypeOK, NEW t \in Threads, NEW stage \in Stages, Goto(t, stage)
  PROVE  /\ pc' \in [Threads -> Stages]
         /\ pc'[t] = stage
         /\ \A u \in Threads : u # t => pc'[u] = pc[u]
BY DEF TypeOK, Goto

CopiesTyped == /\ DOMAIN copies = Threads
               /\ \A t \in Threads :
                    /\ DOMAIN copies[t] \subseteq DOMAIN keys
                    /\ copies[t] \in [DOMAIN copies[t] -> VirtualKey]

KeysTyped == /\ DOMAIN keys \subseteq Keys
             /\ keys \in [DOMAIN keys -> VirtualKey]

TeamsTyped == /\ DOMAIN teams \subseteq Teams
              /\ teams \in [DOMAIN teams -> Team]

\* update_key writes the copy over the record and changes no other record;
\* the other threads' copies stay.
LEMMA UpdateKeyFacts ==
  ASSUME TypeOK, NEW t \in Threads, NEW k \in DOMAIN copies[t], UpdateKey(t, k)
  PROVE  /\ KeysTyped' /\ CopiesTyped'
         /\ DOMAIN keys' = DOMAIN keys
         /\ keys'[k] = copies[t][k]
         /\ \A j \in DOMAIN keys : j # k => keys'[j] = keys[j]
         /\ DOMAIN copies'[t] = DOMAIN copies[t] \ {k}
         /\ \A j \in DOMAIN copies'[t] : copies'[t][j] = copies[t][j]
         /\ \A u \in Threads : u # t => copies'[u] = copies[u]
<1>1. /\ DOMAIN copies = Threads
      /\ \A u \in Threads : /\ DOMAIN copies[u] \subseteq DOMAIN keys
                            /\ copies[u] \in [DOMAIN copies[u] -> VirtualKey]
      /\ DOMAIN keys \subseteq Keys /\ keys \in [DOMAIN keys -> VirtualKey]
  BY DEF TypeOK
<1>2. /\ keys' = [keys EXCEPT ![k] = copies[t][k]]
      /\ copies' = [copies EXCEPT ![t] =
                      Restrict(copies[t], DOMAIN copies[t] \ {k})]
  BY DEF UpdateKey
<1>3. copies[t][k] \in VirtualKey BY <1>1
<1>4. /\ DOMAIN keys' = DOMAIN keys
      /\ keys' \in [DOMAIN keys -> VirtualKey]
      /\ keys'[k] = copies[t][k]
      /\ \A j \in DOMAIN keys : j # k => keys'[j] = keys[j]
  BY <1>1, <1>2, <1>3
<1>5. /\ DOMAIN copies' = Threads
      /\ copies'[t] = [j \in DOMAIN copies[t] \ {k} |-> copies[t][j]]
      /\ \A u \in Threads : u # t => copies'[u] = copies[u]
  BY <1>1, <1>2 DEF Restrict
<1>6. CopiesTyped'
  <2> SUFFICES ASSUME NEW u \in Threads
               PROVE  /\ DOMAIN copies'[u] \subseteq DOMAIN keys'
                      /\ copies'[u] \in [DOMAIN copies'[u] -> VirtualKey]
    BY <1>5 DEF CopiesTyped
  <2>1. CASE u = t BY <1>1, <1>4, <1>5, <2>1
  <2>2. CASE u # t BY <1>1, <1>4, <1>5, <2>2
  <2> QED BY <2>1, <2>2
<1> QED BY <1>1, <1>4, <1>5, <1>6 DEF KeysTyped

\* Reading a key leaves the thread with one copy of it.
LEMMA CopyFacts ==
  ASSUME TypeOK, NEW t \in Threads, NEW k \in DOMAIN keys,
         NEW changed \in VirtualKey, Copy(t, k, changed), UNCHANGED keys
  PROVE  /\ CopiesTyped' /\ key_id' \in [Threads -> Keys \cup {NoTeam}]
         /\ key_id'[t] = k
         /\ \A u \in Threads : u # t => key_id'[u] = key_id[u]
         /\ DOMAIN copies'[t] = {k} /\ copies'[t][k] = changed
         /\ \A u \in Threads : u # t => copies'[u] = copies[u]
<1>1. /\ With(NoCopies, k, changed) \in [{k} -> VirtualKey]
      /\ DOMAIN With(NoCopies, k, changed) = {k}
      /\ With(NoCopies, k, changed)[k] = changed
  BY OneCopy
<1>2. DOMAIN copies = Threads BY DEF TypeOK
<1>3. /\ copies'[t] = With(NoCopies, k, changed)
      /\ DOMAIN copies' = Threads
      /\ \A u \in Threads : u # t => copies'[u] = copies[u]
  BY <1>2 DEF Copy
<1>4. CopiesTyped'
  <2> SUFFICES ASSUME NEW u \in Threads
               PROVE  /\ DOMAIN copies'[u] \subseteq DOMAIN keys
                      /\ copies'[u] \in [DOMAIN copies'[u] -> VirtualKey]
    BY <1>3 DEF CopiesTyped
  <2>1. CASE u = t BY <1>1, <1>3, <2>1
  <2>2. CASE u # t BY <1>3, <2>2 DEF TypeOK
  <2> QED BY <2>1, <2>2
<1>5. /\ key_id' \in [Threads -> Keys \cup {NoTeam}]
      /\ key_id'[t] = k
      /\ \A u \in Threads : u # t => key_id'[u] = key_id[u]
  BY DEF TypeOK, Copy
<1> QED BY <1>1, <1>3, <1>4, <1>5

\* update_team replaces a team that exists by the copy.
LEMMA UpdateTeamFacts ==
  ASSUME TypeOK, Steps, NEW t \in Threads, team_id[t] \in DOMAIN teams,
         UpdateTeam(t), UNCHANGED keys
  PROVE  /\ TeamsTyped' /\ team_copy' \in [Threads -> Team]
         /\ DOMAIN teams' = DOMAIN teams
         /\ \A m \in DOMAIN teams : teams'[m].members \subseteq DOMAIN keys
         /\ team_copy'[t].members \subseteq DOMAIN keys
         /\ \A u \in Threads : u # t => team_copy'[u] = team_copy[u]
<1>1. EmptyTeam \in Team /\ EmptyTeam.members = {} BY DEF EmptyTeam, Team
<1>2. /\ team_copy \in [Threads -> Team]
      /\ DOMAIN teams \subseteq Teams /\ teams \in [DOMAIN teams -> Team]
  BY DEF TypeOK
<1>3. /\ team_copy[t].members \subseteq DOMAIN keys
      /\ \A m \in DOMAIN teams : teams[m].members \subseteq DOMAIN keys
  BY DEF Steps, Step
<1>4. /\ teams' = [teams EXCEPT ![team_id[t]] = team_copy[t]]
      /\ team_copy' = [team_copy EXCEPT ![t] = EmptyTeam]
  BY DEF UpdateTeam
<1>5. /\ DOMAIN teams' = DOMAIN teams /\ teams' \in [DOMAIN teams -> Team]
      /\ \A m \in DOMAIN teams : teams'[m] \in {teams[m], team_copy[t]}
  BY <1>2, <1>4
<1> QED BY <1>1, <1>2, <1>3, <1>4, <1>5 DEF TeamsTyped

LEMMA CopyTeamFacts ==
  ASSUME TypeOK, NEW t \in Threads, NEW m \in DOMAIN teams,
         NEW changed \in Team, CopyTeam(t, m, changed)
  PROVE  /\ team_id' \in [Threads -> TeamIds]
         /\ team_copy' \in [Threads -> Team]
         /\ team_id'[t] = m /\ team_copy'[t] = changed
         /\ \A u \in Threads : u # t => /\ team_id'[u] = team_id[u]
                                        /\ team_copy'[u] = team_copy[u]
BY DEF TypeOK, CopyTeam, TeamIds

LEMMA CallFacts ==
  ASSUME TypeOK, NEW t \in Threads, NEW operation, Call(t, operation)
  PROVE  pc[t] = "idle" /\ calls' \in 0 .. MaxCalls
BY AdminBounds DEF TypeOK, Call

\* The records an operation writes are records.
LEMMA ChangedKey ==
  ASSUME TypeOK, NEW vk \in VirtualKey
  PROVE  /\ [vk EXCEPT !.is_active = FALSE] \in VirtualKey
         /\ \A m \in TeamIds : [vk EXCEPT !.team_id = m] \in VirtualKey
         /\ Charged(vk) \in VirtualKey
         /\ Renewed(vk) \in VirtualKey
         /\ Renewed(vk).is_active = vk.is_active
         /\ Charged(vk).is_active = vk.is_active
<1>1. now \in Nat /\ ResetDays \in Nat /\ now + ResetDays \in Nat
  BY AdminBounds DEF TypeOK
<1>2. vk.total + 1 \in Nat /\ vk.spent + 1 \in Nat BY DEF VirtualKey
<1>3. [vk EXCEPT !.is_active = FALSE] \in VirtualKey
  BY DEF VirtualKey
<1>4. \A m \in TeamIds : [vk EXCEPT !.team_id = m] \in VirtualKey
  BY DEF VirtualKey
<1>5. Charged(vk) \in VirtualKey /\ Charged(vk).is_active = vk.is_active
  BY <1>2 DEF VirtualKey, Charged
<1>6. Renewed(vk) \in VirtualKey /\ Renewed(vk).is_active = vk.is_active
  BY <1>1 DEF VirtualKey, Renewed
<1> QED BY <1>3, <1>4, <1>5, <1>6

LEMMA ChangedTeam ==
  ASSUME NEW team \in Team, NEW k \in Keys
  PROVE  /\ [team EXCEPT !.members = @ \cup {k}] \in Team
         /\ [team EXCEPT !.members = @ \cup {k}].members = team.members \cup {k}
         /\ [team EXCEPT !.members = @ \ {k}] \in Team
         /\ [team EXCEPT !.members = @ \ {k}].members = team.members \ {k}
         /\ [team EXCEPT !.spent = @ + 1] \in Team
         /\ [team EXCEPT !.spent = @ + 1].members = team.members
BY DEF Team

\* A step of one thread keeps Steps if it keeps the thread's own stage, the
\* members of the teams, and what the others have read.
LEMMA Frame ==
  ASSUME Steps, NEW t \in Threads,
         DOMAIN keys \subseteq DOMAIN keys', DOMAIN teams \subseteq DOMAIN teams',
         \A u \in Threads : u # t =>
           /\ pc'[u] = pc[u] /\ key_id'[u] = key_id[u]
           /\ team_id'[u] = team_id[u] /\ copies'[u] = copies[u]
           /\ team_copy'[u] = team_copy[u],
         Step(t)',
         \A m \in DOMAIN teams' : teams'[m].members \subseteq DOMAIN keys'
  PROVE  Steps'
<1> SUFFICES ASSUME NEW u \in Threads PROVE Step(u)' BY DEF Steps
<1>1. CASE u = t BY <1>1
<1>2. CASE u # t BY <1>2 DEF Steps, Step
<1> QED BY <1>1, <1>2

\* What an action leaves alone keeps its type.
Typing == /\ KeysTyped /\ TeamsTyped /\ CopiesTyped
          /\ spend_logs \in Seq(SpendRecord)
          /\ now \in 0 .. MaxTime /\ failed \in BOOLEAN
          /\ calls \in 0 .. MaxCalls
          /\ pc \in [Threads -> Stages]
          /\ key_id \in [Threads -> Keys \cup {NoTeam}]
          /\ team_id \in [Threads -> TeamIds]
          /\ team_copy \in [Threads -> Team]

LEMMA TypingIsType == TypeOK <=> Typing
BY DEF TypeOK, Typing, KeysTyped, TeamsTyped, CopiesTyped

----------------------------------------------------------------------------
(* keys.rs                                                                 *)

LEMMA GenerateKeySteps ==
  ASSUME Inductive, NEW t \in Threads, GenerateKey(t) PROVE Inductive'
<1>1. TypeOK /\ Typing /\ Steps BY TypingIsType DEF Inductive
<1>2. PICK k \in Keys \ DOMAIN keys, windowed \in BOOLEAN,
           team \in DOMAIN teams \cup {NoTeam, Unknown} :
        keys' = With(keys, k, NewKey(team, windowed))
  BY DEF GenerateKey
<1>3. NewKey(team, windowed) \in VirtualKey
  <2>1. team \in TeamIds BY <1>1 DEF TypeOK, TeamIds
  <2>2. now + ResetDays \in Nat BY <1>1, AdminBounds DEF TypeOK
  <2> QED BY <2>1, <2>2 DEF NewKey, VirtualKey
<1>4. /\ keys' \in [DOMAIN keys \cup {k} -> VirtualKey]
      /\ DOMAIN keys' = DOMAIN keys \cup {k}
  <2> DEFINE new == NewKey(team, windowed)
  <2>1. keys \in [DOMAIN keys -> VirtualKey] BY <1>1 DEF Typing, KeysTyped
  <2>2. new \in VirtualKey BY <1>3
  <2> HIDE DEF new
  <2>3. /\ With(keys, k, new) \in [DOMAIN keys \cup {k} -> VirtualKey]
        /\ DOMAIN With(keys, k, new) = DOMAIN keys \cup {k}
    BY <2>1, <2>2 DEF With
  <2> QED BY <1>2, <2>3 DEF new
<1>5. UNCHANGED <<teams, spend_logs, world, locals>> BY DEF GenerateKey
<1>6. calls' \in 0 .. MaxCalls BY <1>1, CallFacts DEF GenerateKey
<1>7. Typing'
  BY <1>1, <1>4, <1>5, <1>6
  DEF Typing, KeysTyped, TeamsTyped, CopiesTyped, locals
<1>8. Steps' BY <1>1, <1>4, <1>5 DEF Steps, Step, locals
<1> QED BY <1>7, <1>8, TypingIsType, PTL DEF Inductive

LEMMA RevokeGetKeySteps ==
  ASSUME Inductive, NEW t \in Threads, RevokeGetKey(t) PROVE Inductive'
<1>1. TypeOK /\ Typing /\ Steps BY TypingIsType DEF Inductive
<1>2. PICK k \in DOMAIN keys : Copy(t, k, [keys[k] EXCEPT !.is_active = FALSE])
  BY DEF RevokeGetKey
<1>3. UNCHANGED <<store, world, team_id, team_copy>> /\ Goto(t, "revoke_update")
  BY DEF RevokeGetKey
<1>4. keys[k] \in VirtualKey BY <1>1 DEF TypeOK
<1>5. [keys[k] EXCEPT !.is_active = FALSE] \in VirtualKey
  BY <1>1, <1>4, ChangedKey
<1>6. UNCHANGED keys BY <1>3 DEF store
<1>7. /\ CopiesTyped' /\ key_id' \in [Threads -> Keys \cup {NoTeam}]
      /\ key_id'[t] = k /\ DOMAIN copies'[t] = {k}
      /\ \A u \in Threads : u # t => /\ key_id'[u] = key_id[u]
                                     /\ copies'[u] = copies[u]
  BY <1>1, <1>2, <1>5, <1>6, CopyFacts
<1>8. /\ pc' \in [Threads -> Stages] /\ pc'[t] = "revoke_update"
      /\ \A u \in Threads : u # t => pc'[u] = pc[u]
  BY <1>1, <1>3, GotoFacts DEF Stages
<1>9. calls' \in 0 .. MaxCalls BY <1>1, CallFacts DEF RevokeGetKey
<1>10. Typing'
  BY <1>1, <1>3, <1>7, <1>8, <1>9 DEF Typing, KeysTyped, TeamsTyped, store
<1>11. Step(t)'
  BY <1>1, <1>3, <1>7, <1>8 DEF Steps, Step, store, OneKey, Copying, TeamRead
<1>12. Steps'
  BY <1>1, <1>3, <1>7, <1>8, <1>11, Frame DEF store, Steps
<1> QED BY <1>10, <1>12, TypingIsType, PTL DEF Inductive

\* The writes that end an operation: revoke_key, add_member, remove_member.
LEMMA LastWrite ==
  ASSUME Inductive, NEW t \in Threads, pc[t] \in Copying,
         UpdateKey(t, key_id[t]), Goto(t, "idle"),
         UNCHANGED <<teams, spend_logs, world, calls, key_id, team_id, team_copy>>
  PROVE  Inductive'
<1>1. TypeOK /\ Typing /\ Steps BY TypingIsType DEF Inductive
<1>2. key_id[t] \in DOMAIN copies[t] BY <1>1 DEF Steps, Step
<1>3. /\ KeysTyped' /\ CopiesTyped' /\ DOMAIN keys' = DOMAIN keys
      /\ \A u \in Threads : u # t => copies'[u] = copies[u]
  BY <1>1, <1>2, UpdateKeyFacts
<1>4. /\ pc' \in [Threads -> Stages] /\ pc'[t] = "idle"
      /\ \A u \in Threads : u # t => pc'[u] = pc[u]
  BY <1>1, GotoFacts DEF Stages
<1>5. Typing' BY <1>1, <1>3, <1>4 DEF Typing, TeamsTyped
<1>6. Step(t)' BY <1>1, <1>3, <1>4 DEF Steps, Step, OneKey, Copying, TeamRead
<1>7. Steps' BY <1>1, <1>3, <1>4, <1>6, Frame DEF Steps
<1> QED BY <1>5, <1>7, TypingIsType, PTL DEF Inductive

LEMMA KeyOpsSteps ==
  ASSUME Inductive, NEW t \in Threads, KeyOps(t) PROVE Inductive'
<1>1. CASE GenerateKey(t) BY <1>1, GenerateKeySteps
<1>2. CASE RevokeGetKey(t) BY <1>2, RevokeGetKeySteps
<1>3. CASE RevokeUpdateKey(t)
  BY <1>3, LastWrite DEF RevokeUpdateKey, Copying
<1> QED BY <1>1, <1>2, <1>3 DEF KeyOps

----------------------------------------------------------------------------
(* teams.rs                                                                *)

LEMMA CreateTeamSteps ==
  ASSUME Inductive, NEW t \in Threads, CreateTeam(t) PROVE Inductive'
<1>1. TypeOK /\ Typing /\ Steps BY TypingIsType DEF Inductive
<1>2. PICK m \in Teams \ DOMAIN teams : teams' = With(teams, m, EmptyTeam)
  BY DEF CreateTeam
<1>3. EmptyTeam \in Team /\ EmptyTeam.members = {} BY DEF EmptyTeam, Team
<1>4. /\ teams' \in [DOMAIN teams \cup {m} -> Team]
      /\ DOMAIN teams' = DOMAIN teams \cup {m}
      /\ teams'[m].members = {}
      /\ \A n \in DOMAIN teams : n # m => teams'[n] = teams[n]
  <2>1. teams \in [DOMAIN teams -> Team] BY <1>1 DEF Typing, TeamsTyped
  <2> QED BY <1>2, <1>3, <2>1 DEF With
<1>5. UNCHANGED <<keys, spend_logs, world, locals>> BY DEF CreateTeam
<1>6. calls' \in 0 .. MaxCalls BY <1>1, CallFacts DEF CreateTeam
<1>7. Typing'
  BY <1>1, <1>4, <1>5, <1>6
  DEF Typing, KeysTyped, TeamsTyped, CopiesTyped, locals
<1>8. Steps' BY <1>1, <1>4, <1>5 DEF Steps, Step, locals
<1> QED BY <1>7, <1>8, TypingIsType, PTL DEF Inductive

LEMMA AddGetKeySteps ==
  ASSUME Inductive, NEW t \in Threads, AddGetKey(t) PROVE Inductive'
<1>1. TypeOK /\ Typing /\ Steps BY TypingIsType DEF Inductive
<1>2. PICK k \in DOMAIN keys, m \in DOMAIN teams :
        /\ Copy(t, k, [keys[k] EXCEPT !.team_id = m])
        /\ team_id' = [team_id EXCEPT ![t] = m]
  BY DEF AddGetKey
<1>3. UNCHANGED <<store, world, team_copy>> /\ Goto(t, "add_get_team")
  BY DEF AddGetKey
<1>4. keys[k] \in VirtualKey /\ m \in TeamIds BY <1>1 DEF TypeOK, TeamIds
<1>5. [keys[k] EXCEPT !.team_id = m] \in VirtualKey
  BY <1>1, <1>4, ChangedKey
<1>6. UNCHANGED keys BY <1>3 DEF store
<1>7. /\ CopiesTyped' /\ key_id' \in [Threads -> Keys \cup {NoTeam}]
      /\ key_id'[t] = k /\ DOMAIN copies'[t] = {k}
      /\ \A u \in Threads : u # t => /\ key_id'[u] = key_id[u]
                                     /\ copies'[u] = copies[u]
  BY <1>1, <1>2, <1>5, <1>6, CopyFacts
<1>8. /\ pc' \in [Threads -> Stages] /\ pc'[t] = "add_get_team"
      /\ \A u \in Threads : u # t => pc'[u] = pc[u]
  BY <1>1, <1>3, GotoFacts DEF Stages
<1>9. calls' \in 0 .. MaxCalls BY <1>1, CallFacts DEF AddGetKey
<1>10. /\ team_id' \in [Threads -> TeamIds] /\ team_id'[t] = m
       /\ \A u \in Threads : u # t => team_id'[u] = team_id[u]
  BY <1>1, <1>2, <1>4 DEF Typing
<1>11. Typing'
  BY <1>1, <1>3, <1>7, <1>8, <1>9, <1>10
  DEF Typing, KeysTyped, TeamsTyped, store
<1>12. Step(t)' BY <1>1, <1>3, <1>7, <1>8, <1>10 DEF Steps, Step, store
<1>13. Steps'
  BY <1>1, <1>3, <1>7, <1>8, <1>10, <1>12, Frame DEF store, Steps
<1> QED BY <1>11, <1>13, TypingIsType, PTL DEF Inductive

LEMMA AddGetTeamSteps ==
  ASSUME Inductive, NEW t \in Threads, AddGetTeam(t) PROVE Inductive'
<1> DEFINE m == team_id[t]
           k == key_id[t]
<1>1. TypeOK /\ Typing /\ Steps BY TypingIsType DEF Inductive
<1>2. pc[t] = "add_get_team" /\ UNCHANGED <<store, world, calls, key_id, team_id>>
  BY DEF AddGetTeam
<1>3. k \in DOMAIN keys /\ k \in Keys /\ k \in DOMAIN copies[t]
      /\ m \in DOMAIN teams /\ teams[m] \in Team
  BY <1>1, <1>2
  DEF Steps, Step, OneKey, Copying, TeamRead, Stages, TypeOK
<1>4. CASE k \in teams[m].members
  <2>1. /\ Goto(t, "idle") /\ copies' = [copies EXCEPT ![t] = NoCopies]
        /\ UNCHANGED team_copy
    BY <1>4 DEF AddGetTeam
  <2>2. /\ pc' \in [Threads -> Stages] /\ pc'[t] = "idle"
        /\ \A u \in Threads : u # t => pc'[u] = pc[u]
    BY <1>1, <2>1, GotoFacts DEF Stages
  <2>3. DOMAIN NoCopies = {} /\ NoCopies \in [{} -> VirtualKey] BY DEF NoCopies
  <2>4. /\ DOMAIN copies' = Threads /\ copies'[t] = NoCopies
        /\ \A u \in Threads : u # t => copies'[u] = copies[u]
    BY <1>1, <2>1 DEF TypeOK
  <2>5. CopiesTyped'
    <3> SUFFICES ASSUME NEW u \in Threads
                 PROVE  /\ DOMAIN copies'[u] \subseteq DOMAIN keys'
                        /\ copies'[u] \in [DOMAIN copies'[u] -> VirtualKey]
      BY <2>4 DEF CopiesTyped
    <3>1. CASE u = t BY <2>3, <2>4, <3>1
    <3>2. CASE u # t
      BY <1>1, <1>2, <2>4, <3>2 DEF Typing, CopiesTyped, store
    <3> QED BY <3>1, <3>2
  <2>6. Typing'
    BY <1>1, <1>2, <2>1, <2>2, <2>5 DEF Typing, KeysTyped, TeamsTyped, store
  <2>7. Step(t)'
    BY <1>1, <1>2, <2>1, <2>2 DEF Steps, Step, OneKey, Copying, TeamRead, store
  <2>8. Steps'
    BY <1>1, <1>2, <2>1, <2>2, <2>4, <2>7, Frame DEF store, Steps
  <2> QED BY <2>6, <2>8, TypingIsType, PTL DEF Inductive
<1>5. CASE k \notin teams[m].members
  <2> DEFINE grown == [teams[m] EXCEPT !.members = @ \cup {k}]
  <2>1. /\ Goto(t, "add_update_team")
        /\ team_copy' = [team_copy EXCEPT ![t] = grown]
        /\ UNCHANGED copies
    BY <1>5 DEF AddGetTeam
  <2>2. /\ pc' \in [Threads -> Stages] /\ pc'[t] = "add_update_team"
        /\ \A u \in Threads : u # t => pc'[u] = pc[u]
    BY <1>1, <2>1, GotoFacts DEF Stages
  <2>3. grown \in Team /\ grown.members = teams[m].members \cup {k}
    BY <1>3, ChangedTeam
  <2>4. grown.members \subseteq DOMAIN keys BY <1>1, <1>3, <2>3 DEF Steps
  <2> HIDE DEF grown
  <2>5. /\ team_copy' \in [Threads -> Team] /\ team_copy'[t] = grown
        /\ \A u \in Threads : u # t => team_copy'[u] = team_copy[u]
    BY <1>1, <2>1, <2>3 DEF Typing
  <2>6. Typing'
    BY <1>1, <1>2, <2>1, <2>2, <2>5
    DEF Typing, KeysTyped, TeamsTyped, CopiesTyped, store
  <2>7. Step(t)' BY <1>2, <1>3, <2>1, <2>2, <2>4, <2>5 DEF Step, store
  <2>8. Steps'
    BY <1>1, <1>2, <2>1, <2>2, <2>5, <2>7, Frame DEF store, Steps
  <2> QED BY <2>6, <2>8, TypingIsType, PTL DEF Inductive
<1> QED BY <1>4, <1>5

\* The writes of a team: add_member, remove_member and record_usage.
LEMMA TeamWrite ==
  ASSUME Inductive, NEW t \in Threads, pc[t] \in TeamRead, UpdateTeam(t),
         UNCHANGED <<keys, spend_logs, world, calls, key_id, team_id, copies>>,
         NEW stage \in OneKey \ TeamRead, Goto(t, stage),
         stage \in Copying => pc[t] \in Copying
  PROVE  Inductive'
<1>1. TypeOK /\ Typing /\ Steps BY TypingIsType DEF Inductive
<1>2. /\ team_id[t] \in DOMAIN teams /\ key_id[t] \in DOMAIN keys
      /\ stage \in Copying => key_id[t] \in DOMAIN copies[t]
  BY <1>1 DEF Steps, Step, TeamRead, OneKey, Stages
<1>3. /\ TeamsTyped' /\ team_copy' \in [Threads -> Team]
      /\ DOMAIN teams' = DOMAIN teams
      /\ \A m \in DOMAIN teams : teams'[m].members \subseteq DOMAIN keys
      /\ team_copy'[t].members \subseteq DOMAIN keys
      /\ \A u \in Threads : u # t => team_copy'[u] = team_copy[u]
  BY <1>1, <1>2, UpdateTeamFacts
<1>4. /\ pc' \in [Threads -> Stages] /\ pc'[t] = stage
      /\ \A u \in Threads : u # t => pc'[u] = pc[u]
  BY <1>1, GotoFacts DEF OneKey
<1>5. Typing' BY <1>1, <1>3, <1>4 DEF Typing, KeysTyped, CopiesTyped
<1>6. Step(t)' BY <1>2, <1>3, <1>4 DEF Step
<1>7. Steps' BY <1>1, <1>3, <1>4, <1>6, Frame
<1> QED BY <1>5, <1>7, TypingIsType, PTL DEF Inductive

LEMMA RemoveGetTeamSteps ==
  ASSUME Inductive, NEW t \in Threads, RemoveGetTeam(t) PROVE Inductive'
<1>1. TypeOK /\ Typing /\ Steps BY TypingIsType DEF Inductive
<1>2. PICK m \in DOMAIN teams : \E k \in teams[m].members :
        /\ key_id' = [key_id EXCEPT ![t] = k]
        /\ CopyTeam(t, m, [teams[m] EXCEPT !.members = @ \ {k}])
  BY DEF RemoveGetTeam
<1>3. PICK k \in teams[m].members :
        /\ key_id' = [key_id EXCEPT ![t] = k]
        /\ CopyTeam(t, m, [teams[m] EXCEPT !.members = @ \ {k}])
  BY <1>2
<1> DEFINE less == [teams[m] EXCEPT !.members = @ \ {k}]
<1>4. UNCHANGED <<store, world, copies>> /\ Goto(t, "remove_update_team")
  BY DEF RemoveGetTeam
<1>5. teams[m] \in Team /\ k \in Keys /\ k \in DOMAIN keys
      /\ teams[m].members \subseteq DOMAIN keys
  BY <1>1 DEF TypeOK, Steps
<1>6. less \in Team /\ less.members = teams[m].members \ {k}
  BY <1>5, ChangedTeam
<1> HIDE DEF less
<1>7. CopyTeam(t, m, less) BY <1>3 DEF less
<1>8. /\ team_id' \in [Threads -> TeamIds] /\ team_copy' \in [Threads -> Team]
      /\ team_id'[t] = m /\ team_copy'[t] = less
      /\ \A u \in Threads : u # t => /\ team_id'[u] = team_id[u]
                                     /\ team_copy'[u] = team_copy[u]
  BY <1>1, <1>6, <1>7, CopyTeamFacts
<1>9. /\ pc' \in [Threads -> Stages] /\ pc'[t] = "remove_update_team"
      /\ \A u \in Threads : u # t => pc'[u] = pc[u]
  BY <1>1, <1>4, GotoFacts DEF Stages
<1>10. calls' \in 0 .. MaxCalls BY <1>1, CallFacts DEF RemoveGetTeam
<1>11. /\ key_id' \in [Threads -> Keys \cup {NoTeam}] /\ key_id'[t] = k
       /\ \A u \in Threads : u # t => key_id'[u] = key_id[u]
  BY <1>1, <1>3, <1>5 DEF Typing
<1>12. Typing'
  BY <1>1, <1>4, <1>8, <1>9, <1>10, <1>11
  DEF Typing, KeysTyped, TeamsTyped, CopiesTyped, store
<1>13. Step(t)'
  BY <1>4, <1>5, <1>6, <1>8, <1>9, <1>11 DEF Step, store, Copying
<1>14. Steps'
  BY <1>1, <1>4, <1>8, <1>9, <1>11, <1>13, Frame DEF store, Steps
<1> QED BY <1>12, <1>14, TypingIsType, PTL DEF Inductive

LEMMA RemoveGetKeySteps ==
  ASSUME Inductive, NEW t \in Threads, RemoveGetKey(t) PROVE Inductive'
<1> DEFINE k == key_id[t]
           cleared == [keys[k] EXCEPT !.team_id = NoTeam]
<1>1. TypeOK /\ Typing /\ Steps BY TypingIsType DEF Inductive
<1>2. /\ pc[t] = "remove_get_key" /\ Copy(t, k, cleared)
      /\ UNCHANGED <<store, world, calls, team_id, team_copy>>
      /\ Goto(t, "remove_update_key")
  BY DEF RemoveGetKey
<1>3. k \in DOMAIN keys /\ keys[k] \in VirtualKey /\ NoTeam \in TeamIds
  BY <1>1, <1>2 DEF Steps, Step, OneKey, Stages, TypeOK, TeamIds
<1>4. cleared \in VirtualKey BY <1>1, <1>3, ChangedKey
<1>5. UNCHANGED keys BY <1>2 DEF store
<1> HIDE DEF cleared
<1>6. /\ CopiesTyped' /\ key_id' \in [Threads -> Keys \cup {NoTeam}]
      /\ key_id'[t] = k /\ DOMAIN copies'[t] = {k}
      /\ \A u \in Threads : u # t => /\ key_id'[u] = key_id[u]
                                     /\ copies'[u] = copies[u]
  BY <1>1, <1>2, <1>3, <1>4, <1>5, CopyFacts
<1>7. /\ pc' \in [Threads -> Stages] /\ pc'[t] = "remove_update_key"
      /\ \A u \in Threads : u # t => pc'[u] = pc[u]
  BY <1>1, <1>2, GotoFacts DEF Stages
<1>8. Typing' BY <1>1, <1>2, <1>6, <1>7 DEF Typing, KeysTyped, TeamsTyped, store
<1>9. Step(t)'
  BY <1>1, <1>2, <1>3, <1>6, <1>7 DEF Steps, Step, store, TeamRead
<1>10. Steps'
  BY <1>1, <1>2, <1>6, <1>7, <1>9, Frame DEF store, Steps
<1> QED BY <1>8, <1>10, TypingIsType, PTL DEF Inductive

LEMMA TeamOpsSteps ==
  ASSUME Inductive, NEW t \in Threads, TeamOps(t) PROVE Inductive'
<1>1. CASE CreateTeam(t) BY <1>1, CreateTeamSteps
<1>2. CASE AddGetKey(t) BY <1>2, AddGetKeySteps
<1>3. CASE AddGetTeam(t) BY <1>3, AddGetTeamSteps
<1>4. CASE AddUpdateTeam(t)
  <2>1. "add_update_key" \in OneKey \ TeamRead BY DEF OneKey, TeamRead, Stages
  <2>2. pc[t] \in TeamRead /\ pc[t] \in Copying
    BY <1>4 DEF AddUpdateTeam, TeamRead, Copying
  <2> QED BY <1>4, <2>1, <2>2, TeamWrite DEF AddUpdateTeam
<1>5. CASE AddUpdateKey(t)
  BY <1>5, LastWrite DEF AddUpdateKey, Copying
<1>6. CASE RemoveGetTeam(t) BY <1>6, RemoveGetTeamSteps
<1>7. CASE RemoveUpdateTeam(t)
  <2>1. /\ "remove_get_key" \in OneKey \ TeamRead
        /\ "remove_get_key" \notin Copying
    BY DEF OneKey, TeamRead, Stages, Copying
  <2>2. pc[t] \in TeamRead BY <1>7 DEF RemoveUpdateTeam, TeamRead
  <2> QED BY <1>7, <2>1, <2>2, TeamWrite DEF RemoveUpdateTeam
<1>8. CASE RemoveGetKey(t) BY <1>8, RemoveGetKeySteps
<1>9. CASE RemoveUpdateKey(t)
  BY <1>9, LastWrite DEF RemoveUpdateKey, Copying
<1> QED
  BY <1>1, <1>2, <1>3, <1>4, <1>5, <1>6, <1>7, <1>8, <1>9 DEF TeamOps

----------------------------------------------------------------------------
(* budget.rs                                                               *)

LEMMA RecordGetKeySteps ==
  ASSUME Inductive, NEW t \in Threads, RecordGetKey(t) PROVE Inductive'
<1>1. TypeOK /\ Typing /\ Steps BY TypingIsType DEF Inductive
<1>2. PICK k \in DOMAIN keys :
        /\ Copy(t, k, Charged(keys[k]))
        /\ team_id' = [team_id EXCEPT ![t] = keys[k].team_id]
  BY DEF RecordGetKey
<1>3. UNCHANGED <<store, world, team_copy>> /\ Goto(t, "record_update_key")
  BY DEF RecordGetKey
<1>4. keys[k] \in VirtualKey BY <1>1 DEF TypeOK
<1>5. Charged(keys[k]) \in VirtualKey /\ keys[k].team_id \in TeamIds
  BY <1>1, <1>4, ChangedKey DEF VirtualKey
<1>6. UNCHANGED keys BY <1>3 DEF store
<1>7. /\ CopiesTyped' /\ key_id' \in [Threads -> Keys \cup {NoTeam}]
      /\ key_id'[t] = k /\ DOMAIN copies'[t] = {k}
      /\ \A u \in Threads : u # t => /\ key_id'[u] = key_id[u]
                                     /\ copies'[u] = copies[u]
  BY <1>1, <1>2, <1>5, <1>6, CopyFacts
<1>8. /\ pc' \in [Threads -> Stages] /\ pc'[t] = "record_update_key"
      /\ \A u \in Threads : u # t => pc'[u] = pc[u]
  BY <1>1, <1>3, GotoFacts DEF Stages
<1>9. calls' \in 0 .. MaxCalls BY <1>1, CallFacts DEF RecordGetKey
<1>10. /\ team_id' \in [Threads -> TeamIds]
       /\ \A u \in Threads : u # t => team_id'[u] = team_id[u]
  BY <1>1, <1>2, <1>5 DEF Typing
<1>11. Typing'
  BY <1>1, <1>3, <1>7, <1>8, <1>9, <1>10
  DEF Typing, KeysTyped, TeamsTyped, store
<1>12. Step(t)'
  BY <1>1, <1>3, <1>7, <1>8 DEF Steps, Step, store, TeamRead
<1>13. Steps'
  BY <1>1, <1>3, <1>7, <1>8, <1>10, <1>12, Frame DEF store, Steps
<1> QED BY <1>11, <1>13, TypingIsType, PTL DEF Inductive

LEMMA RecordUpdateKeySteps ==
  ASSUME Inductive, NEW t \in Threads, RecordUpdateKey(t) PROVE Inductive'
<1>1. TypeOK /\ Typing /\ Steps BY TypingIsType DEF Inductive
<1>2. PICK stage \in {"record_spend", "record_get_team"} : Goto(t, stage)
  BY DEF RecordUpdateKey
<1>3. /\ pc[t] = "record_update_key" /\ UpdateKey(t, key_id[t])
      /\ UNCHANGED <<teams, spend_logs, world, calls, key_id, team_id, team_copy>>
  BY DEF RecordUpdateKey
<1>4. key_id[t] \in DOMAIN copies[t] /\ key_id[t] \in DOMAIN keys
  BY <1>1, <1>3 DEF Steps, Step, Copying, OneKey, Stages
<1>5. /\ KeysTyped' /\ CopiesTyped' /\ DOMAIN keys' = DOMAIN keys
      /\ \A u \in Threads : u # t => copies'[u] = copies[u]
  BY <1>1, <1>3, <1>4, UpdateKeyFacts
<1>6. stage \in Stages /\ stage \notin Copying /\ stage \notin TeamRead
  BY DEF Stages, Copying, TeamRead
<1>7. /\ pc' \in [Threads -> Stages] /\ pc'[t] = stage
      /\ \A u \in Threads : u # t => pc'[u] = pc[u]
  BY <1>1, <1>2, <1>6, GotoFacts
<1>8. Typing' BY <1>1, <1>3, <1>5, <1>7 DEF Typing, TeamsTyped
<1>9. Step(t)' BY <1>1, <1>3, <1>4, <1>5, <1>6, <1>7 DEF Steps, Step
<1>10. Steps' BY <1>1, <1>3, <1>5, <1>7, <1>9, Frame DEF Steps
<1> QED BY <1>8, <1>10, TypingIsType, PTL DEF Inductive

LEMMA RecordGetTeamSteps ==
  ASSUME Inductive, NEW t \in Threads, RecordGetTeam(t) PROVE Inductive'
<1>1. TypeOK /\ Typing /\ Steps BY TypingIsType DEF Inductive
<1>2. /\ pc[t] = "record_get_team"
      /\ UNCHANGED <<store, world, calls, key_id, copies>>
  BY DEF RecordGetTeam
<1>3. key_id[t] \in DOMAIN keys BY <1>1, <1>2 DEF Steps, Step, OneKey, Stages
<1>4. CASE team_id[t] \in DOMAIN teams
  <2> DEFINE m == team_id[t]
             charged == [teams[m] EXCEPT !.spent = @ + 1]
  <2>1. CopyTeam(t, m, charged) /\ Goto(t, "record_update_team")
    BY <1>4 DEF RecordGetTeam
  <2>2. teams[m] \in Team BY <1>1, <1>4 DEF TypeOK
  <2>3. charged \in Team /\ charged.members = teams[m].members
    BY <2>2 DEF Team
  <2>4. charged.members \subseteq DOMAIN keys BY <1>1, <1>4, <2>3 DEF Steps
  <2> HIDE DEF charged
  <2>5. /\ team_id' \in [Threads -> TeamIds] /\ team_copy' \in [Threads -> Team]
        /\ team_id'[t] = m /\ team_copy'[t] = charged
        /\ \A u \in Threads : u # t => /\ team_id'[u] = team_id[u]
                                       /\ team_copy'[u] = team_copy[u]
    BY <1>1, <1>4, <2>1, <2>3, CopyTeamFacts
  <2>6. /\ pc' \in [Threads -> Stages] /\ pc'[t] = "record_update_team"
        /\ \A u \in Threads : u # t => pc'[u] = pc[u]
    BY <1>1, <2>1, GotoFacts DEF Stages
  <2>7. Typing'
    BY <1>1, <1>2, <2>5, <2>6
    DEF Typing, KeysTyped, TeamsTyped, CopiesTyped, store
  <2>8. Step(t)'
    BY <1>2, <1>3, <1>4, <2>4, <2>5, <2>6 DEF Step, store, Copying
  <2>9. Steps'
    BY <1>1, <1>2, <2>5, <2>6, <2>8, Frame DEF store, Steps
  <2> QED BY <2>7, <2>9, TypingIsType, PTL DEF Inductive
<1>5. CASE team_id[t] \notin DOMAIN teams
  <2>1. Goto(t, "record_spend") /\ UNCHANGED <<team_id, team_copy>>
    BY <1>5 DEF RecordGetTeam
  <2>2. /\ pc' \in [Threads -> Stages] /\ pc'[t] = "record_spend"
        /\ \A u \in Threads : u # t => pc'[u] = pc[u]
    BY <1>1, <2>1, GotoFacts DEF Stages
  <2>3. Typing'
    BY <1>1, <1>2, <2>1, <2>2
    DEF Typing, KeysTyped, TeamsTyped, CopiesTyped, store
  <2>4. Step(t)'
    BY <1>1, <1>2, <1>3, <2>1, <2>2 DEF Steps, Step, store, Copying, TeamRead
  <2>5. Steps'
    BY <1>1, <1>2, <2>1, <2>2, <2>4, Frame DEF store, Steps
  <2> QED BY <2>3, <2>5, TypingIsType, PTL DEF Inductive
<1> QED BY <1>4, <1>5

LEMMA RecordSpendSteps ==
  ASSUME Inductive, NEW t \in Threads, RecordSpend(t) PROVE Inductive'
<1>1. TypeOK /\ Typing /\ Steps BY TypingIsType DEF Inductive
<1>2. /\ pc[t] = "record_spend" /\ Goto(t, "idle")
      /\ spend_logs' = Append(spend_logs,
           [key_id |-> key_id[t], team_id |-> team_id[t]])
      /\ UNCHANGED <<keys, teams, world, calls, key_id, team_id, copies, team_copy>>
  BY DEF RecordSpend
<1>3. key_id[t] \in DOMAIN keys BY <1>1, <1>2 DEF Steps, Step, OneKey, Stages
<1>4. [key_id |-> key_id[t], team_id |-> team_id[t]] \in SpendRecord
  BY <1>1, <1>3 DEF Typing, KeysTyped, SpendRecord
<1>5. spend_logs' \in Seq(SpendRecord) BY <1>1, <1>2, <1>4 DEF Typing
<1>6. /\ pc' \in [Threads -> Stages] /\ pc'[t] = "idle"
      /\ \A u \in Threads : u # t => pc'[u] = pc[u]
  BY <1>1, <1>2, GotoFacts DEF Stages
<1>7. Typing'
  BY <1>1, <1>2, <1>5, <1>6 DEF Typing, KeysTyped, TeamsTyped, CopiesTyped
<1>8. Step(t)'
  BY <1>1, <1>2, <1>6 DEF Steps, Step, OneKey, Copying, TeamRead
<1>9. Steps' BY <1>1, <1>2, <1>6, <1>8, Frame DEF Steps
<1> QED BY <1>7, <1>9, TypingIsType, PTL DEF Inductive

LEMMA ResetListKeysSteps ==
  ASSUME Inductive, NEW t \in Threads, ResetListKeys(t) PROVE Inductive'
<1> DEFINE expired == {k \in DOMAIN keys :
                         keys[k].windowed /\ now >= keys[k].reset_at}
           renewed == [k \in expired |-> Renewed(keys[k])]
<1>1. TypeOK /\ Typing /\ Steps BY TypingIsType DEF Inductive
<1>2. /\ copies' = [copies EXCEPT ![t] = renewed]
      /\ UNCHANGED <<store, world, key_id, team_id, team_copy>>
      /\ Goto(t, "reset_update")
  BY DEF ResetListKeys
<1>3. \A k \in expired : Renewed(keys[k]) \in VirtualKey
  BY <1>1, ChangedKey DEF TypeOK
<1>4. DOMAIN renewed \subseteq DOMAIN keys
      /\ renewed \in [DOMAIN renewed -> VirtualKey]
  BY <1>3
<1> HIDE DEF renewed
<1>5. /\ DOMAIN copies' = Threads /\ copies'[t] = renewed
      /\ \A u \in Threads : u # t => copies'[u] = copies[u]
  BY <1>1, <1>2 DEF TypeOK
<1>6. CopiesTyped'
  <2> SUFFICES ASSUME NEW u \in Threads
               PROVE  /\ DOMAIN copies'[u] \subseteq DOMAIN keys'
                      /\ copies'[u] \in [DOMAIN copies'[u] -> VirtualKey]
    BY <1>5 DEF CopiesTyped
  <2>1. CASE u = t BY <1>2, <1>4, <1>5, <2>1 DEF store
  <2>2. CASE u # t BY <1>1, <1>2, <1>5, <2>2 DEF Typing, CopiesTyped, store
  <2> QED BY <2>1, <2>2
<1>7. /\ pc' \in [Threads -> Stages] /\ pc'[t] = "reset_update"
      /\ \A u \in Threads : u # t => pc'[u] = pc[u]
  BY <1>1, <1>2, GotoFacts DEF Stages
<1>8. calls' \in 0 .. MaxCalls BY <1>1, CallFacts DEF ResetListKeys
<1>9. Typing'
  BY <1>1, <1>2, <1>6, <1>7, <1>8 DEF Typing, KeysTyped, TeamsTyped, store
<1>10. Step(t)'
  BY <1>1, <1>2, <1>7 DEF Steps, Step, OneKey, Copying, TeamRead, store
<1>11. Steps'
  BY <1>1, <1>2, <1>5, <1>7, <1>10, Frame DEF store, Steps
<1> QED BY <1>9, <1>11, TypingIsType, PTL DEF Inductive

LEMMA ResetUpdateKeySteps ==
  ASSUME Inductive, NEW t \in Threads, ResetUpdateKey(t) PROVE Inductive'
<1>1. TypeOK /\ Typing /\ Steps BY TypingIsType DEF Inductive
<1>2. PICK k \in DOMAIN copies[t] :
        /\ UpdateKey(t, k)
        /\ Goto(t, IF DOMAIN copies[t] = {k} THEN "idle" ELSE "reset_update")
  BY DEF ResetUpdateKey
<1>3. PICK stage \in {"idle", "reset_update"} : Goto(t, stage) BY <1>2
<1>4. UNCHANGED <<teams, spend_logs, world, calls, key_id, team_id, team_copy>>
  BY DEF ResetUpdateKey
<1>5. /\ KeysTyped' /\ CopiesTyped' /\ DOMAIN keys' = DOMAIN keys
      /\ \A u \in Threads : u # t => copies'[u] = copies[u]
  BY <1>1, <1>2, UpdateKeyFacts
<1>6. /\ stage \in Stages /\ stage \notin OneKey
      /\ stage \notin Copying /\ stage \notin TeamRead
  BY DEF Stages, OneKey, Copying, TeamRead
<1>7. /\ pc' \in [Threads -> Stages] /\ pc'[t] = stage
      /\ \A u \in Threads : u # t => pc'[u] = pc[u]
  BY <1>1, <1>3, <1>6, GotoFacts
<1>8. Typing' BY <1>1, <1>4, <1>5, <1>7 DEF Typing, TeamsTyped
<1>9. Step(t)' BY <1>1, <1>4, <1>5, <1>6, <1>7 DEF Steps, Step
<1>10. Steps' BY <1>1, <1>4, <1>5, <1>7, <1>9, Frame DEF Steps
<1> QED BY <1>8, <1>10, TypingIsType, PTL DEF Inductive

LEMMA BudgetOpsSteps ==
  ASSUME Inductive, NEW t \in Threads, BudgetOps(t) PROVE Inductive'
<1>1. CASE RecordGetKey(t) BY <1>1, RecordGetKeySteps
<1>2. CASE RecordUpdateKey(t) BY <1>2, RecordUpdateKeySteps
<1>3. CASE RecordGetTeam(t) BY <1>3, RecordGetTeamSteps
<1>4. CASE RecordUpdateTeam(t)
  <2>1. "record_spend" \in OneKey \ TeamRead /\ "record_spend" \notin Copying
    BY DEF OneKey, TeamRead, Stages, Copying
  <2>2. pc[t] \in TeamRead BY <1>4 DEF RecordUpdateTeam, TeamRead
  <2> QED BY <1>4, <2>1, <2>2, TeamWrite DEF RecordUpdateTeam
<1>5. CASE RecordSpend(t) BY <1>5, RecordSpendSteps
<1>6. CASE ResetListKeys(t) BY <1>6, ResetListKeysSteps
<1>7. CASE ResetUpdateKey(t) BY <1>7, ResetUpdateKeySteps
<1> QED BY <1>1, <1>2, <1>3, <1>4, <1>5, <1>6, <1>7 DEF BudgetOps

\* The error leaves the store alone and the thread with nothing to write.
LEMMA StoreErrorSteps ==
  ASSUME Inductive, NEW t \in Threads, StoreError(t) PROVE Inductive'
<1>1. TypeOK /\ Typing /\ Steps BY TypingIsType DEF Inductive
<1>2. /\ Goto(t, "idle") /\ copies' = [copies EXCEPT ![t] = NoCopies]
      /\ failed' = TRUE
      /\ UNCHANGED <<store, now, calls, key_id, team_id, team_copy>>
  BY DEF StoreError
<1>3. /\ pc' \in [Threads -> Stages] /\ pc'[t] = "idle"
      /\ \A u \in Threads : u # t => pc'[u] = pc[u]
  BY <1>1, <1>2, GotoFacts DEF Stages
<1>4. DOMAIN NoCopies = {} /\ NoCopies \in [{} -> VirtualKey] BY DEF NoCopies
<1>5. /\ DOMAIN copies' = Threads /\ copies'[t] = NoCopies
      /\ \A u \in Threads : u # t => copies'[u] = copies[u]
  BY <1>1, <1>2 DEF TypeOK
<1>6. CopiesTyped'
  <2> SUFFICES ASSUME NEW u \in Threads
               PROVE  /\ DOMAIN copies'[u] \subseteq DOMAIN keys'
                      /\ copies'[u] \in [DOMAIN copies'[u] -> VirtualKey]
    BY <1>5 DEF CopiesTyped
  <2>1. CASE u = t BY <1>4, <1>5, <2>1
  <2>2. CASE u # t BY <1>1, <1>2, <1>5, <2>2 DEF Typing, CopiesTyped, store
  <2> QED BY <2>1, <2>2
<1>7. Typing'
  BY <1>1, <1>2, <1>3, <1>6 DEF Typing, KeysTyped, TeamsTyped, store
<1>8. Step(t)'
  BY <1>1, <1>2, <1>3 DEF Steps, Step, OneKey, Copying, TeamRead, store
<1>9. Steps' BY <1>1, <1>2, <1>3, <1>5, <1>8, Frame DEF store, Steps
<1> QED BY <1>7, <1>9, TypingIsType, PTL DEF Inductive

----------------------------------------------------------------------------
(* The theorems                                                            *)

LEMMA InductiveInit == Init => Inductive
<1> SUFFICES ASSUME Init PROVE Inductive OBVIOUS
<1>1. EmptyTeam \in Team /\ EmptyTeam.members = {} BY DEF EmptyTeam, Team
<1>2. NoTeam \in TeamIds /\ "idle" \in Stages BY DEF TeamIds, Stages
<1>3. DOMAIN NoCopies = {} /\ NoCopies \in [{} -> VirtualKey] BY DEF NoCopies
<1>4. KeysTyped /\ TeamsTyped /\ CopiesTyped
  BY <1>3 DEF Init, KeysTyped, TeamsTyped, CopiesTyped
<1>7. failed \in BOOLEAN BY DEF Init
<1>8. now \in 0 .. MaxTime /\ calls \in 0 .. MaxCalls
  BY AdminBounds DEF Init
<1>5. Typing BY <1>1, <1>2, <1>4, <1>7, <1>8 DEF Init, Typing
<1>6. Steps BY <1>1 DEF Init, Steps, Step, OneKey, Copying, TeamRead
<1> QED BY <1>5, <1>6, TypingIsType DEF Inductive

LEMMA InductiveStep == Inductive /\ [Next]_vars => Inductive'
<1> SUFFICES ASSUME Inductive, [Next]_vars PROVE Inductive' OBVIOUS
<1>1. CASE UNCHANGED vars
  BY <1>1 DEF Inductive, TypeOK, Steps, Step, vars, store, locals
<1>2. CASE \E t \in Threads :
             KeyOps(t) \/ TeamOps(t) \/ BudgetOps(t) \/ StoreError(t)
  BY <1>2, KeyOpsSteps, TeamOpsSteps, BudgetOpsSteps, StoreErrorSteps
<1>3. CASE DayPasses
  <2>1. now' \in 0 .. MaxTime
    BY <1>3, AdminBounds DEF DayPasses, Inductive, TypeOK
  <2> QED BY <1>3, <2>1
      DEF DayPasses, Inductive, TypeOK, Steps, Step, store, locals
<1>4. CASE Finished BY <1>1, <1>4 DEF Finished
<1> QED BY <1>1, <1>2, <1>3, <1>4 DEF Next

LEMMA InductiveAlways == Spec => []Inductive
BY InductiveInit, InductiveStep, PTL DEF Spec

\* Every record the operations read, hold and write is well formed, and no
\* operation reads a key or a team that is not there.
THEOREM AdminTypeCorrect == Spec => []TypeOK
<1>1. Inductive => TypeOK BY DEF Inductive
<1> QED BY <1>1, InductiveAlways, PTL

----------------------------------------------------------------------------
(* Dead keys stay dead: a step that writes takes the record from a copy,   *)
(* and a step that copies takes the record from the store.                 *)

LEMMA DeadUnchanged ==
  ASSUME NEW k \in Keys, Dead(k), UNCHANGED <<keys, copies>> PROVE Dead(k)'
BY DEF Dead, HoldsActiveCopy

LEMMA DeadWrite ==
  ASSUME TypeOK, NEW k \in Keys, Dead(k),
         NEW t \in Threads, NEW j \in DOMAIN copies[t], UpdateKey(t, j)
  PROVE  Dead(k)'
<1>1. /\ DOMAIN keys' = DOMAIN keys
      /\ keys'[j] = copies[t][j]
      /\ \A i \in DOMAIN keys : i # j => keys'[i] = keys[i]
      /\ DOMAIN copies'[t] = DOMAIN copies[t] \ {j}
      /\ \A i \in DOMAIN copies'[t] : copies'[t][i] = copies[t][i]
      /\ \A u \in Threads : u # t => copies'[u] = copies[u]
  BY UpdateKeyFacts
<1>2. ~keys'[k].is_active BY <1>1 DEF Dead, HoldsActiveCopy
<1>3. ASSUME NEW u \in Threads PROVE ~HoldsActiveCopy(u, k)'
  BY <1>1 DEF Dead, HoldsActiveCopy
<1> QED BY <1>1, <1>2, <1>3 DEF Dead

LEMMA DeadCopy ==
  ASSUME TypeOK, NEW k \in Keys, Dead(k),
         NEW t \in Threads, NEW j \in DOMAIN keys, NEW changed \in VirtualKey,
         changed.is_active => keys[j].is_active,
         Copy(t, j, changed), UNCHANGED keys
  PROVE  Dead(k)'
<1>1. /\ DOMAIN copies'[t] = {j} /\ copies'[t][j] = changed
      /\ \A u \in Threads : u # t => copies'[u] = copies[u]
  BY CopyFacts
<1>2. ASSUME NEW u \in Threads PROVE ~HoldsActiveCopy(u, k)'
  BY <1>1 DEF Dead, HoldsActiveCopy
<1> QED BY <1>2 DEF Dead

LEMMA DeadKeyOps ==
  ASSUME Inductive, NEW k \in Keys, Dead(k), NEW t \in Threads, KeyOps(t)
  PROVE  Dead(k)'
<1>1. TypeOK /\ Steps BY DEF Inductive
<1>2. CASE GenerateKey(t)
  <2>1. PICK j \in Keys \ DOMAIN keys, windowed \in BOOLEAN,
             team \in DOMAIN teams \cup {NoTeam, Unknown} :
          keys' = With(keys, j, NewKey(team, windowed))
    BY <1>2 DEF GenerateKey
  <2>2. UNCHANGED copies BY <1>2 DEF GenerateKey, locals
  <2> QED BY <2>1, <2>2 DEF Dead, HoldsActiveCopy, With
<1>3. CASE RevokeGetKey(t)
  <2>1. PICK j \in DOMAIN keys :
          Copy(t, j, [keys[j] EXCEPT !.is_active = FALSE])
    BY <1>3 DEF RevokeGetKey
  <2>2. keys[j] \in VirtualKey BY <1>1 DEF TypeOK
  <2>3. /\ [keys[j] EXCEPT !.is_active = FALSE] \in VirtualKey
        /\ ~[keys[j] EXCEPT !.is_active = FALSE].is_active
    BY <2>2 DEF VirtualKey
  <2>4. UNCHANGED keys BY <1>3 DEF RevokeGetKey, store
  <2> QED BY <1>1, <2>1, <2>3, <2>4, DeadCopy
<1>4. CASE RevokeUpdateKey(t)
  <2>1. key_id[t] \in DOMAIN copies[t] /\ UpdateKey(t, key_id[t])
    BY <1>1, <1>4 DEF RevokeUpdateKey, Steps, Step, Copying
  <2> QED BY <1>1, <2>1, DeadWrite
<1> QED BY <1>2, <1>3, <1>4 DEF KeyOps

LEMMA DeadTeamOps ==
  ASSUME Inductive, NEW k \in Keys, Dead(k), NEW t \in Threads, TeamOps(t)
  PROVE  Dead(k)'
<1>1. TypeOK /\ Steps BY DEF Inductive
<1>2. CASE AddGetKey(t)
  <2>1. PICK j \in DOMAIN keys, m \in DOMAIN teams :
          Copy(t, j, [keys[j] EXCEPT !.team_id = m])
    BY <1>2 DEF AddGetKey
  <2>2. keys[j] \in VirtualKey /\ m \in TeamIds BY <1>1 DEF TypeOK, TeamIds
  <2>3. /\ [keys[j] EXCEPT !.team_id = m] \in VirtualKey
        /\ [keys[j] EXCEPT !.team_id = m].is_active = keys[j].is_active
    BY <2>2 DEF VirtualKey
  <2>4. UNCHANGED keys BY <1>2 DEF AddGetKey, store
  <2> QED BY <1>1, <2>1, <2>3, <2>4, DeadCopy
<1>3. CASE AddGetTeam(t)
  <2>1. UNCHANGED keys BY <1>3 DEF AddGetTeam, store
  <2>2. copies' = copies \/ copies' = [copies EXCEPT ![t] = NoCopies]
    BY <1>3 DEF AddGetTeam
  <2>3. DOMAIN copies = Threads BY <1>1 DEF TypeOK
  <2>4. DOMAIN NoCopies = {} BY DEF NoCopies
  <2>5. ASSUME NEW u \in Threads PROVE ~HoldsActiveCopy(u, k)'
    BY <2>2, <2>3, <2>4 DEF Dead, HoldsActiveCopy
  <2> QED BY <2>1, <2>5 DEF Dead
<1>4. CASE AddUpdateKey(t) \/ RemoveUpdateKey(t)
  <2>1. key_id[t] \in DOMAIN copies[t] /\ UpdateKey(t, key_id[t])
    BY <1>1, <1>4 DEF AddUpdateKey, RemoveUpdateKey, Steps, Step, Copying
  <2> QED BY <1>1, <2>1, DeadWrite
<1>5. CASE RemoveGetKey(t)
  <2> DEFINE j == key_id[t]
  <2>1. /\ Copy(t, j, [keys[j] EXCEPT !.team_id = NoTeam])
        /\ pc[t] = "remove_get_key" /\ UNCHANGED keys
    BY <1>5 DEF RemoveGetKey, store
  <2>2. j \in DOMAIN keys
    BY <1>1, <2>1 DEF Steps, Step, OneKey, Stages
  <2>3. keys[j] \in VirtualKey BY <1>1, <2>2 DEF TypeOK
  <2>4. /\ [keys[j] EXCEPT !.team_id = NoTeam] \in VirtualKey
        /\ [keys[j] EXCEPT !.team_id = NoTeam].is_active = keys[j].is_active
    BY <2>3 DEF VirtualKey, TeamIds
  <2> QED BY <1>1, <2>1, <2>2, <2>4, DeadCopy
<1>6. CASE CreateTeam(t) \/ AddUpdateTeam(t) \/ RemoveGetTeam(t)
             \/ RemoveUpdateTeam(t)
  BY <1>6, DeadUnchanged
  DEF CreateTeam, AddUpdateTeam, RemoveGetTeam, RemoveUpdateTeam, store, locals
<1> QED BY <1>2, <1>3, <1>4, <1>5, <1>6 DEF TeamOps

LEMMA DeadBudgetOps ==
  ASSUME Inductive, NEW k \in Keys, Dead(k), NEW t \in Threads, BudgetOps(t)
  PROVE  Dead(k)'
<1>1. TypeOK /\ Steps BY DEF Inductive
<1>2. CASE RecordGetKey(t)
  <2>1. PICK j \in DOMAIN keys : Copy(t, j, Charged(keys[j]))
    BY <1>2 DEF RecordGetKey
  <2>2. keys[j] \in VirtualKey BY <1>1 DEF TypeOK
  <2>3. /\ Charged(keys[j]) \in VirtualKey
        /\ Charged(keys[j]).is_active = keys[j].is_active
    BY <1>1, <2>2, ChangedKey
  <2>4. UNCHANGED keys BY <1>2 DEF RecordGetKey, store
  <2> QED BY <1>1, <2>1, <2>3, <2>4, DeadCopy
<1>3. CASE RecordUpdateKey(t)
  <2>1. key_id[t] \in DOMAIN copies[t] /\ UpdateKey(t, key_id[t])
    BY <1>1, <1>3 DEF RecordUpdateKey, Steps, Step, Copying
  <2> QED BY <1>1, <2>1, DeadWrite
<1>4. CASE ResetListKeys(t)
  <2> DEFINE expired == {j \in DOMAIN keys :
                           keys[j].windowed /\ now >= keys[j].reset_at}
  <2>1. /\ copies' = [copies EXCEPT ![t] = [j \in expired |-> Renewed(keys[j])]]
        /\ UNCHANGED keys
    BY <1>4 DEF ResetListKeys, store
  <2>2. DOMAIN copies = Threads BY <1>1 DEF TypeOK
  <2>3. keys[k] \in VirtualKey /\ Renewed(keys[k]).is_active = keys[k].is_active
    BY <1>1, ChangedKey DEF TypeOK, Dead
  <2>4. ASSUME NEW u \in Threads PROVE ~HoldsActiveCopy(u, k)'
    BY <2>1, <2>2, <2>3 DEF Dead, HoldsActiveCopy
  <2> QED BY <2>1, <2>4 DEF Dead
<1>5. CASE ResetUpdateKey(t)
  <2>1. PICK j \in DOMAIN copies[t] : UpdateKey(t, j)
    BY <1>5 DEF ResetUpdateKey
  <2> QED BY <1>1, <2>1, DeadWrite
<1>6. CASE RecordGetTeam(t) \/ RecordUpdateTeam(t) \/ RecordSpend(t)
  BY <1>6, DeadUnchanged DEF RecordGetTeam, RecordUpdateTeam, RecordSpend, store
<1> QED BY <1>2, <1>3, <1>4, <1>5, <1>6 DEF BudgetOps

LEMMA DeadStep ==
  ASSUME Inductive, [Next]_vars
  PROVE  [\A k \in Keys : Dead(k) => Dead(k)']_vars
<1> SUFFICES ASSUME NEW k \in Keys, Dead(k) PROVE Dead(k)' OBVIOUS
<1>1. CASE UNCHANGED vars
  BY <1>1, DeadUnchanged DEF vars, store, locals
<1>2. CASE \E t \in Threads : KeyOps(t) \/ TeamOps(t) \/ BudgetOps(t)
  BY <1>2, DeadKeyOps, DeadTeamOps, DeadBudgetOps
<1>5. CASE \E t \in Threads : StoreError(t)
  <2>1. PICK t \in Threads : StoreError(t) BY <1>5
  <2>2. UNCHANGED keys /\ copies' = [copies EXCEPT ![t] = NoCopies]
    BY <2>1 DEF StoreError, store
  <2>3. DOMAIN copies = Threads /\ DOMAIN NoCopies = {}
    BY DEF Inductive, TypeOK, NoCopies
  <2>4. ASSUME NEW u \in Threads PROVE ~HoldsActiveCopy(u, k)'
    BY <2>2, <2>3 DEF Dead, HoldsActiveCopy
  <2> QED BY <2>2, <2>4 DEF Dead
<1>3. CASE DayPasses BY <1>3, DeadUnchanged DEF DayPasses, store, locals
<1>4. CASE Finished BY <1>1, <1>4 DEF Finished
<1> QED BY <1>1, <1>2, <1>3, <1>4, <1>5 DEF Next

\* A key that is revoked, and that no overlapping operation read before it was,
\* is never active again.
THEOREM RevocationCorrect == Spec => RevocationIsFinal
<1>1. Inductive /\ [Next]_vars => [\A k \in Keys : Dead(k) => Dead(k)']_vars
  BY DeadStep
<1> QED BY <1>1, InductiveAlways, PTL DEF Spec, RevocationIsFinal

----------------------------------------------------------------------------
(***************************************************************************)
(* NeverOverbilled for any number of threads, keys, teams and calls, when  *)
(* no store call fails.                                                    *)
(*                                                                         *)
(* Billed(k) is the right-hand side of the property: usages in the log, or *)
(* written to the key and about to be logged.  It never decreases, and it  *)
(* grows exactly when record_usage writes the key.  Every copy of the key  *)
(* is bounded by it as the key is, with one more for a record_usage that   *)
(* has counted its request on its copy and not written it (Slack).         *)
(***************************************************************************)

Billed(k) == Cardinality(Logged(k)) + Cardinality(Charging(k))

Slack(t) == IF pc[t] = "record_update_key" THEN 1 ELSE 0

Billing ==
  /\ \A k \in DOMAIN keys : keys[k].total <= Billed(k)
  /\ \A t \in Threads : \A k \in DOMAIN copies[t] :
       copies[t][k].total <= Billed(k) + Slack(t)
  /\ \A t \in Threads : pc[t] = "record_update_key" =>
       DOMAIN copies[t] \subseteq {key_id[t]}

Charges == {"record_get_team", "record_update_team", "record_spend"}

LEMMA BilledNat ==
  ASSUME TypeOK, NEW k
  PROVE  /\ IsFiniteSet(Logged(k)) /\ IsFiniteSet(Charging(k))
         /\ Cardinality(Logged(k)) \in Nat /\ Cardinality(Charging(k)) \in Nat
         /\ Billed(k) \in Nat
<1>1. Charging(k) \subseteq Threads BY DEF Charging
<1>2. IsFiniteSet(Charging(k)) BY <1>1, ThreadsAssumption, FS_Subset
<1>3. spend_logs \in Seq(SpendRecord) BY DEF TypeOK
<1>4. DOMAIN spend_logs = 1 .. Len(spend_logs) /\ Len(spend_logs) \in Nat
  BY <1>3
<1>5. IsFiniteSet(1 .. Len(spend_logs)) BY <1>4, FS_Interval
<1>6. Logged(k) \subseteq 1 .. Len(spend_logs) BY <1>4 DEF Logged
<1>7. IsFiniteSet(Logged(k)) BY <1>5, <1>6, FS_Subset
<1>8. Cardinality(Logged(k)) \in Nat /\ Cardinality(Charging(k)) \in Nat
  BY <1>2, <1>7, FS_CardinalityType
<1> QED BY <1>2, <1>7, <1>8 DEF Billed

\* A step that is not the key write or the log write of record_usage.
LEMMA BilledSame ==
  ASSUME NEW t \in Threads, UNCHANGED spend_logs,
         \A u \in Threads : u # t => pc'[u] = pc[u] /\ key_id'[u] = key_id[u],
         \/ pc[t] \notin Charges /\ pc'[t] \notin Charges
         \/ pc[t] \in Charges /\ pc'[t] \in Charges /\ key_id'[t] = key_id[t]
  PROVE  \A k : Billed(k)' = Billed(k)
<1> SUFFICES ASSUME NEW k PROVE Billed(k)' = Billed(k) OBVIOUS
<1>1. Logged(k)' = Logged(k) BY DEF Logged
<1>2. Charging(k)' = Charging(k) BY DEF Charging, Charges
<1> QED BY <1>1, <1>2 DEF Billed

\* record_usage writes the key: one more usage of that key.
LEMMA BilledByWrite ==
  ASSUME Inductive, NEW t \in Threads, RecordUpdateKey(t)
  PROVE  \A k : Billed(k)' = IF k = key_id[t] THEN Billed(k) + 1 ELSE Billed(k)
<1> SUFFICES ASSUME NEW k
             PROVE Billed(k)' = IF k = key_id[t] THEN Billed(k) + 1 ELSE Billed(k)
  OBVIOUS
<1>1. TypeOK /\ pc[t] = "record_update_key" BY DEF Inductive, RecordUpdateKey
<1>2. /\ pc'[t] \in Charges /\ UNCHANGED <<spend_logs, key_id>>
      /\ \A u \in Threads : u # t => pc'[u] = pc[u]
  BY <1>1 DEF RecordUpdateKey, Goto, TypeOK, Charges
<1>3. Logged(k)' = Logged(k) BY <1>2 DEF Logged
<1>4. CASE k = key_id[t]
  <2>1. Charging(k)' = Charging(k) \cup {t} /\ t \notin Charging(k)
    BY <1>1, <1>2, <1>4 DEF Charging, Charges
  <2>2. Cardinality(Charging(k)') = Cardinality(Charging(k)) + 1
    BY <1>1, <2>1, BilledNat, FS_AddElement
  <2> QED BY <1>1, <1>3, <1>4, <2>2, BilledNat DEF Billed
<1>5. CASE k # key_id[t]
  <2>1. Charging(k)' = Charging(k) BY <1>1, <1>2, <1>5 DEF Charging, Charges
  <2> QED BY <1>3, <1>5, <2>1 DEF Billed
<1> QED BY <1>4, <1>5

\* record_usage logs: the usage moves from Charging to the log.
LEMMA BilledByLog ==
  ASSUME Inductive, NEW t \in Threads, RecordSpend(t)
  PROVE  \A k : Billed(k)' = Billed(k)
<1> SUFFICES ASSUME NEW k PROVE Billed(k)' = Billed(k) OBVIOUS
<1>1. TypeOK /\ pc[t] = "record_spend" BY DEF Inductive, RecordSpend
<1> DEFINE rec == [key_id |-> key_id[t], team_id |-> team_id[t]]
           n   == Len(spend_logs)
<1>2. /\ pc'[t] = "idle" /\ key_id' = key_id
      /\ spend_logs' = Append(spend_logs, rec)
      /\ \A u \in Threads : u # t => pc'[u] = pc[u]
  BY <1>1 DEF RecordSpend, Goto, TypeOK
<1>3. spend_logs \in Seq(SpendRecord) BY <1>1 DEF TypeOK
<1>4. rec.key_id = key_id[t] OBVIOUS
<1> HIDE DEF rec
<1>5. /\ n \in Nat /\ DOMAIN spend_logs = 1 .. n /\ DOMAIN spend_logs' = 1 .. n + 1
      /\ spend_logs'[n + 1] = rec
      /\ \A i \in 1 .. n : spend_logs'[i] = spend_logs[i]
  BY <1>2, <1>3
<1>6. CASE k = key_id[t]
  <2>1. Logged(k)' = Logged(k) \cup {n + 1} /\ n + 1 \notin Logged(k)
    BY <1>4, <1>5, <1>6 DEF Logged
  <2>2. Charging(k)' = Charging(k) \ {t} /\ t \in Charging(k)
    BY <1>1, <1>2, <1>6 DEF Charging
  <2>3. Cardinality(Logged(k)') = Cardinality(Logged(k)) + 1
    BY <1>1, <2>1, BilledNat, FS_AddElement
  <2>4. Cardinality(Charging(k)') = Cardinality(Charging(k)) - 1
    BY <1>1, <2>2, BilledNat, FS_RemoveElement
  <2> QED BY <1>1, <2>3, <2>4, BilledNat DEF Billed
<1>7. CASE k # key_id[t]
  <2>1. Logged(k)' = Logged(k) BY <1>4, <1>5, <1>7 DEF Logged
  <2>2. Charging(k)' = Charging(k) BY <1>1, <1>2, <1>7 DEF Charging
  <2> QED BY <2>1, <2>2 DEF Billed
<1> QED BY <1>6, <1>7

----------------------------------------------------------------------------
(* The building blocks keep Billing                                        *)

LEMMA Totals ==
  ASSUME TypeOK
  PROVE  /\ \A k \in DOMAIN keys : keys[k].total \in Nat
         /\ \A t \in Threads : \A k \in DOMAIN copies[t] :
              copies[t][k].total \in Nat
         /\ \A t \in Threads : Slack(t) \in {0, 1}
<1>1. \A vk \in VirtualKey : vk.total \in Nat BY DEF VirtualKey
<1>2. \A k \in DOMAIN keys : keys[k] \in VirtualKey BY DEF TypeOK
<1>3. \A t \in Threads : \A k \in DOMAIN copies[t] : copies[t][k] \in VirtualKey
  BY DEF TypeOK
<1> QED BY <1>1, <1>2, <1>3 DEF Slack

\* The stage of thread t changes from and to stages that are not about to
\* write a charge.
Calm(t) == /\ pc[t] # "record_update_key" /\ pc'[t] # "record_update_key"
           /\ \A u \in Threads : u # t => pc'[u] = pc[u] /\ key_id'[u] = key_id[u]

LEMMA BillingKeep ==
  ASSUME Inductive, Billing, NEW t \in Threads, Calm(t), UNCHANGED keys,
         \A k : Billed(k)' = Billed(k),
         copies' = copies \/ copies' = [copies EXCEPT ![t] = NoCopies]
  PROVE  Billing'
<1>1. \A u \in Threads : DOMAIN copies'[u] \subseteq DOMAIN copies[u]
                         /\ \A k \in DOMAIN copies'[u] : copies'[u][k] = copies[u][k]
  <2>1. DOMAIN copies = Threads BY DEF Inductive, TypeOK
  <2>2. DOMAIN NoCopies = {} BY DEF NoCopies
  <2> QED BY <2>1, <2>2
<1>2. \A u \in Threads : Slack(u)' = Slack(u) BY DEF Calm, Slack
<1>3. \A u \in Threads : pc'[u] = "record_update_key" =>
                           pc[u] = "record_update_key" /\ key_id'[u] = key_id[u]
  BY DEF Calm
<1> QED BY <1>1, <1>2, <1>3 DEF Billing

LEMMA BillingWrite ==
  ASSUME Inductive, Billing, NEW t \in Threads, Calm(t),
         NEW j \in DOMAIN copies[t], UpdateKey(t, j),
         \A k : Billed(k)' = Billed(k)
  PROVE  Billing'
<1>1. /\ DOMAIN keys' = DOMAIN keys
      /\ keys'[j] = copies[t][j]
      /\ \A i \in DOMAIN keys : i # j => keys'[i] = keys[i]
      /\ DOMAIN copies'[t] = DOMAIN copies[t] \ {j}
      /\ \A i \in DOMAIN copies'[t] : copies'[t][i] = copies[t][i]
      /\ \A u \in Threads : u # t => copies'[u] = copies[u]
  BY UpdateKeyFacts DEF Inductive
<1>2. \A u \in Threads : Slack(u)' = Slack(u) BY DEF Calm, Slack
<1>3. Slack(t) = 0 BY DEF Calm, Slack
<1>4. copies[t][j].total <= Billed(j)
  BY <1>3, BilledNat, Totals DEF Billing, Inductive
<1>5. \A k \in DOMAIN keys' : keys'[k].total <= Billed(k)'
  BY <1>1, <1>4 DEF Billing
<1>6. \A u \in Threads : \A k \in DOMAIN copies'[u] :
        copies'[u][k].total <= Billed(k)' + Slack(u)'
  BY <1>1, <1>2 DEF Billing
<1>7. \A u \in Threads : pc'[u] = "record_update_key" =>
        DOMAIN copies'[u] \subseteq {key_id'[u]}
  BY <1>1 DEF Billing, Calm
<1> QED BY <1>5, <1>6, <1>7 DEF Billing

LEMMA BillingCopy ==
  ASSUME Inductive, Billing, NEW t \in Threads,
         NEW j \in DOMAIN keys, NEW changed \in VirtualKey,
         Copy(t, j, changed), UNCHANGED keys,
         changed.total <= Billed(j) + Slack(t)',
         \A u \in Threads : u # t => pc'[u] = pc[u],
         \A k : Billed(k)' = Billed(k)
  PROVE  Billing'
<1>1. /\ DOMAIN copies'[t] = {j} /\ copies'[t][j] = changed
      /\ key_id'[t] = j
      /\ \A u \in Threads : u # t => /\ copies'[u] = copies[u]
                                     /\ key_id'[u] = key_id[u]
  BY CopyFacts DEF Inductive
<1>2. \A u \in Threads : u # t => Slack(u)' = Slack(u) BY DEF Slack
<1>3. \A u \in Threads : \A k \in DOMAIN copies'[u] :
        copies'[u][k].total <= Billed(k)' + Slack(u)'
  BY <1>1, <1>2 DEF Billing
<1>4. \A u \in Threads : pc'[u] = "record_update_key" =>
        DOMAIN copies'[u] \subseteq {key_id'[u]}
  BY <1>1 DEF Billing
<1> QED BY <1>3, <1>4 DEF Billing

\* The step moves thread t to a stage in which it neither charges nor is about
\* to, and leaves the log and the other threads alone.
LEMMA CalmStep ==
  ASSUME TypeOK, NEW t \in Threads, NEW stage, Goto(t, stage),
         UNCHANGED spend_logs,
         \A u \in Threads : u # t => key_id'[u] = key_id[u],
         pc[t] # "record_update_key", stage # "record_update_key",
         \/ pc[t] \notin Charges /\ stage \notin Charges
         \/ pc[t] \in Charges /\ stage \in Charges /\ key_id'[t] = key_id[t]
  PROVE  Calm(t) /\ \A k : Billed(k)' = Billed(k)
<1>1. pc'[t] = stage /\ \A u \in Threads : u # t => pc'[u] = pc[u]
  BY DEF Goto, TypeOK
<1>2. Calm(t) BY <1>1 DEF Calm
<1>3. \A k : Billed(k)' = Billed(k) BY <1>1, BilledSame
<1> QED BY <1>2, <1>3

LEMMA CopyOthers ==
  ASSUME TypeOK, NEW t \in Threads, NEW j, NEW changed, Copy(t, j, changed)
  PROVE  \A u \in Threads : u # t => key_id'[u] = key_id[u]
BY DEF Copy, TypeOK

\* The usages booked do not change, and no call fails.
Steady == /\ \A k : Billed(k)' = Billed(k)
          /\ failed' = failed

\* What a step does to the keys and to the thread's copies of them: nothing,
\* or it drops its copies; ...
Quiet(t) ==
  /\ Calm(t) /\ Steady /\ UNCHANGED keys
  /\ copies' = copies \/ copies' = [copies EXCEPT ![t] = NoCopies]

\* ... it reads a key, and charges it if it is record_usage; ...
Reads(t) ==
  /\ Steady /\ UNCHANGED keys
  /\ \A u \in Threads : u # t => pc'[u] = pc[u]
  /\ \E j \in DOMAIN keys : \E changed \in VirtualKey :
       Copy(t, j, changed) /\ changed.total = keys[j].total + Slack(t)'

\* ... it reads some of the keys for reset_expired_budgets; ...
Lists(t) ==
  /\ Calm(t) /\ Steady /\ UNCHANGED keys
  /\ \A u \in Threads : u # t => copies'[u] = copies[u]
  /\ \A k \in DOMAIN copies'[t] :
       k \in DOMAIN keys /\ copies'[t][k].total = keys[k].total

\* ... or it writes a key that is not charged.  Only generate_key and the write
\* of record_usage do anything else.
Writes(t) ==
  /\ Calm(t) /\ Steady
  /\ \E j \in DOMAIN copies[t] : UpdateKey(t, j)

KeyStep(t) == \/ Quiet(t) \/ Reads(t) \/ Lists(t) \/ Writes(t)
              \/ GenerateKey(t) \/ RecordUpdateKey(t)

LEMMA KeyOpsKeyStep ==
  ASSUME Inductive, NEW t \in Threads, KeyOps(t) PROVE KeyStep(t)
<1>1. TypeOK /\ Steps BY DEF Inductive
<1>2. CASE GenerateKey(t) BY <1>2 DEF KeyStep
<1>3. CASE RevokeGetKey(t)
  <2>0. failed' = failed BY <1>3 DEF RevokeGetKey
  <2>1. PICK j \in DOMAIN keys :
          Copy(t, j, [keys[j] EXCEPT !.is_active = FALSE])
    BY <1>3 DEF RevokeGetKey
  <2> DEFINE off == [keys[j] EXCEPT !.is_active = FALSE]
  <2>2. UNCHANGED <<keys, spend_logs>> /\ Goto(t, "revoke_update")
        /\ pc[t] = "idle"
    BY <1>3 DEF RevokeGetKey, store, Call
  <2>3. keys[j] \in VirtualKey BY <1>1 DEF TypeOK
  <2>4. off \in VirtualKey /\ off.total = keys[j].total
    BY <2>3 DEF VirtualKey
  <2>5. Calm(t) /\ \A k : Billed(k)' = Billed(k)
    BY <1>1, <2>1, <2>2, CalmStep, CopyOthers DEF Charges
  <2> HIDE DEF off
  <2>6. Copy(t, j, off) BY <2>1 DEF off
  <2>7. off.total = keys[j].total + Slack(t)'
    BY <1>1, <2>4, <2>5, Totals DEF Slack, Calm
  <2> QED BY <2>2, <2>4, <2>5, <2>6, <2>7, <2>0 DEF KeyStep, Reads, Steady, Calm
<1>4. CASE RevokeUpdateKey(t)
  <2>0. failed' = failed BY <1>4 DEF RevokeUpdateKey
  <2>1. /\ key_id[t] \in DOMAIN copies[t] /\ UpdateKey(t, key_id[t])
        /\ pc[t] = "revoke_update" /\ Goto(t, "idle")
        /\ UNCHANGED <<key_id, spend_logs>>
    BY <1>1, <1>4 DEF RevokeUpdateKey, Steps, Step, Copying
  <2>2. Calm(t) /\ \A k : Billed(k)' = Billed(k)
    BY <1>1, <2>1, CalmStep DEF Charges
  <2> QED BY <2>1, <2>2, <2>0 DEF KeyStep, Writes, Steady
<1> QED BY <1>2, <1>3, <1>4 DEF KeyOps

LEMMA TeamOpsKeyStep ==
  ASSUME Inductive, NEW t \in Threads, TeamOps(t) PROVE KeyStep(t)
<1>1. TypeOK /\ Steps BY DEF Inductive
<1>2. CASE CreateTeam(t)
  <2>0. failed' = failed BY <1>2 DEF CreateTeam
  <2>1. UNCHANGED <<keys, spend_logs, locals>> /\ pc[t] = "idle"
    BY <1>2 DEF CreateTeam, Call
  <2>2. \A k : Billed(k)' = Billed(k)
    BY <2>1 DEF Billed, Logged, Charging, locals
  <2> QED BY <2>0, <2>1, <2>2 DEF KeyStep, Quiet, Steady, Calm, locals
<1>3. CASE AddGetKey(t)
  <2>0. failed' = failed BY <1>3 DEF AddGetKey
  <2>1. PICK j \in DOMAIN keys, m \in DOMAIN teams :
          Copy(t, j, [keys[j] EXCEPT !.team_id = m])
    BY <1>3 DEF AddGetKey
  <2> DEFINE moved == [keys[j] EXCEPT !.team_id = m]
  <2>2. UNCHANGED <<keys, spend_logs>> /\ Goto(t, "add_get_team")
        /\ pc[t] = "idle"
    BY <1>3 DEF AddGetKey, store, Call
  <2>3. keys[j] \in VirtualKey /\ m \in TeamIds BY <1>1 DEF TypeOK, TeamIds
  <2>4. moved \in VirtualKey /\ moved.total = keys[j].total
    BY <2>3 DEF VirtualKey
  <2>5. Calm(t) /\ \A k : Billed(k)' = Billed(k)
    BY <1>1, <2>1, <2>2, CalmStep, CopyOthers DEF Charges
  <2> HIDE DEF moved
  <2>6. Copy(t, j, moved) BY <2>1 DEF moved
  <2>7. moved.total = keys[j].total + Slack(t)'
    BY <1>1, <2>4, <2>5, Totals DEF Slack, Calm
  <2> QED BY <2>2, <2>4, <2>5, <2>6, <2>7, <2>0 DEF KeyStep, Reads, Steady, Calm
<1>4. CASE AddGetTeam(t)
  <2>0. failed' = failed BY <1>4 DEF AddGetTeam
  <2>1. /\ pc[t] = "add_get_team" /\ UNCHANGED <<keys, spend_logs, key_id>>
        /\ \E stage \in {"idle", "add_update_team"} : Goto(t, stage)
        /\ copies' = copies \/ copies' = [copies EXCEPT ![t] = NoCopies]
    BY <1>4 DEF AddGetTeam, store
  <2>2. PICK stage \in {"idle", "add_update_team"} : Goto(t, stage) BY <2>1
  <2>3. Calm(t) /\ \A k : Billed(k)' = Billed(k)
    BY <1>1, <2>1, <2>2, CalmStep DEF Charges
  <2> QED BY <2>1, <2>3, <2>0 DEF KeyStep, Quiet, Steady
<1>5. CASE AddUpdateKey(t) \/ RemoveUpdateKey(t)
  <2>0. failed' = failed BY <1>5 DEF AddUpdateKey, RemoveUpdateKey
  <2>1. /\ key_id[t] \in DOMAIN copies[t] /\ UpdateKey(t, key_id[t])
        /\ pc[t] \in {"add_update_key", "remove_update_key"} /\ Goto(t, "idle")
        /\ UNCHANGED <<key_id, spend_logs>>
    BY <1>1, <1>5 DEF AddUpdateKey, RemoveUpdateKey, Steps, Step, Copying
  <2>2. Calm(t) /\ \A k : Billed(k)' = Billed(k)
    BY <1>1, <2>1, CalmStep DEF Charges
  <2> QED BY <2>1, <2>2, <2>0 DEF KeyStep, Writes, Steady
<1>6. CASE RemoveGetKey(t)
  <2>0. failed' = failed BY <1>6 DEF RemoveGetKey
  <2> DEFINE j == key_id[t]
             cleared == [keys[j] EXCEPT !.team_id = NoTeam]
  <2>1. /\ Copy(t, j, cleared) /\ Goto(t, "remove_update_key")
        /\ pc[t] = "remove_get_key" /\ UNCHANGED <<keys, spend_logs>>
    BY <1>6 DEF RemoveGetKey, store
  <2>2. j \in DOMAIN keys BY <1>1, <2>1 DEF Steps, Step, OneKey, Stages
  <2>3. keys[j] \in VirtualKey BY <1>1, <2>2 DEF TypeOK
  <2>4. cleared \in VirtualKey /\ cleared.total = keys[j].total
    BY <2>3 DEF VirtualKey, TeamIds
  <2> HIDE DEF cleared
  <2>5. Calm(t) /\ \A k : Billed(k)' = Billed(k)
    BY <1>1, <2>1, CalmStep, CopyOthers DEF Charges
  <2>6. cleared.total = keys[j].total + Slack(t)'
    BY <1>1, <2>2, <2>4, <2>5, Totals DEF Slack, Calm
  <2> QED BY <2>1, <2>2, <2>4, <2>5, <2>6, <2>0 DEF KeyStep, Reads, Steady, Calm
<1>7. CASE AddUpdateTeam(t) \/ RemoveUpdateTeam(t)
  <2>0. failed' = failed BY <1>7 DEF AddUpdateTeam, RemoveUpdateTeam
  <2>1. /\ UNCHANGED <<keys, spend_logs, key_id, copies>>
        /\ pc[t] \in {"add_update_team", "remove_update_team"}
        /\ \E stage \in {"add_update_key", "remove_get_key"} : Goto(t, stage)
    BY <1>7 DEF AddUpdateTeam, RemoveUpdateTeam
  <2>2. PICK stage \in {"add_update_key", "remove_get_key"} : Goto(t, stage)
    BY <2>1
  <2>3. Calm(t) /\ \A k : Billed(k)' = Billed(k)
    BY <1>1, <2>1, <2>2, CalmStep DEF Charges
  <2> QED BY <2>1, <2>3, <2>0 DEF KeyStep, Quiet, Steady
<1>8. CASE RemoveGetTeam(t)
  <2>0. failed' = failed BY <1>8 DEF RemoveGetTeam
  <2>1. /\ UNCHANGED <<keys, spend_logs, copies>> /\ pc[t] = "idle"
        /\ Goto(t, "remove_update_team")
    BY <1>8 DEF RemoveGetTeam, store, Call
  <2>2. \A u \in Threads : u # t => key_id'[u] = key_id[u]
    BY <1>1, <1>8 DEF RemoveGetTeam, TypeOK
  <2>3. Calm(t) /\ \A k : Billed(k)' = Billed(k)
    BY <1>1, <2>1, <2>2, CalmStep DEF Charges
  <2> QED BY <2>1, <2>3, <2>0 DEF KeyStep, Quiet, Steady
<1> QED BY <1>2, <1>3, <1>4, <1>5, <1>6, <1>7, <1>8 DEF TeamOps

LEMMA BudgetOpsKeyStep ==
  ASSUME Inductive, NEW t \in Threads, BudgetOps(t) PROVE KeyStep(t)
<1>1. TypeOK /\ Steps BY DEF Inductive
<1>2. CASE RecordGetKey(t)
  <2>0. failed' = failed BY <1>2 DEF RecordGetKey
  <2>1. PICK j \in DOMAIN keys : Copy(t, j, Charged(keys[j]))
    BY <1>2 DEF RecordGetKey
  <2>2. /\ UNCHANGED <<keys, spend_logs>> /\ Goto(t, "record_update_key")
        /\ pc[t] = "idle"
    BY <1>2 DEF RecordGetKey, store, Call
  <2>3. keys[j] \in VirtualKey BY <1>1 DEF TypeOK
  <2>4. Charged(keys[j]) \in VirtualKey BY <1>1, <2>3, ChangedKey
  <2>5. Charged(keys[j]).total = keys[j].total + 1
    BY <2>3 DEF VirtualKey, Charged
  <2>6. pc'[t] = "record_update_key" /\ \A u \in Threads : u # t => pc'[u] = pc[u]
    BY <1>1, <2>2 DEF Goto, TypeOK
  <2>7. \A k : Billed(k)' = Billed(k)
    BY <1>1, <2>1, <2>2, <2>6, BilledSame, CopyOthers DEF Charges
  <2>8. Charged(keys[j]).total = keys[j].total + Slack(t)'
    BY <1>1, <2>5, <2>6, Totals DEF Slack
  <2> QED BY <2>1, <2>2, <2>4, <2>6, <2>7, <2>8, <2>0 DEF KeyStep, Reads, Steady, Calm
<1>3. CASE RecordUpdateKey(t) BY <1>3 DEF KeyStep
<1>4. CASE RecordGetTeam(t) \/ RecordUpdateTeam(t)
  <2>0. failed' = failed BY <1>4 DEF RecordGetTeam, RecordUpdateTeam
  <2>1. /\ UNCHANGED <<keys, spend_logs, key_id, copies>>
        /\ pc[t] \in {"record_get_team", "record_update_team"}
        /\ \E stage \in {"record_update_team", "record_spend"} : Goto(t, stage)
    BY <1>4 DEF RecordGetTeam, RecordUpdateTeam, store
  <2>2. PICK stage \in {"record_update_team", "record_spend"} : Goto(t, stage)
    BY <2>1
  <2>3. Calm(t) /\ \A k : Billed(k)' = Billed(k)
    BY <1>1, <2>1, <2>2, CalmStep DEF Charges
  <2> QED BY <2>1, <2>3, <2>0 DEF KeyStep, Quiet, Steady
<1>5. CASE RecordSpend(t)
  <2>0. failed' = failed BY <1>5 DEF RecordSpend
  <2>1. /\ UNCHANGED <<keys, key_id, copies>> /\ pc[t] = "record_spend"
        /\ Goto(t, "idle")
    BY <1>5 DEF RecordSpend
  <2>2. Calm(t) BY <1>1, <2>1 DEF Calm, Goto, TypeOK
  <2>3. \A k : Billed(k)' = Billed(k) BY <1>5, BilledByLog
  <2> QED BY <2>1, <2>2, <2>3, <2>0 DEF KeyStep, Quiet, Steady
<1>6. CASE ResetListKeys(t)
  <2> DEFINE expired == {k \in DOMAIN keys :
                           keys[k].windowed /\ now >= keys[k].reset_at}
             renewed == [k \in expired |-> Renewed(keys[k])]
  <2>1. /\ copies' = [copies EXCEPT ![t] = renewed] /\ pc[t] = "idle"
        /\ UNCHANGED <<keys, spend_logs, key_id>> /\ Goto(t, "reset_update")
    BY <1>6 DEF ResetListKeys, store, Call
  <2>2. Calm(t) /\ \A k : Billed(k)' = Billed(k)
    BY <1>1, <2>1, CalmStep DEF Charges
  <2>3. /\ copies'[t] = renewed
        /\ \A u \in Threads : u # t => copies'[u] = copies[u]
    BY <1>1, <2>1 DEF TypeOK
  <2>4. \A k \in expired : Renewed(keys[k]).total = keys[k].total
    BY <1>1 DEF TypeOK, VirtualKey, Renewed
  <2>5. failed' = failed BY <1>6 DEF ResetListKeys
  <2>6. Lists(t) BY <2>1, <2>2, <2>3, <2>4, <2>5 DEF Lists, Steady
  <2> QED BY <2>6 DEF KeyStep
<1>7. CASE ResetUpdateKey(t)
  <2>0. failed' = failed BY <1>7 DEF ResetUpdateKey
  <2>1. /\ pc[t] = "reset_update" /\ UNCHANGED <<spend_logs, key_id>>
        /\ \E k \in DOMAIN copies[t] : UpdateKey(t, k)
        /\ \E stage \in {"idle", "reset_update"} : Goto(t, stage)
    BY <1>7 DEF ResetUpdateKey
  <2>2. PICK stage \in {"idle", "reset_update"} : Goto(t, stage) BY <2>1
  <2>3. Calm(t) /\ \A k : Billed(k)' = Billed(k)
    BY <1>1, <2>1, <2>2, CalmStep DEF Charges
  <2> QED BY <2>1, <2>3, <2>0 DEF KeyStep, Writes, Steady
<1> QED BY <1>2, <1>3, <1>4, <1>5, <1>6, <1>7 DEF BudgetOps

\* record_usage writes its charged copy: Billed has room for it.
LEMMA BillingRecordWrite ==
  ASSUME Inductive, Billing, NEW t \in Threads, RecordUpdateKey(t)
  PROVE  Billing'
<1>0. PICK j : j = key_id[t] OBVIOUS
<1>1. TypeOK /\ Steps BY DEF Inductive
<1>2. /\ pc[t] = "record_update_key" /\ UpdateKey(t, j)
      /\ UNCHANGED key_id
      /\ \E stage \in {"record_spend", "record_get_team"} : Goto(t, stage)
  BY <1>0 DEF RecordUpdateKey
<1>3. j \in DOMAIN copies[t] BY <1>0, <1>1, <1>2 DEF Steps, Step, Copying
<1>4. /\ DOMAIN keys' = DOMAIN keys
      /\ keys'[j] = copies[t][j]
      /\ \A i \in DOMAIN keys : i # j => keys'[i] = keys[i]
      /\ DOMAIN copies'[t] = DOMAIN copies[t] \ {j}
      /\ \A u \in Threads : u # t => copies'[u] = copies[u]
  BY <1>1, <1>2, <1>3, UpdateKeyFacts
<1>5. DOMAIN copies'[t] = {} BY <1>0, <1>2, <1>4 DEF Billing
<1>6. pc'[t] # "record_update_key"
      /\ \A u \in Threads : u # t => pc'[u] = pc[u]
  BY <1>1, <1>2 DEF Goto, TypeOK
<1>7. \A k : Billed(k)' = IF k = j THEN Billed(k) + 1 ELSE Billed(k)
  BY <1>0, BilledByWrite
<1>8. \A k : Billed(k) \in Nat /\ Billed(k) <= Billed(k)'
  BY <1>1, <1>7, BilledNat
<1>9. \A k \in DOMAIN keys' : keys'[k].total <= Billed(k)'
  <2>1. copies[t][j].total <= Billed(j) + 1 BY <1>2, <1>3 DEF Billing, Slack
  <2>2. Billed(j)' = Billed(j) + 1 BY <1>7
  <2>3. keys'[j].total = copies[t][j].total BY <1>4
  <2>4. keys'[j].total <= Billed(j)' BY <2>1, <2>2, <2>3
  <2> SUFFICES ASSUME NEW k \in DOMAIN keys'
               PROVE  keys'[k].total <= Billed(k)'
    OBVIOUS
  <2>5. CASE k = j BY <2>4, <2>5
  <2>6. CASE k # j
    <3>1. k \in DOMAIN keys /\ keys'[k] = keys[k] BY <1>4, <2>6
    <3>2. Billed(k)' = Billed(k) BY <1>7, <2>6
    <3> QED BY <3>1, <3>2 DEF Billing
  <2> QED BY <2>5, <2>6
<1>10. ASSUME NEW u \in Threads, NEW k \in DOMAIN copies'[u]
       PROVE copies'[u][k].total <= Billed(k)' + Slack(u)'
  <2>1. u # t BY <1>5
  <2>2. copies'[u] = copies[u] /\ Slack(u)' = Slack(u)
    BY <1>4, <1>6, <2>1 DEF Slack
  <2>3. copies[u][k].total <= Billed(k) + Slack(u) BY <2>2 DEF Billing
  <2>4. copies[u][k].total \in Nat /\ Slack(u) \in Nat
    BY <1>1, <2>2, Totals
  <2>5. Billed(k) \in Nat /\ Billed(k)' \in Nat /\ Billed(k) <= Billed(k)'
    BY <1>7, <1>8
  <2> QED BY <2>2, <2>3, <2>4, <2>5
<1>11. \A u \in Threads : pc'[u] = "record_update_key" =>
         DOMAIN copies'[u] \subseteq {key_id'[u]}
  BY <1>2, <1>4, <1>6 DEF Billing
<1> QED BY <1>9, <1>10, <1>11 DEF Billing

LEMMA NewKeyFacts ==
  ASSUME Inductive, NEW t \in Threads, GenerateKey(t)
  PROVE  /\ \E j \in Keys \ DOMAIN keys :
              /\ DOMAIN keys' = DOMAIN keys \cup {j} /\ keys'[j].total = 0
              /\ \A k \in DOMAIN keys : keys'[k] = keys[k]
         /\ \A k : Billed(k)' = Billed(k)
         /\ UNCHANGED <<locals, spend_logs, failed>> /\ pc[t] = "idle"
<1>1. PICK j \in Keys \ DOMAIN keys, windowed \in BOOLEAN,
           team \in DOMAIN teams \cup {NoTeam, Unknown} :
        keys' = With(keys, j, NewKey(team, windowed))
  BY DEF GenerateKey
<1>2. UNCHANGED <<locals, spend_logs, failed>> /\ pc[t] = "idle"
  BY DEF GenerateKey, Call
<1>3. /\ DOMAIN keys' = DOMAIN keys \cup {j} /\ keys'[j].total = 0
      /\ \A k \in DOMAIN keys : keys'[k] = keys[k]
  BY <1>1 DEF With, NewKey
<1>4. \A k : Billed(k)' = Billed(k)
  BY <1>2 DEF Billed, Logged, Charging, locals
<1> QED BY <1>2, <1>3, <1>4

LEMMA BillingKeyStep ==
  ASSUME Inductive, Billing, NEW t \in Threads, KeyStep(t) PROVE Billing'
<1>1. TypeOK /\ Steps BY DEF Inductive
<1>2. CASE GenerateKey(t)
  <2>1. PICK j \in Keys \ DOMAIN keys :
          /\ DOMAIN keys' = DOMAIN keys \cup {j} /\ keys'[j].total = 0
          /\ \A k \in DOMAIN keys : keys'[k] = keys[k]
    BY <1>2, NewKeyFacts
  <2>2. UNCHANGED locals /\ \A k : Billed(k)' = Billed(k) BY <1>2, NewKeyFacts
  <2>3. Billed(j) \in Nat BY <1>1, BilledNat
  <2>4. \A k \in DOMAIN keys' : keys'[k].total <= Billed(k)'
    BY <2>1, <2>2, <2>3 DEF Billing
  <2> QED BY <2>2, <2>4 DEF Billing, Slack, locals
<1>3. CASE Quiet(t) BY <1>3, BillingKeep DEF Quiet, Steady
<1>4. CASE Reads(t)
  <2>1. PICK j \in DOMAIN keys, changed \in VirtualKey :
          Copy(t, j, changed) /\ changed.total = keys[j].total + Slack(t)'
    BY <1>4 DEF Reads
  <2>2. UNCHANGED keys /\ (\A k : Billed(k)' = Billed(k))
        /\ \A u \in Threads : u # t => pc'[u] = pc[u]
    BY <1>4 DEF Reads, Steady
  <2>3. Slack(t)' \in Nat BY DEF Slack
  <2>4. changed.total <= Billed(j) + Slack(t)'
    BY <1>1, <2>1, <2>3, BilledNat, Totals DEF Billing
  <2> QED BY <2>1, <2>2, <2>4, BillingCopy
<1>5. CASE Lists(t)
  <2>1. Calm(t) /\ UNCHANGED keys /\ \A k : Billed(k)' = Billed(k)
    BY <1>5 DEF Lists, Steady
  <2>2. \A u \in Threads : Slack(u)' = Slack(u) BY <2>1 DEF Calm, Slack
  <2>3. Slack(t) = 0 BY <2>1 DEF Calm, Slack
  <2>4. ASSUME NEW k \in DOMAIN copies'[t]
        PROVE copies'[t][k].total <= Billed(k)' + Slack(t)'
    <3>1. k \in DOMAIN keys /\ copies'[t][k].total = keys[k].total
      BY <1>5 DEF Lists
    <3>2. keys[k].total <= Billed(k) BY <3>1 DEF Billing
    <3>3. Billed(k) \in Nat BY <1>1, BilledNat
    <3> QED BY <2>1, <2>2, <2>3, <3>1, <3>2, <3>3
  <2>5. \A u \in Threads : u # t => copies'[u] = copies[u] BY <1>5 DEF Lists
  <2>6. \A u \in Threads : \A k \in DOMAIN copies'[u] :
          copies'[u][k].total <= Billed(k)' + Slack(u)'
    BY <2>1, <2>2, <2>4, <2>5 DEF Billing
  <2>7. \A u \in Threads : pc'[u] = "record_update_key" =>
          DOMAIN copies'[u] \subseteq {key_id'[u]}
    BY <2>1, <2>5 DEF Billing, Calm
  <2> QED BY <2>1, <2>6, <2>7 DEF Billing
<1>6. CASE Writes(t) BY <1>6, BillingWrite DEF Writes, Steady
<1>7. CASE RecordUpdateKey(t) BY <1>7, BillingRecordWrite
<1> QED BY <1>2, <1>3, <1>4, <1>5, <1>6, <1>7 DEF KeyStep

LEMMA OperationsAreKeySteps ==
  ASSUME Inductive, NEW t \in Threads, KeyOps(t) \/ TeamOps(t) \/ BudgetOps(t)
  PROVE  KeyStep(t)
BY KeyOpsKeyStep, TeamOpsKeyStep, BudgetOpsKeyStep

LEMMA BillingStep ==
  ASSUME ~StoreErrors PROVE Inductive /\ Billing /\ [Next]_vars => Billing'
<1> SUFFICES ASSUME Inductive, Billing, [Next]_vars PROVE Billing' OBVIOUS
<1>1. CASE UNCHANGED <<keys, spend_logs, locals>>
  <2>1. \A k : Billed(k)' = Billed(k)
    BY <1>1 DEF Billed, Logged, Charging, locals
  <2> QED BY <1>1, <2>1 DEF Billing, Slack, locals
<1>2. CASE \E t \in Threads : KeyOps(t) \/ TeamOps(t) \/ BudgetOps(t)
  BY <1>2, OperationsAreKeySteps, BillingKeyStep
<1>3. CASE DayPasses BY <1>1, <1>3 DEF DayPasses, store
<1>4. CASE UNCHANGED vars BY <1>1, <1>4 DEF vars, store
<1> QED BY <1>2, <1>3, <1>4 DEF Next, Finished, StoreError

\* However key, team and budget operations overlap, a key is never charged for
\* more usages than were recorded for it, in a store whose calls do not fail.
THEOREM NeverOverbilledAlways ==
  ASSUME ~StoreErrors PROVE Spec => []NeverOverbilled
<1>1. Init => Billing BY DEF Init, Billing, NoCopies
<1>2. Inductive /\ Billing /\ [Next]_vars => Billing' BY BillingStep
<1>3. Billing => NeverOverbilled BY DEF Billing, NeverOverbilled, Billed
<1> QED BY <1>1, <1>2, <1>3, InductiveAlways, PTL DEF Spec

----------------------------------------------------------------------------
(***************************************************************************)
(* What one thread alone keeps: its counters and the spend log agree.      *)
(*                                                                         *)
(* Operations that do not overlap need no bound on what others still hold, *)
(* but an exact account of the usage in flight: Booked is the log and the  *)
(* usage that is charged and not logged yet, for a key from the moment its *)
(* record is written, for a team from the moment its own is.  The copies   *)
(* the thread is going to write are those counters as they stand, or one   *)
(* more.  Named keeps the log inside what exists, so that a key or a team  *)
(* is created with nothing in the log.                                     *)
(***************************************************************************)

Names == DOMAIN teams \cup {NoTeam, Unknown}

\* Only teams that exist, and keys that exist, are ever named.
Named ==
  /\ \A k \in DOMAIN keys : keys[k].team_id \in Names
  /\ \A t \in Threads : team_id[t] \in Names
  /\ \A t \in Threads : \A k \in DOMAIN copies[t] : copies[t][k].team_id \in Names
  /\ \A i \in DOMAIN spend_logs :
       spend_logs[i].key_id \in DOMAIN keys /\ spend_logs[i].team_id \in Names

\* A step that writes or reads keys, and no team or log.
LEMMA NamedCopy ==
  ASSUME Inductive, Named, NEW t \in Threads, NEW j \in DOMAIN keys,
         NEW changed \in VirtualKey, Copy(t, j, changed), changed.team_id \in Names,
         UNCHANGED <<keys, teams, spend_logs>>,
         \A u \in Threads : team_id'[u] \in Names
  PROVE  Named'
<1>1. /\ DOMAIN copies'[t] = {j} /\ copies'[t][j] = changed
      /\ \A u \in Threads : u # t => copies'[u] = copies[u]
  BY CopyFacts DEF Inductive
<1>2. \A u \in Threads : \A k \in DOMAIN copies'[u] : copies'[u][k].team_id \in Names
  BY <1>1 DEF Named
<1> QED BY <1>2 DEF Named, Names

LEMMA NamedWrite ==
  ASSUME Inductive, Named, NEW t \in Threads, NEW j \in DOMAIN copies[t],
         UpdateKey(t, j), UNCHANGED <<teams, spend_logs, team_id>>
  PROVE  Named'
<1>1. /\ DOMAIN keys' = DOMAIN keys
      /\ keys'[j] = copies[t][j]
      /\ \A i \in DOMAIN keys : i # j => keys'[i] = keys[i]
      /\ DOMAIN copies'[t] = DOMAIN copies[t] \ {j}
      /\ \A i \in DOMAIN copies'[t] : copies'[t][i] = copies[t][i]
      /\ \A u \in Threads : u # t => copies'[u] = copies[u]
  BY UpdateKeyFacts DEF Inductive
<1>2. \A k \in DOMAIN keys' : keys'[k].team_id \in Names
  BY <1>1 DEF Named
<1>3. \A u \in Threads : \A k \in DOMAIN copies'[u] : copies'[u][k].team_id \in Names
  BY <1>1 DEF Named
<1> QED BY <1>1, <1>2, <1>3 DEF Named, Names

\* A step that reads or writes a team.
LEMMA NamedKeep ==
  ASSUME Inductive, Named, NEW t \in Threads, UNCHANGED <<keys, spend_logs>>,
         copies' = copies \/ copies' = [copies EXCEPT ![t] = NoCopies],
         DOMAIN teams \subseteq DOMAIN teams',
         \A u \in Threads : team_id'[u] \in Names
  PROVE  Named'
<1>1. \A u \in Threads : DOMAIN copies'[u] \subseteq DOMAIN copies[u]
                         /\ \A k \in DOMAIN copies'[u] : copies'[u][k] = copies[u][k]
  <2>1. DOMAIN copies = Threads BY DEF Inductive, TypeOK
  <2>2. DOMAIN NoCopies = {} BY DEF NoCopies
  <2> QED BY <2>1, <2>2
<1>2. Names \subseteq Names' BY DEF Names
<1>3. \A u \in Threads : \A k \in DOMAIN copies'[u] : copies'[u][k].team_id \in Names
  BY <1>1 DEF Named
<1> QED BY <1>2, <1>3 DEF Named

\* The teams that a write of a team leaves.
LEMMA TeamsStay ==
  ASSUME Inductive, NEW t \in Threads, UpdateTeam(t)
  PROVE  DOMAIN teams' = DOMAIN teams
BY DEF UpdateTeam, Inductive, TypeOK

LEMMA NamedKeyOps ==
  ASSUME Inductive, Named, NEW t \in Threads, KeyOps(t) PROVE Named'
<1>1. TypeOK /\ Steps BY DEF Inductive
<1>2. CASE GenerateKey(t)
  <2>1. PICK j \in Keys \ DOMAIN keys, windowed \in BOOLEAN,
             team \in DOMAIN teams \cup {NoTeam, Unknown} :
          keys' = With(keys, j, NewKey(team, windowed))
    BY <1>2 DEF GenerateKey
  <2>2. UNCHANGED <<teams, spend_logs, team_id, copies>>
    BY <1>2 DEF GenerateKey, locals
  <2>3. NewKey(team, windowed).team_id = team BY DEF NewKey
  <2>4. /\ DOMAIN keys' = DOMAIN keys \cup {j}
        /\ \A k \in DOMAIN keys' :
             keys'[k] = IF k = j THEN NewKey(team, windowed) ELSE keys[k]
    <3> HIDE DEF NewKey
    <3> QED BY <2>1 DEF With
  <2>5. \A k \in DOMAIN keys' : keys'[k].team_id \in Names
    BY <2>3, <2>4 DEF Named, Names
  <2> QED BY <2>2, <2>4, <2>5 DEF Named, Names
<1>3. CASE RevokeGetKey(t)
  <2>1. PICK j \in DOMAIN keys : Copy(t, j, [keys[j] EXCEPT !.is_active = FALSE])
    BY <1>3 DEF RevokeGetKey
  <2>2. UNCHANGED <<keys, teams, spend_logs, team_id>>
    BY <1>3 DEF RevokeGetKey, store
  <2>3. keys[j] \in VirtualKey BY <1>1 DEF TypeOK
  <2>4. /\ [keys[j] EXCEPT !.is_active = FALSE] \in VirtualKey
        /\ [keys[j] EXCEPT !.is_active = FALSE].team_id = keys[j].team_id
    BY <2>3 DEF VirtualKey
  <2>5. \A u \in Threads : team_id'[u] \in Names BY <2>2 DEF Named
  <2> QED BY <2>1, <2>2, <2>4, <2>5, NamedCopy DEF Named
<1>4. CASE RevokeUpdateKey(t)
  <2>1. /\ UpdateKey(t, key_id[t]) /\ pc[t] = "revoke_update"
        /\ UNCHANGED <<teams, spend_logs, team_id>>
    BY <1>4 DEF RevokeUpdateKey
  <2>2. key_id[t] \in DOMAIN copies[t] BY <1>1, <2>1 DEF Steps, Step, Copying
  <2> QED BY <2>1, <2>2, NamedWrite
<1> QED BY <1>2, <1>3, <1>4 DEF KeyOps

LEMMA NamedTeamOps ==
  ASSUME Inductive, Named, NEW t \in Threads, TeamOps(t) PROVE Named'
<1>1. TypeOK /\ Steps BY DEF Inductive
<1>0. \A u \in Threads : team_id[u] \in Names BY DEF Named
<1>2. CASE CreateTeam(t)
  <2>1. PICK m \in Teams \ DOMAIN teams : teams' = With(teams, m, EmptyTeam)
    BY <1>2 DEF CreateTeam
  <2>2. DOMAIN teams' = DOMAIN teams \cup {m} BY <2>1 DEF With
  <2>3. UNCHANGED <<keys, spend_logs, team_id, copies>>
    BY <1>2 DEF CreateTeam, locals
  <2> QED BY <1>0, <2>2, <2>3, NamedKeep
<1>3. CASE AddGetKey(t)
  <2>1. PICK j \in DOMAIN keys, m \in DOMAIN teams :
          /\ Copy(t, j, [keys[j] EXCEPT !.team_id = m])
          /\ team_id' = [team_id EXCEPT ![t] = m]
    BY <1>3 DEF AddGetKey
  <2>2. UNCHANGED <<keys, teams, spend_logs>> BY <1>3 DEF AddGetKey, store
  <2>3. keys[j] \in VirtualKey /\ m \in TeamIds BY <1>1 DEF TypeOK, TeamIds
  <2>4. /\ [keys[j] EXCEPT !.team_id = m] \in VirtualKey
        /\ [keys[j] EXCEPT !.team_id = m].team_id = m
    BY <2>3 DEF VirtualKey
  <2>5. \A u \in Threads : team_id'[u] \in Names
    BY <1>0, <1>1, <2>1 DEF Names, TypeOK
  <2> QED BY <2>1, <2>2, <2>4, <2>5, NamedCopy DEF Names
<1>4. CASE AddGetTeam(t)
  <2>1. /\ UNCHANGED <<keys, teams, spend_logs, team_id>>
        /\ copies' = copies \/ copies' = [copies EXCEPT ![t] = NoCopies]
    BY <1>4 DEF AddGetTeam, store
  <2> QED BY <1>0, <2>1, NamedKeep
<1>5. CASE AddUpdateTeam(t) \/ RemoveUpdateTeam(t)
  <2>1. UNCHANGED <<keys, spend_logs, team_id, copies>> /\ UpdateTeam(t)
    BY <1>5 DEF AddUpdateTeam, RemoveUpdateTeam
  <2> QED BY <1>0, <2>1, TeamsStay, NamedKeep
<1>6. CASE AddUpdateKey(t) \/ RemoveUpdateKey(t)
  <2>1. /\ UpdateKey(t, key_id[t]) /\ pc[t] \in {"add_update_key", "remove_update_key"}
        /\ UNCHANGED <<teams, spend_logs, team_id>>
    BY <1>6 DEF AddUpdateKey, RemoveUpdateKey
  <2>2. key_id[t] \in DOMAIN copies[t] BY <1>1, <2>1 DEF Steps, Step, Copying
  <2> QED BY <2>1, <2>2, NamedWrite
<1>7. CASE RemoveGetTeam(t)
  <2>1. PICK m \in DOMAIN teams : \E changed : CopyTeam(t, m, changed)
    BY <1>7 DEF RemoveGetTeam
  <2>2. UNCHANGED <<keys, teams, spend_logs, copies>>
    BY <1>7 DEF RemoveGetTeam, store
  <2>3. \A u \in Threads : team_id'[u] \in Names
    BY <1>0, <1>1, <2>1 DEF Names, TypeOK, CopyTeam
  <2> QED BY <2>2, <2>3, NamedKeep
<1>8. CASE RemoveGetKey(t)
  <2> DEFINE j == key_id[t]
  <2>1. /\ Copy(t, j, [keys[j] EXCEPT !.team_id = NoTeam])
        /\ UNCHANGED <<keys, teams, spend_logs, team_id>> /\ pc[t] = "remove_get_key"
    BY <1>8 DEF RemoveGetKey, store
  <2>2. j \in DOMAIN keys BY <1>1, <2>1 DEF Steps, Step, OneKey, Stages
  <2>3. keys[j] \in VirtualKey BY <1>1, <2>2 DEF TypeOK
  <2>4. /\ [keys[j] EXCEPT !.team_id = NoTeam] \in VirtualKey
        /\ [keys[j] EXCEPT !.team_id = NoTeam].team_id = NoTeam
    BY <2>3 DEF VirtualKey, TeamIds
  <2>5. \A u \in Threads : team_id'[u] \in Names BY <1>0, <2>1
  <2> HIDE DEF j
  <2> QED BY <2>1, <2>2, <2>4, <2>5, NamedCopy DEF Names
<1> QED BY <1>2, <1>3, <1>4, <1>5, <1>6, <1>7, <1>8 DEF TeamOps

LEMMA NamedBudgetOps ==
  ASSUME Inductive, Named, NEW t \in Threads, BudgetOps(t) PROVE Named'
<1>1. TypeOK /\ Steps BY DEF Inductive
<1>0. \A u \in Threads : team_id[u] \in Names BY DEF Named
<1>2. CASE RecordGetKey(t)
  <2>1. PICK j \in DOMAIN keys : /\ Copy(t, j, Charged(keys[j]))
                                 /\ team_id' = [team_id EXCEPT ![t] = keys[j].team_id]
    BY <1>2 DEF RecordGetKey
  <2>2. UNCHANGED <<keys, teams, spend_logs>> BY <1>2 DEF RecordGetKey, store
  <2>3. keys[j] \in VirtualKey BY <1>1 DEF TypeOK
  <2>4. Charged(keys[j]) \in VirtualKey BY <1>1, <2>3, ChangedKey
  <2>5. Charged(keys[j]).team_id = keys[j].team_id BY <2>3 DEF VirtualKey, Charged
  <2>6. keys[j].team_id \in Names BY DEF Named
  <2>7. \A u \in Threads : team_id'[u] \in Names
    BY <1>0, <1>1, <2>1, <2>6 DEF TypeOK
  <2> QED BY <2>1, <2>2, <2>4, <2>5, <2>6, <2>7, NamedCopy
<1>3. CASE RecordUpdateKey(t)
  <2>1. /\ UpdateKey(t, key_id[t]) /\ pc[t] = "record_update_key"
        /\ UNCHANGED <<teams, spend_logs, team_id>>
    BY <1>3 DEF RecordUpdateKey
  <2>2. key_id[t] \in DOMAIN copies[t] BY <1>1, <2>1 DEF Steps, Step, Copying
  <2> QED BY <2>1, <2>2, NamedWrite
<1>4. CASE RecordGetTeam(t)
  <2>1. UNCHANGED <<keys, teams, spend_logs, copies>>
    BY <1>4 DEF RecordGetTeam, store
  <2>2. \A u \in Threads : team_id'[u] \in Names
    BY <1>0, <1>1, <1>4 DEF RecordGetTeam, CopyTeam, TypeOK
  <2> QED BY <2>1, <2>2, NamedKeep
<1>5. CASE RecordUpdateTeam(t)
  <2>1. UNCHANGED <<keys, spend_logs, team_id, copies>> /\ UpdateTeam(t)
    BY <1>5 DEF RecordUpdateTeam
  <2> QED BY <1>0, <2>1, TeamsStay, NamedKeep
<1>6. CASE RecordSpend(t)
  <2> DEFINE rec == [key_id |-> key_id[t], team_id |-> team_id[t]]
             n   == Len(spend_logs)
  <2>1. /\ UNCHANGED <<keys, teams, team_id, copies>> /\ pc[t] = "record_spend"
        /\ spend_logs' = Append(spend_logs, rec)
    BY <1>6 DEF RecordSpend
  <2>2. rec.key_id \in DOMAIN keys /\ rec.team_id \in Names
    BY <1>0, <1>1, <2>1 DEF Steps, Step, OneKey, Stages
  <2>3. spend_logs \in Seq(SpendRecord) BY <1>1 DEF TypeOK
  <2> HIDE DEF rec
  <2>4. \A i \in DOMAIN spend_logs' :
          spend_logs'[i] = rec \/ (i \in DOMAIN spend_logs /\ spend_logs'[i] = spend_logs[i])
    BY <2>1, <2>3
  <2> QED BY <2>1, <2>2, <2>4 DEF Named, Names
<1>7. CASE ResetListKeys(t)
  <2> DEFINE expired == {k \in DOMAIN keys :
                           keys[k].windowed /\ now >= keys[k].reset_at}
             renewed == [k \in expired |-> Renewed(keys[k])]
  <2>1. /\ copies' = [copies EXCEPT ![t] = renewed]
        /\ UNCHANGED <<keys, teams, spend_logs, team_id>>
    BY <1>7 DEF ResetListKeys, store
  <2>2. /\ copies'[t] = renewed
        /\ \A u \in Threads : u # t => copies'[u] = copies[u]
    BY <1>1, <2>1 DEF TypeOK
  <2>3. \A k \in expired : Renewed(keys[k]).team_id = keys[k].team_id
    BY <1>1 DEF TypeOK, VirtualKey, Renewed
  <2>4. \A u \in Threads : \A k \in DOMAIN copies'[u] : copies'[u][k].team_id \in Names
    BY <2>2, <2>3 DEF Named
  <2> QED BY <2>1, <2>4 DEF Named, Names
<1>8. CASE ResetUpdateKey(t)
  <2>1. /\ \E k \in DOMAIN copies[t] : UpdateKey(t, k)
        /\ UNCHANGED <<teams, spend_logs, team_id>>
    BY <1>8 DEF ResetUpdateKey
  <2> QED BY <2>1, NamedWrite
<1> QED BY <1>2, <1>3, <1>4, <1>5, <1>6, <1>7, <1>8 DEF BudgetOps

LEMMA NamedStep == Inductive /\ Named /\ [Next]_vars => Named'
<1> SUFFICES ASSUME Inductive, Named, [Next]_vars PROVE Named' OBVIOUS
<1>1. CASE UNCHANGED <<store, locals>>
  BY <1>1 DEF Named, Names, store, locals
<1>2. CASE \E t \in Threads : KeyOps(t) \/ TeamOps(t) \/ BudgetOps(t)
  BY <1>2, NamedKeyOps, NamedTeamOps, NamedBudgetOps
<1>3. ASSUME NEW t \in Threads, StoreError(t) PROVE Named'
  <2>1. UNCHANGED <<keys, teams, spend_logs, team_id>>
        /\ copies' = [copies EXCEPT ![t] = NoCopies]
    BY <1>3 DEF StoreError, store
  <2> QED BY <2>1, NamedKeep DEF Named
<1>4. CASE DayPasses BY <1>1, <1>4 DEF DayPasses
<1>5. CASE UNCHANGED vars BY <1>1, <1>5 DEF vars
<1> QED BY <1>2, <1>3, <1>4, <1>5 DEF Next, Finished

LEMMA NamedAlways == Spec => []Named
<1>1. Init => Named
  BY DEF Init, Named, Names, NoCopies
<1> QED BY <1>1, NamedStep, InductiveAlways, PTL DEF Spec

----------------------------------------------------------------------------
(* The keys of one thread alone.                                           *)

KeyLedger ==
  /\ \A k \in DOMAIN keys :
       Billed(k) <= keys[k].total /\ (~failed => keys[k].total = Billed(k))
  /\ \A t \in Threads : \A k \in DOMAIN copies[t] :
       copies[t][k].total = keys[k].total + Slack(t)
  /\ \A t \in Threads : pc[t] = "record_update_key" =>
       DOMAIN copies[t] \subseteq {key_id[t]}

\* Nothing is booked for a key that does not exist.
LEMMA NothingBooked ==
  ASSUME Inductive, Named, NEW j, j \notin DOMAIN keys
  PROVE  Billed(j) = 0
<1>1. Logged(j) = {} BY DEF Logged, Named
<1>2. Charging(j) = {}
  BY DEF Charging, Inductive, Steps, Step, OneKey, Stages
<1> QED BY <1>1, <1>2, FS_EmptySet DEF Billed

LEMMA KeyLedgerNew ==
  ASSUME Inductive, Named, KeyLedger, NEW t \in Threads, GenerateKey(t)
  PROVE  KeyLedger'
<1>1. PICK j \in Keys \ DOMAIN keys :
        /\ DOMAIN keys' = DOMAIN keys \cup {j} /\ keys'[j].total = 0
        /\ \A k \in DOMAIN keys : keys'[k] = keys[k]
  BY NewKeyFacts
<1>2. UNCHANGED <<locals, failed>> /\ \A k : Billed(k)' = Billed(k)
  BY NewKeyFacts
<1>3. Billed(j) = 0 BY NothingBooked
<1>4. \A k \in DOMAIN keys' :
        Billed(k)' <= keys'[k].total /\ (~failed' => keys'[k].total = Billed(k)')
  BY <1>1, <1>2, <1>3 DEF KeyLedger
<1>5. \A u \in Threads : DOMAIN copies[u] \subseteq DOMAIN keys
  BY DEF Inductive, TypeOK
<1>6. \A u \in Threads : \A k \in DOMAIN copies'[u] :
        copies'[u][k].total = keys'[k].total + Slack(u)'
  BY <1>1, <1>2, <1>5 DEF KeyLedger, Slack, locals
<1>7. \A u \in Threads : pc'[u] = "record_update_key" =>
        DOMAIN copies'[u] \subseteq {key_id'[u]}
  BY <1>2 DEF KeyLedger, locals
<1> QED BY <1>4, <1>6, <1>7 DEF KeyLedger

\* A copy is written over the very total it was taken from.
LEMMA KeyLedgerWrite ==
  ASSUME Inductive, KeyLedger, NEW t \in Threads, Threads = {t}, Writes(t)
  PROVE  KeyLedger'
<1>1. PICK j \in DOMAIN copies[t] : UpdateKey(t, j) BY DEF Writes
<1>2. /\ DOMAIN keys' = DOMAIN keys
      /\ keys'[j] = copies[t][j]
      /\ \A i \in DOMAIN keys : i # j => keys'[i] = keys[i]
      /\ DOMAIN copies'[t] = DOMAIN copies[t] \ {j}
      /\ \A i \in DOMAIN copies'[t] : copies'[t][i] = copies[t][i]
  BY <1>1, UpdateKeyFacts DEF Inductive
<1>3. Calm(t) /\ failed' = failed /\ \A k : Billed(k)' = Billed(k)
  BY DEF Writes, Steady
<1>4. Slack(t) = 0 /\ Slack(t)' = 0 BY <1>3 DEF Calm, Slack
<1>5. j \in DOMAIN keys /\ DOMAIN copies[t] \subseteq DOMAIN keys
      /\ keys[j].total \in Nat
  BY Totals DEF Inductive, TypeOK
<1>6. keys'[j].total = keys[j].total
  BY <1>2, <1>4, <1>5 DEF KeyLedger
<1>7. \A k \in DOMAIN keys : keys'[k].total = keys[k].total
  BY <1>2, <1>6
<1>8. \A k \in DOMAIN keys' :
        Billed(k)' <= keys'[k].total /\ (~failed' => keys'[k].total = Billed(k)')
  BY <1>2, <1>3, <1>7 DEF KeyLedger
<1>9. \A k \in DOMAIN copies'[t] : copies'[t][k].total = keys'[k].total + Slack(t)'
  BY <1>2, <1>4, <1>5, <1>7 DEF KeyLedger
<1> QED BY <1>3, <1>8, <1>9 DEF KeyLedger, Calm

\* record_usage writes one usage more, and it is booked.
LEMMA KeyLedgerRecord ==
  ASSUME Inductive, KeyLedger, NEW t \in Threads, Threads = {t}, RecordUpdateKey(t)
  PROVE  KeyLedger'
<1>0. PICK j : j = key_id[t] OBVIOUS
<1>1. TypeOK /\ Steps BY DEF Inductive
<1>2. /\ pc[t] = "record_update_key" /\ UpdateKey(t, j) /\ UNCHANGED <<key_id, failed>>
      /\ \E stage \in {"record_spend", "record_get_team"} : Goto(t, stage)
  BY <1>0 DEF RecordUpdateKey
<1>3. j \in DOMAIN copies[t] BY <1>0, <1>1, <1>2 DEF Steps, Step, Copying
<1>4. /\ DOMAIN keys' = DOMAIN keys
      /\ keys'[j] = copies[t][j]
      /\ \A i \in DOMAIN keys : i # j => keys'[i] = keys[i]
      /\ DOMAIN copies'[t] = DOMAIN copies[t] \ {j}
  BY <1>1, <1>2, <1>3, UpdateKeyFacts
<1>5. DOMAIN copies'[t] = {} BY <1>0, <1>2, <1>4 DEF KeyLedger
<1>6. pc'[t] # "record_update_key" BY <1>1, <1>2 DEF Goto, TypeOK
<1>7. \A k : Billed(k)' = IF k = j THEN Billed(k) + 1 ELSE Billed(k)
  BY <1>0, BilledByWrite
<1>8. j \in DOMAIN keys /\ keys[j].total \in Nat /\ Billed(j) \in Nat
  BY <1>1, <1>3, Totals, BilledNat DEF TypeOK
<1>9. keys'[j].total = keys[j].total + 1
  BY <1>2, <1>3, <1>4 DEF KeyLedger, Slack
<1>10. Billed(j) <= keys[j].total /\ (~failed => keys[j].total = Billed(j))
  BY <1>8 DEF KeyLedger
<1>11. Billed(j)' = Billed(j) + 1 BY <1>7
<1>12. Billed(j)' <= keys'[j].total /\ (~failed' => keys'[j].total = Billed(j)')
  BY <1>2, <1>8, <1>9, <1>10, <1>11
<1>13. ASSUME NEW k \in DOMAIN keys'
       PROVE  Billed(k)' <= keys'[k].total /\ (~failed' => keys'[k].total = Billed(k)')
  <2>1. CASE k = j BY <1>12, <2>1
  <2>2. CASE k # j BY <1>2, <1>4, <1>7, <2>2 DEF KeyLedger
  <2> QED BY <2>1, <2>2
<1> QED BY <1>5, <1>6, <1>13 DEF KeyLedger

LEMMA KeyLedgerKeyStep ==
  ASSUME Inductive, Named, KeyLedger, NEW t \in Threads, Threads = {t}, KeyStep(t)
  PROVE  KeyLedger'
<1>1. TypeOK BY DEF Inductive
<1>2. CASE Quiet(t)
  <2>1. \A k \in DOMAIN copies'[t] : k \in DOMAIN copies[t] /\ copies'[t][k] = copies[t][k]
    <3>1. DOMAIN copies = Threads /\ DOMAIN NoCopies = {} BY <1>1 DEF TypeOK, NoCopies
    <3> QED BY <1>2, <3>1 DEF Quiet
  <2>2. Slack(t)' = Slack(t) BY <1>2 DEF Quiet, Calm, Slack
  <2>3. UNCHANGED <<keys, failed>> /\ (\A k : Billed(k)' = Billed(k))
        /\ pc'[t] # "record_update_key"
    BY <1>2 DEF Quiet, Steady, Calm
  <2> QED BY <2>1, <2>2, <2>3 DEF KeyLedger
<1>3. CASE Reads(t)
  <2>1. PICK j \in DOMAIN keys, changed \in VirtualKey :
          Copy(t, j, changed) /\ changed.total = keys[j].total + Slack(t)'
    BY <1>3 DEF Reads
  <2>2. UNCHANGED <<keys, failed>> /\ \A k : Billed(k)' = Billed(k)
    BY <1>3 DEF Reads, Steady
  <2>3. DOMAIN copies'[t] = {j} /\ copies'[t][j] = changed /\ key_id'[t] = j
    BY <1>1, <2>1, <2>2, CopyFacts
  <2> QED BY <2>1, <2>2, <2>3 DEF KeyLedger
<1>4. CASE Lists(t)
  <2>1. /\ UNCHANGED <<keys, failed>> /\ \A k : Billed(k)' = Billed(k)
        /\ pc'[t] # "record_update_key" /\ Slack(t)' = 0
    BY <1>4 DEF Lists, Steady, Calm, Slack
  <2>2. \A k \in DOMAIN copies'[t] :
          /\ k \in DOMAIN keys /\ copies'[t][k].total = keys[k].total
          /\ keys[k].total \in Nat
    BY <1>1, <1>4, Totals DEF Lists
  <2>3. \A k \in DOMAIN copies'[t] : copies'[t][k].total = keys'[k].total + Slack(t)'
    BY <2>1, <2>2
  <2> QED BY <2>1, <2>3 DEF KeyLedger
<1>5. CASE Writes(t) BY <1>5, KeyLedgerWrite
<1>6. CASE GenerateKey(t) BY <1>6, KeyLedgerNew
<1>7. CASE RecordUpdateKey(t) BY <1>7, KeyLedgerRecord
<1> QED BY <1>2, <1>3, <1>4, <1>5, <1>6, <1>7 DEF KeyStep

\* The usage in flight is written off: the key keeps it, the log never gets it.
LEMMA KeyLedgerError ==
  ASSUME Inductive, KeyLedger, NEW t \in Threads, Threads = {t}, StoreError(t)
  PROVE  KeyLedger'
<1>1. TypeOK BY DEF Inductive
<1>2. /\ UNCHANGED <<keys, spend_logs>> /\ failed' = TRUE /\ pc'[t] = "idle"
      /\ copies'[t] = NoCopies
  BY <1>1 DEF StoreError, store, Goto, TypeOK
<1>3. ASSUME NEW k \in DOMAIN keys PROVE Billed(k)' <= keys[k].total
  <2>1. Logged(k)' = Logged(k) /\ Charging(k)' = {}
    BY <1>2 DEF Logged, Charging
  <2>2. Billed(k)' = Cardinality(Logged(k))
    BY <1>1, <2>1, FS_EmptySet, BilledNat DEF Billed
  <2>3. Billed(k) <= keys[k].total BY DEF KeyLedger
  <2> QED BY <1>1, <2>2, <2>3, BilledNat, Totals DEF Billed
<1>4. DOMAIN copies'[t] = {} BY <1>2 DEF NoCopies
<1> QED BY <1>2, <1>3, <1>4 DEF KeyLedger

LEMMA KeyLedgerStep ==
  ASSUME NEW t \in Threads, Threads = {t}
  PROVE  Inductive /\ Named /\ KeyLedger /\ [Next]_vars => KeyLedger'
<1> SUFFICES ASSUME Inductive, Named, KeyLedger, [Next]_vars PROVE KeyLedger' OBVIOUS
<1>1. CASE UNCHANGED <<keys, spend_logs, locals, failed>>
  <2>1. \A k : Billed(k)' = Billed(k)
    BY <1>1 DEF Billed, Logged, Charging, locals
  <2> QED BY <1>1, <2>1 DEF KeyLedger, Slack, locals
<1>2. CASE \E u \in Threads : KeyOps(u) \/ TeamOps(u) \/ BudgetOps(u)
  <2>1. KeyStep(t) BY <1>2, OperationsAreKeySteps
  <2> QED BY <2>1, KeyLedgerKeyStep
<1>3. CASE \E u \in Threads : StoreError(u) BY <1>3, KeyLedgerError
<1>4. CASE DayPasses BY <1>1, <1>4 DEF DayPasses, store
<1>5. CASE UNCHANGED vars BY <1>1, <1>5 DEF vars, store
<1> QED BY <1>2, <1>3, <1>4, <1>5 DEF Next, Finished

----------------------------------------------------------------------------
(* The teams of one thread alone.                                          *)

TeamLogged(m) == {i \in DOMAIN spend_logs : spend_logs[i].team_id = m}

\* Threads whose record_usage has charged team m and not logged it yet.
TeamCharging(m) == {t \in Threads : pc[t] = "record_spend" /\ team_id[t] = m}

TeamBilled(m) == Cardinality(TeamLogged(m)) + Cardinality(TeamCharging(m))

\* The stages that are about to write their copy of the team.
TeamWriting == {"add_update_team", "remove_update_team", "record_update_team"}

TeamSlack(t) == IF pc[t] = "record_update_team" THEN 1 ELSE 0

TeamCopied(t) ==
  pc[t] \in TeamWriting =>
    team_copy[t].spent = teams[team_id[t]].spent + TeamSlack(t)

TeamsBooked ==
  \A m \in DOMAIN teams :
    TeamBilled(m) <= teams[m].spent /\ (~failed => teams[m].spent = TeamBilled(m))

TeamLedger == TeamsBooked /\ \A t \in Threads : TeamCopied(t)

LEMMA TeamBilledNat ==
  ASSUME TypeOK, NEW m
  PROVE  /\ IsFiniteSet(TeamLogged(m)) /\ IsFiniteSet(TeamCharging(m))
         /\ Cardinality(TeamLogged(m)) \in Nat /\ Cardinality(TeamCharging(m)) \in Nat
         /\ TeamBilled(m) \in Nat
<1>1. TeamCharging(m) \subseteq Threads BY DEF TeamCharging
<1>2. IsFiniteSet(TeamCharging(m)) BY <1>1, ThreadsAssumption, FS_Subset
<1>3. spend_logs \in Seq(SpendRecord) BY DEF TypeOK
<1>4. DOMAIN spend_logs = 1 .. Len(spend_logs) /\ Len(spend_logs) \in Nat
  BY <1>3
<1>5. IsFiniteSet(1 .. Len(spend_logs)) BY <1>4, FS_Interval
<1>6. TeamLogged(m) \subseteq 1 .. Len(spend_logs) BY <1>4 DEF TeamLogged
<1>7. IsFiniteSet(TeamLogged(m)) BY <1>5, <1>6, FS_Subset
<1>8. Cardinality(TeamLogged(m)) \in Nat /\ Cardinality(TeamCharging(m)) \in Nat
  BY <1>2, <1>7, FS_CardinalityType
<1> QED BY <1>2, <1>7, <1>8 DEF TeamBilled

LEMMA TeamTotals ==
  ASSUME TypeOK
  PROVE  /\ \A m \in DOMAIN teams : teams[m] \in Team /\ teams[m].spent \in Nat
         /\ \A t \in Threads : team_copy[t] \in Team /\ team_copy[t].spent \in Nat
<1>1. \A m \in DOMAIN teams : teams[m] \in Team BY DEF TypeOK
<1>2. \A t \in Threads : team_copy[t] \in Team BY DEF TypeOK
<1> QED BY <1>1, <1>2 DEF Team

\* A step that neither begins nor ends the charge of team m.
LEMMA TeamBilledSame ==
  ASSUME NEW t \in Threads, Threads = {t}, NEW m, UNCHANGED spend_logs,
         (pc[t] = "record_spend" /\ team_id[t] = m)
           <=> (pc'[t] = "record_spend" /\ team_id'[t] = m)
  PROVE  TeamBilled(m)' = TeamBilled(m)
<1>1. TeamLogged(m)' = TeamLogged(m) BY DEF TeamLogged
<1>2. TeamCharging(m)' = TeamCharging(m) BY DEF TeamCharging
<1> QED BY <1>1, <1>2 DEF TeamBilled

\* The step leaves the teams alone, and has no team to write or has read it.
LEMMA TeamLedgerKeep ==
  ASSUME Inductive, TeamLedger, NEW t \in Threads, Threads = {t},
         UNCHANGED <<teams, spend_logs, failed>>,
         \A m \in DOMAIN teams :
           (pc[t] = "record_spend" /\ team_id[t] = m)
             <=> (pc'[t] = "record_spend" /\ team_id'[t] = m),
         TeamCopied(t)'
  PROVE  TeamLedger'
<1>1. \A m \in DOMAIN teams : TeamBilled(m)' = TeamBilled(m) BY TeamBilledSame
<1> QED BY <1>1 DEF TeamLedger, TeamsBooked

\* A step that has nothing to do with a team or its charge.
LEMMA TeamLedgerQuiet ==
  ASSUME Inductive, TeamLedger, NEW t \in Threads, Threads = {t},
         UNCHANGED <<teams, spend_logs, failed>>,
         NEW stage, Goto(t, stage), stage \notin TeamWriting \cup {"record_spend"},
         pc[t] # "record_spend"
  PROVE  TeamLedger'
<1>1. pc'[t] = stage BY DEF Goto, Inductive, TypeOK
<1>2. TeamCopied(t)' BY <1>1 DEF TeamCopied
<1> QED BY <1>1, <1>2, TeamLedgerKeep

\* The team is written as it stands, or charged and booked.
LEMMA TeamLedgerWrite ==
  ASSUME Inductive, TeamLedger, NEW t \in Threads, Threads = {t},
         pc[t] \in TeamWriting, UpdateTeam(t),
         UNCHANGED <<spend_logs, failed, team_id>>,
         NEW stage, Goto(t, stage), stage \notin TeamWriting,
         stage = "record_spend" <=> pc[t] = "record_update_team"
  PROVE  TeamLedger'
<1>0. PICK j : j = team_id[t] OBVIOUS
<1>1. TypeOK /\ Steps BY DEF Inductive
<1>2. j \in DOMAIN teams BY <1>0, <1>1 DEF Steps, Step, TeamRead, TeamWriting
<1>3. /\ DOMAIN teams' = DOMAIN teams /\ teams'[j] = team_copy[t]
      /\ \A m \in DOMAIN teams : m # j => teams'[m] = teams[m]
  BY <1>0, <1>2 DEF UpdateTeam
<1>4. pc'[t] = stage BY <1>1 DEF Goto, TypeOK
<1>5. TeamCopied(t)' BY <1>4 DEF TeamCopied
<1>6. ASSUME NEW m, m # j PROVE TeamBilled(m)' = TeamBilled(m)
  BY <1>0, <1>6, TeamBilledSame
<1>7. TeamBilled(j)' = TeamBilled(j) + TeamSlack(t)
  <2>1. TeamBilled(j) \in Nat BY <1>1, TeamBilledNat
  <2>2. CASE pc[t] # "record_update_team"
    <3>1. pc[t] # "record_spend" /\ pc'[t] # "record_spend"
      BY <1>4, <2>2 DEF TeamWriting
    <3>2. TeamBilled(j)' = TeamBilled(j) BY <3>1, TeamBilledSame
    <3> QED BY <2>1, <2>2, <3>2 DEF TeamSlack
  <2>3. CASE pc[t] = "record_update_team"
    <3>1. TeamLogged(j)' = TeamLogged(j) BY DEF TeamLogged
    <3>2. TeamCharging(j)' = TeamCharging(j) \cup {t} /\ t \notin TeamCharging(j)
      BY <1>0, <1>4, <2>3 DEF TeamCharging
    <3>3. Cardinality(TeamCharging(j)') = Cardinality(TeamCharging(j)) + 1
      BY <1>1, <3>2, TeamBilledNat, FS_AddElement
    <3> QED BY <1>1, <2>3, <3>1, <3>3, TeamBilledNat DEF TeamBilled, TeamSlack
  <2> QED BY <2>2, <2>3
<1>8. teams'[j].spent = teams[j].spent + TeamSlack(t)
  BY <1>0, <1>3 DEF TeamLedger, TeamCopied
<1>9. TeamBilled(j) <= teams[j].spent /\ (~failed => teams[j].spent = TeamBilled(j))
  BY <1>2 DEF TeamLedger, TeamsBooked
<1>10. /\ TeamBilled(j) \in Nat /\ teams[j].spent \in Nat /\ TeamSlack(t) \in Nat
  BY <1>1, <1>2, TeamBilledNat, TeamTotals DEF TeamSlack
<1>11. TeamBilled(j)' <= teams'[j].spent /\ (~failed' => teams'[j].spent = TeamBilled(j)')
  BY <1>7, <1>8, <1>9, <1>10
<1>12. ASSUME NEW m \in DOMAIN teams'
       PROVE  TeamBilled(m)' <= teams'[m].spent
              /\ (~failed' => teams'[m].spent = TeamBilled(m)')
  <2>1. CASE m = j BY <1>11, <2>1
  <2>2. CASE m # j BY <1>3, <1>6, <2>2 DEF TeamLedger, TeamsBooked
  <2> QED BY <2>1, <2>2
<1> QED BY <1>5, <1>12 DEF TeamLedger, TeamsBooked

\* A new team has spent nothing, and nothing is booked for it.
LEMMA TeamLedgerNew ==
  ASSUME Inductive, Named, TeamLedger, NEW t \in Threads, Threads = {t}, CreateTeam(t)
  PROVE  TeamLedger'
<1>1. TypeOK BY DEF Inductive
<1>2. PICK j \in Teams \ DOMAIN teams : teams' = With(teams, j, EmptyTeam)
  BY DEF CreateTeam
<1>3. /\ DOMAIN teams' = DOMAIN teams \cup {j} /\ teams'[j].spent = 0
      /\ \A m \in DOMAIN teams : teams'[m] = teams[m]
  BY <1>2 DEF With, EmptyTeam
<1>4. UNCHANGED <<locals, spend_logs, failed>> /\ pc[t] = "idle"
  BY DEF CreateTeam, Call
<1>5. \A m : TeamBilled(m)' = TeamBilled(m)
  BY <1>4 DEF TeamBilled, TeamLogged, TeamCharging, locals
<1>6. TeamBilled(j) = 0
  <2>1. j \notin Names BY <1>2, TeamNames DEF Names
  <2>2. TeamLogged(j) = {} BY <2>1 DEF TeamLogged, Named
  <2>3. TeamCharging(j) = {} BY <1>4 DEF TeamCharging
  <2> QED BY <2>2, <2>3, FS_EmptySet DEF TeamBilled
<1>7. TeamCopied(t)' BY <1>4 DEF TeamCopied, TeamWriting, locals
<1>8. \A m \in DOMAIN teams' :
        TeamBilled(m)' <= teams'[m].spent
        /\ (~failed' => teams'[m].spent = TeamBilled(m)')
  BY <1>3, <1>4, <1>5, <1>6 DEF TeamLedger, TeamsBooked
<1> QED BY <1>7, <1>8 DEF TeamLedger, TeamsBooked

\* record_usage logs: the usage moves from the charge to the log.
LEMMA TeamBilledByLog ==
  ASSUME Inductive, NEW t \in Threads, Threads = {t}, RecordSpend(t)
  PROVE  \A m : TeamBilled(m)' = TeamBilled(m)
<1> SUFFICES ASSUME NEW m PROVE TeamBilled(m)' = TeamBilled(m) OBVIOUS
<1>1. TypeOK /\ pc[t] = "record_spend" BY DEF Inductive, RecordSpend
<1> DEFINE rec == [key_id |-> key_id[t], team_id |-> team_id[t]]
           n   == Len(spend_logs)
<1>2. /\ pc'[t] = "idle" /\ team_id' = team_id
      /\ spend_logs' = Append(spend_logs, rec)
  BY <1>1 DEF RecordSpend, Goto, TypeOK
<1>3. spend_logs \in Seq(SpendRecord) BY <1>1 DEF TypeOK
<1>4. rec.team_id = team_id[t] OBVIOUS
<1> HIDE DEF rec
<1>5. /\ n \in Nat /\ DOMAIN spend_logs = 1 .. n /\ DOMAIN spend_logs' = 1 .. n + 1
      /\ spend_logs'[n + 1] = rec
      /\ \A i \in 1 .. n : spend_logs'[i] = spend_logs[i]
  BY <1>2, <1>3
<1>6. CASE m = team_id[t]
  <2>1. TeamLogged(m)' = TeamLogged(m) \cup {n + 1} /\ n + 1 \notin TeamLogged(m)
    BY <1>4, <1>5, <1>6 DEF TeamLogged
  <2>2. TeamCharging(m)' = TeamCharging(m) \ {t} /\ t \in TeamCharging(m)
    BY <1>1, <1>2, <1>6 DEF TeamCharging
  <2>3. Cardinality(TeamLogged(m)') = Cardinality(TeamLogged(m)) + 1
    BY <1>1, <2>1, TeamBilledNat, FS_AddElement
  <2>4. Cardinality(TeamCharging(m)') = Cardinality(TeamCharging(m)) - 1
    BY <1>1, <2>2, TeamBilledNat, FS_RemoveElement
  <2> QED BY <1>1, <2>3, <2>4, TeamBilledNat DEF TeamBilled
<1>7. CASE m # team_id[t]
  <2>1. TeamLogged(m)' = TeamLogged(m) BY <1>4, <1>5, <1>7 DEF TeamLogged
  <2>2. TeamCharging(m)' = TeamCharging(m) BY <1>1, <1>2, <1>7 DEF TeamCharging
  <2> QED BY <2>1, <2>2 DEF TeamBilled
<1> QED BY <1>6, <1>7

LEMMA TeamLedgerKeyOps ==
  ASSUME Inductive, TeamLedger, NEW t \in Threads, Threads = {t}, KeyOps(t)
  PROVE  TeamLedger'
<1>1. CASE GenerateKey(t)
  <2>1. UNCHANGED <<teams, spend_logs, failed, locals>> BY <1>1 DEF GenerateKey
  <2>2. TeamCopied(t)' BY <2>1 DEF TeamLedger, TeamCopied, TeamSlack, locals
  <2> QED BY <2>1, <2>2, TeamLedgerKeep DEF locals
<1>2. CASE RevokeGetKey(t)
  BY <1>2, TeamLedgerQuiet DEF RevokeGetKey, store, Call, TeamWriting
<1>3. CASE RevokeUpdateKey(t)
  BY <1>3, TeamLedgerQuiet DEF RevokeUpdateKey, TeamWriting
<1> QED BY <1>1, <1>2, <1>3 DEF KeyOps

LEMMA TeamLedgerTeamOps ==
  ASSUME Inductive, Named, TeamLedger, NEW t \in Threads, Threads = {t}, TeamOps(t)
  PROVE  TeamLedger'
<1>1. TypeOK /\ Steps BY DEF Inductive
<1>2. CASE CreateTeam(t) BY <1>2, TeamLedgerNew
<1>3. CASE AddGetKey(t)
  BY <1>3, TeamLedgerQuiet DEF AddGetKey, store, Call, TeamWriting
<1>4. CASE AddGetTeam(t)
  <2> DEFINE m == team_id[t]
             k == key_id[t]
             joined == [teams[m] EXCEPT !.members = @ \cup {k}]
  <2>1. pc[t] = "add_get_team" /\ UNCHANGED <<teams, spend_logs, failed, team_id>>
    BY <1>4 DEF AddGetTeam, store
  <2>2. CASE k \in teams[m].members
    BY <1>4, <2>1, <2>2, TeamLedgerQuiet DEF AddGetTeam, TeamWriting
  <2>3. CASE k \notin teams[m].members
    <3>1. /\ pc' = [pc EXCEPT ![t] = "add_update_team"]
          /\ team_copy' = [team_copy EXCEPT ![t] = joined]
      BY <1>4, <2>3 DEF AddGetTeam, Goto
    <3>2. m \in DOMAIN teams BY <1>1, <2>1 DEF Steps, Step, TeamRead
    <3>3. teams[m] \in Team /\ teams[m].spent \in Nat BY <1>1, <3>2, TeamTotals
    <3>4. joined.spent = teams[m].spent BY <3>3 DEF Team
    <3> HIDE DEF joined
    <3>5. pc'[t] = "add_update_team" /\ team_copy'[t] = joined
      BY <1>1, <3>1 DEF TypeOK
    <3>6. TeamCopied(t)' BY <2>1, <3>3, <3>4, <3>5 DEF TeamCopied, TeamSlack
    <3> QED BY <2>1, <3>5, <3>6, TeamLedgerKeep
  <2> QED BY <2>2, <2>3
<1>5. CASE AddUpdateTeam(t) \/ RemoveUpdateTeam(t)
  <2>1. /\ pc[t] \in {"add_update_team", "remove_update_team"} /\ UpdateTeam(t)
        /\ UNCHANGED <<spend_logs, failed, team_id>>
        /\ \E stage \in {"add_update_key", "remove_get_key"} : Goto(t, stage)
    BY <1>5 DEF AddUpdateTeam, RemoveUpdateTeam
  <2> QED BY <2>1, TeamLedgerWrite DEF TeamWriting
<1>6. CASE AddUpdateKey(t) \/ RemoveUpdateKey(t)
  BY <1>6, TeamLedgerQuiet DEF AddUpdateKey, RemoveUpdateKey, TeamWriting
<1>7. CASE RemoveGetTeam(t)
  <2>1. PICK m \in DOMAIN teams : \E k \in teams[m].members :
          CopyTeam(t, m, [teams[m] EXCEPT !.members = @ \ {k}])
    BY <1>7 DEF RemoveGetTeam
  <2>2. PICK k \in teams[m].members :
          CopyTeam(t, m, [teams[m] EXCEPT !.members = @ \ {k}])
    BY <2>1
  <2> DEFINE left == [teams[m] EXCEPT !.members = @ \ {k}]
  <2>3. /\ pc[t] = "idle" /\ UNCHANGED <<teams, spend_logs, failed>>
        /\ pc' = [pc EXCEPT ![t] = "remove_update_team"]
    BY <1>7 DEF RemoveGetTeam, store, Call, Goto
  <2>4. teams[m] \in Team /\ teams[m].spent \in Nat BY <1>1, TeamTotals
  <2>5. left.spent = teams[m].spent BY <2>4 DEF Team
  <2>6. team_copy'[t] = left /\ team_id'[t] = m
    BY <1>1, <2>2 DEF CopyTeam, TypeOK
  <2> HIDE DEF left
  <2>7. pc'[t] = "remove_update_team" BY <1>1, <2>3 DEF TypeOK
  <2>8. TeamCopied(t)' BY <2>3, <2>4, <2>5, <2>6, <2>7 DEF TeamCopied, TeamSlack
  <2> QED BY <2>3, <2>7, <2>8, TeamLedgerKeep
<1>8. CASE RemoveGetKey(t)
  BY <1>8, TeamLedgerQuiet DEF RemoveGetKey, store, TeamWriting
<1> QED BY <1>2, <1>3, <1>4, <1>5, <1>6, <1>7, <1>8 DEF TeamOps

LEMMA TeamLedgerBudgetOps ==
  ASSUME Inductive, Named, TeamLedger, NEW t \in Threads, Threads = {t}, BudgetOps(t)
  PROVE  TeamLedger'
<1>1. TypeOK /\ Steps BY DEF Inductive
<1>2. CASE RecordGetKey(t)
  BY <1>2, TeamLedgerQuiet DEF RecordGetKey, store, Call, TeamWriting
<1>3. CASE RecordUpdateKey(t)
  <2>1. /\ pc[t] = "record_update_key" /\ UNCHANGED <<teams, spend_logs, failed, team_id>>
        /\ Goto(t, IF team_id[t] = NoTeam THEN "record_spend" ELSE "record_get_team")
    BY <1>3 DEF RecordUpdateKey
  <2>2. CASE team_id[t] # NoTeam
    BY <2>1, <2>2, TeamLedgerQuiet DEF TeamWriting
  <2>3. CASE team_id[t] = NoTeam
    <3>1. pc'[t] = "record_spend" BY <1>1, <2>1, <2>3 DEF Goto, TypeOK
    <3>2. \A m \in DOMAIN teams : m # NoTeam BY <1>1, TeamNames DEF TypeOK
    <3>3. TeamCopied(t)' BY <3>1 DEF TeamCopied, TeamWriting
    <3> QED BY <2>1, <2>3, <3>1, <3>2, <3>3, TeamLedgerKeep
  <2> QED BY <2>2, <2>3
<1>4. CASE RecordGetTeam(t)
  <2> DEFINE m == team_id[t]
             charged == [teams[m] EXCEPT !.spent = @ + 1]
  <2>1. pc[t] = "record_get_team" /\ UNCHANGED <<teams, spend_logs, failed>>
    BY <1>4 DEF RecordGetTeam, store
  <2>2. CASE m \in DOMAIN teams
    <3>1. CopyTeam(t, m, charged) /\ pc' = [pc EXCEPT ![t] = "record_update_team"]
      BY <1>4, <2>2 DEF RecordGetTeam, Goto
    <3>2. teams[m] \in Team /\ teams[m].spent \in Nat BY <1>1, <2>2, TeamTotals
    <3>3. charged.spent = teams[m].spent + 1 BY <3>2 DEF Team
    <3>4. team_copy'[t] = charged /\ team_id'[t] = m
      BY <1>1, <3>1 DEF CopyTeam, TypeOK
    <3> HIDE DEF charged
    <3>5. pc'[t] = "record_update_team" BY <1>1, <3>1 DEF TypeOK
    <3>6. TeamCopied(t)' BY <2>1, <3>3, <3>4, <3>5 DEF TeamCopied, TeamSlack
    <3> QED BY <2>1, <3>5, <3>6, TeamLedgerKeep
  <2>3. CASE m \notin DOMAIN teams
    <3>1. team_id' = team_id /\ pc' = [pc EXCEPT ![t] = "record_spend"]
      BY <1>4, <2>3 DEF RecordGetTeam, Goto
    <3>2. pc'[t] = "record_spend" BY <1>1, <3>1 DEF TypeOK
    <3>3. TeamCopied(t)' BY <3>2 DEF TeamCopied, TeamWriting
    <3> QED BY <2>1, <2>3, <3>1, <3>3, TeamLedgerKeep
  <2> QED BY <2>2, <2>3
<1>5. CASE RecordUpdateTeam(t)
  BY <1>5, TeamLedgerWrite DEF RecordUpdateTeam, TeamWriting
<1>6. CASE RecordSpend(t)
  <2>1. UNCHANGED <<teams, failed>> /\ pc'[t] = "idle"
    BY <1>1, <1>6 DEF RecordSpend, Goto, TypeOK
  <2>2. \A m : TeamBilled(m)' = TeamBilled(m) BY <1>6, TeamBilledByLog
  <2>3. TeamCopied(t)' BY <2>1 DEF TeamCopied, TeamWriting
  <2> QED BY <2>1, <2>2, <2>3 DEF TeamLedger, TeamsBooked
<1>7. CASE ResetListKeys(t)
  BY <1>7, TeamLedgerQuiet DEF ResetListKeys, store, Call, TeamWriting
<1>8. CASE ResetUpdateKey(t)
  <2>1. /\ pc[t] = "reset_update" /\ UNCHANGED <<teams, spend_logs, failed>>
        /\ \E stage \in {"idle", "reset_update"} : Goto(t, stage)
    BY <1>8 DEF ResetUpdateKey
  <2> QED BY <2>1, TeamLedgerQuiet DEF TeamWriting
<1> QED BY <1>2, <1>3, <1>4, <1>5, <1>6, <1>7, <1>8 DEF BudgetOps

LEMMA TeamLedgerError ==
  ASSUME Inductive, TeamLedger, NEW t \in Threads, Threads = {t}, StoreError(t)
  PROVE  TeamLedger'
<1>1. TypeOK BY DEF Inductive
<1>2. /\ UNCHANGED <<teams, spend_logs>> /\ failed' = TRUE /\ pc'[t] = "idle"
  BY <1>1 DEF StoreError, store, Goto, TypeOK
<1>3. ASSUME NEW m \in DOMAIN teams PROVE TeamBilled(m)' <= teams[m].spent
  <2>1. TeamLogged(m)' = TeamLogged(m) /\ TeamCharging(m)' = {}
    BY <1>2 DEF TeamLogged, TeamCharging
  <2>2. TeamBilled(m)' = Cardinality(TeamLogged(m))
    BY <1>1, <2>1, FS_EmptySet, TeamBilledNat DEF TeamBilled
  <2>3. TeamBilled(m) <= teams[m].spent BY DEF TeamLedger, TeamsBooked
  <2> QED BY <1>1, <2>2, <2>3, TeamBilledNat, TeamTotals DEF TeamBilled
<1>4. TeamCopied(t)' BY <1>2 DEF TeamCopied, TeamWriting
<1> QED BY <1>2, <1>3, <1>4 DEF TeamLedger, TeamsBooked

LEMMA TeamLedgerStep ==
  ASSUME NEW t \in Threads, Threads = {t}
  PROVE  Inductive /\ Named /\ TeamLedger /\ [Next]_vars => TeamLedger'
<1> SUFFICES ASSUME Inductive, Named, TeamLedger, [Next]_vars PROVE TeamLedger'
  OBVIOUS
<1>1. CASE UNCHANGED <<teams, spend_logs, locals, failed>>
  <2>1. TeamCopied(t)' BY <1>1 DEF TeamLedger, TeamCopied, TeamSlack, locals
  <2> QED BY <1>1, <2>1, TeamLedgerKeep DEF locals
<1>2. CASE \E u \in Threads : KeyOps(u) \/ TeamOps(u) \/ BudgetOps(u)
  BY <1>2, TeamLedgerKeyOps, TeamLedgerTeamOps, TeamLedgerBudgetOps
<1>3. CASE \E u \in Threads : StoreError(u) BY <1>3, TeamLedgerError
<1>4. CASE DayPasses BY <1>1, <1>4 DEF DayPasses, store
<1>5. CASE UNCHANGED vars BY <1>1, <1>5 DEF vars, store
<1> QED BY <1>2, <1>3, <1>4, <1>5 DEF Next, Finished

\* The two ledgers of a thread that runs alone.
LEMMA LedgersAlways ==
  ASSUME NEW t \in Threads, Threads = {t}
  PROVE  Spec => [](Inductive /\ KeyLedger /\ TeamLedger)
<1>1. Init => KeyLedger /\ TeamLedger
  BY DEF Init, KeyLedger, TeamLedger, TeamsBooked, TeamCopied, TeamWriting, NoCopies
<1>2. Inductive /\ Named /\ KeyLedger /\ [Next]_vars => KeyLedger' BY KeyLedgerStep
<1>3. Inductive /\ Named /\ TeamLedger /\ [Next]_vars => TeamLedger' BY TeamLedgerStep
<1> QED BY <1>1, <1>2, <1>3, InductiveAlways, NamedAlways, PTL DEF Spec

\* Nothing is in flight between the operations.
LEMMA IdleBooks ==
  ASSUME Inductive, AllIdle
  PROVE  /\ \A k : Billed(k) = Cardinality(Logged(k))
         /\ \A m : TeamBilled(m) = Cardinality(TeamLogged(m))
<1>1. \A k : Charging(k) = {} BY DEF AllIdle, Charging
<1>2. \A m : TeamCharging(m) = {} BY DEF AllIdle, TeamCharging
<1>3. TypeOK BY DEF Inductive
<1>4. \A k : Cardinality(Logged(k)) \in Nat BY <1>3, BilledNat
<1>5. \A m : Cardinality(TeamLogged(m)) \in Nat BY <1>3, TeamBilledNat
<1> QED BY <1>1, <1>2, <1>4, <1>5, FS_EmptySet DEF Billed, TeamBilled

\* Operations that do not overlap and do not fail keep the counter of every
\* key and of every team equal to its entries in the spend log, however many
\* keys, teams, calls and days (record_usage, budget.rs).
THEOREM CountersMatchLogAlone ==
  ASSUME \E t : Threads = {t} PROVE Spec => []CountersMatchLog
<1>1. PICK t : Threads = {t} OBVIOUS
<1>2. t \in Threads BY <1>1
<1>3. Inductive /\ KeyLedger /\ TeamLedger => CountersMatchLog
  <2> SUFFICES ASSUME Inductive, KeyLedger, TeamLedger, AllIdle, ~failed
               PROVE  CountersMatchLog
    BY DEF CountersMatchLog
  <2> QED BY IdleBooks DEF CountersMatchLog, KeyLedger, TeamLedger, TeamsBooked, TeamLogged
<1> QED BY <1>1, <1>2, <1>3, LedgersAlways, PTL

\* record_usage writes the log last: when its store calls fail, what is logged
\* has still been charged to the key and to the team it names.
THEOREM CountersCoverLogAlone ==
  ASSUME \E t : Threads = {t} PROVE Spec => []CountersCoverLog
<1>1. PICK t : Threads = {t} OBVIOUS
<1>2. t \in Threads BY <1>1
<1>3. Inductive /\ KeyLedger /\ TeamLedger => CountersCoverLog
  <2> SUFFICES ASSUME Inductive, KeyLedger, TeamLedger, AllIdle
               PROVE  CountersCoverLog
    BY DEF CountersCoverLog
  <2> QED BY IdleBooks DEF CountersCoverLog, KeyLedger, TeamLedger, TeamsBooked, TeamLogged
<1> QED BY <1>1, <1>2, <1>3, LedgersAlways, PTL

----------------------------------------------------------------------------
(* Revocation while one thread runs alone.                                 *)

\* No operation still holds an active copy of a key that is revoked.
Buried == \A k \in DOMAIN keys : ~keys[k].is_active => Dead(k)

\* A key becomes inactive only by the write of a copy, which is then dropped.
LEMMA BuriedKeyStep ==
  ASSUME Inductive, NEW t \in Threads, KeyStep(t),
         NEW k \in DOMAIN keys', ~keys'[k].is_active
  PROVE  \/ k \in DOMAIN keys /\ ~keys[k].is_active
         \/ ~HoldsActiveCopy(t, k)'
<1>1. TypeOK /\ Steps BY DEF Inductive
<1>2. CASE UNCHANGED keys BY <1>2
<1>3. CASE GenerateKey(t)
  <2>1. PICK j \in Keys \ DOMAIN keys, windowed \in BOOLEAN,
             team \in DOMAIN teams \cup {NoTeam, Unknown} :
          keys' = With(keys, j, NewKey(team, windowed))
    BY <1>3 DEF GenerateKey
  <2>2. NewKey(team, windowed).is_active BY DEF NewKey
  <2>3. k # j /\ k \in DOMAIN keys /\ keys'[k] = keys[k]
    BY <2>1, <2>2 DEF With
  <2> QED BY <2>3
<1>4. CASE \E j \in DOMAIN copies[t] : UpdateKey(t, j)
  <2>1. PICK j \in DOMAIN copies[t] : UpdateKey(t, j) BY <1>4
  <2>2. /\ DOMAIN keys' = DOMAIN keys
        /\ \A i \in DOMAIN keys : i # j => keys'[i] = keys[i]
        /\ DOMAIN copies'[t] = DOMAIN copies[t] \ {j}
    BY <1>1, <2>1, UpdateKeyFacts
  <2>3. CASE k = j BY <2>2, <2>3 DEF HoldsActiveCopy
  <2>4. CASE k # j BY <2>2, <2>4
  <2> QED BY <2>3, <2>4
<1>5. CASE RecordUpdateKey(t)
  <2>1. key_id[t] \in DOMAIN copies[t] /\ UpdateKey(t, key_id[t])
    BY <1>1, <1>5 DEF RecordUpdateKey, Steps, Step, Copying
  <2> QED BY <1>4, <2>1
<1> QED BY <1>2, <1>3, <1>4, <1>5 DEF KeyStep, Quiet, Reads, Lists, Writes

LEMMA BuriedStep ==
  ASSUME NEW t \in Threads, Threads = {t}
  PROVE  Inductive /\ Buried /\ [Next]_vars => Buried'
<1> SUFFICES ASSUME Inductive, Buried, [Next]_vars,
                    NEW k \in DOMAIN keys', ~keys'[k].is_active
             PROVE  Dead(k)'
  BY DEF Buried
<1>1. CASE k \in DOMAIN keys /\ ~keys[k].is_active
  <2>1. k \in Keys /\ Dead(k) BY <1>1 DEF Buried, Inductive, TypeOK
  <2>2. CASE UNCHANGED vars BY <2>1, <2>2, DeadUnchanged DEF vars, store, locals
  <2>3. CASE ~UNCHANGED vars BY <2>1, <2>3, DeadStep
  <2> QED BY <2>2, <2>3
<1>2. CASE UNCHANGED keys BY <1>1, <1>2
<1>3. CASE \E u \in Threads : KeyOps(u) \/ TeamOps(u) \/ BudgetOps(u)
  <2>1. KeyStep(t) BY <1>3, OperationsAreKeySteps
  <2>2. CASE ~HoldsActiveCopy(t, k)' BY <2>2 DEF Dead
  <2> QED BY <1>1, <2>1, <2>2, BuriedKeyStep
<1> QED BY <1>2, <1>3 DEF Next, StoreError, DayPasses, Finished, vars, store

\* "Mark a key as inactive (soft delete)" (keys.rs, revoke_key): as long as
\* operations do not overlap, no later call of any kind, failing or not, makes
\* a revoked key active again.
THEOREM RevokedStaysRevokedAlone ==
  ASSUME \E t : Threads = {t} PROVE Spec => RevokedStaysRevoked
<1> DEFINE Kept == \A k \in DOMAIN keys :
                     ~keys[k].is_active => ~keys'[k].is_active
<1>1. PICK t : Threads = {t} OBVIOUS
<1>2. t \in Threads BY <1>1
<1>3. Init => Buried BY DEF Init, Buried
<1>4. Inductive /\ Buried /\ [Next]_vars => Buried' BY <1>1, <1>2, BuriedStep
<1>5. Inductive /\ Buried /\ [Next]_vars => [Kept]_vars
  <2> SUFFICES ASSUME Inductive, Buried, [Next]_vars, ~UNCHANGED vars,
                      NEW k \in DOMAIN keys, ~keys[k].is_active
               PROVE  ~keys'[k].is_active
    OBVIOUS
  <2>1. k \in Keys /\ Dead(k) BY DEF Buried, Inductive, TypeOK
  <2>2. Dead(k)' BY <2>1, DeadStep
  <2> QED BY <2>2 DEF Dead
<1> QED BY <1>3, <1>4, <1>5, InductiveAlways, PTL DEF Spec, RevokedStaysRevoked
=============================================================================
