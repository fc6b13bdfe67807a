----------------------------- MODULE EdgeProofs -----------------------------
(***************************************************************************)
(* What meets the gateway at its edges: the editors of the configuration   *)
(* file and the thread that watches it, the commands that manage the       *)
(* gateway's process through the pid file, and the bytes of the upstreams. *)
(*                                                                         *)
(* Careful editors never lose an edit: for any contents of the file and    *)
(* any number of edits.  NothingMissed is not inductive.  Fresh says why   *)
(* it holds while the thread is busy: unless what is being built, or       *)
(* served, is what the file holds, an event is waiting that the debounce   *)
(* will not drop, or the file was last changed before it was watched.      *)
(*                                                                         *)
(* The pieces an upstream's bytes arrive in decide nothing: for every      *)
(* stream of events, cut anywhere.  A buffer is a window on the bytes of   *)
(* the wire, and what is between its beginning and the events that have    *)
(* been translated is never data (Caught); a turn of process_chunk's loop  *)
(* goes on by an event or is at the last that is there (Advances), so a    *)
(* call ends with all of them translated (Drained).                        *)
(***************************************************************************)
EXTENDS ConfigWatcher, Launcher, StreamsProps, FoldLemmas, SequenceTheorems

Pending == events > 0 /\ ~recent

Fresh ==
  /\ pc = "start"   => early \/ (file \in Accepted => hot = file)
  /\ pc = "receive" => early \/ (file \in Accepted => hot = file) \/ Pending
  /\ pc = "build"   => early \/ read = file \/ Pending

\* What holds with careful editors, and without condition of the others.
WatcherInv == TypeOK /\ (careful => ~Writing /\ Fresh)

LEMMA WatcherInit == Init => TypeOK /\ Fresh /\ ~Writing
<1> SUFFICES ASSUME Init PROVE TypeOK /\ Fresh /\ ~Writing OBVIOUS
<1>1. writes \in 0 .. MaxWrites /\ events \in Nat BY WatcherBounds DEF Init
<1>2. recent \in BOOLEAN BY DEF Init
<1>3. Fresh /\ ~Writing BY DEF Init, Fresh, Writing
<1> QED BY <1>1, <1>2, <1>3, ContentsAssumption DEF Init, TypeOK

\* Every step keeps the types, whatever the editors do.
LEMMA WatcherTypes == TypeOK /\ [Next]_vars => TypeOK'
<1> SUFFICES ASSUME TypeOK, [Next]_vars PROVE TypeOK' OBVIOUS
<1> USE ContentsAssumption, WatcherBounds DEF TypeOK, editors
<1>1. CASE Replace BY <1>1 DEF Replace, Edit, Notify, Watching
<1>2. CASE BeginWrite BY <1>2 DEF BeginWrite, Edit, Notify, Watching
<1>3. CASE EndWrite BY <1>3 DEF EndWrite, Notify, Watching
<1>9. CASE Watch BY <1>9 DEF Watch
<1>4. CASE Receive
  <2>1. events' \in Nat BY <1>4 DEF Receive
  <2>2. recent' \in BOOLEAN /\ pc' \in {"receive", "parse"}
    BY <1>4, Zenon DEF Receive
  <2> QED BY <1>4, <2>1, <2>2 DEF Receive
<1>5. CASE Parse BY <1>5 DEF Parse
<1>6. CASE Build BY <1>6 DEF Build
<1>7. CASE SecondPasses BY <1>7 DEF SecondPasses
<1>8. CASE UNCHANGED vars BY <1>8 DEF vars
<1> QED BY <1>1, <1>2, <1>3, <1>4, <1>5, <1>6, <1>7, <1>8, <1>9
        DEF Next, Thread, Idle

\* Whatever the editors do, the gateway only ever serves contents that parse
\* and build.
THEOREM WatcherTypeCorrect == Spec => []TypeOK
BY WatcherInit, WatcherTypes, PTL DEF Spec

\* An editor is careful or not for good.
LEMMA CarefulStays == [Next]_vars => careful' = careful
BY DEF Next, vars, editors, Replace, BeginWrite, Edit, EndWrite, Thread,
       Watch, Receive, Parse, Build, SecondPasses, Idle

LEMMA WatcherStep == WatcherInv /\ [Next]_vars => WatcherInv'
<1> SUFFICES ASSUME WatcherInv, [Next]_vars, careful
             PROVE  ~Writing' /\ Fresh'
  BY WatcherTypes, CarefulStays DEF WatcherInv
<1> USE ContentsAssumption DEF WatcherInv, TypeOK, editors, Writing, Fresh,
                               Pending
\* The edit of a careful editor queues an event that will be taken.
<1>1. CASE Replace
  <2>1. file' = target' /\ UNCHANGED <<pc, recent, read, hot>> /\ ~recent
    BY <1>1 DEF Replace, Edit
  <2>2. CASE pc = "start"
    BY <1>1, <2>1, <2>2 DEF Replace, Edit, Notify, Watching
  <2>3. CASE pc # "start"
    <3>1. PICK n \in 1 .. 2 : events' = events + n
      BY <1>1, <2>3 DEF Replace, Edit, Notify, Watching
    <3> QED BY <2>1, <2>3, <3>1
  <2> QED BY <2>2, <2>3
<1>2. CASE BeginWrite BY <1>2 DEF BeginWrite
<1>3. CASE EndWrite BY <1>3 DEF EndWrite
<1>9. CASE Watch BY <1>9 DEF Watch
\* An event that is dropped was not pending.
<1>4. CASE Receive BY <1>4 DEF Receive
<1>5. CASE Parse BY <1>5 DEF Parse
<1>6. CASE Build BY <1>6 DEF Build
<1>7. CASE SecondPasses BY <1>7 DEF SecondPasses
<1>8. CASE UNCHANGED vars BY <1>8 DEF vars
<1> QED BY <1>1, <1>2, <1>3, <1>4, <1>5, <1>6, <1>7, <1>8, <1>9
        DEF Next, Thread, Idle

\* With editors that replace the file and leave a second after each reload, a
\* quiet watcher serves what the file holds, unless the file was last changed
\* before it was watched (main.rs:54, 128, 138-195).
THEOREM NothingMissedAlways == Spec => []NothingMissed
<1>1. Init => WatcherInv BY WatcherInit DEF WatcherInv
<1>2. WatcherInv /\ [Next]_vars => WatcherInv' BY WatcherStep
<1>3. WatcherInv => NothingMissed
  BY DEF WatcherInv, Fresh, Pending, NothingMissed, Quiet
<1> QED BY <1>1, <1>2, <1>3, PTL DEF Spec
-----------------------------------------------------------------------------
(***************************************************************************)
(* The pid file.  NotRunningIsTrue is not inductive: whether a command may *)
(* say "not running" when it finds the file missing or its process gone    *)
(* depends on who else is at work.  Orderliness says who may be: at most   *)
(* one start, which waits while another command runs.  Up is what listens  *)
(* or will; if anything is up, the start that spawned it is still there,   *)
(* and the file names it once that start waits; a stop or status that      *)
(* holds a pid holds that of what is up, and one about to remove the file  *)
(* has nothing up behind it.                                               *)
(***************************************************************************)
Up == {p \in Pids : proc[p] \in {"booting", "forking", "server"}}

Starts == {i \in Live : commands[i].kind = "start"}
Asks == Live \ Starts

\* What a command is between two of its steps.
Answers == {None, "failed", "started", "not running", "unknown", "running", "stopped"}
StepsOf(verb) == IF verb = "start" THEN {"spawn", "write", "fill", "wait", "remove", "done"}
                 ELSE {"read", "probe", "check", "kill", "remove", "done"}
Commands == [kind : {"start", "stop", "status"}, daemon : BOOLEAN,
             at : StepsOf("start") \cup StepsOf("stop"), pid : Pids \cup {None},
             answer : Answers, up : BOOLEAN]

Sound(c) ==
    /\ c \in Commands /\ c.at \in StepsOf(c.kind)
    /\ c.at \in {"write", "fill", "wait", "probe", "check", "kill"} => c.pid \in Pids

States == Gateways \cup Strangers \cup {"free", "zombie"}

LauncherTypes ==
    /\ pid_file \in Pids \cup {None, Empty}
    /\ proc \in [Pids -> States]
    /\ commands \in Seq(Commands) /\ \A i \in DOMAIN commands : Sound(commands[i])

OneOfEach ==
    /\ \A i, j \in Starts : i = j
    /\ \A i, j \in Asks : i = j
    /\ \A i \in Starts : Asks # {} => commands[i].at \in {"wait", "remove"}
    /\ \A i \in Starts : ~ commands[i].daemon

\* What is up is a child that a start watches over, and the file says so.
Watched ==
    \A p \in Up : \E i \in Starts :
        /\ proc[p] # "forking" /\ commands[i].pid = p
        /\ \/ commands[i].at \in {"write", "fill"}
           \/ commands[i].at = "wait" /\ pid_file = p

Asked ==
    \A j \in Asks :
        /\ commands[j].at \in {"probe", "check", "kill"} => \A p \in Up : commands[j].pid = p
        /\ commands[j].at = "remove" => Up = {}

LauncherInv == LauncherTypes /\ (orderly => OneOfEach /\ Watched /\ Asked /\ NotRunningIsTrue)

----------------------------------------------------------------------------
\* A command becomes c, and no other command is touched.
Moved(i, c) ==
    /\ i \in DOMAIN commands /\ Sound(c)
    /\ c.kind = commands[i].kind /\ c.daemon = commands[i].daemon
    /\ commands' = [commands EXCEPT ![i] = c]

\* What a move does to the sequence of commands.
LEMMA MoveKeeps ==
  ASSUME LauncherTypes, NEW i, NEW c, Moved(i, c)
  PROVE  /\ DOMAIN commands' = DOMAIN commands /\ commands' \in Seq(Commands)
         /\ commands'[i] = c
         /\ \A j \in DOMAIN commands : j # i => commands'[j] = commands[j]
         /\ \A j \in DOMAIN commands' : Sound(commands'[j])
<1> USE DEF Moved, LauncherTypes
<1>1. c \in Commands /\ commands \in Seq(Commands)
  BY DEF Sound
<1>2. DOMAIN commands' = DOMAIN commands /\ commands'[i] = c
      /\ \A j \in DOMAIN commands : j # i => commands'[j] = commands[j]
  OBVIOUS
<1>3. commands' \in Seq(Commands)
  BY <1>1
<1>4. ASSUME NEW j \in DOMAIN commands' PROVE Sound(commands'[j])
  <2>1. CASE j = i
    BY <2>1, <1>2
  <2>2. CASE j # i
    <3>1. commands'[j] = commands[j] /\ Sound(commands[j])
      BY <2>2, <1>2
    <3> QED BY <3>1
  <2> QED BY <2>1, <2>2
<1> QED BY <1>2, <1>3, <1>4

\* Who is at work after a move: the mover, unless it is done, and the others.
LEMMA MoveLive ==
  ASSUME LauncherTypes, NEW i, NEW c, Moved(i, c), commands[i].at # "done"
  PROVE  /\ i \in Live /\ \A j \in Live' : j \in Live
         /\ \A j \in Starts' : j \in Starts
         /\ \A j \in Asks' : j \in Asks
         /\ \A j \in Live : j # i => j \in Live' /\ commands'[j] = commands[j]
         /\ \A j \in Starts : j # i => j \in Starts'
         /\ \A j \in Asks : j # i => j \in Asks'
         /\ i \in Live' <=> c.at # "done"
         /\ i \in Starts <=> commands[i].kind = "start"
         /\ i \in Starts' <=> c.at # "done" /\ c.kind = "start"
         /\ i \in Asks <=> commands[i].kind # "start"
         /\ i \in Asks' <=> c.at # "done" /\ c.kind # "start"
BY MoveKeeps DEF Moved, Live, Starts, Asks

\* A move leaves one start and one other command.
LEMMA MoveOneOfEach ==
  ASSUME LauncherTypes, OneOfEach, NEW i, NEW c, Moved(i, c), commands[i].at # "done",
         commands[i].at \in {"wait", "remove"} => c.at \in {"wait", "remove", "done"}
  PROVE  OneOfEach'
<1>1. commands'[i] = c /\ c.kind = commands[i].kind /\ c.daemon = commands[i].daemon
  BY MoveKeeps DEF Moved
<1>2. \A j, k \in Starts' : j = k
  BY MoveLive DEF OneOfEach
<1>3. \A j, k \in Asks' : j = k
  BY MoveLive DEF OneOfEach
<1>4. ASSUME NEW j \in Starts', Asks' # {} PROVE commands'[j].at \in {"wait", "remove"}
  <2>1. j \in Starts /\ Asks # {}
    BY <1>4, MoveLive
  <2>2. commands[j].at \in {"wait", "remove"}
    BY <2>1 DEF OneOfEach
  <2>3. CASE j = i
    BY <2>2, <2>3, <1>1, MoveLive
  <2>4. CASE j # i
    BY <2>1, <2>2, <2>4, MoveLive DEF Starts
  <2> QED BY <2>3, <2>4
<1>5. ASSUME NEW j \in Starts' PROVE ~ commands'[j].daemon
  <2>1. j \in Starts /\ ~ commands[j].daemon
    BY MoveLive DEF OneOfEach
  <2> QED BY <2>1, <1>1, MoveLive DEF Starts
<1> QED BY <1>2, <1>3, <1>4, <1>5 DEF OneOfEach

\* A step that neither answers "not running" nor moves an answer keeps the
\* promise of the answers given.
LEMMA MoveAnswers ==
  ASSUME LauncherTypes, NEW i, NEW c, Moved(i, c), orderly, NotRunningIsTrue,
         \/ c.answer = commands[i].answer /\ c.up = commands[i].up
         \/ c.answer = "not running" => ~ c.up
  PROVE  NotRunningIsTrue'
BY MoveKeeps DEF NotRunningIsTrue, Moved

\* The facts about the constants that the steps use.
LEMMA Names == None \notin Pids /\ Empty \notin Pids /\ None # Empty
BY LauncherAssumption

\* The answer of a command that decides, for one that has a step left or none.
Said(i, c, step, answer) ==
    /\ Sound(c) /\ c.kind = commands[i].kind /\ c.daemon = commands[i].daemon
    /\ c.at = step /\ c.answer = answer /\ (c.up <=> Serving # {})

LEMMA Says ==
  ASSUME LauncherTypes, NEW i \in DOMAIN commands,
         NEW step \in {"remove", "done"}, NEW answer \in Answers
  PROVE  Said(i, Say(i, step, answer), step, answer)
<1>1. commands[i] \in Commands
  BY DEF LauncherTypes, Sound
<1>2. step \in StepsOf(commands[i].kind) /\ step \in StepsOf("start") \cup StepsOf("stop")
  BY DEF StepsOf
<1> QED BY <1>1, <1>2, Zenon DEF Say, Said, Move, Sound, Commands

\* A command that goes on, with the pid it has or a new one.
LEMMA Goes ==
  ASSUME LauncherTypes, NEW i \in DOMAIN commands, NEW step \in StepsOf(commands[i].kind),
         NEW pid \in Pids \cup {None}, pid \in Pids \/ step \in {"remove", "done", "read", "spawn"}
  PROVE  LET c == [Move(i, step) EXCEPT !.pid = pid]
         IN /\ Sound(c) /\ c.kind = commands[i].kind /\ c.daemon = commands[i].daemon
            /\ c.at = step /\ c.pid = pid
            /\ c.answer = commands[i].answer /\ c.up = commands[i].up
<1>1. commands[i] \in Commands
  BY DEF LauncherTypes, Sound
<1>2. step \in StepsOf("start") \cup StepsOf("stop")
  BY DEF StepsOf
<1> QED BY <1>1, <1>2 DEF Move, Sound, Commands

LEMMA SpawnStep == ASSUME LauncherInv, NEW i \in DOMAIN commands, Spawn(i) PROVE LauncherInv'
<1> USE DEF LauncherInv
<1>1. PICK p \in Free :
        /\ proc' = [proc EXCEPT ![p] = IF commands[i].daemon THEN "forking" ELSE "booting"]
        /\ commands' = [commands EXCEPT ![i] = [Move(i, "write") EXCEPT !.pid = p]]
  BY DEF Spawn
<1>2. At(i, "spawn") /\ pid_file' = pid_file /\ orderly' = orderly
  BY DEF Spawn
<1> DEFINE c == [Move(i, "write") EXCEPT !.pid = p]
<1>3. commands[i].kind = "start" /\ p \in Pids /\ commands[i].at = "spawn" /\ Sound(commands[i])
  BY <1>2 DEF LauncherTypes, Sound, StepsOf, At, Free, Commands
<1>4. Moved(i, c) /\ c.at = "write" /\ c.pid = p /\ c.answer = commands[i].answer
      /\ c.up = commands[i].up
  BY <1>1, <1>3, Goes DEF Moved, StepsOf
<1> HIDE DEF c
<1>5. LauncherTypes'
  BY <1>1, <1>2, <1>4, MoveKeeps DEF LauncherTypes, States, Gateways
<1> SUFFICES ASSUME orderly PROVE OneOfEach' /\ Watched' /\ Asked' /\ NotRunningIsTrue'
  BY <1>2, <1>5
<1>6. i \in Starts /\ i \in Starts' /\ Up = {} /\ ~ commands[i].daemon /\ Asks = {}
  BY <1>3, <1>4, MoveLive DEF OneOfEach, Watched
<1>7. Up' = {p} /\ proc'[p] = "booting"
  BY <1>1, <1>3, <1>6 DEF Up, LauncherTypes
<1>8. OneOfEach' /\ NotRunningIsTrue'
  BY <1>3, <1>4, MoveOneOfEach, MoveAnswers
<1>9. Watched'
  BY <1>4, <1>6, <1>7, MoveKeeps DEF Watched
<1>10. Asked'
  BY <1>3, <1>4, <1>6, MoveLive DEF Asked
<1> QED BY <1>8, <1>9, <1>10

LEMMA SpawnFailsStep ==
  ASSUME LauncherInv, NEW i \in DOMAIN commands, SpawnFails(i) PROVE LauncherInv'
<1> USE DEF LauncherInv
<1> DEFINE c == Say(i, "done", "failed")
<1>1. /\ commands[i].at = "spawn" /\ Sound(commands[i])
      /\ pid_file' = pid_file /\ orderly' = orderly /\ proc' = proc
  BY DEF SpawnFails, LauncherTypes, At
<1>2. Moved(i, c) /\ c.at = "done" /\ c.answer = "failed"
  BY Says, ZenonT(40) DEF SpawnFails, Said, Moved, Answers
<1> HIDE DEF c
<1>3. LauncherTypes'
  BY <1>1, <1>2, MoveKeeps DEF LauncherTypes
<1> SUFFICES ASSUME orderly PROVE OneOfEach' /\ Watched' /\ Asked' /\ NotRunningIsTrue'
  BY <1>1, <1>3
<1>4. i \in Starts /\ Up = {} /\ Up' = Up /\ Asks = {}
  BY <1>1, <1>2, MoveLive DEF OneOfEach, Watched, Up, Sound, StepsOf, Commands
<1>5. OneOfEach' /\ NotRunningIsTrue'
  BY <1>1, <1>2, MoveOneOfEach, MoveAnswers
<1>6. Watched' /\ Asked'
  BY <1>1, <1>2, <1>4, MoveLive DEF Watched, Asked
<1> QED BY <1>5, <1>6

\* A start that has written its file, or failed to, waits for its child.
LEMMA WrittenMoves ==
  ASSUME LauncherTypes, NEW i \in DOMAIN commands, At(i, "write") \/ At(i, "fill"),
         commands' = [commands EXCEPT ![i] = Written(i)]
  PROVE  /\ Moved(i, Written(i))
         /\ ~ commands[i].daemon => /\ Written(i).at = "wait" /\ Written(i).pid = commands[i].pid
                                    /\ Written(i).answer = commands[i].answer
                                    /\ Written(i).up = commands[i].up
<1>1. Sound(commands[i]) /\ commands[i].kind = "start" /\ commands[i].pid \in Pids
  BY DEF LauncherTypes, Sound, StepsOf, At, Commands
<1>2. CASE commands[i].daemon
  <2>1. Written(i) = Say(i, "done", "started")
    BY <1>2 DEF Written
  <2>2. "started" \in Answers
    BY DEF Answers
  <2>3. Sound(Say(i, "done", "started")) /\ Say(i, "done", "started").kind = commands[i].kind
        /\ Say(i, "done", "started").daemon = commands[i].daemon
    BY <2>2, Says DEF Said
  <2> QED BY <1>2, <2>1, <2>3 DEF Moved
<1>3. CASE ~ commands[i].daemon
  <2>1. Written(i) = Move(i, "wait")
    BY <1>3 DEF Written
  <2>2. Sound(Move(i, "wait")) /\ Move(i, "wait").kind = commands[i].kind
        /\ Move(i, "wait").daemon = commands[i].daemon /\ Move(i, "wait").at = "wait"
        /\ Move(i, "wait").pid = commands[i].pid /\ Move(i, "wait").answer = commands[i].answer
        /\ Move(i, "wait").up = commands[i].up
    BY <1>1 DEF Move, Sound, StepsOf, Commands
  <2> QED BY <1>3, <2>1, <2>2 DEF Moved
<1> QED BY <1>2, <1>3

LEMMA EmptiesStep == ASSUME LauncherInv, NEW i \in DOMAIN commands, Empties(i) PROVE LauncherInv'
<1> USE DEF LauncherInv
<1>1. commands[i].at = "write" /\ Sound(commands[i]) /\ proc' = proc
      /\ commands[i].kind = "start" /\ commands[i].pid \in Pids
  BY DEF Empties, LauncherTypes, At, Sound, StepsOf, Commands
<1>2. CASE pid_file' = Empty /\ orderly' = orderly
           /\ commands' = [commands EXCEPT ![i] = Move(i, "fill")]
  <2> DEFINE c == Move(i, "fill")
  <2>1. Moved(i, c) /\ c.at = "fill" /\ c.answer = commands[i].answer /\ c.up = commands[i].up
        /\ c.pid = commands[i].pid
    BY <1>1, <1>2 DEF Moved, Move, Sound, StepsOf, Commands
  <2> HIDE DEF c
  <2>2. LauncherTypes'
    BY <1>1, <1>2, <2>1, MoveKeeps DEF LauncherTypes
  <2> SUFFICES ASSUME orderly PROVE OneOfEach' /\ Watched' /\ Asked' /\ NotRunningIsTrue'
    BY <1>2, <2>2
  <2>3. i \in Starts /\ i \in Starts' /\ Asks = {} /\ Up' = Up
    BY <1>1, <2>1, MoveLive DEF OneOfEach, Up
  <2>4. OneOfEach' /\ NotRunningIsTrue'
    BY <1>1, <2>1, MoveOneOfEach, MoveAnswers
  <2>5. Asked'
    BY <1>1, <2>1, <2>3, MoveLive DEF Asked
  <2>6. ASSUME NEW p \in Up PROVE proc'[p] # "forking" /\ commands'[i].pid = p
    BY <1>1, <2>1, <2>3, MoveKeeps DEF Watched, OneOfEach
  <2>7. commands'[i].at = "fill"
    BY <2>1, MoveKeeps
  <2>8. Watched'
    BY <2>3, <2>6, <2>7 DEF Watched
  <2> QED BY <2>4, <2>5, <2>8
<1>3. CASE pid_file' = pid_file /\ orderly' = FALSE
           /\ commands' = [commands EXCEPT ![i] = Written(i)]
  BY <1>1, <1>3, WrittenMoves, MoveKeeps DEF LauncherTypes, At
<1> QED BY <1>2, <1>3 DEF Empties

LEMMA WriteStep == ASSUME LauncherInv, NEW i \in DOMAIN commands, Write(i) PROVE LauncherInv'
<1> USE DEF LauncherInv
<1> DEFINE c == Written(i)
<1>1. commands[i].at = "fill" /\ Sound(commands[i]) /\ proc' = proc
      /\ commands[i].kind = "start" /\ commands[i].pid \in Pids
  BY DEF Write, LauncherTypes, At, Sound, StepsOf, Commands
<1>2. Moved(i, c) /\ (~ commands[i].daemon => c.at = "wait" /\ c.pid = commands[i].pid
                        /\ c.answer = commands[i].answer /\ c.up = commands[i].up)
  BY WrittenMoves DEF Write
<1>3. \/ pid_file' = commands[i].pid /\ orderly' = orderly
      \/ pid_file' = pid_file /\ orderly' = FALSE
  BY DEF Write
<1> HIDE DEF c
<1>4. LauncherTypes'
  BY <1>1, <1>2, <1>3, MoveKeeps DEF LauncherTypes
<1> SUFFICES ASSUME orderly, pid_file' = commands[i].pid
             PROVE  OneOfEach' /\ Watched' /\ Asked' /\ NotRunningIsTrue'
  BY <1>3, <1>4
<1>5. i \in Starts /\ Asks = {} /\ Up' = Up /\ ~ commands[i].daemon
  BY <1>1, <1>2, MoveLive DEF OneOfEach, Up
<1>6. i \in Starts' /\ commands'[i] = c
  BY <1>1, <1>2, <1>5, MoveLive, MoveKeeps
<1>7. OneOfEach' /\ NotRunningIsTrue'
  BY <1>1, <1>2, <1>5, MoveOneOfEach, MoveAnswers
<1>8. Asked'
  BY <1>1, <1>2, <1>5, MoveLive DEF Asked
<1>9. ASSUME NEW p \in Up PROVE proc'[p] # "forking" /\ commands'[i].pid = p /\ pid_file' = p
  BY <1>1, <1>2, <1>5, <1>6 DEF Watched, OneOfEach
<1>10. Watched'
  BY <1>2, <1>5, <1>6, <1>9 DEF Watched
<1> QED BY <1>7, <1>8, <1>10

LEMMA WaitStep == ASSUME LauncherInv, NEW i \in DOMAIN commands, Wait(i) PROVE LauncherInv'
<1> USE DEF LauncherInv
<1> DEFINE c == [Move(i, "remove") EXCEPT !.pid = None]
<1>1. commands[i].at = "wait" /\ Sound(commands[i]) /\ pid_file' = pid_file /\ orderly' = orderly
      /\ commands[i].kind = "start" /\ commands[i].pid \in Pids
      /\ proc[commands[i].pid] = "zombie" /\ proc' = [proc EXCEPT ![commands[i].pid] = "free"]
  BY DEF Wait, LauncherTypes, At, Sound, StepsOf, Commands
<1>2. Moved(i, c) /\ c.at = "remove" /\ c.answer = commands[i].answer /\ c.up = commands[i].up
  BY <1>1, Goes DEF Moved, StepsOf, Wait
<1> HIDE DEF c
<1>3. LauncherTypes'
  BY <1>1, <1>2, MoveKeeps DEF LauncherTypes, States
<1> SUFFICES ASSUME orderly PROVE OneOfEach' /\ Watched' /\ Asked' /\ NotRunningIsTrue'
  BY <1>1, <1>3
<1>4. i \in Starts /\ Up = {} /\ Up' = {}
  <2>1. i \in Starts
    BY <1>1, <1>2, MoveLive
  <2>2. Up = {}
    BY <1>1, <2>1 DEF Watched, OneOfEach, Up
  <2> QED BY <1>1, <2>1, <2>2 DEF Up, LauncherTypes
<1>5. OneOfEach' /\ NotRunningIsTrue'
  BY <1>1, <1>2, MoveOneOfEach, MoveAnswers
<1>6. Watched' /\ Asked'
  BY <1>1, <1>4 DEF Watched, Asked
<1> QED BY <1>5, <1>6

LEMMA RemoveStep == ASSUME LauncherInv, NEW i \in DOMAIN commands, RemovePid(i) PROVE LauncherInv'
<1> USE DEF LauncherInv
<1> DEFINE c == [Move(i, "done") EXCEPT !.pid = None]
<1>1. commands[i].at = "remove" /\ Sound(commands[i]) /\ pid_file' = None /\ orderly' = orderly
      /\ proc' = proc
  BY DEF RemovePid, LauncherTypes, At
<1>2. c = [commands[i] EXCEPT !.at = "done", !.pid = None]
  BY DEF Move
<1>3. Moved(i, c) /\ c.at = "done" /\ c.answer = commands[i].answer /\ c.up = commands[i].up
  <2>1. commands' = [commands EXCEPT ![i] = c]
    BY DEF RemovePid, Move, LauncherTypes
  <2> QED BY <1>1, <2>1, Goes DEF Moved, StepsOf
<1> HIDE DEF c
<1>4. LauncherTypes'
  BY <1>1, <1>3, MoveKeeps DEF LauncherTypes
<1> SUFFICES ASSUME orderly PROVE OneOfEach' /\ Watched' /\ Asked' /\ NotRunningIsTrue'
  BY <1>1, <1>4
<1>5. Up = {} /\ Up' = {}
  <2>1. i \in Starts \/ i \in Asks
    BY <1>1, <1>3, MoveLive
  <2>2. Up = {}
    BY <1>1, <2>1 DEF Watched, OneOfEach, Asked
  <2> QED BY <1>1, <2>2 DEF Up
<1>6. OneOfEach' /\ NotRunningIsTrue'
  BY <1>1, <1>3, MoveOneOfEach, MoveAnswers
<1>7. Watched' /\ Asked'
  BY <1>5 DEF Watched, Asked
<1> QED BY <1>6, <1>7

LEMMA ReadStep == ASSUME LauncherInv, NEW i \in DOMAIN commands, Read(i) PROVE LauncherInv'
<1> USE DEF LauncherInv
<1>1. commands[i].at = "read" /\ Sound(commands[i]) /\ pid_file' = pid_file
      /\ orderly' = orderly /\ proc' = proc /\ Up' = Up
      /\ commands[i].kind # "start"
  BY DEF Read, LauncherTypes, At, Sound, StepsOf, Commands, Up
<1>2. CASE pid_file \in {None, Empty}
  <2> DEFINE c == IF pid_file = None THEN Say(i, "done", "not running")
                  ELSE Say(i, "done", "unknown")
  <2>1. commands' = [commands EXCEPT ![i] = c]
    BY <1>2, Names DEF Read
  <2>2. "unknown" \in Answers /\ "not running" \in Answers
    BY DEF Answers
  <2>3. Moved(i, c) /\ c.at = "done" /\ (c.up <=> Serving # {})
        /\ c.answer = (IF pid_file = None THEN "not running" ELSE "unknown")
    <3>1. CASE pid_file = None
      <4>1. Said(i, Say(i, "done", "not running"), "done", "not running")
        BY <2>2, Says
      <4>2. c = Say(i, "done", "not running")
        BY <3>1
      <4> HIDE DEF c
      <4>3. Said(i, c, "done", "not running")
        BY <4>1, <4>2
      <4> QED BY <2>1, <3>1, <4>3 DEF Moved, Said
    <3>2. CASE pid_file # None
      <4>1. Said(i, Say(i, "done", "unknown"), "done", "unknown")
        BY <2>2, Says
      <4>2. c = Say(i, "done", "unknown")
        BY <3>2
      <4> HIDE DEF c
      <4>3. Said(i, c, "done", "unknown")
        BY <4>1, <4>2
      <4> QED BY <2>1, <3>2, <4>3 DEF Moved, Said
    <3> QED BY <3>1, <3>2
  <2> HIDE DEF c
  <2>4. LauncherTypes'
    BY <1>1, <2>3, MoveKeeps DEF LauncherTypes
  <2> SUFFICES ASSUME orderly PROVE OneOfEach' /\ Watched' /\ Asked' /\ NotRunningIsTrue'
    BY <1>1, <2>4
  <2>5. i \in Asks /\ \A j \in Starts : commands[j].at \in {"wait", "remove"}
    BY <1>1, <2>3, MoveLive DEF OneOfEach
  <2>6. pid_file = None => Serving = {}
    BY <2>5, Names DEF Watched, Up, Serving
  <2>7. OneOfEach' /\ NotRunningIsTrue'
    BY <1>1, <2>3, <2>6, MoveOneOfEach, MoveAnswers
  <2>8. Watched' /\ Asked'
    <3>1. \A j \in Starts : j # i
      BY <1>1 DEF Starts
    <3>2. \A j \in Starts : j \in Starts' /\ commands'[j] = commands[j]
      BY <1>1, <2>3, <3>1, MoveLive DEF Starts
    <3>3. Asks' = {}
      <4>1. \A j \in Asks' : j \in Asks /\ j = i
        BY <1>1, <2>3, <2>5, MoveLive, ZenonT(40) DEF OneOfEach
      <4>2. i \notin Asks'
        BY <1>1, <2>3, MoveLive
      <4> QED BY <4>1, <4>2
    <3> QED BY <1>1, <3>2, <3>3 DEF Watched, Asked
  <2> QED BY <2>7, <2>8
<1>3. CASE pid_file \in Pids
  <2> DEFINE c == [Move(i, "probe") EXCEPT !.pid = pid_file]
  <2>1. commands' = [commands EXCEPT ![i] = c]
    BY <1>3, Names DEF Read
  <2>2. Moved(i, c) /\ c.at = "probe" /\ c.pid = pid_file /\ c.answer = commands[i].answer
        /\ c.up = commands[i].up
    <3>1. "probe" \in StepsOf(commands[i].kind)
      BY <1>1 DEF StepsOf
    <3> QED BY <1>3, <2>1, <3>1, Goes DEF Moved
  <2> HIDE DEF c
  <2>3. LauncherTypes'
    BY <1>1, <2>2, MoveKeeps DEF LauncherTypes
  <2> SUFFICES ASSUME orderly PROVE OneOfEach' /\ Watched' /\ Asked' /\ NotRunningIsTrue'
    BY <1>1, <2>3
  <2>4. i \in Asks /\ \A j \in Starts : commands[j].at \in {"wait", "remove"}
    BY <1>1, <2>2, MoveLive DEF OneOfEach
  <2>5. OneOfEach' /\ NotRunningIsTrue'
    BY <1>1, <2>2, MoveOneOfEach, MoveAnswers
  <2>6. \A j \in Starts : j \in Starts' /\ commands'[j] = commands[j]
    BY <1>1, <2>2, MoveLive DEF Starts
  <2>7. Watched'
    BY <1>1, <2>6 DEF Watched
  <2>8. \A p \in Up : pid_file = p
    BY <2>4 DEF Watched
  <2>9. Asked'
    <3>1. \A j \in Asks' : j = i
      BY <1>1, <2>2, <2>4, MoveLive DEF OneOfEach
    <3>2. commands'[i] = c
      BY <2>2, MoveKeeps
    <3> QED BY <1>1, <2>2, <2>8, <3>1, <3>2 DEF Asked
  <2> QED BY <2>5, <2>7, <2>9
<1> QED BY <1>2, <1>3 DEF LauncherTypes

\* Everything up has ended when a command other than start finds the process it
\* was told of gone.
LEMMA AskedLast ==
  ASSUME LauncherTypes, OneOfEach, Watched, Asked, NEW i \in Asks,
         commands[i].at \in {"probe", "check", "kill"}
  PROVE  Up \subseteq {commands[i].pid}
BY DEF Asked

\* A move of a command other than start, of which the pid file and the
\* processes are no part.
LEMMA AskMoves ==
  ASSUME LauncherInv, NEW i \in DOMAIN commands, NEW c, Moved(i, c), commands[i].kind # "start",
         commands[i].at \in {"probe", "check", "kill"},
         pid_file' = pid_file, orderly' = orderly,
         proc' \in [Pids -> States], Up' \subseteq Up,
         \A p \in Up' : proc'[p] = proc[p],
         c.at = "remove" => (orderly => Up' = {}),
         c.at \in {"probe", "check", "kill"} => c.pid = commands[i].pid,
         \/ c.answer = commands[i].answer /\ c.up = commands[i].up
         \/ c.answer = "not running" => (orderly => ~ c.up)
  PROVE  LauncherInv'
<1> USE DEF LauncherInv
<1>1. LauncherTypes'
  BY MoveKeeps DEF LauncherTypes
<1> SUFFICES ASSUME orderly PROVE OneOfEach' /\ Watched' /\ Asked' /\ NotRunningIsTrue'
  BY <1>1
<1>2. OneOfEach' /\ NotRunningIsTrue'
  BY MoveOneOfEach, MoveAnswers
<1>3. i \in Asks
  BY MoveLive
<1>4. \A j \in Starts : j \in Starts' /\ commands'[j] = commands[j]
  BY <1>3, MoveLive DEF Starts, Asks
<1>5. Watched'
  <2> SUFFICES ASSUME NEW p \in Up'
               PROVE  \E j \in Starts' :
                        /\ proc'[p] # "forking" /\ commands'[j].pid = p
                        /\ \/ commands'[j].at \in {"write", "fill"}
                           \/ commands'[j].at = "wait" /\ pid_file' = p
    BY DEF Watched
  <2>1. p \in Up /\ proc'[p] = proc[p]
    OBVIOUS
  <2>2. PICK j \in Starts : /\ proc[p] # "forking" /\ commands[j].pid = p
                            /\ \/ commands[j].at \in {"write", "fill"}
                               \/ commands[j].at = "wait" /\ pid_file = p
    BY <2>1 DEF Watched
  <2>3. j \in Starts' /\ commands'[j] = commands[j]
    BY <1>4
  <2> QED BY <2>1, <2>2, <2>3
<1>6. commands'[i] = c /\ \A j \in Asks' : j = i
  BY <1>3, MoveLive, MoveKeeps DEF OneOfEach
<1>7. Asked'
  BY <1>3, <1>6, AskedLast DEF Asked
<1> QED BY <1>2, <1>5, <1>7

LEMMA ProbeStep == ASSUME LauncherInv, NEW i \in DOMAIN commands, Probe(i) PROVE LauncherInv'
<1>1. /\ LauncherTypes /\ commands[i].at = "probe" /\ Sound(commands[i])
      /\ pid_file' = pid_file /\ orderly' = orderly /\ proc' = proc /\ Up' = Up
      /\ commands[i].kind # "start" /\ proc \in [Pids -> States] /\ commands[i].pid \in Pids
  BY DEF LauncherInv, Probe, LauncherTypes, At, Sound, StepsOf, Commands, Up
<1>2. i \in Asks /\ (orderly => Up \subseteq {commands[i].pid})
  BY <1>1, AskedLast DEF LauncherInv, Asks, Starts, Live
<1>3. CASE ~ Alive(commands[i].pid)
  <2> DEFINE c == Say(i, "remove", "not running")
  <2>1. "not running" \in Answers
    BY DEF Answers
  <2>2. Said(i, c, "remove", "not running")
    BY <1>1, <2>1, Says
  <2>3. commands' = [commands EXCEPT ![i] = c]
    BY <1>3 DEF Probe
  <2> HIDE DEF c
  <2>4. Moved(i, c)
    BY <2>2, <2>3 DEF Moved, Said
  <2>5. orderly => Up = {} /\ Serving = {}
    BY <1>1, <1>2, <1>3 DEF Alive, Up, Serving
  <2> QED BY <1>1, <2>2, <2>4, <2>5, AskMoves DEF Said
<1>4. CASE Alive(commands[i].pid) /\ commands[i].kind = "status"
  <2> DEFINE c == Say(i, "done", "running")
  <2>1. "running" \in Answers
    BY DEF Answers
  <2>2. Said(i, c, "done", "running")
    BY <1>1, <2>1, Says
  <2>3. commands' = [commands EXCEPT ![i] = c]
    BY <1>4 DEF Probe, Report
  <2> HIDE DEF c
  <2>4. Moved(i, c)
    BY <2>2, <2>3 DEF Moved, Said
  <2> QED BY <1>1, <2>2, <2>4, AskMoves DEF Said
<1>5. CASE Alive(commands[i].pid) /\ commands[i].kind # "status"
  <2> DEFINE c == Move(i, "check")
  <2>1. Moved(i, c) /\ c.at = "check" /\ c.pid = commands[i].pid
        /\ c.answer = commands[i].answer /\ c.up = commands[i].up
    BY <1>1, <1>5 DEF Probe, Moved, Move, Sound, StepsOf, Commands
  <2> HIDE DEF c
  <2> QED BY <1>1, <2>1, AskMoves
<1> QED BY <1>3, <1>4, <1>5

LEMMA CheckStep == ASSUME LauncherInv, NEW i \in DOMAIN commands, Check(i) PROVE LauncherInv'
<1>1. /\ LauncherTypes /\ commands[i].at = "check" /\ Sound(commands[i])
      /\ pid_file' = pid_file /\ orderly' = orderly /\ proc' = proc /\ Up' = Up
      /\ commands[i].kind # "start" /\ proc \in [Pids -> States] /\ commands[i].pid \in Pids
  BY DEF LauncherInv, Check, LauncherTypes, At, Sound, StepsOf, Commands, Up
<1>2. i \in Asks /\ (orderly => Up \subseteq {commands[i].pid})
  BY <1>1, AskedLast DEF LauncherInv, Asks, Starts, Live
<1>3. CASE ~ is_maxllm_process(commands[i].pid)
  <2> DEFINE c == Say(i, "remove", "not running")
  <2>1. "not running" \in Answers
    BY DEF Answers
  <2>2. Said(i, c, "remove", "not running")
    BY <1>1, <2>1, Says
  <2>3. commands' = [commands EXCEPT ![i] = c]
    BY <1>3 DEF Check
  <2> HIDE DEF c
  <2>4. Moved(i, c)
    BY <2>2, <2>3 DEF Moved, Said
  <2>5. orderly => Up = {} /\ Serving = {}
    BY <1>1, <1>2, <1>3 DEF is_maxllm_process, Gateways, Up, Serving
  <2> QED BY <1>1, <2>2, <2>4, <2>5, AskMoves DEF Said
<1>4. CASE is_maxllm_process(commands[i].pid)
  <2> DEFINE c == Move(i, "kill")
  <2>1. Moved(i, c) /\ c.at = "kill" /\ c.pid = commands[i].pid
        /\ c.answer = commands[i].answer /\ c.up = commands[i].up
    BY <1>1, <1>4 DEF Check, Moved, Move, Sound, StepsOf, Commands
  <2> HIDE DEF c
  <2> QED BY <1>1, <2>1, AskMoves
<1> QED BY <1>3, <1>4

LEMMA KillStep == ASSUME LauncherInv, NEW i \in DOMAIN commands, Kill(i) PROVE LauncherInv'
<1> DEFINE p == commands[i].pid
           c == Say(i, "remove", IF Alive(p) THEN "stopped" ELSE "failed")
<1>1. /\ LauncherTypes /\ commands[i].at = "kill" /\ Sound(commands[i])
      /\ pid_file' = pid_file /\ orderly' = orderly
      /\ commands[i].kind # "start" /\ proc \in [Pids -> States] /\ p \in Pids
  BY DEF LauncherInv, Kill, LauncherTypes, At, Sound, StepsOf, Commands
<1>2. i \in Asks /\ (orderly => Up \subseteq {p})
  BY <1>1, AskedLast DEF LauncherInv, Asks, Starts, Live
<1>3. \E s \in States \ {"booting", "forking", "server"} : proc' = [proc EXCEPT ![p] = s]
  <2>1. Gone(p) \in {"zombie", "free"} /\ proc[p] \in States
    BY <1>1 DEF Gone
  <2> QED BY <1>1, <2>1 DEF Kill, States, Gateways
<1>4. proc' \in [Pids -> States] /\ (orderly => Up' = {}) /\ Up' \subseteq Up
      /\ \A q \in Up' : proc'[q] = proc[q]
  BY <1>1, <1>2, <1>3 DEF Up
<1>5. "stopped" \in Answers /\ "failed" \in Answers
  BY DEF Answers
<1>6. PICK answer \in Answers : answer # "not running" /\ c = Say(i, "remove", answer)
  BY <1>5
<1>7. Said(i, c, "remove", answer)
  <2>1. Said(i, Say(i, "remove", answer), "remove", answer)
    BY <1>1, Says
  <2> QED BY <1>6, <2>1
<1>8. commands' = [commands EXCEPT ![i] = c]
  BY DEF Kill
<1> HIDE DEF c, p
<1>9. Moved(i, c)
  BY <1>7, <1>8 DEF Moved, Said
<1> QED BY <1>1, <1>4, <1>6, <1>7, <1>9, AskMoves DEF Said

LEMMA InterruptStep == ASSUME LauncherInv, NEW i \in DOMAIN commands, Interrupt(i) PROVE LauncherInv'
<1> USE DEF LauncherInv
<1> DEFINE c == [Move(i, "done") EXCEPT !.pid = None]
<1>1. commands[i].at = "wait" /\ Sound(commands[i]) /\ pid_file' = pid_file /\ orderly' = orderly
      /\ commands[i].kind = "start" /\ commands[i].pid \in Pids
  BY DEF Interrupt, LauncherTypes, At, Sound, StepsOf, Commands
<1>2. \E s \in {"free", "draining"} : proc' = [proc EXCEPT ![commands[i].pid] = s]
  BY <1>1 DEF Interrupt, LauncherTypes
<1>3. c = [commands[i] EXCEPT !.at = "done", !.pid = None]
  BY DEF Move
<1>4. Moved(i, c) /\ c.at = "done" /\ c.answer = commands[i].answer /\ c.up = commands[i].up
  <2>1. commands' = [commands EXCEPT ![i] = c]
    BY DEF Interrupt, Move, LauncherTypes
  <2> QED BY <1>1, <2>1, Goes DEF Moved, StepsOf
<1> HIDE DEF c
<1>5. LauncherTypes'
  BY <1>1, <1>2, <1>4, MoveKeeps DEF LauncherTypes, States, Gateways
<1> SUFFICES ASSUME orderly PROVE OneOfEach' /\ Watched' /\ Asked' /\ NotRunningIsTrue'
  BY <1>1, <1>5
<1>6. i \in Starts /\ Up \subseteq {commands[i].pid}
  BY <1>1, <1>4, MoveLive DEF Watched, OneOfEach
<1>7. Up' = {}
  BY <1>1, <1>2, <1>6 DEF Up, LauncherTypes
<1>8. OneOfEach' /\ NotRunningIsTrue'
  BY <1>1, <1>4, MoveOneOfEach, MoveAnswers
<1>9. Watched' /\ Asked'
  BY <1>7 DEF Watched, Asked
<1> QED BY <1>8, <1>9

\* A step of the processes alone that leaves none up that was not, and where
\* what is still up is not forking, is no matter to the commands.
LEMMA ProcessesStep ==
  ASSUME LauncherInv, UNCHANGED <<pid_file, commands, orderly>>, proc' \in [Pids -> States],
         orderly => Up' \subseteq Up /\ \A p \in Up' : proc'[p] # "forking"
  PROVE  LauncherInv'
<1> USE DEF LauncherInv
<1>1. LauncherTypes'
  BY DEF LauncherTypes
<1> SUFFICES ASSUME orderly PROVE OneOfEach' /\ Watched' /\ Asked' /\ NotRunningIsTrue'
  BY <1>1
<1>2. Live' = Live /\ Starts' = Starts /\ Asks' = Asks
  BY DEF Live, Starts, Asks
<1>3. OneOfEach' /\ NotRunningIsTrue'
  BY <1>2 DEF OneOfEach, NotRunningIsTrue
<1>4. Watched' /\ Asked'
  BY <1>2 DEF Watched, Asked
<1> QED BY <1>3, <1>4

LEMMA ListenStep == ASSUME LauncherInv, NEW p \in Pids, Listen(p) PROVE LauncherInv'
<1>1. LauncherTypes /\ proc \in [Pids -> States] /\ UNCHANGED <<pid_file, commands, orderly>>
  BY DEF LauncherInv, LauncherTypes, Listen
<1>2. CASE proc[p] = "booting" /\ proc' = [proc EXCEPT ![p] = "server"]
  <2>1. proc' \in [Pids -> States] /\ Up' \subseteq Up
    BY <1>1, <1>2 DEF Up, States, Gateways
  <2>2. orderly => \A q \in Up' : proc'[q] # "forking"
    BY <1>1, <1>2, <2>1 DEF LauncherInv, Watched
  <2> QED BY <1>1, <2>1, <2>2, ProcessesStep
<1>3. CASE /\ proc[p] = "forking"
           /\ \E q \in Free : proc' = [proc EXCEPT ![p] = Gone(p), ![q] = "server"]
  <2>1. proc' \in [Pids -> States]
    BY <1>1, <1>3 DEF Gone, States, Gateways
  <2>2. ~ orderly
    BY <1>3 DEF LauncherInv, Watched, Up
  <2> QED BY <1>1, <2>1, <2>2, ProcessesStep
<1> QED BY <1>2, <1>3 DEF Listen

LEMMA ExitStep == ASSUME LauncherInv, NEW p \in Pids, Exit(p) PROVE LauncherInv'
<1>1. LauncherTypes /\ proc \in [Pids -> States] /\ UNCHANGED <<pid_file, commands, orderly>>
  BY DEF LauncherInv, LauncherTypes, Exit
<1>2. proc' = [proc EXCEPT ![p] = Gone(p)] /\ Gone(p) \in {"zombie", "free"}
  BY DEF Exit, Gone
<1>3. proc' \in [Pids -> States] /\ Up' \subseteq Up /\ \A q \in Up' : proc'[q] = proc[q]
  BY <1>1, <1>2 DEF Up, States
<1>4. orderly => \A q \in Up' : proc'[q] # "forking"
  BY <1>3 DEF LauncherInv, Watched
<1> QED BY <1>1, <1>3, <1>4, ProcessesStep

LEMMA OthersStep == ASSUME LauncherInv, NEW p \in Pids, Others(p) PROVE LauncherInv'
<1>1. LauncherTypes /\ proc \in [Pids -> States] /\ UNCHANGED <<pid_file, commands, orderly>>
  BY DEF LauncherInv, LauncherTypes, Others
<1>2. \E s \in Strangers \cup {"free"} : proc' = [proc EXCEPT ![p] = s]
  BY DEF Others
<1>3. proc' \in [Pids -> States] /\ Up' \subseteq Up /\ \A q \in Up' : proc'[q] = proc[q]
  BY <1>1, <1>2 DEF Up, States, Strangers
<1>4. orderly => \A q \in Up' : proc'[q] # "forking"
  BY <1>3 DEF LauncherInv, Watched
<1> QED BY <1>1, <1>3, <1>4, ProcessesStep

LEMMA BeginStep ==
  ASSUME LauncherInv, NEW verb \in {"start", "stop", "status"}, NEW daemon \in BOOLEAN,
         Begin(verb, daemon)
  PROVE  LauncherInv'
<1> USE DEF LauncherInv
<1> DEFINE c == [kind |-> verb, daemon |-> daemon,
                 at |-> IF verb = "start" THEN "spawn" ELSE "read",
                 pid |-> None, answer |-> None, up |-> FALSE]
           n == Len(commands) + 1
<1>1. /\ commands' = Append(commands, c) /\ pid_file' = pid_file /\ proc' = proc /\ Up' = Up
      /\ orderly' = (orderly /\ Orderly(verb, daemon))
  BY DEF Begin, Up
<1>2. c \in Commands /\ Sound(c)
  BY DEF Commands, Answers, StepsOf, Sound
<1>3. c.kind = verb /\ c.daemon = daemon /\ c.up = FALSE
      /\ c.at = (IF verb = "start" THEN "spawn" ELSE "read")
  OBVIOUS
<1> HIDE DEF c
<1>4. /\ commands \in Seq(Commands) /\ commands' \in Seq(Commands)
      /\ DOMAIN commands' = DOMAIN commands \cup {n} /\ n \notin DOMAIN commands
      /\ commands'[n] = c /\ \A j \in DOMAIN commands : commands'[j] = commands[j]
  BY <1>1, <1>2 DEF LauncherTypes
<1> HIDE DEF n
<1>5. LauncherTypes'
  BY <1>1, <1>2, <1>4 DEF LauncherTypes
<1> SUFFICES ASSUME orderly, Orderly(verb, daemon)
             PROVE  OneOfEach' /\ Watched' /\ Asked' /\ NotRunningIsTrue'
  BY <1>1, <1>5
<1>6. Live' = Live \cup {n} /\ n \notin Live
  BY <1>3, <1>4 DEF Live
<1>7. \A j \in Live : commands[j].at = "wait" /\ j \in Starts /\ commands'[j] = commands[j]
  BY <1>4 DEF Orderly, Live, Starts, LauncherTypes, Sound, StepsOf
<1>8. NotRunningIsTrue'
  BY <1>3, <1>4 DEF NotRunningIsTrue
<1>9. CASE verb = "start"
  <2>1. Live = {} /\ ~ daemon
    BY <1>9 DEF Orderly
  <2>2. Starts = {} /\ Up = {}
    BY <1>7, <2>1 DEF Watched, Starts
  <2>3. Starts' = {n} /\ Asks' = {}
    BY <1>3, <1>4, <1>6, <1>9, <2>1 DEF Starts, Asks
  <2>4. OneOfEach'
    BY <1>3, <1>4, <2>1, <2>3 DEF OneOfEach
  <2> QED BY <1>1, <1>8, <2>2, <2>3, <2>4 DEF Watched, Asked
<1>10. CASE verb # "start"
  <2>1. Asks' = {n} /\ Starts' = Starts
    BY <1>3, <1>4, <1>6, <1>7, <1>10 DEF Starts, Asks
  <2>2. OneOfEach'
    BY <1>7, <2>1 DEF OneOfEach, Starts
  <2>3. Watched'
    <3> SUFFICES ASSUME NEW p \in Up'
                 PROVE  \E j \in Starts' :
                          /\ proc'[p] # "forking" /\ commands'[j].pid = p
                          /\ \/ commands'[j].at \in {"write", "fill"}
                             \/ commands'[j].at = "wait" /\ pid_file' = p
      BY DEF Watched
    <3>1. PICK j \in Starts : /\ proc[p] # "forking" /\ commands[j].pid = p
                              /\ \/ commands[j].at \in {"write", "fill"}
                                 \/ commands[j].at = "wait" /\ pid_file = p
      BY <1>1 DEF Watched
    <3>2. commands'[j] = commands[j] /\ j \in Starts'
      BY <1>7, <2>1 DEF Starts
    <3> QED BY <1>1, <3>1, <3>2
  <2>4. commands'[n].at = "read"
    BY <1>3, <1>4, <1>10
  <2>5. Asked'
    BY <2>1, <2>4 DEF Asked
  <2> QED BY <1>8, <2>2, <2>3, <2>5
<1> QED BY <1>9, <1>10

LEMMA LauncherInitial == LauncherInit => LauncherInv
<1> SUFFICES ASSUME LauncherInit PROVE LauncherInv
  OBVIOUS
<1>1. commands = << >> /\ commands \in Seq(Commands) /\ DOMAIN commands = {}
  BY DEF LauncherInit
<1>2. LauncherTypes
  BY <1>1 DEF LauncherInit, LauncherTypes, States, Strangers
<1>3. Live = {} /\ Up = {}
  BY <1>1 DEF Live, Up, LauncherInit
<1> QED BY <1>1, <1>2, <1>3 DEF LauncherInv, OneOfEach, Watched, Asked, NotRunningIsTrue, Starts, Asks

LEMMA LauncherNextStep == LauncherInv /\ [LauncherNext]_launcher_vars => LauncherInv'
<1> SUFFICES ASSUME LauncherInv, [LauncherNext]_launcher_vars PROVE LauncherInv'
  OBVIOUS
<1>1. CASE \E verb \in {"start", "stop", "status"}, daemon \in BOOLEAN : Begin(verb, daemon)
  BY <1>1, BeginStep
<1>2. ASSUME NEW i \in DOMAIN commands,
             \/ Spawn(i) \/ SpawnFails(i) \/ Empties(i) \/ Write(i) \/ Wait(i) \/ RemovePid(i)
             \/ Read(i) \/ Probe(i) \/ Check(i) \/ Kill(i) \/ Interrupt(i)
      PROVE  LauncherInv'
  BY <1>2, SpawnStep, SpawnFailsStep, EmptiesStep, WriteStep, WaitStep, RemoveStep, ReadStep,
     ProbeStep, CheckStep, KillStep, InterruptStep
<1>3. ASSUME NEW p \in Pids, Listen(p) \/ Exit(p) \/ Others(p) PROVE LauncherInv'
  BY <1>3, ListenStep, ExitStep, OthersStep
<1>4. CASE UNCHANGED launcher_vars
  <2>1. pid_file' = pid_file /\ proc' = proc /\ commands' = commands /\ orderly' = orderly
    BY <1>4 DEF launcher_vars
  <2>2. Live' = Live /\ Up' = Up
    BY <2>1 DEF Live, Up
  <2>3. Starts' = Starts /\ Asks' = Asks
    BY <2>1, <2>2 DEF Starts, Asks
  <2>4. LauncherTypes' /\ (OneOfEach => OneOfEach') /\ (NotRunningIsTrue => NotRunningIsTrue')
    BY <2>1, <2>3 DEF LauncherInv, LauncherTypes, OneOfEach, NotRunningIsTrue
  <2>5. (Watched => Watched') /\ (Asked => Asked')
    BY <2>1, <2>2, <2>3 DEF Watched, Asked
  <2> QED BY <2>1, <2>4, <2>5 DEF LauncherInv
<1> QED BY <1>1, <1>2, <1>3, <1>4 DEF LauncherNext

\* stop and status tell an orderly user the truth: at the moment one decides to
\* say "not running" no gateway listens, for any number of processes and commands
\* (stop.rs:12-43, status.rs:12-36).
THEOREM NotRunningIsTrueAlways == LauncherSpec => []NotRunningIsTrue
<1>1. LauncherInv => NotRunningIsTrue
  BY DEF LauncherInv, NotRunningIsTrue
<1> QED BY <1>1, LauncherInitial, LauncherNextStep, PTL DEF LauncherSpec


----------------------------------------------------------------------------
(* The bytes of the wire, and the pieces of it a buffer holds.             *)

Wired == kind \in Kinds /\ wire \in Wires[kind] /\ closed \in BOOLEAN

\* The wire is a sequence of one event or more.
LEMMA WireFacts ==
  ASSUME Wired
  PROVE  /\ kind \in {"anthropic", "cohere", "gemini"}
         /\ Len(wire) \in Nat \ {0} /\ DOMAIN wire = 1 .. Len(wire)
         /\ \A n \in 1 .. Len(wire) :
              wire[n] \in IF kind = "gemini" THEN Answer ELSE Named
<1>1. kind \in {"anthropic", "cohere", "gemini"} /\ wire # << >>
      /\ wire \in Seq(IF kind = "gemini" THEN Answer ELSE Named)
  BY WiresAssumption DEF Wired
<1> DEFINE E == IF kind = "gemini" THEN Answer ELSE Named
<1>2. wire \in Seq(E) /\ wire # << >> BY <1>1
<1> HIDE DEF E
<1>3. /\ Len(wire) \in Nat \ {0} /\ DOMAIN wire = 1 .. Len(wire)
      /\ \A n \in 1 .. Len(wire) : wire[n] \in E
  BY <1>2, EmptySeq
<1> QED BY <1>1, <1>3 DEF E

\* The pieces of an event come before its newlines.
LEMMA PieceAt ==
  ASSUME NEW k \in Nat \ {0}
  PROVE  /\ ByteAt(5 * (k - 1) + 1) = <<k, 1>>
         /\ ByteAt(5 * (k - 1) + 2) = <<k, 2>>
         /\ ByteAt(5 * (k - 1) + 3) = <<k, 3>>
         /\ ByteAt(5 * k - 1) = NL /\ ByteAt(5 * k) = NL
<1>1. ASSUME NEW j \in 1 .. 3 PROVE ByteAt(5 * (k - 1) + j) = <<k, j>>
  <2>1. (5 * (k - 1) + j - 1) % 5 = j - 1 /\ (5 * (k - 1) + j - 1) \div 5 = k - 1
    OBVIOUS
  <2> QED BY <2>1 DEF ByteAt, Byte
<1>2. (5 * k - 1 - 1) % 5 = 3 /\ (5 * k - 1) % 5 = 4
  OBVIOUS
<1>3. ByteAt(5 * k - 1) = NL /\ ByteAt(5 * k) = NL
  BY <1>2 DEF ByteAt
<1> QED BY <1>1, <1>3

\* A byte is a newline or one of its event's pieces, by where it is.
LEMMA ByteIs ==
  ASSUME NEW i \in Nat \ {0}
  PROVE  /\ ByteAt(i) \in Nat \X Nat
         /\ ByteAt(i) = NL <=> i % 5 \in {0, 4}
         /\ \A k \in Nat \ {0}, j \in 1 .. 3 :
              ByteAt(i) = <<k, j>> <=> i = 5 * (k - 1) + j
<1>1. /\ (i - 1) \div 5 \in Nat /\ (i - 1) % 5 \in 0 .. 4
      /\ i - 1 = 5 * ((i - 1) \div 5) + ((i - 1) % 5)
  OBVIOUS
<1>2. (i - 1) % 5 < 3 <=> i % 5 \notin {0, 4}
  OBVIOUS
<1>3. CASE (i - 1) % 5 < 3
  <2>1. ByteAt(i) = <<((i - 1) \div 5) + 1, ((i - 1) % 5) + 1>>
    BY <1>3 DEF ByteAt, Byte
  <2>2. ByteAt(i) # NL BY <1>1, <2>1 DEF NL, Byte
  <2>3. ASSUME NEW k \in Nat \ {0}, NEW j \in 1 .. 3
        PROVE  ByteAt(i) = <<k, j>> <=> i = 5 * (k - 1) + j
    <3> DEFINE d == (i - 1) \div 5
               r == (i - 1) % 5
    <3>1. d \in Nat /\ r \in 0 .. 2 /\ i = 5 * d + r + 1 /\ ByteAt(i) = <<d + 1, r + 1>>
      BY <1>1, <1>3, <2>1
    <3> HIDE DEF d, r
    <3>2. (d + 1 = k /\ r + 1 = j) <=> i = 5 * (k - 1) + j
      BY <3>1
    <3> QED BY <3>1, <3>2
  <2> QED BY <1>1, <1>2, <1>3, <2>1, <2>2, <2>3
<1>4. CASE ~((i - 1) % 5 < 3)
  <2>1. ByteAt(i) = <<0, 0>> BY <1>4 DEF ByteAt, NL, Byte
  <2>2. \A k \in Nat \ {0}, j \in 1 .. 3 : i # 5 * (k - 1) + j
    BY <1>4
  <2> QED BY <1>2, <1>4, <2>1, <2>2 DEF NL, Byte
<1> QED BY <1>3, <1>4

Size == 5 * Len(wire) - (IF closed THEN 0 ELSE 2)

LEMMA BytesFacts ==
  ASSUME Wired
  PROVE  /\ Size \in Nat \ {0} /\ Bytes \in Seq(Nat \X Nat) /\ Len(Bytes) = Size
         /\ \A i \in 1 .. Size : Bytes[i] = ByteAt(i)
<1>1. Size \in Nat \ {0} BY WireFacts DEF Size
<1>2. \A i \in 1 .. Size : ByteAt(i) \in Nat \X Nat
  BY <1>1, ByteIs
<1>3. Bytes = [i \in 1 .. Size |-> ByteAt(i)] BY DEF Bytes, Size
<1> HIDE DEF Size
<1> QED BY <1>1, <1>2, <1>3

\* What a buffer holds between two places of the wire.
Window(b, q, p) ==
  /\ b \in Seq(Nat \X Nat) /\ Len(b) = p - q
  /\ \A i \in 1 .. p - q : b[i] = ByteAt(q + i)

LEMMA WindowFacts ==
  ASSUME Wired, NEW p \in 0 .. Size, NEW q \in 0 .. p
  PROVE  Window(SubSeq(Bytes, q + 1, p), q, p)
<1>1. /\ Size \in Nat /\ Bytes \in Seq(Nat \X Nat) /\ Len(Bytes) = Size
      /\ \A i \in 1 .. Size : Bytes[i] = ByteAt(i)
  BY BytesFacts
<1> HIDE DEF Size
<1>2. p \in Nat /\ q \in Nat /\ q <= p /\ p <= Size BY <1>1
<1>3. /\ SubSeq(Bytes, q + 1, p) \in Seq(Nat \X Nat)
      /\ Len(SubSeq(Bytes, q + 1, p)) = p - q
      /\ \A i \in 1 .. p - q : SubSeq(Bytes, q + 1, p)[i] = Bytes[q + 1 + i - 1]
  BY <1>1, <1>2, SubSeqProperties
<1>4. \A i \in 1 .. p - q : q + 1 + i - 1 = q + i /\ q + i \in 1 .. Size
  BY <1>1, <1>2
<1> QED BY <1>1, <1>3, <1>4 DEF Window

----------------------------------------------------------------------------
(* The loops, as the histories of their values.                            *)

\* The loop of process_chunk takes one turn after the other.
LEMMA DrainTurns ==
  ASSUME NEW a, NEW n \in Nat, n = Len(a.buf)
  PROVE  \E h : /\ h[0] = a /\ Drain(a) = h[n]
                /\ \A k \in 1 .. n : h[k] = Turn(h[k - 1])
<1> DEFINE Equation(g, m) == g = [k \in 0 .. m |-> IF k = 0 THEN a ELSE Turn(g[k - 1])]
           S == {m \in Nat : \E g : Equation(g, m)}
<1>1. 0 \in S
  <2>1. Equation([k \in 0 .. 0 |-> a], 0) OBVIOUS
  <2> QED BY <2>1
<1>2. ASSUME NEW m \in Nat, m \in S PROVE m + 1 \in S
  <2>1. PICK g : Equation(g, m) BY <1>2
  <2> DEFINE f == [k \in 0 .. m + 1 |-> IF k <= m THEN g[k] ELSE Turn(g[m])]
  <2>2. ASSUME NEW k \in 0 .. m + 1 PROVE f[k] = IF k = 0 THEN a ELSE Turn(f[k - 1])
    <3>1. CASE k = 0 BY <2>1, <3>1
    <3>2. CASE k \in 1 .. m
      <4>1. g[k] = Turn(g[k - 1]) BY <2>1, <3>2
      <4> QED BY <3>2, <4>1
    <3>3. CASE k = m + 1 BY <3>3
    <3> QED BY <3>1, <3>2, <3>3
  <2>3. Equation(f, m + 1) BY <2>2
  <2> HIDE DEF Equation, f
  <2> QED BY <2>3
<1>3. Nat \subseteq S
  <2> HIDE DEF S
  <2> QED BY <1>1, <1>2, Steps
<1> DEFINE h == CHOOSE g : Equation(g, n)
<1>4. Equation(h, n)
  <2>1. \E g : Equation(g, n) BY <1>3
  <2> HIDE DEF Equation
  <2> QED BY <2>1
<1>5. Drain(a) = h[n] BY DEF Drain
<1> HIDE DEF h
<1>6. h[0] = a /\ \A k \in 1 .. n : h[k] = Turn(h[k - 1]) BY <1>4
<1> QED BY <1>5, <1>6

\* The translator after n events.
After(n) == Translation[n].st

\* The translation goes on event by event.
Onwards(t, n) == LET one == Event(t.st, n) IN Gives(one.st, t.items \o one.items)

Unfolds == /\ Translation[0] = Gives(Silent, << >>)
           /\ \A n \in 1 .. Len(wire) : Translation[n] = Onwards(Translation[n - 1], n)

LEMMA TranslationUnfolds == Wired => Unfolds
<1> SUFFICES ASSUME Wired PROVE Unfolds OBVIOUS
<1> DEFINE base == Gives(Silent, <<>>)
           Equation(g, m) == g = [k \in 0 .. m |-> IF k = 0 THEN base ELSE Onwards(g[k - 1], k)]
           S == {m \in Nat : \E g : Equation(g, m)}
<1>0. Len(wire) \in Nat BY WireFacts
<1>5. Translation = CHOOSE g : Equation(g, Len(wire)) BY DEF Translation, Onwards
<1> HIDE DEF base
<1>1. 0 \in S
  <2>1. Equation([k \in 0 .. 0 |-> base], 0) OBVIOUS
  <2> QED BY <2>1
<1>2. ASSUME NEW m \in Nat, m \in S PROVE m + 1 \in S
  <2>1. PICK g : Equation(g, m) BY <1>2
  <2> DEFINE f == [k \in 0 .. m + 1 |-> IF k <= m THEN g[k] ELSE Onwards(g[m], m + 1)]
  <2>2. ASSUME NEW k \in 0 .. m + 1 PROVE f[k] = IF k = 0 THEN base ELSE Onwards(f[k - 1], k)
    <3>1. CASE k = 0 BY <2>1, <3>1
    <3>2. CASE k \in 1 .. m
      <4>1. g[k] = Onwards(g[k - 1], k) BY <2>1, <3>2
      <4> QED BY <3>2, <4>1
    <3>3. CASE k = m + 1 BY <3>3
    <3> QED BY <3>1, <3>2, <3>3
  <2>3. Equation(f, m + 1) BY <2>2
  <2> HIDE DEF Equation, f
  <2> QED BY <2>3
<1>3. Nat \subseteq S
  <2> HIDE DEF S
  <2> QED BY <1>1, <1>2, Steps
<1>4. Equation(Translation, Len(wire))
  <2>1. \E g : Equation(g, Len(wire)) BY <1>0, <1>3
  <2> HIDE DEF Equation
  <2> QED BY <2>1, <1>5
<1>8. /\ Translation[0] = base
      /\ \A n \in 1 .. Len(wire) : Translation[n] = Onwards(Translation[n - 1], n)
  BY <1>0, <1>4
<1> QED BY <1>8 DEF Unfolds, base

LEMMA TranslationGoesOn ==
  ASSUME Wired
  PROVE  /\ After(0) = Silent /\ Translated(0) = << >>
         /\ \A n \in 1 .. Len(wire) :
              /\ After(n) = Event(After(n - 1), n).st
              /\ Translated(n) = Translated(n - 1) \o Event(After(n - 1), n).items
<1>1. Unfolds BY TranslationUnfolds
<1>2. \A t, n : /\ Onwards(t, n).st = Event(t.st, n).st
                /\ Onwards(t, n).items = t.items \o Event(t.st, n).items
  BY DEF Onwards, Gives
<1>3. Gives(Silent, << >>).st = Silent /\ Gives(Silent, << >>).items = << >>
  BY DEF Gives
<1> QED BY <1>1, <1>2, <1>3 DEF Unfolds, After, Translated

----------------------------------------------------------------------------
(* What Gemini's translator adds to what the client has been told.         *)

Translator  == [role : BOOLEAN, calls : Nat]
Texts       == {"text"} \X (1 .. Len(wire))
Sayable(c)  == {Role, Finish, Done} \cup ({"text", "tool", "args"} \X (1 .. Len(wire)))
                 \cup ({"call"} \X (0 .. c))

\* From s to z by saying items: the role once, before any text, and not when
\* it counted as said.
Adds(s, z, items) ==
  /\ s \in Translator /\ z \in Translator
  /\ s.calls <= z.calls /\ (s.role => z.role)
  /\ items \in Seq(Sayable(z.calls))
  /\ \A i \in 1 .. Len(items) :
       /\ items[i] # Done
       /\ items[i] \in Texts => z.role
       /\ items[i] = Role => /\ ~s.role /\ z.role
                             /\ \A j \in 1 .. i - 1 : items[j] # Role /\ items[j] \notin Texts

LEMMA SayableGrows ==
  ASSUME NEW c \in Nat, NEW d \in Nat, c <= d
  PROVE  Sayable(c) \subseteq Sayable(d)
<1>1. 0 .. c \subseteq 0 .. d OBVIOUS
<1> QED BY <1>1 DEF Sayable

LEMMA AddsNothing ==
  ASSUME NEW s \in Translator PROVE Adds(s, s, << >>)
<1>1. << >> \in Seq(Sayable(s.calls)) /\ Len(<< >>) = 0 BY EmptySeq
<1> QED BY <1>1 DEF Adds, Translator

LEMMA AddsOne ==
  ASSUME NEW s \in Translator, NEW z \in Translator, s.calls <= z.calls, s.role => z.role,
         NEW x \in Sayable(z.calls), x # Done, x \in Texts => z.role,
         x = Role => ~s.role /\ z.role
  PROVE  Adds(s, z, <<x>>)
<1>1. <<x>> \in Seq(Sayable(z.calls)) /\ Len(<<x>>) = 1 /\ <<x>>[1] = x OBVIOUS
<1> QED BY <1>1 DEF Adds

LEMMA AddsMore ==
  ASSUME NEW s, NEW z, NEW y, NEW items, NEW more, Adds(s, z, items), Adds(z, y, more)
  PROVE  Adds(s, y, items \o more)
<1>1. /\ s \in Translator /\ z \in Translator /\ y \in Translator
      /\ s.calls <= z.calls /\ z.calls <= y.calls
      /\ (s.role => z.role) /\ (z.role => y.role)
      /\ items \in Seq(Sayable(z.calls)) /\ more \in Seq(Sayable(y.calls))
  BY DEF Adds
<1>2. s.calls <= y.calls /\ Sayable(z.calls) \subseteq Sayable(y.calls)
  <2>1. s.calls \in Nat /\ z.calls \in Nat /\ y.calls \in Nat BY <1>1 DEF Translator
  <2> QED BY <1>1, <2>1, SayableGrows
<1> DEFINE all == items \o more
<1>3. items \in Seq(Sayable(y.calls)) BY <1>1, <1>2
<1>4. /\ all \in Seq(Sayable(y.calls)) /\ Len(all) = Len(items) + Len(more)
      /\ Len(items) \in Nat /\ Len(more) \in Nat
      /\ \A i \in 1 .. Len(items) : all[i] = items[i]
      /\ \A i \in 1 .. Len(more) : all[Len(items) + i] = more[i]
  BY <1>1, <1>3
<1> HIDE DEF all
<1>5. ASSUME NEW i \in 1 .. Len(all)
      PROVE  /\ all[i] # Done
             /\ all[i] \in Texts => y.role
             /\ all[i] = Role => /\ ~s.role /\ y.role
                                 /\ \A j \in 1 .. i - 1 : all[j] # Role /\ all[j] \notin Texts
  <2>1. CASE i <= Len(items)
    <3>1. i \in 1 .. Len(items) BY <1>4, <2>1
    <3>2. all[i] = items[i] /\ \A j \in 1 .. i - 1 : all[j] = items[j] BY <1>4, <3>1
    <3> QED BY <1>1, <3>1, <3>2 DEF Adds
  <2>2. CASE i > Len(items)
    <3> DEFINE l == i - Len(items)
    <3>1. l \in 1 .. Len(more) /\ i = Len(items) + l BY <1>4, <2>2
    <3> HIDE DEF l
    <3>2. all[i] = more[l] BY <1>4, <3>1
    <3>3. ASSUME all[i] = Role, NEW j \in 1 .. i - 1
          PROVE  all[j] # Role /\ all[j] \notin Texts
      <4>1. ~z.role /\ \A m \in 1 .. l - 1 : more[m] # Role /\ more[m] \notin Texts
        BY <3>1, <3>2, <3>3 DEF Adds
      <4>2. CASE j <= Len(items)
        <5>1. j \in 1 .. Len(items) /\ all[j] = items[j] BY <1>4, <4>2
        <5> QED BY <4>1, <5>1 DEF Adds
      <4>3. CASE j > Len(items)
        <5>1. j - Len(items) \in 1 .. l - 1 /\ j - Len(items) \in 1 .. Len(more)
              /\ j = Len(items) + (j - Len(items))
          BY <1>4, <3>1, <4>3
        <5>2. all[j] = more[j - Len(items)] BY <1>4, <5>1
        <5> QED BY <4>1, <5>1, <5>2
      <4> QED BY <1>4, <4>2, <4>3
    <3>4. all[i] # Done /\ (all[i] \in Texts => y.role)
          /\ (all[i] = Role => ~z.role /\ y.role)
      BY <3>1, <3>2 DEF Adds
    <3> QED BY <1>1, <3>3, <3>4
  <2> QED BY <1>4, <2>1, <2>2
<1> QED BY <1>1, <1>2, <1>4, <1>5 DEF Adds, all

\* A part of a candidate.
LEMMA PartAdds ==
  ASSUME Wired, NEW s, NEW acc, Adds(s, acc.st, acc.items),
         NEW part \in {"text", "call"}, NEW n \in 1 .. Len(wire)
  PROVE  Adds(s, GeminiPart(acc, part, n).st, GeminiPart(acc, part, n).items)
<1>0. PICK z : z = acc.st OBVIOUS
<1>1. z \in Translator /\ z.calls \in Nat /\ z.role \in BOOLEAN /\ Adds(s, z, acc.items)
  BY <1>0 DEF Adds, Translator
<1>2. CASE part = "text"
  <2> DEFINE y == [z EXCEPT !.role = TRUE]
             x == Item("text", n)
  <2>1. y \in Translator /\ y.calls = z.calls /\ y.role BY <1>1 DEF Translator
  <2>2. x \in Texts /\ x \in Sayable(y.calls) /\ x # Role /\ x # Done
    BY DEF Item, Texts, Sayable, Role, Done
  <2>3. Role \in Sayable(y.calls) /\ Role \notin Texts /\ Role # Done
    BY DEF Sayable, Role, Done, Item, Texts
  <2> HIDE DEF x, y
  <2>4. GeminiPart(acc, part, n) =
          Gives(y, acc.items \o (IF z.role THEN << >> ELSE <<Role>>) \o <<x>>)
    BY <1>0, <1>2 DEF GeminiPart, x, y
  <2>5. Adds(s, z, acc.items \o << >>)
    <3>1. acc.items \o << >> = acc.items BY ConcatEmptySeq DEF Adds
    <3> QED BY <1>1, <3>1
  <2>6. CASE z.role
    <3>1. Adds(z, y, <<x>>) BY <1>1, <2>1, <2>2, AddsOne
    <3>2. Adds(s, y, (acc.items \o << >>) \o <<x>>) BY <2>5, <3>1, AddsMore
    <3> QED BY <2>4, <2>6, <3>2 DEF Gives
  <2>7. CASE ~z.role
    <3>1. Adds(z, y, <<Role>>) BY <1>1, <2>1, <2>3, <2>7, AddsOne
    <3>2. Adds(y, y, <<x>>) BY <2>1, <2>2, AddsOne DEF Translator
    <3>3. Adds(s, y, acc.items \o <<Role>>) BY <1>1, <3>1, AddsMore
    <3>4. Adds(s, y, (acc.items \o <<Role>>) \o <<x>>) BY <3>2, <3>3, AddsMore
    <3> QED BY <2>4, <2>7, <3>4 DEF Gives
  <2> QED BY <2>6, <2>7
<1>3. CASE part = "call"
  <2> DEFINE y == [role |-> TRUE, calls |-> z.calls + 1]
             x == Item("call", z.calls)
  <2>1. y \in Translator /\ y.calls = z.calls + 1 /\ y.role BY <1>1 DEF Translator
  <2>2. x \in Sayable(y.calls) /\ x # Role /\ x # Done /\ x \notin Texts
    BY <1>1, <2>1 DEF Item, Texts, Sayable, Role, Done
  <2> HIDE DEF x, y
  <2>3. GeminiPart(acc, part, n) = Gives(y, Append(acc.items, x))
    BY <1>0, <1>3 DEF GeminiPart, x, y
  <2>4. Adds(z, y, <<x>>) BY <1>1, <2>1, <2>2, AddsOne
  <2>5. Adds(s, y, acc.items \o <<x>>) BY <1>1, <2>4, AddsMore
  <2>6. Append(acc.items, x) = acc.items \o <<x>>
    BY <1>1, AppendIsConcat, SMTT(30) DEF Adds
  <2> QED BY <2>3, <2>5, <2>6 DEF Gives
<1> QED BY <1>2, <1>3

\* The parts of a candidate, one after the other.
LEMMA PartsAdd ==
  ASSUME Wired, NEW s, NEW acc, Adds(s, acc.st, acc.items),
         NEW parts \in Seq({"text", "call"}), NEW n \in 1 .. Len(wire)
  PROVE  Adds(s, GeminiParts(acc, parts, n).st, GeminiParts(acc, parts, n).items)
<1> DEFINE N == Len(parts)
           Equation(g, m) == g = [k \in 0 .. m |-> IF k = 0 THEN acc
                                                   ELSE GeminiPart(g[k - 1], parts[k], n)]
           S == {m \in Nat : \E g : Equation(g, m)}
           h == CHOOSE g : Equation(g, N)
<1>0. N \in Nat /\ \A k \in 1 .. N : parts[k] \in {"text", "call"} OBVIOUS
<1>1. 0 \in S
  <2>1. Equation([k \in 0 .. 0 |-> acc], 0) OBVIOUS
  <2> QED BY <2>1
<1>2. ASSUME NEW m \in Nat, m \in S PROVE m + 1 \in S
  <2>1. PICK g : Equation(g, m) BY <1>2
  <2> DEFINE f == [k \in 0 .. m + 1 |-> IF k <= m THEN g[k]
                                        ELSE GeminiPart(g[m], parts[m + 1], n)]
  <2>2. ASSUME NEW k \in 0 .. m + 1
        PROVE  f[k] = IF k = 0 THEN acc ELSE GeminiPart(f[k - 1], parts[k], n)
    <3>1. CASE k = 0 BY <2>1, <3>1
    <3>2. CASE k \in 1 .. m
      <4>1. g[k] = GeminiPart(g[k - 1], parts[k], n) BY <2>1, <3>2
      <4> QED BY <3>2, <4>1
    <3>3. CASE k = m + 1 BY <3>3
    <3> QED BY <3>1, <3>2, <3>3
  <2>3. Equation(f, m + 1) BY <2>2
  <2> HIDE DEF Equation, f
  <2> QED BY <2>3
<1>3. Nat \subseteq S
  <2> HIDE DEF S
  <2> QED BY <1>1, <1>2, Steps
<1>4. Equation(h, N)
  <2>1. \E g : Equation(g, N) BY <1>0, <1>3
  <2> HIDE DEF Equation
  <2> QED BY <2>1
<1>5. GeminiParts(acc, parts, n) = h[N] BY DEF GeminiParts
<1> HIDE DEF h, N
<1>6. h[0] = acc /\ \A k \in 1 .. N : h[k] = GeminiPart(h[k - 1], parts[k], n)
  BY <1>0, <1>4
<1> DEFINE T == {k \in 0 .. N : Adds(s, h[k].st, h[k].items)}
<1>7. ASSUME NEW k \in 1 .. N, k - 1 \in T PROVE k \in T
  <2>1. PICK before : before = h[k - 1] OBVIOUS
  <2>2. /\ Adds(s, before.st, before.items) /\ parts[k] \in {"text", "call"}
        /\ h[k] = GeminiPart(before, parts[k], n)
    BY <1>0, <1>6, <1>7, <2>1
  <2>3. Adds(s, h[k].st, h[k].items) BY <2>2, PartAdds
  <2> QED BY <1>0, <2>3
<1>8. 0 \in T BY <1>0, <1>6
<1>9. 0 .. N \subseteq T
  <2> HIDE DEF T
  <2> QED BY <1>0, <1>7, <1>8, Upwards
<1>10. N \in T BY <1>0, <1>9
<1> QED BY <1>5, <1>10

\* What the loop over the candidates has after each of them.
Gathered(s, r) == /\ Adds(s, r.st, r.items)
                  /\ r = [st |-> r.st, items |-> r.items, dropped |-> r.dropped]

\* A candidate.
LEMMA CandidateAdds ==
  ASSUME Wired, NEW s, NEW acc, Gathered(s, acc),
         NEW c \in Candidate, NEW n \in 1 .. Len(wire),
         NEW r, r = GeminiCandidate(acc, c, n)
  PROVE  Gathered(s, r)
<1>0. Adds(s, acc.st, acc.items)
      /\ acc = [st |-> acc.st, items |-> acc.items, dropped |-> acc.dropped]
  BY DEF Gathered
<1>1. CASE acc.dropped \/ ~c.content
  <2>1. r = [st |-> acc.st, items |-> acc.items, dropped |-> TRUE]
    BY <1>0, <1>1 DEF GeminiCandidate
  <2> QED BY <1>0, <2>1 DEF Gathered
<1>2. CASE ~(acc.dropped \/ ~c.content)
  <2> DEFINE start == Gives(acc.st, acc.items)
             parts == GeminiParts(start, c.parts, n)
             tail  == IF c.finish THEN <<Finish>> ELSE << >>
  <2>1. r = [st |-> parts.st, dropped |-> FALSE, items |-> parts.items \o tail]
    BY <1>2 DEF GeminiCandidate
  <2>2. Adds(s, start.st, start.items) BY <1>0 DEF Gives
  <2>3. c.parts \in Seq({"text", "call"}) BY DEF Candidate
  <2>4. Adds(s, parts.st, parts.items)
    <3> HIDE DEF start
    <3> QED BY <2>2, <2>3, PartsAdd
  <2>5. parts.st \in Translator /\ parts.st.calls \in Nat BY <2>4 DEF Adds, Translator
  <2>6. Finish \in Sayable(parts.st.calls) /\ Finish # Done /\ Finish # Role
        /\ Finish \notin Texts
    BY DEF Finish, Done, Role, Item, Sayable, Texts
  <2>7. Adds(parts.st, parts.st, tail)
    <3> HIDE DEF parts
    <3>1. CASE c.finish
      <4>1. Adds(parts.st, parts.st, <<Finish>>) BY <2>5, <2>6, AddsOne
      <4> QED BY <3>1, <4>1
    <3>2. CASE ~c.finish BY <2>5, <3>2, AddsNothing
    <3> QED BY <3>1, <3>2
  <2>8. Adds(s, parts.st, parts.items \o tail)
    <3> HIDE DEF parts, tail
    <3> QED BY <2>4, <2>7, AddsMore
  <2> HIDE DEF parts, tail
  <2> QED BY <2>1, <2>8 DEF Gathered
<1> QED BY <1>1, <1>2

\* The candidates, one after the other.
LEMMA CandidatesAdd ==
  ASSUME Wired, NEW s \in Translator, NEW cands \in Seq(Candidate), NEW n \in 1 .. Len(wire)
  PROVE  Adds(s, GeminiCandidates(s, cands, n).st, GeminiCandidates(s, cands, n).items)
<1> DEFINE N == Len(cands)
           acc == [st |-> s, items |-> <<>>, dropped |-> FALSE]
           Equation(g, m) == g = [k \in 0 .. m |-> IF k = 0 THEN acc
                                                   ELSE GeminiCandidate(g[k - 1], cands[k], n)]
           S == {m \in Nat : \E g : Equation(g, m)}
           h == CHOOSE g : Equation(g, N)
<1>0. N \in Nat /\ \A k \in 1 .. N : cands[k] \in Candidate OBVIOUS
<1>5. GeminiCandidates(s, cands, n) = h[N] BY DEF GeminiCandidates
<1>a. Gathered(s, acc) BY AddsNothing DEF Gathered
<1> HIDE DEF acc
<1>1. 0 \in S
  <2>1. Equation([k \in 0 .. 0 |-> acc], 0) OBVIOUS
  <2> QED BY <2>1
<1>2. ASSUME NEW m \in Nat, m \in S PROVE m + 1 \in S
  <2>1. PICK g : Equation(g, m) BY <1>2
  <2> DEFINE f == [k \in 0 .. m + 1 |-> IF k <= m THEN g[k]
                                        ELSE GeminiCandidate(g[m], cands[m + 1], n)]
  <2>2. ASSUME NEW k \in 0 .. m + 1
        PROVE  f[k] = IF k = 0 THEN acc ELSE GeminiCandidate(f[k - 1], cands[k], n)
    <3>1. CASE k = 0 BY <2>1, <3>1
    <3>2. CASE k \in 1 .. m
      <4>1. g[k] = GeminiCandidate(g[k - 1], cands[k], n) BY <2>1, <3>2
      <4> QED BY <3>2, <4>1
    <3>3. CASE k = m + 1 BY <3>3
    <3> QED BY <3>1, <3>2, <3>3
  <2>3. Equation(f, m + 1) BY <2>2
  <2> HIDE DEF Equation, f
  <2> QED BY <2>3
<1>3. Nat \subseteq S
  <2> HIDE DEF S
  <2> QED BY <1>1, <1>2, Steps
<1>4. Equation(h, N)
  <2>1. \E g : Equation(g, N) BY <1>0, <1>3
  <2> HIDE DEF Equation
  <2> QED BY <2>1
<1> HIDE DEF h, N
<1>6. h[0] = acc /\ \A k \in 1 .. N : h[k] = GeminiCandidate(h[k - 1], cands[k], n)
  BY <1>0, <1>4
<1> DEFINE T == {k \in 0 .. N : Gathered(s, h[k])}
<1>7. ASSUME NEW k \in 1 .. N, k - 1 \in T PROVE k \in T
  <2>1. PICK before, after : before = h[k - 1] /\ after = h[k] OBVIOUS
  <2>2. /\ Gathered(s, before) /\ cands[k] \in Candidate
        /\ after = GeminiCandidate(before, cands[k], n)
    BY <1>0, <1>6, <1>7, <2>1
  <2>3. Gathered(s, after) BY <2>2, CandidateAdds
  <2> QED BY <1>0, <2>1, <2>3
<1>8. 0 \in T BY <1>0, <1>6, <1>a
<1>9. 0 .. N \subseteq T
  <2> HIDE DEF T
  <2> QED BY <1>0, <1>7, <1>8, Upwards
<1>10. N \in T BY <1>0, <1>9
<1> QED BY <1>5, <1>10 DEF Gathered

LEMMA GeminiAdds ==
  ASSUME Wired, kind = "gemini", NEW s \in Translator, NEW n \in 1 .. Len(wire)
  PROVE  /\ Adds(s, Event(s, n).st, Event(s, n).items)
         /\ wire[n].data = "none" => Event(s, n) = Gives(s, << >>)
<1>1. Event(s, n) = GeminiEvent(s, n) BY WireFacts DEF Event
<1>2. CASE wire[n].data # "ok"
  <2>1. Event(s, n) = Gives(s, << >>) BY <1>1, <1>2 DEF GeminiEvent
  <2> QED BY <2>1, AddsNothing DEF Gives
<1>3. CASE wire[n].data = "ok"
  <2> DEFINE all == GeminiCandidates(s, wire[n].cands, n)
  <2>1. wire[n].cands \in Seq(Candidate) BY WireFacts DEF Answer
  <2>2. Adds(s, all.st, all.items) BY <2>1, CandidatesAdd
  <2>3. Event(s, n) = Gives(all.st, IF all.dropped THEN << >> ELSE all.items)
    BY <1>1, <1>3 DEF GeminiEvent
  <2> HIDE DEF all
  <2>4. Adds(s, all.st, << >>)
    <3>1. << >> \in Seq(Sayable(all.st.calls)) /\ Len(<< >>) = 0 BY EmptySeq
    <3> QED BY <2>2, <3>1 DEF Adds
  <2>5. Event(s, n).st = all.st
        /\ Event(s, n).items = IF all.dropped THEN << >> ELSE all.items
    BY <2>3 DEF Gives
  <2>6. CASE all.dropped BY <2>4, <2>5, <2>6, <1>3
  <2>7. CASE ~all.dropped BY <2>2, <2>5, <2>7, <1>3
  <2> QED BY <2>6, <2>7
<1> QED BY <1>2, <1>3

----------------------------------------------------------------------------
(* What the client has been told after n events.                           *)

\* What an event of Anthropic's or Cohere's gives, by its type.
LEMMA NamedEvents ==
  ASSUME Wired, kind # "gemini", NEW s \in Translator, NEW n \in 1 .. Len(wire)
  PROVE  \/ Event(s, n) = Gives(s, << >>)
         \/ /\ wire[n].type = "start" /\ ~s.role
            /\ Event(s, n) = Gives([s EXCEPT !.role = TRUE], <<Role>>)
         \/ \E x \in {Finish} \cup ({"text", "tool", "args"} \X {n}) :
              /\ wire[n].type \in {"text", "tool", "args", "finish"}
              /\ Event(s, n) = Gives(s, <<x>>)
         \/ /\ wire[n].type = Ending(kind)
            /\ Event(s, n) \in {Gives(s, <<Done>>), Gives(s, <<Finish, Done>>)}
<1> DEFINE e == wire[n]
           r == Event(s, n)
<1>1. kind \in {"anthropic", "cohere"} /\ e \in Named
  BY WireFacts
<1>2. e.type \in {"start", "text", "tool", "args", "finish", "stop", "other"}
      /\ e.data \in Fitness
  BY <1>1 DEF Named
<1>3. e.type \in {"text", "tool", "args"} =>
        Item(e.type, n) \in {"text", "tool", "args"} \X {n}
  BY DEF Item
<1>4. CASE kind = "anthropic"
  <2>1. r = AnthropicEvent(s, n) BY <1>4 DEF Event
  <2>2. CASE e.type = "stop" BY <1>4, <2>1, <2>2 DEF AnthropicEvent, Ending
  <2>3. CASE e.type = "start" BY <2>1, <2>3 DEF AnthropicEvent, Announce
  <2>4. CASE e.type \in {"text", "tool", "args"} BY <1>3, <2>1, <2>4 DEF AnthropicEvent
  <2>5. CASE e.type = "finish" BY <2>1, <2>5 DEF AnthropicEvent
  <2>6. CASE e.type = "other" BY <2>1, <2>6 DEF AnthropicEvent
  <2> QED BY <1>2, <2>2, <2>3, <2>4, <2>5, <2>6
<1>5. CASE kind = "cohere"
  <2>1. r = CohereEvent(s, n) BY <1>5 DEF Event
  <2>2. CASE e.type \in {"stop", "other"} BY <2>1, <2>2 DEF CohereEvent
  <2>3. CASE e.type = "start" BY <2>1, <2>3 DEF CohereEvent, Announce
  <2>4. CASE e.type \in {"text", "tool", "args"} BY <1>3, <2>1, <2>4 DEF CohereEvent
  <2>5. CASE e.type = "finish" BY <1>5, <2>1, <2>5 DEF CohereEvent, Ending
  <2> QED BY <1>2, <2>2, <2>3, <2>4, <2>5
<1> QED BY <1>1, <1>4, <1>5

\* The translator and the items, for every event.
LEMMA EventFacts ==
  ASSUME Wired, NEW s \in Translator, NEW n \in 0 .. Len(wire)
  PROVE  /\ Event(s, n).st \in Translator
         /\ s.calls <= Event(s, n).st.calls
         /\ Event(s, n).items \in Seq(Sayable(Event(s, n).st.calls))
<1>0. s.calls \in Nat /\ s.calls <= s.calls BY DEF Translator
<1>g. ASSUME NEW z \in Translator, NEW more \in Seq(Sayable(z.calls)), s.calls <= z.calls,
             Event(s, n) = Gives(z, more)
      PROVE  /\ Event(s, n).st \in Translator
             /\ s.calls <= Event(s, n).st.calls
             /\ Event(s, n).items \in Seq(Sayable(Event(s, n).st.calls))
  <2>1. Event(s, n).st = z /\ Event(s, n).items = more BY <1>g DEF Gives
  <2> QED BY <1>g, <2>1
<1>1. CASE Event(s, n) = Gives(s, << >>)
  <2>1. << >> \in Seq(Sayable(s.calls)) BY EmptySeq
  <2> QED BY <1>0, <1>1, <1>g, <2>1
<1>2. CASE n = 0 BY <1>1, <1>2 DEF Event
<1>3. CASE n # 0 /\ kind = "gemini"
  <2>1. n \in 1 .. Len(wire) BY <1>3, WireFacts
  <2> QED BY <1>3, <2>1, GeminiAdds DEF Adds
<1>4. CASE n # 0 /\ kind # "gemini"
  <2>1. n \in 1 .. Len(wire) BY <1>4, WireFacts
  <2>2. CASE Event(s, n) = Gives([s EXCEPT !.role = TRUE], <<Role>>)
    <3>1. PICK z : z = [s EXCEPT !.role = TRUE] OBVIOUS
    <3>2. z \in Translator /\ z.calls = s.calls BY <3>1 DEF Translator
    <3>3. <<Role>> \in Seq(Sayable(s.calls)) BY DEF Sayable
    <3> QED BY <1>0, <1>g, <2>2, <3>1, <3>2, <3>3
  <2>3. ASSUME NEW x \in {Finish} \cup ({"text", "tool", "args"} \X {n}),
               Event(s, n) = Gives(s, <<x>>)
        PROVE  /\ Event(s, n).st \in Translator
               /\ s.calls <= Event(s, n).st.calls
               /\ Event(s, n).items \in Seq(Sayable(Event(s, n).st.calls))
    <3>1. x \in Sayable(s.calls) BY <2>1 DEF Sayable
    <3>2. <<x>> \in Seq(Sayable(s.calls)) BY <3>1
    <3> QED BY <1>0, <1>g, <2>3, <3>2
  <2>4. CASE Event(s, n) \in {Gives(s, <<Done>>), Gives(s, <<Finish, Done>>)}
    <3>1. Done \in Sayable(s.calls) /\ Finish \in Sayable(s.calls) BY DEF Sayable
    <3>2. <<Done>> \in Seq(Sayable(s.calls)) /\ <<Finish, Done>> \in Seq(Sayable(s.calls))
      BY <3>1
    <3> QED BY <1>0, <1>g, <2>4, <3>2
  <2> QED BY <1>0, <1>1, <1>4, <2>1, <2>2, <2>3, <2>4, NamedEvents
<1> QED BY <1>2, <1>3, <1>4

Spoken(n) == /\ After(n) \in Translator
             /\ Translated(n) \in Seq(Sayable(After(n).calls))

LEMMA TranslationFacts ==
  ASSUME Wired, NEW n \in 0 .. Len(wire)
  PROVE  /\ Spoken(n)
         /\ n > 0 => /\ After(n) = Event(After(n - 1), n).st
                     /\ Translated(n) = Translated(n - 1) \o Event(After(n - 1), n).items
<1> DEFINE N == Len(wire)
           S == {k \in 0 .. N : Spoken(k)}
<1>0. N \in Nat BY WireFacts
<1>1. 0 \in S
  <2>1. After(0) = Silent /\ Translated(0) = << >> BY TranslationGoesOn
  <2>2. Silent \in Translator /\ << >> \in Seq(Sayable(Silent.calls))
    BY EmptySeq DEF Silent, Translator
  <2>3. Spoken(0) BY <2>1, <2>2 DEF Spoken
  <2> QED BY <1>0, <2>3
<1>2. ASSUME NEW k \in 1 .. N
      PROVE  /\ After(k) = Event(After(k - 1), k).st
             /\ Translated(k) = Translated(k - 1) \o Event(After(k - 1), k).items
  BY TranslationGoesOn
<1>3. ASSUME NEW k \in 1 .. N, k - 1 \in S PROVE k \in S
  <2>1. PICK s, z, items, more :
          /\ s = After(k - 1) /\ items = Translated(k - 1)
          /\ z = Event(s, k).st /\ more = Event(s, k).items
    OBVIOUS
  <2>2. s \in Translator /\ items \in Seq(Sayable(s.calls)) /\ k \in 0 .. Len(wire)
    BY <1>0, <1>3, <2>1 DEF Spoken
  <2>3. z \in Translator /\ s.calls <= z.calls /\ more \in Seq(Sayable(z.calls))
    BY <2>1, <2>2, EventFacts
  <2>4. Sayable(s.calls) \subseteq Sayable(z.calls)
    <3>1. s.calls \in Nat /\ z.calls \in Nat BY <2>2, <2>3 DEF Translator
    <3> QED BY <2>3, <3>1, SayableGrows
  <2>5. items \o more \in Seq(Sayable(z.calls)) BY <2>2, <2>3, <2>4
  <2>6. After(k) = z /\ Translated(k) = items \o more BY <1>2, <2>1
  <2>7. Spoken(k) BY <2>3, <2>5, <2>6 DEF Spoken
  <2> QED BY <1>0, <2>7
<1>4. 0 .. N \subseteq S
  <2> HIDE DEF S, N
  <2> QED BY <1>0, <1>1, <1>3, Upwards
<1>5. Spoken(n) BY <1>4
<1>6. n > 0 => n \in 1 .. N BY <1>0
<1> HIDE DEF N
<1> QED BY <1>2, <1>5, <1>6

\* The role comes first, and [DONE] last.
Told(n) == \A i \in 1 .. Len(Translated(n)) :
  /\ Translated(n)[i] = Role =>
       \A j \in 1 .. i - 1 : Translated(n)[j] # Role /\ Translated(n)[j] \notin Texts
  /\ Translated(n)[i] = Done => i = Len(Translated(n)) /\ kind # "gemini"

GeminiSaid(n) == Adds(Silent, After(n), Translated(n))

LEMMA GeminiTold ==
  ASSUME Wired, kind = "gemini", NEW n \in 0 .. Len(wire)
  PROVE  Told(n)
<1> DEFINE N == Len(wire)
           S == {k \in 0 .. N : GeminiSaid(k)}
<1>0. N \in Nat BY WireFacts
<1>1. 0 \in S
  <2>1. Silent \in Translator BY DEF Silent, Translator
  <2>2. Adds(Silent, Silent, << >>) BY <2>1, AddsNothing
  <2>3. GeminiSaid(0) BY <2>2, TranslationGoesOn DEF GeminiSaid
  <2> QED BY <1>0, <2>3
<1>2. ASSUME NEW k \in 1 .. N, k - 1 \in S PROVE k \in S
  <2>1. PICK s, z, items, more :
          /\ s = After(k - 1) /\ items = Translated(k - 1)
          /\ z = Event(s, k).st /\ more = Event(s, k).items
    OBVIOUS
  <2>2. Adds(Silent, s, items) BY <1>2, <2>1 DEF GeminiSaid
  <2>3. Adds(s, z, more) BY <2>1, <2>2, GeminiAdds DEF Adds
  <2>4. Adds(Silent, z, items \o more) BY <2>2, <2>3, AddsMore
  <2>5. After(k) = z /\ Translated(k) = items \o more BY <2>1, TranslationGoesOn
  <2>6. GeminiSaid(k) BY <2>4, <2>5 DEF GeminiSaid
  <2> QED BY <1>0, <2>6
<1>3. 0 .. N \subseteq S
  <2> HIDE DEF S, N
  <2> QED BY <1>0, <1>1, <1>2, Upwards
<1>4. Adds(Silent, After(n), Translated(n)) BY <1>3 DEF GeminiSaid
<1> QED BY <1>4 DEF Adds, Told

\* With named events the role is the very first thing said, and [DONE] is
\* said by the event that ends the answer.
NamedTold(n) ==
  /\ n = 0 => Translated(n) = << >>
  /\ \A i \in 1 .. Len(Translated(n)) :
       /\ Translated(n)[i] = Role => i = 1
       /\ Translated(n)[i] = Done => /\ i = Len(Translated(n))
                                     /\ \E k \in 1 .. n : wire[k].type = Ending(kind)

LEMMA NamedTells ==
  ASSUME Wired, kind # "gemini", NEW n \in 1 .. Len(wire), NamedTold(n - 1)
  PROVE  NamedTold(n)
<1>1. PICK s, z, items, more :
        /\ s = After(n - 1) /\ items = Translated(n - 1)
        /\ z = Event(s, n).st /\ more = Event(s, n).items
  OBVIOUS
<1>2. n \in Nat /\ n - 1 \in 0 .. Len(wire) BY WireFacts
<1>3. s \in Translator /\ items \in Seq(Sayable(s.calls))
  BY <1>1, <1>2, TranslationFacts DEF Spoken
<1>4. Translated(n) = items \o more BY <1>1, TranslationGoesOn
<1>5. /\ \A k \in 1 .. Len(wire) : wire[k].type = "start" => k = 1
      /\ \A k \in 1 .. n - 1 : wire[k].type = Ending(kind) =>
           wire[n].type \in {"stop", "other"} \ {Ending(kind)}
  <2>1. kind \in Kinds \ {"gemini"} /\ wire \in Wires[kind] BY DEF Wired
  <2>2. DOMAIN wire = 1 .. Len(wire) BY WireFacts
  <2>3. \A k \in 1 .. n - 1 : k \in 1 .. Len(wire) /\ n > k BY <1>2
  <2> QED BY <2>1, <2>2, <2>3, OrderAssumption
<1>6. /\ n - 1 = 0 => items = << >>
      /\ \A i \in 1 .. Len(items) :
           /\ items[i] = Role => i = 1
           /\ items[i] = Done => /\ i = Len(items)
                                 /\ \E k \in 1 .. n - 1 : wire[k].type = Ending(kind)
  BY <1>1 DEF NamedTold
<1>7. \A k \in 1 .. n - 1 : k \in 1 .. n OBVIOUS
<1>8. CASE Event(s, n) = Gives(s, << >>)
  <2>1. more = << >> BY <1>1, <1>8 DEF Gives
  <2>2. Translated(n) = items BY <1>3, <1>4, <2>1, ConcatEmptySeq
  <2> QED BY <1>2, <1>6, <1>7, <2>2 DEF NamedTold
<1>9. CASE wire[n].type = "start" /\ Event(s, n) = Gives([s EXCEPT !.role = TRUE], <<Role>>)
  <2>1. more = <<Role>> BY <1>1, <1>9 DEF Gives
  <2>2. items = << >> BY <1>5, <1>6, <1>9
  <2>3. Translated(n) = <<Role>> BY <1>4, <2>1, <2>2
  <2>4. Role # Done BY DEF Role, Done, Item
  <2> QED BY <1>2, <2>3, <2>4 DEF NamedTold
<1>10. ASSUME NEW x \in {Finish} \cup ({"text", "tool", "args"} \X {n}),
              wire[n].type \in {"text", "tool", "args", "finish"},
              Event(s, n) = Gives(s, <<x>>)
       PROVE  NamedTold(n)
  <2>1. more = <<x>> BY <1>1, <1>10 DEF Gives
  <2>2. x # Role /\ x # Done BY DEF Finish, Role, Done, Item
  <2>3. \A k \in 1 .. n - 1 : wire[k].type # Ending(kind) BY <1>5, <1>10
  <2>4. \A i \in 1 .. Len(items) : items[i] # Done BY <1>6, <2>3
  <2> DEFINE all == items \o <<x>>
  <2>5. /\ Len(all) = Len(items) + 1 /\ all[Len(items) + 1] = x
        /\ \A i \in 1 .. Len(items) : all[i] = items[i]
        /\ Len(items) \in Nat
    BY <1>3
  <2>6. Translated(n) = all BY <1>4, <2>1
  <2> HIDE DEF all
  <2>7. \A i \in 1 .. Len(all) : (all[i] = Role => i = 1) /\ all[i] # Done
    BY <1>6, <2>2, <2>4, <2>5
  <2> QED BY <1>2, <2>6, <2>7 DEF NamedTold
<1>11. CASE /\ wire[n].type = Ending(kind)
            /\ Event(s, n) \in {Gives(s, <<Done>>), Gives(s, <<Finish, Done>>)}
  <2>1. more \in {<<Done>>, <<Finish, Done>>} BY <1>1, <1>11 DEF Gives
  <2>2. Role # Done /\ Finish # Done /\ Finish # Role BY DEF Role, Done, Finish, Item
  <2>3. \A k \in 1 .. n - 1 : wire[k].type # Ending(kind) BY <1>5, <1>11
  <2>4. \A i \in 1 .. Len(items) : items[i] # Done BY <1>6, <2>3
  <2>5. more \in Seq({Finish, Done}) /\ Len(more) \in 1 .. 2 /\ more[Len(more)] = Done
        /\ \A i \in 1 .. Len(more) : more[i] # Role /\ (more[i] = Done => i = Len(more))
    <3>1. CASE more = <<Done>>
      <4>1. more \in Seq({Finish, Done}) /\ Len(more) = 1 /\ more[1] = Done BY <3>1
      <4> QED BY <2>2, <4>1
    <3>2. CASE more = <<Finish, Done>>
      <4>1. /\ more \in Seq({Finish, Done}) /\ Len(more) = 2
            /\ more[1] = Finish /\ more[2] = Done
        BY <3>2
      <4> QED BY <2>2, <4>1
    <3> QED BY <2>1, <3>1, <3>2
  <2> DEFINE all == items \o more
  <2>6. /\ Len(all) = Len(items) + Len(more) /\ Len(items) \in Nat /\ Len(more) \in Nat
        /\ \A i \in 1 .. Len(items) : all[i] = items[i]
        /\ \A i \in 1 .. Len(more) : all[Len(items) + i] = more[i]
    BY <1>3, <2>5
  <2> HIDE DEF all
  <2>7. ASSUME NEW i \in 1 .. Len(all)
        PROVE  (all[i] = Role => i = 1) /\ (all[i] = Done => i = Len(all))
    <3>1. CASE i \in 1 .. Len(items) BY <1>6, <2>4, <2>6, <3>1
    <3>2. CASE i \notin 1 .. Len(items)
      <4>1. i - Len(items) \in 1 .. Len(more) /\ i = Len(items) + (i - Len(items))
        BY <2>6, <3>2
      <4>2. all[i] = more[i - Len(items)] BY <2>6, <4>1
      <4> QED BY <2>5, <2>6, <4>1, <4>2
    <3> QED BY <3>1, <3>2
  <2>8. n \in 1 .. n BY <1>2
  <2> QED BY <1>2, <1>4, <1>11, <2>7, <2>8 DEF NamedTold, all
<1> QED BY <1>3, <1>8, <1>9, <1>10, <1>11, NamedEvents

LEMMA TranslationTold ==
  ASSUME Wired, NEW n \in 0 .. Len(wire)
  PROVE  Told(n)
<1>1. CASE kind # "gemini"
  <2> DEFINE N == Len(wire)
             S == {k \in 0 .. N : NamedTold(k)}
  <2>0. N \in Nat BY WireFacts
  <2>1. 0 \in S
    <3>1. NamedTold(0) BY TranslationGoesOn DEF NamedTold
    <3> QED BY <2>0, <3>1
  <2>2. ASSUME NEW k \in 1 .. N, k - 1 \in S PROVE k \in S
    <3>1. NamedTold(k) BY <1>1, <2>2, NamedTells
    <3> QED BY <2>0, <3>1
  <2>3. 0 .. N \subseteq S
    <3> HIDE DEF S, N
    <3> QED BY <2>0, <2>1, <2>2, Upwards
  <2>4. NamedTold(n) BY <2>3
  <2>5. \A i \in 1 .. Len(Translated(n)) : i = 1 => 1 .. i - 1 = {} OBVIOUS
  <2> QED BY <1>1, <2>4, <2>5 DEF NamedTold, Told
<1> QED BY <1>1, GeminiTold

----------------------------------------------------------------------------
(* What a buffer shows of the events.                                      *)

LEMMA WindowJoins ==
  ASSUME NEW q \in Nat, NEW p \in Nat, NEW r \in Nat, q <= p, p <= r,
         NEW b, NEW c, Window(b, q, p), Window(c, p, r)
  PROVE  Window(b \o c, q, r)
<1>1. /\ b \in Seq(Nat \X Nat) /\ Len(b) = p - q /\ \A i \in 1 .. p - q : b[i] = ByteAt(q + i)
      /\ c \in Seq(Nat \X Nat) /\ Len(c) = r - p /\ \A i \in 1 .. r - p : c[i] = ByteAt(p + i)
  BY DEF Window
<1> DEFINE all == b \o c
<1>2. /\ all \in Seq(Nat \X Nat) /\ Len(all) = r - q
      /\ \A i \in 1 .. p - q : all[i] = b[i]
      /\ \A i \in 1 .. r - p : all[p - q + i] = c[i]
  <2>0. b \in Seq(Nat \X Nat) /\ c \in Seq(Nat \X Nat) BY <1>1
  <2>1. /\ all \in Seq(Nat \X Nat) /\ Len(all) = Len(b) + Len(c)
        /\ \A i \in 1 .. Len(b) : all[i] = b[i]
        /\ \A i \in 1 .. Len(c) : all[Len(b) + i] = c[i]
    <3> DEFINE T == Nat \X Nat
    <3>1. b \in Seq(T) /\ c \in Seq(T) BY <2>0
    <3> HIDE DEF T
    <3>2. /\ all \in Seq(T) /\ Len(all) = Len(b) + Len(c)
          /\ \A i \in 1 .. Len(b) : all[i] = b[i]
          /\ \A i \in 1 .. Len(c) : all[Len(b) + i] = c[i]
      BY <3>1
    <3> QED BY <3>2 DEF T
  <2> HIDE DEF all
  <2> QED BY <1>1, <2>1
<1> HIDE DEF all
<1>3. ASSUME NEW i \in 1 .. r - q PROVE all[i] = ByteAt(q + i)
  <2>1. CASE i <= p - q
    <3>1. i \in 1 .. p - q BY <2>1
    <3> QED BY <1>1, <1>2, <3>1
  <2>2. CASE i > p - q
    <3> DEFINE l == i - (p - q)
    <3>1. l \in 1 .. r - p /\ i = p - q + l /\ p + l = q + i BY <2>2
    <3> HIDE DEF l
    <3>2. all[i] = c[l] BY <1>2, <3>1
    <3> QED BY <1>1, <3>1, <3>2
  <2> QED BY <2>1, <2>2
<1> QED BY <1>2, <1>3 DEF Window, all

\* A part of a buffer, and its end.
LEMMA WindowPart ==
  ASSUME NEW q \in Nat, NEW p \in Nat, NEW r \in Nat, NEW t \in Nat, q <= r, r <= t, t <= p,
         NEW b, Window(b, q, p), NEW i \in Nat, i = r - q + 1, NEW e \in Nat, e = t - q
  PROVE  Window(SubSeq(b, i, e), r, t)
<1>1. b \in Seq(Nat \X Nat) /\ Len(b) = p - q /\ \A l \in 1 .. p - q : b[l] = ByteAt(q + l)
  BY DEF Window
<1>2. i \in 1 .. e + 1 /\ e <= Len(b) /\ t - r = e - i + 1 /\ (i <= e \/ e - i + 1 = 0)
  BY <1>1
<1>3. /\ SubSeq(b, i, e) \in Seq(Nat \X Nat)
      /\ Len(SubSeq(b, i, e)) = t - r
      /\ \A l \in 1 .. t - r : SubSeq(b, i, e)[l] = b[i + l - 1]
  BY <1>1, <1>2, SubSeqProperties
<1>4. \A l \in 1 .. t - r : i + l - 1 \in 1 .. p - q /\ q + (i + l - 1) = r + l
  BY <1>2
<1> QED BY <1>1, <1>3, <1>4 DEF Window

LEMMA WindowFrom ==
  ASSUME NEW q \in Nat, NEW p \in Nat, NEW r \in Nat, q <= r, r <= p,
         NEW b, Window(b, q, p), NEW i \in Nat, i = r - q + 1
  PROVE  Window(From(b, i), r, p)
<1>1. p - q \in Nat /\ Len(b) = p - q BY DEF Window
<1>2. Window(SubSeq(b, i, p - q), r, p) BY <1>1, WindowPart
<1> QED BY <1>1, <1>2 DEF From

\* Where the newlines, the ends of events and the data of events are.
LEMMA NewlineAt ==
  ASSUME NEW q \in Nat, NEW p \in Nat, q <= p, NEW b, Window(b, q, p)
  PROVE  Newlines(b) = {i \in 1 .. p - q : (q + i) % 5 \in {0, 4}}
<1>1. DOMAIN b = 1 .. p - q /\ \A i \in 1 .. p - q : b[i] = ByteAt(q + i)
  BY DEF Window
<1>2. \A i \in 1 .. p - q : q + i \in Nat \ {0} OBVIOUS
<1>3. \A i \in 1 .. p - q : b[i] = NL <=> (q + i) % 5 \in {0, 4}
  BY <1>1, <1>2, ByteIs
<1> QED BY <1>1, <1>3 DEF Newlines

LEMMA BoundaryAt ==
  ASSUME NEW q \in Nat, NEW p \in Nat, q <= p, NEW b, Window(b, q, p)
  PROVE  Boundaries(b) = {i \in 1 .. p - q - 1 : (q + i) % 5 = 4}
<1>1. Len(b) = p - q /\ \A i \in 1 .. p - q : b[i] = ByteAt(q + i)
  BY DEF Window
<1>2. ASSUME NEW i \in 1 .. p - q - 1
      PROVE  b[i] = NL /\ b[i + 1] = NL <=> (q + i) % 5 = 4
  <2>1. /\ q + i \in Nat \ {0} /\ q + (i + 1) \in Nat \ {0}
        /\ i \in 1 .. p - q /\ i + 1 \in 1 .. p - q
    OBVIOUS
  <2>2. b[i] = ByteAt(q + i) /\ b[i + 1] = ByteAt(q + (i + 1)) BY <1>1, <2>1
  <2>3. b[i] = NL <=> (q + i) % 5 \in {0, 4} BY <2>1, <2>2, ByteIs
  <2>4. b[i + 1] = NL <=> (q + (i + 1)) % 5 \in {0, 4} BY <2>1, <2>2, ByteIs
  <2>5. (q + i) % 5 \in {0, 4} /\ (q + (i + 1)) % 5 \in {0, 4} <=> (q + i) % 5 = 4
    OBVIOUS
  <2> QED BY <2>3, <2>4, <2>5
<1> QED BY <1>1, <1>2 DEF Boundaries

Speaks(k) == wire[k].data # "none"

StartsAt(q, i) ==
  \E k \in 1 .. Len(wire) : Speaks(k) /\ q + i = 5 * (k - 1) + 1

LEMMA DataAt ==
  ASSUME Wired, NEW q \in Nat, NEW p \in Nat, q <= p, NEW b, Window(b, q, p)
  PROVE  DataStarts(b) = {i \in 1 .. p - q - 1 : StartsAt(q, i)}
<1>1. Len(b) = p - q /\ \A i \in 1 .. p - q : b[i] = ByteAt(q + i)
  BY DEF Window
<1>2. DOMAIN wire = 1 .. Len(wire) /\ Len(wire) \in Nat BY WireFacts
<1>3. ASSUME NEW i \in 1 .. p - q - 1, NEW k \in 1 .. Len(wire)
      PROVE  b[i] = Byte(k, 1) /\ b[i + 1] = Byte(k, 2) <=> q + i = 5 * (k - 1) + 1
  <2>1. /\ q + i \in Nat \ {0} /\ q + (i + 1) \in Nat \ {0}
        /\ i \in 1 .. p - q /\ i + 1 \in 1 .. p - q /\ k \in Nat \ {0}
    BY <1>2
  <2>2. b[i] = ByteAt(q + i) /\ b[i + 1] = ByteAt(q + (i + 1)) BY <1>1, <2>1
  <2>a. 1 \in 1 .. 3 /\ 2 \in 1 .. 3 OBVIOUS
  <2>b. /\ \A j \in 1 .. 3 : ByteAt(q + i) = <<k, j>> <=> q + i = 5 * (k - 1) + j
        /\ \A j \in 1 .. 3 : ByteAt(q + (i + 1)) = <<k, j>> <=> q + (i + 1) = 5 * (k - 1) + j
    BY <2>1, ByteIs
  <2>3. b[i] = <<k, 1>> <=> q + i = 5 * (k - 1) + 1 BY <2>2, <2>a, <2>b
  <2>4. b[i + 1] = <<k, 2>> <=> q + (i + 1) = 5 * (k - 1) + 2 BY <2>2, <2>a, <2>b
  <2>5. Byte(k, 1) = <<k, 1>> /\ Byte(k, 2) = <<k, 2>> BY DEF Byte
  <2>6. q + i = 5 * (k - 1) + 1 <=> q + (i + 1) = 5 * (k - 1) + 2 BY <1>2
  <2> QED BY <2>3, <2>4, <2>5, <2>6
<1>4. ASSUME NEW i \in 1 .. p - q - 1
      PROVE  (\E k \in DOMAIN wire :
                wire[k].data # "none" /\ b[i] = Byte(k, 1) /\ b[i + 1] = Byte(k, 2))
             <=> StartsAt(q, i)
  BY <1>2, <1>3 DEF StartsAt, Speaks
<1> QED BY <1>1, <1>4 DEF DataStarts

\* A buffer that holds the pieces of one event spells it, and no other does.
LEMMA SpellsOne ==
  ASSUME Wired, NEW k \in 1 .. Len(wire), NEW b, Window(b, 5 * (k - 1), 5 * k - 2)
  PROVE  Spelt(b) = k
<1>1. DOMAIN wire = 1 .. Len(wire) /\ k \in Nat \ {0} BY WireFacts
<1>2. 5 * k - 2 - 5 * (k - 1) = 3 BY <1>1
<1>3. b \in Seq(Nat \X Nat) /\ Len(b) = 3 /\ \A i \in 1 .. 3 : b[i] = ByteAt(5 * (k - 1) + i)
  BY <1>2 DEF Window
<1>4. b[1] = <<k, 1>> /\ b[2] = <<k, 2>> /\ b[3] = <<k, 3>>
  <2>1. 1 \in 1 .. 3 /\ 2 \in 1 .. 3 /\ 3 \in 1 .. 3 OBVIOUS
  <2>2. b[1] = ByteAt(5 * (k - 1) + 1) /\ b[2] = ByteAt(5 * (k - 1) + 2)
        /\ b[3] = ByteAt(5 * (k - 1) + 3)
    BY <1>3, <2>1
  <2> QED BY <1>1, <2>2, PieceAt
<1>5. b = <<Byte(k, 1), Byte(k, 2), Byte(k, 3)>> BY <1>3, <1>4, SMTT(30) DEF Byte
<1> QED BY <1>1, <1>4, <1>5 DEF Spelt

LEMMA SpellsNone ==
  ASSUME Wired, NEW q \in Nat, NEW p \in Nat, q <= p, NEW b, Window(b, q, p),
         p - q # 3 \/ p % 5 \in {0, 4}
  PROVE  Spelt(b) = 0
<1> SUFFICES ASSUME NEW k \in DOMAIN wire, b = <<Byte(k, 1), Byte(k, 2), Byte(k, 3)>>
             PROVE  FALSE
  BY DEF Spelt
<1>1. k \in Nat \ {0} BY WireFacts
<1>2. Len(b) = 3 /\ b[3] = <<k, 3>> BY DEF Byte
<1>3. p - q = 3 /\ b[3] = ByteAt(q + 3) BY <1>2 DEF Window
<1>4. b[3] = ByteAt(p) /\ p \in Nat \ {0} /\ p % 5 \in {0, 4} BY <1>3
<1>5. ByteAt(p) = NL BY <1>4, ByteIs
<1> QED BY <1>1, <1>2, <1>4, <1>5 DEF NL, Byte

\* A turn that takes event k, which is all that is between start and i.
Takes(a, start, i, k, p) ==
  /\ Window(Take(a, start, i).buf, 5 * k, p)
  /\ Take(a, start, i).st = Event(a.st, k).st
  /\ Take(a, start, i).items = a.items \o Event(a.st, k).items

LEMMA Taken ==
  ASSUME Wired, NEW q \in Nat, NEW p \in Nat, NEW k \in 1 .. Len(wire),
         q <= 5 * (k - 1), 5 * k <= p, NEW a, Window(a.buf, q, p),
         NEW start, start = 5 * (k - 1) + 1 - q, NEW i, i = 5 * k - 1 - q
  PROVE  Takes(a, start, i, k, p)
<1>1. k \in Nat \ {0} BY WireFacts
<1> DEFINE r == 5 * (k - 1)
           t == 5 * k - 2
<1>2. /\ r \in Nat /\ t \in Nat /\ q <= r /\ r <= t /\ t <= p
      /\ start \in Nat /\ start = r - q + 1 /\ i - 1 \in Nat /\ i - 1 = t - q
  BY <1>1
<1>3. Window(SubSeq(a.buf, start, i - 1), r, t)
  <2> HIDE DEF r, t
  <2> QED BY <1>2, WindowPart
<1>4. Spelt(SubSeq(a.buf, start, i - 1)) = k BY <1>3, SpellsOne
<1>5. 5 * k \in Nat /\ q <= 5 * k /\ i + 2 \in Nat /\ i + 2 = 5 * k - q + 1 BY <1>1
<1>6. Window(From(a.buf, i + 2), 5 * k, p)
  <2>1. PICK z : z = 5 * k OBVIOUS
  <2>2. z \in Nat /\ q <= z /\ z <= p /\ i + 2 = z - q + 1 BY <1>5, <2>1
  <2>3. Window(From(a.buf, i + 2), z, p) BY <1>5, <2>2, WindowFrom
  <2> QED BY <2>1, <2>3
<1> QED BY <1>4, <1>6 DEF Take, Takes

\* Comments change nothing.
SaysNothing(m, n) == After(n) = After(m) /\ Translated(n) = Translated(m)

LEMMA Comments ==
  ASSUME Wired, kind = "gemini", NEW m \in 0 .. Len(wire), NEW n \in m .. Len(wire),
         \A k \in 1 .. Len(wire) : m < k /\ k <= n => ~Speaks(k)
  PROVE  SaysNothing(m, n)
<1> DEFINE S == {k \in 0 .. n : k >= m => SaysNothing(m, k)}
<1>0. Len(wire) \in Nat /\ n \in Nat /\ m \in Nat BY WireFacts
<1>1. 0 \in S BY <1>0 DEF SaysNothing
<1>2. ASSUME NEW k \in 1 .. n, k - 1 \in S PROVE k \in S
  <2>1. CASE k < m BY <1>0, <2>1
  <2>2. CASE k = m BY <1>0, <2>2 DEF SaysNothing
  <2>3. CASE k > m
    <3>1. k \in 1 .. Len(wire) /\ k - 1 \in 0 .. Len(wire) /\ k - 1 >= m
      BY <1>0, <2>3
    <3>2. SaysNothing(m, k - 1) BY <1>2, <3>1
    <3>3. wire[k].data = "none" BY <2>3, <3>1 DEF Speaks
    <3>4. PICK s, items : s = After(k - 1) /\ items = Translated(k - 1) OBVIOUS
    <3>5. s \in Translator /\ items \in Seq(Sayable(s.calls))
      BY <3>1, <3>4, TranslationFacts DEF Spoken
    <3>6. Event(s, k) = Gives(s, << >>) BY <3>1, <3>3, <3>5, GeminiAdds
    <3>a. Event(s, k).st = s /\ Event(s, k).items = << >> BY <3>6 DEF Gives
    <3>b. /\ After(k) = Event(After(k - 1), k).st
          /\ Translated(k) = Translated(k - 1) \o Event(After(k - 1), k).items
      BY <3>1, TranslationGoesOn
    <3>7. After(k) = s /\ Translated(k) = items \o << >> BY <3>4, <3>a, <3>b
    <3>8. items \o << >> = items BY <3>5, ConcatEmptySeq
    <3>9. SaysNothing(m, k) BY <3>2, <3>4, <3>7, <3>8 DEF SaysNothing
    <3> QED BY <3>9
  <2> QED BY <1>0, <2>1, <2>2, <2>3
<1>3. 0 .. n \subseteq S
  <2> HIDE DEF S
  <2> QED BY <1>0, <1>1, <1>2, Upwards
<1>4. n \in S BY <1>0, <1>3
<1> QED BY <1>0, <1>4

----------------------------------------------------------------------------
(* A turn of the loop of process_chunk.                                    *)

Words == {Role, Finish, Done} \cup ({"text", "tool", "args"} \X (1 .. Len(wire)))
           \cup ({"call"} \X Nat)

\* Where a buffer may begin when m events have been translated: with named
\* events right behind them, and with Gemini's behind a newline, with no data
\* that was not translated before it and none that was behind it.
Clean(q, m) ==
  IF kind # "gemini" THEN q = 5 * m
  ELSE /\ q % 5 \in {0, 4}
       /\ \A k \in 1 .. Len(wire) :
            Speaks(k) => IF k <= m THEN 5 * k <= q ELSE q <= 5 * (k - 1)

\* The buffer of a begins at q, a has translated m events, and the client has,
\* once a's items are sent after base, what they give.
Caught(a, base, p, q, m) ==
  /\ q \in Nat /\ q <= p /\ m \in 0 .. Len(wire) /\ 5 * m <= p
  /\ Window(a.buf, q, p) /\ Clean(q, m)
  /\ a \in [buf : Seq(Nat \X Nat), st : Translator, items : Seq(Words)]
  /\ a.st = After(m) /\ base \o a.items = Translated(m)

\* A turn brings the translation an event further or to the last that is there.
Advances(a, base, p, m) ==
  \E q \in Nat, n \in Nat : Caught(a, base, p, q, n) /\ (n = p \div 5 \/ n >= m + 1)

LEMMA WordsFacts ==
  ASSUME Wired
  PROVE  /\ \A c \in Nat : Sayable(c) \subseteq Words
         /\ \A n \in 0 .. Len(wire) : Translated(n) \in Seq(Words)
         /\ \A n \in 1 .. Len(wire) : Event(After(n - 1), n).items \in Seq(Words)
<1>1. ASSUME NEW c \in Nat PROVE Sayable(c) \subseteq Words
  <2>1. 0 .. c \subseteq Nat OBVIOUS
  <2> QED BY <2>1 DEF Sayable, Words
<1>2. ASSUME NEW c \in Nat, NEW items \in Seq(Sayable(c)) PROVE items \in Seq(Words)
  BY <1>1, <1>2
<1>3. ASSUME NEW n \in 0 .. Len(wire) PROVE Translated(n) \in Seq(Words)
  <2>1. After(n) \in Translator /\ Translated(n) \in Seq(Sayable(After(n).calls))
    BY TranslationFacts DEF Spoken
  <2>2. After(n).calls \in Nat BY <2>1 DEF Translator
  <2> QED BY <1>2, <2>1, <2>2
<1>4. ASSUME NEW n \in 1 .. Len(wire) PROVE Event(After(n - 1), n).items \in Seq(Words)
  <2>0. n - 1 \in 0 .. Len(wire) /\ n \in 0 .. Len(wire) BY WireFacts
  <2>1. PICK s : s = After(n - 1) OBVIOUS
  <2>2. s \in Translator BY <2>0, <2>1, TranslationFacts DEF Spoken
  <2>3. PICK z, more : z = Event(s, n).st /\ more = Event(s, n).items OBVIOUS
  <2>4. z \in Translator /\ more \in Seq(Sayable(z.calls)) BY <2>0, <2>2, <2>3, EventFacts
  <2>5. z.calls \in Nat BY <2>4 DEF Translator
  <2> QED BY <1>2, <2>1, <2>3, <2>4, <2>5
<1> QED BY <1>1, <1>3, <1>4

\* What comes in three parts may be put together in either order.
Joins(T) == \A a, b, c \in Seq(T) : (a \o b) \o c = a \o (b \o c)

LEMMA Joined == \A T : Joins(T)
BY ConcatAssociative DEF Joins

LEMMA TakenOn ==
  ASSUME Wired, NEW a, NEW base \in Seq(Words), NEW p \in Nat, NEW q, NEW m,
         Caught(a, base, p, q, m), NEW k \in 1 .. Len(wire),
         SaysNothing(m, k - 1), q <= 5 * (k - 1), 5 * k <= p, Clean(5 * k, k),
         NEW start, start = 5 * (k - 1) + 1 - q, NEW i, i = 5 * k - 1 - q
  PROVE  Caught(Take(a, start, i), base, p, 5 * k, k)
<1>1. /\ k \in Nat /\ k \in 0 .. Len(wire) /\ 5 * k \in Nat /\ q \in Nat BY WireFacts DEF Caught
<1>2. Window(a.buf, q, p) /\ a.st = After(m) /\ a.items \in Seq(Words)
      /\ base \o a.items = Translated(m)
  BY DEF Caught
<1>3. PICK t, items, s, more : /\ t = Take(a, start, i) /\ items = a.items
                               /\ s = After(k - 1) /\ more = Event(s, k).items
  OBVIOUS
<1>4. /\ Window(t.buf, 5 * k, p) /\ t.st = Event(a.st, k).st
      /\ t.items = a.items \o Event(a.st, k).items
  <2>1. /\ Window(Take(a, start, i).buf, 5 * k, p)
        /\ Take(a, start, i).st = Event(a.st, k).st
        /\ Take(a, start, i).items = a.items \o Event(a.st, k).items
    <3>1. \A z : Window(z.buf, q, p) => Takes(z, start, i, k, p) BY <1>1, Taken
    <3> QED BY <1>2, <3>1 DEF Takes
  <2> QED BY <1>3, <2>1
<1>5. a.st = s /\ base \o items = Translated(k - 1) BY <1>2, <1>3 DEF SaysNothing
<1>6. After(k) = Event(s, k).st /\ Translated(k) = Translated(k - 1) \o more
  BY <1>3, TranslationGoesOn
<1>7. items \in Seq(Words) /\ more \in Seq(Words) BY <1>2, <1>3, WordsFacts
<1>8. (base \o items) \o more = base \o (items \o more)
  <2>1. base \in Seq(Words) /\ Joins(Words) BY Joined
  <2> HIDE DEF Words
  <2> QED BY <1>7, <2>1 DEF Joins
<1>9. t.st = After(k) /\ t.items = items \o more /\ base \o t.items = Translated(k)
  BY <1>3, <1>4, <1>5, <1>6, <1>8
<1>10. t \in [buf : Seq(Nat \X Nat), st : Translator, items : Seq(Words)]
  <2>1. items \o more \in Seq(Words) BY <1>7
  <2>2. After(k) \in Translator BY <1>1, TranslationFacts DEF Spoken
  <2>3. t.buf \in Seq(Nat \X Nat) BY <1>4 DEF Window
  <2>4. t = [buf |-> t.buf, st |-> t.st, items |-> t.items] BY <1>3 DEF Take
  <2> QED BY <1>9, <2>1, <2>2, <2>3, <2>4
<1> QED BY <1>1, <1>3, <1>4, <1>9, <1>10 DEF Caught

\* The first of a set that has one.
LEMMA EarliestIs ==
  ASSUME NEW S \in SUBSET Nat, NEW i \in S, \A j \in S : i <= j
  PROVE  Earliest(S) = i
<1>1. \A j \in S : (\A l \in S : j <= l) => j = i OBVIOUS
<1>2. \E j \in S : \A l \in S : j <= l OBVIOUS
<1> QED BY <1>1, <1>2 DEF Earliest

LEMMA LatestIs ==
  ASSUME NEW S, NEW n \in Nat, S \subseteq 1 .. n, S # {}
  PROVE  Latest(S) \in S /\ \A j \in S : j <= Latest(S)
<1> DEFINE T == {k \in Nat : \A j \in S : j <= k}
<1>1. n \in T OBVIOUS
<1>2. PICK x \in T : \A y \in T : x <= y BY <1>1, Least
<1>3. x \in S
  <2> SUFFICES ASSUME x \notin S PROVE FALSE OBVIOUS
  <2>1. PICK j \in S : TRUE OBVIOUS
  <2>2. x >= 1 /\ x - 1 \in Nat /\ \A l \in S : l <= x - 1 BY <1>2, <2>1
  <2>3. x - 1 \in T BY <2>2
  <2> QED BY <1>2, <2>2, <2>3
<1>4. \E l \in S : \A m \in S : m <= l BY <1>2, <1>3
<1> QED BY <1>4 DEF Latest

LEMMA NamedTurns ==
  ASSUME Wired, kind # "gemini", NEW a, NEW base \in Seq(Words), NEW p \in Nat,
         p <= 5 * Len(wire), NEW q, NEW m, Caught(a, base, p, q, m)
  PROVE  Advances(Turn(a), base, p, m)
<1>1. /\ q \in Nat /\ q <= p /\ m \in Nat /\ m \in 0 .. Len(wire) /\ Len(wire) \in Nat /\ q = 5 * m
      /\ Window(a.buf, q, p)
  BY WireFacts DEF Caught, Clean
<1>2. Boundaries(a.buf) = {i \in 1 .. p - q - 1 : (q + i) % 5 = 4} BY <1>1, BoundaryAt
<1>3. Turn(a) = NamedTurn(a) BY DEF Turn
<1>4. CASE p < 5 * m + 5
  <2>1. \A i \in 1 .. p - q - 1 : (q + i) % 5 # 4 BY <1>1, <1>4
  <2>2. Turn(a) = a BY <1>2, <1>3, <2>1 DEF NamedTurn
  <2>3. 5 * m <= p BY DEF Caught
  <2>4. m = p \div 5 BY <1>1, <1>4, <2>3
  <2> QED BY <1>1, <2>2, <2>4 DEF Advances
<1>5. CASE p >= 5 * m + 5
  <2> DEFINE k == m + 1
  <2>1. /\ k \in 1 .. Len(wire) /\ k - 1 = m /\ q = 5 * (k - 1) /\ 5 * k <= p
    BY <1>1, <1>5
  <2>2. 4 \in 1 .. p - q - 1 /\ (q + 4) % 5 = 4 /\ \A i \in 1 .. 3 : (q + i) % 5 # 4
    BY <1>1, <1>5
  <2>3. Earliest(Boundaries(a.buf)) = 4 /\ Boundaries(a.buf) # {}
    <3>1. 4 \in Boundaries(a.buf) /\ Boundaries(a.buf) \in SUBSET Nat
          /\ \A j \in Boundaries(a.buf) : 4 <= j
      BY <1>2, <2>2
    <3> QED BY <3>1, EarliestIs
  <2>4. Turn(a) = Take(a, 1, 4) BY <1>3, <2>3 DEF NamedTurn
  <2> HIDE DEF k
  <2>5. /\ Clean(5 * k, k) /\ SaysNothing(m, k - 1) /\ k \in Nat /\ 5 * k \in Nat /\ k >= m + 1
        /\ 1 = 5 * (k - 1) + 1 - q /\ 4 = 5 * k - 1 - q
    BY <1>1, <2>1 DEF Clean, SaysNothing
  <2>6. Caught(Take(a, 1, 4), base, p, 5 * k, k)
    <3>1. PICK start, i : start = 1 /\ i = 4 OBVIOUS
    <3>2. /\ start = 5 * (k - 1) + 1 - q /\ i = 5 * k - 1 - q /\ q <= 5 * (k - 1)
      BY <1>1, <2>1, <2>5, <3>1
    <3>3. Caught(Take(a, start, i), base, p, 5 * k, k) BY <2>1, <2>5, <3>2, TakenOn
    <3> QED BY <3>1, <3>3
  <2> QED BY <2>4, <2>5, <2>6 DEF Advances
<1> QED BY <1>1, <1>4, <1>5

\* With Gemini's events what is thrown away holds no data, and neither does
\* what is passed over before the data that is waited for.
LEMMA Passed ==
  ASSUME Wired, kind = "gemini", NEW a, NEW base, NEW p \in Nat, p <= 5 * Len(wire),
         NEW q, NEW m, Caught(a, base, p, q, m),
         NEW r \in Nat, q <= r, r <= p, r % 5 \in {0, 4},
         NEW z, z \in [buf : Seq(Nat \X Nat), st : Translator, items : Seq(Words)],
         z.st = a.st, z.items = a.items, Window(z.buf, r, p),
         \A k \in 1 .. Len(wire) : Speaks(k) /\ m < k => 5 * k > p /\ r <= 5 * (k - 1)
  PROVE  Advances(z, base, p, m)
<1> DEFINE n == p \div 5
<1>1. /\ q \in Nat /\ m \in Nat /\ m \in 0 .. Len(wire) /\ Len(wire) \in Nat /\ 5 * m <= p
      /\ a.st = After(m) /\ base \o a.items = Translated(m)
  BY WireFacts DEF Caught
<1>2. n \in Nat /\ 5 * n <= p /\ p < 5 * n + 5 OBVIOUS
<1> HIDE DEF n
<1>3. n \in m .. Len(wire) /\ n \in 0 .. Len(wire) BY <1>1, <1>2
<1>4. \A k \in 1 .. Len(wire) : m < k /\ k <= n => ~Speaks(k) BY <1>1, <1>2
<1>5. SaysNothing(m, n) BY <1>1, <1>3, <1>4, Comments
<1>6. Clean(r, n)
  <2>1. \A k \in 1 .. Len(wire) : Speaks(k) => IF k <= m THEN 5 * k <= q ELSE q <= 5 * (k - 1)
    BY DEF Caught, Clean
  <2>2. ASSUME NEW k \in 1 .. Len(wire), Speaks(k)
        PROVE  IF k <= n THEN 5 * k <= r ELSE r <= 5 * (k - 1)
    <3>1. CASE k <= m
      <4>1. 5 * k <= q BY <2>1, <2>2, <3>1
      <4> QED BY <1>1, <1>3, <3>1, <4>1
    <3>2. CASE m < k
      <4>1. 5 * k > p /\ r <= 5 * (k - 1) BY <2>2, <3>2
      <4> QED BY <1>1, <1>2, <4>1
    <3> QED BY <1>1, <3>1, <3>2
  <2> QED BY <2>2 DEF Clean
<1>7. Caught(z, base, p, r, n) BY <1>1, <1>2, <1>3, <1>5, <1>6 DEF Caught, SaysNothing
<1> QED BY <1>2, <1>7 DEF Advances, n

LEMMA Waits ==
  ASSUME Wired, kind = "gemini", NEW a, NEW base, NEW p \in Nat, p <= 5 * Len(wire),
         NEW q, NEW m, Caught(a, base, p, q, m),
         \A k \in 1 .. Len(wire) : Speaks(k) /\ m < k => 5 * k > p /\ q <= 5 * (k - 1)
  PROVE  Advances(a, base, p, m)
<1>1. PICK r, z : r = q /\ z = a OBVIOUS
<1>2. /\ r \in Nat /\ q <= r /\ r <= p /\ r % 5 \in {0, 4}
      /\ z \in [buf : Seq(Nat \X Nat), st : Translator, items : Seq(Words)]
      /\ z.st = a.st /\ z.items = a.items /\ Window(z.buf, r, p)
  BY <1>1 DEF Caught, Clean
<1>3. \A k \in 1 .. Len(wire) : Speaks(k) /\ m < k => 5 * k > p /\ r <= 5 * (k - 1)
  BY <1>1
<1>4. Advances(z, base, p, m) BY <1>2, <1>3, Passed
<1> QED BY <1>1, <1>4

\* Where the newlines of an event are.
LEMMA NewlinesOf ==
  ASSUME NEW k \in Nat, NEW x \in Nat, x % 5 = 4, x > 5 * (k - 1) + 2
  PROVE  x >= 5 * k - 1
<1>1. x = 5 * (x \div 5) + 4 /\ x \div 5 \in Nat OBVIOUS
<1> QED BY <1>1

LEMMA GeminiTurns ==
  ASSUME Wired, kind = "gemini", NEW a, NEW base \in Seq(Words), NEW p \in Nat,
         p <= 5 * Len(wire), NEW q, NEW m, Caught(a, base, p, q, m)
  PROVE  Advances(Turn(a), base, p, m)
<1> DEFINE starts == DataStarts(a.buf)
<1>1. /\ q \in Nat /\ q <= p /\ m \in Nat /\ m \in 0 .. Len(wire) /\ Len(wire) \in Nat
      /\ Window(a.buf, q, p) /\ q % 5 \in {0, 4}
      /\ a \in [buf : Seq(Nat \X Nat), st : Translator, items : Seq(Words)]
  BY WireFacts DEF Caught, Clean
<1>2. /\ \A k \in 1 .. Len(wire) : Speaks(k) /\ m < k => q <= 5 * (k - 1)
      /\ \A k \in 1 .. Len(wire) : Speaks(k) /\ k <= m => 5 * k <= q
  <2>1. \A k \in 1 .. Len(wire) : Speaks(k) => IF k <= m THEN 5 * k <= q ELSE q <= 5 * (k - 1)
    BY DEF Caught, Clean
  <2> QED BY <1>1, <2>1
<1>3. starts = {i \in 1 .. p - q - 1 : StartsAt(q, i)} BY <1>1, DataAt
<1>4. ASSUME NEW k \in 1 .. Len(wire), Speaks(k), m < k, 5 * (k - 1) + 2 <= p
      PROVE  5 * (k - 1) + 1 - q \in starts
  <2>1. q <= 5 * (k - 1) BY <1>2, <1>4
  <2>2. PICK i : i = 5 * (k - 1) + 1 - q OBVIOUS
  <2>3. i \in 1 .. p - q - 1 /\ q + i = 5 * (k - 1) + 1 BY <1>1, <1>4, <2>1, <2>2
  <2>4. StartsAt(q, i) BY <1>4, <2>3 DEF StartsAt
  <2> QED BY <1>3, <2>2, <2>3, <2>4
<1>5. Turn(a) = GeminiTurn(a) BY DEF Turn
<1> HIDE DEF starts
<1>6. CASE starts = {}
  <2>1. ASSUME NEW k \in 1 .. Len(wire), Speaks(k), m < k PROVE p < 5 * (k - 1) + 2
    BY <1>1, <1>4, <1>6, <2>1
  <2>2. CASE Newlines(a.buf) = {}
    <3>1. Turn(a) = a BY <1>5, <1>6, <2>2 DEF GeminiTurn, starts
    <3>2. \A k \in 1 .. Len(wire) : Speaks(k) /\ m < k => 5 * k > p /\ q <= 5 * (k - 1)
      BY <1>1, <1>2, <2>1
    <3>3. Advances(a, base, p, m) BY <1>1, <3>2, Waits
    <3> QED BY <3>1, <3>3
  <2>3. CASE Newlines(a.buf) # {}
    <3>1. Newlines(a.buf) = {i \in 1 .. p - q : (q + i) % 5 \in {0, 4}} BY <1>1, NewlineAt
    <3>2. PICK l : l = Latest(Newlines(a.buf)) OBVIOUS
    <3>3. l \in Newlines(a.buf)
      <4>1. p - q \in Nat /\ Newlines(a.buf) \subseteq 1 .. p - q BY <1>1, <3>1
      <4> QED BY <2>3, <3>2, <4>1, LatestIs
    <3>4. PICK r : r = q + l OBVIOUS
    <3>5. /\ l \in Nat /\ r \in Nat /\ q <= r /\ r <= p /\ r % 5 \in {0, 4}
          /\ l + 1 = r - q + 1 /\ l + 1 \in Nat
      <4>1. l \in 1 .. p - q /\ (q + l) % 5 \in {0, 4} BY <3>1, <3>3
      <4>2. l \in Nat /\ r \in Nat BY <1>1, <3>4, <4>1
      <4> QED BY <1>1, <3>4, <4>1, <4>2
    <3>6. Window(From(a.buf, l + 1), r, p) BY <1>1, <3>5, WindowFrom
    <3>7. PICK z : z = [a EXCEPT !.buf = From(@, l + 1)] OBVIOUS
    <3>8. /\ z.buf = From(a.buf, l + 1) /\ z.st = a.st /\ z.items = a.items
          /\ z \in [buf : Seq(Nat \X Nat), st : Translator, items : Seq(Words)]
      <4>1. From(a.buf, l + 1) \in Seq(Nat \X Nat) BY <3>6 DEF Window
      <4> QED BY <1>1, <3>7, <4>1
    <3>9. Turn(a) = z BY <1>5, <1>6, <2>3, <3>2, <3>7 DEF GeminiTurn, starts
    <3>10. ASSUME NEW k \in 1 .. Len(wire), Speaks(k), m < k
           PROVE  5 * k > p /\ r <= 5 * (k - 1)
      <4>1. p < 5 * (k - 1) + 2 BY <2>1, <3>10
      <4>2. r # 5 * (k - 1) + 1
        <5>1. (5 * (k - 1) + 1) % 5 = 1 OBVIOUS
        <5> QED BY <3>5, <5>1
      <4> QED BY <1>1, <3>5, <4>1, <4>2
    <3>11. Advances(z, base, p, m) BY <1>1, <3>5, <3>6, <3>8, <3>10, Passed
    <3> QED BY <3>9, <3>11
  <2> QED BY <2>2, <2>3
<1>7. CASE starts # {}
  <2>1. starts \in SUBSET Nat BY <1>3
  <2>2. PICK i \in starts : \A j \in starts : i <= j BY <1>7, <2>1, Least
  <2>3. Earliest(starts) = i BY <2>1, <2>2, EarliestIs
  <2>4. PICK k \in 1 .. Len(wire) : Speaks(k) /\ q + i = 5 * (k - 1) + 1
    BY <1>3, <2>2 DEF StartsAt
  <2>5. k \in Nat /\ i \in 1 .. p - q - 1 /\ i = 5 * (k - 1) + 1 - q BY <1>1, <1>3, <2>2, <2>4
  <2>6. m < k
    <3>1. k <= m => 5 * k <= q BY <1>2, <2>4
    <3> QED BY <1>1, <2>4, <2>5, <3>1
  <2>7. q <= 5 * (k - 1) BY <1>2, <2>4, <2>6
  <2>8. ASSUME NEW n \in 1 .. Len(wire), Speaks(n), m < n PROVE k <= n
    <3> SUFFICES ASSUME n < k PROVE FALSE BY <1>1, <2>5
    <3>1. 5 * (n - 1) + 2 <= p BY <1>1, <2>5
    <3>2. 5 * (n - 1) + 1 - q \in starts BY <1>4, <2>8, <3>1
    <3>3. i <= 5 * (n - 1) + 1 - q BY <2>2, <3>2
    <3> QED BY <1>1, <2>5, <3>3
  <2>9. Boundaries(a.buf) = {j \in 1 .. p - q - 1 : (q + j) % 5 = 4} BY <1>1, BoundaryAt
  <2>10. PICK ends : ends = {j \in Boundaries(a.buf) : j > i + 1} OBVIOUS
  <2>11. Turn(a) = IF ends = {} THEN a ELSE Take(a, i, Earliest(ends))
    BY <1>5, <1>7, <2>3, <2>10 DEF GeminiTurn, starts
  <2>12. CASE p < 5 * k
    <3>1. ends = {}
      <4> SUFFICES ASSUME NEW j \in ends PROVE FALSE OBVIOUS
      <4>1. j \in 1 .. p - q - 1 /\ (q + j) % 5 = 4 /\ j > i + 1 BY <2>9, <2>10
      <4>2. q + j > 5 * (k - 1) + 2 /\ q + j < 5 * k - 1 BY <1>1, <2>5, <2>12, <4>1
      <4>3. PICK x : x = q + j OBVIOUS
      <4>4. x \in Nat /\ x % 5 = 4 /\ x > 5 * (k - 1) + 2 /\ x < 5 * k - 1
        BY <1>1, <4>1, <4>2, <4>3
      <4>5. x >= 5 * k - 1 BY <2>5, <4>4, NewlinesOf
      <4> QED BY <2>5, <4>4, <4>5
    <3>2. Turn(a) = a BY <2>11, <3>1
    <3>3. \A n \in 1 .. Len(wire) : Speaks(n) /\ m < n => 5 * n > p /\ q <= 5 * (n - 1)
      BY <1>1, <1>2, <2>5, <2>8, <2>12
    <3>4. Advances(a, base, p, m) BY <1>1, <3>3, Waits
    <3> QED BY <3>2, <3>4
  <2>13. CASE 5 * k <= p
    <3>1. PICK e : e = 5 * k - 1 - q OBVIOUS
    <3>2. e \in 1 .. p - q - 1 /\ (q + e) % 5 = 4 /\ e > i + 1
      BY <1>1, <2>5, <2>7, <2>13, <3>1
    <3>3. ASSUME NEW j \in ends PROVE e <= j
      <4>1. j \in 1 .. p - q - 1 /\ (q + j) % 5 = 4 /\ j > i + 1 BY <2>9, <2>10
      <4>2. q + j > 5 * (k - 1) + 2 BY <1>1, <2>5, <4>1
      <4>3. PICK x : x = q + j OBVIOUS
      <4>4. x \in Nat /\ x % 5 = 4 /\ x > 5 * (k - 1) + 2 BY <1>1, <4>1, <4>2, <4>3
      <4>5. x >= 5 * k - 1 BY <2>5, <4>4, NewlinesOf
      <4> QED BY <1>1, <2>5, <3>1, <4>1, <4>3, <4>5
    <3>4. e \in ends /\ ends \in SUBSET Nat BY <2>9, <2>10, <3>2
    <3>5. Turn(a) = Take(a, i, e) BY <2>11, <3>3, <3>4, EarliestIs
    <3>6. /\ k - 1 \in m .. Len(wire)
          /\ \A n \in 1 .. Len(wire) : m < n /\ n <= k - 1 => ~Speaks(n)
      BY <1>1, <2>5, <2>6, <2>8
    <3>7. SaysNothing(m, k - 1)
      <4>1. PICK n : n = k - 1 OBVIOUS
      <4>2. SaysNothing(m, n) BY <1>1, <3>6, <4>1, Comments
      <4> QED BY <4>1, <4>2
    <3>8. Clean(5 * k, k)
      <4>1. (5 * k) % 5 = 0 BY <2>5
      <4>2. \A n \in 1 .. Len(wire) : IF n <= k THEN 5 * n <= 5 * k ELSE 5 * k <= 5 * (n - 1)
        BY <2>5
      <4> QED BY <4>1, <4>2 DEF Clean
    <3>9. Caught(Take(a, i, e), base, p, 5 * k, k)
      BY <2>5, <2>7, <2>13, <3>1, <3>7, <3>8, TakenOn
    <3>10. 5 * k \in Nat /\ k >= m + 1 BY <1>1, <2>5, <2>6
    <3> QED BY <2>5, <3>5, <3>9, <3>10 DEF Advances
  <2> QED BY <1>1, <2>5, <2>12, <2>13
<1> QED BY <1>6, <1>7

LEMMA TurnAdvances ==
  ASSUME Wired, NEW a, NEW base \in Seq(Words), NEW p \in Nat,
         p <= 5 * Len(wire), NEW q, NEW m, Caught(a, base, p, q, m)
  PROVE  Advances(Turn(a), base, p, m)
BY GeminiTurns, NamedTurns

----------------------------------------------------------------------------
(* A call of process_chunk: all the turns, and the end.                    *)

Reaches(a, base, p, l) ==
  \E q \in Nat, n \in Nat : Caught(a, base, p, q, n) /\ (n = p \div 5 \/ n >= l)

\* After a call the translation is at the last event that is there.
LEMMA Drained ==
  ASSUME Wired, NEW a, NEW base \in Seq(Words), NEW p \in Nat, p <= 5 * Len(wire),
         NEW s \in Nat, s <= p, NEW q, q <= s, NEW m, m = s \div 5,
         Caught(a, base, p, q, m)
  PROVE  \E r \in Nat : Caught(Drain(a), base, p, r, p \div 5)
<1>1. q \in Nat /\ m \in Nat /\ Len(a.buf) = p - q /\ p - q \in Nat
  BY DEF Caught, Window
<1>2. PICK n \in Nat : n = Len(a.buf) BY <1>1
<1>3. PICK h : /\ h[0] = a /\ Drain(a) = h[n]
               /\ \A k \in 1 .. n : h[k] = Turn(h[k - 1])
  <2>1. \E h : /\ h[0] = a /\ Drain(a) = h[n]
               /\ \A k \in 1 .. n : h[k] = Turn(h[k - 1])
    BY <1>2, DrainTurns
  <2> QED BY <2>1
<1> DEFINE S == {k \in 0 .. n : Reaches(h[k], base, p, m + k)}
<1>4. 0 \in S
  <2>1. Reaches(a, base, p, m + 0) BY <1>1 DEF Reaches
  <2> QED BY <1>2, <1>3, <2>1
<1>5. ASSUME NEW k \in 1 .. n, k - 1 \in S PROVE k \in S
  <2>1. PICK z : z = h[k - 1] OBVIOUS
  <2>2. PICK t, l \in Nat : Caught(z, base, p, t, l) /\ (l = p \div 5 \/ l >= m + (k - 1))
    BY <1>5, <2>1 DEF Reaches
  <2>3. Advances(Turn(z), base, p, l) BY <2>2, TurnAdvances
  <2>4. PICK u \in Nat, w \in Nat :
          Caught(Turn(z), base, p, u, w) /\ (w = p \div 5 \/ w >= l + 1)
    BY <2>3 DEF Advances
  <2>5. 5 * w <= p BY <2>4 DEF Caught
  <2>6. w = p \div 5 \/ w >= m + k
    <3>1. l = p \div 5 /\ w >= l + 1 => FALSE BY <2>2, <2>5
    <3> QED BY <1>1, <2>2, <2>4, <3>1
  <2>7. Reaches(Turn(z), base, p, m + k) BY <2>4, <2>6 DEF Reaches
  <2>8. h[k] = Turn(z) BY <1>3, <2>1
  <2> QED BY <2>7, <2>8
<1>6. 0 .. n \subseteq S
  <2> HIDE DEF S
  <2> QED BY <1>4, <1>5, Upwards
<1>7. n \in 0 .. n BY <1>2
<1>8. Reaches(Drain(a), base, p, m + n) BY <1>3, <1>6, <1>7
<1>9. PICK r \in Nat, l \in Nat :
        Caught(Drain(a), base, p, r, l) /\ (l = p \div 5 \/ l >= m + n)
  BY <1>8 DEF Reaches
<1>10. l = p \div 5
  <2>1. 5 * l <= p BY <1>9 DEF Caught
  <2>2. n >= p - s /\ s < 5 * m + 5 BY <1>1, <1>2
  <2>3. l <= p \div 5 BY <1>9, <2>1
  <2>4. p \div 5 <= m + n
    <3>1. PICK d : d = p \div 5 OBVIOUS
    <3>2. d \in Nat /\ 5 * d <= p BY <3>1
    <3> QED BY <1>1, <1>2, <2>2, <3>1, <3>2
  <2> QED BY <1>1, <1>2, <1>9, <2>3, <2>4
<1> QED BY <1>9, <1>10

\* A call begins with the translator as it is and the new piece behind the
\* buffer, and ends with what it gave on its way to the client.
LEMMA Fed ==
  ASSUME Wired, NEW b, NEW z, NEW base \in Seq(Words), NEW s \in Nat, NEW p \in Nat, s <= p,
         NEW q, NEW m, NEW data, Window(data, s, p),
         Caught([buf |-> b, st |-> z, items |-> << >>], base, s, q, m)
  PROVE  Caught([buf |-> b \o data, st |-> z, items |-> << >>], base, p, q, m)
<1>1. /\ q \in Nat /\ q <= s /\ Window(b, q, s) /\ b \in Seq(Nat \X Nat)
      /\ m \in 0 .. Len(wire) /\ 5 * m <= s /\ Clean(q, m) /\ z \in Translator
      /\ z = After(m) /\ base \o << >> = Translated(m) /\ << >> \in Seq(Words)
  BY DEF Caught
<1>2. Window(b \o data, q, p) BY <1>1, WindowJoins
<1>3. PICK c : c = b \o data OBVIOUS
<1>4. c \in Seq(Nat \X Nat) /\ Window(c, q, p) BY <1>2, <1>3 DEF Window
<1>5. q <= p /\ 5 * m <= p BY <1>1, WireFacts
<1>6. Caught([buf |-> c, st |-> z, items |-> << >>], base, p, q, m)
  BY <1>1, <1>4, <1>5 DEF Caught
<1> QED BY <1>3, <1>6

LEMMA Sent ==
  ASSUME NEW a, NEW base \in Seq(Words), NEW p, NEW q, NEW m, Caught(a, base, p, q, m)
  PROVE  /\ Caught([buf |-> a.buf, st |-> a.st, items |-> << >>], base \o a.items, p, q, m)
         /\ base \o a.items \in Seq(Words)
<1>1. a \in [buf : Seq(Nat \X Nat), st : Translator, items : Seq(Words)]
  BY DEF Caught
<1>2. << >> \in Seq(Words) BY EmptySeq
<1>3. PICK T, all : T = Words /\ all = base \o a.items OBVIOUS
<1>4. all \in Seq(T) BY <1>1, <1>3
<1>5. all \o << >> = all BY <1>4, ConcatEmptySeq
<1>6. Caught([buf |-> a.buf, st |-> a.st, items |-> << >>], all, p, q, m)
  BY <1>1, <1>2, <1>3, <1>5 DEF Caught
<1> QED BY <1>3, <1>4, <1>6

\* The events the end of the wire lets through.
Ends(m) == m = Len(wire) \/ (AfterComment /\ m = Len(wire) - 1)
Closing == IF kind = "gemini" THEN <<Done>> ELSE << >>
Rest(a) == IF a.buf = << >> THEN Gives(a.st, << >>) ELSE Event(a.st, Spelt(a.buf))

\* The rest of the buffer is the last event, if that had no newlines, unless a
\* comment is in the way.
LEMMA RestIs ==
  ASSUME Wired, NEW a, NEW base, NEW q, Caught(a, base, Size, q, Size \div 5)
  PROVE  \/ Ends(Size \div 5) /\ Rest(a) = Gives(a.st, << >>)
         \/ Len(wire) - 1 = Size \div 5 /\ Rest(a) = Event(a.st, Len(wire))
<1> DEFINE N == Len(wire)
           m == Size \div 5
<1>1. /\ N \in Nat \ {0} /\ Size \in Nat /\ q \in Nat /\ q <= Size
      /\ Window(a.buf, q, Size) /\ Clean(q, m) /\ closed \in BOOLEAN
  BY WireFacts, BytesFacts DEF Caught, Wired
<1>2. ASSUME Spelt(a.buf) = 0 PROVE Rest(a) = Gives(a.st, << >>)
  BY <1>2 DEF Rest, Event
<1>3. CASE closed
  <2>1. Size = 5 * N BY <1>3 DEF Size
  <2>2. m = N /\ Size % 5 = 0 BY <1>1, <2>1
  <2>3. Spelt(a.buf) = 0 BY <1>1, <2>2, SpellsNone
  <2> QED BY <1>2, <2>2, <2>3 DEF Ends
<1>4. CASE ~closed
  <2>1. Size = 5 * N - 2 BY <1>4 DEF Size
  <2> HIDE DEF N
  <2>2. m = N - 1 /\ N - 1 \in Nat BY <1>1, <2>1
  <2>3. q <= 5 * (N - 1)
    <3>1. CASE kind # "gemini" BY <1>1, <2>2, <3>1 DEF Clean
    <3>2. CASE kind = "gemini"
      <4>1. q % 5 \in {0, 4} BY <1>1, <3>2 DEF Clean
      <4> QED BY <1>1, <2>1, <4>1
    <3> QED BY <3>1, <3>2
  <2>4. CASE q = 5 * (N - 1)
    <3>1. N \in 1 .. Len(wire) BY <1>1 DEF N
    <3>2. Window(a.buf, 5 * (N - 1), 5 * N - 2) BY <1>1, <2>1, <2>4
    <3>3. Spelt(a.buf) = N BY <3>1, <3>2, SpellsOne
    <3>4. a.buf # << >>
      <4>1. Len(a.buf) = 3 BY <1>1, <2>1, <2>4 DEF Window
      <4> QED BY <4>1
    <3>5. Rest(a) = Event(a.st, N) BY <3>3, <3>4 DEF Rest
    <3> QED BY <2>2, <3>5 DEF N
  <2>5. CASE q < 5 * (N - 1)
    <3>1. Spelt(a.buf) = 0
      <4>1. Size - q # 3 BY <1>1, <2>1, <2>5
      <4> QED BY <1>1, <4>1, SpellsNone
    <3>2. kind = "gemini" BY <1>1, <2>2, <2>5 DEF Clean
    <3>3. N > 1 /\ N - 1 \in 1 .. Len(wire) BY <1>1, <2>5 DEF N
    <3>4. ~Speaks(N - 1)
      <4> SUFFICES ASSUME Speaks(N - 1) PROVE FALSE OBVIOUS
      <4>1. 5 * (N - 1) <= q BY <1>1, <2>2, <3>2, <3>3 DEF Clean
      <4> QED BY <1>1, <2>5, <4>1
    <3>5. AfterComment BY <1>4, <3>2, <3>3, <3>4 DEF AfterComment, Speaks, N
    <3> QED BY <1>2, <2>2, <3>1, <3>5 DEF Ends, N
  <2> QED BY <1>1, <2>3, <2>4, <2>5
<1> QED BY <1>1, <1>3, <1>4

\* The end of the wire gives what the last events give.
LEMMA Flushed ==
  ASSUME Wired, NEW a, NEW base \in Seq(Words), NEW q,
         Caught(a, base, Size, q, Size \div 5)
  PROVE  /\ Flush(a).buf = << >>
         /\ \E m \in 0 .. Len(wire) : /\ Ends(m) /\ Flush(a).st = After(m)
                                     /\ base \o Flush(a).items = Translated(m) \o Closing
<1> DEFINE d == Size \div 5
<1>1. /\ d \in 0 .. Len(wire) /\ a.st = After(d) /\ base \o a.items = Translated(d)
      /\ a.items \in Seq(Words)
  BY DEF Caught
<1>2. PICK rest : rest = Rest(a) OBVIOUS
<1>3. \E m \in 0 .. Len(wire) : /\ Ends(m) /\ rest.st = After(m) /\ rest.items \in Seq(Words)
                                /\ Translated(m) = Translated(d) \o rest.items
  <2>1. CASE Ends(d) /\ rest = Gives(a.st, << >>)
    <3>1. rest.st = After(d) /\ rest.items = << >> BY <1>1, <2>1 DEF Gives
    <3>2. << >> \in Seq(Words) BY EmptySeq
    <3>3. Translated(d) \in Seq(Words) BY <1>1, WordsFacts
    <3>4. Translated(d) \o << >> = Translated(d) BY <3>3, ConcatEmptySeq
    <3> QED BY <1>1, <2>1, <3>1, <3>2, <3>4
  <2>2. CASE Len(wire) - 1 = d /\ rest = Event(a.st, Len(wire))
    <3>1. PICK n : n = Len(wire) OBVIOUS
    <3>2. n \in 1 .. Len(wire) /\ n \in 0 .. Len(wire) /\ n - 1 = d BY <2>2, <3>1, WireFacts
    <3>3. /\ After(n) = Event(After(n - 1), n).st
          /\ Translated(n) = Translated(n - 1) \o Event(After(n - 1), n).items
          /\ Event(After(n - 1), n).items \in Seq(Words)
      BY <3>2, TranslationGoesOn, WordsFacts
    <3>4. rest = Event(After(n - 1), n) BY <1>1, <2>2, <3>1, <3>2
    <3>5. Ends(n) BY <3>1 DEF Ends
    <3> QED BY <3>2, <3>3, <3>4, <3>5
  <2> HIDE DEF d
  <2> QED BY <1>2, <2>1, <2>2, RestIs DEF d
<1> HIDE DEF d
<1>4. PICK m \in 0 .. Len(wire) : /\ Ends(m) /\ rest.st = After(m) /\ rest.items \in Seq(Words)
                                  /\ Translated(m) = Translated(d) \o rest.items
  BY <1>3
<1>5. PICK T, x, y : T = Words /\ x = a.items /\ y = rest.items OBVIOUS
<1>6. base \in Seq(T) /\ x \in Seq(T) /\ y \in Seq(T) /\ Done \in T
  BY <1>1, <1>4, <1>5 DEF Words
<1>7. (base \o x) \o y = base \o (x \o y) BY <1>6, ConcatAssociative, SMTT(30)
<1>8. x \o y \in Seq(T) /\ <<Done>> \in Seq(T) BY <1>6
<1>9. PICK all, last : all = x \o y /\ last = <<Done>> OBVIOUS
<1>10. (base \o all) \o last = base \o (all \o last)
  BY <1>6, <1>8, <1>9, ConcatAssociative, SMTT(30)
<1>11. Append(all, Done) = all \o last
  BY <1>6, <1>8, <1>9, AppendIsConcat
<1>12. base \o all = Translated(m) BY <1>1, <1>4, <1>5, <1>7, <1>9
<1>13. /\ Flush(a).buf = << >> /\ Flush(a).st = rest.st
       /\ Flush(a).items = IF kind = "gemini" THEN Append(all, Done) ELSE all
  BY <1>2, <1>5, <1>9 DEF Flush, Rest
<1>14. Translated(m) \in Seq(Words) BY WordsFacts
<1>15. Translated(m) \o << >> = Translated(m) BY <1>14, ConcatEmptySeq
<1>16. base \o Flush(a).items = Translated(m) \o Closing
  <2>1. CASE kind = "gemini" BY <1>9, <1>10, <1>11, <1>12, <1>13, <2>1 DEF Closing
  <2>2. CASE kind # "gemini" BY <1>12, <1>13, <1>15, <2>2 DEF Closing
  <2> QED BY <2>1, <2>2
<1> QED BY <1>4, <1>13, <1>16

----------------------------------------------------------------------------
(* The wire stays what it is, and so does its translation.                 *)

LEMMA SameEvents ==
  ASSUME UNCHANGED <<kind, wire, closed>>, NEW s, NEW n
  PROVE  Event(s, n)' = Event(s, n)
<1>1. AnthropicEvent(s, n)' = AnthropicEvent(s, n) BY DEF AnthropicEvent
<1>2. CohereEvent(s, n)' = CohereEvent(s, n) BY DEF CohereEvent
<1>3. GeminiEvent(s, n)' = GeminiEvent(s, n) BY DEF GeminiEvent
<1> QED BY <1>1, <1>2, <1>3 DEF Event

LEMMA SameTranslation ==
  ASSUME Wired, UNCHANGED <<kind, wire, closed>>
  PROVE  \A n \in 0 .. Len(wire) : Translation'[n] = Translation[n]
<1> DEFINE S == {n \in 0 .. Len(wire) : Translation'[n] = Translation[n]}
<1>0. Len(wire) \in Nat /\ wire' = wire BY WireFacts
<1>1. Unfolds BY TranslationUnfolds
<1>2. Unfolds'
  <2>1. Wired' BY DEF Wired
  <2>2. (Wired => Unfolds)' BY TranslationUnfolds, PTL
  <2> QED BY <2>1, <2>2
<1>3. 0 \in S BY <1>0, <1>1, <1>2 DEF Unfolds, Gives, Silent
<1>4. ASSUME NEW n \in 1 .. Len(wire), n - 1 \in S PROVE n \in S
  <2>1. PICK t : t = Translation[n - 1] OBVIOUS
  <2>2. Translation'[n - 1] = t BY <1>4, <2>1
  <2>3. Translation[n] = Onwards(t, n) BY <1>1, <2>1 DEF Unfolds
  <2>4. Translation'[n] = Onwards(t, n)' BY <1>0, <1>2, <2>2 DEF Unfolds, Onwards
  <2>5. Event(t.st, n)' = Event(t.st, n) BY SameEvents
  <2>6. Onwards(t, n)' = Onwards(t, n) BY <2>5 DEF Onwards, Gives
  <2> QED BY <1>0, <2>3, <2>4, <2>6
<1>5. 0 .. Len(wire) \subseteq S
  <2> HIDE DEF S
  <2> QED BY <1>0, <1>3, <1>4, Upwards
<1> QED BY <1>5

----------------------------------------------------------------------------
(* The invariant.                                                          *)

Now == [buf |-> buf, st |-> st, items |-> << >>]

StreamsInv ==
  /\ Wired /\ pos \in 0 .. Size /\ phase \in {"flowing", "flushed", "cut"}
  /\ out \in Seq(Words)
  /\ phase # "flushed" => \E q \in Nat : Caught(Now, out, pos, q, pos \div 5)
  /\ phase = "cut" => pos = Size
  /\ phase = "flushed" => /\ buf = << >> /\ pos = Size
                          /\ \E m \in 0 .. Len(wire) :
                               Ends(m) /\ st = After(m) /\ out = Translated(m) \o Closing

LEMMA StreamsInvInit == StreamInit => StreamsInv
<1> SUFFICES ASSUME StreamInit PROVE StreamsInv OBVIOUS
<1>1. Wired /\ pos = 0 /\ buf = << >> /\ st = Silent /\ out = << >> /\ phase = "flowing"
  BY DEF StreamInit, Wired
<1>2. Len(wire) \in Nat /\ Size \in Nat /\ 0 \in 0 .. Size BY <1>1, WireFacts, BytesFacts
<1>3. After(0) = Silent /\ Translated(0) = << >> BY <1>1, TranslationGoesOn
<1>4. << >> \in Seq(Nat \X Nat) /\ << >> \in Seq(Words) /\ Len(<< >>) = 0 BY EmptySeq
<1>5. Window(<< >>, 0, 0)
  <2>1. 0 - 0 = 0 /\ 1 .. 0 = {} OBVIOUS
  <2> QED BY <1>4, <2>1 DEF Window
<1>6. Clean(0, 0) BY <1>1, <1>2 DEF Clean
<1>7. Silent \in Translator BY DEF Silent, Translator
<1>8. << >> \o << >> = << >> OBVIOUS
<1>9. PICK z : z = [buf |-> << >>, st |-> Silent, items |-> << >>] OBVIOUS
<1>10. /\ z \in [buf : Seq(Nat \X Nat), st : Translator, items : Seq(Words)]
       /\ z.buf = << >> /\ z.st = Silent /\ z.items = << >>
  BY <1>4, <1>7, <1>9
<1>11. Caught(z, << >>, 0, 0, 0) BY <1>2, <1>3, <1>5, <1>6, <1>8, <1>10 DEF Caught
<1>12. Now = z /\ 0 \div 5 = 0 BY <1>1, <1>9 DEF Now
<1>13. Caught(Now, out, pos, 0, pos \div 5) BY <1>1, <1>11, <1>12
<1> QED BY <1>1, <1>2, <1>4, <1>13 DEF StreamsInv

\* What is true of the wire as it was is true of it as it is.
LEMMA SameCaught ==
  ASSUME Wired, UNCHANGED <<kind, wire, closed>>,
         NEW a, NEW base, NEW p, NEW q, NEW m, Caught(a, base, p, q, m)
  PROVE  Caught(a, base, p, q, m)'
<1>1. wire' = wire /\ kind' = kind OBVIOUS
<1>2. m \in 0 .. Len(wire) BY DEF Caught
<1>3. Translation'[m] = Translation[m] BY <1>2, SameTranslation
<1>4. After(m)' = After(m) /\ Translated(m)' = Translated(m) BY <1>3 DEF After, Translated
<1>5. Words' = Words BY <1>1 DEF Words
<1>6. Clean(q, m)' = Clean(q, m) BY <1>1 DEF Clean, Speaks
<1> QED BY <1>1, <1>4, <1>5, <1>6 DEF Caught

LEMMA EndsStay ==
  ASSUME Wired, UNCHANGED <<kind, wire, closed>>, NEW m \in 0 .. Len(wire)
  PROVE  /\ Ends(m)' = Ends(m) /\ Closing' = Closing /\ Size' = Size /\ Words' = Words
         /\ After(m)' = After(m) /\ Translated(m)' = Translated(m)
<1>1. wire' = wire /\ kind' = kind /\ closed' = closed OBVIOUS
<1>2. Translation'[m] = Translation[m] BY SameTranslation
<1>3. After(m)' = After(m) /\ Translated(m)' = Translated(m) BY <1>2 DEF After, Translated
<1>4. Ends(m)' = Ends(m) BY <1>1 DEF Ends, AfterComment
<1>5. Closing' = Closing /\ Size' = Size /\ Words' = Words BY <1>1 DEF Closing, Size, Words
<1> QED BY <1>3, <1>4, <1>5

\* The invariant holds after a step that leaves the wire and says what the
\* translator, the client and the end have become.
LEMMA Kept ==
  ASSUME Wired, UNCHANGED <<kind, wire, closed>>,
         NEW p \in 0 .. Size, pos' = p, phase' \in {"flowing", "cut"},
         phase' = "cut" => p = Size,
         NEW c, Now' = c, NEW o \in Seq(Words), out' = o,
         NEW q, Caught(c, o, p, q, p \div 5)
  PROVE  StreamsInv'
<1>1. PICK m : m = p \div 5 OBVIOUS
<1>2. Caught(c, o, p, q, m) BY <1>1
<1>3. q \in Nat /\ m \in 0 .. Len(wire) BY <1>2 DEF Caught
<1>4. Size' = Size /\ Words' = Words BY <1>3, EndsStay
<1>5. Caught(c, o, p, q, m)' BY <1>2, SameCaught
<1>6. Caught(Now, out, pos, q, pos \div 5)' BY <1>1, <1>5 DEF Caught
<1>7. Wired' BY DEF Wired
<1> QED BY <1>3, <1>4, <1>6, <1>7 DEF StreamsInv

LEMMA KeptFlushed ==
  ASSUME Wired, UNCHANGED <<kind, wire, closed>>, pos' = Size, phase' = "flushed",
         buf' = << >>, NEW m \in 0 .. Len(wire), Ends(m), st' = After(m),
         NEW o, out' = o, o = Translated(m) \o Closing
  PROVE  StreamsInv'
<1>1. /\ Ends(m)' = Ends(m) /\ Closing' = Closing /\ Size' = Size /\ Words' = Words
      /\ After(m)' = After(m) /\ Translated(m)' = Translated(m)
  BY EndsStay
<1>2. PICK T, x, y : T = Words /\ x = Translated(m) /\ y = Closing OBVIOUS
<1>3. Closing \in Seq(Words)
  <2>1. << >> \in Seq(Words) /\ <<Done>> \in Seq(Words) BY EmptySeq DEF Words
  <2> QED BY <2>1 DEF Closing
<1>4. x \in Seq(T) /\ y \in Seq(T) BY <1>2, <1>3, WordsFacts
<1>5. x \o y \in Seq(T) BY <1>4
<1>6. o \in Seq(Words) BY <1>2, <1>5
<1>7. Wired' /\ Size \in 0 .. Size /\ Len(wire)' = Len(wire) BY BytesFacts DEF Wired
<1>8. \E l \in 0 .. Len(wire)' : Ends(l)' /\ st' = After(l)' /\ out' = Translated(l)' \o Closing'
  BY <1>1, <1>7
<1> QED BY <1>1, <1>6, <1>7, <1>8 DEF StreamsInv

LEMMA ChunkKeeps ==
  ASSUME StreamsInv, NEW n \in 1 .. Len(Bytes) - pos, NEW end \in BOOLEAN, Chunk(n, end)
  PROVE  StreamsInv'
<1>1. Wired /\ pos \in 0 .. Size /\ out \in Seq(Words) BY DEF StreamsInv
<1>2. /\ phase = "flowing" /\ pos + n <= Size /\ UNCHANGED <<kind, wire, closed>>
      /\ Size \in Nat /\ Len(Bytes) = Size
  BY <1>1, BytesFacts DEF Chunk
<1>3. PICK q \in Nat : Caught(Now, out, pos, q, pos \div 5) BY <1>2 DEF StreamsInv
<1>4. PICK p, s, b, z, base, data :
        /\ p = pos + n /\ s = pos /\ b = buf /\ z = st /\ base = out
        /\ data = SubSeq(Bytes, pos + 1, pos + n)
  OBVIOUS
<1>5. s \in Nat /\ p \in Nat /\ s <= p /\ p \in 0 .. Size /\ s \in 0 .. p /\ base \in Seq(Words)
  <2> HIDE DEF Size
  <2> QED BY <1>1, <1>2, <1>4
<1>6. Window(data, s, p) BY <1>1, <1>4, <1>5, WindowFacts
<1>7. PICK m : m = s \div 5 OBVIOUS
<1>8. Caught([buf |-> b, st |-> z, items |-> << >>], base, s, q, m)
  BY <1>3, <1>4, <1>7 DEF Now
<1>9. PICK a : a = [buf |-> b \o data, st |-> z, items |-> << >>] OBVIOUS
<1>10. Caught(a, base, p, q, m) BY <1>1, <1>5, <1>6, <1>8, <1>9, Fed
<1>11. p <= 5 * Len(wire) /\ q <= s
  <2>1. Len(wire) \in Nat BY <1>1, WireFacts
  <2>2. q <= s BY <1>8 DEF Caught
  <2> QED BY <1>5, <2>1, <2>2 DEF Size
<1>12. PICK r \in Nat : Caught(Drain(a), base, p, r, p \div 5)
  BY <1>1, <1>5, <1>7, <1>10, <1>11, Drained
<1>13. PICK d : d = Drain(a) OBVIOUS
<1>14. /\ pos' = p
       /\ phase' = IF end THEN "flushed" ELSE "flowing"
       /\ end => p = Size
       /\ LET got == IF end THEN Flush(d) ELSE d
          IN buf' = got.buf /\ st' = got.st /\ out' = base \o got.items
  BY <1>2, <1>4, <1>9, <1>13 DEF Chunk, process_chunk
<1>15. CASE end
  <2>1. Caught(d, base, Size, r, Size \div 5) BY <1>12, <1>13, <1>14, <1>15
  <2>2. /\ Flush(d).buf = << >>
        /\ \E l \in 0 .. Len(wire) : /\ Ends(l) /\ Flush(d).st = After(l)
                                     /\ base \o Flush(d).items = Translated(l) \o Closing
    BY <1>1, <1>5, <2>1, Flushed
  <2>3. PICK l \in 0 .. Len(wire) : /\ Ends(l) /\ Flush(d).st = After(l)
                                    /\ base \o Flush(d).items = Translated(l) \o Closing
    BY <2>2
  <2>4. PICK o : o = base \o Flush(d).items OBVIOUS
  <2>5. buf' = << >> /\ st' = After(l) /\ out' = o /\ phase' = "flushed" /\ pos' = Size
    BY <1>14, <1>15, <2>2, <2>3, <2>4
  <2> QED BY <1>1, <1>2, <2>3, <2>4, <2>5, KeptFlushed
<1>16. CASE ~end
  <2>1. PICK c, o : /\ c = [buf |-> d.buf, st |-> d.st, items |-> << >>]
                    /\ o = base \o d.items
    OBVIOUS
  <2>2. Caught(c, o, p, r, p \div 5) /\ o \in Seq(Words)
    BY <1>5, <1>12, <1>13, <2>1, Sent
  <2>3. Now' = c /\ out' = o /\ pos' = p /\ phase' = "flowing"
    BY <1>14, <1>16, <2>1 DEF Now
  <2> QED BY <1>1, <1>2, <1>5, <2>2, <2>3, Kept
<1> QED BY <1>15, <1>16

LEMMA StreamsInvNext == ASSUME StreamsInv, [StreamNext]_stream_vars PROVE StreamsInv'
<1>1. ASSUME NEW n \in 1 .. Len(Bytes) - pos, NEW end \in BOOLEAN, Chunk(n, end)
      PROVE  StreamsInv'
  BY <1>1, ChunkKeeps
<1>2. ASSUME UNCHANGED <<kind, wire, closed, pos, buf, st, out>>, phase # "flushed",
             phase' \in {"flowing", "cut"}, phase' = "cut" => pos = Size
      PROVE  StreamsInv'
  <2>1. PICK q \in Nat : Caught(Now, out, pos, q, pos \div 5) BY <1>2 DEF StreamsInv
  <2>2. PICK c, o, p : c = Now /\ o = out /\ p = pos OBVIOUS
  <2>3. Wired /\ p \in 0 .. Size /\ o \in Seq(Words) BY <2>2 DEF StreamsInv
  <2>4. /\ pos' = p /\ Now' = c /\ out' = o /\ Caught(c, o, p, q, p \div 5)
        /\ phase' = "cut" => p = Size
    BY <1>2, <2>1, <2>2 DEF Now
  <2>5. UNCHANGED <<kind, wire, closed>> BY <1>2
  <2> QED BY <1>2, <2>3, <2>4, <2>5, Kept
<1>3. CASE EndAlone
  <2>1. phase = "flowing" /\ pos = Size /\ phase' = "cut"
        /\ UNCHANGED <<kind, wire, closed, pos, buf, st, out>>
    BY <1>3, BytesFacts DEF EndAlone, StreamsInv
  <2> QED BY <1>2, <2>1
<1>4. CASE UNCHANGED stream_vars
  <2>1. CASE phase # "flushed"
    <3>1. /\ UNCHANGED <<kind, wire, closed, pos, buf, st, out>>
          /\ phase' \in {"flowing", "cut"} /\ (phase' = "cut" => pos = Size)
      BY <1>4, <2>1 DEF StreamsInv, stream_vars
    <3> QED BY <1>2, <2>1, <3>1
  <2>2. CASE phase = "flushed"
    <3>1. PICK m \in 0 .. Len(wire) : Ends(m) /\ st = After(m) /\ out = Translated(m) \o Closing
      BY <2>2 DEF StreamsInv
    <3>2. PICK o : o = Translated(m) \o Closing OBVIOUS
    <3>3. Wired /\ buf = << >> /\ pos = Size BY <2>2 DEF StreamsInv
    <3>4. /\ UNCHANGED <<kind, wire, closed>> /\ pos' = Size /\ phase' = "flushed"
          /\ buf' = << >> /\ st' = After(m) /\ out' = o
      BY <1>4, <2>2, <3>1, <3>2, <3>3 DEF stream_vars
    <3> QED BY <3>1, <3>2, <3>3, <3>4, KeptFlushed
  <2> QED BY <2>1, <2>2
<1> QED BY <1>1, <1>3, <1>4 DEF StreamNext

LEMMA StreamsInvariant == StreamSpec => []StreamsInv
<1>1. StreamsInv /\ [StreamNext]_stream_vars => StreamsInv' BY StreamsInvNext
<1> QED BY <1>1, StreamsInvInit, PTL DEF StreamSpec

----------------------------------------------------------------------------
(* What the invariant says to a client.                                    *)

\* What the client has been sent is what some number of events gives, with
\* what closes the stream of Gemini's translator.
LEMMA OutIs ==
  ASSUME StreamsInv
  PROVE  \E m \in 0 .. Len(wire) :
           /\ st = After(m)
           /\ \/ phase # "flushed" /\ m = pos \div 5 /\ out = Translated(m)
              \/ phase = "flushed" /\ Ends(m) /\ out = Translated(m) \o Closing
<1>1. CASE phase # "flushed"
  <2>1. PICK q \in Nat : Caught(Now, out, pos, q, pos \div 5) BY <1>1 DEF StreamsInv
  <2>2. PICK m : m = pos \div 5 OBVIOUS
  <2>3. /\ m \in 0 .. Len(wire) /\ Now.st = After(m) /\ out \o Now.items = Translated(m)
    BY <2>1, <2>2 DEF Caught
  <2>4. Now.st = st /\ Now.items = << >> BY DEF Now
  <2>5. PICK T : T = Words OBVIOUS
  <2>6. out \in Seq(T) BY <2>5 DEF StreamsInv
  <2>7. out \o << >> = out BY <2>6, ConcatEmptySeq
  <2> QED BY <1>1, <2>2, <2>3, <2>4, <2>7
<1>2. CASE phase = "flushed" BY <1>2 DEF StreamsInv
<1> QED BY <1>1, <1>2

\* Where the pieces are cut decides nothing (gateway.rs, the call of the
\* translator on every piece): the client has the translation of the events
\* that have arrived whole.
THEOREM ChunkingIsIrrelevant == StreamSpec => []ChunkingIrrelevant
<1>1. ASSUME StreamsInv PROVE ChunkingIrrelevant
  <2> SUFFICES ASSUME ~AfterComment
               PROVE  /\ phase = "flowing" => out = Translated(Arrived)
                      /\ phase = "flushed" => out = Translated(Len(wire)) \o Closing
                      /\ phase = "cut" =>
                           out = Translated(IF closed THEN Len(wire) ELSE Len(wire) - 1)
    BY <1>1 DEF ChunkingIrrelevant, Closing, StreamsInv
  <2>1. PICK m \in 0 .. Len(wire) :
          /\ st = After(m)
          /\ \/ phase # "flushed" /\ m = pos \div 5 /\ out = Translated(m)
             \/ phase = "flushed" /\ Ends(m) /\ out = Translated(m) \o Closing
    BY <1>1, OutIs
  <2>2. CASE phase = "flowing" BY <2>1, <2>2 DEF Arrived
  <2>3. CASE phase = "flushed" BY <2>1, <2>3 DEF Ends
  <2>4. CASE phase = "cut"
    <3>1. pos = Size /\ Len(wire) \in Nat \ {0} /\ closed \in BOOLEAN
      BY <1>1, <2>4, WireFacts DEF StreamsInv, Wired
    <3>2. PICK n : n = Len(wire) OBVIOUS
    <3>3. (5 * n) \div 5 = n /\ (5 * n - 2) \div 5 = n - 1 BY <3>1, <3>2
    <3>4. Size \div 5 = IF closed THEN n ELSE n - 1
      <4>1. CASE closed
        <5>1. Size = 5 * n BY <3>1, <3>2, <4>1 DEF Size
        <5> QED BY <3>3, <4>1, <5>1
      <4>2. CASE ~closed
        <5>1. Size = 5 * n - 2 BY <3>2, <4>2 DEF Size
        <5> QED BY <3>3, <4>2, <5>1
      <4> QED BY <4>1, <4>2
    <3> QED BY <2>1, <2>4, <3>1, <3>2, <3>4
  <2> QED BY <1>1, <2>2, <2>3, <2>4 DEF StreamsInv
<1> QED BY <1>1, StreamsInvariant, PTL

\* With what closes it, what is told still comes in its order.
LEMMA OutTold ==
  ASSUME StreamsInv
  PROVE  \A i \in 1 .. Len(out) :
           /\ out[i] = Role => \A j \in 1 .. i - 1 : out[j] # Role /\ out[j] \notin Texts
           /\ out[i] = Done => i = Len(out)
<1>1. Wired BY DEF StreamsInv
<1>2. PICK m \in 0 .. Len(wire) :
        \/ out = Translated(m)
        \/ out = Translated(m) \o Closing
  BY OutIs
<1>3. PICK t : t = Translated(m) OBVIOUS
<1>4. t \in Seq(Words) /\ Len(t) \in Nat
  <2>1. t \in Seq(Words) BY <1>1, <1>3, WordsFacts
  <2> QED BY <2>1
<1>5. \A i \in 1 .. Len(t) :
        /\ t[i] = Role => \A j \in 1 .. i - 1 : t[j] # Role /\ t[j] \notin Texts
        /\ t[i] = Done => i = Len(t) /\ kind # "gemini"
  BY <1>1, <1>3, TranslationTold DEF Told
<1>6. CASE out = t \/ kind # "gemini"
  <2>1. t \o << >> = t BY <1>4, ConcatEmptySeq
  <2>2. out = t BY <1>2, <1>3, <1>6, <2>1 DEF Closing
  <2> QED BY <1>5, <2>2
<1>7. CASE kind = "gemini" /\ out = t \o <<Done>>
  <2>1. PICK T : T = Words OBVIOUS
  <2>2. t \in Seq(T) /\ Done \in T BY <1>4, <2>1 DEF Words
  <2>3. /\ Len(out) = Len(t) + 1 /\ out[Len(t) + 1] = Done
        /\ \A i \in 1 .. Len(t) : out[i] = t[i]
    BY <1>7, <2>2
  <2>4. Done # Role BY DEF Done, Role, Item
  <2>5. ASSUME NEW i \in 1 .. Len(out)
        PROVE  /\ out[i] = Role => \A j \in 1 .. i - 1 : out[j] # Role /\ out[j] \notin Texts
               /\ out[i] = Done => i = Len(out)
    <3>1. CASE i = Len(t) + 1 BY <2>3, <2>4, <3>1
    <3>2. CASE i \in 1 .. Len(t)
      <4>1. \A j \in 1 .. i - 1 : j \in 1 .. Len(t) /\ out[j] = t[j] BY <1>4, <2>3, <3>2
      <4> QED BY <1>5, <1>7, <2>3, <3>2, <4>1
    <3> QED BY <1>4, <2>3, <3>1, <3>2
  <2> QED BY <2>5
<1> QED BY <1>2, <1>3, <1>6, <1>7 DEF Closing

\* The client is told the role once at most, before any text, and nothing
\* after [DONE].
THEOREM RoleComesThenDone == StreamSpec => []RoleThenDone
<1>1. ASSUME StreamsInv PROVE RoleThenDone
  <2>1. \A i \in 1 .. Len(out) :
          /\ out[i] = Role => \A j \in 1 .. i - 1 : out[j] # Role /\ out[j] \notin Texts
          /\ out[i] = Done => i = Len(out)
    BY <1>1, OutTold
  <2>2. DOMAIN wire = 1 .. Len(wire) BY <1>1, WireFacts DEF StreamsInv
  <2>3. out \in Seq(Words) /\ DOMAIN out = 1 .. Len(out) /\ Len(out) \in Nat
    <3>1. out \in Seq(Words) BY <1>1 DEF StreamsInv
    <3> QED BY <3>1
  <2>4. \A i \in Occurs(Role), j \in Occurs(Role) : i = j
    <3> SUFFICES ASSUME NEW i \in Occurs(Role), NEW j \in Occurs(Role), i < j PROVE FALSE
      BY <2>3 DEF Occurs
    <3>1. /\ i \in 1 .. Len(out) /\ j \in 1 .. Len(out) /\ out[i] = Role /\ out[j] = Role
          /\ i \in 1 .. j - 1
      BY <2>3 DEF Occurs
    <3> QED BY <2>1, <3>1
  <2>5. Cardinality(Occurs(Role)) <= 1
    <3>1. CASE Occurs(Role) = {} BY <3>1, FS_EmptySet
    <3>2. CASE Occurs(Role) # {}
      <4>1. PICK i : Occurs(Role) = {i} BY <2>4, <3>2
      <4>2. Cardinality({i}) = 1 BY FS_Singleton
      <4> QED BY <4>1, <4>2
    <3> QED BY <3>1, <3>2
  <2>6. \A i \in Occurs(Role), j \in DOMAIN out : j < i => out[j] \notin {"text"} \X (DOMAIN wire)
    <3> SUFFICES ASSUME NEW i \in Occurs(Role), NEW j \in DOMAIN out, j < i
                 PROVE  out[j] \notin {"text"} \X (DOMAIN wire)
      OBVIOUS
    <3>1. i \in 1 .. Len(out) /\ out[i] = Role /\ j \in 1 .. i - 1 BY <2>3 DEF Occurs
    <3>2. out[j] \notin Texts BY <2>1, <3>1
    <3> QED BY <2>2, <3>2 DEF Texts
  <2>7. \A i \in Occurs(Done) : i = Len(out) BY <2>1, <2>3 DEF Occurs
  <2> QED BY <2>5, <2>6, <2>7 DEF RoleThenDone
<1> QED BY <1>1, StreamsInvariant, PTL

\* Between two calls the buffer holds no complete event, but for comments
\* before the data that Gemini's translator waits for.
LEMMA NothingComplete ==
  ASSUME Wired, NEW a, NEW base, NEW p \in Nat, p <= Size, NEW q,
         Caught(a, base, p, q, p \div 5), NEW i \in Boundaries(a.buf)
  PROVE  kind = "gemini" /\ i > 1 /\ wire[a.buf[i - 1][1]].data = "none"
<1> DEFINE m == p \div 5
<1>1. /\ q \in Nat /\ q <= p /\ Window(a.buf, q, p) /\ Clean(q, m) /\ Len(wire) \in Nat
  BY WireFacts DEF Caught
<1>2. i \in 1 .. p - q - 1 /\ (q + i) % 5 = 4 BY <1>1, BoundaryAt
<1>3. PICK x : x = q + i OBVIOUS
<1>4. x \in Nat /\ x % 5 = 4 /\ x + 1 <= p /\ x > q BY <1>1, <1>2, <1>3
<1>5. PICK e : e = (x \div 5) + 1 OBVIOUS
<1>6. e \in Nat \ {0} /\ x = 5 * e - 1 BY <1>4, <1>5
<1>7. p <= 5 * Len(wire) /\ Size \in Nat
  <2>1. Size \in Nat BY BytesFacts
  <2> QED BY <1>1, <2>1 DEF Size
<1>8. e \in 1 .. Len(wire) BY <1>1, <1>4, <1>6, <1>7
<1>9. m \in Nat /\ 5 * m <= p /\ p < 5 * m + 5 /\ e <= m BY <1>4, <1>6
<1> HIDE DEF m
<1>10. kind = "gemini"
  <2> SUFFICES ASSUME kind # "gemini" PROVE FALSE OBVIOUS
  <2>1. q = 5 * m BY <1>1 DEF Clean
  <2> QED BY <1>4, <1>6, <1>9, <2>1
<1>11. q % 5 \in {0, 4} /\ (Speaks(e) => 5 * e <= q)
  BY <1>1, <1>8, <1>9, <1>10 DEF Clean
<1>12. ~Speaks(e) BY <1>1, <1>4, <1>6, <1>11
<1>13. i > 1
  <2> SUFFICES ASSUME i = 1 PROVE FALSE BY <1>2
  <2>1. q = 5 * (e - 1) + 3 BY <1>1, <1>3, <1>6
  <2>2. (5 * (e - 1) + 3) % 5 = 3 BY <1>6
  <2> QED BY <1>11, <2>1, <2>2
<1>14. a.buf[i - 1] = <<e, 3>>
  <2>1. i - 1 \in 1 .. p - q /\ q + (i - 1) = 5 * (e - 1) + 3
    BY <1>1, <1>2, <1>3, <1>6, <1>13
  <2>2. a.buf[i - 1] = ByteAt(5 * (e - 1) + 3) BY <1>1, <2>1 DEF Window
  <2> QED BY <1>6, <2>2, PieceAt
<1> QED BY <1>10, <1>12, <1>13, <1>14 DEF Speaks

LEMMA BytesOf ==
  ASSUME Wired, NEW x \in 1 .. Size
  PROVE  ByteAt(x) \in {NL} \cup ((DOMAIN wire) \X (1 .. 3))
<1>1. /\ DOMAIN wire = 1 .. Len(wire) /\ Len(wire) \in Nat /\ Size \in Nat /\ x \in Nat \ {0}
      /\ x <= Size /\ closed \in BOOLEAN
  BY WireFacts, BytesFacts DEF Wired
<1>2. x <= 5 * Len(wire) BY <1>1 DEF Size
<1>3. CASE (x - 1) % 5 < 3
  <2>1. PICK d, r : d = ((x - 1) \div 5) + 1 /\ r = ((x - 1) % 5) + 1 OBVIOUS
  <2>2. r \in 1 .. 3 BY <1>1, <1>3, <2>1
  <2>3. d \in 1 .. Len(wire) BY <1>1, <1>2, <2>1
  <2>4. ByteAt(x) = <<d, r>> BY <1>3, <2>1 DEF ByteAt, Byte
  <2> QED BY <1>1, <2>2, <2>3, <2>4
<1>4. CASE ~((x - 1) % 5 < 3) BY <1>4 DEF ByteAt
<1> QED BY <1>3, <1>4

\* The translators' state, the buffer and what the client is sent have their
\* types, and no complete event is left in the buffer.
THEOREM StreamsTypeCorrect == StreamSpec => []StreamTypeOK
<1>1. ASSUME StreamsInv PROVE StreamTypeOK
  <2>1. /\ Wired /\ pos \in 0 .. Size /\ phase \in {"flowing", "flushed", "cut"}
        /\ Len(Bytes) = Size /\ Size \in Nat /\ DOMAIN wire = 1 .. Len(wire)
    BY <1>1, BytesFacts, WireFacts DEF StreamsInv
  <2>2. PICK m \in 0 .. Len(wire) :
          /\ st = After(m)
          /\ out = Translated(m) \/ out = Translated(m) \o Closing
    BY <1>1, OutIs
  <2>3. st \in Translator /\ Translated(m) \in Seq(Sayable(st.calls))
    BY <2>1, <2>2, TranslationFacts DEF Spoken
  <2>4. st.role \in BOOLEAN /\ st.calls \in Nat BY <2>3 DEF Translator
  <2>5. \A i \in DOMAIN out : out[i] \in Items
    <3>1. PICK T, t : T = Sayable(st.calls) /\ t = Translated(m) OBVIOUS
    <3>2. t \in Seq(T) /\ Done \in T BY <2>3, <3>1 DEF Sayable
    <3>3. << >> \in Seq(T) /\ <<Done>> \in Seq(T) BY <3>2, EmptySeq
    <3>4. t \o << >> \in Seq(T) /\ t \o <<Done>> \in Seq(T) BY <3>2, <3>3
    <3>5. out \in Seq(T) BY <2>2, <3>1, <3>2, <3>4 DEF Closing
    <3>6. \A i \in DOMAIN out : out[i] \in T BY <3>5
    <3>7. T = Items BY <2>1, <3>1 DEF Sayable, Items
    <3> QED BY <3>6, <3>7
  <2>6. /\ \A i \in Boundaries(buf) :
             kind = "gemini" /\ i > 1 /\ wire[buf[i - 1][1]].data = "none"
        /\ \A i \in DOMAIN buf : buf[i] \in {NL} \cup ((DOMAIN wire) \X (1 .. 3))
    <3>1. CASE phase = "flushed"
      <4>1. buf = << >> BY <1>1, <3>1 DEF StreamsInv
      <4>2. Len(buf) = 0 /\ DOMAIN buf = {} BY <4>1
      <4> QED BY <4>2 DEF Boundaries
    <3>2. CASE phase # "flushed"
      <4>1. PICK q \in Nat : Caught(Now, out, pos, q, pos \div 5)
        BY <1>1, <3>2 DEF StreamsInv
      <4>2. Now.buf = buf BY DEF Now
      <4>3. q <= pos /\ Window(buf, q, pos) BY <4>1, <4>2 DEF Caught
      <4>4. ASSUME NEW i \in Boundaries(buf)
            PROVE  kind = "gemini" /\ i > 1 /\ wire[buf[i - 1][1]].data = "none"
        <5>1. PICK a, p, base : a = Now /\ p = pos /\ base = out OBVIOUS
        <5>2. /\ p \in Nat /\ p <= Size /\ Caught(a, base, p, q, p \div 5)
              /\ a.buf = buf /\ i \in Boundaries(a.buf)
          BY <2>1, <4>1, <4>2, <4>4, <5>1
        <5>3. kind = "gemini" /\ i > 1 /\ wire[a.buf[i - 1][1]].data = "none"
          BY <2>1, <5>2, NothingComplete
        <5> QED BY <5>2, <5>3
      <4>5. ASSUME NEW i \in DOMAIN buf
            PROVE  buf[i] \in {NL} \cup ((DOMAIN wire) \X (1 .. 3))
        <5>1. i \in 1 .. pos - q /\ buf[i] = ByteAt(q + i)
          <6>1. DOMAIN buf = 1 .. pos - q BY <2>1, <4>3 DEF Window
          <6> QED BY <4>3, <4>5, <6>1 DEF Window
        <5>2. PICK x : x = q + i OBVIOUS
        <5>3. x \in 1 .. Size BY <2>1, <4>3, <5>1, <5>2
        <5> QED BY <2>1, <5>1, <5>2, <5>3, BytesOf
      <4> QED BY <4>4, <4>5
    <3> QED BY <3>1, <3>2
  <2> QED BY <2>1, <2>4, <2>5, <2>6 DEF StreamTypeOK, Wired
<1> QED BY <1>1, StreamsInvariant, PTL
=============================================================================
