------------------------------ MODULE Launcher ------------------------------
(***************************************************************************)
(* The commands start, stop and status of the maxllm CLI                   *)
(* (maxllm-cli/src/commands) and the gateway process they manage through   *)
(* the file ~/.maxllm/maxllm.pid.  A command is a sequence of system calls *)
(* and runs beside other commands, beside the gateway, which may exit at   *)
(* any time, and beside the kernel, which gives a free pid to any process. *)
(* With --daemon the process that start spawned forks and exits (Pingora's *)
(* daemonize): the gateway then runs under a pid that start never saw.     *)
(***************************************************************************)
EXTENDS Naturals, Sequences, FiniteSets

CONSTANTS
    Pids,        \* the process ids of the machine
    None,        \* no pid file
    Empty,       \* a pid file without a number
    MaxCommands  \* bound: commands run in a behaviour

ASSUME LauncherAssumption ==
    {None, Empty} \cap Pids = {} /\ None # Empty /\ MaxCommands \in Nat

VARIABLES
    pid_file,    \* the pid the file holds, or Empty, or None
    proc,        \* what runs under each pid
    commands,    \* every command run, in the order they began
    orderly      \* history: the user has been a careful one, see Orderly

launcher_vars == <<pid_file, proc, commands, orderly>>

\* "booting" ("forking" with --daemon) and "server" are maxllm-server before
\* and after it listens, "draining" after SIGTERM or SIGINT; "zombie" has exited and is not yet
\* waited for; "named" is any other process with maxllm in its command line,
\* "foreign" one of another user.
Gateways == {"booting", "forking", "server", "draining"}
Strangers == {"named", "other", "foreign"}

Free == {p \in Pids : proc[p] = "free"}
Serving == {p \in Pids : proc[p] = "server"}
Live == {i \in DOMAIN commands : commands[i].at # "done"}

\* An orderly user runs one command at a time, never with --daemon, and starts a
\* gateway only when none runs.  A foreground start that waits is not in the way.
Orderly(kind, daemon) ==
    /\ \A i \in Live : commands[i].at = "wait"
    /\ kind = "start" => ~ daemon /\ Live = {} /\ \A p \in Pids : proc[p] \notin Gateways

LauncherInit ==
    /\ pid_file = None
    /\ proc \in [Pids -> {"free", "other"}]
    /\ commands = << >>
    /\ orderly = TRUE

\* start returns at once when the configuration is missing or invalid; then
\* it changes nothing.  Otherwise it spawns the server.
Begin(kind, daemon) ==
    /\ Len(commands) < MaxCommands
    /\ orderly' = (orderly /\ Orderly(kind, daemon))
    /\ commands' = Append(commands,
         [kind |-> kind, daemon |-> daemon, at |-> IF kind = "start" THEN "spawn" ELSE "read",
          pid |-> None, answer |-> None, up |-> FALSE])
    /\ UNCHANGED <<pid_file, proc>>

At(i, step) == commands[i].at = step
Move(i, step) == [commands[i] EXCEPT !.at = step]
\* The command decides on its answer; up: a gateway was listening then.
Say(i, step, answer) ==
    [Move(i, step) EXCEPT !.answer = answer, !.up = Serving # {}, !.pid = None]

Spawn(i) ==
    /\ At(i, "spawn")
    /\ \E p \in Free :
        /\ proc' = [proc EXCEPT ![p] = IF commands[i].daemon THEN "forking" ELSE "booting"]
        /\ commands' = [commands EXCEPT ![i] = [Move(i, "write") EXCEPT !.pid = p]]
    /\ UNCHANGED <<pid_file, orderly>>

SpawnFails(i) ==
    /\ At(i, "spawn")
    /\ commands' = [commands EXCEPT ![i] = Say(i, "done", "failed")]
    /\ UNCHANGED <<pid_file, proc, orderly>>

\* fs::write empties the file and then fills it.  A file that cannot be
\* written is a warning only.
Written(i) ==
    IF commands[i].daemon THEN Say(i, "done", "started") ELSE Move(i, "wait")

Empties(i) ==
    /\ At(i, "write")
    /\ \/ /\ pid_file' = Empty /\ orderly' = orderly
          /\ commands' = [commands EXCEPT ![i] = Move(i, "fill")]
       \/ /\ pid_file' = pid_file /\ orderly' = FALSE
          /\ commands' = [commands EXCEPT ![i] = Written(i)]
    /\ UNCHANGED proc

Write(i) ==
    /\ At(i, "fill")
    /\ \/ pid_file' = commands[i].pid /\ orderly' = orderly
       \/ pid_file' = pid_file /\ orderly' = FALSE
    /\ commands' = [commands EXCEPT ![i] = Written(i)]
    /\ UNCHANGED proc

\* The foreground start reaps the server, and removes the file afterwards.
Wait(i) ==
    /\ At(i, "wait") /\ proc[commands[i].pid] = "zombie"
    /\ proc' = [proc EXCEPT ![commands[i].pid] = "free"]
    /\ commands' = [commands EXCEPT ![i] = [Move(i, "remove") EXCEPT !.pid = None]]
    /\ UNCHANGED <<pid_file, orderly>>

RemovePid(i) ==
    /\ At(i, "remove")
    /\ pid_file' = None
    /\ commands' = [commands EXCEPT ![i].at = "done", ![i].pid = None]
    /\ UNCHANGED <<proc, orderly>>

\* stop and status read the file; one without a number is left as it is.
Read(i) ==
    /\ At(i, "read")
    /\ commands' = [commands EXCEPT ![i] =
         CASE pid_file = None  -> Say(i, "done", "not running")
           [] pid_file = Empty -> Say(i, "done", "unknown")
           [] OTHER            -> [Move(i, "probe") EXCEPT !.pid = pid_file]]
    /\ UNCHANGED <<pid_file, proc, orderly>>

\* kill(pid, 0): a zombie still answers; any error is taken for an absent
\* process, EPERM for that of another user too.
Alive(p) == proc[p] \notin {"free", "foreign"}

\* Mutant: status takes the file of a running gateway away.
ReportAndRemove(i) == Say(i, "remove", "running")

\* status leaves the file of a live process.
Report(i) == Say(i, "done", "running")

Probe(i) ==
    /\ At(i, "probe")
    /\ commands' = [commands EXCEPT ![i] =
         IF ~ Alive(commands[i].pid) THEN Say(i, "remove", "not running")
         ELSE IF commands[i].kind = "status" THEN Report(i) ELSE Move(i, "check")]
    /\ UNCHANGED <<pid_file, proc, orderly>>

is_maxllm_process(p) == proc[p] \in Gateways \cup {"named"}

Check(i) ==
    /\ At(i, "check")
    /\ commands' = [commands EXCEPT ![i] =
         IF is_maxllm_process(commands[i].pid) THEN Move(i, "kill")
                                               ELSE Say(i, "remove", "not running")]
    /\ UNCHANGED <<pid_file, proc, orderly>>

\* A child that its start still waits for stays as a zombie.
Waited(p) == \E i \in Live : commands[i].kind = "start" /\ commands[i].pid = p
Gone(p) == IF Waited(p) THEN "zombie" ELSE "free"

\* SIGTERM starts a graceful shutdown of a gateway that listens and ends
\* every other process; whatever kill answers, stop then removes the file.
Kill(i) ==
    /\ At(i, "kill")
    /\ LET p == commands[i].pid IN
        /\ proc' = [proc EXCEPT ![p] = CASE @ \in {"server", "draining"} -> "draining"
                                        [] @ \in {"free", "zombie", "foreign"} -> @
                                        [] OTHER -> Gone(p)]
        /\ commands' = [commands EXCEPT ![i] =
             Say(i, "remove", IF Alive(p) THEN "stopped" ELSE "failed")]
    /\ UNCHANGED <<pid_file, orderly>>

\* The server listens.  As a daemon it does so under another pid.
Listen(p) ==
    /\ Serving = {}
    /\ \/ proc[p] = "booting" /\ proc' = [proc EXCEPT ![p] = "server"]
       \/ /\ proc[p] = "forking"
          /\ \E q \in Free : proc' = [proc EXCEPT ![p] = Gone(p), ![q] = "server"]
    /\ UNCHANGED <<pid_file, commands, orderly>>

\* It exits: after its shutdown, on an error, or as the address is in use.
Exit(p) ==
    /\ proc[p] \in Gateways
    /\ proc' = [proc EXCEPT ![p] = Gone(p)]
    /\ UNCHANGED <<pid_file, commands, orderly>>

\* Ctrl-C in the terminal of a foreground start reaches both processes: the
\* CLI ends without removing the file.
Interrupt(i) ==
    /\ At(i, "wait")
    /\ proc' = [proc EXCEPT ![commands[i].pid] = CASE @ = "zombie" -> "free"
                                                  [] @ = "booting" -> "free"
                                                  [] OTHER -> "draining"]
    /\ commands' = [commands EXCEPT ![i].at = "done", ![i].pid = None]
    /\ UNCHANGED <<pid_file, orderly>>

\* Other processes come and go, and take pids that were used before.
Others(p) ==
    /\ \/ proc[p] = "free" /\ \E what \in Strangers : proc' = [proc EXCEPT ![p] = what]
       \/ proc[p] \in Strangers /\ proc' = [proc EXCEPT ![p] = "free"]
    /\ UNCHANGED <<pid_file, commands, orderly>>

LauncherNext ==
    \/ \E kind \in {"start", "stop", "status"}, daemon \in BOOLEAN :
          (daemon => kind = "start") /\ Begin(kind, daemon)
    \/ \E i \in DOMAIN commands :
          \/ Spawn(i) \/ SpawnFails(i) \/ Empties(i) \/ Write(i) \/ Wait(i) \/ RemovePid(i)
          \/ Read(i) \/ Probe(i) \/ Check(i) \/ Kill(i) \/ Interrupt(i)
    \/ \E p \in Pids : Listen(p) \/ Exit(p) \/ Others(p)

LauncherSpec == LauncherInit /\ [][LauncherNext]_launcher_vars
-----------------------------------------------------------------------------
\* To an orderly user, "not running" is true when it is decided: at that moment
\* no gateway listens, however the last one has ended (alone, by stop, by Ctrl-C
\* with a stale file left behind) and whoever got the freed pids.  Before, while
\* the command was reading the file, one may have listened.
NotRunningIsTrue ==
    orderly => \A i \in DOMAIN commands : commands[i].answer = "not running" => ~ commands[i].up
=============================================================================
