--------------------------- MODULE ConfigWatcher ---------------------------
(***************************************************************************)
(* The thread of start_config_watcher (maxllm-gateway/src/main.rs) and the *)
(* editors of the file it watches.  Its swap is the action Reload of       *)
(* Gateway; this module is about which contents it swaps in, and when.     *)
(*                                                                         *)
(* An editor replaces the file in one step (a rename) or writes it in      *)
(* place, in which case it holds what has been written so far, and that    *)
(* may be a configuration of its own.  Each change queues one or two       *)
(* notify events, once the directory is watched: the file has been read    *)
(* before that.  Events about other files are dropped by the thread and    *)
(* left out.                                                               *)
(***************************************************************************)
EXTENDS Naturals

CONSTANTS
  Contents,      \* what the file may hold
  Parsable,      \* the contents Config::from_file accepts
  Accepted,      \* those build_hot_state accepts too
  Partials,      \* what a half-written file may hold
  Initial,       \* the contents the gateway started with
  EditorKinds,   \* the values careful may have
  MaxWrites      \* bound: how often the file is edited

ASSUME ContentsAssumption ==
  /\ Accepted \subseteq Parsable /\ Parsable \subseteq Contents
  /\ Partials \subseteq Contents /\ Initial \in Accepted
ASSUME WatcherBounds == EditorKinds \subseteq BOOLEAN /\ MaxWrites \in Nat

VARIABLES
  careful,       \* TRUE: editors replace the file, and never do so within a
                 \* second of a reload; FALSE: they do what they like
  file,          \* what the file holds
  target,        \* what it will hold when the write in progress ends
  writes,        \* edits so far
  early,         \* history: the last change of the file went before the watch
  events,        \* relevant events in the channel
  recent,        \* last_reload.elapsed() < 1 s
  pc,            \* what the thread does next
  read,          \* new_config
  hot            \* the contents the HotState was built from

editors == <<careful, file, target, writes, early>>
vars    == <<editors, events, recent, pc, read, hot>>

TypeOK ==
  /\ careful \in EditorKinds
  /\ file \in Contents /\ target \in Contents
  /\ writes \in 0 .. MaxWrites
  /\ early \in BOOLEAN
  /\ events \in Nat
  /\ recent \in BOOLEAN
  /\ pc \in {"start", "receive", "parse", "build"}
  /\ read \in Contents
  /\ hot \in Accepted

\* Config::from_file has been called; the thread is still to be spawned.
Init ==
  /\ careful \in EditorKinds
  /\ file = Initial /\ target = Initial /\ writes = 0
  /\ early = FALSE
  /\ events = 0
  /\ recent = FALSE
  /\ pc = "start"
  /\ read = Initial
  /\ hot = Initial

Writing == file # target

Watching == pc # "start"

Notify ==
  /\ early' = ~Watching
  /\ IF Watching THEN \E n \in 1 .. 2 : events' = events + n ELSE UNCHANGED events

Edit ==
  /\ ~Writing
  /\ writes < MaxWrites
  /\ writes' = writes + 1
  /\ Notify
  /\ UNCHANGED <<careful, recent, pc, read, hot>>

\* The file is replaced by a rename.
Replace ==
  /\ Edit
  /\ careful => ~recent
  /\ \E c \in Contents : file' = c /\ target' = c

\* The file is truncated, then written.
BeginWrite ==
  /\ Edit
  /\ ~careful
  /\ \E c \in Contents : \E part \in Partials \ {c} : target' = c /\ file' = part

EndWrite ==
  /\ Writing
  /\ file' = target
  /\ Notify
  /\ UNCHANGED <<careful, target, writes, recent, pc, read, hot>>

\* watcher.watch: what happened to the file before is not told.
Watch ==
  /\ pc = "start"
  /\ pc' = "receive"
  /\ UNCHANGED <<editors, events, recent, read, hot>>

\* for event in rx: an event within a second of last_reload is dropped;
\* otherwise last_reload is set before anything is known of the file.
Receive ==
  /\ pc = "receive"
  /\ events > 0
  /\ events' = events - 1
  /\ IF recent THEN UNCHANGED <<recent, pc>>
               ELSE recent' = TRUE /\ pc' = "parse"
  /\ UNCHANGED <<editors, read, hot>>

\* Mutant of Parse: the contents the last reload read are used again.
ParseStale ==
  /\ pc = "parse"
  /\ pc' = IF read \in Parsable THEN "build" ELSE "receive"
  /\ UNCHANGED <<editors, events, recent, read, hot>>

\* Config::from_file reads the file as it is now; an error keeps the current
\* state.
Parse ==
  /\ pc = "parse"
  /\ read' = file
  /\ pc' = IF file \in Parsable THEN "build" ELSE "receive"
  /\ UNCHANGED <<editors, events, recent, hot>>

\* Mutant of Build: a state that could not be built is swapped in anyway.
BuildAny ==
  /\ pc = "build"
  /\ hot' = read
  /\ pc' = "receive"
  /\ UNCHANGED <<editors, events, recent, read>>

\* build_hot_state, then hot.store; an error keeps the current state.
Build ==
  /\ pc = "build"
  /\ hot' = IF read \in Accepted THEN read ELSE hot
  /\ pc' = "receive"
  /\ UNCHANGED <<editors, events, recent, read>>

SecondPasses ==
  /\ recent
  /\ recent' = FALSE
  /\ UNCHANGED <<editors, events, pc, read, hot>>

Quiet == pc = "receive" /\ events = 0 /\ ~Writing

Idle == Quiet /\ ~recent /\ UNCHANGED vars

Thread == Watch \/ Receive \/ Parse \/ Build

Next ==
  \/ Replace \/ BeginWrite \/ EndWrite
  \/ Thread
  \/ SecondPasses
  \/ Idle

Spec == Init /\ [][Next]_vars

\* The thread runs, time passes, and a write that began ends.
FairSpec == Spec /\ WF_vars(Thread) /\ WF_vars(SecondPasses) /\ WF_vars(EndWrite)

----------------------------------------------------------------------------
\* Once the channel is empty and the thread waits, the gateway serves what the
\* file holds, if the file can be served: careful editors lose no edit but one
\* made between the first reading of the file and the watch
\* (main.rs:54 and 128), until the next.
NothingMissed == (careful /\ Quiet /\ ~early /\ file \in Accepted) => hot = file

\* Whatever the editors did before, one event the thread takes outside the
\* window is enough: if the file then keeps contents that can be served, they
\* are served in the end (the reload reads the file, not the event).
FreshEventIsEnough ==
  \A c \in Accepted :
    [](pc = "receive" /\ events > 0 /\ ~recent /\ [](file = c)
         => <>[](hot = c))

\* start_config_watcher "watches the config file for changes and hot-reloads
\* the gateway state": with careful editors, contents that stay in the file
\* are served in the end, if they came while the watcher watched.  With others
\* they may never be: an edit whose events all fall within a second of the
\* reload before it is lost.
LastEditServed ==
  \A c \in Accepted : <>[](careful /\ ~early /\ file = c) => <>[](hot = c)
=============================================================================
