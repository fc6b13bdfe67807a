------------------------------- MODULE Breaker -------------------------------
(***************************************************************************)
(* One CircuitBreaker (circuit_breaker.rs) called by several threads of    *)
(* the gateway.  Its two fields are separate relaxed atomics, so a call is *)
(* a set of single accesses: is_open loads the count and the time stamp    *)
(* and reads the wall clock, record_failure adds to the count and stores   *)
(* the time it read, and accesses to different fields may take effect in   *)
(* either order.  Each field is coherent, so an access is one step.  The   *)
(* wall clock may be stepped back by the operating system.                 *)
(***************************************************************************)
EXTENDS Naturals, Sequences, FiniteSets

CONSTANTS
    MaxFails,    \* CircuitBreaker.max_fails
    FailTimeout, \* CircuitBreaker.fail_timeout_ms, in ticks of the model
    Threads,     \* how many calls may be in progress at once
    MaxCalls,    \* bound: calls made in a behaviour
    Clocks       \* bound: the values the wall clock takes

ASSUME BreakerAssumption ==
    /\ MaxFails \in Nat
    /\ FailTimeout \in Nat
    /\ Threads \in Nat \ {0}
    /\ MaxCalls \in Nat
    /\ Clocks \subseteq {t \in Nat : t >= FailTimeout}

VARIABLES failures, last_failure_at, clock,
          calls, \* every call made, in the order they began
          time   \* how many calls began or returned

vars == <<failures, last_failure_at, clock, calls, time>>

Operations == {"is_open", "record_failure", "record_success"}

\* What a call has done so far, what it read, and when it ran.
Fresh(op) == [op |-> op, did |-> {}, count |-> 0, stamp |-> 0, now |-> 0,
              from |-> time, to |-> 0, open |-> FALSE]

Running == {i \in DOMAIN calls : calls[i].to = 0}

Init ==
    /\ failures = 0
    /\ last_failure_at = 0
    /\ clock \in Clocks
    /\ calls = << >>
    /\ time = 1

Begin(op) ==
    /\ Len(calls) < MaxCalls
    /\ Cardinality(Running) < Threads
    /\ calls' = Append(calls, Fresh(op))
    /\ time' = time + 1
    /\ UNCHANGED <<failures, last_failure_at, clock>>

Pending(i, op, step) == calls[i].op = op /\ step \notin calls[i].did

Did(i, step) == [calls[i] EXCEPT !.did = @ \cup {step}]

LoadCount(i) ==
    /\ Pending(i, "is_open", "count")
    /\ calls' = [calls EXCEPT ![i] = [Did(i, "count") EXCEPT !.count = failures]]
    /\ UNCHANGED <<failures, last_failure_at, clock, time>>

LoadStamp(i) ==
    /\ Pending(i, "is_open", "stamp")
    /\ calls' = [calls EXCEPT ![i] = [Did(i, "stamp") EXCEPT !.stamp = last_failure_at]]
    /\ UNCHANGED <<failures, last_failure_at, clock, time>>

now_ms(i) ==
    /\ Pending(i, "record_failure", "now")
    /\ calls' = [calls EXCEPT ![i] = [Did(i, "now") EXCEPT !.now = clock]]
    /\ UNCHANGED <<failures, last_failure_at, clock, time>>

CountFailure(i) ==
    /\ Pending(i, "record_failure", "count")
    /\ failures' = failures + 1
    /\ calls' = [calls EXCEPT ![i] = Did(i, "count")]
    /\ UNCHANGED <<last_failure_at, clock, time>>

StampFailure(i) ==
    /\ Pending(i, "record_failure", "stamp")
    /\ "now" \in calls[i].did
    /\ last_failure_at' = calls[i].now
    /\ calls' = [calls EXCEPT ![i] = Did(i, "stamp")]
    /\ UNCHANGED <<failures, clock, time>>

\* Mutant of record_success: the count survives the success.
KeepCount(i) ==
    /\ UNCHANGED <<failures, last_failure_at, clock, time>>
    /\ Pending(i, "record_success", "count")
    /\ calls' = [calls EXCEPT ![i] = Did(i, "count")]

record_success(i) ==
    /\ Pending(i, "record_success", "count")
    /\ failures' = 0
    /\ calls' = [calls EXCEPT ![i] = Did(i, "count")]
    /\ UNCHANGED <<last_failure_at, clock, time>>

\* now.saturating_sub(last)
Since(then, now) == IF now > then THEN now - then ELSE 0

\* Mutant of is_open: one failure more is needed.
IsOpenLate(count, stamp, now) ==
    count > MaxFails /\ Since(stamp, now) < FailTimeout

is_open(count, stamp, now) ==
    count >= MaxFails /\ Since(stamp, now) < FailTimeout

\* A closed breaker answers from the count alone; the clock is read last.
MayReturn(call) ==
    CASE call.op = "record_success" -> call.did = {"count"}
      [] call.op = "record_failure" -> call.did = {"count", "stamp", "now"}
      [] OTHER -> /\ "count" \in call.did
                  /\ call.count >= MaxFails => "stamp" \in call.did

Return(i) ==
    LET call == calls[i] IN
    /\ MayReturn(call)
    /\ calls' = [calls EXCEPT ![i].to = time, ![i].now = IF call.op = "is_open" THEN clock ELSE @,
                     ![i].open = call.op = "is_open" /\ is_open(call.count, call.stamp, clock)]
    /\ time' = time + 1
    /\ UNCHANGED <<failures, last_failure_at, clock>>

\* Time passes, or the operating system sets the clock.
SetClock ==
    /\ clock' \in Clocks \ {clock}
    /\ UNCHANGED <<failures, last_failure_at, calls, time>>

Next ==
    \/ \E op \in Operations : Begin(op)
    \/ \E i \in Running :
        \/ LoadCount(i) \/ LoadStamp(i) \/ now_ms(i)
        \/ CountFailure(i) \/ StampFailure(i)
        \/ record_success(i)
        \/ Return(i)
    \/ SetClock

Spec == Init /\ [][Next]_vars
=============================================================================
