---------------------------- MODULE BreakerProofs ----------------------------
(***************************************************************************)
(* What a breaker answers is justified by the calls that were recorded,    *)
(* for any number of threads and calls and any clock, although its count   *)
(* and its time stamp are read and written by separate relaxed accesses.   *)
(*                                                                         *)
(* The count is kept between two sets of failures: at least those recorded *)
(* entirely after every success so far (Solid), at most those that no      *)
(* success followed entirely (Unwiped).  The time stamp is that of a       *)
(* failure that no other followed entirely.  A reader inherits what was    *)
(* true when it read, restricted to what came before it began.             *)
(***************************************************************************)
EXTENDS BreakerProps, FiniteSetTheorems, TLAPS

CallType ==
  [op : Operations, did : SUBSET {"count", "stamp", "now"}, count : Nat, stamp : Nat,
   now : Nat, from : Nat, to : Nat, open : BOOLEAN]

\* A call that has returned had made its accesses, and is_open has answered
\* by what it read.
Complete(i) ==
  /\ calls[i].from < calls[i].to
  /\ calls[i].op = "record_success" => "count" \in calls[i].did
  /\ calls[i].op = "record_failure" =>
       /\ "count" \in calls[i].did /\ "stamp" \in calls[i].did /\ "now" \in calls[i].did
  /\ calls[i].op = "is_open" =>
       /\ "count" \in calls[i].did
       /\ calls[i].count >= MaxFails => "stamp" \in calls[i].did
       /\ calls[i].now \in Clocks
       /\ calls[i].open = is_open(calls[i].count, calls[i].stamp, calls[i].now)

Shape ==
  /\ failures \in Nat /\ last_failure_at \in Nat /\ clock \in Clocks /\ time \in Nat \ {0}
  /\ calls \in Seq(CallType)
  /\ \A i \in DOMAIN calls :
       /\ calls[i].from < time /\ calls[i].to < time
       /\ calls[i].op = "record_failure" /\ "stamp" \in calls[i].did => "now" \in calls[i].did
       /\ Finished(i) => Complete(i)

Counted(op) == {i \in Made(op) : "count" \in calls[i].did}
Stamped     == {i \in Made("record_failure") : "stamp" \in calls[i].did}

\* The failures that a success of which the count was reset did not follow.
Unwiped == {f \in Counted("record_failure") :
              \A s \in Counted("record_success") : ~ Precedes(f, s)}

\* The failures that began after every such success.
Solid == {f \in Counted("record_failure") :
            \A s \in Counted("record_success") : Precedes(s, f)}

CountBounds == Cardinality(Solid) <= failures /\ failures <= Cardinality(Unwiped)

StampSource ==
  \/ last_failure_at = 0 /\ Stamped = {}
  \/ \E g \in Stamped : /\ calls[g].now = last_failure_at
                        /\ \A h \in Stamped : ~ Precedes(g, h)

\* The failures that count for q, and those that may.
Due(q) == {f \in Made("record_failure") : Stands(f, q)}
Possible(q) == {f \in Counted("record_failure") :
                  ~ Wiped(f, q) /\ (Finished(q) => BeganBefore(f, q))}

ReadCount(q) ==
  "count" \in calls[q].did =>
    Cardinality(Due(q)) <= calls[q].count /\ calls[q].count <= Cardinality(Possible(q))

ReadStamp(q) ==
  "stamp" \in calls[q].did =>
    \/ calls[q].stamp = 0 /\ \A g \in Made("record_failure") : ~ Precedes(g, q)
    \/ \E g \in Stamped :
         /\ calls[g].now = calls[q].stamp
         /\ Finished(q) => BeganBefore(g, q)
         /\ \A h \in Made("record_failure") : ~ (Precedes(g, h) /\ Precedes(h, q))

BreakerInv ==
  /\ Shape /\ CountBounds /\ StampSource
  /\ \A q \in Made("is_open") : ReadCount(q) /\ ReadStamp(q)

-----------------------------------------------------------------------------
\* What a step does to the calls: it goes on with those that have not
\* returned, ends one of them, or begins one.
Goes(i) ==
  /\ calls'[i].op = calls[i].op /\ calls'[i].from = calls[i].from
  /\ calls[i].did \subseteq calls'[i].did
  /\ calls[i].to # 0 => calls'[i] = calls[i]
  /\ calls'[i].to # calls[i].to => calls'[i].to = time
  /\ calls[i].op = "record_failure" /\ "now" \in calls[i].did => calls'[i].now = calls[i].now
  /\ calls[i].op = "is_open" /\ "count" \in calls[i].did => calls'[i].count = calls[i].count
  /\ calls[i].op = "is_open" /\ "stamp" \in calls[i].did => calls'[i].stamp = calls[i].stamp

Moves ==
  /\ DOMAIN calls \subseteq DOMAIN calls'
  /\ \A i \in DOMAIN calls : Goes(i)
  /\ \A i \in DOMAIN calls' \ DOMAIN calls :
       calls'[i].did = {} /\ calls'[i].to = 0 /\ calls'[i].from = time
  /\ time' >= time

LEMMA BreakerInit == Init => BreakerInv
<1> SUFFICES ASSUME Init PROVE BreakerInv
  OBVIOUS
<1>1. Shape
  BY BreakerAssumption DEF Init, Shape
<1>2. Made("is_open") = {} /\ Made("record_failure") = {} /\ Solid = {} /\ Unwiped = {} /\ Stamped = {}
  BY DEF Init, Made, Solid, Unwiped, Stamped, Counted
<1>3. CountBounds
  BY <1>2, FS_EmptySet DEF Init, CountBounds
<1>4. StampSource
  BY <1>2 DEF Init, StampSource
<1> QED BY <1>1, <1>2, <1>3, <1>4 DEF BreakerInv

\* One call goes on, and is not ended by it.
LEMMA GoesOn ==
  ASSUME Shape, NEW i \in Running, NEW c \in CallType, calls' = [calls EXCEPT ![i] = c],
         c.op = calls[i].op, c.from = calls[i].from, c.to = 0,
         calls[i].did \subseteq c.did,
         c.op = "record_failure" /\ "stamp" \in c.did => "now" \in c.did,
         calls[i].op = "record_failure" /\ "now" \in calls[i].did => c.now = calls[i].now,
         calls[i].op = "is_open" /\ "count" \in calls[i].did => c.count = calls[i].count,
         calls[i].op = "is_open" /\ "stamp" \in calls[i].did => c.stamp = calls[i].stamp,
         failures' \in Nat, last_failure_at' \in Nat, clock' \in Clocks, time' = time
  PROVE  Shape' /\ Moves
<1>1. i \in DOMAIN calls /\ calls[i].to = 0
  BY DEF Running
<1>2. DOMAIN calls' = DOMAIN calls /\ calls'[i] = c
      /\ \A j \in DOMAIN calls : j # i => calls'[j] = calls[j]
  BY <1>1 DEF Shape
<1>3. calls' \in Seq(CallType)
  BY <1>1 DEF Shape
<1>4. ASSUME NEW j \in DOMAIN calls
      PROVE  /\ calls'[j].from < time' /\ calls'[j].to < time'
             /\ calls'[j].op = "record_failure" /\ "stamp" \in calls'[j].did
                  => "now" \in calls'[j].did
             /\ Finished(j)' => Complete(j)'
  <2>1. CASE j = i
    BY <1>1, <1>2, <2>1 DEF Shape, Finished
  <2>2. CASE j # i
    BY <1>2, <2>2 DEF Shape, Finished, Complete
  <2> QED BY <2>1, <2>2
<1>5. Shape'
  BY <1>2, <1>3, <1>4 DEF Shape
<1>6. \A j \in DOMAIN calls : Goes(j)
  BY <1>1, <1>2 DEF Goes
<1> QED BY <1>2, <1>5, <1>6 DEF Moves, Shape

\* The steps that leave the breaker's count and the sets that bound it alone.
Quiet ==
  /\ failures' = failures
  /\ \A op \in {"record_failure", "record_success"} : Counted(op)' = Counted(op)

\* The steps that leave the time stamp and who has stored it alone.
Unstamped == last_failure_at' = last_failure_at /\ Stamped' = Stamped

LEMMA BeginMoves ==
  ASSUME Shape, NEW op \in Operations, Begin(op)
  PROVE  Shape' /\ Moves /\ Quiet /\ Unstamped
<1> DEFINE n == Len(calls) + 1
<1>1. /\ calls' = Append(calls, Fresh(op)) /\ time' = time + 1
      /\ UNCHANGED <<failures, last_failure_at, clock>>
  BY DEF Begin
<1>2. Fresh(op) \in CallType /\ Fresh(op).op = op /\ Fresh(op).did = {}
      /\ Fresh(op).from = time /\ Fresh(op).to = 0
  BY DEF Fresh, CallType, Shape
<1>3. calls' \in Seq(CallType) /\ DOMAIN calls' = DOMAIN calls \cup {n} /\ n \notin DOMAIN calls
      /\ calls'[n] = Fresh(op) /\ \A i \in DOMAIN calls : calls'[i] = calls[i]
  BY <1>1, <1>2 DEF Shape
<1>4. ASSUME NEW j \in DOMAIN calls'
      PROVE  /\ calls'[j].from < time' /\ calls'[j].to < time'
             /\ calls'[j].op = "record_failure" /\ "stamp" \in calls'[j].did
                  => "now" \in calls'[j].did
             /\ Finished(j)' => Complete(j)'
  <2>1. CASE j = n
    BY <1>1, <1>2, <1>3, <2>1 DEF Shape, Finished
  <2>2. CASE j # n
    <3>1. j \in DOMAIN calls /\ calls'[j] = calls[j] /\ calls[j] \in CallType
      BY <1>3, <2>2 DEF Shape
    <3>2. calls[j].from < time' /\ calls[j].to < time'
      <4>1. calls[j].from < time /\ calls[j].to < time /\ time \in Nat
        BY <3>1 DEF Shape
      <4>2. calls[j].from \in Nat /\ calls[j].to \in Nat
        BY <3>1 DEF CallType
      <4> QED BY <1>1, <4>1, <4>2
    <3> QED BY <3>1, <3>2 DEF Shape, Finished, Complete
  <2> QED BY <2>1, <2>2
<1>5. Shape'
  <2>1. time' \in Nat \ {0}
    BY <1>1 DEF Shape
  <2> QED BY <1>1, <1>3, <1>4, <2>1 DEF Shape
<1>6. Moves
  BY <1>1, <1>2, <1>3 DEF Moves, Goes, Shape
<1>7. Quiet /\ Unstamped
  BY <1>1, <1>2, <1>3 DEF Quiet, Unstamped, Counted, Stamped, Made
<1> QED BY <1>5, <1>6, <1>7

LEMMA LoadCountMoves ==
  ASSUME Shape, NEW i \in Running, LoadCount(i)
  PROVE  /\ Shape' /\ Moves /\ Quiet /\ Unstamped
         /\ \A j \in DOMAIN calls : j # i => calls'[j] = calls[j]
         /\ calls'[i].count = failures /\ calls'[i].did = calls[i].did \cup {"count"}
         /\ calls'[i].stamp = calls[i].stamp /\ calls'[i].to = 0
<1> DEFINE c == [Did(i, "count") EXCEPT !.count = failures]
<1>0. i \in DOMAIN calls /\ calls[i] \in CallType /\ calls[i].to = 0
  BY DEF Running, Shape
<1>1. calls' = [calls EXCEPT ![i] = c] /\ calls[i].op = "is_open" /\ "count" \notin calls[i].did
      /\ UNCHANGED <<failures, last_failure_at, clock, time>>
  BY DEF LoadCount, Pending
<1>2. c \in CallType /\ c.op = "is_open" /\ c.from = calls[i].from /\ c.to = 0
      /\ c.did = calls[i].did \cup {"count"} /\ c.count = failures /\ c.stamp = calls[i].stamp
      /\ c.now = calls[i].now
  BY <1>0, <1>1 DEF Did, CallType, Shape
<1> HIDE DEF c
<1>3. Shape' /\ Moves
  BY <1>0, <1>1, <1>2, GoesOn DEF Shape
<1>4. DOMAIN calls' = DOMAIN calls /\ calls'[i] = c
      /\ \A j \in DOMAIN calls : j # i => calls'[j] = calls[j]
  BY <1>0, <1>1 DEF Shape
<1>5. Quiet /\ Unstamped
  BY <1>0, <1>1, <1>2, <1>4 DEF Quiet, Unstamped, Counted, Stamped, Made
<1> QED BY <1>1, <1>2, <1>3, <1>4, <1>5

LEMMA LoadStampMoves ==
  ASSUME Shape, NEW i \in Running, LoadStamp(i)
  PROVE  /\ Shape' /\ Moves /\ Quiet /\ Unstamped
         /\ \A j \in DOMAIN calls : j # i => calls'[j] = calls[j]
         /\ calls'[i].stamp = last_failure_at /\ calls'[i].did = calls[i].did \cup {"stamp"}
         /\ calls'[i].count = calls[i].count /\ calls'[i].to = 0
<1> DEFINE c == [Did(i, "stamp") EXCEPT !.stamp = last_failure_at]
<1>0. i \in DOMAIN calls /\ calls[i] \in CallType /\ calls[i].to = 0
  BY DEF Running, Shape
<1>1. calls' = [calls EXCEPT ![i] = c] /\ calls[i].op = "is_open" /\ "stamp" \notin calls[i].did
      /\ UNCHANGED <<failures, last_failure_at, clock, time>>
  BY DEF LoadStamp, Pending
<1>2. c \in CallType /\ c.op = "is_open" /\ c.from = calls[i].from /\ c.to = 0
      /\ c.did = calls[i].did \cup {"stamp"} /\ c.count = calls[i].count
      /\ c.stamp = last_failure_at /\ c.now = calls[i].now
  BY <1>0, <1>1 DEF Did, CallType, Shape
<1> HIDE DEF c
<1>3. Shape' /\ Moves
  BY <1>0, <1>1, <1>2, GoesOn DEF Shape
<1>4. DOMAIN calls' = DOMAIN calls /\ calls'[i] = c
      /\ \A j \in DOMAIN calls : j # i => calls'[j] = calls[j]
  BY <1>0, <1>1 DEF Shape
<1>5. Quiet /\ Unstamped
  BY <1>0, <1>1, <1>2, <1>4 DEF Quiet, Unstamped, Counted, Stamped, Made
<1> QED BY <1>1, <1>2, <1>3, <1>4, <1>5

LEMMA NowMoves ==
  ASSUME Shape, NEW i \in Running, now_ms(i)
  PROVE  Shape' /\ Moves /\ Quiet /\ Unstamped
<1> DEFINE c == [Did(i, "now") EXCEPT !.now = clock]
<1>0. i \in DOMAIN calls /\ calls[i] \in CallType /\ calls[i].to = 0
  BY DEF Running, Shape
<1>1. calls' = [calls EXCEPT ![i] = c] /\ calls[i].op = "record_failure"
      /\ "now" \notin calls[i].did /\ UNCHANGED <<failures, last_failure_at, clock, time>>
  BY DEF now_ms, Pending
<1>2. c \in CallType /\ c.op = "record_failure" /\ c.from = calls[i].from /\ c.to = 0
      /\ c.did = calls[i].did \cup {"now"}
  BY <1>0, <1>1, BreakerAssumption DEF Did, CallType, Shape
<1> HIDE DEF c
<1>3. Shape' /\ Moves
  BY <1>0, <1>1, <1>2, GoesOn DEF Shape
<1>4. DOMAIN calls' = DOMAIN calls /\ calls'[i] = c
      /\ \A j \in DOMAIN calls : j # i => calls'[j] = calls[j]
  BY <1>0, <1>1 DEF Shape
<1>5. Quiet /\ Unstamped
  BY <1>0, <1>1, <1>2, <1>4 DEF Quiet, Unstamped, Counted, Stamped, Made
<1> QED BY <1>3, <1>5

LEMMA CountFailureMoves ==
  ASSUME Shape, NEW i \in Running, CountFailure(i)
  PROVE  /\ Shape' /\ Moves /\ Unstamped
         /\ failures' = failures + 1
         /\ Counted("record_failure")' = Counted("record_failure") \cup {i}
         /\ i \notin Counted("record_failure")
         /\ Counted("record_success")' = Counted("record_success")
         /\ calls'[i].to = 0
<1> DEFINE c == Did(i, "count")
<1>0. i \in DOMAIN calls /\ calls[i] \in CallType /\ calls[i].to = 0
  BY DEF Running, Shape
<1>1. calls' = [calls EXCEPT ![i] = c] /\ calls[i].op = "record_failure"
      /\ "count" \notin calls[i].did /\ failures' = failures + 1
      /\ UNCHANGED <<last_failure_at, clock, time>>
  BY DEF CountFailure, Pending
<1>2. c \in CallType /\ c.op = "record_failure" /\ c.from = calls[i].from /\ c.to = 0
      /\ c.did = calls[i].did \cup {"count"} /\ c.now = calls[i].now
  BY <1>0, <1>1 DEF Did, CallType, Shape
<1> HIDE DEF c
<1>3. Shape' /\ Moves
  <2>1. failures' \in Nat
    BY <1>1 DEF Shape
  <2> QED BY <1>0, <1>1, <1>2, <2>1, GoesOn DEF Shape
<1>4. DOMAIN calls' = DOMAIN calls /\ calls'[i] = c
      /\ \A j \in DOMAIN calls : j # i => calls'[j] = calls[j]
  BY <1>0, <1>1 DEF Shape
<1>5. Unstamped
  BY <1>0, <1>1, <1>2, <1>4 DEF Unstamped, Stamped, Made
<1>6. /\ Counted("record_failure")' = Counted("record_failure") \cup {i}
      /\ i \notin Counted("record_failure")
      /\ Counted("record_success")' = Counted("record_success")
  BY <1>0, <1>1, <1>2, <1>4 DEF Counted, Made
<1> QED BY <1>1, <1>2, <1>3, <1>4, <1>5, <1>6

LEMMA StampFailureMoves ==
  ASSUME Shape, NEW i \in Running, StampFailure(i)
  PROVE  /\ Shape' /\ Moves /\ Quiet
         /\ Stamped' = Stamped \cup {i}
         /\ last_failure_at' = calls[i].now /\ calls'[i].now = calls[i].now
         /\ i \in DOMAIN calls /\ calls'[i].to = 0
<1> DEFINE c == Did(i, "stamp")
<1>0. i \in DOMAIN calls /\ calls[i] \in CallType /\ calls[i].to = 0
  BY DEF Running, Shape
<1>1. calls' = [calls EXCEPT ![i] = c] /\ calls[i].op = "record_failure"
      /\ "now" \in calls[i].did /\ last_failure_at' = calls[i].now
      /\ UNCHANGED <<failures, clock, time>>
  BY DEF StampFailure, Pending
<1>2. c \in CallType /\ c.op = "record_failure" /\ c.from = calls[i].from /\ c.to = 0
      /\ c.did = calls[i].did \cup {"stamp"} /\ c.now = calls[i].now
  BY <1>0, <1>1 DEF Did, CallType, Shape
<1> HIDE DEF c
<1>3. Shape' /\ Moves
  <2>1. last_failure_at' \in Nat
    BY <1>0, <1>1 DEF CallType
  <2> QED BY <1>0, <1>1, <1>2, <2>1, GoesOn DEF Shape
<1>4. DOMAIN calls' = DOMAIN calls /\ calls'[i] = c
      /\ \A j \in DOMAIN calls : j # i => calls'[j] = calls[j]
  BY <1>0, <1>1 DEF Shape
<1>5. Quiet
  BY <1>0, <1>1, <1>2, <1>4 DEF Quiet, Counted, Made
<1>6. Stamped' = Stamped \cup {i}
  BY <1>0, <1>1, <1>2, <1>4 DEF Stamped, Made
<1> QED BY <1>0, <1>1, <1>2, <1>3, <1>4, <1>5, <1>6

LEMMA SuccessMoves ==
  ASSUME Shape, NEW i \in Running, record_success(i)
  PROVE  /\ Shape' /\ Moves /\ Unstamped
         /\ failures' = 0
         /\ Counted("record_failure")' = Counted("record_failure")
         /\ i \in Counted("record_success")' /\ calls'[i].to = 0
<1> DEFINE c == Did(i, "count")
<1>0. i \in DOMAIN calls /\ calls[i] \in CallType /\ calls[i].to = 0
  BY DEF Running, Shape
<1>1. calls' = [calls EXCEPT ![i] = c] /\ calls[i].op = "record_success"
      /\ failures' = 0 /\ UNCHANGED <<last_failure_at, clock, time>>
  BY DEF record_success, Pending
<1>2. c \in CallType /\ c.op = "record_success" /\ c.from = calls[i].from /\ c.to = 0
      /\ c.did = calls[i].did \cup {"count"} /\ c.now = calls[i].now
  BY <1>0, <1>1 DEF Did, CallType, Shape
<1> HIDE DEF c
<1>3. Shape' /\ Moves
  BY <1>0, <1>1, <1>2, GoesOn DEF Shape
<1>4. DOMAIN calls' = DOMAIN calls /\ calls'[i] = c
      /\ \A j \in DOMAIN calls : j # i => calls'[j] = calls[j]
  BY <1>0, <1>1 DEF Shape
<1>5. Unstamped
  BY <1>0, <1>1, <1>2, <1>4 DEF Unstamped, Stamped, Made
<1>6. /\ Counted("record_failure")' = Counted("record_failure")
      /\ i \in Counted("record_success")'
  BY <1>0, <1>1, <1>2, <1>4 DEF Counted, Made
<1> QED BY <1>1, <1>2, <1>3, <1>4, <1>5, <1>6

LEMMA ReturnMoves ==
  ASSUME Shape, NEW i \in Running, Return(i)
  PROVE  /\ Shape' /\ Moves /\ Quiet /\ Unstamped
         /\ \A j \in DOMAIN calls : calls'[j].did = calls[j].did
<1> DEFINE open == calls[i].op = "is_open" /\ is_open(calls[i].count, calls[i].stamp, clock)
           now  == IF calls[i].op = "is_open" THEN clock ELSE calls[i].now
           c    == [calls[i] EXCEPT !.to = time, !.now = now, !.open = open]
<1>0. i \in DOMAIN calls /\ calls[i] \in CallType /\ calls[i].to = 0 /\ time \in Nat \ {0}
      /\ calls[i].from < time
  BY DEF Running, Shape
<1>1. MayReturn(calls[i]) /\ time' = time + 1 /\ UNCHANGED <<failures, last_failure_at, clock>>
  BY DEF Return
<1>2. now \in Nat /\ (calls[i].op = "is_open" => now \in Clocks) /\ open \in BOOLEAN
  BY <1>0, BreakerAssumption DEF CallType, Shape
<1>3. calls' = [calls EXCEPT ![i] = c]
  <2>1. calls' = [calls EXCEPT ![i].to = time,
                    ![i].now = IF calls[i].op = "is_open" THEN clock ELSE @,
                    ![i].open = calls[i].op = "is_open"
                                  /\ is_open(calls[i].count, calls[i].stamp, clock)]
    BY DEF Return
  <2> HIDE DEF open
  <2>2. calls' = [calls EXCEPT ![i].to = time,
                    ![i].now = IF calls[i].op = "is_open" THEN clock ELSE @, ![i].open = open]
    BY <2>1 DEF open
  <2> QED BY <1>0, <2>2 DEF Shape, CallType
<1> HIDE DEF open, now
<1>4. c \in CallType /\ c.op = calls[i].op /\ c.from = calls[i].from /\ c.to = time
      /\ c.did = calls[i].did /\ c.now = now /\ c.open = open
      /\ c.count = calls[i].count /\ c.stamp = calls[i].stamp
  BY <1>0, <1>2 DEF CallType
<1> HIDE DEF c
<1>5. DOMAIN calls' = DOMAIN calls /\ calls'[i] = c /\ calls' \in Seq(CallType)
      /\ \A j \in DOMAIN calls : j # i => calls'[j] = calls[j]
  BY <1>0, <1>3, <1>4 DEF Shape
<1>6. Complete(i)'
  <2>1. calls'[i].op = "is_open" =>
          calls'[i].open = is_open(calls'[i].count, calls'[i].stamp, calls'[i].now)
    BY <1>4, <1>5 DEF open, now, is_open
  <2>2. calls[i].op = "is_open" => "count" \in calls[i].did
                                  /\ (calls[i].count >= MaxFails => "stamp" \in calls[i].did)
    BY <1>1 DEF MayReturn
  <2>3. /\ calls[i].op = "record_success" => "count" \in calls[i].did
        /\ calls[i].op = "record_failure" =>
             "count" \in calls[i].did /\ "stamp" \in calls[i].did /\ "now" \in calls[i].did
    BY <1>1 DEF MayReturn
  <2> QED BY <1>0, <1>2, <1>4, <1>5, <2>1, <2>2, <2>3 DEF Complete
<1>7. ASSUME NEW j \in DOMAIN calls
      PROVE  /\ calls'[j].from < time' /\ calls'[j].to < time'
             /\ calls'[j].op = "record_failure" /\ "stamp" \in calls'[j].did
                  => "now" \in calls'[j].did
             /\ Finished(j)' => Complete(j)'
  <2>1. CASE j = i
    <3>1. calls'[j] = c /\ c.from < time' /\ c.to < time'
      <4>1. calls[i].from \in Nat
        BY <1>0 DEF CallType
      <4> QED BY <1>0, <1>1, <1>4, <1>5, <2>1, <4>1
    <3>2. calls[i].op = "record_failure" /\ "stamp" \in calls[i].did
            => "now" \in calls[i].did
      BY <1>0 DEF Shape
    <3> QED BY <1>4, <1>6, <2>1, <3>1, <3>2
  <2>2. CASE j # i
    <3>0. calls[j] \in CallType /\ calls[j].from < time /\ calls[j].to < time
      BY DEF Shape
    <3>1. calls'[j] = calls[j] /\ calls[j].from < time /\ calls[j].to < time
          /\ calls[j].from \in Nat /\ calls[j].to \in Nat
      BY <1>5, <2>2, <3>0 DEF CallType
    <3>2. calls[j].from < time' /\ calls[j].to < time'
      BY <1>0, <1>1, <3>1
    <3> QED BY <3>1, <3>2 DEF Shape, Finished, Complete
  <2> QED BY <2>1, <2>2
<1>8. Shape'
  <2>1. time' \in Nat \ {0}
    BY <1>0, <1>1
  <2> QED BY <1>1, <1>5, <1>7, <2>1 DEF Shape
<1>9. \A j \in DOMAIN calls : Goes(j)
  BY <1>0, <1>4, <1>5 DEF Goes, now
<1>10. Moves
  BY <1>0, <1>1, <1>5, <1>9 DEF Moves
<1>11. Quiet /\ Unstamped
  BY <1>0, <1>1, <1>4, <1>5 DEF Quiet, Unstamped, Counted, Stamped, Made
<1> QED BY <1>4, <1>5, <1>8, <1>10, <1>11

LEMMA ClockMoves ==
  ASSUME Shape, SetClock \/ UNCHANGED vars
  PROVE  Shape' /\ Moves /\ Quiet /\ Unstamped /\ calls' = calls
<1>1. UNCHANGED <<failures, last_failure_at, calls, time>> /\ clock' \in Clocks
  BY DEF SetClock, vars, Shape
<1>2. Shape'
  BY <1>1 DEF Shape, Finished, Complete
<1> QED BY <1>1, <1>2 DEF Shape, Moves, Goes, Quiet, Unstamped, Counted, Stamped, Made

-----------------------------------------------------------------------------
(* What was before what never changes.                                      *)

LEMMA OrderKept ==
  ASSUME Shape, Shape', Moves, NEW i \in DOMAIN calls, NEW j \in DOMAIN calls
  PROVE  Precedes(i, j)' <=> Precedes(i, j)
<1>1. Goes(i) /\ Goes(j) /\ calls[j].from < time /\ calls[j].from \in Nat
      /\ calls[i].to \in Nat /\ time \in Nat \ {0}
  <2>1. Goes(i) /\ Goes(j)
    BY DEF Moves
  <2>2. calls[i] \in CallType /\ calls[j] \in CallType /\ calls[j].from < time
        /\ time \in Nat \ {0}
    BY DEF Shape
  <2>3. calls[j].from \in Nat /\ calls[i].to \in Nat
    BY <2>2 DEF CallType
  <2> QED BY <2>1, <2>2, <2>3
<1>2. CASE calls'[i].to = calls[i].to
  BY <1>1, <1>2 DEF Goes, Precedes, Finished
<1>3. CASE calls'[i].to # calls[i].to
  BY <1>1, <1>3 DEF Goes, Precedes, Finished
<1> QED BY <1>2, <1>3

\* A call that has not returned, or that has just begun, precedes none.
LEMMA NoneBefore ==
  ASSUME Shape, Shape', Moves
  PROVE  /\ \A i, j : calls[i].to = 0 => ~ Precedes(i, j)
         /\ \A i, j : calls'[i].to = 0 => ~ Precedes(i, j)'
         /\ \A i \in DOMAIN calls' \ DOMAIN calls : \A j : ~ Precedes(i, j)'
BY DEF Moves, Precedes, Finished

LEMMA MadeKept ==
  ASSUME Moves, NEW op
  PROVE  /\ Made(op) \subseteq Made(op)' /\ Counted(op) \subseteq Counted(op)'
         /\ Stamped \subseteq Stamped'
         /\ \A i \in DOMAIN calls : i \in Made(op)' <=> i \in Made(op)
BY DEF Moves, Goes, Made, Counted, Stamped

LEMMA CallsAreFinite ==
  ASSUME Shape, NEW S, S \subseteq DOMAIN calls
  PROVE  IsFiniteSet(S) /\ Cardinality(S) \in Nat
<1>1. DOMAIN calls = 1 .. Len(calls) /\ Len(calls) \in Nat
  BY DEF Shape
<1>2. IsFiniteSet(1 .. Len(calls))
  BY <1>1, FS_Interval
<1> QED BY <1>1, <1>2, FS_Subset, FS_CardinalityType

-----------------------------------------------------------------------------
\* What a step does to the breaker and to its readers.
Counts ==
  \E i \in DOMAIN calls :
    /\ failures' = failures + 1 /\ calls'[i].to = 0
    /\ Counted("record_failure")' = Counted("record_failure") \cup {i}
    /\ i \notin Counted("record_failure")
    /\ Counted("record_success")' = Counted("record_success")

Resets ==
  \E i : /\ failures' = 0 /\ calls'[i].to = 0
         /\ Counted("record_failure")' = Counted("record_failure")
         /\ i \in Counted("record_success")'

Stamps ==
  \E i \in DOMAIN calls :
    /\ Stamped' = Stamped \cup {i} /\ last_failure_at' = calls'[i].now
    /\ calls'[i].to = 0

LoadsCount(q) == Quiet /\ calls'[q].count = failures /\ calls'[q].to = 0
LoadsStamp(q) == Unstamped /\ calls'[q].stamp = last_failure_at /\ calls'[q].to = 0

Loads ==
  \A q \in DOMAIN calls' : calls'[q].op = "is_open" =>
    /\ "count" \in calls'[q].did =>
         q \in DOMAIN calls /\ ("count" \in calls[q].did \/ LoadsCount(q))
    /\ "stamp" \in calls'[q].did =>
         q \in DOMAIN calls /\ ("stamp" \in calls[q].did \/ LoadsStamp(q))

\* Nothing read.
LEMMA NoLoads ==
  ASSUME Shape, Moves,
         \A q \in DOMAIN calls : calls[q].op = "is_open" => calls'[q].did = calls[q].did
  PROVE  Loads
BY DEF Loads, Moves, Goes

LEMMA StepKinds ==
  ASSUME Shape, [Next]_vars
  PROVE  /\ Shape' /\ Moves
         /\ Quiet \/ Counts \/ Resets
         /\ Unstamped \/ Stamps
         /\ Loads
<1>1. CASE SetClock \/ UNCHANGED vars
  BY <1>1, ClockMoves, NoLoads
<1>2. ASSUME NEW op \in Operations, Begin(op)
      PROVE  Shape' /\ Moves /\ Quiet /\ Unstamped /\ Loads
  <2>1. Shape' /\ Moves /\ Quiet /\ Unstamped
    BY <1>2, BeginMoves
  <2>2. \A q \in DOMAIN calls : calls'[q] = calls[q]
    BY <1>2 DEF Begin, Shape
  <2> QED BY <2>1, <2>2, NoLoads
<1>3. ASSUME NEW i \in Running, LoadCount(i)
      PROVE  Shape' /\ Moves /\ Quiet /\ Unstamped /\ Loads
  BY <1>3, LoadCountMoves DEF Loads, LoadsCount, Moves
<1>4. ASSUME NEW i \in Running, LoadStamp(i)
      PROVE  Shape' /\ Moves /\ Quiet /\ Unstamped /\ Loads
  BY <1>4, LoadStampMoves DEF Loads, LoadsStamp, Moves
<1>5. ASSUME NEW i \in Running, now_ms(i)
      PROVE  Shape' /\ Moves /\ Quiet /\ Unstamped /\ Loads
  <2>1. Shape' /\ Moves /\ Quiet /\ Unstamped
    BY <1>5, NowMoves
  <2>2. \A q \in DOMAIN calls : calls[q].op = "is_open" => calls'[q] = calls[q]
    BY <1>5 DEF now_ms, Pending, Running, Shape
  <2> QED BY <2>1, <2>2, NoLoads
<1>6. ASSUME NEW i \in Running, CountFailure(i)
      PROVE  Shape' /\ Moves /\ Counts /\ Unstamped /\ Loads
  <2>1. Shape' /\ Moves /\ Counts /\ Unstamped
    BY <1>6, CountFailureMoves DEF Counts, Running
  <2>2. \A q \in DOMAIN calls : calls[q].op = "is_open" => calls'[q] = calls[q]
    BY <1>6 DEF CountFailure, Pending, Running, Shape
  <2> QED BY <2>1, <2>2, NoLoads
<1>7. ASSUME NEW i \in Running, StampFailure(i)
      PROVE  Shape' /\ Moves /\ Quiet /\ Stamps /\ Loads
  <2>1. Shape' /\ Moves /\ Quiet /\ Stamps
    BY <1>7, StampFailureMoves DEF Stamps
  <2>2. \A q \in DOMAIN calls : calls[q].op = "is_open" => calls'[q] = calls[q]
    BY <1>7 DEF StampFailure, Pending, Running, Shape
  <2> QED BY <2>1, <2>2, NoLoads
<1>8. ASSUME NEW i \in Running, record_success(i)
      PROVE  Shape' /\ Moves /\ Resets /\ Unstamped /\ Loads
  <2>1. Shape' /\ Moves /\ Resets /\ Unstamped
    BY <1>8, SuccessMoves DEF Resets
  <2>2. \A q \in DOMAIN calls : calls[q].op = "is_open" => calls'[q] = calls[q]
    BY <1>8 DEF record_success, Pending, Running, Shape
  <2> QED BY <2>1, <2>2, NoLoads
<1>9. ASSUME NEW i \in Running, Return(i)
      PROVE  Shape' /\ Moves /\ Quiet /\ Unstamped /\ Loads
  BY <1>9, ReturnMoves, NoLoads
<1> QED BY <1>1, <1>2, <1>3, <1>4, <1>5, <1>6, <1>7, <1>8, <1>9 DEF Next

-----------------------------------------------------------------------------
(* The count stays between its bounds.                                      *)

LEMMA BoundsKept ==
  ASSUME Shape, Shape', Moves, CountBounds, Quiet \/ Counts \/ Resets
  PROVE  CountBounds'
<1> DEFINE F == Counted("record_failure")
           S == Counted("record_success")
<1>0. F \subseteq DOMAIN calls /\ S \subseteq DOMAIN calls
      /\ F' \subseteq DOMAIN calls' /\ S' \subseteq DOMAIN calls'
  BY DEF Counted, Made
<1>1. \A i, j \in DOMAIN calls : Precedes(i, j)' <=> Precedes(i, j)
  BY OrderKept
<1>2. /\ Solid \subseteq DOMAIN calls /\ Unwiped \subseteq DOMAIN calls
      /\ Solid' \subseteq DOMAIN calls' /\ Unwiped' \subseteq DOMAIN calls'
  BY <1>0 DEF Solid, Unwiped
<1>3. IsFiniteSet(Solid) /\ IsFiniteSet(Unwiped) /\ IsFiniteSet(Unwiped') /\ IsFiniteSet(Solid')
      /\ Cardinality(Solid) \in Nat /\ Cardinality(Unwiped) \in Nat
      /\ Cardinality(Solid') \in Nat /\ Cardinality(Unwiped') \in Nat
  <2>1. IsFiniteSet(DOMAIN calls) /\ IsFiniteSet((DOMAIN calls)')
    <3>1. DOMAIN calls = 1 .. Len(calls) /\ Len(calls) \in Nat
          /\ DOMAIN calls' = 1 .. Len(calls') /\ Len(calls') \in Nat
      BY DEF Shape
    <3> QED BY <3>1, FS_Interval
  <2> QED BY <1>2, <2>1, FS_Subset, FS_CardinalityType
<1>4. failures \in Nat
  BY DEF Shape
<1>5. CASE Quiet
  <2>1. F' = F /\ S' = S /\ failures' = failures
    BY <1>5 DEF Quiet
  <2>2. Solid' = Solid /\ Unwiped' = Unwiped
    BY <1>0, <1>1, <2>1 DEF Solid, Unwiped
  <2> QED BY <2>1, <2>2 DEF CountBounds
<1>6. CASE Counts
  <2>1. PICK i \in DOMAIN calls : /\ failures' = failures + 1 /\ calls'[i].to = 0
                                 /\ F' = F \cup {i} /\ i \notin F /\ S' = S
    BY <1>6 DEF Counts
  <2>2. \A j : ~ Precedes(i, j)'
    BY <2>1, NoneBefore
  <2>3. Unwiped \cup {i} \subseteq Unwiped' /\ i \notin Unwiped
    BY <1>0, <1>1, <2>1, <2>2 DEF Unwiped
  <2>4. Solid' \subseteq Solid \cup {i}
    BY <1>0, <1>1, <2>1 DEF Solid
  <2>5. Cardinality(Unwiped \cup {i}) = Cardinality(Unwiped) + 1
    BY <1>3, <2>3, FS_AddElement
  <2>6. Cardinality(Unwiped) + 1 <= Cardinality(Unwiped')
    BY <1>3, <2>3, <2>5, FS_Subset
  <2>7. IsFiniteSet(Solid \cup {i}) /\ Cardinality(Solid \cup {i}) <= Cardinality(Solid) + 1
        /\ Cardinality(Solid \cup {i}) \in Nat
    <3>1. /\ IsFiniteSet(Solid \cup {i})
          /\ Cardinality(Solid \cup {i})
               = IF i \in Solid THEN Cardinality(Solid) ELSE Cardinality(Solid) + 1
      BY <1>3, FS_AddElement
    <3> QED BY <1>3, <3>1
  <2>8. Cardinality(Solid') <= Cardinality(Solid \cup {i})
    BY <2>4, <2>7, FS_Subset
  <2> QED BY <1>3, <1>4, <2>1, <2>6, <2>7, <2>8 DEF CountBounds
<1>7. CASE Resets
  <2>1. PICK i : failures' = 0 /\ calls'[i].to = 0 /\ i \in S'
    BY <1>7 DEF Resets
  <2>2. \A j : ~ Precedes(i, j)'
    BY <2>1, NoneBefore
  <2>3. Solid' = {}
    BY <2>1, <2>2 DEF Solid
  <2> QED BY <1>3, <2>1, <2>3, FS_EmptySet DEF CountBounds
<1> QED BY <1>5, <1>6, <1>7

LEMMA SourceKept ==
  ASSUME Shape, Shape', Moves, StampSource, Unstamped \/ Stamps
  PROVE  StampSource'
<1>0. Stamped \subseteq DOMAIN calls
  BY DEF Stamped, Made
<1>1. CASE Unstamped
  <2>1. last_failure_at' = last_failure_at /\ Stamped' = Stamped
    BY <1>1 DEF Unstamped
  <2>2. CASE last_failure_at = 0 /\ Stamped = {}
    BY <2>1, <2>2 DEF StampSource
  <2>3. CASE \E g \in Stamped : /\ calls[g].now = last_failure_at
                                /\ \A h \in Stamped : ~ Precedes(g, h)
    <3>1. PICK g \in Stamped : /\ calls[g].now = last_failure_at
                               /\ \A h \in Stamped : ~ Precedes(g, h)
      BY <2>3
    <3>2. calls'[g].now = calls[g].now
      BY <1>0 DEF Moves, Goes, Stamped, Made, Shape
    <3>3. \A h \in Stamped : ~ Precedes(g, h)'
      BY <1>0, <3>1, OrderKept
    <3> QED BY <2>1, <3>1, <3>2, <3>3 DEF StampSource
  <2> QED BY <2>2, <2>3 DEF StampSource
<1>2. CASE Stamps
  <2>1. PICK i \in DOMAIN calls : Stamped' = Stamped \cup {i}
                                 /\ last_failure_at' = calls'[i].now /\ calls'[i].to = 0
    BY <1>2 DEF Stamps
  <2> QED BY <2>1, NoneBefore DEF StampSource
<1> QED BY <1>1, <1>2

-----------------------------------------------------------------------------
(* What a reader read stays justified.                                      *)

\* Before a call that is there already nothing new comes.
LEMMA BeforeIsOld ==
  ASSUME Shape, Shape', Moves, NEW i, NEW j \in DOMAIN calls,
         i \in DOMAIN calls', Precedes(i, j)'
  PROVE  i \in DOMAIN calls /\ Precedes(i, j) /\ Complete(i)
<1>1. i \in DOMAIN calls
  BY NoneBefore
<1>2. Precedes(i, j)
  BY <1>1, OrderKept
<1> QED BY <1>1, <1>2 DEF Precedes, Shape

\* A failure that began before q's answer, once q has answered.
LEMMA BeganStays ==
  ASSUME Shape, Shape', Moves, NEW f \in DOMAIN calls, NEW q \in DOMAIN calls,
         Finished(q) => BeganBefore(f, q)
  PROVE  (Finished(q) => BeganBefore(f, q))'
<1>1. Goes(f) /\ Goes(q) /\ calls[f].from < time
  BY DEF Moves, Shape
<1> QED BY <1>1 DEF Goes, Finished, BeganBefore

LEMMA SetsAreFinite ==
  ASSUME Shape, NEW q
  PROVE  /\ \A S : S \subseteq DOMAIN calls => IsFiniteSet(S) /\ Cardinality(S) \in Nat
         /\ Due(q) \subseteq DOMAIN calls /\ Possible(q) \subseteq DOMAIN calls
         /\ Solid \subseteq DOMAIN calls /\ Unwiped \subseteq DOMAIN calls
BY CallsAreFinite DEF Due, Possible, Solid, Unwiped, Counted, Made

LEMMA CardinalityMonotone ==
  ASSUME NEW S, NEW T, IsFiniteSet(T), S \subseteq T
  PROVE  Cardinality(S) <= Cardinality(T)
BY FS_Subset

LEMMA CountKept ==
  ASSUME Shape, Shape', Moves, CountBounds, NEW q \in DOMAIN calls,
         calls[q].op = "is_open", ReadCount(q),
         "count" \in calls'[q].did => "count" \in calls[q].did \/ LoadsCount(q)
  PROVE  ReadCount(q)'
<1> SUFFICES ASSUME "count" \in calls'[q].did
             PROVE  /\ Cardinality(Due(q)') <= calls'[q].count
                    /\ calls'[q].count <= Cardinality(Possible(q)')
  BY DEF ReadCount
<1>0. /\ IsFiniteSet(Due(q)) /\ IsFiniteSet(Possible(q)') /\ IsFiniteSet(Due(q)')
      /\ IsFiniteSet(Possible(q)) /\ IsFiniteSet(Solid) /\ IsFiniteSet(Unwiped)
      /\ Cardinality(Due(q)) \in Nat /\ Cardinality(Possible(q)') \in Nat
      /\ Cardinality(Due(q)') \in Nat /\ Cardinality(Possible(q)) \in Nat
      /\ Cardinality(Solid) \in Nat /\ Cardinality(Unwiped) \in Nat
  <2>1. /\ \A S : S \subseteq DOMAIN calls' => IsFiniteSet(S) /\ Cardinality(S) \in Nat
        /\ Due(q)' \subseteq DOMAIN calls' /\ Possible(q)' \subseteq DOMAIN calls'
    <3>1. DOMAIN calls' = 1 .. Len(calls') /\ Len(calls') \in Nat
      BY DEF Shape
    <3>2. IsFiniteSet(1 .. Len(calls'))
      BY <3>1, FS_Interval
    <3>3. \A S : S \subseteq DOMAIN calls' => IsFiniteSet(S) /\ Cardinality(S) \in Nat
      BY <3>1, <3>2, FS_Subset, FS_CardinalityType
    <3> QED BY <3>3 DEF Due, Possible, Counted, Made
  <2> QED BY <2>1, SetsAreFinite
<1>1. calls[q].count \in Nat /\ failures \in Nat
  <2>1. calls[q] \in CallType
    BY DEF Shape
  <2> QED BY <2>1 DEF CallType, Shape
<1>2. CASE "count" \in calls[q].did
  <2>1. calls'[q].count = calls[q].count
    BY <1>2 DEF Moves, Goes
  <2>2. Due(q)' \subseteq Due(q)
    <3> SUFFICES ASSUME NEW f \in Due(q)' PROVE f \in Due(q)
      OBVIOUS
    <3>1. f \in Made("record_failure")' /\ Stands(f, q)'
      BY DEF Due
    <3>2. f \in DOMAIN calls /\ Precedes(f, q)
      BY <3>1, BeforeIsOld DEF Stands, Made
    <3>3. f \in Made("record_failure")
      BY <3>1, <3>2, MadeKept
    <3>4. ASSUME NEW s \in Made("record_success") PROVE Precedes(s, f) \/ Precedes(q, s)
      <4>1. s \in DOMAIN calls /\ s \in Made("record_success")'
        BY MadeKept DEF Made
      <4>2. Precedes(s, f)' \/ Precedes(q, s)'
        BY <3>1, <4>1 DEF Stands
      <4> QED BY <3>2, <4>1, <4>2, OrderKept
    <3> QED BY <3>2, <3>3, <3>4 DEF Due, Stands
  <2>3. Possible(q) \subseteq Possible(q)'
    <3> SUFFICES ASSUME NEW f \in Possible(q) PROVE f \in Possible(q)'
      OBVIOUS
    <3>1. f \in Counted("record_failure") /\ ~ Wiped(f, q)
          /\ (Finished(q) => BeganBefore(f, q)) /\ f \in DOMAIN calls
      BY DEF Possible, Counted, Made
    <3>2. f \in Counted("record_failure")'
      BY <3>1, MadeKept
    <3>3. (Finished(q) => BeganBefore(f, q))'
      BY <3>1, BeganStays
    <3>4. ~ Wiped(f, q)'
      <4> SUFFICES ASSUME Wiped(f, q)' PROVE FALSE
        OBVIOUS
      <4>1. PICK s \in Made("record_success")' : Precedes(f, s)' /\ Precedes(s, q)'
        BY DEF Wiped
      <4>2. s \in DOMAIN calls /\ Precedes(s, q)
        BY <4>1, BeforeIsOld DEF Made
      <4>3. s \in Made("record_success") /\ Precedes(f, s)
        BY <3>1, <4>1, <4>2, MadeKept, OrderKept
      <4> QED BY <3>1, <4>2, <4>3 DEF Wiped
    <3> QED BY <3>2, <3>3, <3>4 DEF Possible
  <2>4. Cardinality(Due(q)) <= calls[q].count /\ calls[q].count <= Cardinality(Possible(q))
    BY <1>2 DEF ReadCount
  <2>5. Cardinality(Due(q)') <= Cardinality(Due(q))
        /\ Cardinality(Possible(q)) <= Cardinality(Possible(q)')
    BY <1>0, <2>2, <2>3, CardinalityMonotone
  <2> QED BY <1>0, <1>1, <2>1, <2>4, <2>5
<1>3. CASE LoadsCount(q)
  <2>1. /\ calls'[q].count = failures /\ calls'[q].to = 0
        /\ Counted("record_failure")' = Counted("record_failure")
    BY <1>3 DEF LoadsCount, Quiet
  <2>2. Due(q)' \subseteq Solid
    <3> SUFFICES ASSUME NEW f \in Due(q)' PROVE f \in Solid
      OBVIOUS
    <3>1. f \in Made("record_failure")' /\ Stands(f, q)'
      BY DEF Due
    <3>2. f \in DOMAIN calls /\ Complete(f)
      BY <3>1, BeforeIsOld DEF Stands, Made
    <3>3. f \in Counted("record_failure")
      BY <3>1, <3>2, MadeKept DEF Complete, Counted, Made
    <3>4. ASSUME NEW s \in Counted("record_success") PROVE Precedes(s, f)
      <4>1. s \in DOMAIN calls /\ s \in Made("record_success")'
        BY MadeKept DEF Counted, Made
      <4>2. Precedes(s, f)' \/ Precedes(q, s)'
        BY <3>1, <4>1 DEF Stands
      <4> QED BY <2>1, <3>2, <4>1, <4>2, OrderKept, NoneBefore
    <3> QED BY <3>3, <3>4 DEF Solid
  <2>3. Unwiped \subseteq Possible(q)'
    <3> SUFFICES ASSUME NEW f \in Unwiped PROVE f \in Possible(q)'
      OBVIOUS
    <3>1. f \in Counted("record_failure") /\ f \in DOMAIN calls
          /\ \A s \in Counted("record_success") : ~ Precedes(f, s)
      BY DEF Unwiped, Counted, Made
    <3>2. ~ Wiped(f, q)'
      <4> SUFFICES ASSUME Wiped(f, q)' PROVE FALSE
        OBVIOUS
      <4>1. PICK s \in Made("record_success")' : Precedes(f, s)' /\ Precedes(s, q)'
        BY DEF Wiped
      <4>2. s \in DOMAIN calls /\ Complete(s)
        BY <4>1, BeforeIsOld DEF Made
      <4>3. s \in Counted("record_success") /\ Precedes(f, s)
        BY <3>1, <4>1, <4>2, MadeKept, OrderKept DEF Complete, Counted, Made
      <4> QED BY <3>1, <4>3
    <3>3. ~ Finished(q)'
      BY <2>1 DEF Finished
    <3> QED BY <2>1, <3>1, <3>2, <3>3 DEF Possible
  <2>4. Cardinality(Due(q)') <= Cardinality(Solid)
        /\ Cardinality(Unwiped) <= Cardinality(Possible(q)')
    BY <1>0, <2>2, <2>3, CardinalityMonotone
  <2> QED BY <1>0, <1>1, <2>1, <2>4 DEF CountBounds
<1> QED BY <1>2, <1>3

LEMMA StampKept ==
  ASSUME Shape, Shape', Moves, StampSource, NEW q \in DOMAIN calls,
         calls[q].op = "is_open", ReadStamp(q),
         "stamp" \in calls'[q].did => "stamp" \in calls[q].did \/ LoadsStamp(q)
  PROVE  ReadStamp(q)'
<1> SUFFICES ASSUME "stamp" \in calls'[q].did
             PROVE  \/ /\ calls'[q].stamp = 0
                       /\ \A g \in Made("record_failure")' : ~ Precedes(g, q)'
                    \/ \E g \in Stamped' :
                         /\ calls'[g].now = calls'[q].stamp
                         /\ (Finished(q) => BeganBefore(g, q))'
                         /\ \A h \in Made("record_failure")' :
                              ~ (Precedes(g, h)' /\ Precedes(h, q)')
  BY DEF ReadStamp
\* A failure that precedes q had stored its time already.
<1>1. ASSUME NEW h \in Made("record_failure")', Precedes(h, q)'
      PROVE  h \in DOMAIN calls /\ h \in Stamped /\ h \in Made("record_failure") /\ Precedes(h, q)
  <2>1. h \in DOMAIN calls /\ Precedes(h, q) /\ Complete(h)
    BY <1>1, BeforeIsOld DEF Made
  <2>2. h \in Made("record_failure")
    BY <2>1, MadeKept
  <2> QED BY <2>1, <2>2 DEF Complete, Stamped, Made
<1>2. ASSUME NEW g \in Stamped
      PROVE  g \in Stamped' /\ calls'[g].now = calls[g].now /\ g \in DOMAIN calls
  <2>1. g \in DOMAIN calls /\ g \in Stamped'
    BY MadeKept DEF Stamped, Made
  <2> QED BY <2>1 DEF Moves, Goes, Stamped, Made, Shape
<1>3. CASE "stamp" \in calls[q].did
  <2>1. calls'[q].stamp = calls[q].stamp
    BY <1>3 DEF Moves, Goes
  <2>2. CASE calls[q].stamp = 0 /\ \A g \in Made("record_failure") : ~ Precedes(g, q)
    BY <1>1, <2>1, <2>2
  <2>3. CASE \E g \in Stamped :
               /\ calls[g].now = calls[q].stamp
               /\ Finished(q) => BeganBefore(g, q)
               /\ \A h \in Made("record_failure") : ~ (Precedes(g, h) /\ Precedes(h, q))
    <3>1. PICK g \in Stamped :
               /\ calls[g].now = calls[q].stamp
               /\ Finished(q) => BeganBefore(g, q)
               /\ \A h \in Made("record_failure") : ~ (Precedes(g, h) /\ Precedes(h, q))
      BY <2>3
    <3>2. (Finished(q) => BeganBefore(g, q))'
      BY <1>2, <3>1, BeganStays
    <3>3. \A h \in Made("record_failure")' : ~ (Precedes(g, h)' /\ Precedes(h, q)')
      BY <1>1, <1>2, <3>1, OrderKept
    <3> QED BY <1>2, <2>1, <3>1, <3>2, <3>3
  <2> QED BY <1>3, <2>2, <2>3 DEF ReadStamp
<1>4. CASE LoadsStamp(q)
  <2>1. calls'[q].stamp = last_failure_at /\ ~ Finished(q)'
    BY <1>4 DEF LoadsStamp, Finished
  <2>2. CASE last_failure_at = 0 /\ Stamped = {}
    BY <1>1, <2>1, <2>2
  <2>3. CASE \E g \in Stamped : /\ calls[g].now = last_failure_at
                                /\ \A h \in Stamped : ~ Precedes(g, h)
    <3>1. PICK g \in Stamped : /\ calls[g].now = last_failure_at
                               /\ \A h \in Stamped : ~ Precedes(g, h)
      BY <2>3
    <3>2. \A h \in Made("record_failure")' : ~ (Precedes(g, h)' /\ Precedes(h, q)')
      BY <1>1, <1>2, <3>1, OrderKept
    <3> QED BY <1>2, <2>1, <3>1, <3>2
  <2> QED BY <2>2, <2>3 DEF StampSource
<1> QED BY <1>3, <1>4

LEMMA BreakerStep == BreakerInv /\ [Next]_vars => BreakerInv'
<1> SUFFICES ASSUME BreakerInv, [Next]_vars PROVE BreakerInv'
  OBVIOUS
<1>1. Shape /\ CountBounds /\ StampSource
  BY DEF BreakerInv
<1>2. /\ Shape' /\ Moves /\ (Quiet \/ Counts \/ Resets) /\ (Unstamped \/ Stamps) /\ Loads
  BY <1>1, StepKinds
<1>3. CountBounds' /\ StampSource'
  BY <1>1, <1>2, BoundsKept, SourceKept
<1>4. ASSUME NEW q \in Made("is_open")' PROVE ReadCount(q)' /\ ReadStamp(q)'
  <2>1. CASE q \in DOMAIN calls
    <3>1. q \in Made("is_open") /\ calls[q].op = "is_open" /\ calls'[q].op = "is_open"
          /\ q \in DOMAIN calls'
      BY <1>2, <2>1, MadeKept DEF Made
    <3>2. ReadCount(q) /\ ReadStamp(q)
      BY <3>1 DEF BreakerInv
    <3>3. /\ "count" \in calls'[q].did => "count" \in calls[q].did \/ LoadsCount(q)
          /\ "stamp" \in calls'[q].did => "stamp" \in calls[q].did \/ LoadsStamp(q)
      BY <1>2, <3>1 DEF Loads
    <3> QED BY <1>1, <1>2, <2>1, <3>1, <3>2, <3>3, CountKept, StampKept
  <2>2. CASE q \notin DOMAIN calls
    <3>1. calls'[q].did = {}
      BY <1>2, <2>2 DEF Moves, Made
    <3> QED BY <3>1 DEF ReadCount, ReadStamp
  <2> QED BY <2>1, <2>2
<1> QED BY <1>2, <1>3, <1>4 DEF BreakerInv

THEOREM BreakerInvariant == Spec => []BreakerInv
BY BreakerInit, BreakerStep, PTL DEF Spec

\* What an answered is_open had read.
LEMMA AnsweredCall ==
  ASSUME BreakerInv, NEW q \in Answered
  PROVE  /\ q \in DOMAIN calls /\ calls[q] \in CallType /\ calls[q].now \in Clocks
         /\ calls[q].open = is_open(calls[q].count, calls[q].stamp, calls[q].now)
         /\ calls[q].count >= MaxFails => "stamp" \in calls[q].did
         /\ Cardinality(Due(q)) <= calls[q].count
         /\ calls[q].count <= Cardinality(Possible(q))
         /\ "stamp" \in calls[q].did => ReadStamp(q)
         /\ Finished(q) /\ q \in Made("is_open")
<1>1. q \in Made("is_open") /\ Finished(q) /\ q \in DOMAIN calls /\ calls[q].op = "is_open"
  BY DEF Answered, Made
<1>2. Complete(q) /\ calls[q] \in CallType
  BY <1>1 DEF BreakerInv, Shape
<1>3. ReadCount(q) /\ ReadStamp(q)
  BY <1>1 DEF BreakerInv
<1> QED BY <1>1, <1>2, <1>3 DEF Complete, ReadCount

\* A provider is skipped only for failures that were recorded, for any
\* number of threads: the stamp of a breaker that nobody stamped is the
\* epoch, which no clock is near.
THEOREM OpenIsEarnedAlways == Spec => []OpenIsEarned
<1>1. BreakerInv => OpenIsEarned
  <2> SUFFICES ASSUME BreakerInv, NEW q \in Answered, calls[q].open
      PROVE  LET begun == {f \in Made("record_failure") : BeganBefore(f, q)} IN
             /\ Cardinality({f \in begun : ~ Wiped(f, q)}) >= MaxFails
             /\ MaxFails > 0 => \E f \in begun : Recent(f, q)
    BY Zenon DEF OpenIsEarned
  <2> DEFINE begun == {f \in Made("record_failure") : BeganBefore(f, q)}
  <2>1. /\ calls[q].count >= MaxFails /\ Since(calls[q].stamp, calls[q].now) < FailTimeout
        /\ calls[q].count <= Cardinality(Possible(q)) /\ ReadStamp(q) /\ Finished(q)
        /\ calls[q].count \in Nat /\ calls[q].now \in Clocks /\ "stamp" \in calls[q].did
        /\ calls[q].now \in Nat
    BY AnsweredCall, BreakerAssumption DEF is_open, CallType
  <2>2. Cardinality({f \in begun : ~ Wiped(f, q)}) >= MaxFails
    <3>1. Possible(q) \subseteq {f \in begun : ~ Wiped(f, q)}
      BY <2>1 DEF Possible, Counted
    <3>2. {f \in begun : ~ Wiped(f, q)} \subseteq DOMAIN calls
      BY DEF Made
    <3>3. IsFiniteSet({f \in begun : ~ Wiped(f, q)})
          /\ Cardinality({f \in begun : ~ Wiped(f, q)}) \in Nat
      BY <3>2, CallsAreFinite DEF BreakerInv
    <3>4. Cardinality(Possible(q)) <= Cardinality({f \in begun : ~ Wiped(f, q)})
      BY <3>1, <3>3, CardinalityMonotone
    <3>5. Cardinality(Possible(q)) \in Nat
      BY CallsAreFinite, SetsAreFinite DEF BreakerInv
    <3> HIDE DEF begun
    <3> QED BY <2>1, <3>3, <3>4, <3>5, BreakerAssumption
  <2>3. \E f \in begun : Recent(f, q)
    <3>1. calls[q].stamp # 0
      BY <2>1, BreakerAssumption DEF Since
    <3>2. PICK g \in Stamped : calls[g].now = calls[q].stamp /\ BeganBefore(g, q)
      BY <2>1, <3>1 DEF ReadStamp
    <3>3. "now" \in calls[g].did
      BY DEF BreakerInv, Shape, Stamped, Made
    <3> QED BY <2>1, <3>2, <3>3 DEF Recent, Stamped
  <2> QED BY <2>2, <2>3
<1> QED BY <1>1, BreakerInvariant, PTL

\* A provider that is down is skipped, for any number of threads, if it takes
\* a failure at all to open the breaker.
THEOREM SkippedWhenDownAlways ==
  ASSUME MaxFails > 0 PROVE Spec => []SkippedWhenDown
<1>1. BreakerInv => SkippedWhenDown
  <2> SUFFICES ASSUME BreakerInv, NEW q \in Answered,
                      Cardinality(Due(q)) >= MaxFails,
                      \A f \in Made("record_failure") : MayShow(f, q) => Recent(f, q)
               PROVE  calls[q].open
    BY DEF SkippedWhenDown, Due
  <2>1. Cardinality(Due(q)) \in Nat /\ MaxFails \in Nat
    BY CallsAreFinite, SetsAreFinite, BreakerAssumption DEF BreakerInv
  <2>2. calls[q].count >= MaxFails /\ ReadStamp(q) /\ "stamp" \in calls[q].did /\ Finished(q)
        /\ calls[q].open = is_open(calls[q].count, calls[q].stamp, calls[q].now)
    <3>1. Cardinality(Due(q)) <= calls[q].count /\ calls[q].count \in Nat
      BY AnsweredCall DEF CallType
    <3>2. calls[q].count >= MaxFails
      BY <2>1, <3>1
    <3> QED BY <3>2, AnsweredCall
  <2>3. PICK d \in Due(q) : d \in Made("record_failure") /\ Precedes(d, q)
    <3>1. Due(q) # {}
      BY <2>1, FS_EmptySet
    <3> QED BY <3>1 DEF Due, Stands
  <2>4. PICK g \in Stamped :
          /\ calls[g].now = calls[q].stamp /\ BeganBefore(g, q)
          /\ \A h \in Made("record_failure") : ~ (Precedes(g, h) /\ Precedes(h, q))
    BY <2>2, <2>3 DEF ReadStamp
  <2>5. g \in Made("record_failure") /\ MayShow(g, q)
    BY <2>4 DEF Stamped, MayShow
  <2>6. Since(calls[q].stamp, calls[q].now) < FailTimeout
    BY <2>4, <2>5 DEF Recent
  <2> QED BY <2>2, <2>6 DEF is_open
<1> QED BY <1>1, BreakerInvariant, PTL

=============================================================================
