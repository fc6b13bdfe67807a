---------------------------- MODULE BreakerProps ----------------------------
(* What the readers of a breaker may rely on, whatever the interleaving.    *)
EXTENDS Breaker

Made(op) == {i \in DOMAIN calls : calls[i].op = op}
Finished(i) == calls[i].to # 0
Precedes(i, j) == Finished(i) /\ calls[i].to < calls[j].from
BeganBefore(i, j) == calls[i].from < calls[j].to

\* Failure f was recorded, and a success wiped it, before call q began.
Wiped(f, q) == \E s \in Made("record_success") : Precedes(f, s) /\ Precedes(s, q)

\* Failure f certainly counts for q: it was recorded before q, and no success
\* ran beside it or after it.
Stands(f, q) ==
    /\ Precedes(f, q)
    /\ \A s \in Made("record_success") : Precedes(s, f) \/ Precedes(q, s)

\* f's time stamp may be the one q reads.
MayShow(f, q) ==
    /\ BeganBefore(f, q)
    /\ \A g \in Made("record_failure") : ~ (Precedes(f, g) /\ Precedes(g, q))

Recent(f, q) == "now" \in calls[f].did /\ Since(calls[f].now, calls[q].now) < FailTimeout

Answered == {q \in Made("is_open") : Finished(q)}

\* A provider is skipped only for a cause: is_open answers TRUE only when at
\* least max_fails failures that no success had wiped had begun, and one of
\* the failures is younger than fail_timeout by the clock it read.
OpenIsEarned ==
    \A q \in Answered : calls[q].open =>
        LET begun == {f \in Made("record_failure") : BeganBefore(f, q)} IN
        /\ Cardinality({f \in begun : ~ Wiped(f, q)}) >= MaxFails
        /\ MaxFails > 0 => \E f \in begun : Recent(f, q)

\* A provider that is down is skipped: when max_fails failures were recorded
\* before the call with no success beside or after them, and every time stamp
\* the call may read is recent, is_open answers TRUE.
SkippedWhenDown ==
    \A q \in Answered :
        /\ Cardinality({f \in Made("record_failure") : Stands(f, q)}) >= MaxFails
        /\ \A f \in Made("record_failure") : MayShow(f, q) => Recent(f, q)
        => calls[q].open
=============================================================================
