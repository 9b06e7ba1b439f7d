----------------------------- MODULE BarrierOps -----------------------------
(***************************************************************************)
(* The operations of barrier_internal (src/csp/barrier.h), each the        *)
(* critical section of its mutex, as functions of the barrier's state: the *)
(* two counters and the set of the processes that wait on _cond and are    *)
(* not notified.                                                           *)
(***************************************************************************)
EXTENDS Naturals

CONSTANT UIntMax   \* the largest unsigned int

ASSUME UIntAssumption == UIntMax \in Nat \ {0}

\* The constructor, and the state reset leaves when nobody waits.
NewBarrier(n) == [enrolled |-> n, countDown |-> n, cond |-> {}]

\* Unsigned arithmetic wraps.
Inc(n) == IF n = UIntMax THEN 0 ELSE n + 1
Dec(n) == IF n = 0 THEN UIntMax ELSE n - 1

\* The counter restarts and every waiter is notified.
Complete(b) == [enrolled |-> b.enrolled, countDown |-> b.enrolled, cond |-> {}]

\* Mutant: the counter is compared before it is decremented.
SyncLate(b, p) ==
    IF b.countDown > 0
    THEN [b EXCEPT !.countDown = Dec(@), !.cond = @ \cup {p}]
    ELSE Complete(b)

\* Mutant: the counter is not restarted when the barrier completes.
SyncNoRestart(b, p) ==
    IF Dec(b.countDown) > 0
    THEN [b EXCEPT !.countDown = Dec(@), !.cond = @ \cup {p}]
    ELSE [b EXCEPT !.countDown = Dec(@), !.cond = {}]

\* sync by p: the last process to arrive completes the barrier.
Sync(b, p) ==
    IF Dec(b.countDown) > 0
    THEN [b EXCEPT !.countDown = Dec(@), !.cond = @ \cup {p}]
    ELSE Complete(b)

\* Mutant: a process that enrolls is not waited for in this round.
EnrollLate(b) == [b EXCEPT !.enrolled = Inc(@)]

Enroll(b) == [b EXCEPT !.enrolled = Inc(@), !.countDown = Inc(@)]

\* Mutant: resign does not complete a barrier it was the last to hold up.
ResignSilently(b) == [b EXCEPT !.enrolled = Dec(@), !.countDown = Dec(@)]

Resign(b) ==
    LET c == [b EXCEPT !.enrolled = Dec(@), !.countDown = Dec(@)]
    IN  IF c.countDown = 0 THEN Complete(c) ELSE c

\* reset changes the counters and notifies nobody.
Reset(b, n) == [b EXCEPT !.enrolled = n, !.countDown = n]
=============================================================================
