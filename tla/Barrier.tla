------------------------------- MODULE Barrier -------------------------------
(***************************************************************************)
(* A barrier (src/csp/barrier.h) and the processes that use it: a process  *)
(* that is enrolled syncs or resigns, one that is not may enroll, and      *)
(* between two rounds reset may enroll a new set.  The code counts; which  *)
(* processes it counts is known to the callers only (members).             *)
(***************************************************************************)
EXTENDS BarrierOps, FiniteSets

CONSTANT Procs

ASSUME ProcsAssumption == IsFiniteSet(Procs) /\ Cardinality(Procs) <= UIntMax

VARIABLES
    bar,       \* the barrier_internal
    pc,        \* is each process idle or inside sync?
    members    \* the enrolled processes

vars == <<bar, pc, members>>

Init ==
    /\ members \in SUBSET Procs
    /\ bar = NewBarrier(Cardinality(members))
    /\ pc = [p \in Procs |-> "idle"]

CallSync(p) ==
    /\ p \in members /\ pc[p] = "idle"
    /\ bar' = Sync(bar, p)
    /\ pc' = [pc EXCEPT ![p] = "sync"]
    /\ UNCHANGED members

\* A process that was notified, or was the last to arrive, leaves sync.
Return(p) ==
    /\ pc[p] = "sync" /\ p \notin bar.cond
    /\ pc' = [pc EXCEPT ![p] = "idle"]
    /\ UNCHANGED <<bar, members>>

CallEnroll(p) ==
    /\ p \notin members /\ pc[p] = "idle"
    /\ bar' = Enroll(bar)
    /\ members' = members \cup {p}
    /\ UNCHANGED pc

CallResign(p) ==
    /\ p \in members /\ pc[p] = "idle"
    /\ bar' = Resign(bar)
    /\ members' = members \ {p}
    /\ UNCHANGED pc

\* The caller resets a barrier on which nobody waits (par does, see Par).
CallReset(M) ==
    /\ bar.cond = {}
    /\ bar' = Reset(bar, Cardinality(M))
    /\ members' = M
    /\ UNCHANGED pc

Next ==
    \/ \E p \in Procs : CallSync(p) \/ Return(p) \/ CallEnroll(p) \/ CallResign(p)
    \/ \E M \in SUBSET Procs : CallReset(M)

Spec == Init /\ [][Next]_vars

-----------------------------------------------------------------------------
(* Properties.                                                             *)

\* Type invariant.
TypeOK ==
    /\ bar \in [enrolled : 0..UIntMax, countDown : 0..UIntMax, cond : SUBSET Procs]
    /\ pc \in [Procs -> {"idle", "sync"}]
    /\ members \in SUBSET Procs

\* The counters stay in step with the processes through every mix of sync,
\* enroll, resign and reset: countDown is the number of members the round
\* still waits for, and neither counter wraps.
CountsMembers ==
    /\ bar.enrolled = Cardinality(members)
    /\ bar.countDown = Cardinality(members \ bar.cond)
    /\ bar.cond \subseteq members
    /\ \A p \in bar.cond : pc[p] = "sync"

\* The members never all wait: as long as anyone waits, some member has still
\* to arrive, and a resignation that leaves only waiters releases them
\* (resign, barrier.h 99-112).
NobodyStranded == bar.cond # {} => \E p \in members : p \notin bar.cond

\* The two counters and the condition variable implement the barrier on sets
\* of processes: nobody leaves before the last member has arrived, and then
\* everybody may.
Abstract == INSTANCE BarrierSpec WITH
    arrived <- bar.cond,
    leaving <- {p \in Procs : pc[p] = "sync" /\ p \notin bar.cond}

ImplementsBarrier == Abstract!Spec
=============================================================================
