---------------------------- MODULE ChanMonitor ----------------------------
(***************************************************************************)
(* What the channels of src/csp/chan.h are built with: the waiting set of  *)
(* a channel's condition variable and the mutex of a shared end.           *)
(***************************************************************************)
CONSTANT NoProc   \* owner of a free mutex

\* Mutant: the notification of a completed read or write is forgotten.
NotifyNobody(S) == {S}

\* notify_one: the wait sets that waking one waiter of S can leave.
NotifyOne(S) == IF S = {} THEN {{}} ELSE {S \ {p} : p \in S}

\* Mutant: poison wakes nobody.
NotifyAllNobody(S) == S

\* notify_all: the wait set once every waiter of S is woken.
NotifyAll(S) == {}

\* Mutant: an operation does not wait for the end's mutex.
AlwaysFree(shared, owner) == TRUE

\* Can a process lock the mutex of an end?  A plain end has none.
Free(shared, owner) == shared => owner = NoProc

\* Mutant: the end's mutex is released while its owner waits.
LockNothing(shared, p) == NoProc

\* The owner of an end's mutex while p holds it, and once it is released.
Lock(shared, p) == IF shared THEN p ELSE NoProc
=============================================================================
