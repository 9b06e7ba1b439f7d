----------------------------- MODULE BarrierSpec -----------------------------
(***************************************************************************)
(* What a barrier promises: a process that arrives leaves when every       *)
(* member has arrived or resigned, and not before.                         *)
(***************************************************************************)
CONSTANT Procs

VARIABLES
    members,   \* the enrolled processes
    arrived,   \* members that have arrived in this round
    leaving    \* processes released by the round that completed

vars == <<members, arrived, leaving>>

Init ==
    /\ members \in SUBSET Procs
    /\ arrived = {} /\ leaving = {}

\* The round is over when M has arrived: everyone in A is released.
Settle(M, A, released) ==
    /\ members' = M
    /\ IF A = M
       THEN arrived' = {} /\ leaving' = released \cup A
       ELSE arrived' = A  /\ leaving' = released

Arrive(p) ==
    /\ p \in members \ (arrived \cup leaving)
    /\ Settle(members, arrived \cup {p}, leaving)

Leave(p) ==
    /\ p \in leaving
    /\ leaving' = leaving \ {p}
    /\ UNCHANGED <<members, arrived>>

Join(p) ==
    /\ p \in Procs \ members
    /\ members' = members \cup {p}
    /\ UNCHANGED <<arrived, leaving>>

Quit(p) ==
    /\ p \in members \ (arrived \cup leaving)
    /\ Settle(members \ {p}, arrived, leaving)

\* A new set of members, between two rounds.
Renew(M) ==
    /\ arrived = {}
    /\ members' = M
    /\ UNCHANGED <<arrived, leaving>>

Next ==
    \/ \E p \in Procs : Arrive(p) \/ Leave(p) \/ Join(p) \/ Quit(p)
    \/ \E M \in SUBSET Procs : Renew(M)

Spec == Init /\ [][Next]_vars
=============================================================================
