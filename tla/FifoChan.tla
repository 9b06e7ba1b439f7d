------------------------------ MODULE FifoChan ------------------------------
(***************************************************************************)
(* What a buffered channel promises, without mutexes or wait sets: a queue *)
(* of at most size values (unbounded when size is 0).  A write stores its  *)
(* value and returns once there is room for another one; a read takes the  *)
(* oldest value.  Poison dooms every call in progress and every later one. *)
(***************************************************************************)
EXTENDS Naturals, Sequences

CONSTANTS Readers, Writers, Values

VARIABLES
    size,      \* the capacity, fixed
    queue,     \* the values stored, oldest first
    log,       \* the values taken, in order
    wstate,    \* each writer: idle, writing, stored, doomed
    rstate,    \* each reader: idle, wanting, doomed
    offer,     \* the value of each writer's latest write
    poisoned,
    down       \* the program has stopped

vars == <<size, queue, log, wstate, rstate, offer, poisoned, down>>

HasRoom == size = 0 \/ Len(queue) < size

Init ==
    /\ size \in Nat
    /\ queue = << >> /\ log = << >>
    /\ wstate = [w \in Writers |-> "idle"]
    /\ rstate = [r \in Readers |-> "idle"]
    /\ offer \in [Writers -> Values]
    /\ poisoned = FALSE /\ down = FALSE

Offer(w, v) ==
    /\ ~down /\ wstate[w] = "idle"
    /\ wstate' = [wstate EXCEPT ![w] = IF poisoned THEN "doomed" ELSE "writing"]
    /\ offer' = [offer EXCEPT ![w] = v]
    /\ UNCHANGED <<size, queue, log, rstate, poisoned, down>>

\* Store the value; a write that leaves room returns at once.
Put(w) ==
    /\ ~down /\ ~poisoned /\ wstate[w] = "writing" /\ HasRoom
    /\ queue' = Append(queue, offer[w])
    /\ wstate' = [wstate EXCEPT ![w] = IF HasRoom' THEN "idle" ELSE "stored"]
    /\ UNCHANGED <<size, log, rstate, offer, poisoned, down>>

Return(w) ==
    /\ ~down /\ wstate[w] = "stored" /\ HasRoom
    /\ wstate' = [wstate EXCEPT ![w] = "idle"]
    /\ UNCHANGED <<size, queue, log, rstate, offer, poisoned, down>>

Want(r) ==
    /\ ~down /\ rstate[r] = "idle"
    /\ rstate' = [rstate EXCEPT ![r] = IF poisoned THEN "doomed" ELSE "wanting"]
    /\ UNCHANGED <<size, queue, log, wstate, offer, poisoned, down>>

Take(r) ==
    /\ ~down /\ ~poisoned /\ rstate[r] = "wanting" /\ queue # << >>
    /\ queue' = Tail(queue) /\ log' = Append(log, Head(queue))
    /\ rstate' = [rstate EXCEPT ![r] = "idle"]
    /\ UNCHANGED <<size, wstate, offer, poisoned, down>>

\* An extended read inside another one is refused.
Refuse(r) ==
    /\ ~down /\ rstate[r] \in {"wanting", "doomed"}
    /\ rstate' = [rstate EXCEPT ![r] = "idle"]
    /\ UNCHANGED <<size, queue, log, wstate, offer, poisoned, down>>

Poison ==
    /\ ~down /\ poisoned' = TRUE
    /\ wstate' = [w \in Writers |->
                     IF wstate[w] = "idle" THEN "idle" ELSE "doomed"]
    /\ rstate' = [r \in Readers |->
                     IF rstate[r] = "idle" THEN "idle" ELSE "doomed"]
    /\ UNCHANGED <<size, queue, log, offer, down>>

\* A doomed write may stop the program.
Collapse ==
    /\ ~down /\ \E w \in Writers : wstate[w] = "doomed"
    /\ down' = TRUE
    /\ UNCHANGED <<size, queue, log, wstate, rstate, offer, poisoned>>

Next ==
    \/ \E w \in Writers : (\E v \in Values : Offer(w, v)) \/ Put(w) \/ Return(w)
    \/ \E r \in Readers : Want(r) \/ Take(r) \/ Refuse(r)
    \/ Poison \/ Collapse

Spec == Init /\ [][Next]_vars
=============================================================================
