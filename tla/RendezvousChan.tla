--------------------------- MODULE RendezvousChan ---------------------------
(***************************************************************************)
(* What an unbuffered channel promises, without mutexes, wait sets or      *)
(* flags: a writer that offers a value and a reader that wants one meet in *)
(* a single step, the reader leaves with the value and the writer may      *)
(* return afterwards and not before.  Poison dooms every call in progress  *)
(* and every later one; a doomed call delivers nothing.  Only a poisoned   *)
(* channel may bring the program down.                                     *)
(***************************************************************************)
EXTENDS Naturals, Sequences

CONSTANTS Readers, Writers, Values

VARIABLES
    wstate,    \* each writer: idle, offering, accepted (its value is taken), doomed
    rstate,    \* each reader: idle, wanting, doomed
    offer,     \* the value of each writer's latest write
    log,       \* the values handed over, in order
    poisoned,
    down       \* the program has stopped

vars == <<wstate, rstate, offer, log, poisoned, down>>

Init ==
    /\ wstate = [w \in Writers |-> "idle"]
    /\ rstate = [r \in Readers |-> "idle"]
    /\ offer \in [Writers -> Values]
    /\ log = << >>
    /\ poisoned = FALSE
    /\ down = FALSE

\* A call on a poisoned channel is doomed from the start.
Offer(w, v) ==
    /\ ~down /\ wstate[w] = "idle"
    /\ wstate' = [wstate EXCEPT ![w] = IF poisoned THEN "doomed" ELSE "offering"]
    /\ offer' = [offer EXCEPT ![w] = v]
    /\ UNCHANGED <<rstate, log, poisoned, down>>

Want(r) ==
    /\ ~down /\ rstate[r] = "idle"
    /\ rstate' = [rstate EXCEPT ![r] = IF poisoned THEN "doomed" ELSE "wanting"]
    /\ UNCHANGED <<wstate, offer, log, poisoned, down>>

\* The rendezvous.
Meet(w, r) ==
    /\ ~down /\ ~poisoned
    /\ wstate[w] = "offering" /\ rstate[r] = "wanting"
    /\ wstate' = [wstate EXCEPT ![w] = "accepted"]
    /\ rstate' = [rstate EXCEPT ![r] = "idle"]
    /\ log' = Append(log, offer[w])
    /\ UNCHANGED <<offer, poisoned, down>>

Return(w) ==
    /\ ~down /\ wstate[w] = "accepted"
    /\ wstate' = [wstate EXCEPT ![w] = "idle"]
    /\ UNCHANGED <<rstate, offer, log, poisoned, down>>

\* A writer whose value is already taken is doomed too if it has not returned.
Poison ==
    /\ ~down
    /\ poisoned' = TRUE
    /\ wstate' = [w \in Writers |->
                     IF wstate[w] = "idle" THEN "idle" ELSE "doomed"]
    /\ rstate' = [r \in Readers |->
                     IF rstate[r] = "idle" THEN "idle" ELSE "doomed"]
    /\ UNCHANGED <<offer, log, down>>

\* A doomed reader gets the exception.
Fail(r) ==
    /\ ~down /\ rstate[r] = "doomed"
    /\ rstate' = [rstate EXCEPT ![r] = "idle"]
    /\ UNCHANGED <<wstate, offer, log, poisoned, down>>

\* A doomed call may also stop the program.
Collapse ==
    /\ ~down
    /\ \/ \E w \in Writers : wstate[w] = "doomed"
       \/ \E r \in Readers : rstate[r] = "doomed"
    /\ down' = TRUE
    /\ UNCHANGED <<wstate, rstate, offer, log, poisoned>>

Next ==
    \/ \E w \in Writers : (\E v \in Values : Offer(w, v)) \/ Return(w)
    \/ \E r \in Readers : Want(r) \/ Fail(r)
    \/ \E w \in Writers, r \in Readers : Meet(w, r)
    \/ Poison \/ Collapse

Spec == Init /\ [][Next]_vars
=============================================================================
