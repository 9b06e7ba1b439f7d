------------------------------- MODULE Network -------------------------------
(***************************************************************************)
(* A par of processes that are connected by channels, run to its end or    *)
(* for ever.  A communication is one step of its two processes: BasicChan  *)
(* implements the rendezvous, and Alt returns a guard whose read does not  *)
(* block.  Only the order of the communications is left to chance.         *)
(***************************************************************************)
EXTENDS Demos

CONSTANT Nets     \* the networks that are run: a function on their names

VARIABLES
    net,     \* the network's name
    proc,    \* each process: its phase, its variables, and the communications
             \* of the phase that have not happened, by number
    got      \* the first values that have gone through each watched channel

vars == <<net, proc, got>>

Procs == DOMAIN proc
Watch == DOMAIN got

\* Process pr at its phase k with store s.
At(pr, k, s) ==
    LET phase == pr.body[s][k]
    IN  [at |-> k, store |-> s, one |-> phase.one, left |-> phase.comms]

Init ==
    /\ net \in DOMAIN Nets
    /\ proc = [p \in DOMAIN Nets[net].procs |->
                At(Nets[net].procs[p], 1, [x |-> 0, y |-> 0, i |-> 0, n |-> 0])]
    /\ got = [c \in DOMAIN Nets[net].watch |-> << >>]

\* The variables of a process after communication c, which received vals.
Received(store, c, vals) ==
    LET read(v) == {k \in IF c.kind = "in" THEN DOMAIN c.vars ELSE {} : c.vars[k] = v}
    IN  [v \in DOMAIN store |->
            IF v \in DOMAIN c.set THEN c.set[v]
            ELSE IF read(v) # {} THEN vals[CHOOSE k \in read(v) : TRUE]
            ELSE store[v]]

\* Process p after its communication j, in which it received vals.
Did(p, j, vals) ==
    LET pr == Nets[net].procs[p]
        c  == proc[p].left[j]
        s  == Received(proc[p].store, c, vals)
        next == IF proc[p].at = Len(pr.body[s]) THEN pr.loop ELSE proc[p].at + 1
    IN  IF proc[p].one \/ DOMAIN proc[p].left = {j}
        THEN At(pr, IF c.to = 0 THEN next ELSE c.to, s)
        ELSE [proc[p] EXCEPT !.store = s,
                             !.left = [k \in DOMAIN @ \ {j} |-> @[k]]]

\* The writer's communication c and the reader's d are the two ends of one.
Meet(c, d) == c.kind = "out" /\ d.kind = "in" /\ c.chan = d.chan

\* The record of channel c has all the values that it is to hold.
Full(c) == Len(got[c]) >= MaxReads

\* The records after vals have gone through channel c.
Recorded(c, vals) ==
    IF c \in Watch /\ ~Full(c) THEN [got EXCEPT ![c] = Append(@, vals)] ELSE got

Communicate ==
    \E p, q \in Procs : \E i \in DOMAIN proc[p].left, j \in DOMAIN proc[q].left :
        LET c == proc[p].left[i] IN
        /\ Meet(c, proc[q].left[j])
        /\ proc' = [proc EXCEPT ![p] = Did(p, i, << >>), ![q] = Did(q, j, c.vals)]
        /\ got' = Recorded(c.chan, c.vals)
        /\ UNCHANGED net

\* A timer, or an empty par.
Internal ==
    \E p \in Procs : \E j \in DOMAIN proc[p].left :
        /\ proc[p].left[j].kind = "tau"
        /\ proc' = [proc EXCEPT ![p] = Did(p, j, << >>)]
        /\ UNCHANGED <<net, got>>

Ended(p) == proc[p].left = << >>

\* The par returns when all its processes have ended.
Returned == \A p \in Procs : Ended(p)

\* The processes that end have ended, in a network that has some.  The others
\* may be left behind: then the par does not return.
Done == Nets[net].ends # {} /\ \A p \in Nets[net].ends : Ended(p)

Rest == Done /\ UNCHANGED vars

Next == Communicate \/ Internal \/ Rest

Spec == Init /\ [][Next]_vars

\* The threads of a par run: some process goes on as long as one can.
FairSpec == Spec /\ WF_vars(Communicate \/ Internal)

-----------------------------------------------------------------------------
(* Properties.                                                             *)

\* No network stops early: as long as a process that ends has not, and for
\* ever in a network in which none ends, some process can go on.  For the
\* philosophers this is what SECURITY is for, for commstime that delta and
\* prefix start the loop.  Once the consumer of commstime has returned delta
\* waits for it and everybody for delta; stressedalt stops in the same way
\* after its reader.  The par of these two never returns.
DeadlockFree ==
    \/ Done
    \/ \E p \in Procs : \E i \in DOMAIN proc[p].left :
          \/ proc[p].left[i].kind = "tau"
          \/ \E q \in Procs : \E j \in DOMAIN proc[q].left :
                Meet(proc[p].left[i], proc[q].left[j])

\* The first values on every watched channel are those its network is meant to
\* compute, however the processes are interleaved.  What merge is meant to put
\* out is left open (MergeNet).
StreamsAreRight == \A c \in Watch : Nets[net].watch[c][got[c]]

\* Neighbours never eat at the same time: a fork is held by one of them.
NeighboursExclude ==
    net = "diningphil" =>
        \A i \in 1..Philosophers :
            ~(proc[i].at \in Eating /\ proc[(i % Philosophers) + 1].at \in Eating)

\* The picture of the farm has all its lines when the par returns: no worker
\* ends with a line that it has read, and the consumer waits for the last one.
PictureIsComplete ==
    net = "farm" /\ Returned =>
        {got[<<"data">>][i][1] : i \in DOMAIN got[<<"data">>]} = 0..(Lines - 1)

\* Every network gets its work done: the processes that end get there (all of
\* them in the farm and montecarlopi, the consumer of commstime, the reader of
\* stressedalt), the others put out values on a watched channel; the
\* philosophers go on eating.
WorkIsDone ==
    []<>(CASE net = "diningphil" -> \E i \in 1..Philosophers : proc[i].at \in Eating
           [] Nets[net].ends # {} -> Done
           [] OTHER -> \E c \in Watch : Full(c))
=============================================================================
