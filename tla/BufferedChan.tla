---------------------------- MODULE BufferedChan ----------------------------
(***************************************************************************)
(* The buffered channel of src/csp/chan.h (buffered_chan_internal) over a  *)
(* buffer or an infinite_buffer (chan_data_store.h), behind the same ends  *)
(* as BasicChan and in the same style: every critical section of the       *)
(* channel's mutex is one step, a Resume step is the rest of an operation  *)
(* after its _cond.wait, and the end mutexes are explicit.                 *)
(*                                                                         *)
(* size = 0 is the infinite_buffer.  It is also buffer(0): the state of an *)
(* empty buffer is EMPTY before its size is looked at, so it never is FULL.*)
(* Selection over the channel is not part of this module.                  *)
(***************************************************************************)
EXTENDS Naturals, Sequences, ChanMonitor

CONSTANTS
    Readers,         \* processes that use the input end
    Writers,         \* processes that use the output end
    Values,          \* the messages
    Sizes,           \* the buffer sizes the channel may be created with
    SharedIn,        \* is the input end a shared_chan_in?
    SharedOut,       \* is the output end a shared_chan_out?
    Strengths,       \* poison strengths that processes apply
    ExtendedReads,   \* do readers also use start_read / end_read?
    MaxWrites        \* bound: no write is called after this many values

ASSUME ProcAssumption ==
    /\ Readers \cap Writers = {}
    /\ NoProc \notin Readers \cup Writers
    /\ SharedIn \in BOOLEAN /\ SharedOut \in BOOLEAN
    /\ ~SharedIn  => \A p, q \in Readers : p = q
    /\ ~SharedOut => \A p, q \in Writers : p = q

ASSUME ParameterAssumption ==
    /\ Strengths \subseteq Nat \ {0}
    /\ Sizes \subseteq Nat
    /\ Values # {} /\ ExtendedReads \in BOOLEAN /\ MaxWrites \in Nat

VARIABLES
    size,      \* the buffer's _size
    buffer,    \* the buffer's _buffer, oldest value first
    reading,   \* _reading
    strength,  \* _strength
    cond,      \* the processes that wait on _cond and are not notified
    mutIn,     \* owner of shared_chan_in_internal::_mut
    mutOut,    \* owner of shared_chan_out_internal::_mut
    pc,        \* where each process is
    arg,       \* the argument of each writer's latest write
    status,    \* "running", "terminated" (std::terminate), "undefined"
    received   \* history: the values returned to readers, in order

chan == <<size, buffer, reading, strength>>
ends == <<mutIn, mutOut>>
vars == <<size, buffer, reading, strength, cond, mutIn, mutOut, pc, arg, status,
          received>>

Procs == Readers \cup Writers

ReaderPC == {"idle", "read", "read_wait", "start_read", "start_read_wait",
             "extended"}
WriterPC == {"idle", "write", "write_wait"}

Goto(p, l) == pc' = [pc EXCEPT ![p] = l]

\* Mutant: the buffer is FULL only when it holds more than _size values.
GetStateLate(b) ==
    IF b = << >> THEN "EMPTY" ELSE IF size > 0 /\ Len(b) > size THEN "FULL"
    ELSE "NONEMPTYFULL"

\* get_state of buffer_internal and of infinite_buffer_internal.
GetState(b) ==
    IF b = << >> THEN "EMPTY" ELSE IF Len(b) = size THEN "FULL"
    ELSE "NONEMPTYFULL"

Init ==
    /\ size \in Sizes /\ buffer = << >>
    /\ reading = FALSE /\ strength = 0
    /\ cond = {} /\ mutIn = NoProc /\ mutOut = NoProc
    /\ pc = [p \in Procs |-> "idle"]
    /\ arg = [w \in Writers |-> CHOOSE v \in Values : TRUE]
    /\ status = "running"
    /\ received = << >>

-----------------------------------------------------------------------------
(* Calls.  The processes are external: any idle process may call.          *)

CallRead(r) ==
    /\ status = "running" /\ pc[r] = "idle"
    /\ Goto(r, "read")
    /\ UNCHANGED <<chan, cond, ends, arg, status, received>>

CallStartRead(r) ==
    /\ ExtendedReads
    /\ status = "running" /\ pc[r] = "idle"
    /\ Goto(r, "start_read")
    /\ UNCHANGED <<chan, cond, ends, arg, status, received>>

CallWrite(w, v) ==
    /\ Len(received) + Len(buffer) < MaxWrites
    /\ status = "running" /\ pc[w] = "idle"
    /\ Goto(w, "write")
    /\ arg' = [arg EXCEPT ![w] = v]
    /\ UNCHANGED <<chan, cond, ends, status, received>>

-----------------------------------------------------------------------------
(* write.  As for BasicChan, an exception meets the noexcept output end.   *)

WriteThrows ==
    /\ strength > 0
    /\ status' = "terminated"
    /\ UNCHANGED <<chan, cond, ends, pc, arg, received>>

\* Put the value and wake a process; return, or wait when the buffer is full.
Put(w) ==
    /\ strength = 0
    /\ buffer' = Append(buffer, arg[w])
    /\ \E S \in NotifyOne(cond) :
           IF GetState(buffer') = "FULL"
           THEN /\ cond' = S \cup {w}
                /\ mutOut' = Lock(SharedOut, w)
                /\ Goto(w, "write_wait")
           ELSE cond' = S /\ Goto(w, "idle") /\ UNCHANGED mutOut
    /\ UNCHANGED <<size, reading, strength, mutIn, arg, status, received>>

Write(w) ==
    /\ status = "running" /\ pc[w] = "write"
    /\ Free(SharedOut, mutOut)
    /\ WriteThrows \/ Put(w)

WriteResume(w) ==
    /\ status = "running" /\ pc[w] = "write_wait" /\ w \notin cond
    /\ \/ WriteThrows
       \/ /\ strength = 0
          /\ mutOut' = NoProc
          /\ Goto(w, "idle")
          /\ UNCHANGED <<chan, cond, mutIn, arg, status, received>>

-----------------------------------------------------------------------------
(* read.                                                                   *)

\* An operation of the input end that fails its poison check on entry.
ReadThrows(r, owner) ==
    /\ strength > 0
    /\ mutIn' = owner
    /\ Goto(r, "idle")
    /\ UNCHANGED <<chan, cond, mutOut, arg, status, received>>

AwaitWriter(r, l) ==
    /\ strength = 0 /\ GetState(buffer) = "EMPTY"
    /\ cond' = cond \cup {r}
    /\ mutIn' = Lock(SharedIn, r)
    /\ Goto(r, l)
    /\ UNCHANGED <<chan, mutOut, arg, status, received>>

\* Mutant: the value is taken without the poison check after the wait.
GetUnchecked(r, l, owner) ==
    \/ /\ buffer # << >>
       /\ buffer' = Tail(buffer)
       /\ received' = Append(received, Head(buffer))
       /\ Goto(r, l) /\ mutIn' = owner /\ UNCHANGED status
    \/ /\ buffer = << >>
       /\ status' = "undefined"
       /\ UNCHANGED <<buffer, received, pc, mutIn>>

\* The poison check after the wait and _buffer.get(), which is undefined on
\* an empty buffer; the reader leaves for l with owner holding its end.
Get(r, l, owner) ==
    \/ /\ strength > 0
       /\ Goto(r, "idle") /\ mutIn' = owner
       /\ UNCHANGED <<buffer, received, status>>
    \/ /\ strength = 0 /\ buffer # << >>
       /\ buffer' = Tail(buffer)
       /\ received' = Append(received, Head(buffer))
       /\ Goto(r, l) /\ mutIn' = owner /\ UNCHANGED status
    \/ /\ strength = 0 /\ buffer = << >>
       /\ status' = "undefined"
       /\ UNCHANGED <<buffer, received, pc, mutIn>>

\* The tail of read: the writer is woken before the value is taken.
TakeValue(r) ==
    /\ cond' \in NotifyOne(cond)
    /\ Get(r, "idle", NoProc)
    /\ UNCHANGED <<size, reading, strength, mutOut, arg>>

Read(r) ==
    /\ status = "running" /\ pc[r] = "read"
    /\ Free(SharedIn, mutIn)
    /\ \/ ReadThrows(r, NoProc)
       \/ AwaitWriter(r, "read_wait")
       \/ strength = 0 /\ GetState(buffer) # "EMPTY" /\ TakeValue(r)

ReadResume(r) ==
    /\ status = "running" /\ pc[r] = "read_wait" /\ r \notin cond
    /\ TakeValue(r)

-----------------------------------------------------------------------------
(* Extended read.                                                          *)

\* The tail of start_read: the value is taken and nobody is woken.
TakeExtended(r) ==
    /\ reading' = TRUE
    /\ Get(r, "extended", Lock(SharedIn, r))
    /\ UNCHANGED <<size, strength, cond, mutOut, arg>>

StartRead(r) ==
    /\ status = "running" /\ pc[r] = "start_read"
    /\ Free(SharedIn, mutIn)
    /\ \/ ReadThrows(r, Lock(SharedIn, r))
       \/ /\ strength = 0 /\ reading    \* "Channel already in extended read"
          /\ mutIn' = Lock(SharedIn, r)
          /\ Goto(r, "idle")
          /\ UNCHANGED <<chan, cond, mutOut, arg, status, received>>
       \/ ~reading /\ AwaitWriter(r, "start_read_wait")
       \/ /\ strength = 0 /\ ~reading /\ GetState(buffer) # "EMPTY"
          /\ TakeExtended(r)

StartReadResume(r) ==
    /\ status = "running" /\ pc[r] = "start_read_wait" /\ r \notin cond
    /\ TakeExtended(r)

\* As in BasicChan, end_read throws when the channel is in an extended read.
EndRead(r) ==
    /\ status = "running" /\ pc[r] = "extended"
    /\ Goto(r, "idle")
    /\ IF reading
       THEN UNCHANGED <<chan, cond, mutIn>>
       ELSE /\ reading' = FALSE
            /\ cond' \in NotifyOne(cond)
            /\ mutIn' = NoProc
            /\ UNCHANGED <<size, buffer, strength>>
    /\ UNCHANGED <<mutOut, arg, status, received>>

-----------------------------------------------------------------------------
(* Poison, by a process that is not inside a call.                         *)

\* Mutant: poison is subtracted from an (unsigned) strength of 0.
SubtractStrength(s) ==
    /\ strength' = strength - s
    /\ cond' = NotifyAll(cond)
    /\ UNCHANGED <<size, buffer, reading, ends, pc, arg, status, received>>

SetStrength(s) ==
    /\ strength' = s
    /\ cond' = NotifyAll(cond)
    /\ UNCHANGED <<size, buffer, reading, ends, pc, arg, status, received>>

ReaderPoison(r, s) ==
    /\ status = "running" /\ pc[r] \in {"idle", "extended"}
    /\ Free(SharedIn, mutIn)
    /\ SetStrength(s)

WriterPoison(w, s) ==
    /\ status = "running" /\ pc[w] = "idle"
    /\ Free(SharedOut, mutOut)
    /\ SetStrength(s)

-----------------------------------------------------------------------------
ReaderStep(r) ==
    \/ CallRead(r) \/ CallStartRead(r)
    \/ Read(r) \/ ReadResume(r)
    \/ StartRead(r) \/ StartReadResume(r) \/ EndRead(r)
    \/ \E s \in Strengths : ReaderPoison(r, s)

WriterStep(w) ==
    \/ \E v \in Values : CallWrite(w, v)
    \/ Write(w) \/ WriteResume(w)
    \/ \E s \in Strengths : WriterPoison(w, s)

Next ==
    \/ \E r \in Readers : ReaderStep(r)
    \/ \E w \in Writers : WriterStep(w)

Spec == Init /\ [][Next]_vars

\* The fairness of BasicChan.
Fairness ==
    /\ \A r \in Readers : WF_vars(ReadResume(r)) /\ WF_vars(StartReadResume(r))
    /\ \A w \in Writers : WF_vars(WriteResume(w))
    /\ WF_vars(\E r \in Readers : Read(r) \/ StartRead(r))
    /\ WF_vars(\E w \in Writers : Write(w))

FairSpec == Spec /\ Fairness

-----------------------------------------------------------------------------
(* Properties.                                                             *)

\* Type invariant: what each member of buffered_chan_internal, each end mutex
\* and each process can be.
TypeOK ==
    /\ size \in Nat
    /\ buffer \in Seq(Values) /\ received \in Seq(Values)
    /\ reading \in BOOLEAN /\ strength \in Nat
    /\ cond \subseteq Procs
    /\ mutIn \in Readers \cup {NoProc}
    /\ mutOut \in Writers \cup {NoProc}
    /\ pc \in [Procs -> ReaderPC \cup WriterPC]
    /\ \A r \in Readers : pc[r] \in ReaderPC
    /\ \A w \in Writers : pc[w] \in WriterPC
    /\ arg \in [Writers -> Values]
    /\ status \in {"running", "terminated", "undefined"}

Waiting(p) == pc[p] \in {"read_wait", "start_read_wait", "write_wait"}

\* Nobody waits without a reason, although both sides share one condition
\* variable and notify_one: a reader that waits unnotified finds the buffer
\* empty and a writer finds it full (chan.h 1399-1411, 1427-1430).  After an
\* extended read, which never ends, the writer may wait beside a free place.
WaitsWithReason ==
    /\ \A r \in Readers : r \in cond => buffer = << >>
    /\ \A w \in Writers : w \in cond => reading \/ Len(buffer) = size

\* No get ever finds the buffer empty: a reader that is woken is woken by a
\* value or by poison, and with poison it does not get (chan.h 1431-1436).
NeverUndefined == status # "undefined"

\* Values that wait for a reader, or a writer that waits to write, and a
\* reader that reads: then another value is received, unless the channel is
\* poisoned or stuck in an extended read.
ValuesFlow ==
    \A n \in 0..MaxWrites :
        (/\ Len(received) = n
         /\ buffer # << >> \/ \E w \in Writers : pc[w] = "write"
         /\ \E r \in Readers : pc[r] \in {"read", "read_wait"})
        ~> (Len(received) > n \/ strength > 0 \/ reading)

-----------------------------------------------------------------------------
(* The inductive invariant.                                                *)

Inside(r) == Waiting(r) \/ pc[r] = "extended"

\* Whoever is inside a shared end owns its mutex.
ReaderLock == SharedIn => \A r \in Readers : Inside(r) => mutIn = r
WriterLock == SharedOut => \A w \in Writers : Waiting(w) => mutOut = w

\* Only processes inside the channel wait on it, and nobody does after poison.
CondInside == \A p \in cond : Waiting(p)
PoisonReleases == strength > 0 => cond = {}

\* A reader inside is notified exactly when there is a value for it.
ReaderNotified ==
    strength = 0 =>
        \A r \in Readers : Waiting(r) => (r \in cond <=> buffer = << >>)

\* A writer inside is notified when there is room again, and a buffer that is
\* full is full because its writer is inside.
WriterNotified ==
    strength = 0 =>
        \A w \in Writers : Waiting(w) =>
            /\ size > 0
            /\ IF w \in cond THEN reading \/ Len(buffer) = size ELSE Len(buffer) < size

WithinSize ==
    size > 0 =>
        /\ Len(buffer) <= size
        /\ strength = 0 /\ Len(buffer) = size => \E w \in Writers : Waiting(w)

ExtendedIsReading == \A r \in Readers : pc[r] = "extended" => reading

IInv ==
    /\ TypeOK
    /\ ReaderLock /\ WriterLock
    /\ CondInside /\ PoisonReleases
    /\ ReaderNotified /\ WriterNotified
    /\ WithinSize
    /\ ExtendedIsReading
    /\ NeverUndefined

-----------------------------------------------------------------------------
(* Refinement.                                                             *)

WState(w) ==
    IF pc[w] = "idle" THEN "idle"
    ELSE IF strength > 0 THEN "doomed"
    ELSE IF pc[w] = "write" THEN "writing" ELSE "stored"

RState(r) ==
    IF pc[r] \in {"idle", "extended"} THEN "idle"
    ELSE IF strength > 0 THEN "doomed" ELSE "wanting"

Abstract == INSTANCE FifoChan WITH
    queue    <- buffer,
    log      <- received,
    wstate   <- [w \in Writers |-> WState(w)],
    rstate   <- [r \in Readers |-> RState(r)],
    offer    <- arg,
    poisoned <- strength > 0,
    down     <- status # "running"

\* The buffered channel is a bounded queue: it never holds more than its size,
\* values leave in the order they came, and a write returns only when there
\* is room for another value.
ImplementsFifo == Abstract!Spec
=============================================================================
