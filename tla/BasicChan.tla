------------------------------ MODULE BasicChan ------------------------------
(***************************************************************************)
(* The unbuffered channel of src/csp/chan.h (basic_chan_internal) and the  *)
(* ends through which processes reach it: chan_in, shared_chan_in,         *)
(* chan_out and shared_chan_out.  SharedIn and SharedOut select the four   *)
(* channel types one2one, one2any, any2one and any2any.                    *)
(*                                                                         *)
(* Every critical section of the channel's mutex is one step.  A process   *)
(* that calls _cond.wait leaves the section and joins cond; a notification *)
(* removes it from cond, and its Resume step is the rest of the operation, *)
(* run once the mutex is its own again.  The mutexes of the shared ends    *)
(* are held while their owner waits, so they are explicit: mutIn, mutOut.  *)
(*                                                                         *)
(* Selection over the channel (enable, disable, pending, the schedule call *)
(* of write and writer_poison) is in module Alt.                           *)
(***************************************************************************)
EXTENDS Naturals, Sequences, ChanMonitor

CONSTANTS
    Readers,         \* processes that use the input end
    Writers,         \* processes that use the output end
    Values,          \* the messages
    SharedIn,        \* is the input end a shared_chan_in?
    SharedOut,       \* is the output end a shared_chan_out?
    Strengths,       \* poison strengths that processes apply ({} : no poison)
    ExtendedReads,   \* do readers also use start_read / end_read?
    MaxWrites        \* bound: no write is called after this many values

\* Reader and writer processes are distinct, and only a shared end has
\* more than one process behind it.
ASSUME ProcAssumption ==
    /\ Readers \cap Writers = {}
    /\ NoProc \notin Readers \cup Writers
    /\ SharedIn \in BOOLEAN /\ SharedOut \in BOOLEAN
    /\ ~SharedIn  => \A p, q \in Readers : p = q
    /\ ~SharedOut => \A p, q \in Writers : p = q

\* Poison of strength 0 only wakes the waiting processes: it is not poison.
ASSUME StrengthAssumption == Strengths \subseteq Nat \ {0}

ASSUME SwitchAssumption ==
    /\ Values # {}
    /\ ExtendedReads \in BOOLEAN
    /\ MaxWrites \in Nat

VARIABLES
    hold,      \* _hold: the values pushed and not yet popped
    empty,     \* _empty
    reading,   \* _reading
    strength,  \* _strength
    cond,      \* the processes that wait on _cond and are not notified
    mutIn,     \* owner of shared_chan_in_internal::_mut
    mutOut,    \* owner of shared_chan_out_internal::_mut
    pc,        \* where each process is
    arg,       \* the argument of each writer's latest write
    status,    \* "running", "terminated" (std::terminate), "undefined"
    sent,      \* history: the values pushed, in order
    received   \* history: the values returned to readers, in order

chan == <<hold, empty, reading, strength>>
ends == <<mutIn, mutOut>>
vars == <<hold, empty, reading, strength, cond, mutIn, mutOut, pc, arg,
          status, sent, received>>

Procs == Readers \cup Writers

\* Reader states: called read/start_read, waiting inside it, between
\* start_read and end_read.
ReaderPC == {"idle", "read", "read_wait", "start_read", "start_read_wait",
             "extended"}
WriterPC == {"idle", "write", "write_wait"}

-----------------------------------------------------------------------------
(* Helpers.  The condition variable and the end mutexes are ChanMonitor's. *)

\* Mutant: a read leaves the value in the channel.
NotPopped(h) == h

\* _hold.pop_back().
Popped(h) == SubSeq(h, 1, Len(h) - 1)

Goto(p, l) == pc' = [pc EXCEPT ![p] = l]

Init ==
    /\ hold = << >> /\ empty = TRUE /\ reading = FALSE /\ strength = 0
    /\ cond = {} /\ mutIn = NoProc /\ mutOut = NoProc
    /\ pc = [p \in Procs |-> "idle"]
    /\ arg = [w \in Writers |-> CHOOSE v \in Values : TRUE]
    /\ status = "running"
    /\ sent = << >> /\ received = << >>

-----------------------------------------------------------------------------
(* Calls.  The processes are external: any idle process may call.          *)

CallRead(r) ==
    /\ status = "running" /\ pc[r] = "idle"
    /\ Goto(r, "read")
    /\ UNCHANGED <<chan, cond, ends, arg, status, sent, received>>

CallStartRead(r) ==
    /\ ExtendedReads
    /\ status = "running" /\ pc[r] = "idle"
    /\ Goto(r, "start_read")
    /\ UNCHANGED <<chan, cond, ends, arg, status, sent, received>>

CallWrite(w, v) ==
    /\ Len(sent) < MaxWrites
    /\ status = "running" /\ pc[w] = "idle"
    /\ Goto(w, "write")
    /\ arg' = [arg EXCEPT ![w] = v]
    /\ UNCHANGED <<chan, cond, ends, status, sent, received>>

-----------------------------------------------------------------------------
(* write.  chan_out::write is noexcept: a poison_exception that reaches it *)
(* ends the program.                                                       *)

\* The poison check at the start and at the end of write.
WriteThrows ==
    /\ strength > 0
    /\ status' = "terminated"
    /\ UNCHANGED <<chan, cond, ends, pc, arg, sent, received>>

\* Push the value; the first to arrive clears empty, the second sets it and
\* wakes the reader; then wait.
Push(w) ==
    /\ strength = 0
    /\ hold' = Append(hold, arg[w])
    /\ sent' = Append(sent, arg[w])
    /\ empty' = ~empty
    /\ \E S \in (IF empty THEN {cond} ELSE NotifyOne(cond)) :
           cond' = S \cup {w}
    /\ mutOut' = Lock(SharedOut, w)
    /\ Goto(w, "write_wait")
    /\ UNCHANGED <<reading, strength, mutIn, arg, status, received>>

Write(w) ==
    /\ status = "running" /\ pc[w] = "write"
    /\ Free(SharedOut, mutOut)
    /\ WriteThrows \/ Push(w)

\* Mutant: write does not check for poison after its wait.
WriteResumeUnchecked(w) ==
    /\ status = "running" /\ pc[w] = "write_wait" /\ w \notin cond
    /\ mutOut' = NoProc
    /\ Goto(w, "idle")
    /\ UNCHANGED <<chan, cond, mutIn, arg, status, sent, received>>

WriteResume(w) ==
    /\ status = "running" /\ pc[w] = "write_wait" /\ w \notin cond
    /\ \/ WriteThrows
       \/ /\ strength = 0
          /\ mutOut' = NoProc
          /\ Goto(w, "idle")
          /\ UNCHANGED <<chan, cond, mutIn, arg, status, sent, received>>

-----------------------------------------------------------------------------
(* read.                                                                   *)

\* An operation of the input end that fails its poison check on entry; the
\* lock taken by read is released, the one taken by start_read is not.
ReadThrows(r, owner) ==
    /\ strength > 0
    /\ mutIn' = owner
    /\ Goto(r, "idle")
    /\ UNCHANGED <<chan, cond, mutOut, arg, status, sent, received>>

\* Mutant: a reader that arrives first does not say so.
AwaitWriterSilently(r, l) ==
    /\ strength = 0 /\ empty
    /\ cond' = cond \cup {r}
    /\ mutIn' = Lock(SharedIn, r)
    /\ Goto(r, l)
    /\ UNCHANGED <<chan, mutOut, arg, status, sent, received>>

\* The first to arrive clears empty and waits.
AwaitWriter(r, l) ==
    /\ strength = 0 /\ empty
    /\ empty' = FALSE
    /\ cond' = cond \cup {r}
    /\ mutIn' = Lock(SharedIn, r)
    /\ Goto(r, l)
    /\ UNCHANGED <<hold, reading, strength, mutOut, arg, status, sent, received>>

\* The tail of read: move _hold[0] out, pop_back, notify_one, check poison.
TakeValue(r) ==
    /\ hold # << >>
    /\ hold' = Popped(hold)
    /\ cond' \in NotifyOne(cond)
    /\ received' = IF strength > 0 THEN received ELSE Append(received, hold[1])
    /\ mutIn' = NoProc
    /\ Goto(r, "idle")
    /\ UNCHANGED <<reading, strength, mutOut, arg, status, sent>>

\* The same tail with nothing in _hold: _hold[0] and pop_back on an empty
\* vector are undefined.  Either the program is lost there or, when the
\* channel is poisoned, it survives to the poison check that follows.
TakeNothing(r) ==
    /\ hold = << >>
    /\ UNCHANGED <<hold, reading, strength, mutOut, arg, sent, received>>
    /\ \/ /\ status' = "undefined"
          /\ UNCHANGED <<cond, mutIn, pc>>
       \/ /\ strength > 0
          /\ cond' \in NotifyOne(cond)
          /\ mutIn' = NoProc
          /\ Goto(r, "idle")
          /\ UNCHANGED status

Read(r) ==
    /\ status = "running" /\ pc[r] = "read"
    /\ Free(SharedIn, mutIn)
    /\ \/ ReadThrows(r, NoProc)
       \/ AwaitWriter(r, "read_wait")
       \/ /\ strength = 0 /\ ~empty
          /\ empty' = TRUE
          /\ TakeValue(r) \/ TakeNothing(r)

ReadResume(r) ==
    /\ status = "running" /\ pc[r] = "read_wait" /\ r \notin cond
    /\ TakeValue(r) \/ TakeNothing(r)
    /\ UNCHANGED empty

-----------------------------------------------------------------------------
(* Extended read.  shared_chan_in locks its mutex in start_read and        *)
(* unlocks it after end_read; an exception leaves it locked.               *)

\* The tail of start_read: set reading, check poison, return _hold[0],
\* which stays in _hold.
TakeExtended(r) ==
    /\ reading' = TRUE
    /\ mutIn' = Lock(SharedIn, r)
    /\ UNCHANGED <<hold, strength, cond, mutOut, arg, sent>>
    /\ \/ /\ strength > 0
          /\ Goto(r, "idle")
          /\ UNCHANGED <<status, received>>
       \/ /\ strength = 0 /\ hold # << >>
          /\ received' = Append(received, hold[1])
          /\ Goto(r, "extended")
          /\ UNCHANGED status
       \/ /\ strength = 0 /\ hold = << >>
          /\ status' = "undefined"
          /\ UNCHANGED <<pc, received>>

StartRead(r) ==
    /\ status = "running" /\ pc[r] = "start_read"
    /\ Free(SharedIn, mutIn)
    /\ \/ ReadThrows(r, Lock(SharedIn, r))
       \/ /\ strength = 0 /\ reading    \* "Channel already in extended read"
          /\ mutIn' = Lock(SharedIn, r)
          /\ Goto(r, "idle")
          /\ UNCHANGED <<chan, cond, mutOut, arg, status, sent, received>>
       \/ ~reading /\ AwaitWriter(r, "start_read_wait")
       \/ /\ strength = 0 /\ ~reading /\ ~empty
          /\ empty' = TRUE
          /\ TakeExtended(r)

StartReadResume(r) ==
    /\ status = "running" /\ pc[r] = "start_read_wait" /\ r \notin cond
    /\ TakeExtended(r)
    /\ UNCHANGED empty

\* end_read by a reader that is in an extended read.  The code throws
\* logic_error when _reading is set, and completes the read when it is not.
EndRead(r) ==
    /\ status = "running" /\ pc[r] = "extended"
    /\ Goto(r, "idle")
    /\ IF reading
       THEN UNCHANGED <<chan, cond, mutIn>>
       ELSE /\ hold' = Popped(hold)
            /\ empty' = TRUE /\ reading' = FALSE
            /\ cond' \in NotifyOne(cond)
            /\ mutIn' = NoProc
            /\ UNCHANGED strength
    /\ UNCHANGED <<mutOut, arg, status, sent, received>>

-----------------------------------------------------------------------------
(* Poison, by a process that is not inside a call.  A reader of a plain    *)
(* end may also poison between start_read and end_read.                    *)

\* Mutant: poison is subtracted from an (unsigned) strength of 0.
SubtractStrength(s) ==
    /\ strength' = strength - s
    /\ cond' = NotifyAll(cond)
    /\ UNCHANGED <<hold, empty, reading, ends, pc, arg, status, sent, received>>

SetStrength(s) ==
    /\ strength' = s
    /\ cond' = NotifyAll(cond)
    /\ UNCHANGED <<hold, empty, reading, ends, pc, arg, status, sent, received>>

ReaderPoison(r, s) ==
    /\ status = "running" /\ pc[r] \in {"idle", "extended"}
    /\ Free(SharedIn, mutIn)
    /\ SetStrength(s)

WriterPoison(w, s) ==
    /\ status = "running" /\ pc[w] = "idle"
    /\ Free(SharedOut, mutOut)
    /\ SetStrength(s)

-----------------------------------------------------------------------------
ReaderStep(r) ==
    \/ CallRead(r) \/ CallStartRead(r)
    \/ Read(r) \/ ReadResume(r)
    \/ StartRead(r) \/ StartReadResume(r) \/ EndRead(r)
    \/ \E s \in Strengths : ReaderPoison(r, s)

WriterStep(w) ==
    \/ \E v \in Values : CallWrite(w, v)
    \/ Write(w) \/ WriteResume(w)
    \/ \E s \in Strengths : WriterPoison(w, s)

Next ==
    \/ \E r \in Readers : ReaderStep(r)
    \/ \E w \in Writers : WriterStep(w)

Spec == Init /\ [][Next]_vars

\* A woken process eventually gets the channel's mutex back, and a free end
\* mutex is eventually taken by one of the processes that wait for it; which
\* one is the scheduler's choice, so no single process is promised its turn.
\* Nothing obliges a process to call.
Fairness ==
    /\ \A r \in Readers : WF_vars(ReadResume(r)) /\ WF_vars(StartReadResume(r))
    /\ \A w \in Writers : WF_vars(WriteResume(w))
    /\ WF_vars(\E r \in Readers : Read(r) \/ StartRead(r))
    /\ WF_vars(\E w \in Writers : Write(w))

FairSpec == Spec /\ Fairness

-----------------------------------------------------------------------------
(* Properties.                                                             *)

\* Type invariant: what each member of basic_chan_internal, each end mutex
\* and each process can be.
TypeOK ==
    /\ hold \in Seq(Values) /\ sent \in Seq(Values) /\ received \in Seq(Values)
    /\ empty \in BOOLEAN /\ reading \in BOOLEAN
    /\ strength \in Nat
    /\ cond \subseteq Procs
    /\ mutIn \in Readers \cup {NoProc}
    /\ mutOut \in Writers \cup {NoProc}
    /\ pc \in [Procs -> ReaderPC \cup WriterPC]
    /\ \A r \in Readers : pc[r] \in ReaderPC
    /\ \A w \in Writers : pc[w] \in WriterPC
    /\ arg \in [Writers -> Values]
    /\ status \in {"running", "terminated", "undefined"}

Waiting(p) == pc[p] \in {"read_wait", "start_read_wait", "write_wait"}

\* A reader and a writer are never both left waiting on the channel: the
\* second to arrive always wakes the first (write 1105-1113, read 1134-1146).
\* A broken extended read is the exception; see EndReadCompletes.
NeverBothWait ==
    ~reading => ~ \E r \in Readers, w \in Writers : {r, w} \subseteq cond

\* A value in the channel belongs to a writer that is still blocked in its
\* write: no write of a channel that is not poisoned returns before a reader
\* has taken its value ("Wait until reader has completed", chan.h 1114), and
\* a writer that is blocked has its value in the channel.
WriterWaitsForReader ==
    strength = 0 =>
        /\ Len(hold) <= 1
        /\ \A w \in Writers : w \in cond => hold = <<arg[w]>>
        /\ hold # << >> => \E w \in Writers : pc[w] = "write_wait"

\* The values that readers get are the values written, in the order of the
\* writes, each exactly once; all that is missing is the value in the
\* channel.  It holds across poison too: poison loses at most that value.
DeliveredInOrder == sent = received \o (IF reading THEN << >> ELSE hold)

\* Poison leaves nobody waiting on the channel, whoever poisons it and
\* whenever, and nobody starts waiting afterwards (reader_poison and
\* writer_poison, chan.h 1260-1286).
PoisonReleases == strength > 0 => cond = {}

\* Without poison no legal use of the channel touches an empty _hold or ends
\* the program, whatever the interleaving of readers and writers.
SafeUnlessPoisoned == strength = 0 => status = "running"

\* During an extended read the writer stays blocked with its value in the
\* channel, unless the reader itself poisons the channel (start_read does
\* not notify, chan.h 1159-1185).
ExtendedReadBlocksWriter ==
    strength = 0 =>
        \A r \in Readers : pc[r] = "extended" =>
            \E w \in Writers : w \in cond /\ hold = <<arg[w]>>

\* Every reader that waits on a poisoned channel gets out of its call, even
\* when the poison arrives while it waits (read's exits, chan.h 1131-1149).
PoisonedReadReturns ==
    \A r \in Readers :
        (strength > 0 /\ Waiting(r)) ~> (~Waiting(r) \/ status # "running")

WantsToWrite(w) == pc[w] = "write" \/ w \in cond
WantsToRead(r)  == pc[r] \in {"read", "read_wait"}

\* While some reader and some writer want to communicate, another value is
\* received: readers and writers cannot all wait for each other.
CommunicationHappens ==
    \A n \in 0..MaxWrites :
        (/\ Len(received) = n
         /\ \E w \in Writers : WantsToWrite(w)
         /\ \E r \in Readers : WantsToRead(r))
        ~> (Len(received) > n \/ strength > 0)

-----------------------------------------------------------------------------
(* The inductive invariant: the channel is always in one of the phases     *)
(* below, and a process inside an operation of a shared end owns the end's *)
(* mutex.                                                                  *)

Inside(r) == Waiting(r) \/ pc[r] = "extended"

ReaderLock == SharedIn => \A r \in Readers : Inside(r) => mutIn = r
WriterLock == SharedOut => \A w \in Writers : Waiting(w) => mutOut = w

BlockedWriter(w) == pc[w] = "write_wait" /\ w \in cond /\ hold = <<arg[w]>>

\* Nobody is in the channel, except perhaps a writer about to return.
Unused ==
    /\ empty /\ hold = << >> /\ cond = {}
    /\ \A r \in Readers : ~Inside(r)

\* The reader arrived first and waits for a writer.
ReaderFirst ==
    /\ ~empty /\ hold = << >>
    /\ \E r \in Readers : cond = {r} /\ Waiting(r)

\* The writer arrived first and waits for a reader.
WriterFirst ==
    /\ ~empty
    /\ \E w \in Writers : cond = {w} /\ BlockedWriter(w)
    /\ \A r \in Readers : ~Inside(r)

\* The writer has woken the reader, which has yet to take the value.
HandOff ==
    /\ empty
    /\ \E w \in Writers : cond = {w} /\ BlockedWriter(w)
    /\ \E r \in Readers : Waiting(r)

\* An extended read has begun.  Its end_read fails, so it never ends: the
\* writer stays blocked and a reader that comes back joins it.
Extended ==
    /\ \E w \in Writers : cond \subseteq Readers \cup {w} /\ BlockedWriter(w)
    /\ \A r \in Readers : Waiting(r) => r \in cond
    /\ ~empty => \E r \in Readers : Waiting(r)
    /\ SharedIn => mutIn # NoProc

Phase ==
    strength = 0 =>
        IF reading THEN Extended
        ELSE Unused \/ ReaderFirst \/ WriterFirst \/ HandOff

\* A reader that poison finds waiting is one that arrived first.
PoisonFindsNoValue ==
    strength > 0 => \A r \in Readers : Waiting(r) => hold = << >>

ExtendedIsReading == \A r \in Readers : pc[r] = "extended" => reading

IInv ==
    /\ TypeOK
    /\ ExtendedIsReading
    /\ ReaderLock /\ WriterLock
    /\ Phase
    /\ PoisonReleases /\ PoisonFindsNoValue
    /\ SafeUnlessPoisoned
    /\ DeliveredInOrder

-----------------------------------------------------------------------------
(* Refinement: with plain reads, the channel is a RendezvousChan.          *)

\* A writer is accepted once the reader that took its value has notified it.
WState(w) ==
    IF pc[w] = "idle" THEN "idle"
    ELSE IF strength > 0 THEN "doomed"
    ELSE IF pc[w] = "write_wait" /\ w \notin cond THEN "accepted"
    ELSE "offering"

RState(r) ==
    IF pc[r] = "idle" THEN "idle"
    ELSE IF strength > 0 THEN "doomed"
    ELSE "wanting"

Abstract == INSTANCE RendezvousChan WITH
    wstate   <- [w \in Writers |-> WState(w)],
    rstate   <- [r \in Readers |-> RState(r)],
    offer    <- arg,
    log      <- received,
    poisoned <- strength > 0,
    down     <- status # "running"

\* The mutex, the condition variable and the three flags of
\* basic_chan_internal implement the atomic rendezvous.
ImplementsRendezvous == Abstract!Spec

-----------------------------------------------------------------------------
(* What the repository says of the channel and the code does not do.       *)

\* end_read ends the extended read of the reader that is in one: "Set empty
\* to true and reading to false" (chan.h 1197) and "Inform waiting writer"
\* (chan.h 1201).
EndReadCompletes ==
    [][\A r \in Readers :
           pc[r] = "extended" /\ pc'[r] = "idle" => ~reading']_vars

\* A read that is waiting when the channel is poisoned reaches its "Check if
\* poisoned" (chan.h 1147) in a defined state.
PoisonedReadIsDefined == status # "undefined"
=============================================================================
