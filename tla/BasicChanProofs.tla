--------------------------- MODULE BasicChanProofs ---------------------------
(***************************************************************************)
(* Proofs about BasicChan, for every set of readers, writers, values and   *)
(* poison strengths and for all four channel types, without spurious       *)
(* wakeups.                                                                *)
(***************************************************************************)
EXTENDS BasicChan, SequenceTheorems, TLAPS

-----------------------------------------------------------------------------
(* The helpers.                                                            *)

\* notify_one leaves a subset of the waiters.
LEMMA NotifyOneSubset ==
  ASSUME NEW S, NEW X \in NotifyOne(S)
  PROVE  X \subseteq S
BY DEF NotifyOne

\* notify_one wakes the only waiter.
LEMMA NotifyOneSingleton ==
  ASSUME NEW p, NEW X \in NotifyOne({p})
  PROVE  X = {}
<1>1. NotifyOne({p}) = {{}}
  BY DEF NotifyOne
<1> QED
  BY <1>1

\* pop_back leaves a sequence of values, and empties a channel of one value.
LEMMA PoppedType ==
  ASSUME NEW h \in Seq(Values), h # << >>
  PROVE  Popped(h) \in Seq(Values)
<1>1. Len(h) \in Nat /\ Len(h) # 0
  BY EmptySeq
<1> QED
  BY <1>1, SubSeqProperties DEF Popped

\* The front of a non-empty _hold is a value.
LEMMA FirstType ==
  ASSUME NEW h \in Seq(Values), h # << >>
  PROVE  h[1] \in Values
BY EmptySeq, ElementOfSeq

\* Popping an empty _hold leaves it empty.
LEMMA PoppedEmpty == Popped(<< >>) = << >>
BY DEF Popped

\* Popping the only value leaves _hold empty.
LEMMA PoppedSingleton ==
  ASSUME NEW v
  PROVE  Popped(<<v>>) = << >>
BY DEF Popped

-----------------------------------------------------------------------------
(* Type correctness.                                                       *)

\* The constructors leave the members with their types.
LEMMA InitType == Init => TypeOK
<1> SUFFICES ASSUME Init PROVE TypeOK
  OBVIOUS
<1>1. (CHOOSE v \in Values : TRUE) \in Values
  BY SwitchAssumption
<1>2. arg \in [Writers -> Values]
  BY <1>1 DEF Init
<1>3. pc \in [Procs -> ReaderPC \cup WriterPC]
  BY DEF Init, Procs, ReaderPC, WriterPC
<1>4. \A r \in Readers : pc[r] \in ReaderPC
  BY DEF Init, Procs, ReaderPC
<1>5. \A w \in Writers : pc[w] \in WriterPC
  BY DEF Init, Procs, WriterPC
<1>6. hold \in Seq(Values) /\ sent \in Seq(Values) /\ received \in Seq(Values)
  BY DEF Init
<1>7. /\ empty \in BOOLEAN /\ reading \in BOOLEAN
      /\ strength \in Nat
      /\ cond \subseteq Procs
      /\ mutIn \in Readers \cup {NoProc}
      /\ mutOut \in Writers \cup {NoProc}
      /\ status \in {"running", "terminated", "undefined"}
  BY DEF Init
<1> QED
  BY <1>2, <1>3, <1>4, <1>5, <1>6, <1>7 DEF TypeOK

\* A reader's step to one of its own states keeps the type of pc.
LEMMA GotoReader ==
  ASSUME TypeOK, NEW r \in Readers, NEW l \in ReaderPC, Goto(r, l)
  PROVE  /\ pc' \in [Procs -> ReaderPC \cup WriterPC]
         /\ \A x \in Readers : pc'[x] \in ReaderPC
         /\ \A w \in Writers : pc'[w] \in WriterPC
BY ProcAssumption DEF TypeOK, Goto, Procs

\* A writer that moves leaves every process at a place of its kind.
LEMMA GotoWriter ==
  ASSUME TypeOK, NEW w \in Writers, NEW l \in WriterPC, Goto(w, l)
  PROVE  /\ pc' \in [Procs -> ReaderPC \cup WriterPC]
         /\ \A x \in Readers : pc'[x] \in ReaderPC
         /\ \A x \in Writers : pc'[x] \in WriterPC
BY ProcAssumption DEF TypeOK, Goto, Procs

\* Every step keeps the types.
LEMMA TypeStep == TypeOK /\ [Next]_vars => TypeOK'
<1> SUFFICES ASSUME TypeOK, [Next]_vars PROVE TypeOK'
  OBVIOUS
<1> USE DEF chan, ends
<1>1. ASSUME NEW r \in Readers, CallRead(r) PROVE TypeOK'
  BY <1>1, GotoReader DEF CallRead, TypeOK, ReaderPC
<1>2. ASSUME NEW r \in Readers, CallStartRead(r) PROVE TypeOK'
  BY <1>2, GotoReader DEF CallStartRead, TypeOK, ReaderPC
<1>3. ASSUME NEW w \in Writers, NEW v \in Values, CallWrite(w, v) PROVE TypeOK'
  BY <1>3, GotoWriter DEF CallWrite, TypeOK, WriterPC
<1>4. ASSUME NEW w \in Writers, Write(w) PROVE TypeOK'
  <2>1. CASE WriteThrows
    BY <2>1 DEF WriteThrows, TypeOK
  <2>2. CASE Push(w)
    <3>1. cond' \subseteq Procs
      BY <2>2, NotifyOneSubset DEF Push, TypeOK, Procs
    <3>2. mutOut' \in Writers \cup {NoProc}
      BY <2>2 DEF Push, Lock
    <3>3. hold' \in Seq(Values) /\ sent' \in Seq(Values)
      BY <2>2 DEF Push, TypeOK
    <3> QED
      BY <2>2, <3>1, <3>2, <3>3, GotoWriter DEF Push, TypeOK, WriterPC
  <2> QED
    BY <1>4, <2>1, <2>2 DEF Write
<1>5. ASSUME NEW w \in Writers, WriteResume(w) PROVE TypeOK'
  BY <1>5, GotoWriter DEF WriteResume, WriteThrows, TypeOK, WriterPC
<1>6. ASSUME NEW r \in Readers, TakeValue(r), empty' \in BOOLEAN PROVE TypeOK'
  <2>1. cond' \subseteq Procs
    BY <1>6, NotifyOneSubset DEF TakeValue, TypeOK
  <2>2. hold' \in Seq(Values)
    BY <1>6, PoppedType DEF TakeValue, TypeOK
  <2>3. received' \in Seq(Values)
    BY <1>6 DEF TakeValue, TypeOK
  <2> QED
    BY <1>6, <2>1, <2>2, <2>3, GotoReader DEF TakeValue, TypeOK, ReaderPC
<1>7. ASSUME NEW r \in Readers, TakeNothing(r), empty' \in BOOLEAN PROVE TypeOK'
  BY <1>7, NotifyOneSubset, GotoReader DEF TakeNothing, TypeOK, ReaderPC
<1>8. ASSUME NEW r \in Readers, NEW owner \in Readers \cup {NoProc},
             ReadThrows(r, owner)
      PROVE  TypeOK'
  BY <1>8, GotoReader DEF ReadThrows, TypeOK, ReaderPC
<1>9. ASSUME NEW r \in Readers, NEW l \in ReaderPC, AwaitWriter(r, l) PROVE TypeOK'
  BY <1>9, GotoReader DEF AwaitWriter, TypeOK, Lock, Procs
<1>10. ASSUME NEW r \in Readers, TakeExtended(r), empty' \in BOOLEAN PROVE TypeOK'
  <2>1. received' \in Seq(Values)
    <3>1. CASE UNCHANGED received
      BY <3>1 DEF TypeOK
    <3>2. CASE hold # << >> /\ received' = Append(received, hold[1])
      <4>1. hold[1] \in Values
        BY <3>2, FirstType DEF TypeOK
      <4> QED
        BY <3>2, <4>1 DEF TypeOK
    <3> QED
      BY <1>10, <3>1, <3>2 DEF TakeExtended
  <2>2. mutIn' \in Readers \cup {NoProc}
    BY <1>10 DEF TakeExtended, Lock
  <2>3. ASSUME NEW l \in {"idle", "extended"}, Goto(r, l), UNCHANGED status PROVE TypeOK'
    <3>1. l \in ReaderPC
      BY <2>3 DEF ReaderPC
    <3> QED
      BY <1>10, <2>1, <2>2, <2>3, <3>1, GotoReader DEF TakeExtended, TypeOK
  <2>4. CASE status' = "undefined" /\ UNCHANGED pc
    BY <1>10, <2>1, <2>2, <2>4 DEF TakeExtended, TypeOK
  <2> QED
    BY <1>10, <2>3, <2>4 DEF TakeExtended
<1>11. ASSUME NEW r \in Readers, Read(r) PROVE TypeOK'
  <2>1. "read_wait" \in ReaderPC
    BY DEF ReaderPC
  <2> QED
    BY <1>11, <1>6, <1>7, <1>8, <1>9, <2>1 DEF Read
<1>12. ASSUME NEW r \in Readers, ReadResume(r) PROVE TypeOK'
  BY <1>12, <1>6, <1>7 DEF ReadResume, TypeOK
<1>13. ASSUME NEW r \in Readers, StartRead(r) PROVE TypeOK'
  <2>1. "start_read_wait" \in ReaderPC
    BY DEF ReaderPC
  <2>2. Lock(SharedIn, r) \in Readers \cup {NoProc}
    BY DEF Lock
  <2>3. CASE /\ strength = 0 /\ reading
             /\ mutIn' = Lock(SharedIn, r)
             /\ Goto(r, "idle")
             /\ UNCHANGED <<chan, cond, mutOut, arg, status, sent, received>>
    BY <2>2, <2>3, GotoReader DEF TypeOK, ReaderPC
  <2> QED
    BY <1>13, <1>8, <1>9, <1>10, <2>1, <2>2, <2>3 DEF StartRead
<1>14. ASSUME NEW r \in Readers, StartReadResume(r) PROVE TypeOK'
  BY <1>14, <1>10 DEF StartReadResume, TypeOK
<1>15. ASSUME NEW r \in Readers, EndRead(r) PROVE TypeOK'
  <2>1. cond' \subseteq Procs
    BY <1>15, NotifyOneSubset DEF EndRead, TypeOK
  <2>2. hold' \in Seq(Values)
    BY <1>15, PoppedType, PoppedEmpty DEF EndRead, TypeOK
  <2> QED
    BY <1>15, <2>1, <2>2, GotoReader DEF EndRead, TypeOK, ReaderPC
<1>16. ASSUME NEW s \in Strengths, SetStrength(s) PROVE TypeOK'
  BY <1>16, StrengthAssumption DEF SetStrength, NotifyAll, TypeOK
<1>17. ASSUME NEW r \in Readers, NEW s \in Strengths, ReaderPoison(r, s) PROVE TypeOK'
  BY <1>17, <1>16 DEF ReaderPoison
<1>18. ASSUME NEW w \in Writers, NEW s \in Strengths, WriterPoison(w, s) PROVE TypeOK'
  BY <1>18, <1>16 DEF WriterPoison
<1>19. CASE UNCHANGED vars
  BY <1>19 DEF vars, TypeOK
<1> QED
  BY <1>1, <1>2, <1>3, <1>4, <1>5, <1>11, <1>12, <1>13, <1>14, <1>15, <1>17,
     <1>18, <1>19
  DEF Next, ReaderStep, WriterStep

\* The members of the channel and its ends keep their types, whatever the
\* interleaving.
THEOREM TypeCorrect == Spec => []TypeOK
BY InitType, TypeStep, PTL DEF Spec

-----------------------------------------------------------------------------
(* Who can be inside the channel.                                          *)

\* The readers inside an operation of the input end are at most one.
LEMMA OneReader ==
  ASSUME ReaderLock, NEW p \in Readers, NEW q \in Readers, Inside(p), Inside(q)
  PROVE  p = q
BY ProcAssumption DEF ReaderLock

\* At most one writer is inside the channel.
LEMMA OneWriter ==
  ASSUME WriterLock, NEW p \in Writers, NEW q \in Writers, Waiting(p), Waiting(q)
  PROVE  p = q
BY ProcAssumption DEF WriterLock

\* A reader that can lock its end and is not inside finds nobody inside.
LEMMA NoReaderInside ==
  ASSUME ReaderLock, NEW r \in Readers, ~Inside(r), Free(SharedIn, mutIn)
  PROVE  \A q \in Readers : ~Inside(q)
BY ProcAssumption DEF ReaderLock, Free

\* A reader that can lock its end and does not wait finds no reader waiting.
LEMMA NoReaderWaiting ==
  ASSUME ReaderLock, NEW r \in Readers, ~Waiting(r), Free(SharedIn, mutIn)
  PROVE  \A q \in Readers : ~Waiting(q)
BY ProcAssumption DEF ReaderLock, Free, Inside

\* A writer that can lock its end finds no writer inside.
LEMMA NoWriterInside ==
  ASSUME WriterLock, NEW w \in Writers, ~Waiting(w), Free(SharedOut, mutOut)
  PROVE  \A q \in Writers : ~Waiting(q)
BY ProcAssumption DEF WriterLock, Free

\* Calls, and failing calls, that leave the channel, the end mutexes and the
\* processes inside alone preserve the invariant.
LEMMA QuietStep ==
  ASSUME IInv, TypeOK',
         UNCHANGED <<chan, cond, ends, status, sent, received>>,
         \A p \in Procs : Waiting(p)' <=> Waiting(p),
         \A r \in Readers : Inside(r)' <=> Inside(r),
         \A w \in Writers : pc[w] = "write_wait" =>
                               pc'[w] = "write_wait" /\ arg'[w] = arg[w]
  PROVE  IInv'
<1> USE DEF chan, ends
<1>0. ExtendedIsReading'
  BY DEF IInv, ExtendedIsReading, Inside, Waiting, Procs
<1>1. ReaderLock' /\ WriterLock'
  BY DEF IInv, ReaderLock, WriterLock, Procs
<1>2. \A w \in Writers : BlockedWriter(w) => BlockedWriter(w)'
  BY DEF BlockedWriter
<1>3. Phase'
  <2>1. CASE strength = 0 /\ reading
    <3>1. Extended
      BY <2>1 DEF IInv, Phase
    <3>2. Extended'
      BY <3>1, <1>2 DEF Extended, Procs
    <3> QED
      BY <3>2, <2>1 DEF Phase
  <2>2. CASE strength = 0 /\ ~reading
    <3>1. Unused => Unused'
      BY DEF Unused, Procs
    <3>2. ReaderFirst => ReaderFirst'
      BY DEF ReaderFirst, Procs
    <3>3. WriterFirst => WriterFirst'
      BY <1>2 DEF WriterFirst, Procs
    <3>4. HandOff => HandOff'
      BY <1>2 DEF HandOff, Procs
    <3> QED
      BY <3>1, <3>2, <3>3, <3>4, <2>2 DEF IInv, Phase
  <2>3. CASE strength # 0
    BY <2>3 DEF Phase
  <2> QED
    BY <2>1, <2>2, <2>3
<1>4. PoisonReleases' /\ PoisonFindsNoValue' /\ SafeUnlessPoisoned'
  BY DEF IInv, PoisonReleases, PoisonFindsNoValue, SafeUnlessPoisoned, Procs
<1>5. DeliveredInOrder'
  BY DEF IInv, DeliveredInOrder
<1> QED
  BY <1>0, <1>1, <1>3, <1>4, <1>5 DEF IInv

\* The constructors establish the inductive invariant.
LEMMA InitInv == Init => IInv
<1> SUFFICES ASSUME Init PROVE IInv
  OBVIOUS
<1>1. TypeOK
  BY InitType
<1>2. \A p \in Procs : ~Waiting(p) /\ pc[p] = "idle"
  BY DEF Init, Waiting
<1>3. ExtendedIsReading /\ ReaderLock /\ WriterLock
  BY <1>2 DEF ExtendedIsReading, ReaderLock, WriterLock, Inside, Procs
<1>4. Unused
  BY <1>2 DEF Init, Unused, Inside, Procs
<1>5. Phase /\ PoisonReleases /\ PoisonFindsNoValue /\ SafeUnlessPoisoned
  BY <1>4 DEF Init, Phase, PoisonReleases, PoisonFindsNoValue, SafeUnlessPoisoned
<1>6. DeliveredInOrder
  BY DEF Init, DeliveredInOrder
<1> QED
  BY <1>1, <1>3, <1>5, <1>6 DEF IInv

\* A process calls an operation.
LEMMA CallStep ==
  ASSUME IInv, TypeOK', NEW p \in Procs,
         UNCHANGED <<chan, cond, ends, status, sent, received>>,
         \E l \in {"read", "start_read", "write"} : Goto(p, l),
         pc[p] = "idle",
         \A w \in Writers : w # p => arg'[w] = arg[w]
  PROVE  IInv'
<1> USE DEF IInv, TypeOK
<1>1. \A q \in Procs : q # p => pc'[q] = pc[q]
  BY DEF Goto
<1>2. pc'[p] \in {"read", "start_read", "write"}
  BY DEF Goto
<1>3. \A q \in Procs : Waiting(q)' <=> Waiting(q)
  BY <1>1, <1>2 DEF Waiting
<1>4. \A r \in Readers : Inside(r)' <=> Inside(r)
  BY <1>1, <1>2, <1>3 DEF Inside, Procs
<1>5. \A w \in Writers : pc[w] = "write_wait" =>
                            pc'[w] = "write_wait" /\ arg'[w] = arg[w]
  BY <1>1 DEF Procs
<1> QED
  BY <1>3, <1>4, <1>5, QuietStep

\* write fails a poison check.
LEMMA WriteThrowsStep ==
  ASSUME IInv, TypeOK', WriteThrows
  PROVE  IInv'
<1> USE DEF IInv, TypeOK, WriteThrows, chan, ends
<1>1. ExtendedIsReading' /\ ReaderLock' /\ WriterLock'
  BY DEF ExtendedIsReading, ReaderLock, WriterLock, Inside, Waiting
<1>2. Phase' /\ PoisonReleases' /\ PoisonFindsNoValue' /\ SafeUnlessPoisoned'
  BY DEF Phase, PoisonReleases, PoisonFindsNoValue, SafeUnlessPoisoned, Waiting
<1>3. DeliveredInOrder'
  BY DEF DeliveredInOrder
<1> QED
  BY <1>1, <1>2, <1>3

\* Appending to a history of received values.
LEMMA AppendDelivered ==
  ASSUME NEW s \in Seq(Values), NEW v \in Values
  PROVE  Append(s, v) = s \o <<v>>
OBVIOUS

\* An empty _hold adds nothing to what was received.
LEMMA ConcatEmpty ==
  ASSUME NEW s \in Seq(Values)
  PROVE  s \o << >> = s
OBVIOUS

\* A write that pushes its value keeps the invariant.
LEMMA PushStep ==
  ASSUME IInv, TypeOK', NEW w \in Writers, pc[w] = "write",
         Free(SharedOut, mutOut), Push(w)
  PROVE  IInv'
<1> USE DEF IInv, TypeOK
<1>1. \A x \in Writers : ~Waiting(x)
  BY NoWriterInside DEF Waiting
<1>2. \A x \in Writers : ~BlockedWriter(x)
  BY <1>1 DEF BlockedWriter, Waiting
<1>3. ~reading /\ (Unused \/ ReaderFirst)
  BY <1>2 DEF Push, Phase, Extended, WriterFirst, HandOff
<1>4. hold = << >>
  BY <1>3 DEF Unused, ReaderFirst
<1>5. hold' = <<arg[w]>>
  BY <1>4 DEF Push
<1>6. \A q \in Procs : q # w => pc'[q] = pc[q]
  BY DEF Push, Goto
<1>7. pc'[w] = "write_wait"
  BY DEF Push, Goto, Procs
<1>8. \A r \in Readers : (Inside(r)' <=> Inside(r)) /\ (Waiting(r)' <=> Waiting(r))
                         /\ pc'[r] = pc[r]
  BY <1>6, ProcAssumption DEF Inside, Waiting, Procs
<1>9. ReaderLock'
  BY <1>8 DEF ReaderLock, Push
<1>10. WriterLock'
  BY <1>1, <1>6, <1>7 DEF WriterLock, Waiting, Push, Lock, Procs
<1>11. cond' = {w} => BlockedWriter(w)'
  BY <1>5, <1>7 DEF BlockedWriter, Push
<1>12. ASSUME Unused PROVE WriterFirst'
  <2>1. cond' = {w} /\ ~empty'
    BY <1>12 DEF Unused, Push
  <2> QED
    BY <1>8, <1>11, <1>12, <2>1 DEF WriterFirst, Unused
<1>13. ASSUME ReaderFirst PROVE HandOff'
  <2>1. PICK r \in Readers : cond = {r} /\ Waiting(r)
    BY <1>13 DEF ReaderFirst
  <2>2. ~empty
    BY <1>13 DEF ReaderFirst
  <2>3. cond' = {w} /\ empty'
    BY <2>1, <2>2, NotifyOneSingleton DEF Push
  <2> QED
    BY <1>8, <1>11, <2>1, <2>3 DEF HandOff
<1>14. Phase'
  BY <1>3, <1>12, <1>13 DEF Phase, Push
<1>15. ExtendedIsReading'
  BY <1>8 DEF ExtendedIsReading, Push
<1>16. PoisonReleases' /\ PoisonFindsNoValue' /\ SafeUnlessPoisoned'
  BY DEF PoisonReleases, PoisonFindsNoValue, SafeUnlessPoisoned, Push
<1>17. DeliveredInOrder'
  <2>1. sent = received
    BY <1>3, <1>4, ConcatEmpty DEF DeliveredInOrder
  <2>2. sent' = received \o <<arg[w]>>
    BY <2>1, AppendDelivered DEF Push
  <2> QED
    BY <1>3, <1>5, <2>2 DEF DeliveredInOrder, Push
<1> QED
  BY <1>9, <1>10, <1>14, <1>15, <1>16, <1>17

\* A writer that is woken leaves with the invariant in place.
LEMMA WriteResumeStep ==
  ASSUME IInv, TypeOK', NEW w \in Writers, pc[w] = "write_wait", w \notin cond,
         strength = 0, mutOut' = NoProc, Goto(w, "idle"),
         UNCHANGED <<chan, cond, mutIn, arg, status, sent, received>>
  PROVE  IInv'
<1> USE DEF IInv, TypeOK, chan
<1>1. \A q \in Procs : q # w => pc'[q] = pc[q]
  BY DEF Goto
<1>2. \A r \in Readers : (Inside(r)' <=> Inside(r)) /\ (Waiting(r)' <=> Waiting(r))
                         /\ pc'[r] = pc[r]
  BY <1>1, ProcAssumption DEF Inside, Waiting, Procs
<1>3. \A x \in Writers : ~Waiting(x)'
  <2>1. Waiting(w)
    BY DEF Waiting
  <2>2. pc'[w] = "idle"
    BY DEF Goto, Procs
  <2> QED
    BY <1>1, <2>1, <2>2, OneWriter DEF Waiting, Procs
<1>4. \A x \in Writers : ~BlockedWriter(x)
  <2>1. Waiting(w)
    BY DEF Waiting
  <2> QED
    BY <2>1, OneWriter DEF BlockedWriter, Waiting
<1>5. ReaderLock' /\ WriterLock' /\ ExtendedIsReading'
  BY <1>2, <1>3 DEF ReaderLock, WriterLock, ExtendedIsReading
<1>6. ~reading /\ (Unused \/ ReaderFirst)
  BY <1>4 DEF Phase, Extended, WriterFirst, HandOff
<1>7. Phase'
  BY <1>2, <1>6 DEF Phase, Unused, ReaderFirst
<1>8. PoisonReleases' /\ PoisonFindsNoValue' /\ SafeUnlessPoisoned'
  BY <1>2 DEF PoisonReleases, PoisonFindsNoValue, SafeUnlessPoisoned
<1>9. DeliveredInOrder'
  BY DEF DeliveredInOrder
<1> QED
  BY <1>5, <1>7, <1>8, <1>9

\* A read or start_read that fails the poison check on entry.
LEMMA ReadThrowsStep ==
  ASSUME IInv, TypeOK', NEW r \in Readers, NEW owner, ~Inside(r),
         Free(SharedIn, mutIn), ReadThrows(r, owner)
  PROVE  IInv'
<1> USE DEF IInv, TypeOK, chan
<1>1. \A q \in Procs : q # r => pc'[q] = pc[q]
  BY DEF ReadThrows, Goto
<1>2. pc'[r] = "idle"
  BY DEF ReadThrows, Goto, Procs
<1>3. \A q \in Readers : ~Inside(q) /\ ~Inside(q)'
  BY <1>1, <1>2, NoReaderInside DEF Inside, Waiting, Procs
<1>4. \A w \in Writers : Waiting(w)' <=> Waiting(w)
  BY <1>1, ProcAssumption DEF Waiting, Procs
<1>5. ReaderLock' /\ WriterLock' /\ ExtendedIsReading'
  BY <1>3, <1>4 DEF ReaderLock, WriterLock, ExtendedIsReading, ReadThrows, Inside
<1>6. Phase' /\ PoisonReleases' /\ PoisonFindsNoValue' /\ SafeUnlessPoisoned'
  BY <1>3 DEF Phase, PoisonReleases, PoisonFindsNoValue, SafeUnlessPoisoned,
              ReadThrows, Inside
<1>7. DeliveredInOrder'
  BY DEF DeliveredInOrder, ReadThrows
<1> QED
  BY <1>5, <1>6, <1>7

\* A reader that arrives first: Unused becomes ReaderFirst.
LEMMA AwaitWriterStep ==
  ASSUME IInv, TypeOK', NEW r \in Readers, ~Inside(r), Free(SharedIn, mutIn),
         NEW l \in {"read_wait", "start_read_wait"}, AwaitWriter(r, l)
  PROVE  IInv'
<1> USE DEF IInv, TypeOK
<1>1. \A q \in Procs : q # r => pc'[q] = pc[q]
  BY DEF AwaitWriter, Goto
<1>2. pc'[r] = l
  BY DEF AwaitWriter, Goto, Procs
<1>3. Waiting(r)' /\ \A q \in Readers : ~Inside(q)
  BY <1>2, NoReaderInside DEF Waiting
<1>4. \A q \in Readers : Inside(q)' => q = r
  BY <1>1, <1>3 DEF Inside, Waiting, Procs
<1>5. \A w \in Writers : pc'[w] = pc[w] /\ w # r
  BY <1>1, ProcAssumption DEF Procs
<1>6. \A w \in Writers : BlockedWriter(w) => BlockedWriter(w)'
  BY <1>5 DEF BlockedWriter, AwaitWriter
<1>7. ReaderLock' /\ WriterLock'
  BY <1>4, <1>5 DEF ReaderLock, WriterLock, AwaitWriter, Lock, Waiting
<1>8. ExtendedIsReading'
  BY <1>2, <1>4 DEF ExtendedIsReading, Inside
<1>9. Phase'
  <2>1. CASE reading
    <3>1. Extended /\ ~SharedIn
      BY <2>1, ProcAssumption DEF Phase, Extended, AwaitWriter, Free
    <3>2. PICK w \in Writers : cond \subseteq Readers \cup {w} /\ BlockedWriter(w)
      BY <3>1 DEF Extended
    <3>3. cond' \subseteq Readers \cup {w} /\ BlockedWriter(w)'
      BY <3>2, <1>6 DEF AwaitWriter
    <3>4. \A q \in Readers : Waiting(q)' => q \in cond'
      BY <1>4 DEF AwaitWriter, Inside
    <3>5. Extended'
      BY <3>1, <3>3, <3>4, <1>3 DEF Extended
    <3> QED
      BY <3>5, <2>1 DEF Phase, AwaitWriter
  <2>2. CASE ~reading
    <3>1. Unused
      BY <2>2, <1>3 DEF Phase, ReaderFirst, WriterFirst, HandOff, AwaitWriter, Inside
    <3>2. ReaderFirst'
      BY <3>1, <1>3 DEF Unused, ReaderFirst, AwaitWriter
    <3> QED
      BY <3>2, <2>2 DEF Phase, AwaitWriter
  <2> QED
    BY <2>1, <2>2
<1>10. PoisonReleases' /\ PoisonFindsNoValue' /\ SafeUnlessPoisoned'
  BY DEF PoisonReleases, PoisonFindsNoValue, SafeUnlessPoisoned, AwaitWriter
<1>11. DeliveredInOrder'
  BY DEF DeliveredInOrder, AwaitWriter
<1> QED
  BY <1>7, <1>8, <1>9, <1>10, <1>11

\* A reader takes the value of the only blocked writer and wakes it.
LEMMA TakeValueStep ==
  ASSUME IInv, TypeOK', NEW r \in Readers, NEW w \in Writers,
         strength = 0, ~reading, cond = {w}, BlockedWriter(w),
         \A q \in Readers : Inside(q) => q = r,
         empty', TakeValue(r)
  PROVE  IInv'
<1> USE DEF IInv, TypeOK
<1>1. \A q \in Procs : q # r => pc'[q] = pc[q]
  BY DEF TakeValue, Goto
<1>2. pc'[r] = "idle"
  BY DEF TakeValue, Goto, Procs
<1>3. \A q \in Readers : ~Inside(q)'
  BY <1>1, <1>2 DEF Inside, Waiting, Procs
<1>4. \A x \in Writers : Waiting(x)' <=> Waiting(x)
  BY <1>1, ProcAssumption DEF Waiting, Procs
<1>5. ReaderLock' /\ WriterLock' /\ ExtendedIsReading'
  BY <1>3, <1>4 DEF ReaderLock, WriterLock, ExtendedIsReading, TakeValue, Inside
<1>6. hold = <<arg[w]>> /\ hold' = << >>
  BY PoppedSingleton DEF BlockedWriter, TakeValue
<1>7. cond' = {}
  BY NotifyOneSingleton DEF TakeValue
<1>8. Unused'
  BY <1>3, <1>6, <1>7 DEF Unused
<1>9. Phase' /\ PoisonReleases' /\ PoisonFindsNoValue' /\ SafeUnlessPoisoned'
  BY <1>8, <1>7 DEF Phase, PoisonReleases, PoisonFindsNoValue,
                    SafeUnlessPoisoned, TakeValue
<1>10. DeliveredInOrder'
  <2>1. sent = received \o <<arg[w]>>
    BY <1>6 DEF DeliveredInOrder
  <2>2. received' = received \o <<arg[w]>>
    BY <1>6, AppendDelivered DEF TakeValue
  <2>3. received' = received' \o << >>
    BY ConcatEmpty
  <2> QED
    BY <1>6, <2>1, <2>2, <2>3 DEF DeliveredInOrder, TakeValue
<1> QED
  BY <1>5, <1>9, <1>10

\* A reader that poison woke finds nothing in the channel.
LEMMA TakeNothingStep ==
  ASSUME IInv, TypeOK', NEW r \in Readers, Waiting(r), strength > 0,
         TakeNothing(r), UNCHANGED empty
  PROVE  IInv'
<1> USE DEF IInv, TypeOK
<1>1. cond = {} /\ cond' = {}
  BY NotifyOneSubset DEF PoisonReleases, TakeNothing
<1>2. \A q \in Procs : pc'[q] = pc[q] \/ (q = r /\ pc'[q] = "idle")
  BY DEF TakeNothing, Goto
<1>3. \A q \in Procs : Waiting(q)' => Waiting(q)
  BY <1>2 DEF Waiting
<1>4. \A q \in Readers : Inside(q)' => Inside(q)
  BY <1>2, <1>3 DEF Inside, Procs
<1>5. WriterLock' /\ ExtendedIsReading'
  BY <1>2, <1>3 DEF WriterLock, ExtendedIsReading, TakeNothing, Procs
<1>6. ReaderLock'
  <2>1. CASE UNCHANGED mutIn
    BY <2>1, <1>4 DEF ReaderLock
  <2>2. CASE Goto(r, "idle")
    <3>1. \A q \in Readers : ~Inside(q)'
      <4>1. pc'[r] = "idle"
        BY <2>2 DEF Goto, Procs
      <4> QED
        BY <4>1, <1>4, OneReader DEF Inside, Waiting
    <3> QED
      BY <3>1 DEF ReaderLock
  <2> QED
    BY <2>1, <2>2 DEF TakeNothing
<1>7. Phase' /\ PoisonReleases' /\ PoisonFindsNoValue' /\ SafeUnlessPoisoned'
  BY <1>1 DEF Phase, PoisonReleases, PoisonFindsNoValue, SafeUnlessPoisoned,
              TakeNothing
<1>8. DeliveredInOrder'
  BY DEF DeliveredInOrder, TakeNothing
<1> QED
  BY <1>5, <1>6, <1>7, <1>8

\* A reader that finds the channel not empty on entry is there after the writer.
LEMMA EnterNotEmpty ==
  ASSUME IInv, NEW r \in Readers, ~Inside(r), Free(SharedIn, mutIn),
         strength = 0, ~empty
  PROVE  ~reading /\ WriterFirst
<1>1. \A q \in Readers : ~Inside(q)
  BY NoReaderInside DEF IInv
<1>2. ~Extended /\ ~ReaderFirst
  BY <1>1 DEF Extended, ReaderFirst, Inside
<1> QED
  BY <1>2 DEF IInv, Phase, Unused, HandOff

\* A reader that is woken without poison finds the value of a writer.
LEMMA WokenInHandOff ==
  ASSUME IInv, NEW r \in Readers, Waiting(r), r \notin cond, strength = 0
  PROVE  ~reading /\ HandOff
<1>1. Inside(r)
  BY DEF Inside
<1>2. ~Unused /\ ~WriterFirst /\ ~Extended
  BY <1>1 DEF Unused, WriterFirst, Extended
<1>3. ~ReaderFirst
  BY <1>1, OneReader DEF IInv, ReaderFirst, Inside
<1> QED
  BY <1>2, <1>3 DEF IInv, Phase

\* A read that does not wait, or begins to, keeps the invariant.
LEMMA ReadStep ==
  ASSUME IInv, TypeOK', NEW r \in Readers, Read(r)
  PROVE  IInv'
<1>1. ~Inside(r)
  BY DEF Read, Inside, Waiting
<1>2. CASE ReadThrows(r, NoProc)
  BY <1>1, <1>2, ReadThrowsStep DEF Read
<1>3. CASE AwaitWriter(r, "read_wait")
  BY <1>1, <1>3, AwaitWriterStep DEF Read
<1>4. CASE /\ strength = 0 /\ ~empty
           /\ empty' = TRUE
           /\ TakeValue(r) \/ TakeNothing(r)
  <2>1. ~reading /\ WriterFirst
    BY <1>1, <1>4, EnterNotEmpty DEF Read
  <2>2. PICK w \in Writers : cond = {w} /\ BlockedWriter(w)
    BY <2>1 DEF WriterFirst
  <2>3. TakeValue(r)
    BY <1>4, <2>2 DEF BlockedWriter, TakeNothing
  <2>4. \A q \in Readers : Inside(q) => q = r
    BY <2>1 DEF WriterFirst
  <2> QED
    BY <1>4, <2>1, <2>2, <2>3, <2>4, TakeValueStep
<1> QED
  BY <1>2, <1>3, <1>4 DEF Read

\* A woken read keeps the invariant.
LEMMA ReadResumeStep ==
  ASSUME IInv, TypeOK', NEW r \in Readers, ReadResume(r)
  PROVE  IInv'
<1>1. Waiting(r) /\ r \notin cond
  BY DEF ReadResume, Waiting
<1>2. CASE strength > 0
  <2>1. hold = << >>
    BY <1>1, <1>2 DEF IInv, PoisonFindsNoValue
  <2> QED
    BY <1>1, <1>2, <2>1, TakeNothingStep DEF ReadResume, TakeValue
<1>3. CASE strength = 0
  <2>1. ~reading /\ HandOff
    BY <1>1, <1>3, WokenInHandOff
  <2>2. PICK w \in Writers : cond = {w} /\ BlockedWriter(w)
    BY <2>1 DEF HandOff
  <2>3. TakeValue(r) /\ empty'
    BY <2>1, <2>2 DEF BlockedWriter, TakeNothing, ReadResume, HandOff
  <2>4. \A q \in Readers : Inside(q) => q = r
    BY <1>1, OneReader DEF IInv, Inside
  <2> QED
    BY <1>3, <2>1, <2>2, <2>3, <2>4, TakeValueStep
<1> QED
  BY <1>2, <1>3 DEF IInv, TypeOK

\* An extended read begins with the value of the only blocked writer.
LEMMA TakeExtendedStep ==
  ASSUME IInv, TypeOK', NEW r \in Readers, NEW w \in Writers,
         strength = 0, ~reading, cond = {w}, BlockedWriter(w),
         \A q \in Readers : Inside(q) => q = r,
         empty', TakeExtended(r)
  PROVE  IInv'
<1> USE DEF IInv, TypeOK
<1>1. hold = <<arg[w]>> /\ hold' = hold
  BY DEF BlockedWriter, TakeExtended
<1>2. Goto(r, "extended") /\ UNCHANGED status
  BY <1>1 DEF TakeExtended
<1>3. \A q \in Procs : q # r => pc'[q] = pc[q]
  BY <1>2 DEF Goto
<1>4. pc'[r] = "extended"
  BY <1>2 DEF Goto, Procs
<1>5. \A q \in Readers : (Inside(q)' => q = r) /\ ~Waiting(q)'
  BY <1>3, <1>4 DEF Inside, Waiting, Procs
<1>6. \A x \in Writers : pc'[x] = pc[x]
  BY <1>3, ProcAssumption DEF Procs
<1>7. ReaderLock'
  BY <1>5 DEF ReaderLock, TakeExtended, Lock
<1>8. WriterLock' /\ ExtendedIsReading'
  BY <1>6 DEF WriterLock, ExtendedIsReading, TakeExtended, Waiting
<1>9. BlockedWriter(w)'
  BY <1>1, <1>6 DEF BlockedWriter, TakeExtended
<1>10. Extended'
  BY <1>5, <1>9, ProcAssumption DEF Extended, TakeExtended, Lock
<1>11. Phase' /\ PoisonReleases' /\ PoisonFindsNoValue' /\ SafeUnlessPoisoned'
  BY <1>2, <1>10 DEF Phase, PoisonReleases, PoisonFindsNoValue,
                     SafeUnlessPoisoned, TakeExtended
<1>12. DeliveredInOrder'
  <2>1. sent = received \o <<arg[w]>>
    BY <1>1 DEF DeliveredInOrder
  <2>2. received' = received \o <<arg[w]>>
    <3>1. received' = Append(received, hold[1])
      BY <1>1 DEF TakeExtended
    <3>2. hold[1] = arg[w] /\ arg[w] \in Values
      BY <1>1
    <3> QED
      BY <3>1, <3>2, AppendDelivered
  <2>3. received' = received' \o << >>
    BY ConcatEmpty
  <2> QED
    BY <2>1, <2>2, <2>3 DEF DeliveredInOrder, TakeExtended
<1> QED
  BY <1>7, <1>8, <1>11, <1>12

\* start_read on a channel whose extended read was never ended.
LEMMA AlreadyReadingStep ==
  ASSUME IInv, TypeOK', NEW r \in Readers, ~Inside(r), Free(SharedIn, mutIn),
         strength = 0, reading, Goto(r, "idle"),
         UNCHANGED <<chan, cond, mutOut, arg, status, sent, received>>
  PROVE  IInv'
<1> USE DEF IInv, TypeOK, chan
<1>1. \A q \in Procs : q # r => pc'[q] = pc[q]
  BY DEF Goto
<1>2. pc'[r] = "idle"
  BY DEF Goto, Procs
<1>3. Extended /\ ~SharedIn
  BY ProcAssumption DEF Phase, Extended, Free
<1>4. \A q \in Readers : (Waiting(q)' <=> Waiting(q)) /\ (Inside(q)' <=> Inside(q))
  BY <1>1, <1>2 DEF Inside, Waiting, Procs
<1>5. \A x \in Writers : pc'[x] = pc[x]
  BY <1>1, ProcAssumption DEF Procs
<1>6. ReaderLock' /\ WriterLock' /\ ExtendedIsReading'
  BY <1>3, <1>5 DEF ReaderLock, WriterLock, ExtendedIsReading, Waiting
<1>7. \A w \in Writers : BlockedWriter(w) => BlockedWriter(w)'
  BY <1>5 DEF BlockedWriter
<1>8. Extended'
  BY <1>3, <1>4, <1>7 DEF Extended
<1>9. Phase' /\ PoisonReleases' /\ PoisonFindsNoValue' /\ SafeUnlessPoisoned'
  BY <1>8 DEF Phase, PoisonReleases, PoisonFindsNoValue, SafeUnlessPoisoned
<1>10. DeliveredInOrder'
  BY DEF DeliveredInOrder
<1> QED
  BY <1>6, <1>9, <1>10

\* The start of an extended read keeps the invariant.
LEMMA StartReadStep ==
  ASSUME IInv, TypeOK', NEW r \in Readers, StartRead(r)
  PROVE  IInv'
<1>1. ~Inside(r) /\ Free(SharedIn, mutIn)
  BY DEF StartRead, Inside, Waiting
<1>2. CASE ReadThrows(r, Lock(SharedIn, r))
  BY <1>1, <1>2, ReadThrowsStep
<1>3. CASE /\ strength = 0 /\ reading
           /\ mutIn' = Lock(SharedIn, r)
           /\ Goto(r, "idle")
           /\ UNCHANGED <<chan, cond, mutOut, arg, status, sent, received>>
  BY <1>1, <1>3, AlreadyReadingStep
<1>4. CASE AwaitWriter(r, "start_read_wait")
  BY <1>1, <1>4, AwaitWriterStep
<1>5. CASE /\ strength = 0 /\ ~reading /\ ~empty
           /\ empty' = TRUE
           /\ TakeExtended(r)
  <2>1. ~reading /\ WriterFirst
    BY <1>1, <1>5, EnterNotEmpty
  <2>2. PICK w \in Writers : cond = {w} /\ BlockedWriter(w)
    BY <2>1 DEF WriterFirst
  <2>3. \A q \in Readers : Inside(q) => q = r
    BY <2>1 DEF WriterFirst
  <2> QED
    BY <1>5, <2>1, <2>2, <2>3, TakeExtendedStep
<1> QED
  BY <1>2, <1>3, <1>4, <1>5 DEF StartRead

\* A woken extended read keeps the invariant.
LEMMA StartReadResumeStep ==
  ASSUME IInv, TypeOK', NEW r \in Readers, StartReadResume(r)
  PROVE  IInv'
<1>1. Waiting(r) /\ r \notin cond /\ TakeExtended(r) /\ UNCHANGED empty
  BY DEF StartReadResume, Waiting
<1>2. CASE strength > 0
  <2> USE DEF IInv, TypeOK
  <2>1. hold = << >>
    BY <1>1, <1>2 DEF PoisonFindsNoValue
  <2>2. Goto(r, "idle") /\ UNCHANGED <<status, received>>
    BY <1>1, <1>2 DEF TakeExtended
  <2>3. \A q \in Procs : q # r => pc'[q] = pc[q]
    BY <2>2 DEF Goto
  <2>4. pc'[r] = "idle"
    BY <2>2 DEF Goto, Procs
  <2>5. \A q \in Readers : ~Inside(q)'
    BY <1>1, <2>3, <2>4, OneReader DEF Inside, Waiting, Procs
  <2>6. \A w \in Writers : Waiting(w)' <=> Waiting(w)
    BY <2>3, ProcAssumption DEF Waiting, Procs
  <2>7. ReaderLock' /\ WriterLock' /\ ExtendedIsReading'
    BY <1>1, <2>5, <2>6 DEF ReaderLock, WriterLock, ExtendedIsReading,
                            TakeExtended, Inside
  <2>8. Phase' /\ PoisonReleases' /\ PoisonFindsNoValue' /\ SafeUnlessPoisoned'
    BY <1>1, <1>2, <2>5 DEF Phase, PoisonReleases, PoisonFindsNoValue,
                            SafeUnlessPoisoned, TakeExtended, Inside
  <2>9. DeliveredInOrder'
    BY <1>1, <2>1, <2>2 DEF DeliveredInOrder, TakeExtended
  <2> QED
    BY <2>7, <2>8, <2>9
<1>3. CASE strength = 0
  <2>1. ~reading /\ HandOff
    BY <1>1, <1>3, WokenInHandOff
  <2>2. PICK w \in Writers : cond = {w} /\ BlockedWriter(w)
    BY <2>1 DEF HandOff
  <2>3. empty'
    BY <1>1, <2>1 DEF HandOff
  <2>4. \A q \in Readers : Inside(q) => q = r
    BY <1>1, OneReader DEF IInv, Inside
  <2> QED
    BY <1>1, <1>3, <2>1, <2>2, <2>3, <2>4, TakeExtendedStep
<1> QED
  BY <1>2, <1>3 DEF IInv, TypeOK

\* end_read always fails, and changes nothing but where its caller is.
LEMMA EndReadStep ==
  ASSUME IInv, TypeOK', NEW r \in Readers, EndRead(r)
  PROVE  IInv'
<1> USE DEF IInv, TypeOK, chan
<1>1. reading /\ Goto(r, "idle")
  BY DEF EndRead, ExtendedIsReading
<1>2. UNCHANGED <<hold, empty, reading, strength, cond, mutIn, mutOut, arg,
                  status, sent, received>>
  BY <1>1 DEF EndRead
<1>3. \A q \in Procs : q # r => pc'[q] = pc[q]
  BY <1>1 DEF Goto
<1>4. pc'[r] = "idle" /\ pc[r] = "extended"
  BY <1>1 DEF Goto, Procs, EndRead
<1>5. \A q \in Procs : Waiting(q)' <=> Waiting(q)
  BY <1>3, <1>4 DEF Waiting
<1>6. \A q \in Readers : Inside(q)' => Inside(q)
  BY <1>3, <1>4 DEF Inside, Waiting, Procs
<1>7. ReaderLock' /\ WriterLock' /\ ExtendedIsReading'
  BY <1>1, <1>2, <1>5, <1>6 DEF ReaderLock, WriterLock, ExtendedIsReading, Procs
<1>8. \A w \in Writers : BlockedWriter(w) => BlockedWriter(w)'
  BY <1>2, <1>3, ProcAssumption DEF BlockedWriter, Procs
<1>9. Extended => Extended'
  BY <1>2, <1>5, <1>8 DEF Extended, Procs
<1>10. Phase'
  BY <1>1, <1>2, <1>9 DEF Phase
<1>11. PoisonReleases' /\ PoisonFindsNoValue' /\ SafeUnlessPoisoned'
  BY <1>2, <1>5 DEF PoisonReleases, PoisonFindsNoValue, SafeUnlessPoisoned, Procs
<1>12. DeliveredInOrder'
  BY <1>2 DEF DeliveredInOrder
<1> QED
  BY <1>7, <1>10, <1>11, <1>12

\* Poison, when no reader waits with a value in the channel.
LEMMA PoisonStep ==
  ASSUME IInv, TypeOK', NEW s \in Strengths, SetStrength(s), status = "running",
         \A r \in Readers : Waiting(r) => hold = << >>
  PROVE  IInv'
<1> USE DEF IInv, TypeOK, SetStrength, ends
<1>1. strength' > 0
  BY StrengthAssumption
<1>2. ReaderLock' /\ WriterLock' /\ ExtendedIsReading'
  BY DEF ReaderLock, WriterLock, ExtendedIsReading, Inside, Waiting
<1>3. Phase' /\ PoisonReleases' /\ PoisonFindsNoValue' /\ SafeUnlessPoisoned'
  BY <1>1 DEF Phase, PoisonReleases, PoisonFindsNoValue, SafeUnlessPoisoned,
              NotifyAll, Waiting
<1>4. DeliveredInOrder'
  BY DEF DeliveredInOrder
<1> QED
  BY <1>2, <1>3, <1>4

\* Poison from the input end finds no reader waiting.
LEMMA ReaderPoisonStep ==
  ASSUME IInv, TypeOK', NEW r \in Readers, NEW s \in Strengths, ReaderPoison(r, s)
  PROVE  IInv'
<1>1. \A q \in Readers : ~Waiting(q)
  BY NoReaderWaiting DEF IInv, ReaderPoison, Waiting
<1> QED
  BY <1>1, PoisonStep DEF ReaderPoison

\* Poison from the output end finds no writer inside.
LEMMA WriterPoisonStep ==
  ASSUME IInv, TypeOK', NEW w \in Writers, NEW s \in Strengths, WriterPoison(w, s)
  PROVE  IInv'
<1>1. \A x \in Writers : ~Waiting(x)
  BY NoWriterInside DEF IInv, WriterPoison, Waiting
<1>2. \A x \in Writers : ~BlockedWriter(x)
  BY <1>1 DEF BlockedWriter, Waiting
<1>3. CASE strength = 0
  <2>1. Unused \/ ReaderFirst
    BY <1>2, <1>3 DEF IInv, Phase, Extended, WriterFirst, HandOff
  <2>2. hold = << >>
    BY <2>1 DEF Unused, ReaderFirst
  <2> QED
    BY <2>2, PoisonStep DEF WriterPoison
<1>4. CASE strength > 0
  BY <1>4, PoisonStep DEF WriterPoison, IInv, PoisonFindsNoValue
<1> QED
  BY <1>3, <1>4 DEF IInv, TypeOK

-----------------------------------------------------------------------------
(* The invariant, and what it gives.                                       *)

\* Every step keeps the inductive invariant.
LEMMA IInvStep ==
  ASSUME IInv, [Next]_vars
  PROVE  IInv'
<1>1. TypeOK'
  BY TypeStep DEF IInv
<1> USE <1>1
<1>2. ASSUME NEW r \in Readers, CallRead(r) \/ CallStartRead(r) PROVE IInv'
  <2>1. r \in Procs
    BY DEF Procs
  <2> QED
    BY <1>2, <2>1, CallStep DEF CallRead, CallStartRead
<1>3. ASSUME NEW w \in Writers, NEW v \in Values, CallWrite(w, v) PROVE IInv'
  <2>1. w \in Procs /\ \A x \in Writers : x # w => arg'[x] = arg[x]
    BY <1>3 DEF Procs, CallWrite, IInv, TypeOK
  <2> QED
    BY <1>3, <2>1, CallStep DEF CallWrite
<1>4. ASSUME NEW w \in Writers, Write(w) PROVE IInv'
  BY <1>4, WriteThrowsStep, PushStep DEF Write
<1>5. ASSUME NEW w \in Writers, WriteResume(w) PROVE IInv'
  BY <1>5, WriteThrowsStep, WriteResumeStep DEF WriteResume
<1>6. ASSUME NEW r \in Readers, ReaderStep(r) PROVE IInv'
  BY <1>2, <1>6, ReadStep, ReadResumeStep, StartReadStep, StartReadResumeStep,
     EndReadStep, ReaderPoisonStep DEF ReaderStep
<1>7. ASSUME NEW w \in Writers, WriterStep(w) PROVE IInv'
  BY <1>3, <1>4, <1>5, <1>7, WriterPoisonStep DEF WriterStep
<1>8. CASE UNCHANGED vars
  <2>1. \A p \in Procs : Waiting(p)' <=> Waiting(p)
    BY <1>8 DEF vars, Waiting
  <2>2. \A r \in Readers : Inside(r)' <=> Inside(r)
    BY <1>8 DEF vars, Waiting, Inside
  <2> QED
    BY <1>8, <2>1, <2>2, QuietStep DEF vars, chan, ends
<1> QED
  BY <1>6, <1>7, <1>8 DEF Next

\* Every reachable state of the channel satisfies the inductive invariant:
\* the end mutexes exclude, and the flags, the wait set and the callers are
\* always in one of five phases.
THEOREM InductiveInvariant == Spec => []IInv
<1>1. Init => IInv
  BY InitInv
<1>2. IInv /\ [Next]_vars => IInv'
  BY IInvStep
<1> QED
  BY <1>1, <1>2, PTL DEF Spec

\* No lost wakeup: a reader and a writer are never both left waiting.
THEOREM NoLostWakeup == Spec => []NeverBothWait
<1>1. IInv => NeverBothWait
  <2> SUFFICES ASSUME IInv, ~reading, NEW r \in Readers, NEW w \in Writers,
                      {r, w} \subseteq cond
               PROVE  FALSE
    BY DEF NeverBothWait
  <2>1. strength = 0
    BY DEF IInv, PoisonReleases, TypeOK
  <2>2. Unused \/ ReaderFirst \/ WriterFirst \/ HandOff
    BY <2>1 DEF IInv, Phase
  <2>3. \E p \in Procs : cond \subseteq {p}
    BY <2>2 DEF Unused, ReaderFirst, WriterFirst, HandOff, Procs
  <2> QED
    BY <2>3, ProcAssumption
<1> QED
  BY <1>1, InductiveInvariant, PTL

\* write does not return before a reader has taken its value.
THEOREM SynchronousWrite == Spec => []WriterWaitsForReader
<1>1. IInv => WriterWaitsForReader
  <2> SUFFICES ASSUME IInv, strength = 0
               PROVE  /\ Len(hold) <= 1
                      /\ \A w \in Writers : w \in cond => hold = <<arg[w]>>
                      /\ hold # << >> => \E w \in Writers : pc[w] = "write_wait"
    BY DEF WriterWaitsForReader
  <2>1. \/ hold = << >> /\ \A w \in Writers : w \notin cond
        \/ \E w \in Writers : /\ \A x \in Writers : x \in cond => x = w
                              /\ BlockedWriter(w)
    BY ProcAssumption
       DEF IInv, Phase, Unused, ReaderFirst, WriterFirst, HandOff, Extended
  <2>2. CASE hold = << >> /\ \A w \in Writers : w \notin cond
    BY <2>2
  <2>3. CASE \E w \in Writers : /\ \A x \in Writers : x \in cond => x = w
                                /\ BlockedWriter(w)
    <3>1. PICK w \in Writers : /\ \A x \in Writers : x \in cond => x = w
                               /\ BlockedWriter(w)
      BY <2>3
    <3>2. hold = <<arg[w]>> /\ pc[w] = "write_wait"
      BY <3>1 DEF BlockedWriter
    <3>3. Len(hold) = 1
      BY <3>2
    <3> QED
      BY <3>1, <3>2, <3>3
  <2> QED
    BY <2>1, <2>2, <2>3
<1> QED
  BY <1>1, InductiveInvariant, PTL

\* The readers together receive what the writers wrote, in order, once each,
\* up to the value still in the channel, with and without poison.
THEOREM InOrderDelivery == Spec => []DeliveredInOrder
<1>1. IInv => DeliveredInOrder
  BY DEF IInv
<1> QED
  BY <1>1, InductiveInvariant, PTL

\* Poison leaves nobody waiting.
THEOREM PoisonReleasesAll == Spec => []PoisonReleases
<1>1. IInv => PoisonReleases
  BY DEF IInv
<1> QED
  BY <1>1, InductiveInvariant, PTL

\* Without poison no interleaving reads an empty _hold or ends the program.
THEOREM SafeWithoutPoison == Spec => []SafeUnlessPoisoned
<1>1. IInv => SafeUnlessPoisoned
  BY DEF IInv
<1> QED
  BY <1>1, InductiveInvariant, PTL

\* An extended read keeps the writer blocked.
THEOREM ExtendedReadBlocks == Spec => []ExtendedReadBlocksWriter
<1>1. IInv => ExtendedReadBlocksWriter
  BY DEF IInv, ExtendedReadBlocksWriter, ExtendedIsReading, Phase, Extended,
         BlockedWriter
<1> QED
  BY <1>1, InductiveInvariant, PTL

-----------------------------------------------------------------------------
(* With plain reads the channel implements RendezvousChan.                 *)

WS == [w \in Writers |-> WState(w)]
RS == [r \in Readers |-> RState(r)]

\* No reader is in start_read or between start_read and end_read.
Plain == ~reading /\ \A r \in Readers : pc[r] \in {"idle", "read", "read_wait"}

\* Without start_read no extended read begins.
LEMMA PlainStep == ~ExtendedReads /\ TypeOK /\ Plain /\ [Next]_vars => Plain'
<1> SUFFICES ASSUME ~ExtendedReads, TypeOK, Plain, [Next]_vars PROVE Plain'
  OBVIOUS
<1> USE DEF Plain, chan, ends, Procs
<1>1. ASSUME NEW r \in Readers, ReaderStep(r) PROVE Plain'
  <2>1. ~CallStartRead(r) /\ ~StartRead(r) /\ ~StartReadResume(r) /\ ~EndRead(r)
    BY DEF CallStartRead, StartRead, StartReadResume, EndRead
  <2>2. ASSUME NEW l \in {"idle", "read", "read_wait"}, Goto(r, l), reading' = reading
        PROVE  Plain'
    BY <2>2 DEF Goto, TypeOK
  <2>3. CASE CallRead(r)
    BY <2>2, <2>3 DEF CallRead
  <2>4. CASE Read(r)
    BY <2>2, <2>4 DEF Read, ReadThrows, AwaitWriter, TakeValue, TakeNothing
  <2>5. CASE ReadResume(r)
    BY <2>2, <2>5 DEF ReadResume, TakeValue, TakeNothing
  <2>6. CASE \E s \in Strengths : ReaderPoison(r, s)
    BY <2>6 DEF ReaderPoison, SetStrength
  <2> QED
    BY <1>1, <2>1, <2>3, <2>4, <2>5, <2>6 DEF ReaderStep
<1>2. ASSUME NEW w \in Writers, WriterStep(w) PROVE Plain'
  <2>1. ASSUME NEW l, Goto(w, l), reading' = reading
        PROVE  Plain'
    BY <2>1, ProcAssumption DEF Goto, TypeOK
  <2>2. CASE \E v \in Values : CallWrite(w, v)
    BY <2>1, <2>2 DEF CallWrite
  <2>3. CASE Write(w)
    BY <2>1, <2>3 DEF Write, WriteThrows, Push
  <2>4. CASE WriteResume(w)
    BY <2>1, <2>4 DEF WriteResume, WriteThrows
  <2>5. CASE \E s \in Strengths : WriterPoison(w, s)
    BY <2>5 DEF WriterPoison, SetStrength
  <2> QED
    BY <1>2, <2>2, <2>3, <2>4, <2>5 DEF WriterStep
<1>3. CASE UNCHANGED vars
  BY <1>3 DEF vars
<1> QED
  BY <1>1, <1>2, <1>3 DEF Next

\* A reader's move is seen in its own abstract state only, if it leaves the
\* writers that wait alone.
LEMMA ReaderMove ==
  ASSUME TypeOK, NEW r \in Readers, NEW l, Goto(r, l), UNCHANGED strength,
         \A w \in Writers : w \in cond' <=> w \in cond
  PROVE  /\ RS' = [RS EXCEPT ![r] = RState(r)'] /\ WS' = WS
         /\ pc'[r] = l
<1>1. \A q \in Procs : q # r => pc'[q] = pc[q]
  BY DEF Goto, TypeOK
<1>2. pc'[r] = l
  BY DEF Goto, TypeOK, Procs
<1>3. \A x \in Readers : x # r => RState(x)' = RState(x)
  BY <1>1 DEF RState, Procs
<1>4. \A w \in Writers : WState(w)' = WState(w)
  BY <1>1, ProcAssumption DEF WState, Procs
<1> QED
  BY <1>2, <1>3, <1>4 DEF RS, WS

\* A writer that moves changes its own abstract state only, if no other writer
\* that waits is notified.
LEMMA WriterMove ==
  ASSUME TypeOK, NEW w \in Writers, NEW l, Goto(w, l), UNCHANGED strength,
         \A x \in Writers : x # w /\ pc[x] = "write_wait" => (x \in cond' <=> x \in cond)
  PROVE  /\ WS' = [WS EXCEPT ![w] = WState(w)'] /\ RS' = RS
         /\ pc'[w] = l
<1>1. \A q \in Procs : q # w => pc'[q] = pc[q]
  BY DEF Goto, TypeOK
<1>2. pc'[w] = l
  BY DEF Goto, TypeOK, Procs
<1>3. \A x \in Writers : x # w => WState(x)' = WState(x)
  BY <1>1 DEF WState, Procs
<1>4. \A r \in Readers : RState(r)' = RState(r)
  BY <1>1, ProcAssumption DEF RState, Procs
<1> QED
  BY <1>2, <1>3, <1>4 DEF RS, WS

\* A call of read is the abstract reader wanting a value.
LEMMA CallReadRefines ==
  ASSUME TypeOK, NEW r \in Readers, CallRead(r)
  PROVE  Abstract!Want(r)
<1> USE DEF CallRead, chan, ends
<1>1. RState(r) = "idle" /\ RS[r] = "idle"
  BY DEF RState, RS
<1>2. RS' = [RS EXCEPT ![r] = RState(r)'] /\ WS' = WS /\ pc'[r] = "read"
  BY ReaderMove
<1>3. RState(r)' = IF strength > 0 THEN "doomed" ELSE "wanting"
  BY <1>2 DEF RState
<1> QED
  BY <1>1, <1>2, <1>3 DEF Abstract!Want, RS, WS

\* A call of write is the abstract writer offering its value.
LEMMA CallWriteRefines ==
  ASSUME TypeOK, NEW w \in Writers, NEW v \in Values, CallWrite(w, v)
  PROVE  Abstract!Offer(w, v)
<1> USE DEF CallWrite, chan, ends
<1>1. WState(w) = "idle" /\ WS[w] = "idle"
  BY DEF WState, WS
<1>2. WS' = [WS EXCEPT ![w] = WState(w)'] /\ RS' = RS /\ pc'[w] = "write"
  BY WriterMove
<1>3. WState(w)' = IF strength > 0 THEN "doomed" ELSE "offering"
  BY <1>2 DEF WState
<1> QED
  BY <1>1, <1>2, <1>3 DEF Abstract!Offer, RS, WS

\* A write that throws ends the program: the abstract collapse.
LEMMA WriteThrowsRefines ==
  ASSUME TypeOK, NEW w \in Writers, pc[w] # "idle", status = "running", WriteThrows
  PROVE  Abstract!Collapse
<1>1. WS' = WS /\ RS' = RS
  BY DEF WS, RS, WState, RState, WriteThrows, chan
<1>2. WS[w] = "doomed"
  BY DEF WS, WState, WriteThrows
<1> QED
  BY <1>1, <1>2 DEF Abstract!Collapse, WriteThrows, chan, WS, RS

\* A push is invisible: the writer goes on offering.
LEMMA PushRefines ==
  ASSUME IInv, NEW w \in Writers, pc[w] = "write", Free(SharedOut, mutOut), Push(w)
  PROVE  UNCHANGED Abstract!vars
<1>1. \A x \in Writers : ~Waiting(x)
  BY NoWriterInside DEF Waiting, IInv
<1>2. Goto(w, "write_wait") /\ w \in cond' /\ UNCHANGED <<strength, arg, status, received>>
      /\ strength = 0
  BY DEF Push
<1>3. WS' = [WS EXCEPT ![w] = WState(w)'] /\ RS' = RS /\ pc'[w] = "write_wait"
  BY <1>1, <1>2, WriterMove DEF Waiting, IInv
<1>4. WState(w)' = WState(w)
  BY <1>2, <1>3 DEF WState
<1>5. WS' = WS
  BY <1>3, <1>4 DEF WS
<1> QED
  BY <1>2, <1>3, <1>5 DEF Abstract!vars, WS, RS

\* A writer woken without poison returns: its value is taken.
LEMMA WriteResumeRefines ==
  ASSUME IInv, NEW w \in Writers, WriteResume(w), strength = 0
  PROVE  Abstract!Return(w)
<1> USE DEF chan
<1>1. /\ pc[w] = "write_wait" /\ w \notin cond /\ status = "running" /\ Goto(w, "idle")
      /\ UNCHANGED <<chan, cond, arg, status, received>>
  BY DEF WriteResume, WriteThrows
<1>2. WS' = [WS EXCEPT ![w] = WState(w)'] /\ RS' = RS /\ pc'[w] = "idle"
  BY <1>1, WriterMove DEF IInv
<1>3. WS[w] = "accepted" /\ WState(w)' = "idle"
  BY <1>1, <1>2 DEF WS, WState
<1> QED
  BY <1>1, <1>2, <1>3 DEF Abstract!Return, WS, RS

\* A reader on a poisoned channel leaves with the exception.
LEMMA LeaveRefines ==
  ASSUME TypeOK, NEW r \in Readers, pc[r] # "idle", strength > 0, status = "running",
         Goto(r, "idle"), UNCHANGED <<strength, cond, arg, status, received>>
  PROVE  Abstract!Fail(r)
<1>1. RS' = [RS EXCEPT ![r] = RState(r)'] /\ WS' = WS /\ pc'[r] = "idle"
  BY ReaderMove
<1>2. RState(r)' = "idle" /\ RS[r] = "doomed"
  BY <1>1 DEF RS, RState
<1> QED
  BY <1>1, <1>2 DEF Abstract!Fail, WS, RS

\* A reader that takes the value of the writer that waits meets it.
LEMMA TakeRefines ==
  ASSUME TypeOK, NEW r \in Readers, NEW w \in Writers, pc[r] # "idle", strength = 0,
         status = "running", cond = {w}, BlockedWriter(w), TakeValue(r)
  PROVE  Abstract!Meet(w, r)
<1>1. /\ cond' = {} /\ Goto(r, "idle") /\ UNCHANGED <<strength, arg, status>>
      /\ received' = Append(received, arg[w])
  <2>1. hold[1] = arg[w]
    BY DEF BlockedWriter
  <2>2. cond' = {}
    BY NotifyOneSingleton DEF TakeValue
  <2>3. received' = Append(received, hold[1])
    BY DEF TakeValue
  <2> QED
    BY <2>1, <2>2, <2>3 DEF TakeValue
<1>2. \A q \in Procs : q # r => pc'[q] = pc[q]
  BY <1>1 DEF Goto, TypeOK
<1>3. pc'[r] = "idle"
  BY <1>1 DEF Goto, TypeOK, Procs
<1>4. RState(r) = "wanting" /\ RState(r)' = "idle"
  BY <1>3 DEF RState
<1>5. \A x \in Readers : x # r => RState(x)' = RState(x)
  BY <1>1, <1>2 DEF RState, Procs
<1>6. WState(w) = "offering" /\ WState(w)' = "accepted"
  BY <1>1, <1>2, ProcAssumption DEF WState, BlockedWriter, Procs
<1>7. \A x \in Writers : x # w => WState(x)' = WState(x)
  BY <1>1, <1>2, ProcAssumption DEF WState, Procs
<1>8. RS' = [RS EXCEPT ![r] = "idle"] /\ WS' = [WS EXCEPT ![w] = "accepted"]
      /\ RS[r] = "wanting" /\ WS[w] = "offering"
  BY <1>4, <1>5, <1>6, <1>7 DEF RS, WS
<1> QED
  BY <1>1, <1>8 DEF Abstract!Meet, WS, RS

\* A read that finds no value is on a poisoned channel: it fails, or the
\* program is lost.
LEMMA TakeNothingRefines ==
  ASSUME IInv, NEW r \in Readers, pc[r] # "idle", strength > 0, status = "running",
         TakeNothing(r)
  PROVE  Abstract!Fail(r) \/ Abstract!Collapse
<1>1. cond = {} /\ TypeOK
  BY DEF IInv, PoisonReleases
<1>2. UNCHANGED <<strength, arg, received>>
  BY DEF TakeNothing
<1>3. CASE status' = "undefined" /\ UNCHANGED <<cond, mutIn, pc>>
  <2>1. WS' = WS /\ RS' = RS
    BY <1>2, <1>3 DEF WS, RS, WState, RState
  <2>2. RS[r] = "doomed"
    BY DEF RS, RState
  <2> QED
    BY <1>2, <1>3, <2>1, <2>2 DEF Abstract!Collapse, WS, RS
<1>4. CASE cond' \in NotifyOne(cond) /\ Goto(r, "idle") /\ UNCHANGED status
  <2>1. cond' = cond
    BY <1>1, <1>4 DEF NotifyOne
  <2> QED
    BY <1>1, <1>2, <1>4, <2>1, LeaveRefines
<1> QED
  BY <1>3, <1>4 DEF TakeNothing

\* A read meets the writer that is blocked, fails on a poisoned channel, or
\* goes on wanting.
LEMMA ReadRefines ==
  ASSUME IInv, NEW r \in Readers, Read(r) \/ ReadResume(r)
  PROVE  \/ \E w \in Writers : Abstract!Meet(w, r)
         \/ Abstract!Fail(r) \/ Abstract!Collapse
         \/ UNCHANGED Abstract!vars
<1>0. TypeOK /\ status = "running" /\ pc[r] # "idle" /\ strength \in Nat
  BY DEF IInv, TypeOK, Read, ReadResume
<1>1. CASE Read(r)
  <2>0. ~Inside(r) /\ Free(SharedIn, mutIn)
    BY <1>1 DEF Read, Inside, Waiting
  <2>1. CASE ReadThrows(r, NoProc)
    BY <1>0, <2>1, LeaveRefines DEF ReadThrows, chan
  <2>2. CASE AwaitWriter(r, "read_wait")
    <3>1. RS' = [RS EXCEPT ![r] = RState(r)'] /\ WS' = WS /\ pc'[r] = "read_wait"
      BY <1>0, <2>2, ReaderMove, ProcAssumption DEF AwaitWriter
    <3>2. RState(r)' = RState(r)
      BY <1>0, <2>2, <3>1 DEF RState, AwaitWriter
    <3>3. RS' = RS
      BY <3>1, <3>2 DEF RS
    <3> QED
      BY <2>2, <3>1, <3>3 DEF Abstract!vars, AwaitWriter, WS, RS
  <2>3. CASE strength = 0 /\ ~empty /\ (TakeValue(r) \/ TakeNothing(r))
    <3>1. WriterFirst
      BY <2>0, <2>3, EnterNotEmpty
    <3>2. PICK w \in Writers : cond = {w} /\ BlockedWriter(w)
      BY <3>1 DEF WriterFirst
    <3>3. TakeValue(r)
      BY <2>3, <3>2 DEF BlockedWriter, TakeNothing
    <3> QED
      BY <1>0, <2>3, <3>2, <3>3, TakeRefines
  <2> QED
    BY <1>1, <2>1, <2>2, <2>3 DEF Read
<1>2. CASE ReadResume(r)
  <2>1. Waiting(r) /\ r \notin cond
    BY <1>2 DEF ReadResume, Waiting
  <2>2. CASE strength > 0
    <3>1. TakeNothing(r)
      BY <1>2, <2>1, <2>2 DEF IInv, PoisonFindsNoValue, ReadResume, TakeValue
    <3> QED
      BY <1>0, <2>2, <3>1, TakeNothingRefines
  <2>3. CASE strength = 0
    <3>1. HandOff
      BY <2>1, <2>3, WokenInHandOff
    <3>2. PICK w \in Writers : cond = {w} /\ BlockedWriter(w)
      BY <3>1 DEF HandOff
    <3>3. TakeValue(r)
      BY <1>2, <3>2 DEF BlockedWriter, TakeNothing, ReadResume
    <3> QED
      BY <1>0, <2>3, <3>2, <3>3, TakeRefines
  <2> QED
    BY <1>0, <2>2, <2>3
<1> QED
  BY <1>1, <1>2

\* Poison is the abstract poison.
LEMMA PoisonRefines ==
  ASSUME TypeOK, status = "running", NEW s \in Strengths, SetStrength(s)
  PROVE  Abstract!Poison
<1> USE DEF SetStrength
<1>1. strength' > 0 /\ pc' = pc
  BY StrengthAssumption
<1>2. \A w \in Writers : WState(w)' = IF WState(w) = "idle" THEN "idle" ELSE "doomed"
  BY <1>1 DEF WState
<1>3. \A r \in Readers : RState(r)' = IF RState(r) = "idle" THEN "idle" ELSE "doomed"
  BY <1>1 DEF RState
<1> QED
  BY <1>1, <1>2, <1>3 DEF Abstract!Poison

\* Every step of plain reads and writes is an abstract step or a stutter.
LEMMA RefinementStep == IInv /\ Plain /\ Plain' /\ [Next]_vars => [Abstract!Next]_(Abstract!vars)
<1> SUFFICES ASSUME IInv, Plain, Plain', [Next]_vars PROVE [Abstract!Next]_(Abstract!vars)
  OBVIOUS
<1>1. TypeOK
  BY DEF IInv
<1>2. ASSUME NEW r \in Readers, ReaderStep(r) PROVE [Abstract!Next]_(Abstract!vars)
  <2>1. CASE CallRead(r)
    BY <1>1, <2>1, CallReadRefines DEF Abstract!Next
  <2>2. CASE Read(r) \/ ReadResume(r)
    BY <2>2, ReadRefines DEF Abstract!Next
  <2>3. CASE \E s \in Strengths : ReaderPoison(r, s)
    BY <1>1, <2>3, PoisonRefines DEF ReaderPoison, Abstract!Next
  <2>4. ~StartRead(r) /\ ~StartReadResume(r) /\ ~EndRead(r)
    BY DEF Plain, StartRead, StartReadResume, EndRead
  <2>5. ~CallStartRead(r)
    BY <1>1 DEF Plain, CallStartRead, Goto, TypeOK, Procs
  <2> QED
    BY <1>2, <2>1, <2>2, <2>3, <2>4, <2>5 DEF ReaderStep
<1>3. ASSUME NEW w \in Writers, WriterStep(w) PROVE [Abstract!Next]_(Abstract!vars)
  <2>1. CASE \E v \in Values : CallWrite(w, v)
    BY <1>1, <2>1, CallWriteRefines DEF Abstract!Next
  <2>2. CASE Write(w)
    BY <1>1, <2>2, WriteThrowsRefines, PushRefines DEF Write, Abstract!Next
  <2>3. CASE WriteResume(w)
    <3>1. CASE WriteThrows
      BY <1>1, <2>3, <3>1, WriteThrowsRefines DEF WriteResume, Abstract!Next
    <3>2. CASE strength = 0
      BY <1>1, <2>3, <3>2, WriteResumeRefines DEF Abstract!Next
    <3> QED
      BY <2>3, <3>1, <3>2 DEF WriteResume
  <2>4. CASE \E s \in Strengths : WriterPoison(w, s)
    BY <1>1, <2>4, PoisonRefines DEF WriterPoison, Abstract!Next
  <2> QED
    BY <1>3, <2>1, <2>2, <2>3, <2>4 DEF WriterStep
<1>4. CASE UNCHANGED vars
  BY <1>4 DEF vars, Abstract!vars, WState, RState
<1> QED
  BY <1>2, <1>3, <1>4 DEF Next

\* With plain reads the mutex, the condition variable and the flags of
\* basic_chan_internal implement the atomic rendezvous: a value changes hands
\* in one step, in which both its writer and its reader are in their calls.
THEOREM Refinement ==
  ASSUME ~ExtendedReads
  PROVE  Spec => ImplementsRendezvous
<1>1. Init => Abstract!Init
  <2> SUFFICES ASSUME Init PROVE Abstract!Init
    OBVIOUS
  <2>1. TypeOK
    BY InitType
  <2>2. \A w \in Writers : WState(w) = "idle"
    BY DEF Init, WState, Procs
  <2>3. \A r \in Readers : RState(r) = "idle"
    BY DEF Init, RState, Procs
  <2> QED
    BY <2>1, <2>2, <2>3 DEF Init, TypeOK, Abstract!Init
<1>2. Init => Plain
  BY DEF Init, Plain, Procs
<1>3. IInv /\ Plain /\ [Next]_vars => Plain'
  BY PlainStep DEF IInv
<1> QED
  BY <1>1, <1>2, <1>3, RefinementStep, InductiveInvariant, PTL
  DEF Spec, ImplementsRendezvous, Abstract!Spec
=============================================================================
