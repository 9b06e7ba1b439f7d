------------------------- MODULE BufferedChanProofs -------------------------
(***************************************************************************)
(* Proofs about BufferedChan, for every set of readers, writers, values,   *)
(* buffer sizes and poison strengths and for all four channel types,       *)
(* without spurious wakeups.                                               *)
(***************************************************************************)
EXTENDS BufferedChan, SequenceTheorems, TLAPS

-----------------------------------------------------------------------------
(* Helpers.                                                                *)

\* notify_one leaves a subset of the waiters.
LEMMA NotifyOneSubset ==
  ASSUME NEW S, NEW X \in NotifyOne(S)
  PROVE  X \subseteq S
BY DEF NotifyOne

\* notify_one wakes the waiter when there is at most one.
LEMMA NotifyOneOfOne ==
  ASSUME NEW S, \A p, q \in S : p = q, NEW X \in NotifyOne(S)
  PROVE  X = {}
<1>1. CASE S = {}
  BY <1>1 DEF NotifyOne
<1>2. CASE S # {}
  <2>1. PICK p \in S : X = S \ {p}
    BY <1>2 DEF NotifyOne
  <2> QED
    BY <2>1
<1> QED
  BY <1>1, <1>2

\* Taking the head of a buffer that is not empty.
LEMMA TakeHead ==
  ASSUME NEW b \in Seq(Values), b # << >>
  PROVE  /\ Head(b) \in Values /\ Tail(b) \in Seq(Values)
         /\ Len(Tail(b)) = Len(b) - 1 /\ Len(b) \in Nat /\ Len(b) > 0
BY EmptySeq

\* A put makes the buffer one longer.
LEMMA PutLast ==
  ASSUME NEW b \in Seq(Values), NEW v \in Values
  PROVE  /\ Append(b, v) \in Seq(Values) /\ Append(b, v) # << >>
         /\ Len(Append(b, v)) = Len(b) + 1 /\ Len(b) \in Nat
OBVIOUS

-----------------------------------------------------------------------------
(* Type correctness.                                                       *)

\* The constructors leave the members with their types.
LEMMA InitType == Init => TypeOK
<1> SUFFICES ASSUME Init PROVE TypeOK
  OBVIOUS
<1>1. (CHOOSE v \in Values : TRUE) \in Values
  BY ParameterAssumption
<1>2. arg \in [Writers -> Values]
  BY <1>1 DEF Init
<1>3. /\ pc \in [Procs -> ReaderPC \cup WriterPC]
      /\ \A r \in Readers : pc[r] \in ReaderPC
      /\ \A w \in Writers : pc[w] \in WriterPC
  BY DEF Init, Procs, ReaderPC, WriterPC
<1>4. buffer \in Seq(Values) /\ received \in Seq(Values)
  BY DEF Init
<1>6. size \in Nat /\ reading \in BOOLEAN /\ strength \in Nat
  BY ParameterAssumption DEF Init
<1>5. /\ cond \subseteq Procs
      /\ mutIn \in Readers \cup {NoProc}
      /\ mutOut \in Writers \cup {NoProc}
      /\ status \in {"running", "terminated", "undefined"}
  BY DEF Init
<1> QED
  BY <1>2, <1>3, <1>4, <1>5, <1>6 DEF TypeOK

\* A reader that moves leaves every process at a place of its kind.
LEMMA GotoReader ==
  ASSUME TypeOK, NEW r \in Readers, NEW l \in ReaderPC, Goto(r, l)
  PROVE  /\ pc' \in [Procs -> ReaderPC \cup WriterPC]
         /\ \A x \in Readers : pc'[x] \in ReaderPC
         /\ \A w \in Writers : pc'[w] \in WriterPC
BY ProcAssumption DEF TypeOK, Goto, Procs

\* A writer that moves leaves every process at a place of its kind.
LEMMA GotoWriter ==
  ASSUME TypeOK, NEW w \in Writers, NEW l \in WriterPC, Goto(w, l)
  PROVE  /\ pc' \in [Procs -> ReaderPC \cup WriterPC]
         /\ \A x \in Readers : pc'[x] \in ReaderPC
         /\ \A x \in Writers : pc'[x] \in WriterPC
BY ProcAssumption DEF TypeOK, Goto, Procs

\* The tail of both reads, with the wait set it leaves.
LEMMA GetType ==
  ASSUME TypeOK, NEW r \in Readers, NEW l \in ReaderPC,
         NEW owner \in Readers \cup {NoProc}, Get(r, l, owner),
         reading' \in BOOLEAN, cond' \subseteq Procs,
         UNCHANGED <<size, strength, mutOut, arg>>
  PROVE  TypeOK'
<1>1. buffer' \in Seq(Values) /\ received' \in Seq(Values)
  <2>1. CASE UNCHANGED <<buffer, received>>
    BY <2>1 DEF TypeOK
  <2>2. CASE /\ buffer # << >> /\ buffer' = Tail(buffer)
             /\ received' = Append(received, Head(buffer))
    <3>1. Tail(buffer) \in Seq(Values) /\ Head(buffer) \in Values
      BY <2>2, TakeHead DEF TypeOK
    <3> QED
      BY <2>2, <3>1 DEF TypeOK
  <2> QED
    BY <2>1, <2>2 DEF Get
<1>2. mutIn' \in Readers \cup {NoProc}
  BY DEF Get, TypeOK
<1>3. /\ pc' \in [Procs -> ReaderPC \cup WriterPC]
      /\ \A x \in Readers : pc'[x] \in ReaderPC
      /\ \A w \in Writers : pc'[w] \in WriterPC
  <2>1. "idle" \in ReaderPC
    BY DEF ReaderPC
  <2> QED
    BY <2>1, GotoReader DEF Get, TypeOK
<1> QED
  BY <1>1, <1>2, <1>3 DEF Get, TypeOK

\* Every step keeps the types.
LEMMA TypeStep == TypeOK /\ [Next]_vars => TypeOK'
<1> SUFFICES ASSUME TypeOK, [Next]_vars PROVE TypeOK'
  OBVIOUS
<1> USE DEF chan, ends
<1>1. ASSUME NEW r \in Readers, CallRead(r) \/ CallStartRead(r) PROVE TypeOK'
  BY <1>1, GotoReader DEF CallRead, CallStartRead, TypeOK, ReaderPC
<1>2. ASSUME NEW w \in Writers, NEW v \in Values, CallWrite(w, v) PROVE TypeOK'
  BY <1>2, GotoWriter DEF CallWrite, TypeOK, WriterPC
<1>3. ASSUME NEW w \in Writers, Write(w) PROVE TypeOK'
  <2>1. CASE WriteThrows
    BY <2>1 DEF WriteThrows, TypeOK
  <2>2. CASE Put(w)
    <3>1. cond' \subseteq Procs
      BY <2>2, NotifyOneSubset DEF Put, TypeOK, Procs
    <3>2. mutOut' \in Writers \cup {NoProc}
      BY <2>2 DEF Put, Lock, TypeOK
    <3>3. buffer' \in Seq(Values)
      BY <2>2, PutLast DEF Put, TypeOK
    <3>4. Goto(w, "write_wait") \/ Goto(w, "idle")
      BY <2>2 DEF Put
    <3> QED
      BY <2>2, <3>1, <3>2, <3>3, <3>4, GotoWriter DEF Put, TypeOK, WriterPC
  <2> QED
    BY <1>3, <2>1, <2>2 DEF Write
<1>4. ASSUME NEW w \in Writers, WriteResume(w) PROVE TypeOK'
  BY <1>4, GotoWriter DEF WriteResume, WriteThrows, TypeOK, WriterPC
<1>5. ASSUME NEW r \in Readers, TakeValue(r) PROVE TypeOK'
  <2>1. cond' \subseteq Procs /\ "idle" \in ReaderPC
    BY <1>5, NotifyOneSubset DEF TakeValue, TypeOK, ReaderPC
  <2> QED
    BY <1>5, <2>1, GetType DEF TakeValue, TypeOK
<1>6. ASSUME NEW r \in Readers, NEW owner \in Readers \cup {NoProc},
             ReadThrows(r, owner)
      PROVE  TypeOK'
  BY <1>6, GotoReader DEF ReadThrows, TypeOK, ReaderPC
<1>7. ASSUME NEW r \in Readers, NEW l \in ReaderPC, AwaitWriter(r, l) PROVE TypeOK'
  BY <1>7, GotoReader DEF AwaitWriter, TypeOK, Lock, Procs
<1>8. ASSUME NEW r \in Readers, TakeExtended(r) PROVE TypeOK'
  <2>1. "extended" \in ReaderPC /\ Lock(SharedIn, r) \in Readers \cup {NoProc}
    BY DEF ReaderPC, Lock
  <2> QED
    BY <1>8, <2>1, GetType DEF TakeExtended, TypeOK
<1>9. ASSUME NEW r \in Readers, Read(r) PROVE TypeOK'
  <2>1. "read_wait" \in ReaderPC
    BY DEF ReaderPC
  <2> QED
    BY <1>9, <1>5, <1>6, <1>7, <2>1 DEF Read
<1>10. ASSUME NEW r \in Readers, ReadResume(r) PROVE TypeOK'
  BY <1>10, <1>5 DEF ReadResume
<1>11. ASSUME NEW r \in Readers, StartRead(r) PROVE TypeOK'
  <2>1. "start_read_wait" \in ReaderPC /\ Lock(SharedIn, r) \in Readers \cup {NoProc}
    BY DEF ReaderPC, Lock
  <2>2. CASE /\ strength = 0 /\ reading
             /\ mutIn' = Lock(SharedIn, r)
             /\ Goto(r, "idle")
             /\ UNCHANGED <<chan, cond, mutOut, arg, status, received>>
    BY <2>1, <2>2, GotoReader DEF TypeOK, ReaderPC
  <2> QED
    BY <1>11, <1>6, <1>7, <1>8, <2>1, <2>2 DEF StartRead
<1>12. ASSUME NEW r \in Readers, StartReadResume(r) PROVE TypeOK'
  BY <1>12, <1>8 DEF StartReadResume
<1>13. ASSUME NEW r \in Readers, EndRead(r) PROVE TypeOK'
  BY <1>13, NotifyOneSubset, GotoReader DEF EndRead, TypeOK, ReaderPC
<1>14. ASSUME NEW s \in Strengths, SetStrength(s) PROVE TypeOK'
  BY <1>14, ParameterAssumption DEF SetStrength, NotifyAll, TypeOK
<1>15. ASSUME NEW r \in Readers, NEW s \in Strengths, ReaderPoison(r, s) PROVE TypeOK'
  BY <1>15, <1>14 DEF ReaderPoison
<1>16. ASSUME NEW w \in Writers, NEW s \in Strengths, WriterPoison(w, s) PROVE TypeOK'
  BY <1>16, <1>14 DEF WriterPoison
<1>17. CASE UNCHANGED vars
  BY <1>17 DEF vars, TypeOK
<1> QED
  BY <1>1, <1>2, <1>3, <1>4, <1>9, <1>10, <1>11, <1>12, <1>13, <1>15, <1>16, <1>17
  DEF Next, ReaderStep, WriterStep

\* The members of the channel and its ends keep their types, whatever the
\* interleaving of readers, writers and poison.
THEOREM TypeCorrect == Spec => []TypeOK
BY InitType, TypeStep, PTL DEF Spec

-----------------------------------------------------------------------------
(* Who can be inside the channel.                                          *)

\* At most one reader is inside the channel.
LEMMA OneReader ==
  ASSUME ReaderLock, NEW p \in Readers, NEW q \in Readers, Inside(p), Inside(q)
  PROVE  p = q
BY ProcAssumption DEF ReaderLock

\* At most one writer is inside the channel.
LEMMA OneWriter ==
  ASSUME WriterLock, NEW p \in Writers, NEW q \in Writers, Waiting(p), Waiting(q)
  PROVE  p = q
BY ProcAssumption DEF WriterLock

\* A reader that can lock its end and is not inside finds nobody inside.
LEMMA NoReaderInside ==
  ASSUME ReaderLock, NEW r \in Readers, ~Inside(r), Free(SharedIn, mutIn)
  PROVE  \A q \in Readers : ~Inside(q)
BY ProcAssumption DEF ReaderLock, Free

\* A writer that can lock its end finds no writer inside.
LEMMA NoWriterInside ==
  ASSUME WriterLock, NEW w \in Writers, ~Waiting(w), Free(SharedOut, mutOut)
  PROVE  \A q \in Writers : ~Waiting(q)
BY ProcAssumption DEF WriterLock, Free

-----------------------------------------------------------------------------
(* The inductive invariant.                                                *)

\* The constructors establish the inductive invariant.
LEMMA InitInv == Init => IInv
<1> SUFFICES ASSUME Init PROVE IInv
  OBVIOUS
<1>1. TypeOK
  BY InitType
<1>2. \A p \in Procs : ~Waiting(p) /\ pc[p] = "idle"
  BY DEF Init, Waiting
<1>3. ExtendedIsReading /\ ReaderLock /\ WriterLock
  BY <1>2 DEF ExtendedIsReading, ReaderLock, WriterLock, Inside, Procs
<1>4. CondInside /\ PoisonReleases /\ ReaderNotified /\ WriterNotified
  BY <1>2 DEF Init, CondInside, PoisonReleases, ReaderNotified, WriterNotified, Procs
<1>5. WithinSize /\ NeverUndefined
  <2>1. Len(buffer) = 0 /\ size \in Nat
    BY <1>1 DEF Init, TypeOK
  <2> QED
    BY <2>1 DEF Init, WithinSize, NeverUndefined
<1> QED
  BY <1>1, <1>3, <1>4, <1>5 DEF IInv

\* Steps that leave the channel, its ends and the processes inside alone.
LEMMA QuietStep ==
  ASSUME IInv, TypeOK', status' # "undefined",
         UNCHANGED <<chan, cond, ends>>,
         \A p \in Procs : Waiting(p)' <=> Waiting(p),
         \A r \in Readers : pc'[r] = "extended" => pc[r] = "extended"
  PROVE  IInv'
<1> USE DEF IInv, chan, ends
<1>1. ReaderLock' /\ WriterLock' /\ ExtendedIsReading'
  BY DEF ReaderLock, WriterLock, ExtendedIsReading, Inside, Procs
<1>2. CondInside' /\ PoisonReleases' /\ NeverUndefined'
  BY DEF CondInside, PoisonReleases, NeverUndefined, TypeOK
<1>3. ReaderNotified' /\ WriterNotified' /\ WithinSize'
  BY DEF ReaderNotified, WriterNotified, WithinSize, Procs
<1> QED
  BY <1>1, <1>2, <1>3

\* Calling an operation keeps the invariant.
LEMMA CallStep ==
  ASSUME IInv, TypeOK', NEW p \in Procs,
         UNCHANGED <<chan, cond, ends, status>>,
         \E l \in {"read", "start_read", "write"} : Goto(p, l),
         pc[p] = "idle"
  PROVE  IInv'
<1> USE DEF IInv, TypeOK
<1>1. \A q \in Procs : q # p => pc'[q] = pc[q]
  BY DEF Goto
<1>2. pc'[p] \in {"read", "start_read", "write"}
  BY DEF Goto
<1>3. \A q \in Procs : Waiting(q)' <=> Waiting(q)
  BY <1>1, <1>2 DEF Waiting
<1>4. \A r \in Readers : pc'[r] = "extended" => pc[r] = "extended"
  BY <1>1, <1>2 DEF Procs
<1>5. status' # "undefined"
  BY DEF NeverUndefined
<1> QED
  BY <1>3, <1>4, <1>5, QuietStep

\* A write that throws keeps the invariant.
LEMMA WriteThrowsStep ==
  ASSUME IInv, TypeOK', WriteThrows
  PROVE  IInv'
<1>1. \A p \in Procs : Waiting(p)' <=> Waiting(p)
  BY DEF WriteThrows, Waiting
<1> QED
  BY <1>1, QuietStep DEF WriteThrows

\* A put finds nobody but perhaps one reader waiting, and wakes it.
LEMMA PutStep ==
  ASSUME IInv, TypeOK', NEW w \in Writers, pc[w] = "write",
         Free(SharedOut, mutOut), Put(w)
  PROVE  /\ IInv'
         /\ size > 0 => Len(buffer) < size
<1> USE DEF IInv, TypeOK
<1>1. \A x \in Writers : ~Waiting(x)
  BY NoWriterInside DEF Waiting
<1>2. \A p, q \in cond : p = q
  BY <1>1, OneReader DEF CondInside, Inside, Procs
<1>3. cond' = (IF GetState(buffer') = "FULL" THEN {w} ELSE {})
  BY <1>2, NotifyOneOfOne DEF Put
<1>4. \A q \in Procs : q # w => pc'[q] = pc[q]
  BY DEF Put, Goto
<1>5. pc'[w] = (IF GetState(buffer') = "FULL" THEN "write_wait" ELSE "idle")
  BY DEF Put, Goto, Procs
<1>6. \A r \in Readers : pc'[r] = pc[r]
  BY <1>4, ProcAssumption DEF Procs
<1>7. \A x \in Writers : Waiting(x)' <=> (x = w /\ GetState(buffer') = "FULL")
  BY <1>1, <1>4, <1>5 DEF Waiting, Procs
<1>8. /\ buffer' # << >> /\ Len(buffer') = Len(buffer) + 1 /\ Len(buffer) \in Nat
      /\ Len(buffer') \in Nat
  BY PutLast DEF Put
<1>9. GetState(buffer') = "FULL" <=> Len(buffer') = size
  BY <1>8 DEF GetState
<1>10. size > 0 => Len(buffer) < size
  BY <1>1, <1>8 DEF WithinSize, Put
<1>11. ReaderLock' /\ ExtendedIsReading'
  BY <1>6 DEF ReaderLock, ExtendedIsReading, Inside, Waiting, Put
<1>12. WriterLock'
  BY <1>7 DEF WriterLock, Put, Lock
<1>13. CondInside' /\ PoisonReleases' /\ NeverUndefined'
  BY <1>3, <1>7 DEF CondInside, PoisonReleases, NeverUndefined, Put
<1>14. ReaderNotified'
  BY <1>3, <1>8, ProcAssumption DEF ReaderNotified
<1>15. WriterNotified'
  BY <1>3, <1>7, <1>8, <1>9 DEF WriterNotified, Put
<1>16. WithinSize'
  BY <1>7, <1>8, <1>9, <1>10 DEF WithinSize, Put
<1> QED
  BY <1>10, <1>11, <1>12, <1>13, <1>14, <1>15, <1>16

\* A writer that is woken leaves with the invariant in place.
LEMMA WriteResumeStep ==
  ASSUME IInv, TypeOK', NEW w \in Writers, pc[w] = "write_wait", w \notin cond,
         strength = 0, mutOut' = NoProc, Goto(w, "idle"),
         UNCHANGED <<chan, cond, mutIn, status>>
  PROVE  IInv' /\ Len(buffer) < size
<1> USE DEF IInv, TypeOK, chan
<1>1. Waiting(w)
  BY DEF Waiting
<1>2. \A q \in Procs : q # w => pc'[q] = pc[q]
  BY DEF Goto
<1>3. pc'[w] = "idle"
  BY DEF Goto, Procs
<1>4. \A x \in Writers : ~Waiting(x)'
  BY <1>1, <1>2, <1>3, OneWriter DEF Waiting, Procs
<1>5. \A r \in Readers : pc'[r] = pc[r]
  BY <1>2, ProcAssumption DEF Procs
<1>6. Len(buffer) < size /\ Len(buffer) \in Nat
  BY <1>1 DEF WriterNotified
<1>7. ReaderLock' /\ WriterLock' /\ ExtendedIsReading'
  BY <1>4, <1>5 DEF ReaderLock, WriterLock, ExtendedIsReading, Inside, Waiting
<1>8. CondInside'
  BY <1>2 DEF CondInside, Waiting
<1>9. PoisonReleases' /\ NeverUndefined'
  BY DEF PoisonReleases, NeverUndefined
<1>10. ReaderNotified' /\ WriterNotified'
  BY <1>4, <1>5 DEF ReaderNotified, WriterNotified, Waiting
<1>11. WithinSize'
  BY <1>6 DEF WithinSize
<1> QED
  BY <1>6, <1>7, <1>8, <1>9, <1>10, <1>11

\* An operation of the input end that leaves with the channel as it was; no
\* reader is inside afterwards.
LEMMA ReaderLeavesStep ==
  ASSUME IInv, TypeOK', NEW r \in Readers, Goto(r, "idle"), ~Waiting(r),
         \A x \in Readers : x # r => ~Inside(x),
         UNCHANGED <<chan, cond, mutOut, status>>
  PROVE  IInv'
<1> USE DEF IInv, TypeOK, chan
<1>1. \A q \in Procs : q # r => pc'[q] = pc[q]
  BY DEF Goto
<1>2. pc'[r] = "idle"
  BY DEF Goto, Procs
<1>3. \A x \in Readers : ~Inside(x)'
  BY <1>1, <1>2 DEF Inside, Waiting, Procs
<1>4. \A x \in Writers : pc'[x] = pc[x]
  BY <1>1, ProcAssumption DEF Procs
<1>5. ReaderLock' /\ WriterLock' /\ ExtendedIsReading'
  BY <1>3, <1>4 DEF ReaderLock, WriterLock, ExtendedIsReading, Inside, Waiting
<1>6. CondInside'
  BY <1>1 DEF CondInside, Waiting
<1>7. PoisonReleases' /\ NeverUndefined'
  BY DEF PoisonReleases, NeverUndefined
<1>8. ReaderNotified' /\ WriterNotified' /\ WithinSize'
  BY <1>3, <1>4 DEF ReaderNotified, WriterNotified, WithinSize, Inside, Waiting
<1> QED
  BY <1>5, <1>6, <1>7, <1>8

\* A reader that finds the buffer empty and waits keeps the invariant.
LEMMA AwaitWriterStep ==
  ASSUME IInv, TypeOK', NEW r \in Readers,
         NEW l \in {"read_wait", "start_read_wait"},
         \A x \in Readers : ~Inside(x), AwaitWriter(r, l)
  PROVE  IInv'
<1> USE DEF IInv, TypeOK, chan
<1>1. \A q \in Procs : q # r => pc'[q] = pc[q]
  BY DEF AwaitWriter, Goto
<1>2. pc'[r] = l
  BY DEF AwaitWriter, Goto, Procs
<1>3. \A x \in Readers : Inside(x)' => x = r
  BY <1>1 DEF Inside, Waiting, Procs
<1>4. \A x \in Writers : pc'[x] = pc[x]
  BY <1>1, ProcAssumption DEF Procs
<1>5. buffer = << >> /\ strength = 0
  BY DEF AwaitWriter, GetState
<1>6. ReaderLock' /\ ExtendedIsReading'
  BY <1>2, <1>3 DEF ReaderLock, ExtendedIsReading, Inside, AwaitWriter, Lock
<1>7. WriterLock'
  BY <1>4 DEF WriterLock, Waiting, AwaitWriter
<1>8. CondInside' /\ PoisonReleases' /\ NeverUndefined'
  BY <1>1, <1>2 DEF CondInside, PoisonReleases, NeverUndefined, Waiting, AwaitWriter
<1>9. ReaderNotified'
  BY <1>3, <1>5 DEF ReaderNotified, Inside, AwaitWriter
<1>10. WriterNotified' /\ WithinSize'
  <2>1. \A x \in Writers : x \in cond' <=> x \in cond
    BY ProcAssumption DEF AwaitWriter
  <2> QED
    BY <1>4, <2>1 DEF WriterNotified, WithinSize, Waiting, AwaitWriter
<1> QED
  BY <1>6, <1>7, <1>8, <1>9, <1>10

\* A reader leaves with a value: no reader waits, and the writers that wait
\* find room.  This is the tail of read and of start_read.
LEMMA GetStep ==
  ASSUME IInv, TypeOK', NEW r \in Readers, NEW l \in {"idle", "extended"},
         NEW owner, Get(r, l, owner),
         strength = 0, buffer # << >>, r \notin cond,
         \A x \in Readers : x # r => ~Inside(x),
         l = "extended" => owner = Lock(SharedIn, r) /\ reading' /\ cond' = cond,
         l = "idle" => reading' = reading /\ cond' \in NotifyOne(cond),
         UNCHANGED <<size, strength, mutOut, arg>>
  PROVE  IInv'
<1> USE DEF IInv, TypeOK
<1>1. /\ buffer' = Tail(buffer) /\ status' = status
      /\ Goto(r, l) /\ mutIn' = owner
  BY DEF Get
<1>2. \A q \in Procs : q # r => pc'[q] = pc[q]
  BY <1>1 DEF Goto
<1>3. pc'[r] = l
  BY <1>1 DEF Goto, Procs
<1>4. \A x \in Readers : ~Waiting(x)' /\ (Inside(x)' => x = r /\ l = "extended")
  BY <1>2, <1>3 DEF Inside, Waiting, Procs
<1>5. \A x \in Writers : pc'[x] = pc[x] /\ (Waiting(x)' <=> Waiting(x))
  BY <1>2, ProcAssumption DEF Procs, Waiting
<1>6. \A x \in Readers : x \notin cond
  BY DEF CondInside, Inside
<1>7. \A p, q \in cond : p = q
  BY <1>6, OneWriter DEF CondInside, Procs
<1>8. cond' = IF l = "idle" THEN {} ELSE cond
  BY <1>7, NotifyOneOfOne
<1>9. Len(buffer') = Len(buffer) - 1 /\ Len(buffer) \in Nat /\ Len(buffer) > 0
  BY <1>1, TakeHead
<1>10. ReaderLock' /\ WriterLock'
  BY <1>1, <1>4, <1>5 DEF ReaderLock, WriterLock, Lock
<1>11. ExtendedIsReading'
  BY <1>4 DEF ExtendedIsReading, Inside
<1>12. CondInside'
  BY <1>2, <1>6, <1>8 DEF CondInside, Waiting
<1>13. PoisonReleases' /\ NeverUndefined'
  BY <1>1 DEF PoisonReleases, NeverUndefined
<1>14. ReaderNotified'
  BY <1>4 DEF ReaderNotified
<1>15. \A x \in Writers : Waiting(x) => Len(buffer') < size /\ size > 0
  BY <1>9 DEF WriterNotified, WithinSize
<1>16. WriterNotified'
  <2>1. ASSUME NEW x \in Writers, Waiting(x)', x \in cond'
        PROVE  reading'
    BY <1>8, <2>1
  <2> QED
    BY <1>5, <1>15, <2>1 DEF WriterNotified
<1>17. WithinSize'
  BY <1>9 DEF WithinSize
<1> QED
  BY <1>10, <1>11, <1>12, <1>13, <1>14, <1>16, <1>17

\* A waiting reader that finds the channel poisoned.
LEMMA GetPoisonedStep ==
  ASSUME IInv, TypeOK', NEW r \in Readers, NEW l, NEW owner, Get(r, l, owner),
         strength > 0,
         \A x \in Readers : x # r => ~Inside(x),
         cond' \subseteq cond, reading => reading',
         UNCHANGED <<size, strength, mutOut, arg>>
  PROVE  IInv'
<1> USE DEF IInv, TypeOK
<1>1. Goto(r, "idle") /\ UNCHANGED <<buffer, status>>
  BY DEF Get
<1>2. \A q \in Procs : q # r => pc'[q] = pc[q]
  BY <1>1 DEF Goto
<1>3. pc'[r] = "idle"
  BY <1>1 DEF Goto, Procs
<1>4. \A x \in Readers : ~Inside(x)'
  BY <1>2, <1>3 DEF Inside, Waiting, Procs
<1>5. \A x \in Writers : pc'[x] = pc[x]
  BY <1>2, ProcAssumption DEF Procs
<1>6. ReaderLock' /\ WriterLock' /\ ExtendedIsReading'
  BY <1>4, <1>5 DEF ReaderLock, WriterLock, ExtendedIsReading, Inside, Waiting
<1>7. cond' = {}
  BY DEF PoisonReleases
<1>8. CondInside' /\ PoisonReleases' /\ NeverUndefined'
  BY <1>1, <1>7 DEF CondInside, PoisonReleases, NeverUndefined
<1>9. ReaderNotified' /\ WriterNotified' /\ WithinSize'
  BY <1>1 DEF ReaderNotified, WriterNotified, WithinSize
<1> QED
  BY <1>6, <1>8, <1>9

\* The reader that is in the channel, or may enter it, is alone there.
LEMMA Alone ==
  ASSUME ReaderLock, NEW r \in Readers,
         Inside(r) \/ Free(SharedIn, mutIn)
  PROVE  \A x \in Readers : x # r => ~Inside(x)
BY ProcAssumption DEF ReaderLock, Free

\* Both ways into the tail of read find a value or poison.
LEMMA TakeValueStep ==
  ASSUME IInv, TypeOK', NEW r \in Readers, TakeValue(r), r \notin cond,
         Inside(r) \/ Free(SharedIn, mutIn),
         strength = 0 => buffer # << >>
  PROVE  IInv'
<1> USE DEF IInv, TypeOK
<1>1. \A x \in Readers : x # r => ~Inside(x)
  BY Alone
<1>2. Get(r, "idle", NoProc) /\ cond' \in NotifyOne(cond)
      /\ UNCHANGED <<size, reading, strength, mutOut, arg>>
  BY DEF TakeValue
<1>3. CASE strength = 0
  BY <1>1, <1>2, <1>3, GetStep
<1>4. CASE strength > 0
  <2>1. cond' \subseteq cond
    BY <1>2, NotifyOneSubset
  <2> QED
    BY <1>1, <1>2, <1>4, <2>1, GetPoisonedStep
<1> QED
  BY <1>3, <1>4

\* Taking the value of an extended read keeps the invariant.
LEMMA TakeExtendedStep ==
  ASSUME IInv, TypeOK', NEW r \in Readers, TakeExtended(r), r \notin cond,
         Inside(r) \/ Free(SharedIn, mutIn),
         strength = 0 => buffer # << >>
  PROVE  IInv'
<1> USE DEF IInv, TypeOK
<1>1. \A x \in Readers : x # r => ~Inside(x)
  BY Alone
<1>2. Get(r, "extended", Lock(SharedIn, r)) /\ cond' = cond /\ reading'
      /\ UNCHANGED <<size, strength, mutOut, arg>>
  BY DEF TakeExtended
<1>3. CASE strength = 0
  BY <1>1, <1>2, <1>3, GetStep
<1>4. CASE strength > 0
  BY <1>1, <1>2, <1>4, GetPoisonedStep
<1> QED
  BY <1>3, <1>4

\* A read that does not wait, or begins to, keeps the invariant.
LEMMA ReadStep ==
  ASSUME IInv, TypeOK', NEW r \in Readers, Read(r)
  PROVE  IInv'
<1>1. ~Waiting(r) /\ ~Inside(r) /\ r \notin cond
  BY DEF Read, Inside, Waiting, IInv, CondInside
<1>2. \A x \in Readers : ~Inside(x)
  BY <1>1, NoReaderInside DEF Read, IInv
<1>3. CASE ReadThrows(r, NoProc)
  BY <1>1, <1>2, <1>3, ReaderLeavesStep DEF ReadThrows
<1>4. CASE AwaitWriter(r, "read_wait")
  BY <1>2, <1>4, AwaitWriterStep
<1>5. CASE strength = 0 /\ GetState(buffer) # "EMPTY" /\ TakeValue(r)
  BY <1>1, <1>5, TakeValueStep DEF Read, GetState
<1> QED
  BY <1>3, <1>4, <1>5 DEF Read

\* A woken read keeps the invariant.
LEMMA ReadResumeStep ==
  ASSUME IInv, TypeOK', NEW r \in Readers, ReadResume(r)
  PROVE  IInv'
<1>1. Waiting(r) /\ Inside(r)
  BY DEF ReadResume, Waiting, Inside
<1>2. strength = 0 => buffer # << >>
  BY <1>1 DEF ReadResume, IInv, ReaderNotified
<1> QED
  BY <1>1, <1>2, TakeValueStep DEF ReadResume

\* The start of an extended read keeps the invariant.
LEMMA StartReadStep ==
  ASSUME IInv, TypeOK', NEW r \in Readers, StartRead(r)
  PROVE  IInv'
<1>1. ~Waiting(r) /\ ~Inside(r) /\ r \notin cond
  BY DEF StartRead, Inside, Waiting, IInv, CondInside
<1>2. \A x \in Readers : ~Inside(x)
  BY <1>1, NoReaderInside DEF StartRead, IInv
<1>3. CASE ReadThrows(r, Lock(SharedIn, r))
  BY <1>1, <1>2, <1>3, ReaderLeavesStep DEF ReadThrows
<1>4. CASE /\ strength = 0 /\ reading
           /\ mutIn' = Lock(SharedIn, r)
           /\ Goto(r, "idle")
           /\ UNCHANGED <<chan, cond, mutOut, arg, status, received>>
  BY <1>1, <1>2, <1>4, ReaderLeavesStep
<1>5. CASE ~reading /\ AwaitWriter(r, "start_read_wait")
  BY <1>2, <1>5, AwaitWriterStep
<1>6. CASE /\ strength = 0 /\ ~reading /\ GetState(buffer) # "EMPTY"
           /\ TakeExtended(r)
  BY <1>1, <1>6, TakeExtendedStep DEF StartRead, GetState
<1> QED
  BY <1>3, <1>4, <1>5, <1>6 DEF StartRead

\* A woken extended read keeps the invariant.
LEMMA StartReadResumeStep ==
  ASSUME IInv, TypeOK', NEW r \in Readers, StartReadResume(r)
  PROVE  IInv'
<1>1. Waiting(r) /\ Inside(r)
  BY DEF StartReadResume, Waiting, Inside
<1>2. strength = 0 => buffer # << >>
  BY <1>1 DEF StartReadResume, IInv, ReaderNotified
<1> QED
  BY <1>1, <1>2, TakeExtendedStep DEF StartReadResume

\* The end of an extended read keeps the invariant.
LEMMA EndReadStep ==
  ASSUME IInv, TypeOK', NEW r \in Readers, EndRead(r)
  PROVE  IInv'
<1>1. reading /\ Inside(r) /\ ~Waiting(r)
  BY DEF EndRead, IInv, ExtendedIsReading, Inside, Waiting
<1>2. \A x \in Readers : x # r => ~Inside(x)
  BY <1>1, Alone DEF IInv
<1> QED
  BY <1>1, <1>2, ReaderLeavesStep DEF EndRead

\* Poison keeps the invariant: it wakes everyone.
LEMMA PoisonStep ==
  ASSUME IInv, TypeOK', NEW s \in Strengths, SetStrength(s)
  PROVE  IInv'
<1> USE DEF IInv, TypeOK, SetStrength, NotifyAll, ends
<1>1. strength' > 0 /\ strength' # 0
  BY ParameterAssumption
<1>2. ReaderLock' /\ WriterLock' /\ ExtendedIsReading'
  BY DEF ReaderLock, WriterLock, ExtendedIsReading, Inside, Waiting
<1>3. CondInside' /\ PoisonReleases' /\ NeverUndefined'
  BY DEF CondInside, PoisonReleases, NeverUndefined
<1>4. ReaderNotified' /\ WriterNotified' /\ WithinSize'
  BY <1>1 DEF ReaderNotified, WriterNotified, WithinSize
<1> QED
  BY <1>2, <1>3, <1>4

\* Every step keeps the inductive invariant.
LEMMA IInvStep ==
  ASSUME IInv, [Next]_vars
  PROVE  IInv'
<1>1. TypeOK'
  BY TypeStep DEF IInv
<1> USE <1>1
<1>2. ASSUME NEW r \in Readers, CallRead(r) \/ CallStartRead(r) PROVE IInv'
  <2>1. r \in Procs
    BY DEF Procs
  <2> QED
    BY <1>2, <2>1, CallStep DEF CallRead, CallStartRead
<1>3. ASSUME NEW w \in Writers, NEW v \in Values, CallWrite(w, v) PROVE IInv'
  <2>1. w \in Procs
    BY DEF Procs
  <2> QED
    BY <1>3, <2>1, CallStep DEF CallWrite
<1>4. ASSUME NEW w \in Writers, Write(w) PROVE IInv'
  BY <1>4, WriteThrowsStep, PutStep DEF Write
<1>5. ASSUME NEW w \in Writers, WriteResume(w) PROVE IInv'
  BY <1>5, WriteThrowsStep, WriteResumeStep DEF WriteResume
<1>6. ASSUME NEW r \in Readers, ReaderStep(r) PROVE IInv'
  BY <1>2, <1>6, ReadStep, ReadResumeStep, StartReadStep, StartReadResumeStep,
     EndReadStep, PoisonStep DEF ReaderStep, ReaderPoison
<1>7. ASSUME NEW w \in Writers, WriterStep(w) PROVE IInv'
  BY <1>3, <1>4, <1>5, <1>7, PoisonStep DEF WriterStep, WriterPoison
<1>8. CASE UNCHANGED vars
  <2>1. \A p \in Procs : Waiting(p)' <=> Waiting(p)
    BY <1>8 DEF vars, Waiting
  <2> QED
    BY <1>8, <2>1, QuietStep DEF vars, chan, ends, IInv, NeverUndefined
<1> QED
  BY <1>6, <1>7, <1>8 DEF Next

\* Every reachable state satisfies the inductive invariant: the ends exclude,
\* readers and writers inside are notified exactly when they can go on, and a
\* bounded buffer stays within its size.
THEOREM InductiveInvariant == Spec => []IInv
<1>1. Init => IInv
  BY InitInv
<1>2. IInv /\ [Next]_vars => IInv'
  BY IInvStep
<1> QED
  BY <1>1, <1>2, PTL DEF Spec

\* A reader waits only for a value and a writer only for room.
THEOREM NoneWaitsInVain == Spec => []WaitsWithReason
<1>1. IInv => WaitsWithReason
  <2> SUFFICES ASSUME IInv PROVE WaitsWithReason
    OBVIOUS
  <2>1. CASE strength = 0
    BY <2>1 DEF IInv, WaitsWithReason, CondInside, ReaderNotified, WriterNotified
  <2>2. CASE strength # 0
    BY <2>2 DEF IInv, TypeOK, WaitsWithReason, PoisonReleases
  <2> QED
    BY <2>1, <2>2
<1> QED
  BY <1>1, InductiveInvariant, PTL

\* No read of a buffered channel gets from an empty buffer, with or without
\* poison.
THEOREM ReadsAreDefined == Spec => []NeverUndefined
<1>1. IInv => NeverUndefined
  BY DEF IInv
<1> QED
  BY <1>1, InductiveInvariant, PTL

-----------------------------------------------------------------------------
(* The buffered channel implements FifoChan.                               *)

WS == [w \in Writers |-> WState(w)]
RS == [r \in Readers |-> RState(r)]

\* A reader's move is seen in its own abstract state only.
LEMMA ReaderMove ==
  ASSUME TypeOK, NEW r \in Readers, NEW l, Goto(r, l), UNCHANGED strength
  PROVE  /\ RS' = [RS EXCEPT ![r] = RState(r)'] /\ WS' = WS
         /\ pc'[r] = l
<1>1. \A q \in Procs : q # r => pc'[q] = pc[q]
  BY DEF Goto, TypeOK
<1>2. pc'[r] = l
  BY DEF Goto, TypeOK, Procs
<1>3. \A x \in Readers : x # r => RState(x)' = RState(x)
  BY <1>1 DEF RState, Procs
<1>4. \A w \in Writers : WState(w)' = WState(w)
  BY <1>1, ProcAssumption DEF WState, Procs
<1> QED
  BY <1>2, <1>3, <1>4 DEF RS, WS

\* A writer that moves changes its own abstract state only.
LEMMA WriterMove ==
  ASSUME TypeOK, NEW w \in Writers, NEW l, Goto(w, l), UNCHANGED strength
  PROVE  /\ WS' = [WS EXCEPT ![w] = WState(w)'] /\ RS' = RS
         /\ pc'[w] = l
<1>1. \A q \in Procs : q # w => pc'[q] = pc[q]
  BY DEF Goto, TypeOK
<1>2. pc'[w] = l
  BY DEF Goto, TypeOK, Procs
<1>3. \A x \in Writers : x # w => WState(x)' = WState(x)
  BY <1>1 DEF WState, Procs
<1>4. \A r \in Readers : RState(r)' = RState(r)
  BY <1>1, ProcAssumption DEF RState, Procs
<1> QED
  BY <1>2, <1>3, <1>4 DEF RS, WS

\* A call of read is the abstract reader asking for a value.
LEMMA CallReadRefines ==
  ASSUME TypeOK, NEW r \in Readers, CallRead(r) \/ CallStartRead(r)
  PROVE  Abstract!Want(r)
<1> USE DEF CallRead, CallStartRead, chan, ends
<1>1. RState(r) = "idle" /\ RS[r] = "idle"
  BY DEF RState, RS
<1>2. RState(r)' = IF strength > 0 THEN "doomed" ELSE "wanting"
  BY ReaderMove DEF RState
<1>3. RS' = [RS EXCEPT ![r] = RState(r)'] /\ WS' = WS
  BY ReaderMove
<1> QED
  BY <1>1, <1>2, <1>3 DEF Abstract!Want, RS, WS

\* A call of write is the abstract writer offering its value.
LEMMA CallWriteRefines ==
  ASSUME TypeOK, NEW w \in Writers, NEW v \in Values, CallWrite(w, v)
  PROVE  Abstract!Offer(w, v)
<1> USE DEF CallWrite, chan, ends
<1>1. WState(w) = "idle" /\ WS[w] = "idle"
  BY DEF WState, WS
<1>2. WState(w)' = IF strength > 0 THEN "doomed" ELSE "writing"
  BY WriterMove DEF WState
<1>3. WS' = [WS EXCEPT ![w] = WState(w)'] /\ RS' = RS
  BY WriterMove
<1> QED
  BY <1>1, <1>2, <1>3 DEF Abstract!Offer, RS, WS

\* A write that throws ends the program: the abstract collapse.
LEMMA WriteThrowsRefines ==
  ASSUME TypeOK, NEW w \in Writers, pc[w] # "idle", status = "running", WriteThrows
  PROVE  Abstract!Collapse
<1>1. WS' = WS /\ RS' = RS
  BY DEF WS, RS, WState, RState, WriteThrows, chan
<1>2. WS[w] = "doomed"
  BY DEF WS, WState, WriteThrows
<1> QED
  BY <1>1, <1>2 DEF Abstract!Collapse, WriteThrows, chan, WS, RS

\* A put is the abstract store, for which there is room.
LEMMA PutRefines ==
  ASSUME IInv, TypeOK', NEW w \in Writers, pc[w] = "write", status = "running",
         Free(SharedOut, mutOut), Put(w)
  PROVE  Abstract!Put(w)
<1> USE DEF IInv
<1>1. size > 0 => Len(buffer) < size
  BY PutStep
<1>2. Len(buffer') = Len(buffer) + 1 /\ Len(buffer) \in Nat /\ buffer' # << >>
      /\ size \in Nat
  BY PutLast DEF Put, TypeOK
<1>3. GetState(buffer') = "FULL" <=> ~Abstract!HasRoom'
  BY <1>1, <1>2 DEF GetState, Abstract!HasRoom, Put
<1>4. PICK l \in {"idle", "write_wait"} :
         Goto(w, l) /\ (l = "write_wait" <=> GetState(buffer') = "FULL")
  BY DEF Put
<1>5. strength' = strength /\ strength = 0 /\ ~(strength > 0)
  BY DEF Put
<1>6. WS' = [WS EXCEPT ![w] = WState(w)'] /\ RS' = RS /\ pc'[w] = l
  BY <1>4, <1>5, WriterMove
<1>7. WState(w)' = IF Abstract!HasRoom' THEN "idle" ELSE "stored"
  BY <1>3, <1>4, <1>5, <1>6 DEF WState
<1>8. WS[w] = "writing"
  BY <1>5 DEF WS, WState
<1>9. Abstract!HasRoom
  BY <1>1, <1>2 DEF Abstract!HasRoom
<1> QED
  BY <1>5, <1>6, <1>7, <1>8, <1>9 DEF Abstract!Put, Put, WS, RS

\* A writer woken without poison returns, with room in the queue.
LEMMA WriteResumeRefines ==
  ASSUME IInv, TypeOK', NEW w \in Writers, WriteResume(w), strength = 0
  PROVE  Abstract!Return(w)
<1> USE DEF IInv, chan
<1>1. /\ pc[w] = "write_wait" /\ w \notin cond /\ status = "running"
      /\ mutOut' = NoProc /\ Goto(w, "idle")
      /\ UNCHANGED <<chan, cond, mutIn, arg, status, received>>
  BY DEF WriteResume, WriteThrows
<1>2. Len(buffer) < size
  BY <1>1, WriteResumeStep
<1>3. WS' = [WS EXCEPT ![w] = WState(w)'] /\ RS' = RS /\ pc'[w] = "idle"
  BY <1>1, WriterMove
<1>4. WS[w] = "stored" /\ WState(w)' = "idle"
  BY <1>1, <1>3 DEF WS, WState
<1> QED
  BY <1>1, <1>2, <1>3, <1>4 DEF Abstract!Return, Abstract!HasRoom, WS, RS

\* A reader that leaves without a value.
LEMMA LeaveRefines ==
  ASSUME TypeOK, NEW r \in Readers, RState(r) # "idle", status = "running",
         Goto(r, "idle"),
         UNCHANGED <<size, buffer, strength, arg, status, received>>
  PROVE  Abstract!Refuse(r)
<1>1. RS' = [RS EXCEPT ![r] = RState(r)'] /\ WS' = WS /\ pc'[r] = "idle"
  BY ReaderMove
<1>2. RState(r)' = "idle"
  BY <1>1 DEF RState
<1>3. RS[r] \in {"wanting", "doomed"}
  BY DEF RS, RState
<1> QED
  BY <1>1, <1>2, <1>3 DEF Abstract!Refuse, WS, RS

\* A reader that leaves with a value.
LEMMA GetRefines ==
  ASSUME TypeOK, NEW r \in Readers, NEW l \in {"idle", "extended"}, NEW owner,
         Get(r, l, owner), RState(r) # "idle", status = "running",
         strength = 0 => buffer # << >>,
         UNCHANGED <<size, strength, arg>>
  PROVE  Abstract!Take(r) \/ Abstract!Refuse(r)
<1>1. CASE strength > 0
  <2>1. Goto(r, "idle") /\ UNCHANGED <<buffer, received, status>>
    BY <1>1 DEF Get, TypeOK
  <2> QED
    BY <2>1, LeaveRefines
<1>2. CASE strength = 0
  <2>1. /\ buffer' = Tail(buffer) /\ received' = Append(received, Head(buffer))
        /\ Goto(r, l) /\ status' = status
    BY <1>2 DEF Get
  <2>2. RS' = [RS EXCEPT ![r] = RState(r)'] /\ WS' = WS /\ pc'[r] = l
    BY <2>1, ReaderMove
  <2>3. RState(r)' = "idle"
    BY <2>2 DEF RState
  <2>4. RS[r] = "wanting"
    BY <1>2 DEF RS, RState
  <2> QED
    BY <1>2, <2>1, <2>2, <2>3, <2>4 DEF Abstract!Take, WS, RS
<1> QED
  BY <1>1, <1>2 DEF TypeOK

\* A step that the queue does not see.
LEMMA AwaitRefines ==
  ASSUME TypeOK, NEW r \in Readers, NEW l \in {"read_wait", "start_read_wait"},
         pc[r] \in {"read", "start_read"}, AwaitWriter(r, l)
  PROVE  UNCHANGED Abstract!vars
<1>1. RS' = [RS EXCEPT ![r] = RState(r)'] /\ WS' = WS /\ pc'[r] = l
  BY ReaderMove DEF AwaitWriter, chan
<1>2. RState(r)' = RState(r)
  BY <1>1 DEF RState, AwaitWriter, chan
<1>3. RS' = RS
  BY <1>1, <1>2 DEF RS
<1> QED
  BY <1>1, <1>3 DEF Abstract!vars, AwaitWriter, chan, RS, WS

\* Both reads take the head of the queue, are refused, or change nothing.
LEMMA ReadRefines ==
  ASSUME IInv, NEW r \in Readers,
         Read(r) \/ ReadResume(r) \/ StartRead(r) \/ StartReadResume(r)
  PROVE  Abstract!Take(r) \/ Abstract!Refuse(r) \/ UNCHANGED Abstract!vars
<1> USE DEF IInv
<1>1. RState(r) # "idle" /\ status = "running"
  BY DEF Read, ReadResume, StartRead, StartReadResume, RState
<1>2. Waiting(r) /\ r \notin cond /\ strength = 0 => buffer # << >>
  BY DEF ReaderNotified
<1>3. CASE ReadResume(r)
  <2>1. strength = 0 => buffer # << >>
    BY <1>2, <1>3 DEF ReadResume, Waiting
  <2> QED
    BY <1>1, <1>3, <2>1, GetRefines DEF ReadResume, TakeValue
<1>4. CASE StartReadResume(r)
  <2>1. strength = 0 => buffer # << >>
    BY <1>2, <1>4 DEF StartReadResume, Waiting
  <2> QED
    BY <1>1, <1>4, <2>1, GetRefines DEF StartReadResume, TakeExtended
<1>5. CASE Read(r)
  <2>1. CASE ReadThrows(r, NoProc)
    BY <1>1, <2>1, LeaveRefines DEF ReadThrows, chan
  <2>2. CASE AwaitWriter(r, "read_wait")
    BY <1>5, <2>2, AwaitRefines DEF Read
  <2>3. CASE strength = 0 /\ GetState(buffer) # "EMPTY" /\ TakeValue(r)
    BY <1>1, <2>3, GetRefines DEF GetState, TakeValue
  <2> QED
    BY <1>5, <2>1, <2>2, <2>3 DEF Read
<1>6. CASE StartRead(r)
  <2>1. CASE ReadThrows(r, Lock(SharedIn, r))
    BY <1>1, <2>1, LeaveRefines DEF ReadThrows, chan
  <2>2. CASE /\ strength = 0 /\ reading
             /\ mutIn' = Lock(SharedIn, r)
             /\ Goto(r, "idle")
             /\ UNCHANGED <<chan, cond, mutOut, arg, status, received>>
    BY <1>1, <2>2, LeaveRefines DEF chan
  <2>3. CASE ~reading /\ AwaitWriter(r, "start_read_wait")
    BY <1>6, <2>3, AwaitRefines DEF StartRead
  <2>4. CASE /\ strength = 0 /\ ~reading /\ GetState(buffer) # "EMPTY"
             /\ TakeExtended(r)
    BY <1>1, <2>4, GetRefines DEF GetState, TakeExtended
  <2> QED
    BY <1>6, <2>1, <2>2, <2>3, <2>4 DEF StartRead
<1> QED
  BY <1>3, <1>4, <1>5, <1>6

\* The end of an extended read is a stutter.
LEMMA EndReadRefines ==
  ASSUME IInv, NEW r \in Readers, EndRead(r)
  PROVE  UNCHANGED Abstract!vars
<1> USE DEF IInv, chan
<1>1. reading /\ UNCHANGED <<chan, cond, arg, status, received>>
  BY DEF EndRead, ExtendedIsReading
<1>2. RS' = [RS EXCEPT ![r] = RState(r)'] /\ WS' = WS /\ pc'[r] = "idle"
  BY <1>1, ReaderMove DEF EndRead
<1>3. RState(r)' = RState(r)
  BY <1>2 DEF RState, EndRead
<1>4. RS' = RS
  BY <1>2, <1>3 DEF RS
<1> QED
  BY <1>1, <1>2, <1>4 DEF Abstract!vars, RS, WS

\* Poison is the abstract poison.
LEMMA PoisonRefines ==
  ASSUME TypeOK, status = "running", NEW s \in Strengths, SetStrength(s)
  PROVE  Abstract!Poison
<1> USE DEF SetStrength
<1>1. strength' > 0 /\ pc' = pc
  BY ParameterAssumption
<1>2. \A w \in Writers : WState(w)' = IF WState(w) = "idle" THEN "idle" ELSE "doomed"
  BY <1>1 DEF WState
<1>3. \A r \in Readers : RState(r)' = IF RState(r) = "idle" THEN "idle" ELSE "doomed"
  BY <1>1 DEF RState
<1> QED
  BY <1>1, <1>2, <1>3 DEF Abstract!Poison

\* Every step is an abstract step or a stutter.
LEMMA RefinementStep == IInv /\ [Next]_vars => [Abstract!Next]_(Abstract!vars)
<1> SUFFICES ASSUME IInv, [Next]_vars PROVE [Abstract!Next]_(Abstract!vars)
  OBVIOUS
<1>1. TypeOK /\ TypeOK'
  BY TypeStep DEF IInv
<1>2. ASSUME NEW r \in Readers, ReaderStep(r) PROVE [Abstract!Next]_(Abstract!vars)
  <2>1. CASE CallRead(r) \/ CallStartRead(r)
    BY <1>1, <2>1, CallReadRefines DEF Abstract!Next
  <2>2. CASE Read(r) \/ ReadResume(r) \/ StartRead(r) \/ StartReadResume(r)
    BY <2>2, ReadRefines DEF Abstract!Next
  <2>3. CASE EndRead(r)
    BY <2>3, EndReadRefines
  <2>4. CASE \E s \in Strengths : ReaderPoison(r, s)
    BY <1>1, <2>4, PoisonRefines DEF ReaderPoison, Abstract!Next
  <2> QED
    BY <1>2, <2>1, <2>2, <2>3, <2>4 DEF ReaderStep
<1>3. ASSUME NEW w \in Writers, WriterStep(w) PROVE [Abstract!Next]_(Abstract!vars)
  <2>1. CASE \E v \in Values : CallWrite(w, v)
    BY <1>1, <2>1, CallWriteRefines DEF Abstract!Next
  <2>2. CASE Write(w)
    BY <1>1, <2>2, WriteThrowsRefines, PutRefines DEF Write, Abstract!Next
  <2>3. CASE WriteResume(w)
    <3>1. CASE WriteThrows
      BY <1>1, <2>3, <3>1, WriteThrowsRefines DEF WriteResume, Abstract!Next
    <3>2. CASE strength = 0
      BY <1>1, <2>3, <3>2, WriteResumeRefines DEF Abstract!Next
    <3> QED
      BY <2>3, <3>1, <3>2 DEF WriteResume
  <2>4. CASE \E s \in Strengths : WriterPoison(w, s)
    BY <1>1, <2>4, PoisonRefines DEF WriterPoison, Abstract!Next
  <2> QED
    BY <1>3, <2>1, <2>2, <2>3, <2>4 DEF WriterStep
<1>4. CASE UNCHANGED vars
  BY <1>4 DEF vars, Abstract!vars, WState, RState
<1> QED
  BY <1>2, <1>3, <1>4 DEF Next

\* The buffered channel is a bounded queue: it holds at most its size, values
\* leave in the order they came, a write returns only when there is room for
\* another value, and after poison nothing moves.
THEOREM Refinement == Spec => ImplementsFifo
<1>1. Init => Abstract!Init
  <2> SUFFICES ASSUME Init PROVE Abstract!Init
    OBVIOUS
  <2>1. TypeOK
    BY InitType
  <2>2. \A w \in Writers : WState(w) = "idle"
    BY DEF Init, WState, Procs
  <2>3. \A r \in Readers : RState(r) = "idle"
    BY DEF Init, RState, Procs
  <2> QED
    BY <2>1, <2>2, <2>3 DEF Init, TypeOK, Abstract!Init
<1> QED
  BY <1>1, InitInv, IInvStep, RefinementStep, InductiveInvariant, PTL
  DEF Spec, ImplementsFifo, Abstract!Spec
=============================================================================
