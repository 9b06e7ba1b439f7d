---------------------------- MODULE BarrierProofs ----------------------------
(***************************************************************************)
(* Proofs about Barrier, for every finite set of processes the counters    *)
(* can count.                                                              *)
(***************************************************************************)
EXTENDS Barrier, FiniteSetTheorems, TLAPS

IInv == TypeOK /\ CountsMembers

-----------------------------------------------------------------------------
(* Counting.                                                               *)

\* The count of any set of processes fits the counters.
LEMMA SubsetCount ==
  ASSUME NEW S \in SUBSET Procs
  PROVE  /\ IsFiniteSet(S)
         /\ Cardinality(S) \in 0..UIntMax
BY FS_Subset, FS_CardinalityType, ProcsAssumption, UIntAssumption

\* A count is zero exactly for the empty set.
LEMMA EmptyCount ==
  ASSUME NEW S \in SUBSET Procs
  PROVE  Cardinality(S) = 0 <=> S = {}
BY SubsetCount, FS_EmptySet

\* Taking one process out of a set, and putting one in, changes the count by
\* one and the unsigned counter does not wrap.
LEMMA RemoveCount ==
  ASSUME NEW S \in SUBSET Procs, NEW p \in S
  PROVE  Cardinality(S \ {p}) = Dec(Cardinality(S))
<1>1. IsFiniteSet(S) /\ Cardinality(S) \in Nat
  BY SubsetCount
<1>2. Cardinality(S) # 0
  BY EmptyCount
<1>3. Cardinality(S \ {p}) = Cardinality(S) - 1
  BY <1>1, FS_RemoveElement
<1> QED
  BY <1>2, <1>3 DEF Dec

\* One more member is an increment that does not wrap.
LEMMA AddCount ==
  ASSUME NEW S \in SUBSET Procs, NEW p \in Procs \ S
  PROVE  Cardinality(S \cup {p}) = Inc(Cardinality(S))
<1>1. S \cup {p} \in SUBSET Procs
  OBVIOUS
<1>2. IsFiniteSet(S) /\ Cardinality(S) \in Nat
  BY SubsetCount
<1>3. Cardinality(S \cup {p}) = Cardinality(S) + 1
  BY <1>2, FS_AddElement
<1>4. Cardinality(S) + 1 <= UIntMax
  BY <1>1, <1>3, SubsetCount, UIntAssumption
<1> QED
  BY <1>2, <1>3, <1>4, UIntAssumption DEF Inc

-----------------------------------------------------------------------------
(* The counters count the members.                                         *)

\* The constructor establishes the invariant.
LEMMA InitInv == Init => IInv
<1> SUFFICES ASSUME Init PROVE IInv
  OBVIOUS
<1>1. Cardinality(members) \in 0..UIntMax
  BY SubsetCount DEF Init
<1>2. bar.enrolled = Cardinality(members) /\ bar.countDown = Cardinality(members)
      /\ bar.cond = {}
  BY DEF Init, NewBarrier
<1>3. members \ {} = members
  OBVIOUS
<1> QED
  BY <1>1, <1>2, <1>3 DEF Init, IInv, TypeOK, CountsMembers, NewBarrier

\* An arrival keeps the invariant, the last one included.
LEMMA SyncStep ==
  ASSUME IInv, NEW p \in Procs, CallSync(p)
  PROVE  /\ IInv'
         /\ IF bar.cond \cup {p} = members
            THEN bar'.cond = {}
            ELSE bar'.cond = bar.cond \cup {p}
<1> USE DEF IInv, TypeOK, CountsMembers
<1>1. p \in members /\ p \notin bar.cond /\ members' = members /\ bar' = Sync(bar, p)
  BY DEF CallSync
<1>2. pc' = [pc EXCEPT ![p] = "sync"]
  BY DEF CallSync
<1>3. Cardinality((members \ bar.cond) \ {p}) = Dec(bar.countDown)
  BY <1>1, RemoveCount
<1>4. (members \ bar.cond) \ {p} = members \ (bar.cond \cup {p})
  OBVIOUS
<1>5. Dec(bar.countDown) \in 0..UIntMax
  BY <1>3, SubsetCount
<1>6. CASE Dec(bar.countDown) > 0
  <2>1. bar' = [bar EXCEPT !.countDown = Dec(@), !.cond = @ \cup {p}]
    BY <1>1, <1>6 DEF Sync
  <2>2. /\ bar'.enrolled = bar.enrolled /\ bar'.countDown = Dec(bar.countDown)
        /\ bar'.cond = bar.cond \cup {p}
    BY <2>1
  <2>3. bar' \in [enrolled : 0..UIntMax, countDown : 0..UIntMax, cond : SUBSET Procs]
    BY <2>1, <1>5
  <2>4. bar.cond \cup {p} # members
    BY <1>3, <1>4, <1>6, EmptyCount
  <2>5. \A q \in bar'.cond : pc'[q] = "sync"
    BY <1>2, <2>2
  <2>6. pc' \in [Procs -> {"idle", "sync"}]
    BY <1>2
  <2> QED
    BY <1>1, <1>3, <1>4, <2>2, <2>3, <2>4, <2>5, <2>6
<1>7. CASE Dec(bar.countDown) = 0
  <2>1. bar' = Complete(bar)
    BY <1>1, <1>7 DEF Sync
  <2>2. bar'.enrolled = bar.enrolled /\ bar'.countDown = bar.enrolled /\ bar'.cond = {}
    BY <2>1 DEF Complete
  <2>3. bar' \in [enrolled : 0..UIntMax, countDown : 0..UIntMax, cond : SUBSET Procs]
    BY <2>1 DEF Complete
  <2>4. members \ (bar.cond \cup {p}) = {}
    BY <1>3, <1>4, <1>7, EmptyCount
  <2>5. bar.cond \cup {p} = members
    BY <1>1, <2>4
  <2>6. members \ {} = members /\ pc' \in [Procs -> {"idle", "sync"}]
    BY <1>2
  <2> QED
    BY <1>1, <2>2, <2>3, <2>5, <2>6
<1> QED
  BY <1>5, <1>6, <1>7

\* Enrolling keeps the invariant.
LEMMA EnrollStep ==
  ASSUME IInv, NEW p \in Procs, CallEnroll(p)
  PROVE  IInv' /\ bar'.cond = bar.cond
<1> USE DEF IInv, TypeOK, CountsMembers
<1>1. /\ p \notin members /\ members' = members \cup {p} /\ pc' = pc
      /\ bar' = [bar EXCEPT !.enrolled = Inc(@), !.countDown = Inc(@)]
  BY DEF CallEnroll, Enroll
<1>2. /\ bar'.enrolled = Inc(bar.enrolled) /\ bar'.countDown = Inc(bar.countDown)
      /\ bar'.cond = bar.cond
  BY <1>1
<1>3. Cardinality(members') = Inc(bar.enrolled)
  BY <1>1, AddCount
<1>4. Cardinality((members \ bar.cond) \cup {p}) = Inc(bar.countDown)
  BY <1>1, AddCount
<1>5. (members \ bar.cond) \cup {p} = members' \ bar.cond
  BY <1>1
<1>6. Inc(bar.enrolled) \in 0..UIntMax /\ Inc(bar.countDown) \in 0..UIntMax
  BY <1>1, <1>3, <1>4, SubsetCount
<1>7. bar' \in [enrolled : 0..UIntMax, countDown : 0..UIntMax, cond : SUBSET Procs]
  BY <1>1, <1>6
<1> QED
  BY <1>1, <1>2, <1>3, <1>4, <1>5, <1>7

\* Resigning keeps the invariant, also when it completes the barrier.
LEMMA ResignStep ==
  ASSUME IInv, NEW p \in Procs, CallResign(p)
  PROVE  /\ IInv'
         /\ IF bar.cond = members \ {p}
            THEN bar'.cond = {}
            ELSE bar'.cond = bar.cond
<1> USE DEF IInv, TypeOK, CountsMembers
<1> DEFINE c == [bar EXCEPT !.enrolled = Dec(@), !.countDown = Dec(@)]
<1>1. /\ p \in members /\ p \notin bar.cond /\ members' = members \ {p} /\ pc' = pc
      /\ bar' = IF c.countDown = 0 THEN Complete(c) ELSE c
  BY DEF CallResign, Resign
<1>2. c.enrolled = Dec(bar.enrolled) /\ c.countDown = Dec(bar.countDown)
      /\ c.cond = bar.cond
  OBVIOUS
<1>3. Cardinality(members') = Dec(bar.enrolled)
  BY <1>1, RemoveCount
<1>4. Cardinality((members \ bar.cond) \ {p}) = Dec(bar.countDown)
  BY <1>1, RemoveCount
<1>5. (members \ bar.cond) \ {p} = members' \ bar.cond
  BY <1>1
<1>6. Dec(bar.enrolled) \in 0..UIntMax /\ Dec(bar.countDown) \in 0..UIntMax
  BY <1>1, <1>3, <1>4, SubsetCount
<1>7. bar.cond \subseteq members'
  BY <1>1
<1> HIDE DEF c
<1>8. CASE c.countDown = 0
  <2>1. bar' = [enrolled |-> c.enrolled, countDown |-> c.enrolled, cond |-> {}]
    BY <1>1, <1>8 DEF Complete
  <2>2. members' \ bar.cond = {}
    BY <1>1, <1>2, <1>4, <1>5, <1>8, EmptyCount
  <2>3. bar.cond = members \ {p}
    BY <1>1, <1>7, <2>2
  <2>4. bar' \in [enrolled : 0..UIntMax, countDown : 0..UIntMax, cond : SUBSET Procs]
    BY <2>1, <1>2, <1>6
  <2>5. members' \ {} = members'
    OBVIOUS
  <2> QED
    BY <1>1, <1>2, <1>3, <2>1, <2>3, <2>4, <2>5
<1>9. CASE c.countDown # 0
  <2>1. bar' = c
    BY <1>1, <1>9
  <2>2. bar' \in [enrolled : 0..UIntMax, countDown : 0..UIntMax, cond : SUBSET Procs]
    BY <2>1, <1>6 DEF c
  <2>3. bar.cond # members \ {p}
    BY <1>1, <1>2, <1>4, <1>5, <1>9, EmptyCount
  <2> QED
    BY <1>1, <1>2, <1>3, <1>4, <1>5, <1>7, <2>1, <2>2, <2>3
<1> QED
  BY <1>8, <1>9

\* A reset keeps the invariant.
LEMMA ResetStep ==
  ASSUME IInv, NEW M \in SUBSET Procs, CallReset(M)
  PROVE  IInv' /\ bar'.cond = {}
<1> USE DEF IInv, TypeOK, CountsMembers
<1>1. Cardinality(M) \in 0..UIntMax /\ M \ {} = M
  BY SubsetCount
<1>2. bar' = [bar EXCEPT !.enrolled = Cardinality(M), !.countDown = Cardinality(M)]
  BY DEF CallReset, Reset
<1>3. /\ bar'.enrolled = Cardinality(M) /\ bar'.countDown = Cardinality(M)
      /\ bar'.cond = {}
  BY <1>2 DEF CallReset
<1>4. bar' \in [enrolled : 0..UIntMax, countDown : 0..UIntMax, cond : SUBSET Procs]
  BY <1>1, <1>2
<1> QED
  BY <1>1, <1>3, <1>4 DEF CallReset

\* The return of a released process keeps the invariant.
LEMMA ReturnStep ==
  ASSUME IInv, NEW p \in Procs, Return(p)
  PROVE  IInv'
BY DEF IInv, TypeOK, CountsMembers, Return

\* Every step keeps the invariant.
LEMMA IInvStep == IInv /\ [Next]_vars => IInv'
<1> SUFFICES ASSUME IInv, [Next]_vars PROVE IInv'
  OBVIOUS
<1>1. CASE UNCHANGED vars
  BY <1>1 DEF IInv, TypeOK, CountsMembers, vars
<1> QED
  BY <1>1, SyncStep, ReturnStep, EnrollStep, ResignStep, ResetStep DEF Next

\* The counters of the barrier count its members, and never wrap.
THEOREM Counting == Spec => []CountsMembers
<1>1. IInv => CountsMembers
  BY DEF IInv
<1> QED
  BY <1>1, InitInv, IInvStep, PTL DEF Spec

-----------------------------------------------------------------------------
(* The barrier implements BarrierSpec, and nobody is stranded.             *)

\* In every reachable state the round is still open: a waiter implies a
\* member that is missing.
Open == bar.cond # {} => bar.cond # members

Leaving == {p \in Procs : pc[p] = "sync" /\ p \notin bar.cond}

\* A step never leaves all members waiting.
LEMMA OpenStep == IInv /\ Open /\ [Next]_vars => Open'
<1> SUFFICES ASSUME IInv, Open, [Next]_vars PROVE Open'
  OBVIOUS
<1> USE DEF Open
<1>1. ASSUME NEW p \in Procs, CallSync(p) PROVE Open'
  BY <1>1, SyncStep DEF CallSync
<1>2. ASSUME NEW p \in Procs, Return(p) PROVE Open'
  BY <1>2 DEF Return
<1>3. ASSUME NEW p \in Procs, CallEnroll(p) PROVE Open'
  <2>1. bar'.cond = bar.cond /\ p \notin bar.cond /\ p \in members'
    BY <1>3, EnrollStep DEF CallEnroll, IInv, CountsMembers
  <2> QED
    BY <2>1
<1>4. ASSUME NEW p \in Procs, CallResign(p) PROVE Open'
  BY <1>4, ResignStep DEF CallResign
<1>5. ASSUME NEW M \in SUBSET Procs, CallReset(M) PROVE Open'
  BY <1>5, ResetStep
<1>6. CASE UNCHANGED vars
  BY <1>6 DEF vars
<1> QED
  BY <1>1, <1>2, <1>3, <1>4, <1>5, <1>6 DEF Next

\* As long as a process waits on the barrier, a member has still to arrive:
\* the members never wait for each other.
THEOREM DeadlockFree == Spec => []NobodyStranded
<1>1. Init => Open
  BY DEF Init, NewBarrier, Open
<1>2. IInv /\ Open => NobodyStranded
  BY DEF IInv, CountsMembers, Open, NobodyStranded
<1> QED
  BY <1>1, <1>2, InitInv, IInvStep, OpenStep, PTL DEF Spec

\* Every step of the barrier is a step, or a stutter, of the barrier on sets.
LEMMA RefinementStep == IInv /\ [Next]_vars => [Abstract!Next]_(Abstract!vars)
<1> SUFFICES ASSUME IInv, [Next]_vars PROVE [Abstract!Next]_(Abstract!vars)
  OBVIOUS
<1> USE DEF IInv, TypeOK, CountsMembers
<1>1. ASSUME NEW p \in Procs, CallSync(p) PROVE Abstract!Arrive(p)
  <2>1. IF bar.cond \cup {p} = members
        THEN bar'.cond = {}
        ELSE bar'.cond = bar.cond \cup {p}
    BY <1>1, SyncStep
  <2>2. pc' = [pc EXCEPT ![p] = "sync"] /\ members' = members /\ p \in members
        /\ pc[p] = "idle"
    BY <1>1 DEF CallSync
  <2>3. p \notin bar.cond /\ p \notin Leaving
    BY <2>2 DEF Leaving
  <2>4. CASE bar.cond \cup {p} = members
    <3>1. Leaving' = Leaving \cup (bar.cond \cup {p})
      BY <2>1, <2>2, <2>4 DEF Leaving
    <3> QED
      BY <2>1, <2>2, <2>3, <2>4, <3>1
      DEF Leaving, Abstract!Arrive, Abstract!Settle
  <2>5. CASE bar.cond \cup {p} # members
    <3>1. Leaving' = Leaving
      BY <2>1, <2>2, <2>5 DEF Leaving
    <3> QED
      BY <2>1, <2>2, <2>3, <2>5, <3>1
      DEF Leaving, Abstract!Arrive, Abstract!Settle
  <2> QED
    BY <2>4, <2>5
<1>2. ASSUME NEW p \in Procs, Return(p) PROVE Abstract!Leave(p)
  <2>1. Leaving' = Leaving \ {p} /\ p \in Leaving
    BY <1>2 DEF Return, Leaving
  <2> QED
    BY <1>2, <2>1 DEF Return, Leaving, Abstract!Leave
<1>3. ASSUME NEW p \in Procs, CallEnroll(p) PROVE Abstract!Join(p)
  <2>1. bar'.cond = bar.cond
    BY <1>3, EnrollStep
  <2> QED
    BY <1>3, <2>1 DEF CallEnroll, Abstract!Join
<1>4. ASSUME NEW p \in Procs, CallResign(p) PROVE Abstract!Quit(p)
  <2>1. IF bar.cond = members \ {p} THEN bar'.cond = {} ELSE bar'.cond = bar.cond
    BY <1>4, ResignStep
  <2>2. pc' = pc /\ members' = members \ {p} /\ p \in members /\ pc[p] = "idle"
    BY <1>4 DEF CallResign
  <2>3. p \notin bar.cond /\ p \notin Leaving
    BY <2>2 DEF Leaving
  <2>4. CASE bar.cond = members \ {p}
    <3>1. Leaving' = Leaving \cup bar.cond
      BY <2>1, <2>2, <2>4 DEF Leaving
    <3> QED
      BY <2>1, <2>2, <2>3, <2>4, <3>1
      DEF Leaving, Abstract!Quit, Abstract!Settle
  <2>5. CASE bar.cond # members \ {p}
    <3>1. Leaving' = Leaving
      BY <2>1, <2>2, <2>5 DEF Leaving
    <3> QED
      BY <2>1, <2>2, <2>3, <2>5, <3>1
      DEF Leaving, Abstract!Quit, Abstract!Settle
  <2> QED
    BY <2>4, <2>5
<1>5. ASSUME NEW M \in SUBSET Procs, CallReset(M) PROVE Abstract!Renew(M)
  <2>1. bar'.cond = {} /\ bar.cond = {} /\ pc' = pc /\ members' = M
    BY <1>5, ResetStep DEF CallReset
  <2> QED
    BY <2>1 DEF Abstract!Renew
<1>6. CASE UNCHANGED vars
  BY <1>6 DEF vars, Abstract!vars
<1> QED
  BY <1>1, <1>2, <1>3, <1>4, <1>5, <1>6 DEF Next, Abstract!Next

\* The counting barrier of the code implements the barrier on sets: nobody
\* leaves before every member has arrived or resigned.
THEOREM Refinement == Spec => ImplementsBarrier
<1>1. Init => Abstract!Init
  BY DEF Init, NewBarrier, Abstract!Init
<1> QED
  BY <1>1, InitInv, IInvStep, RefinementStep, PTL
  DEF Spec, ImplementsBarrier, Abstract!Spec
=============================================================================
