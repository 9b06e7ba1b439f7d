------------------------------ MODULE ParProofs ------------------------------
(***************************************************************************)
(* Proofs about Par, for every number of processes, callers and runs.      *)
(***************************************************************************)
EXTENDS Par, FiniteSetTheorems, TLAPS

Parking  == {"reset_parked", "release_parked", "terminate_parked"}
Starting == {"start", "start_register", "start_running"}
Looping  == Starting \cup {"reset", "reset_release", "reset_parked", "release",
                          "release_parked"}
InRun    == Looping \cup {"process", "sync", "synced"}
Ending   == {"terminate", "terminate_release", "terminate_parked", "join"}
Quiet    == {"none", "destroyed"}
Steps    == {"none", "check", "process", "bar", "barred", "park", "parked", "exited"}

Members == Workers \cup {mut}

BarType == [enrolled : Nat, countDown : Nat, cond : SUBSET (Workers \cup Callers)]

Types ==
    /\ mut \in Callers \cup {NoCaller} /\ refs \subseteq Callers
    /\ mpc \in InRun \cup Ending \cup Quiet
    /\ idx \in Nat /\ threads \in Nat /\ runs \in Nat
    /\ processChanged \in BOOLEAN
    /\ bar \in BarType
    /\ park \in [Workers -> BarType]
    /\ running \in [Workers -> BOOLEAN]
    /\ wpc \in [Workers -> Steps]
    /\ executed \in [1..N -> Nat]

\* The mutex is held by a caller with a copy, or by the last one's destructor.
Owner ==
    /\ mut = NoCaller <=> mpc \in Quiet
    /\ mpc \in InRun => mut \in refs
    /\ mpc \in Ending \cup {"destroyed"} => refs = {}

\* The threads there are, and where the loops are.
Loops ==
    /\ mpc \in InRun => N > 0 /\ runs > 0
    /\ mpc \in {"start", "reset", "release"} => idx \in 1..N
    /\ mpc \in {"start_register", "start_running", "reset_release", "reset_parked",
                "release_parked"} => idx \in Workers
    /\ mpc \in {"process", "sync", "synced"} => idx = N
    /\ mpc = "terminate" => idx \in 1..(threads + 1)
    /\ mpc \in Ending \ {"terminate"} => idx \in 1..threads
    /\ mpc = "start" => threads = idx - 1
    /\ mpc \in {"start_register", "start_running"} => threads = idx
    /\ mpc \notin Starting \cup {"destroyed"} =>
          threads = IF N = 0 \/ runs = 0 THEN 0 ELSE N - 1
    /\ mpc # "destroyed" /\ ~processChanged => N > 0 /\ runs > 0

\* The run is not over: the caller has not passed the barrier.
Open ==
    \/ mpc \in InRun \ {"synced"}
    \/ mpc = "synced" /\ mut \in bar.cond

\* The barrier counts the threads and the caller, and is only in use by a run.
Barred ==
    /\ mpc \in InRun =>
          /\ bar.enrolled = N
          /\ bar.countDown = Cardinality(Members \ bar.cond)
    /\ mut = NoCaller /\ mpc # "destroyed" /\ ~processChanged =>
          bar.enrolled = N /\ bar.countDown = N
    /\ ~Open => bar.cond = {}
    /\ bar.cond \subseteq Members
    /\ \A w \in Workers : w \in bar.cond => wpc[w] = "barred"
    /\ mut \in bar.cond => mpc = "synced"

\* A park is empty, or its thread waits, or the caller does.
Parked ==
    \A w \in Workers :
        /\ park[w].enrolled = 2
        /\ \/ park[w].cond = {} /\ park[w].countDown = 2
           \/ park[w].cond = {w} /\ park[w].countDown = 1 /\ wpc[w] = "parked"
           \/ /\ park[w].cond = {mut} /\ park[w].countDown = 1
              /\ mpc \in Parking /\ idx = w

\* The caller has started or released thread w in this loop.
Freed(w) ==
    \/ w < idx
    \/ w = idx /\ mpc \in {"start_register", "start_running"}
    \/ w = idx /\ mpc \in Parking /\ mut \notin park[w].cond
    \/ w = idx /\ mpc = "join"

\* Thread w is between its barrier and its park.
Resting(w) ==
    \/ wpc[w] = "barred" /\ w \notin bar.cond
    \/ wpc[w] = "park"
    \/ wpc[w] = "parked" /\ w \in park[w].cond

\* Thread w has work to do in this run.
Active(w) ==
    \/ /\ executed[w] + 1 = runs
       /\ \/ wpc[w] = "parked" /\ w \notin park[w].cond
          \/ wpc[w] \in {"check", "process"}
    \/ /\ executed[w] = runs
       /\ \/ wpc[w] = "bar"
          \/ wpc[w] = "barred" /\ w \in bar.cond

\* Thread w is on its way out.
Leaving(w) ==
    \/ wpc[w] = "parked" /\ w \notin park[w].cond
    \/ wpc[w] \in {"check", "exited"}

Phase(w) ==
    /\ Open /\ Freed(w) => Active(w)
    /\ Open /\ ~Freed(w) => /\ executed[w] + 1 = runs
                            /\ IF mpc \in Starting THEN wpc[w] = "none" ELSE Resting(w)
    /\ ~Open => executed[w] = runs
    /\ ~Open /\ mpc \in {"none", "synced"} =>
          IF runs = 0 THEN wpc[w] = "none" ELSE Resting(w)
    /\ mpc \in Ending => IF w > threads THEN wpc[w] = "none"
                         ELSE IF Freed(w) THEN Leaving(w) ELSE Resting(w)
    /\ mpc \in Ending /\ w < idx => wpc[w] \in {"none", "exited"}
    /\ mpc = "destroyed" => wpc[w] \in {"none", "exited"}

Phases == \A w \in Workers : Phase(w)

\* _running is cleared for the threads that are to leave.
Flags ==
    \A w \in Workers :
        /\ mpc \in InRun \cup {"none"} => running[w]
        /\ mpc \in Ending /\ Freed(w) => ~running[w]
        /\ mpc \in {"terminate_release", "terminate_parked"} /\ w = idx => ~running[w]

\* The caller's own process.
Own ==
    N > 0 => IF mpc \in Looping \cup {"process"} THEN executed[N] + 1 = runs
                                                 ELSE executed[N] = runs

\* The thread that runs before start has registered it.
Unregistered == IF mpc = "start_register" THEN {idx} ELSE {}

Registry ==
    allThreads = {w \in Workers : wpc[w] \notin {"none", "exited"}} \ Unregistered

IInv == /\ Types /\ Owner /\ Loops /\ Barred /\ Parked /\ Phases /\ Flags /\ Own
        /\ Registry

-----------------------------------------------------------------------------
(* Threads and callers are counted by the barrier.                         *)

\* A caller is not a thread.
LEMMA CallersApart == \A c \in Callers : c \notin Workers
BY ParAssumption DEF Workers

\* The threads and one caller are N.
LEMMA MemberCount ==
  ASSUME N > 0, NEW c \in Callers
  PROVE  IsFiniteSet(Workers \cup {c}) /\ Cardinality(Workers \cup {c}) = N
<1>1. N \in Nat /\ N - 1 \in Nat
  BY ParAssumption
<1>2. IsFiniteSet(1..(N - 1)) /\ Cardinality(1..(N - 1)) = N - 1
  BY <1>1, FS_Interval
<1>3. c \notin Workers /\ IsFiniteSet(Workers) /\ Cardinality(Workers) = N - 1
  BY <1>2, CallersApart DEF Workers
<1>4. IsFiniteSet(Workers \cup {c}) /\ Cardinality(Workers \cup {c}) = Cardinality(Workers) + 1
  BY <1>3, FS_AddElement
<1> QED
  BY <1>1, <1>3, <1>4

\* One member fewer to come is a decrement that does not wrap.
LEMMA Arrives ==
  ASSUME NEW M, IsFiniteSet(M), NEW S \in SUBSET M, NEW p \in M, p \notin S,
         NEW k, k = Cardinality(M \ S)
  PROVE  /\ k \in Nat \ {0} /\ Dec(k) = k - 1
         /\ Dec(k) = Cardinality(M \ (S \cup {p}))
         /\ Dec(k) = 0 <=> S \cup {p} = M
<1> DEFINE R == M \ S
<1>2. IsFiniteSet(R) /\ Cardinality(R) \in Nat /\ p \in R /\ S \subseteq M
  BY FS_Subset, FS_CardinalityType
<1>3. Cardinality(R) # 0
  BY <1>2, FS_EmptySet
<1>4. IsFiniteSet(R \ {p}) /\ Cardinality(R \ {p}) = Cardinality(R) - 1
  BY <1>2, FS_RemoveElement
<1>5. R \ {p} = M \ (S \cup {p}) /\ (R \ {p} = {} <=> S \cup {p} = M)
  BY <1>2
<1>6. k = Cardinality(R) /\ Dec(k) = k - 1
  BY <1>2, <1>3 DEF Dec
<1>7. Cardinality(R \ {p}) = 0 <=> R \ {p} = {}
  BY <1>4, FS_EmptySet
<1> HIDE DEF R
<1> QED
  BY <1>2, <1>3, <1>4, <1>5, <1>6, <1>7

-----------------------------------------------------------------------------
(* What a step that leaves a thread alone keeps.                           *)

\* The phase of a thread depends on the caller and on its own state.
LEMMA SamePhase ==
  ASSUME NEW w \in Workers, Phase(w), UNCHANGED <<mut, mpc, idx, threads, runs>>,
         Open' <=> Open, wpc'[w] = wpc[w], executed'[w] = executed[w],
         park'[w] = park[w], w \in bar'.cond <=> w \in bar.cond
  PROVE  Phase(w)'
<1>1. Freed(w)' <=> Freed(w)
  BY DEF Freed
<1>2. (Resting(w)' <=> Resting(w)) /\ (Active(w)' <=> Active(w)) /\ (Leaving(w)' <=> Leaving(w))
  BY DEF Resting, Active, Leaving
<1> QED
  BY <1>1, <1>2 DEF Phase, Starting

\* The constructor establishes the invariant.
LEMMA InitInv == Init => IInv
<1> SUFFICES ASSUME Init PROVE IInv
  OBVIOUS
<1> USE DEF Init, NewBarrier
<1>1. Types
  BY ParAssumption DEF Types, BarType, Steps, InRun, Looping, Ending, Quiet, Starting
<1>2. Owner
  BY ParAssumption DEF Owner, InRun, Looping, Ending, Quiet, Starting
<1>3. Loops
  BY ParAssumption DEF Loops, InRun, Looping, Ending, Starting
<1>4. ~Open
  BY DEF Open, InRun, Looping, Starting
<1>5. Barred
  BY <1>4 DEF Barred, InRun, Looping, Starting
<1>6. Parked
  BY DEF Parked
<1>7. Phases
  <2> SUFFICES ASSUME NEW w \in Workers PROVE Phase(w)
    BY DEF Phases
  <2>1. w \in 1..N
    BY ParAssumption DEF Workers
  <2> QED
    BY <1>4, <2>1 DEF Phase, Ending, Starting
<1>8. Flags
  BY DEF Flags, Ending
<1>9. Own
  BY ParAssumption DEF Own, Looping, Starting
<1>10. Registry
  BY DEF Registry, Unregistered
<1> QED
  BY <1>1, <1>2, <1>3, <1>5, <1>6, <1>7, <1>8, <1>9, <1>10 DEF IInv

-----------------------------------------------------------------------------
(* The threads.                                                            *)

\* The parts that a thread's step cannot disturb.
LEMMA ThreadFrame ==
  ASSUME IInv, NEW w \in Workers, NEW q \in Steps, wpc' = [wpc EXCEPT ![w] = q],
         UNCHANGED <<main, running, runs>>,
         bar' \in BarType, park' \in [Workers -> BarType],
         \/ executed' = executed
         \/ executed' = [executed EXCEPT ![w] = @ + 1]
  PROVE  /\ Types' /\ Owner' /\ Loops' /\ Own'
         /\ w \in 1..N /\ w # N /\ executed'[w] \in Nat
         /\ \A x \in Workers : x # w => wpc'[x] = wpc[x] /\ executed'[x] = executed[x]
<1> USE DEF IInv, main
<1>1. w \in 1..N /\ w # N /\ N \in Nat /\ Workers \subseteq 1..N
  BY ParAssumption DEF Workers
<1>2. Types'
  <2>1. wpc' \in [Workers -> Steps]
    BY DEF Types
  <2>2. executed' \in [1..N -> Nat]
    BY <1>1 DEF Types
  <2> QED
    BY <2>1, <2>2 DEF Types
<1>3. Owner' /\ Loops'
  BY DEF Owner, Loops, Starting
<1>4. Own'
  BY <1>1 DEF Own, Types
<1> QED
  BY <1>1, <1>2, <1>3, <1>4 DEF Types

\* A thread moves on its own, outside the barrier and its park.
LEMMA ThreadMoves ==
  ASSUME IInv, NEW w \in Workers, NEW q \in Steps, wpc' = [wpc EXCEPT ![w] = q],
         wpc[w] \notin {"none", "exited"}, q # "none",
         UNCHANGED <<main, running, runs, bar, park>>,
         \/ executed' = executed
         \/ executed' = [executed EXCEPT ![w] = @ + 1],
         allThreads' = IF q = "exited" THEN allThreads \ {w} ELSE allThreads,
         w \notin bar.cond, w \notin park[w].cond, Phase(w)'
  PROVE  IInv'
<1>1. /\ Types' /\ Owner' /\ Loops' /\ Own'
      /\ \A x \in Workers : x # w => wpc'[x] = wpc[x] /\ executed'[x] = executed[x]
  BY ThreadFrame DEF IInv, Types
<1>2. Open' <=> Open
  BY DEF Open, main
<1>3. Barred'
  BY <1>1, <1>2 DEF IInv, Barred, main, Members
<1>4. Parked'
  BY <1>1 DEF IInv, Parked, main
<1>5. Phases'
  BY <1>1, <1>2, SamePhase DEF IInv, Phases, main
<1>6. Flags'
  BY DEF IInv, Flags, Freed, main
<1>7. Registry'
  <2>1. wpc'[w] = q /\ wpc \in [Workers -> Steps]
    BY DEF IInv, Types
  <2> QED
    BY <1>1, <2>1 DEF IInv, Registry, Unregistered, main
<1> QED
  BY <1>1, <1>3, <1>4, <1>5, <1>6, <1>7 DEF IInv

\* Only a caller in run or in the destructor holds the mutex.
LEMMA OwnerIsCaller ==
  ASSUME IInv, mpc \notin Quiet
  PROVE  mut \in Callers /\ mut \notin Workers
BY CallersApart DEF IInv, Types, Owner

\* A thread on its park's condition variable is in the park's sync.
LEMMA WaitsInPark ==
  ASSUME IInv, NEW w \in Workers, w \in park[w].cond
  PROVE  wpc[w] = "parked"
<1>1. Parking \cap Quiet = {}
  BY DEF Parking, Quiet
<1> QED
  BY <1>1, OwnerIsCaller DEF IInv, Parked

\* A thread looks at _running.
LEMMA CheckStep ==
  ASSUME IInv, NEW w \in Workers, Check(w)
  PROVE  IInv'
<1>0. Types /\ Barred /\ Loops /\ Flags /\ Phase(w)
  BY DEF IInv, Phases
<1>1. wpc[w] = "check" /\ UNCHANGED <<main, running, runs, bar, park, executed>>
  BY DEF Check
<1>2. w \notin bar.cond /\ w \notin park[w].cond
  BY <1>0, <1>1, WaitsInPark DEF Barred
<1>3. ~Resting(w)
  BY <1>1 DEF Resting
<1>4. Freed(w)' <=> Freed(w)
  BY <1>1 DEF Freed, main
<1>5. Open' <=> Open
  BY <1>1 DEF Open, main
<1>6. CASE running[w]
  <2>1. wpc' = [wpc EXCEPT ![w] = "process"] /\ allThreads' = allThreads
    BY <1>6 DEF Check
  <2>2. wpc'[w] = "process"
    BY <1>0, <2>1 DEF Types
  <2>3. Open /\ Freed(w) /\ executed[w] + 1 = runs
    BY <1>0, <1>1, <1>3, <1>6
    DEF Phase, Active, Flags, Open, Types, InRun, Ending, Quiet, Starting
  <2>4. mpc \notin Ending \cup Quiet
    BY <2>3 DEF Open, InRun, Looping, Ending, Quiet, Starting
  <2>5. Phase(w)'
    BY <1>1, <1>4, <1>5, <2>2, <2>3, <2>4 DEF Phase, Active, main, Quiet, Starting
  <2> QED
    BY <1>1, <1>2, <2>1, <2>5, ThreadMoves DEF Steps
<1>7. CASE ~running[w]
  <2>1. wpc' = [wpc EXCEPT ![w] = "exited"] /\ allThreads' = allThreads \ {w}
    BY <1>7 DEF Check
  <2>2. wpc'[w] = "exited"
    BY <1>0, <2>1 DEF Types
  <2>3. mpc \in Ending /\ Freed(w) /\ w <= threads
    <3>1. mpc \in Ending
      BY <1>0, <1>1, <1>7 DEF Phase, Flags, Types, Quiet, Starting
    <3>2. w \in Nat /\ threads \in Nat
      BY <1>0 DEF Types, Workers
    <3> QED
      BY <1>0, <1>1, <1>3, <3>1, <3>2 DEF Phase, Starting
  <2>4. ~Open
    BY <2>3 DEF Open, InRun, Looping, Ending, Starting
  <2>5. Phase(w)'
    BY <1>0, <1>1, <1>4, <1>5, <2>2, <2>3, <2>4 DEF Phase, Leaving, main, Ending, Starting
  <2> QED
    BY <1>1, <1>2, <2>1, <2>5, ThreadMoves DEF Steps
<1> QED
  BY <1>6, <1>7

\* A thread's process completes.
LEMMA ProcessStep ==
  ASSUME IInv, NEW w \in Workers, Process(w)
  PROVE  IInv'
<1>0. Types /\ Barred /\ Phase(w)
  BY DEF IInv, Phases
<1>1. /\ wpc[w] = "process" /\ wpc' = [wpc EXCEPT ![w] = "bar"]
      /\ executed' = [executed EXCEPT ![w] = @ + 1]
      /\ UNCHANGED <<main, running, runs, bar, park, allThreads>>
  BY DEF Process
<1>2. w \notin bar.cond /\ w \notin park[w].cond
  BY <1>0, <1>1, WaitsInPark DEF Barred
<1>3. wpc'[w] = "bar" /\ executed'[w] = executed[w] + 1
  BY <1>0, <1>1, ParAssumption DEF Types, Workers
<1>4. Freed(w)' <=> Freed(w)
  BY <1>1 DEF Freed, main
<1>5. Open' <=> Open
  BY <1>1 DEF Open, main
<1>6. Open /\ Freed(w) /\ executed[w] + 1 = runs
  BY <1>0, <1>1 DEF Phase, Active, Resting, Leaving, Open, Types, Ending, Quiet, Starting
<1>7. mpc \notin Ending \cup Quiet
  BY <1>6 DEF Open, InRun, Looping, Ending, Quiet, Starting
<1>8. Phase(w)'
  BY <1>1, <1>3, <1>4, <1>5, <1>6, <1>7 DEF Phase, Active, main, Quiet, Starting
<1> QED
  BY <1>1, <1>2, <1>8, ThreadMoves DEF Steps

\* A thread leaves the barrier of a run that is over.
LEMMA LeaveBarStep ==
  ASSUME IInv, NEW w \in Workers, LeaveBar(w)
  PROVE  IInv'
<1>0. Types /\ Barred /\ Phase(w)
  BY DEF IInv, Phases
<1>1. /\ wpc[w] = "barred" /\ wpc' = [wpc EXCEPT ![w] = "park"] /\ w \notin bar.cond
      /\ UNCHANGED <<main, running, runs, bar, park, allThreads, executed>>
  BY DEF LeaveBar
<1>2. w \notin park[w].cond
  BY <1>0, <1>1, WaitsInPark
<1>3. wpc'[w] = "park"
  BY <1>0, <1>1 DEF Types
<1>4. Freed(w)' <=> Freed(w)
  BY <1>1 DEF Freed, main
<1>5. Open' <=> Open
  BY <1>1 DEF Open, main
<1>6. ~Active(w) /\ ~Leaving(w) /\ Resting(w)'
  BY <1>1, <1>3 DEF Active, Leaving, Resting
<1>7. Phase(w)'
  BY <1>0, <1>1, <1>4, <1>5, <1>6 DEF Phase, main, Starting
<1> QED
  BY <1>1, <1>2, <1>7, ThreadMoves DEF Steps

\* A thread that was released leaves its park.
LEMMA LeaveParkStep ==
  ASSUME IInv, NEW w \in Workers, LeavePark(w)
  PROVE  IInv'
<1>0. Types /\ Barred /\ Phase(w)
  BY DEF IInv, Phases
<1>1. /\ wpc[w] = "parked" /\ wpc' = [wpc EXCEPT ![w] = "check"] /\ w \notin park[w].cond
      /\ UNCHANGED <<main, running, runs, bar, park, allThreads, executed>>
  BY DEF LeavePark
<1>2. w \notin bar.cond
  BY <1>0, <1>1 DEF Barred
<1>3. wpc'[w] = "check"
  BY <1>0, <1>1 DEF Types
<1>4. Freed(w)' <=> Freed(w)
  BY <1>1 DEF Freed, main
<1>5. Open' <=> Open
  BY <1>1 DEF Open, main
<1>6. ~Resting(w) /\ Leaving(w)' /\ (Active(w) => Active(w)')
  BY <1>1, <1>3 DEF Active, Leaving, Resting
<1>7. Phase(w)'
  BY <1>0, <1>1, <1>4, <1>5, <1>6 DEF Phase, main, Starting
<1> QED
  BY <1>1, <1>2, <1>7, ThreadMoves DEF Steps

\* Some member arrives at the barrier of the run; the last one completes it.
LEMMA ArriveAtBar ==
  ASSUME IInv, mpc \in InRun, NEW p \in Members, p \notin bar.cond, bar' = Sync(bar, p)
  PROVE  /\ bar' \in BarType /\ bar'.enrolled = N
         /\ \/ /\ bar'.cond = bar.cond \cup {p}
               /\ bar'.countDown = Cardinality(Members \ bar'.cond)
            \/ /\ bar'.cond = {} /\ bar'.countDown = N
               /\ bar.cond \cup {p} = Members
<1>0. Types /\ Barred /\ Loops
  BY DEF IInv
<1>1. N > 0 /\ N \in Nat
  BY <1>0, ParAssumption DEF Loops, Starting
<1>2. PICK M : M = Members /\ IsFiniteSet(M) /\ M \subseteq Workers \cup Callers
  <2>1. mpc \notin Quiet
    BY DEF InRun, Looping, Quiet, Starting
  <2>2. mut \in Callers
    BY <2>1, OwnerIsCaller
  <2>3. IsFiniteSet(Workers \cup {mut})
    BY <1>1, <2>2, MemberCount
  <2> QED
    BY <2>2, <2>3 DEF Members
<1>3. PICK S \in SUBSET M : S = bar.cond
  BY <1>0, <1>2 DEF Barred
<1>4. PICK k : k = bar.countDown
  OBVIOUS
<1>5. /\ k \in Nat \ {0} /\ Dec(k) = k - 1
      /\ Dec(k) = Cardinality(M \ (S \cup {p}))
      /\ Dec(k) = 0 <=> S \cup {p} = M
  <2>1. k = Cardinality(M \ S)
    BY <1>0, <1>2, <1>3, <1>4 DEF Barred
  <2>2. p \in M /\ p \notin S
    BY <1>2, <1>3
  <2> QED
    BY <1>2, <2>1, <2>2, Arrives
<1>6. bar \in BarType /\ bar.enrolled = N
  BY <1>0 DEF Types, Barred
<1>7. CASE Dec(k) > 0
  <2>1. bar' = [bar EXCEPT !.countDown = Dec(k), !.cond = S \cup {p}]
    BY <1>3, <1>4, <1>7 DEF Sync
  <2>2. bar'.enrolled = N /\ bar'.countDown = Dec(k) /\ bar'.cond = S \cup {p}
    BY <1>6, <2>1 DEF BarType
  <2>3. S \cup {p} \subseteq Workers \cup Callers /\ Dec(k) \in Nat
    BY <1>2, <1>5 DEF Members
  <2>4. bar' \in BarType
    BY <1>6, <2>1, <2>3 DEF BarType
  <2> QED
    BY <1>2, <1>3, <1>5, <2>2, <2>4 DEF Members
<1>8. CASE Dec(k) = 0
  <2>1. bar' = Complete(bar)
    BY <1>4, <1>8 DEF Sync
  <2>2. bar'.enrolled = N /\ bar'.countDown = N /\ bar'.cond = {} /\ bar' \in BarType
    BY <1>6, <2>1 DEF Complete, BarType
  <2> QED
    BY <1>2, <1>3, <1>5, <1>8, <2>2 DEF Members
<1> QED
  BY <1>5, <1>7, <1>8

\* The last arrival at the barrier ends the run: all threads are to rest.
LEMMA RunOver ==
  ASSUME IInv, mpc \in {"sync", "synced"}, Open,
         mpc' = "synced", UNCHANGED <<mut, idx, threads, runs>>, bar'.cond = {},
         NEW w \in Workers, wpc'[w] = "barred", executed'[w] = executed[w], executed[w] = runs
  PROVE  Phase(w)'
<1>1. runs # 0
  BY DEF IInv, Loops, InRun, Looping, Starting
<1>2. ~Open'
  BY DEF Open, InRun, Looping, Starting
<1>3. Resting(w)'
  BY DEF Resting
<1> QED
  BY <1>1, <1>2, <1>3 DEF Phase, Ending, Starting

\* All threads that wait on the barrier have completed their process.
LEMMA WaitersAreDone ==
  ASSUME IInv, NEW w \in Workers, w \in bar.cond
  PROVE  wpc[w] = "barred" /\ executed[w] = runs /\ Open
<1>1. wpc[w] = "barred" /\ Open /\ Phase(w) /\ Loops /\ Types
  BY DEF IInv, Barred, Phases
<1>2. ~Resting(w)
  BY <1>1 DEF Resting
<1>3. Freed(w)
  BY <1>1, <1>2 DEF Phase, Starting
<1> QED
  BY <1>1, <1>3 DEF Phase, Active, Starting

\* A thread arrives at the barrier.
LEMMA SyncBarStep ==
  ASSUME IInv, NEW w \in Workers, SyncBar(w)
  PROVE  IInv'
<1>0. Types /\ Barred /\ Phase(w) /\ Phases /\ Loops
  BY DEF IInv, Phases
<1>1. /\ wpc[w] = "bar" /\ wpc' = [wpc EXCEPT ![w] = "barred"] /\ bar' = Sync(bar, w)
      /\ UNCHANGED <<main, running, runs, park, allThreads, executed>>
  BY DEF SyncBar
<1>2. w \notin bar.cond /\ w \notin park[w].cond
  BY <1>0, <1>1, WaitsInPark DEF Barred
<1>3. wpc'[w] = "barred"
  BY <1>0, <1>1 DEF Types
<1>4. Open /\ Freed(w) /\ executed[w] = runs
  BY <1>0, <1>1 DEF Phase, Active, Resting, Leaving, Open, Types, Ending, Quiet, Starting
<1>5. mpc \in InRun /\ mpc \notin Ending \cup Quiet
  BY <1>4 DEF Open, InRun, Looping, Ending, Quiet, Starting
<1>6. mut \notin Workers
  BY <1>5, OwnerIsCaller
<1>7. /\ bar' \in BarType /\ bar'.enrolled = N
      /\ \/ /\ bar'.cond = bar.cond \cup {w}
            /\ bar'.countDown = Cardinality(Members \ bar'.cond)
         \/ /\ bar'.cond = {} /\ bar'.countDown = N
            /\ bar.cond \cup {w} = Members
  BY <1>1, <1>2, <1>5, ArriveAtBar DEF Members
<1>8. /\ Types' /\ Owner' /\ Loops' /\ Own'
      /\ \A x \in Workers : x # w => wpc'[x] = wpc[x] /\ executed'[x] = executed[x]
  BY <1>0, <1>1, <1>7, ThreadFrame DEF Types, Steps
<1>9. Members' = Members /\ mpc' = mpc /\ mut' = mut
  BY <1>1 DEF Members, main
<1>11. Parked'
  BY <1>1, <1>8 DEF IInv, Parked, main
<1>12. Flags'
  BY <1>1 DEF IInv, Flags, Freed, main
<1>13. Registry'
  BY <1>1, <1>3, <1>8 DEF IInv, Registry, Unregistered, main
<1>10. CASE /\ bar'.cond = bar.cond \cup {w}
            /\ bar'.countDown = Cardinality(Members \ bar'.cond)
  <2>1. Open'
    BY <1>4, <1>9, <1>10 DEF Open
  <2>2. Barred'
    BY <1>0, <1>3, <1>5, <1>6, <1>7, <1>8, <1>9, <1>10, <2>1 DEF Barred, Members, Quiet, IInv, Owner
  <2>3. Phase(w)'
    <3>1. Freed(w)'
      BY <1>1, <1>4 DEF Freed, main
    <3>2. Active(w)'
      BY <1>1, <1>3, <1>4, <1>10 DEF Active
    <3> QED
      BY <1>5, <1>9, <2>1, <3>1, <3>2 DEF Phase, Quiet, Starting
  <2>4. Phases'
    BY <1>0, <1>1, <1>4, <1>8, <1>10, <2>1, <2>3, SamePhase DEF Phases, main
  <2> QED
    BY <1>11, <1>12, <1>13, <1>8, <2>2, <2>4 DEF IInv
<1>14. CASE /\ bar'.cond = {} /\ bar'.countDown = N
            /\ bar.cond \cup {w} = Members
  <2>1. mpc = "synced" /\ ~Open'
    <3>1. mut \in bar.cond
      BY <1>6, <1>14 DEF Members
    <3> QED
      BY <1>0, <1>9, <1>14, <3>1 DEF Barred, Open, InRun, Looping, Starting
  <2>2. Cardinality(Members \ {}) = N
    <3>1. mut \in Callers /\ N > 0
      BY <1>0, <1>5, OwnerIsCaller DEF Loops, Starting
    <3>2. Members \ {} = Workers \cup {mut}
      BY DEF Members
    <3> QED
      BY <3>1, <3>2, MemberCount
  <2>3. Barred'
    BY <1>5, <1>7, <1>9, <1>14, <2>2, <2>1 DEF Barred, IInv, Owner, Quiet
  <2>4. Phases'
    <3> SUFFICES ASSUME NEW x \in Workers PROVE Phase(x)'
      BY DEF Phases
    <3>1. wpc'[x] = "barred" /\ executed[x] = runs
      <4>1. CASE x = w
        BY <1>3, <1>4, <4>1
      <4>2. CASE x # w
        BY <1>8, <1>14, <4>2, WaitersAreDone DEF Members
      <4> QED
        BY <4>1, <4>2
    <3> QED
      BY <1>1, <1>4, <1>14, <2>1, <3>1, RunOver DEF main
  <2> QED
    BY <1>11, <1>12, <1>13, <1>8, <2>3, <2>4 DEF IInv
<1> QED
  BY <1>7, <1>10, <1>14

\* A party of two arrives at a park: the first waits, the second releases it.
LEMMA ArriveAtPark ==
  ASSUME NEW b \in BarType, b.enrolled = 2, NEW p \in Workers \cup Callers
  PROVE  /\ Sync(b, p) \in BarType /\ Sync(b, p).enrolled = 2
         /\ b.countDown = 2 =>
               Sync(b, p).countDown = 1 /\ Sync(b, p).cond = b.cond \cup {p}
         /\ b.countDown = 1 => Sync(b, p).countDown = 2 /\ Sync(b, p).cond = {}
<1>0. UIntMax \in Nat
  BY UIntAssumption
<1>1. Dec(b.countDown) \in Nat
  BY <1>0 DEF BarType, Dec
<1>2. CASE Dec(b.countDown) > 0
  <2>1. Sync(b, p) = [b EXCEPT !.countDown = Dec(@), !.cond = @ \cup {p}]
    BY <1>2 DEF Sync
  <2>2. Sync(b, p) \in BarType
    <3>1. b.enrolled \in Nat /\ b.cond \cup {p} \in SUBSET (Workers \cup Callers)
      BY DEF BarType
    <3> QED
      BY <1>1, <2>1, <3>1 DEF BarType
  <2> QED
    BY <1>2, <2>1, <2>2 DEF BarType, Dec
<1>3. CASE Dec(b.countDown) = 0
  <2>1. Sync(b, p) = Complete(b)
    BY <1>3 DEF Sync
  <2> QED
    BY <1>3, <2>1 DEF BarType, Complete, Dec
<1> QED
  BY <1>1, <1>2, <1>3

\* A thread parks, before or after the caller comes to release it.
LEMMA SyncParkStep ==
  ASSUME IInv, NEW w \in Workers, SyncPark(w)
  PROVE  IInv'
<1>0. Types /\ Barred /\ Phase(w) /\ Phases /\ Loops /\ Parked /\ Flags
  BY DEF IInv, Phases
<1>1. /\ wpc[w] = "park" /\ wpc' = [wpc EXCEPT ![w] = "parked"]
      /\ park' = [park EXCEPT ![w] = Sync(park[w], w)]
      /\ UNCHANGED <<main, running, runs, bar, allThreads, executed>>
  BY DEF SyncPark
<1>2. w \notin bar.cond
  BY <1>0, <1>1 DEF Barred
<1>3. wpc'[w] = "parked" /\ wpc'[w] # "none"
  BY <1>0, <1>1 DEF Types
<1>4. PICK s \in BarType : s = Sync(park[w], w)
  BY <1>0, ArriveAtPark DEF Types, Parked
<1>5. /\ park' \in [Workers -> BarType] /\ park'[w] = s
      /\ \A x \in Workers : x # w => park'[x] = park[x]
  BY <1>0, <1>1, <1>4 DEF Types
<1>6. /\ Types' /\ Owner' /\ Loops' /\ Own'
      /\ \A x \in Workers : x # w => wpc'[x] = wpc[x] /\ executed'[x] = executed[x]
  BY <1>0, <1>1, <1>5, ThreadFrame DEF Types, Steps
<1>7. Open' <=> Open
  BY <1>1 DEF Open, main
<1>8. Barred'
  BY <1>0, <1>1, <1>2, <1>6, <1>7 DEF Barred, Members, main
<1>9. Registry'
  BY <1>1, <1>3, <1>6 DEF IInv, Registry, Unregistered, main
<1>10. ~Active(w) /\ ~Leaving(w)
  BY <1>1 DEF Active, Leaving
<1>11. ~(Open /\ Freed(w)) /\ ~(mpc \in Ending /\ Freed(w)) /\ mpc # "destroyed"
  BY <1>0, <1>1, <1>10 DEF Phase, Starting
<1>12. mpc \in Parking => mpc \in Ending \/ Open
  BY DEF Open, InRun, Looping, Ending, Parking, Starting
<1>13. mpc \in Parking => mut # w
  <2>1. Parking \cap Quiet = {}
    BY DEF Parking, Quiet
  <2> QED
    BY <2>1, OwnerIsCaller
<1>14. ASSUME s.enrolled = 2,
              \/ s.cond = {} /\ s.countDown = 2
              \/ s.cond = {w} /\ s.countDown = 1,
              Phase(w)', Flags'
       PROVE  IInv'
  <2>1. Parked'
    BY <1>0, <1>1, <1>3, <1>5, <1>6, <1>14 DEF Parked, main
  <2>2. Phases'
    <3>1. UNCHANGED <<mut, mpc, idx, threads, runs, bar>>
      BY <1>1 DEF main
    <3>2. ASSUME NEW x \in Workers, x # w PROVE Phase(x)'
      <4>1. /\ wpc'[x] = wpc[x] /\ executed'[x] = executed[x] /\ park'[x] = park[x]
            /\ Phase(x)
        BY <1>0, <1>5, <1>6, <3>2 DEF Phases
      <4> QED
        BY <1>7, <3>1, <4>1, SamePhase
    <3> QED
      BY <1>14, <3>2 DEF Phases
  <2> QED
    BY <1>6, <1>8, <1>9, <1>14, <2>1, <2>2 DEF IInv
<1>15. CASE park[w].cond = {} /\ park[w].countDown = 2
  <2>1. s.enrolled = 2 /\ s.cond = {w} /\ s.countDown = 1
    <3>1. s.enrolled = 2 /\ s.cond = park[w].cond \cup {w} /\ s.countDown = 1
      <4>1. park[w] \in BarType /\ park[w].enrolled = 2 /\ w \in Workers \cup Callers
        BY <1>0 DEF Types, Parked
      <4> QED
        BY <1>4, <1>15, <4>1, ArriveAtPark
    <3> QED
      BY <1>15, <3>1
  <2>2. ~(w = idx /\ mpc \in Parking)
    BY <1>11, <1>12, <1>15 DEF Freed
  <2>3. \A x \in Workers : Freed(x)' <=> Freed(x)
    BY <1>1, <1>5, <2>2 DEF Freed, main
  <2>4. Resting(w)'
    BY <1>3, <1>5, <2>1 DEF Resting
  <2>5. Phase(w)'
    BY <1>0, <1>1, <1>7, <1>11, <2>3, <2>4 DEF Phase, main, Starting
  <2>6. Flags'
    BY <1>0, <1>1, <2>3 DEF Flags, main
  <2> QED
    BY <1>14, <2>1, <2>5, <2>6
<1>16. CASE /\ park[w].cond = {mut} /\ park[w].countDown = 1
            /\ mpc \in Parking /\ idx = w
  <2>1. s.enrolled = 2 /\ s.cond = {} /\ s.countDown = 2
    BY <1>0, <1>4, <1>16, ArriveAtPark DEF Types, Parked
  <2>2. Freed(w)' /\ ~Freed(w)
    BY <1>1, <1>5, <1>16, <2>1 DEF Freed, main, Workers, Parking
  <2>3. \A x \in Workers : x # w => (Freed(x)' <=> Freed(x))
    BY <1>1, <1>5 DEF Freed, main
  <2>4. Leaving(w)' /\ (executed[w] + 1 = runs => Active(w)')
    BY <1>1, <1>3, <1>5, <2>1 DEF Leaving, Active
  <2>5. Phase(w)'
    <3>1. ~(w < idx) /\ mpc \notin {"none", "synced", "destroyed"}
      BY <1>16, <2>2 DEF Freed, Parking
    <3> QED
      BY <1>0, <1>1, <1>7, <2>2, <2>4, <3>1 DEF Phase, main, Starting
  <2>6. Flags'
    <3>1. mpc \in Ending => ~running[w]
      BY <1>0, <1>16 DEF Flags, Parking, Ending
    <3> QED
      BY <1>0, <1>1, <2>3, <3>1 DEF Flags, main
  <2> QED
    BY <1>14, <2>1, <2>5, <2>6
<1> QED
  BY <1>0, <1>1, <1>15, <1>16 DEF Parked

-----------------------------------------------------------------------------
(* The caller.                                                             *)

\* Only one mutex owner at a time is in run or in the destructor.
LEMMA Places ==
  /\ InRun \cap Ending = {} /\ InRun \cap Quiet = {} /\ Ending \cap Quiet = {}
  /\ Parking \subseteq InRun \cup Ending /\ Looping \subseteq InRun
BY DEF InRun, Looping, Ending, Quiet, Parking, Starting

\* The caller takes the mutex and sets the barrier again if it must.
LEMMA BeginStep ==
  ASSUME IInv, NEW c \in Callers, Begin(c)
  PROVE  IInv'
<1>0. Types /\ Owner /\ Loops /\ Barred /\ Parked /\ Phases /\ Flags /\ Own /\ Registry
  BY DEF IInv
<1>1. /\ c \in refs /\ mut = NoCaller /\ runs' = runs + 1
      /\ UNCHANGED <<refs, processChanged, threads, park, running, wpc, allThreads, executed>>
  BY DEF Begin
<1>2. mpc = "none" /\ ~Open /\ bar.cond = {} /\ N \in Nat
  BY <1>0, <1>1, ParAssumption DEF Owner, Quiet, Open, InRun, Looping, Barred, Starting
<1>3. \A w \in Workers : w \in Nat /\ w >= 1 /\ w < N
  BY ParAssumption DEF Workers
<1>4. Parked'
  <2>1. mpc \notin Parking
    BY <1>2 DEF Parking
  <2> QED
    BY <1>0, <1>1, <2>1 DEF Parked
<1>5. Registry'
  <2>1. mpc' # "start_register" /\ mpc # "start_register"
    BY <1>2 DEF Begin
  <2> QED
    BY <1>0, <1>1, <2>1 DEF Registry, Unregistered
<1>6. CASE N = 0
  <2>1. UNCHANGED <<mut, mpc, idx, bar>> /\ Workers = {}
    BY <1>3, <1>6 DEF Begin
  <2>2. Types'
    BY <1>0, <1>1, <2>1 DEF Types
  <2>3. Owner' /\ Loops'
    BY <1>0, <1>1, <1>2, <1>6, <2>1 DEF Owner, Loops, InRun, Looping, Starting
  <2>4. ~Open'
    BY <1>2, <2>1 DEF Open
  <2>5. Barred'
    BY <1>0, <1>1, <1>2, <2>1, <2>4 DEF Barred, Members
  <2>6. Phases' /\ Flags' /\ Own'
    BY <1>6, <2>1 DEF Phases, Flags, Own
  <2> QED
    BY <1>4, <1>5, <2>2, <2>3, <2>5, <2>6 DEF IInv
<1>7. CASE N # 0
  <2>1. /\ mut' = c /\ idx' = 1 /\ bar' = Prepared
        /\ mpc' = IF ~processChanged THEN "release"
                  ELSE IF threads < N - 1 THEN "start" ELSE "reset"
    BY <1>7 DEF Begin
  <2>2. mpc' \in {"start", "reset", "release"} /\ mpc' \in InRun /\ N > 0
    BY <1>2, <1>7, <2>1 DEF InRun, Looping, Starting
  <2>3. Open'
    BY <2>2 DEF Open, InRun, Looping, Starting
  <2>4. /\ bar' \in BarType /\ bar'.cond = {} /\ bar'.enrolled = N /\ bar'.countDown = N
    <3>1. CASE processChanged
      BY <1>0, <1>2, <2>1, <3>1 DEF Prepared, Reset, Types, BarType
    <3>2. CASE ~processChanged
      BY <1>0, <1>1, <1>2, <2>1, <3>2 DEF Prepared, Types, Barred
    <3> QED
      BY <3>1, <3>2
  <2>5. Types'
    BY <1>0, <1>1, <2>1, <2>2, <2>4 DEF Types
  <2>6. Owner'
    BY <1>1, <2>1, <2>2, Places, ParAssumption DEF Owner
  <2>7. Loops'
    BY <1>0, <1>1, <1>2, <2>1, <2>2, Places DEF Loops, Types, Ending, Starting
  <2>8. Barred'
    <3>1. Cardinality(Members' \ {}) = N
      <4>1. Members' \ {} = Workers \cup {c}
        BY <2>1 DEF Members
      <4> QED
        BY <2>2, <4>1, MemberCount
    <3> QED
      BY <2>1, <2>2, <2>3, <2>4, <3>1, ParAssumption DEF Barred
  <2>9. Phases'
    <3> SUFFICES ASSUME NEW w \in Workers PROVE Phase(w)'
      BY DEF Phases
    <3>1. ~Freed(w)'
      BY <1>3, <2>1, <2>2 DEF Freed, Parking
    <3>2. Phase(w) /\ executed[w] = runs /\ executed[w] \in Nat
      BY <1>0, <1>2, ParAssumption DEF Phases, Phase, Types, Workers, Starting
    <3>3. CASE runs = 0
      <4>1. wpc[w] = "none"
        BY <1>2, <3>2, <3>3 DEF Phase, Starting
      <4>2. mpc' = "start"
        BY <1>0, <1>2, <1>3, <2>1, <3>3 DEF Loops, Types, Starting
      <4> QED
        BY <1>1, <2>2, <2>3, <3>1, <3>2, <4>1, <4>2 DEF Phase, Ending, Starting
    <3>4. CASE runs # 0
      <4>1. Resting(w)
        BY <1>2, <3>2, <3>4 DEF Phase, Starting
      <4>2. Resting(w)'
        BY <1>1, <1>2, <2>4, <4>1 DEF Resting
      <4>3. mpc' # "start"
        BY <1>0, <1>2, <1>3, <2>1, <3>4 DEF Loops, Types, Starting
      <4> QED
        BY <1>1, <2>2, <2>3, <3>1, <3>2, <4>2, <4>3 DEF Phase, Ending, Starting
    <3> QED
      BY <3>3, <3>4
  <2>10. Flags'
    BY <1>0, <1>1, <1>2, <2>2 DEF Flags, Ending
  <2>11. Own'
    BY <1>0, <1>1, <1>2, <2>2 DEF Own, Looping, Starting
  <2> QED
    BY <1>4, <1>5, <2>5, <2>6, <2>7, <2>8, <2>9, <2>10, <2>11 DEF IInv
<1> QED
  BY <1>6, <1>7

\* A thread is made and joins the run.
LEMMA StartStep ==
  ASSUME IInv, StartThread
  PROVE  IInv'
<1>0. Types /\ Owner /\ Loops /\ Barred /\ Parked /\ Phases /\ Flags /\ Own /\ Registry
  BY DEF IInv
<1>1. /\ mpc = "start" /\ idx < N /\ wpc' = [wpc EXCEPT ![idx] = "check"]
      /\ threads' = threads + 1 /\ mpc' = "start_register"
      /\ UNCHANGED <<mut, idx, refs, processChanged, bar, park, running, allThreads, runs,
                     executed>>
  BY DEF StartThread
<1>2. idx \in Workers /\ idx \in Nat /\ N \in Nat /\ mpc \in InRun
  BY <1>0, <1>1, ParAssumption DEF Loops, Workers, InRun, Looping, Starting
<1>3. /\ wpc'[idx] = "check" /\ wpc' \in [Workers -> Steps]
      /\ \A w \in Workers : w # idx => wpc'[w] = wpc[w]
  BY <1>0, <1>1, <1>2 DEF Types, Steps
<1>4. \A w \in Workers : running'[w]
  BY <1>0, <1>1, <1>2 DEF Flags
<1>5. Open /\ Open'
  BY <1>1 DEF Open, InRun, Looping, Starting
<1>6. \A w \in Workers : (Freed(w) <=> w < idx) /\ (Freed(w)' <=> (w < idx \/ w = idx))
  BY <1>1, <1>2 DEF Freed, Parking, Workers
<1>7. Types'
  BY <1>0, <1>1, <1>3 DEF Types, InRun, Looping, Starting
<1>8. Owner' /\ Loops'
  BY <1>0, <1>1, <1>2 DEF Owner, Loops, Types, InRun, Looping, Starting, Ending, Quiet, Workers
<1>9. Phases'
  <2> SUFFICES ASSUME NEW w \in Workers PROVE Phase(w)'
    BY DEF Phases
  <2>1. Phase(w)
    BY <1>0 DEF Phases
  <2>2. CASE w = idx
    <3>1. executed[w] + 1 = runs
      BY <1>2, <1>5, <1>6, <2>1, <2>2 DEF Phase, Starting
    <3>2. Active(w)'
      BY <1>1, <1>3, <2>2, <3>1 DEF Active
    <3> QED
      BY <1>1, <1>5, <1>6, <2>2, <3>2 DEF Phase, Ending, Starting
  <2>3. CASE w # idx
    <3>1. Freed(w)' <=> Freed(w)
      BY <1>6, <2>3
    <3>2. Active(w)' <=> Active(w)
      BY <1>1, <1>3, <2>3 DEF Active
    <3> QED
      BY <1>1, <1>3, <1>5, <2>1, <2>3, <3>1, <3>2 DEF Phase, Ending, Starting
  <2> QED
    BY <2>2, <2>3
<1>10. wpc[idx] = "none"
  BY <1>0, <1>1, <1>2, <1>5, <1>6 DEF Phases, Phase, Starting
<1>11. Barred'
  BY <1>0, <1>1, <1>2, <1>3, <1>5, <1>10 DEF Barred, Members
<1>12. Parked'
  BY <1>0, <1>1, <1>2, <1>3, <1>10 DEF Parked, Parking
<1>13. Flags' /\ Own'
  BY <1>0, <1>1, <1>4 DEF Flags, Own, Looping, Starting, Ending
<1>14. Registry'
  BY <1>0, <1>1, <1>2, <1>3, <1>10 DEF Registry, Unregistered
<1> QED
  BY <1>7, <1>8, <1>9, <1>11, <1>12, <1>13, <1>14 DEF IInv

\* The caller moves on within its loop or its destructor: who is released, the
\* barrier, the parks and the threads stay as they are.
LEMMA CallerMoves ==
  ASSUME IInv, UNCHANGED <<mut, threads, bar, park, wpc, runs>>,
         \/ Registry'
         \/ UNCHANGED allThreads /\ mpc # "start_register" /\ mpc' # "start_register",
         mpc \notin Quiet \cup {"synced"}, mpc' \notin Quiet \cup {"synced"},
         mpc' \in InRun <=> mpc \in InRun,
         mpc' \in Starting => mpc \in Starting,
         mpc \in Parking => mut \notin park[idx].cond,
         \A w \in Workers :
            /\ Freed(w)' <=> Freed(w)
            /\ executed'[w] = executed[w]
            /\ mpc \in Starting /\ mpc' \notin Starting => Freed(w)
            /\ mpc' \in Ending /\ w < idx' => w < idx \/ wpc[w] = "exited",
         Types', Owner', Loops', Flags', Own'
  PROVE  IInv'
<1>0. Types /\ Owner /\ Loops /\ Barred /\ Parked /\ Phases /\ Registry
  BY DEF IInv
<1>1. mpc' \in Ending <=> mpc \in Ending
  BY <1>0, Places DEF Types
<1>2. Open' <=> Open
  BY DEF Open
<1>3. mut # NoCaller /\ mut \notin bar.cond
  BY <1>0 DEF Owner, Barred
<1>4. Barred'
  BY <1>0, <1>2, <1>3 DEF Barred, Members
<1>5. Parked'
  BY <1>0 DEF Parked
<1>6. Phases'
  <2> SUFFICES ASSUME NEW w \in Workers PROVE Phase(w)'
    BY DEF Phases
  <2>1. Phase(w)
    BY <1>0 DEF Phases
  <2>2. (Resting(w)' <=> Resting(w)) /\ (Active(w)' <=> Active(w)) /\ (Leaving(w)' <=> Leaving(w))
    BY DEF Resting, Active, Leaving
  <2> QED
    BY <1>1, <1>2, <2>1, <2>2 DEF Phase, Quiet, Starting
<1>7. Registry'
  BY <1>0 DEF Registry, Unregistered
<1> QED
  BY <1>4, <1>5, <1>6, <1>7 DEF IInv

\* The thread that runs already is registered.
LEMMA RegisterStep ==
  ASSUME IInv, RegisterThread
  PROVE  IInv'
<1>0. Types /\ Owner /\ Loops /\ Flags /\ Own /\ Registry /\ Phases
  BY DEF IInv
<1>1. /\ mpc = "start_register" /\ mpc' = "start_running" /\ allThreads' = allThreads \cup {idx}
      /\ UNCHANGED <<mut, idx, refs, processChanged, threads, bar, park, running, wpc,
                     runs, executed>>
  BY DEF RegisterThread
<1>2. idx \in Workers
  BY <1>0, <1>1 DEF Loops, Starting
<1>3. Types'
  BY <1>0, <1>1 DEF Types, InRun, Looping, Starting
<1>4. Owner' /\ Loops'
  BY <1>0, <1>1, <1>2 DEF Owner, Loops, InRun, Looping, Starting, Ending, Quiet
<1>5. Flags' /\ Own'
  BY <1>0, <1>1 DEF Flags, Own, InRun, Looping, Starting, Ending
<1>6. \A w \in Workers : Freed(w)' <=> Freed(w)
  BY <1>1 DEF Freed, Parking
<1>7. Registry'
  <2>1. Open /\ Freed(idx) /\ Phase(idx)
    BY <1>0, <1>1, <1>2 DEF Open, Freed, Phases, InRun, Looping, Starting
  <2>2. wpc[idx] \notin {"none", "exited"}
    BY <2>1 DEF Phase, Active, Starting
  <2> QED
    BY <1>0, <1>1, <1>2, <2>2 DEF Registry, Unregistered
<1> QED
  BY <1>1, <1>3, <1>4, <1>5, <1>6, <1>7, CallerMoves
  DEF InRun, Looping, Starting, Parking, Quiet, Ending

\* start sets _running, which is set anyway.
LEMMA RunningStep ==
  ASSUME IInv, SetRunning
  PROVE  IInv'
<1>0. Types /\ Owner /\ Loops /\ Flags /\ Own
  BY DEF IInv
<1>1. /\ mpc = "start_running" /\ mpc' = "start" /\ idx' = idx + 1
      /\ running' = [running EXCEPT ![idx] = TRUE]
      /\ UNCHANGED <<mut, refs, processChanged, threads, bar, park, wpc, allThreads,
                     runs, executed>>
  BY DEF SetRunning
<1>2. idx \in Workers /\ idx \in Nat /\ N \in Nat
  BY <1>0, <1>1, ParAssumption DEF Loops, Types, Starting
<1>3. Types'
  BY <1>0, <1>1, <1>2 DEF Types, InRun, Looping, Starting
<1>4. Owner' /\ Loops'
  BY <1>0, <1>1, <1>2 DEF Owner, Loops, InRun, Looping, Starting, Ending, Quiet, Workers
<1>5. Flags'
  <2>1. \A w \in Workers : running[w]
    BY <1>0, <1>1 DEF Flags, InRun, Looping, Starting
  <2>2. \A w \in Workers : running'[w]
    BY <1>0, <1>1, <2>1 DEF Types
  <2> QED
    BY <1>1, <2>2 DEF Flags, Ending
<1>6. Own'
  BY <1>0, <1>1 DEF Own, Looping, Starting
<1>7. \A w \in Workers : Freed(w)' <=> Freed(w)
  BY <1>1, <1>2 DEF Freed, Parking, Workers
<1> QED
  BY <1>1, <1>3, <1>4, <1>5, <1>6, <1>7, CallerMoves
  DEF InRun, Looping, Starting, Parking, Quiet, Ending

\* reset of a thread's _running, which is set anyway.
LEMMA ResetStep ==
  ASSUME IInv, ResetThread
  PROVE  IInv'
<1>0. Types /\ Owner /\ Loops /\ Flags /\ Own
  BY DEF IInv
<1>1. /\ mpc = "reset" /\ idx < N /\ mpc' = "reset_release"
      /\ running' = [running EXCEPT ![idx] = TRUE]
      /\ UNCHANGED <<mut, idx, refs, processChanged, threads, bar, park, wpc,
                     allThreads, runs, executed>>
  BY DEF ResetThread
<1>2. idx \in Workers /\ N \in Nat
  BY <1>0, <1>1, ParAssumption DEF Loops, Workers, Starting
<1>3. Types'
  BY <1>0, <1>1, <1>2 DEF Types, InRun, Looping, Starting
<1>4. Owner' /\ Loops'
  BY <1>0, <1>1, <1>2 DEF Owner, Loops, InRun, Looping, Ending, Quiet, Starting
<1>5. Flags'
  <2>1. \A w \in Workers : running[w]
    BY <1>0, <1>1 DEF Flags, InRun, Looping, Starting
  <2>2. \A w \in Workers : running'[w]
    BY <1>0, <1>1, <2>1 DEF Types
  <2> QED
    BY <1>1, <2>2 DEF Flags, Ending
<1>6. Own'
  BY <1>0, <1>1 DEF Own, Looping, Starting
<1>7. \A w \in Workers : Freed(w)' <=> Freed(w)
  BY <1>1 DEF Freed, Parking
<1> QED
  BY <1>1, <1>3, <1>4, <1>5, <1>6, <1>7, CallerMoves
  DEF InRun, Looping, Parking, Quiet, Ending, Starting

\* terminate clears the flag of a thread that rests.
LEMMA TerminateStep ==
  ASSUME IInv, TerminateThread
  PROVE  IInv'
<1>0. Types /\ Owner /\ Loops /\ Flags /\ Own
  BY DEF IInv
<1>1. /\ mpc = "terminate" /\ idx <= threads /\ mpc' = "terminate_release"
      /\ running' = [running EXCEPT ![idx] = FALSE]
      /\ UNCHANGED <<mut, idx, refs, processChanged, threads, bar, park, wpc,
                     allThreads, runs, executed>>
  BY DEF TerminateThread
<1>2. idx \in 1..threads /\ threads \in Nat /\ mpc' \in Ending
  BY <1>0, <1>1 DEF Loops, Types, Ending, Starting
<1>3. Types'
  <2>1. running' \in [Workers -> BOOLEAN]
    BY <1>0, <1>1 DEF Types
  <2> QED
    BY <1>0, <1>1, <1>2, <2>1 DEF Types
<1>4. Owner' /\ Loops'
  BY <1>0, <1>1, <1>2 DEF Owner, Loops, InRun, Looping, Ending, Quiet, Starting
<1>5. \A w \in Workers : Freed(w)' <=> Freed(w)
  BY <1>1 DEF Freed, Parking
<1>6. Flags'
  <2>1. \A w \in Workers : running'[w] = (running[w] /\ w # idx)
    BY <1>0, <1>1 DEF Types
  <2> QED
    BY <1>0, <1>1, <1>5, <2>1 DEF Flags, Ending, InRun, Looping, Starting
<1>7. Own'
  BY <1>0, <1>1 DEF Own, Looping, Starting
<1> QED
  BY <1>1, <1>3, <1>4, <1>5, <1>6, <1>7, CallerMoves
  DEF InRun, Looping, Parking, Quiet, Ending, Starting

\* The caller leaves a park: the thread has been there.
LEMMA ReleasedStep ==
  ASSUME IInv, Released
  PROVE  IInv'
<1>0. Types /\ Owner /\ Loops /\ Flags /\ Own
  BY DEF IInv
<1>1. /\ mpc \in Parking /\ mut \notin park[idx].cond
      /\ UNCHANGED <<mut, refs, processChanged, threads, bar, park, running, wpc,
                     allThreads, runs, executed>>
  BY DEF Released, Parking
<1>2. \/ mpc = "reset_parked" /\ mpc' = "reset" /\ idx' = idx + 1
      \/ mpc = "release_parked" /\ mpc' = "release" /\ idx' = idx + 1
      \/ mpc = "terminate_parked" /\ mpc' = "join" /\ idx' = idx
  BY Zenon DEF Released
<1>3. idx \in Nat /\ N \in Nat /\ idx' \in Nat
  BY <1>0, <1>2, ParAssumption DEF Types
<1>4. Types'
  BY <1>0, <1>1, <1>2, <1>3 DEF Types, InRun, Looping, Ending, Starting
<1>5. Owner'
  BY <1>0, <1>1, <1>2 DEF Owner, InRun, Looping, Ending, Quiet, Starting
<1>6. Loops'
  BY <1>0, <1>1, <1>2, <1>3 DEF Loops, InRun, Looping, Ending, Workers, Starting
<1>7. \A w \in Workers : Freed(w)' <=> Freed(w)
  BY <1>1, <1>2, <1>3 DEF Freed, Parking, Workers
<1>8. Flags'
  BY <1>0, <1>1, <1>2, <1>7 DEF Flags, Ending, InRun, Looping, Starting
<1>9. Own'
  BY <1>0, <1>1, <1>2 DEF Own, Looping, Starting
<1> QED
  BY <1>1, <1>2, <1>4, <1>5, <1>6, <1>7, <1>8, <1>9, CallerMoves
  DEF InRun, Looping, Quiet, Ending, Starting

\* The loops end with every thread started or released.
LEMMA EndLoopStep ==
  ASSUME IInv, EndLoop
  PROVE  IInv'
<1>0. Types /\ Owner /\ Loops /\ Flags /\ Own
  BY DEF IInv
<1>1. /\ mpc \in {"start", "reset", "release"} /\ idx = N /\ mpc' = "process"
      /\ processChanged' = (processChanged /\ mpc # "reset")
      /\ UNCHANGED <<mut, idx, refs, threads, bar, park, running, wpc, allThreads,
                     runs, executed>>
  BY DEF EndLoop
<1>2. N \in Nat /\ N > 0 /\ runs > 0 /\ mpc \in InRun
  BY <1>0, <1>1, ParAssumption DEF Loops, InRun, Looping, Starting
<1>3. processChanged' \in BOOLEAN
  BY <1>1, Zenon
<1>4. Types'
  BY <1>0, <1>1, <1>3 DEF Types, InRun, Looping, Starting
<1>5. Owner'
  BY <1>0, <1>1 DEF Owner, InRun, Looping, Ending, Quiet, Starting
<1>6. Loops'
  BY <1>0, <1>1, <1>2 DEF Loops, InRun, Looping, Ending, Types, Starting
<1>7. \A w \in Workers : Freed(w)' /\ Freed(w)
  BY <1>1, <1>2 DEF Freed, Workers
<1>8. Flags'
  BY <1>0, <1>1, <1>2 DEF Flags, Ending
<1>9. Own'
  BY <1>0, <1>1 DEF Own, Looping, Starting
<1> QED
  BY <1>1, <1>2, <1>4, <1>5, <1>6, <1>7, <1>8, <1>9, CallerMoves
  DEF InRun, Looping, Parking, Quiet, Ending, Starting

\* The caller's own process completes.
LEMMA OwnStep ==
  ASSUME IInv, OwnProcess
  PROVE  IInv'
<1>0. Types /\ Owner /\ Loops /\ Flags /\ Own
  BY DEF IInv
<1>1. /\ mpc = "process" /\ mpc' = "sync" /\ executed' = [executed EXCEPT ![N] = @ + 1]
      /\ UNCHANGED <<mut, idx, refs, processChanged, threads, bar, park, running,
                     wpc, allThreads, runs>>
  BY DEF OwnProcess
<1>2. N \in 1..N /\ mpc \in InRun /\ mpc' \in InRun
  BY <1>0, <1>1, ParAssumption DEF Loops, InRun, Looping, Starting
<1>3. /\ executed' \in [1..N -> Nat] /\ executed'[N] = executed[N] + 1
      /\ \A w \in Workers : executed'[w] = executed[w]
  BY <1>0, <1>1, <1>2 DEF Types, Workers
<1>4. Types'
  BY <1>0, <1>1, <1>2, <1>3 DEF Types
<1>5. Owner' /\ Loops'
  BY <1>0, <1>1 DEF Owner, Loops, InRun, Looping, Ending, Quiet, Starting
<1>6. \A w \in Workers : Freed(w)' <=> Freed(w)
  BY <1>1 DEF Freed, Parking
<1>7. Flags'
  BY <1>0, <1>1, <1>2 DEF Flags, Ending
<1>8. Own'
  BY <1>0, <1>1, <1>3 DEF Own, Looping, Starting
<1> QED
  BY <1>1, <1>2, <1>3, <1>4, <1>5, <1>6, <1>7, <1>8, CallerMoves
  DEF InRun, Looping, Starting, Parking, Quiet, Ending

\* The destructor goes on to the next thread when this one has exited.
LEMMA JoinStep ==
  ASSUME IInv, Join
  PROVE  IInv'
<1>0. Types /\ Owner /\ Loops /\ Flags /\ Own
  BY DEF IInv
<1>1. /\ mpc = "join" /\ wpc[idx] = "exited" /\ mpc' = "terminate" /\ idx' = idx + 1
      /\ UNCHANGED <<mut, refs, processChanged, threads, bar, park, running, wpc,
                     allThreads, runs, executed>>
  BY DEF Join
<1>2. idx \in 1..threads /\ idx \in Nat /\ threads \in Nat
  BY <1>0, <1>1 DEF Loops, Types, Ending, Starting
<1>3. Types' /\ Owner'
  BY <1>0, <1>1, <1>2 DEF Types, Owner, InRun, Looping, Ending, Quiet, Starting
<1>4. Loops'
  BY <1>0, <1>1, <1>2 DEF Loops, InRun, Looping, Ending, Starting
<1>5. \A w \in Workers : (Freed(w)' <=> Freed(w)) /\ (w < idx' => w < idx \/ wpc[w] = "exited")
  BY <1>1, <1>2 DEF Freed, Parking, Workers
<1>6. Flags'
  BY <1>0, <1>1, <1>5 DEF Flags, Ending, InRun, Looping, Starting
<1>7. Own'
  BY <1>0, <1>1 DEF Own, Looping, Starting
<1> QED
  BY <1>1, <1>3, <1>4, <1>5, <1>6, <1>7, CallerMoves
  DEF InRun, Looping, Parking, Quiet, Ending, Starting

\* The caller comes to a park: it wakes the thread, or waits for it.
LEMMA ReleaseStep ==
  ASSUME IInv, Release
  PROVE  IInv'
<1>0. Types /\ Owner /\ Loops /\ Barred /\ Parked /\ Phases /\ Flags /\ Own /\ Registry
  BY DEF IInv
<1>1. /\ park' = [park EXCEPT ![idx] = Sync(park[idx], mut)]
      /\ UNCHANGED <<mut, idx, refs, processChanged, threads, bar, running, wpc,
                     allThreads, runs, executed>>
  BY DEF Release
<1>2. \/ mpc = "reset_release" /\ mpc' = "reset_parked"
      \/ mpc = "terminate_release" /\ mpc' = "terminate_parked"
      \/ mpc = "release" /\ mpc' = "release_parked" /\ idx < N
  BY Zenon DEF Release
<1>3. /\ N \in Nat /\ idx \in Nat /\ threads \in Nat /\ mpc' \in Parking
      /\ mpc \notin Parking /\ mpc # "join" /\ mpc # "start" /\ mpc' # "join"
      /\ mpc \notin Quiet /\ mpc # "synced"
  BY <1>0, <1>2, ParAssumption DEF Types, Parking, Quiet
<1>4. idx \in Workers
  <2>1. mpc = "terminate_release" => idx \in 1..threads /\ (threads = 0 \/ threads = N - 1)
    BY <1>0 DEF Loops, Ending, Starting
  <2> QED
    BY <1>0, <1>2, <1>3, <2>1 DEF Loops, Workers, Starting
<1>5. PICK w \in Workers : w = idx
  BY <1>4
<1>6. mut \in Callers /\ mut \notin Workers
  BY <1>3, OwnerIsCaller
<1>7. PICK s \in BarType : s = Sync(park[w], mut)
  BY <1>0, <1>6, ArriveAtPark DEF Types, Parked
<1>8. /\ park' \in [Workers -> BarType] /\ park'[w] = s
      /\ \A x \in Workers : x # w => park'[x] = park[x]
  BY <1>0, <1>1, <1>5, <1>7 DEF Types
<1>9. Types'
  BY <1>0, <1>1, <1>2, <1>8 DEF Types, InRun, Looping, Ending, Starting
<1>10. Owner' /\ Loops'
  BY <1>0, <1>1, <1>2, <1>4 DEF Owner, Loops, InRun, Looping, Ending, Quiet, Starting
<1>11. (mpc' \in InRun <=> mpc \in InRun) /\ (mpc' \in Ending <=> mpc \in Ending)
  BY <1>2 DEF InRun, Looping, Ending, Starting
<1>12. Open' <=> Open
  BY <1>1, <1>2 DEF Open, InRun, Looping, Starting
<1>13. Barred'
  <2>1. mut # NoCaller /\ mut \notin bar.cond
    BY <1>0, <1>3 DEF Owner, Barred
  <2> QED
    BY <1>0, <1>1, <1>11, <1>12, <2>1 DEF Barred, Members
<1>14. Own' /\ Registry'
  BY <1>0, <1>1, <1>2 DEF Own, Looping, Registry, Starting, Unregistered
<1>15. ~Freed(w) /\ Phase(w) /\ w \in Nat /\ (mpc \in Ending => w <= threads /\ ~running[w])
  BY <1>0, <1>2, <1>3, <1>5 DEF Freed, Phases, Workers, Loops, Ending, Flags, Starting
<1>16. Resting(w) /\ (Open => executed[w] + 1 = runs) /\ (Open \/ mpc \in Ending)
  <2>1. Open \/ mpc \in Ending
    BY <1>2 DEF Open, InRun, Looping, Ending, Starting
  <2> QED
    BY <1>0, <1>2, <1>3, <1>15, <2>1 DEF Phase, Types, Starting
<1>17. \A x \in Workers : x # w => (Freed(x)' <=> Freed(x))
  BY <1>1, <1>3, <1>5 DEF Freed
<1>18. ASSUME Parked', Phase(w)', Freed(w)' => (mpc \in Ending => ~running[w])
       PROVE  IInv'
  <2>1. Phases'
    <3> SUFFICES ASSUME NEW x \in Workers, x # w PROVE Phase(x)'
      BY <1>18 DEF Phases
    <3>1. Phase(x) /\ (Freed(x)' <=> Freed(x))
      BY <1>0, <1>17 DEF Phases
    <3>2. /\ Resting(x)' <=> Resting(x)
          /\ Active(x)' <=> Active(x)
          /\ Leaving(x)' <=> Leaving(x)
      BY <1>1, <1>8 DEF Resting, Active, Leaving
    <3> QED
      BY <1>1, <1>2, <1>11, <1>12, <3>1, <3>2 DEF Phase, Starting
  <2>2. Flags'
    BY <1>0, <1>1, <1>2, <1>5, <1>11, <1>15, <1>17 DEF Flags, Ending, InRun, Looping, Starting
  <2> QED
    BY <1>9, <1>10, <1>13, <1>14, <1>18, <2>1, <2>2 DEF IInv
<1>19. CASE wpc[w] = "parked" /\ w \in park[w].cond
  <2>1. park[w].enrolled = 2 /\ park[w].countDown = 1
    BY <1>0, <1>3, <1>19 DEF Parked
  <2>2. s.enrolled = 2 /\ s.countDown = 2 /\ s.cond = {}
    BY <1>0, <1>6, <1>7, <2>1, ArriveAtPark DEF Types
  <2>3. Parked'
    BY <1>0, <1>1, <1>3, <1>8, <2>2 DEF Parked
  <2>4. Freed(w)'
    BY <1>1, <1>3, <1>5, <1>8, <2>2 DEF Freed
  <2>5. Leaving(w)' /\ (Open => Active(w)')
    BY <1>1, <1>8, <1>16, <1>19, <2>2 DEF Leaving, Active
  <2>6. Phase(w)'
    BY <1>0, <1>1, <1>2, <1>5, <1>11, <1>12, <1>15, <2>4, <2>5 DEF Phase, Starting
  <2> QED
    BY <1>15, <1>18, <2>3, <2>6
<1>20. CASE w \notin park[w].cond
  <2>1. park[w].enrolled = 2 /\ park[w].countDown = 2 /\ park[w].cond = {}
    BY <1>0, <1>3, <1>20 DEF Parked
  <2>2. s.enrolled = 2 /\ s.countDown = 1 /\ s.cond = park[w].cond \cup {mut}
    <3>1. PICK b \in BarType : b = park[w] /\ b.enrolled = 2 /\ b.countDown = 2
      BY <1>0, <2>1 DEF Types
    <3>2. PICK p \in Workers \cup Callers : p = mut
      BY <1>6
    <3>3. /\ Sync(b, p).enrolled = 2 /\ Sync(b, p).countDown = 1
          /\ Sync(b, p).cond = b.cond \cup {p}
      BY <3>1, ArriveAtPark
    <3> QED
      BY <1>7, <3>1, <3>2, <3>3
  <2>3. s.cond = {mut}
    BY <2>1, <2>2
  <2>4. Parked'
    BY <1>0, <1>1, <1>3, <1>5, <1>8, <2>2, <2>3 DEF Parked
  <2>5. ~Freed(w)'
    BY <1>1, <1>2, <1>3, <1>5, <1>8, <1>15, <2>3 DEF Freed
  <2>6. Resting(w)'
    BY <1>1, <1>16, <1>20 DEF Resting
  <2>7. Phase(w)'
    BY <1>0, <1>1, <1>2, <1>5, <1>11, <1>12, <1>15, <2>5, <2>6 DEF Phase, Starting
  <2> QED
    BY <1>15, <1>18, <2>4, <2>7
<1> QED
  BY <1>16, <1>19, <1>20, WaitsInPark

\* The caller arrives at the barrier.
LEMMA SyncBarrierStep ==
  ASSUME IInv, SyncBarrier
  PROVE  IInv'
<1>0. Types /\ Owner /\ Loops /\ Barred /\ Parked /\ Phases /\ Flags /\ Own /\ Registry
  BY DEF IInv
<1>1. /\ mpc = "sync" /\ bar' = Sync(bar, mut) /\ mpc' = "synced"
      /\ UNCHANGED <<mut, idx, refs, processChanged, threads, park, running, wpc,
                     allThreads, runs, executed>>
  BY DEF SyncBarrier
<1>2. /\ mpc \in InRun /\ mpc' \in InRun /\ Open /\ mpc \notin Quiet
      /\ mpc \notin Parking /\ mpc' \notin Parking
  BY <1>1 DEF InRun, Looping, Open, Quiet, Parking, Starting
<1>3. mut \notin bar.cond /\ mut \in Members /\ mut \in Callers /\ mut \notin Workers
  BY <1>0, <1>1, <1>2, OwnerIsCaller DEF Barred, Members
<1>4. /\ bar' \in BarType /\ bar'.enrolled = N
      /\ \/ /\ bar'.cond = bar.cond \cup {mut}
            /\ bar'.countDown = Cardinality(Members \ bar'.cond)
         \/ /\ bar'.cond = {} /\ bar'.countDown = N
            /\ bar.cond \cup {mut} = Members
  BY <1>1, <1>2, <1>3, ArriveAtBar
<1>5. Types'
  BY <1>0, <1>1, <1>2, <1>4 DEF Types
<1>6. Owner' /\ Loops'
  BY <1>0, <1>1 DEF Owner, Loops, InRun, Looping, Ending, Quiet, Starting
<1>7. Parked' /\ Registry'
  BY <1>0, <1>1, <1>2 DEF Parked, Registry, Unregistered
<1>8. Flags' /\ Own'
  BY <1>0, <1>1, <1>2 DEF Flags, Own, Looping, Ending, Starting
<1>9. Members' = Members
  BY <1>1 DEF Members
<1>10. CASE /\ bar'.cond = bar.cond \cup {mut}
            /\ bar'.countDown = Cardinality(Members \ bar'.cond)
  <2>1. Open'
    BY <1>1, <1>10 DEF Open
  <2>2. Barred'
    BY <1>0, <1>1, <1>3, <1>4, <1>9, <1>10, <2>1, ParAssumption DEF Barred
  <2>3. Phases'
    <3> SUFFICES ASSUME NEW w \in Workers PROVE Phase(w)'
      BY DEF Phases
    <3>1. Phase(w) /\ (Freed(w)' <=> Freed(w))
      BY <1>0, <1>1, <1>2 DEF Phases, Freed
    <3>2. (Resting(w)' <=> Resting(w)) /\ (Active(w)' <=> Active(w))
      BY <1>1, <1>3, <1>10 DEF Resting, Active
    <3> QED
      BY <1>1, <1>2, <2>1, <3>1, <3>2 DEF Phase, Ending, Starting
  <2> QED
    BY <1>5, <1>6, <1>7, <1>8, <2>2, <2>3 DEF IInv
<1>11. CASE /\ bar'.cond = {} /\ bar'.countDown = N
            /\ bar.cond \cup {mut} = Members
  <2>1. ~Open'
    BY <1>1, <1>11 DEF Open, InRun, Looping, Starting
  <2>2. Cardinality(Members \ {}) = N
    <3>1. N > 0
      BY <1>0, <1>2 DEF Loops, Starting
    <3>2. Members \ {} = Workers \cup {mut}
      BY DEF Members
    <3> QED
      BY <1>3, <3>1, <3>2, MemberCount
  <2>3. Barred'
    BY <1>1, <1>3, <1>4, <1>9, <1>11, <2>1, <2>2, ParAssumption DEF Barred
  <2>4. Phases'
    <3> SUFFICES ASSUME NEW w \in Workers PROVE Phase(w)'
      BY DEF Phases
    <3>1. wpc'[w] = "barred" /\ executed[w] = runs
      BY <1>1, <1>3, <1>11, WaitersAreDone DEF Members
    <3> QED
      BY <1>1, <1>2, <1>11, <3>1, RunOver
  <2> QED
    BY <1>5, <1>6, <1>7, <1>8, <2>3, <2>4 DEF IInv
<1> QED
  BY <1>4, <1>10, <1>11

\* run returns: its barrier is complete.
LEMMA EndStep ==
  ASSUME IInv, End
  PROVE  IInv'
<1>0. Types /\ Owner /\ Loops /\ Barred /\ Parked /\ Phases /\ Flags /\ Own /\ Registry
  BY DEF IInv
<1>1. /\ mpc = "synced" /\ mut \notin bar.cond /\ mut' = NoCaller /\ mpc' = "none"
      /\ UNCHANGED <<idx, refs, processChanged, threads, bar, park, running, wpc,
                     allThreads, runs, executed>>
  BY DEF End
<1>2. mpc \in InRun /\ mpc \notin Quiet /\ ~Open /\ ~Open' /\ bar.cond = {}
  BY <1>0, <1>1 DEF InRun, Looping, Quiet, Open, Barred, Starting
<1>3. Types' /\ Owner'
  BY <1>0, <1>1 DEF Types, Owner, InRun, Looping, Ending, Quiet, Starting
<1>4. Loops'
  BY <1>0, <1>1, <1>2 DEF Loops, InRun, Looping, Ending, Starting
<1>5. bar.enrolled = N /\ bar.countDown = N
  <2>1. N > 0 /\ mut \in Callers
    BY <1>0, <1>2, OwnerIsCaller DEF Loops, Starting
  <2>2. Members \ bar.cond = Workers \cup {mut}
    BY <1>2 DEF Members
  <2> QED
    BY <1>0, <1>2, <2>1, <2>2, MemberCount DEF Barred
<1>6. Barred'
  BY <1>0, <1>1, <1>2, <1>5 DEF Barred, InRun, Looping, Starting
<1>7. Parked'
  BY <1>0, <1>1 DEF Parked, Parking
<1>8. Phases'
  <2> SUFFICES ASSUME NEW w \in Workers PROVE Phase(w)'
    BY DEF Phases
  <2>1. Phase(w) /\ (Resting(w)' <=> Resting(w))
    BY <1>0, <1>1 DEF Phases, Resting
  <2> QED
    BY <1>1, <1>2, <2>1 DEF Phase, Ending, Starting
<1>9. Flags' /\ Own' /\ Registry'
  BY <1>0, <1>1, <1>2 DEF Flags, Own, Registry, Looping, Ending, Starting, Unregistered
<1> QED
  BY <1>3, <1>4, <1>6, <1>7, <1>8, <1>9 DEF IInv

\* A copy is destroyed; the last one's destructor finds no run in progress.
LEMMA DropStep ==
  ASSUME IInv, NEW c \in Callers, Drop(c)
  PROVE  IInv'
<1>0. Types /\ Owner /\ Loops /\ Barred /\ Parked /\ Phases /\ Flags /\ Own /\ Registry
  BY DEF IInv
<1>1. /\ c \in refs /\ mut # c /\ refs' = refs \ {c}
      /\ UNCHANGED <<processChanged, threads, bar, park, running, wpc, allThreads,
                     runs, executed>>
  BY DEF Drop
<1>2. mpc \notin Ending \cup {"destroyed"}
  BY <1>0, <1>1 DEF Owner
<1>3. CASE refs' # {}
  <2>1. UNCHANGED <<mut, mpc, idx>>
    BY <1>3 DEF Drop
  <2>2. Types' /\ Owner'
    BY <1>0, <1>1, <1>2, <2>1 DEF Types, Owner
  <2>3. (Open' <=> Open) /\ Members' = Members
    BY <1>1, <2>1 DEF Open, Members
  <2>4. Loops' /\ Barred' /\ Parked'
    BY <1>0, <1>1, <2>1, <2>3 DEF Loops, Barred, Parked, Starting
  <2>5. Phases'
    BY <1>0, <1>1, <2>1, <2>3, SamePhase DEF Phases
  <2>6. Flags' /\ Own' /\ Registry'
    BY <1>0, <1>1, <2>1 DEF Flags, Freed, Own, Registry, Unregistered
  <2> QED
    BY <2>2, <2>4, <2>5, <2>6 DEF IInv
<1>4. CASE refs' = {}
  <2>1. mut' = c /\ mpc' = "terminate" /\ idx' = 1
    BY <1>4 DEF Drop
  <2>2. mpc = "none" /\ mut = NoCaller /\ ~Open
    <3>1. mpc \notin InRun
      BY <1>0, <1>1, <1>4 DEF Owner
    <3> QED
      BY <1>0, <1>2, <3>1 DEF Types, Owner, Quiet, Open, InRun, Looping, Starting
  <2>3. ~Open' /\ bar.cond = {}
    BY <1>0, <2>1, <2>2 DEF Open, InRun, Looping, Barred, Starting
  <2>4. Types' /\ Owner'
    BY <1>0, <1>1, <1>4, <2>1, ParAssumption
    DEF Types, Owner, InRun, Looping, Ending, Quiet, Starting
  <2>5. Loops'
    BY <1>0, <1>1, <2>1, <2>2 DEF Loops, InRun, Looping, Ending, Types, Starting
  <2>6. Barred'
    BY <1>1, <2>1, <2>3, ParAssumption DEF Barred, InRun, Looping, Starting
  <2>7. Parked'
    BY <1>0, <1>1, <2>2 DEF Parked, Parking
  <2>8. \A w \in Workers : ~Freed(w)' /\ w \in Nat /\ w >= 1 /\ w < N
    BY <2>1, ParAssumption DEF Freed, Workers, Parking
  <2>9. Phases'
    <3> SUFFICES ASSUME NEW w \in Workers PROVE Phase(w)'
      BY DEF Phases
    <3>1. Phase(w) /\ (Resting(w)' <=> Resting(w))
      BY <1>0, <1>1 DEF Phases, Resting
    <3>2. threads = IF runs = 0 THEN 0 ELSE N - 1
      BY <1>0, <2>2, <2>8, ParAssumption DEF Loops, Starting
    <3>3. w > threads <=> runs = 0
      BY <2>8, <3>2, ParAssumption
    <3>4. ~(w < idx')
      BY <2>1, <2>8
    <3> QED
      BY <1>1, <2>1, <2>2, <2>3, <2>8, <3>1, <3>3, <3>4 DEF Phase, Starting
  <2>10. Flags' /\ Own' /\ Registry'
    BY <1>0, <1>1, <2>1, <2>2, <2>8 DEF Flags, Own, Registry, InRun, Looping, Starting, Unregistered
  <2> QED
    BY <2>4, <2>5, <2>6, <2>7, <2>9, <2>10 DEF IInv
<1> QED
  BY <1>3, <1>4

\* The destructor is done when it has joined every thread.
LEMMA DestroyedStep ==
  ASSUME IInv, Destroyed
  PROVE  IInv'
<1>0. Types /\ Owner /\ Loops /\ Barred /\ Parked /\ Phases /\ Flags /\ Own /\ Registry
  BY DEF IInv
<1>1. /\ mpc = "terminate" /\ idx > threads /\ processChanged' = TRUE
      /\ allThreads' = allThreads \ 1..threads /\ threads' = 0
      /\ mut' = NoCaller /\ mpc' = "destroyed"
      /\ UNCHANGED <<idx, refs, bar, park, running, wpc, runs, executed>>
  BY DEF Destroyed
<1>2. ~Open /\ ~Open' /\ bar.cond = {} /\ mpc \in Ending
  BY <1>0, <1>1 DEF Open, InRun, Looping, Ending, Barred, Starting
<1>3. Types' /\ Owner'
  BY <1>0, <1>1, <1>2 DEF Types, Owner, InRun, Looping, Ending, Quiet, Starting
<1>4. Loops'
  BY <1>1 DEF Loops, InRun, Looping, Ending, Starting
<1>5. Barred'
  BY <1>1, <1>2 DEF Barred, InRun, Looping, Starting
<1>6. Parked'
  BY <1>0, <1>1 DEF Parked, Parking
<1>7. \A w \in Workers : wpc[w] \in {"none", "exited"} /\ executed[w] = runs
  <2> SUFFICES ASSUME NEW w \in Workers PROVE wpc[w] \in {"none", "exited"} /\ executed[w] = runs
    OBVIOUS
  <2>1. Phase(w) /\ w \in Nat /\ threads \in Nat /\ idx \in Nat
    BY <1>0 DEF Phases, Workers, Types
  <2>2. w > threads \/ w < idx
    BY <1>1, <2>1
  <2> QED
    BY <1>2, <2>1, <2>2 DEF Phase, Starting
<1>8. Phases'
  BY <1>1, <1>2, <1>7 DEF Phases, Phase, Ending, Starting
<1>9. Flags' /\ Own'
  BY <1>0, <1>1 DEF Flags, Own, InRun, Looping, Ending, Starting
<1>10. Registry'
  BY <1>0, <1>1, <1>7 DEF Registry, Unregistered
<1> QED
  BY <1>3, <1>4, <1>5, <1>6, <1>8, <1>9, <1>10 DEF IInv

-----------------------------------------------------------------------------
(* The theorems.                                                           *)

\* The mutex, the loops, the barrier, the parks and the phases of the threads
\* agree in every reachable state, for every N, every set of callers and every
\* number of runs.
THEOREM Inductive == Spec => []IInv
<1>1. IInv /\ [Next]_vars => IInv'
  <2> SUFFICES ASSUME IInv, [Next]_vars PROVE IInv'
    OBVIOUS
  <2>1. CASE \E c \in Callers : Begin(c) \/ Drop(c)
    BY <2>1, BeginStep, DropStep
  <2>2. CASE Main
    BY <2>2, StartStep, RegisterStep, RunningStep, ResetStep, TerminateStep, ReleaseStep,
       ReleasedStep, EndLoopStep, OwnStep, SyncBarrierStep, EndStep, JoinStep, DestroyedStep DEF Main
  <2>3. CASE \E w \in Workers : Worker(w)
    BY <2>3, CheckStep, ProcessStep, SyncBarStep, LeaveBarStep, SyncParkStep, LeaveParkStep
    DEF Worker
  <2>4. CASE UNCHANGED vars
    <3>1. Types' /\ Owner' /\ Loops' /\ Own' /\ Registry'
      BY <2>4 DEF IInv, vars, Types, Owner, Loops, Own, Registry, Starting, Unregistered
    <3>2. Open' <=> Open
      BY <2>4 DEF vars, Open
    <3>3. Barred' /\ Parked'
      BY <2>4, <3>2 DEF IInv, vars, Barred, Members, Parked
    <3>4. Phases'
      BY <2>4, <3>2, SamePhase DEF IInv, vars, Phases
    <3>5. Flags'
      BY <2>4 DEF IInv, vars, Flags, Freed
    <3> QED
      BY <3>1, <3>3, <3>4, <3>5 DEF IInv
  <2> QED
    BY <2>1, <2>2, <2>3, <2>4 DEF Next
<1> QED
  BY <1>1, InitInv, PTL DEF Spec

\* No process, a thread's or the caller's, gets ahead of the run or misses one.
THEOREM NobodyAhead == Spec => []NoneRunsAhead
<1>1. IInv => NoneRunsAhead
  <2> SUFFICES ASSUME IInv, N > 0, NEW i \in 1..N
               PROVE  executed[i] <= runs /\ runs <= executed[i] + 1
    BY DEF NoneRunsAhead
  <2>1. executed[i] \in Nat /\ runs \in Nat /\ N \in Nat
    BY ParAssumption DEF IInv, Types
  <2>2. CASE i = N
    BY <2>1, <2>2 DEF IInv, Own
  <2>3. CASE i # N
    <3>1. i \in Workers
      BY <2>1, <2>3 DEF Workers
    <3>2. executed[i] + 1 = runs \/ executed[i] = runs
      BY <3>1 DEF IInv, Phases, Phase, Active, Starting
    <3> QED
      BY <2>1, <3>2
  <2> QED
    BY <2>2, <2>3
<1> QED
  BY <1>1, Inductive, PTL

\* run returns only when every process of the par has completed once more.
THEOREM RunsComplete == Spec => []RunsAreComplete
<1>1. IInv => RunsAreComplete
  <2> SUFFICES ASSUME IInv, mut = NoCaller, N > 0, NEW i \in 1..N PROVE executed[i] = runs
    BY DEF RunsAreComplete
  <2>1. mpc \in Quiet /\ ~Open
    BY DEF IInv, Owner, Quiet, Open, InRun, Looping, Starting
  <2>2. CASE i = N
    BY <2>1, <2>2 DEF IInv, Own, Quiet, Looping, Starting
  <2>3. CASE i # N
    <3>1. i \in Workers
      BY <2>3, ParAssumption DEF Workers
    <3> QED
      BY <2>1, <3>1 DEF IInv, Phases, Phase, Starting
  <2> QED
    BY <2>2, <2>3
<1> QED
  BY <1>1, Inductive, PTL

\* reset and terminate write a thread's fields only while it rests between its
\* barrier and its park, and start finds _running as it sets it.
THEOREM FieldsAreSafe == Spec => []NoRaceOnThread
<1>1. IInv => NoRaceOnThread
  <2>0. ASSUME IInv, mpc = "start_running" PROVE running[idx]
    BY <2>0 DEF IInv, Loops, Flags, InRun, Looping, Starting
  <2> SUFFICES ASSUME IInv, mpc \in {"reset", "terminate"}, idx <= threads
               PROVE  \/ wpc[idx] \in {"park", "parked"}
                      \/ wpc[idx] = "barred" /\ idx \notin bar.cond
    BY <2>0 DEF NoRaceOnThread
  <2>1. idx \in Nat /\ threads \in Nat /\ N \in Nat /\ idx >= 1
    BY ParAssumption DEF IInv, Types, Loops, Starting
  <2>2. threads = 0 \/ threads = N - 1
    BY DEF IInv, Loops, Starting
  <2>3. idx \in Workers
    BY <2>1, <2>2 DEF Workers
  <2>4. ~Freed(idx)
    BY <2>1 DEF Freed, Parking
  <2>5. Phase(idx)
    BY <2>3 DEF IInv, Phases
  <2>6. mpc = "reset" => Open
    BY DEF Open, InRun, Looping, Starting
  <2>7. Resting(idx)
    BY <2>1, <2>4, <2>5, <2>6 DEF Phase, Ending, Starting
  <2> QED
    BY <2>7 DEF Resting
<1> QED
  BY <1>1, Inductive, PTL

\* Between runs nobody waits on the barrier, so reset forgets no waiter.
THEOREM QuietBetweenRuns == Spec => []ResetsQuietBarrier
<1>1. IInv => ResetsQuietBarrier
  BY DEF IInv, ResetsQuietBarrier, Owner, Quiet, Open, InRun, Looping, Barred, Starting
<1> QED
  BY <1>1, Inductive, PTL

\* After the destructor no thread runs and none is registered.
THEOREM NoneLeft == Spec => []NoThreadSurvives
<1>1. IInv => NoThreadSurvives
  BY DEF IInv, NoThreadSurvives, Phases, Phase, Registry, Starting, Unregistered
<1> QED
  BY <1>1, Inductive, PTL
=============================================================================
