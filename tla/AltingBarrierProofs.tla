------------------------- MODULE AltingBarrierProofs -------------------------
(***************************************************************************)
(* Proofs about AltingBarrier, for any set of threads, any finite set of   *)
(* front ends the counters can count and any alts over them.               *)
(***************************************************************************)
EXTENDS AltingBarrier, AltOrderProofs, FiniteSetTheorems

Stages == {"idle", "start", "release", "enable", "finish", "decide", "wait",
           "disable"}

\* The guards an alt can have.
AltGuards == FrontEnds \cup {Timer}

Thread == [pc : Stages, alt : {"own", "sync", "poll"}, offer : Seq(AltGuards),
           state : {"INACTIVE", "ENABLING", "WAITING", "READY"}, pos : Nat,
           sel : Int, todo : Seq(Nat)]

FrontEnd == [home : First \cup {None}, base : First \cup {None, Null},
             joined : BOOLEAN, owned : BOOLEAN, thread : Threads \cup {NoProc},
             alt : Threads \cup {NoProc}]

BaseType == [enrolled : 0..UIntMax, countdown : 0..UIntMax,
             ends : SUBSET FrontEnds, mut : Threads \cup {NoProc}]

-----------------------------------------------------------------------------
(* The inductive invariant.                                                *)

Types ==
    /\ base \in [First -> BaseType] /\ end \in [FrontEnds -> FrontEnd]
    /\ active \in Nat /\ cond \in SUBSET Threads
    /\ th \in [Threads -> Thread]
    /\ static \in [{"sync", "poll"} -> FrontEnds \cup {None}]
    /\ fired \in BOOLEAN

\* Only threads that start an enable wait in the coordinator.
WaitersStarting == \A t \in cond : Starting(t)

\* A thread that is about to release a barrier has it locked, with somebody
\* enrolled.
ReleasersHold ==
    \A t \in Threads : th[t].pc = "release" =>
        /\ th[t].offer[1] \in First
        /\ base[th[t].offer[1]].mut = t /\ base[th[t].offer[1]].enrolled > 0

\* How far a selection is.
ProgressOf(r) ==
    /\ r.pc = "start" => r.pos = 0
    /\ r.pc \in {"start", "enable"} => r.sel = NoneSelected
    /\ r.pc \in {"enable", "finish", "decide"} => r.pos <= Len(r.offer)
    /\ r.pc \in {"finish", "decide"} =>
          \/ r.sel = NoneSelected /\ r.pos = Len(r.offer)
          \/ r.sel = r.pos /\ r.pos < Len(r.offer)
    /\ r.pc \in {"wait", "disable"} =>
          \A i \in 1..Len(r.todo) : r.todo[i] < Len(r.offer)

Progress == \A t \in Threads : ProgressOf(th[t])

\* Front end f is among the guards that a selection has enabled and has not
\* yet disabled.
Registering(r, f) ==
    /\ f # Timer
    /\ r.pc \in {"enable", "finish", "decide", "wait", "disable"}
    /\ r.pc \in {"enable", "finish", "decide"} => \E i \in 1..r.pos : r.offer[i] = f
    /\ r.pc \in {"wait", "disable"} =>
          \E i \in 1..Len(r.todo) : r.offer[r.todo[i] + 1] = f

Registrations ==
    \A f \in FrontEnds : end[f].alt # NoProc => Registering(th[end[f].alt], f)

\* Front end f was made on a base and points to it, unless it was contracted.
Used(f) == end[f].base \in First \cup {Null}

\* Only front ends that have been made are guards.
GuardsMade ==
    /\ \A f \in FrontEnds : Born(f) => Used(f)
    /\ \A a \in {"sync", "poll"} : static[a] # None => Used(static[a])
    /\ \A t \in Threads : th[t].pc \notin {"idle", "release"} =>
          \A i \in 1..Len(th[t].offer) : th[t].offer[i] # Timer => Used(th[t].offer[i])

IInv ==
    /\ Types /\ EnablesExclude /\ WaitersStarting /\ ReleasersHold
    /\ CoordinatorAwake /\ Progress /\ Registrations /\ GuardsMade

-----------------------------------------------------------------------------
(* What steps leave alone.                                                 *)

\* A thread but for its alt's state, which others may change.
Same(r, s) == /\ s.pc = r.pc /\ s.offer = r.offer /\ s.pos = r.pos
              /\ s.sel = r.sel /\ s.todo = r.todo

\* Only thread t moves.
OnlyMoves(t) == \A u \in Threads \ {t} : Same(th[u], th'[u])

\* A locked base belongs to its owner.
LockedKept(t) == \A b \in First : base[b].mut \notin {NoProc, t} => base'[b] = base[b]

\* Front ends keep their base, are contracted or are made on a base.
EndsKept ==
    \A f \in FrontEnds :
        \/ end'[f].home = end[f].home /\ end'[f].base \in {end[f].base, Null}
        \/ end'[f].base \in First

\* What an invariant says of a thread depends on the fields Same compares.
LEMMA SameKept ==
  ASSUME NEW r, NEW s, Same(r, s)
  PROVE  /\ ProgressOf(r) => ProgressOf(s)
         /\ \A f : Registering(r, f) => Registering(s, f)
BY DEF Same, ProgressOf, Registering

\* A thread that goes to another stage is a thread.
LEMMA StageType ==
  ASSUME Types, NEW t \in Threads, NEW k \in Stages
  PROVE  [th EXCEPT ![t].pc = k] \in [Threads -> Thread]
<1>1. th \in [Threads -> Thread] /\ th[t] \in Thread
  BY DEF Types
<1>2. [th[t] EXCEPT !.pc = k] \in Thread
  BY <1>1 DEF Thread
<1>3. [th EXCEPT ![t].pc = k] = [th EXCEPT ![t] = [th[t] EXCEPT !.pc = k]]
  OBVIOUS
<1> QED
  BY <1>1, <1>2, <1>3

\* A front end that is enrolled or resigned is a front end.
LEMMA JoinedType ==
  ASSUME Types, NEW f \in FrontEnds, NEW v \in BOOLEAN
  PROVE  [end EXCEPT ![f].joined = v] \in [FrontEnds -> FrontEnd]
<1>1. end \in [FrontEnds -> FrontEnd] /\ end[f] \in FrontEnd
  BY DEF Types
<1>2. [end[f] EXCEPT !.joined = v] \in FrontEnd
  BY <1>1 DEF FrontEnd
<1>3. [end EXCEPT ![f].joined = v] = [end EXCEPT ![f] = [end[f] EXCEPT !.joined = v]]
  OBVIOUS
<1> QED
  BY <1>1, <1>2, <1>3

\* Guards stay made.
LEMMA GuardsKept ==
  ASSUME Types, Types', GuardsMade, EndsKept, static' = static,
         NEW t \in Threads, OnlyMoves(t),
         th'[t].pc \notin {"idle", "release"} =>
            th[t].pc \notin {"idle", "release"} /\ th'[t].offer = th[t].offer
  PROVE  GuardsMade'
<1>1. \A f \in FrontEnds : Used(f) => Used(f)'
  BY DEF Used, EndsKept
<1>2. \A f \in FrontEnds : Born(f)' => Used(f)'
  BY DEF GuardsMade, Used, EndsKept, Born
<1>3. \A a \in {"sync", "poll"} : static[a] # None => static[a] \in FrontEnds
  BY DEF Types
<1>4. ASSUME NEW a \in {"sync", "poll"}, static'[a] # None PROVE Used(static[a])'
  BY <1>1, <1>3, <1>4 DEF GuardsMade, Used
<1>5. ASSUME NEW u \in Threads, th'[u].pc \notin {"idle", "release"},
             NEW i \in 1..Len(th'[u].offer), th'[u].offer[i] # Timer
      PROVE  Used(th[u].offer[i])'
  <2>1. th[u].pc \notin {"idle", "release"} /\ th'[u].offer = th[u].offer
    BY <1>5 DEF OnlyMoves, Same
  <2>2. th[u] \in Thread
    BY DEF Types
  <2>3. th[u].offer[i] \in FrontEnds
    BY <1>5, <2>1, <2>2 DEF Thread, AltGuards
  <2>4. PICK f \in FrontEnds : f = th[u].offer[i]
    BY <2>3
  <2>5. Used(f)
    BY <1>5, <2>1, <2>4 DEF GuardsMade
  <2> QED
    BY <1>1, <2>1, <2>4, <2>5 DEF Used
<1> QED
  BY <1>2, <1>4, <1>5 DEF GuardsMade

\* The program stops: nothing else changes.
LEMMA StopStep ==
  ASSUME IInv, NEW how, how # "running", Stop(how)
  PROVE  IInv'
BY DEF IInv, Stop, Types, EnablesExclude, WaitersStarting, ReleasersHold,
   CoordinatorAwake, Progress, Registrations, Starting, GuardsMade, Used, Born

\* A step that leaves the coordinator and the threads alone, and registers
\* nothing.
LEMMA QuietStep ==
  ASSUME IInv, Types',
         UNCHANGED <<th, active, cond, static, status>>,
         \A f \in FrontEnds : end'[f].alt \in {end[f].alt, NoProc},
         LockedKept(NoProc), EndsKept
  PROVE  IInv'
<1>1. EnablesExclude' /\ WaitersStarting' /\ CoordinatorAwake' /\ Progress'
  BY DEF IInv, EnablesExclude, WaitersStarting, CoordinatorAwake, Progress, Starting
<1>2. ReleasersHold'
  BY AltingAssumption DEF IInv, ReleasersHold, LockedKept
<1>3. Registrations'
  BY DEF IInv, Registrations
<1>4. GuardsMade'
  <2>1. CASE Threads = {}
    BY <2>1 DEF IInv, Types, GuardsMade, EndsKept, Used, Born
  <2>2. ASSUME NEW t \in Threads PROVE GuardsMade'
    <3>1. OnlyMoves(t)
      BY DEF OnlyMoves, Same
    <3> QED
      BY <3>1, GuardsKept DEF IInv
  <2> QED
    BY <2>1, <2>2
<1> QED
  BY <1>1, <1>2, <1>3, <1>4 DEF IInv

\* A step of thread t from one stage outside the coordinator to another: not
\* to start an enable, not waiting in the coordinator.
LEMMA MoveStep ==
  ASSUME IInv, Types', GuardsMade', NEW t \in Threads, OnlyMoves(t), LockedKept(NoProc),
         UNCHANGED <<active, cond, status>>,
         th[t].pc \notin {"start", "release"},
         th'[t].pc \in {"enable", "finish"} => th[t].pc \in {"enable", "finish"},
         th'[t].pc = "enable" => th[t].pc = "enable",
         th'[t].pc # "release",
         ProgressOf(th'[t]),
         \A f \in FrontEnds :
            /\ end'[f].alt \in {end[f].alt, NoProc, t}
            /\ end'[f].alt = t => Registering(th'[t], f)
  PROVE  IInv'
<1>0. Types /\ EnablesExclude /\ WaitersStarting /\ ReleasersHold
      /\ CoordinatorAwake /\ Progress /\ Registrations
  BY DEF IInv
<1>1. EnablesExclude'
  BY <1>0 DEF EnablesExclude, OnlyMoves, Same
<1>2. WaitersStarting'
  BY <1>0 DEF WaitersStarting, Starting, OnlyMoves, Same, Types
<1>3. CoordinatorAwake'
  BY <1>0 DEF CoordinatorAwake, Starting, OnlyMoves, Same
<1>4. ReleasersHold'
  BY <1>0, AltingAssumption DEF ReleasersHold, LockedKept, OnlyMoves, Same
<1>5. Progress'
  BY <1>0, SameKept DEF Progress, OnlyMoves
<1>6. Registrations'
  BY <1>0, SameKept DEF Registrations, OnlyMoves, Types, FrontEnd
<1> QED
  BY <1>1, <1>2, <1>3, <1>4, <1>5, <1>6 DEF IInv

-----------------------------------------------------------------------------
(* The calls.                                                              *)

\* The counters wrap and stay counters.
LEMMA CounterTypes ==
  /\ \A n \in 0..UIntMax : Inc(n) \in 0..UIntMax /\ Dec(n) \in 0..UIntMax
  /\ \A N \in SUBSET FrontEnds : \A n \in 0..UIntMax :
        (n + Cardinality(N)) % (UIntMax + 1) \in 0..UIntMax
<1>1. \A n \in 0..UIntMax : Inc(n) \in 0..UIntMax /\ Dec(n) \in 0..UIntMax
  BY UIntAssumption DEF Inc, Dec
<1>2. ASSUME NEW N \in SUBSET FrontEnds, NEW n \in 0..UIntMax
      PROVE  (n + Cardinality(N)) % (UIntMax + 1) \in 0..UIntMax
  <2>1. Cardinality(N) \in Nat
    BY AltingAssumption, FS_Subset, FS_CardinalityType
  <2>2. n + Cardinality(N) \in Nat /\ UIntMax + 1 \in Nat \ {0}
    BY <2>1, UIntAssumption
  <2> QED
    BY <2>2, UIntAssumption
<1> QED
  BY <1>1, <1>2

\* enroll adds one to both counters.
LEMMA EnrollStep ==
  ASSUME IInv, NEW t \in Threads, NEW f \in FrontEnds, CallEnroll(t, f)
  PROVE  IInv'
<1>0. Types
  BY DEF IInv
<1>1. end[f].base \in First /\ base[end[f].base].mut = NoProc
  BY DEF CallEnroll, CanCall
<1>2. CASE end[f].joined
  BY <1>2, StopStep DEF CallEnroll
<1>3. CASE ~end[f].joined
  <2>1. /\ end' = [end EXCEPT ![f].joined = TRUE]
        /\ base' = [base EXCEPT ![end[f].base].enrolled = Inc(@),
                                ![end[f].base].countdown = Inc(@)]
        /\ UNCHANGED <<active, cond, th, static, fired, status>>
    BY <1>3 DEF CallEnroll
  <2>2. end' \in [FrontEnds -> FrontEnd]
    BY <1>0, <2>1, JoinedType
  <2>3. base' \in [First -> BaseType]
    <3> DEFINE b == end[f].base
               r == [base[b] EXCEPT !.enrolled = Inc(@), !.countdown = Inc(@)]
    <3>1. base[b] \in BaseType /\ base \in [First -> BaseType]
      BY <1>0, <1>1 DEF Types
    <3>2. r \in BaseType
      BY <3>1, CounterTypes DEF BaseType
    <3>3. base' = [base EXCEPT ![b] = r]
      BY <2>1
    <3> HIDE DEF r
    <3> QED
      BY <3>1, <3>2, <3>3
  <2>4. Types'
    BY <1>0, <2>1, <2>2, <2>3 DEF Types
  <2>5. EndsKept /\ \A g \in FrontEnds : end'[g].alt \in {end[g].alt, NoProc}
    BY <1>0, <2>1 DEF Types, FrontEnd, EndsKept
  <2>6. LockedKept(NoProc)
    BY <1>0, <1>1, <2>1 DEF Types, LockedKept
  <2> QED
    BY <2>1, <2>4, <2>5, <2>6, QuietStep
<1> QED
  BY <1>2, <1>3

\* mark makes the caller the front end's thread.
LEMMA MarkStep ==
  ASSUME IInv, NEW t \in Threads, NEW f \in FrontEnds, CallMark(t, f)
  PROVE  IInv'
<1>0. Types
  BY DEF IInv
<1>1. CASE ~end[f].joined
  BY <1>1, StopStep DEF CallMark
<1>2. CASE end[f].joined
  <2>1. /\ end' = [end EXCEPT ![f].thread = t]
        /\ UNCHANGED <<base, active, cond, th, static, fired, status>>
    BY <1>2 DEF CallMark
  <2>2. Types'
    BY <1>0, <2>1 DEF Types, FrontEnd
  <2>3. EndsKept /\ \A g \in FrontEnds : end'[g].alt \in {end[g].alt, NoProc}
    BY <1>0, <2>1 DEF Types, FrontEnd, EndsKept
  <2> QED
    BY <2>1, <2>2, <2>3, QuietStep DEF LockedKept
<1> QED
  BY <1>1, <1>2

\* Claiming a front end keeps its registration.
LEMMA ClaimedType ==
  ASSUME NEW e \in FrontEnd, NEW t \in Threads
  PROVE  /\ Claimed(e, t) \in FrontEnd /\ Claimed(e, t).alt = e.alt
         /\ Claimed(e, t).base = e.base /\ Claimed(e, t).home = e.home
BY DEF Claimed, FrontEnd

\* expand adds front ends nobody has registered with.
LEMMA ExpandStep ==
  ASSUME IInv, NEW t \in Threads, NEW f \in FrontEnds,
         NEW N \in SUBSET FrontEnds, CallExpand(t, f, N)
  PROVE  IInv'
<1>0. Types /\ end[f] \in FrontEnd
  BY DEF IInv, Types
<1>1. /\ end[f].base \in First /\ base[end[f].base].mut = NoProc
      /\ UNCHANGED <<active, cond, th, static, fired, status>>
  BY DEF CallExpand, CanCall
<1>2. CASE ~end[f].joined
  <2>1. end' = [end EXCEPT ![f] = Claimed(end[f], t)] /\ base' = base
    BY <1>2 DEF CallExpand
  <2>2. Types'
    BY <1>0, <1>1, <2>1, ClaimedType DEF Types
  <2>3. EndsKept /\ \A g \in FrontEnds : end'[g].alt \in {end[g].alt, NoProc}
    BY <1>0, <2>1, ClaimedType DEF Types, EndsKept
  <2> QED
    BY <1>1, <2>1, <2>2, <2>3, QuietStep DEF LockedKept
<1>3. CASE end[f].joined
  <2> DEFINE b == end[f].base
  <2>1. /\ end' = [g \in FrontEnds |-> CASE g \in N -> NewEnd(b)
                                        [] g = f   -> Claimed(end[f], t)
                                        [] OTHER   -> end[g]]
        /\ base' = [base EXCEPT ![b] = Expanded(base[b], N)]
    BY <1>3 DEF CallExpand
  <2>2. \A g \in FrontEnds : end'[g] \in {NewEnd(b), end[g]} \/ (g = f /\ end'[g] = Claimed(end[f], t))
    BY <2>1
  <2>3. NewEnd(b) \in FrontEnd /\ NewEnd(b).alt = NoProc /\ NewEnd(b).base \in First
    BY <1>1 DEF NewEnd, FrontEnd
  <2>4. end' \in [FrontEnds -> FrontEnd]
    <3>1. \A g \in FrontEnds : end'[g] \in FrontEnd
      BY <1>0, <2>2, <2>3, ClaimedType DEF Types
    <3>2. end' = [g \in FrontEnds |-> end'[g]]
      BY <2>1
    <3> QED
      BY <3>1, <3>2
  <2>5. Expanded(base[b], N) \in BaseType
    <3>1. base[b] \in BaseType
      BY <1>0, <1>1 DEF Types
    <3> QED
      BY <3>1, CounterTypes DEF Expanded, BaseType
  <2>6. base' \in [First -> BaseType]
    BY <1>0, <2>1, <2>5 DEF Types
  <2>7. Types'
    BY <1>0, <1>1, <2>4, <2>6 DEF Types
  <2>8. EndsKept /\ \A g \in FrontEnds : end'[g].alt \in {end[g].alt, NoProc}
    BY <1>0, <2>2, <2>3, ClaimedType DEF EndsKept
  <2>9. LockedKept(NoProc)
    BY <1>0, <1>1, <2>1 DEF Types, LockedKept
  <2> QED
    BY <1>1, <2>7, <2>8, <2>9, QuietStep
<1> QED
  BY <1>2, <1>3

\* contract(V) takes front ends off the base and throws.
LEMMA ContractAllStep ==
  ASSUME IInv, NEW t \in Threads, NEW f \in FrontEnds,
         NEW V \in SUBSET FrontEnds, CallContractAll(t, f, V)
  PROVE  IInv'
<1> DEFINE b == end[f].base
           found == V \cap base[b].ends
<1>0. Types
  BY DEF IInv
<1>1. b \in First /\ base[b].mut = NoProc
  BY DEF CallContractAll, CanContract, CanCall
<1>2. CASE Dangling(b, found)
  BY <1>2, StopStep DEF CallContractAll
<1>3. CASE ~Dangling(b, found)
  <2>1. /\ end' = [g \in FrontEnds |-> IF g \in found THEN [end[g] EXCEPT !.base = Null]
                                       ELSE end[g]]
        /\ base' = [base EXCEPT ![b].ends = @ \ found]
        /\ UNCHANGED <<active, cond, th, static, fired, status>>
    BY <1>3 DEF CallContractAll
  <2>2. Types'
    <3>1. end' \in [FrontEnds -> FrontEnd]
      <4>1. \A g \in FrontEnds : end[g] \in FrontEnd
        BY <1>0 DEF Types
      <4>2. \A g \in FrontEnds : [end[g] EXCEPT !.base = Null] \in FrontEnd
        BY <4>1 DEF FrontEnd
      <4> QED
        BY <2>1, <4>1, <4>2
    <3>2. base' \in [First -> BaseType]
      <4>1. base[b] \in BaseType /\ base \in [First -> BaseType]
        BY <1>0, <1>1 DEF Types
      <4>2. [base[b] EXCEPT !.ends = @ \ found] \in BaseType
        BY <4>1 DEF BaseType
      <4>3. base' = [base EXCEPT ![b] = [base[b] EXCEPT !.ends = @ \ found]]
        BY <2>1
      <4> QED
        BY <4>1, <4>2, <4>3
    <3> QED
      BY <1>0, <2>1, <3>1, <3>2 DEF Types
  <2>3. EndsKept /\ \A g \in FrontEnds : end'[g].alt \in {end[g].alt, NoProc}
    BY <1>0, <2>1 DEF Types, FrontEnd, EndsKept
  <2>4. LockedKept(NoProc)
    BY <1>0, <1>1, <2>1 DEF Types, LockedKept
  <2> QED
    BY <2>1, <2>2, <2>3, <2>4, QuietStep
<1> QED
  BY <1>2, <1>3

\* A base that shrinks stays as it is, or its last thread goes on to release
\* it and has it locked.
LEMMA ShrunkStep ==
  ASSUME IInv, NEW t \in Threads, NEW b \in First, NEW rec \in BaseType,
         NEW complete \in BOOLEAN, Shrunk(t, b, rec, complete),
         base[b].mut = NoProc, rec.mut = NoProc, th[t].pc = "idle",
         end' \in [FrontEnds -> FrontEnd], EndsKept,
         \A f \in FrontEnds : end'[f].alt \in {end[f].alt, NoProc},
         UNCHANGED <<active, cond, static, fired, status>>
  PROVE  IInv'
<1> DEFINE r == IF complete THEN [rec EXCEPT !.countdown = rec.enrolled] ELSE rec
           w == complete /\ rec.enrolled > 0
<1>0. Types /\ EnablesExclude /\ WaitersStarting /\ ReleasersHold
      /\ CoordinatorAwake /\ Progress /\ Registrations
  BY DEF IInv
<1>1. /\ base' = [base EXCEPT ![b] = IF w THEN [r EXCEPT !.mut = t] ELSE r]
      /\ th' = IF w THEN [th EXCEPT ![t].pc = "release", ![t].offer = <<b>>] ELSE th
  BY DEF Shrunk
<1>2. r \in BaseType /\ r.enrolled = rec.enrolled /\ r.mut = NoProc
  BY DEF BaseType
<1>3. LockedKept(NoProc)
  BY <1>0, <1>1 DEF Types, LockedKept
<1> HIDE DEF r
<1>4. CASE ~w
  <2>1. base' = [base EXCEPT ![b] = r] /\ th' = th
    BY <1>1, <1>4
  <2>2. Types'
    BY <1>0, <1>2, <2>1 DEF Types
  <2> QED
    BY <1>3, <2>1, <2>2, QuietStep
<1>5. CASE w
  <2>1. /\ base' = [base EXCEPT ![b] = [r EXCEPT !.mut = t]]
        /\ th' = [th EXCEPT ![t].pc = "release", ![t].offer = <<b>>]
    BY <1>1, <1>5
  <2>2. base' \in [First -> BaseType] /\ base'[b].mut = t /\ base'[b].enrolled > 0
    BY <1>0, <1>2, <1>5, <2>1 DEF Types, BaseType
  <2>3. th' \in [Threads -> Thread]
    <3>1. <<b>> \in Seq(AltGuards)
      BY AltingAssumption DEF AltGuards
    <3>2. th[t] \in Thread
      BY <1>0 DEF Types
    <3>3. [th[t] EXCEPT !.pc = "release", !.offer = <<b>>] \in Thread
      BY <3>1, <3>2 DEF Thread, Stages
    <3>4. th' = [th EXCEPT ![t] = [th[t] EXCEPT !.pc = "release", !.offer = <<b>>]]
      BY <2>1
    <3> QED
      BY <1>0, <3>3, <3>4 DEF Types
  <2>4. /\ th'[t].pc = "release" /\ th'[t].offer = <<b>> /\ th'[t].offer[1] = b
        /\ OnlyMoves(t)
    BY <1>0, <2>1 DEF Types, OnlyMoves, Same, Thread
  <2>5. Types'
    BY <1>0, <2>2, <2>3 DEF Types
  <2>6. EnablesExclude'
    BY <1>0, <2>4 DEF EnablesExclude, OnlyMoves, Same
  <2>7. WaitersStarting' /\ CoordinatorAwake'
    BY <1>0, <2>4 DEF WaitersStarting, CoordinatorAwake, Starting, OnlyMoves, Same, Types
  <2>8. ReleasersHold'
    BY <1>0, <1>3, <2>2, <2>4, AltingAssumption
       DEF ReleasersHold, OnlyMoves, Same, LockedKept
  <2>9. Progress'
    BY <1>0, <2>4, SameKept DEF Progress, OnlyMoves, ProgressOf
  <2>10. Registrations'
    <3> SUFFICES ASSUME NEW f \in FrontEnds, end'[f].alt # NoProc
                 PROVE  Registering(th'[end'[f].alt], f)
      BY DEF Registrations
    <3>1. end'[f].alt = end[f].alt /\ end[f].alt \in Threads
      BY <1>0 DEF Types, FrontEnd
    <3>2. Registering(th[end[f].alt], f) /\ end[f].alt # t
      BY <1>0, <3>1 DEF Registrations, Registering
    <3> QED
      BY <2>4, <3>1, <3>2, SameKept DEF OnlyMoves
  <2>11. GuardsMade'
    BY <2>4, <2>5, GuardsKept DEF IInv
  <2> QED
    BY <2>5, <2>6, <2>7, <2>8, <2>9, <2>10, <2>11 DEF IInv
<1> QED
  BY <1>4, <1>5

\* resign.
LEMMA ResignStep ==
  ASSUME IInv, NEW t \in Threads, NEW f \in FrontEnds, CallResign(t, f)
  PROVE  IInv'
<1> DEFINE b == end[f].base
           r == [base[b] EXCEPT !.enrolled = Dec(@), !.countdown = Dec(@)]
<1>0. Types
  BY DEF IInv
<1>1. b \in First /\ base[b].mut = NoProc /\ th[t].pc = "idle"
  BY DEF CallResign, CanCall
<1>2. CASE ~end[f].joined
  BY <1>2, StopStep DEF CallResign
<1>3. CASE end[f].joined
  <2>1. /\ end' = [end EXCEPT ![f].joined = FALSE]
        /\ Shrunk(t, b, r, r.countdown # 0)
        /\ UNCHANGED <<active, cond, static, fired, status>>
    BY <1>3 DEF CallResign
  <2>2. base[b] \in BaseType
    BY <1>0, <1>1 DEF Types
  <2>3. r \in BaseType /\ r.mut = NoProc
    BY <1>1, <2>2, CounterTypes DEF BaseType
  <2>4. end' \in [FrontEnds -> FrontEnd]
    BY <1>0, <2>1, JoinedType
  <2>5. EndsKept /\ \A g \in FrontEnds : end'[g].alt \in {end[g].alt, NoProc}
    BY <1>0, <2>1 DEF Types, FrontEnd, EndsKept
  <2> HIDE DEF r, b
  <2>6. (r.countdown # 0) \in BOOLEAN
    OBVIOUS
  <2> QED
    BY <1>1, <2>1, <2>3, <2>4, <2>5, <2>6, ShrunkStep
<1> QED
  BY <1>2, <1>3

\* contract.
LEMMA ContractStep ==
  ASSUME IInv, NEW t \in Threads, NEW f \in FrontEnds, CallContract(t, f)
  PROVE  IInv'
<1> DEFINE b == end[f].base
<1>0. Types
  BY DEF IInv
<1>1. b \in First /\ base[b].mut = NoProc /\ th[t].pc = "idle"
  BY DEF CallContract, CanContract, CanCall
<1>2. CASE Dangling(b, {f})
  BY <1>2, StopStep DEF CallContract
<1>3. CASE ~Dangling(b, {f})
  <2>1. /\ end' = [end EXCEPT ![f].base = Null]
        /\ Shrunk(t, b, base[b], base[b].countdown = 0)
        /\ UNCHANGED <<active, cond, static, fired, status>>
    BY <1>3 DEF CallContract
  <2>2. base[b] \in BaseType
    BY <1>0, <1>1 DEF Types
  <2>3. end' \in [FrontEnds -> FrontEnd]
    BY <1>0, <2>1 DEF Types, FrontEnd
  <2>4. EndsKept /\ \A g \in FrontEnds : end'[g].alt \in {end[g].alt, NoProc}
    BY <1>0, <2>1 DEF Types, FrontEnd, EndsKept
  <2> HIDE DEF b
  <2>5. (base[b].countdown = 0) \in BOOLEAN
    OBVIOUS
  <2> QED
    BY <1>1, <2>1, <2>2, <2>3, <2>4, <2>5, ShrunkStep
<1> QED
  BY <1>2, <1>3

\* A select begins, with an alt of its own or with a static one.
LEMMA SelectStep ==
  ASSUME IInv, NEW t \in Threads, NEW a \in {"own", "sync", "poll"},
         NEW o \in Seq(AltGuards), th[t].pc = "idle",
         th' = [th EXCEPT ![t] = Selection(a, o)],
         static' \in [{"sync", "poll"} -> FrontEnds \cup {None}], fired' \in BOOLEAN,
         UNCHANGED <<base, end, active, cond, status>>,
         \A i \in 1..Len(o) : o[i] # Timer => Used(o[i]),
         \A c \in {"sync", "poll"} : static'[c] # None => Used(static'[c])
  PROVE  IInv'
<1>0. Types /\ Registrations
  BY DEF IInv
<1>1. /\ Selection(a, o) \in Thread /\ Selection(a, o).pc = "start"
      /\ ProgressOf(Selection(a, o))
  BY DEF Selection, Thread, Stages, NoneSelected, ProgressOf
<1>2. th'[t] = Selection(a, o) /\ OnlyMoves(t)
  BY <1>0 DEF Types, OnlyMoves, Same
<1>3. Types'
  BY <1>0, <1>1 DEF Types
<1>4. \A f \in FrontEnds : end'[f].alt # t
  BY <1>0, AltingAssumption DEF Registrations, Registering
<1>5. GuardsMade'
  <2>1. /\ \A f \in FrontEnds : Born(f)' => Used(f)'
        /\ \A c \in {"sync", "poll"} : static'[c] # None => Used(static[c])'
    BY DEF IInv, GuardsMade, Used, Born
  <2>2. \A u \in Threads \ {t} : th'[u].pc \notin {"idle", "release"} =>
          \A i \in 1..Len(th'[u].offer) : th'[u].offer[i] # Timer => Used(th[u].offer[i])'
    BY <1>2 DEF IInv, GuardsMade, Used, OnlyMoves, Same
  <2>3. \A i \in 1..Len(th'[t].offer) : th'[t].offer[i] # Timer => Used(th[t].offer[i])'
    <3>1. th'[t].offer = o
      BY <1>2 DEF Selection
    <3> QED
      BY <3>1 DEF Used
  <2> QED
    BY <2>1, <2>2, <2>3 DEF GuardsMade
<1> QED
  BY <1>1, <1>2, <1>3, <1>4, <1>5, MoveStep DEF LockedKept

\* Every call keeps the invariant.
LEMMA CallStep ==
  ASSUME IInv, NEW t \in Threads, Call(t)
  PROVE  IInv'
<1>0. Types
  BY DEF IInv
<1>1. ASSUME NEW o \in Offers, CallSelect(t, o) PROVE IInv'
  <2>1. o \in Seq(AltGuards)
    BY AltingAssumption DEF AltGuards
  <2>2. \A i \in 1..Len(o) : Used(o[i])
    BY <1>1 DEF CallSelect, Used
  <2>3. /\ static' \in [{"sync", "poll"} -> FrontEnds \cup {None}] /\ fired' \in BOOLEAN
        /\ \A c \in {"sync", "poll"} : static'[c] # None => Used(static'[c])
    BY <1>0, <1>1 DEF CallSelect, Types, IInv, GuardsMade
  <2> QED
    BY <1>1, <2>1, <2>2, <2>3, SelectStep DEF CallSelect
<1>2. ASSUME NEW f \in FrontEnds, NEW a \in {"sync", "poll"}, CallStatic(t, f, a)
      PROVE  IInv'
  <2> DEFINE g == IF static[a] = None THEN f ELSE static[a]
             o == IF a = "poll" THEN <<g, Timer>> ELSE <<g>>
  <2>1. CASE \E u \in Threads : th[u].alt = a
    BY <1>2, <2>1, StopStep DEF CallStatic
  <2>2. CASE ~ \E u \in Threads : th[u].alt = a
    <3>1. /\ th[t].pc = "idle" /\ static' = [static EXCEPT ![a] = g]
          /\ th' = [th EXCEPT ![t] = Selection(a, o)]
          /\ fired' = IF a = "poll" /\ g = f THEN FALSE ELSE fired
          /\ UNCHANGED <<base, end, active, cond, status>>
      BY <1>2, <2>2 DEF CallStatic
    <3>2. g \in FrontEnds /\ g \in AltGuards /\ Timer \in AltGuards
      BY <1>0, <1>2 DEF Types, AltGuards
    <3>3. Used(g)
      BY <1>2 DEF CallStatic, IInv, GuardsMade
    <3> HIDE DEF g
    <3>4. o \in Seq(AltGuards) /\ \A i \in 1..Len(o) : o[i] # Timer => Used(o[i])
      BY <3>2, <3>3
    <3>5. static' \in [{"sync", "poll"} -> FrontEnds \cup {None}]
      BY <1>0, <3>1, <3>2 DEF Types
    <3>6. \A c \in {"sync", "poll"} : static'[c] # None => Used(static'[c])
      BY <1>0, <3>1, <3>3 DEF Types, IInv, GuardsMade
    <3>7. fired' \in BOOLEAN
      BY <1>0, <3>1 DEF Types
    <3> HIDE DEF o
    <3> QED
      BY <3>1, <3>4, <3>5, <3>7, <3>6, SelectStep
  <2> QED
    BY <2>1, <2>2
<1> QED
  BY <1>1, <1>2, EnrollStep, MarkStep, ResignStep, ContractStep, ExpandStep,
     ContractAllStep DEF Call

\* A thread that moves on with a new record after a schedule, which moves
\* nobody, or without one.
LEMMA MovedFrom ==
  ASSUME NEW q \in [Threads -> Thread], \A u \in Threads : Same(th[u], q[u]),
         NEW t \in Threads, NEW r \in Thread, th' = [q EXCEPT ![t] = r]
  PROVE  th' \in [Threads -> Thread] /\ OnlyMoves(t) /\ th'[t] = r
<1>1. th' \in [Threads -> Thread] /\ th'[t] = r
  OBVIOUS
<1>2. \A u \in Threads \ {t} : th'[u] = q[u]
  OBVIOUS
<1> QED
  BY <1>1, <1>2 DEF OnlyMoves

\* The same without a schedule.
LEMMA Moved ==
  ASSUME Types, NEW t \in Threads, NEW r \in Thread, th' = [th EXCEPT ![t] = r]
  PROVE  th' \in [Threads -> Thread] /\ OnlyMoves(t) /\ th'[t] = r
BY DEF Types, OnlyMoves, Same

-----------------------------------------------------------------------------
(* The coordinator.                                                        *)

\* A thread starts to wait while somebody is active.
LEMMA AwaitStep ==
  ASSUME IInv, NEW t \in Threads, AwaitInactive(t)
  PROVE  IInv'
<1>1. /\ Starting(t) /\ active > 0 /\ cond' = cond \cup {t}
      /\ UNCHANGED <<base, end, active, th, static, fired, status>>
  BY DEF AwaitInactive
<1>2. Types' /\ EnablesExclude' /\ ReleasersHold' /\ Progress' /\ Registrations'
      /\ GuardsMade'
  BY <1>1 DEF IInv, Types, EnablesExclude, ReleasersHold, Progress, Registrations,
     GuardsMade, Used, Born
<1>3. WaitersStarting' /\ CoordinatorAwake'
  BY <1>1 DEF IInv, WaitersStarting, CoordinatorAwake, Starting
<1> QED
  BY <1>2, <1>3 DEF IInv

\* An alt starts: nobody was active, so nobody else enables.
LEMMA StartStep ==
  ASSUME IInv, NEW t \in Threads, StartEnable(t)
  PROVE  IInv'
<1>0. Types /\ EnablesExclude /\ WaitersStarting /\ ReleasersHold
      /\ CoordinatorAwake /\ Progress /\ Registrations
  BY DEF IInv
<1>1. /\ status = "running" /\ th[t].pc = "start" /\ t \notin cond /\ active = 0
      /\ active' = 1 /\ th' = [th EXCEPT ![t].pc = "enable"]
      /\ UNCHANGED <<base, end, cond, static, fired, status>>
  BY DEF StartEnable
<1>2. th' \in [Threads -> Thread]
  BY <1>0, <1>1, StageType DEF Stages
<1>3. Types'
  BY <1>0, <1>1, <1>2 DEF Types
<1>4. /\ OnlyMoves(t) /\ th'[t].pc = "enable" /\ th'[t].pos = th[t].pos
      /\ th'[t].sel = th[t].sel /\ th'[t].offer = th[t].offer
  BY <1>0, <1>1 DEF Types, Thread, OnlyMoves, Same
<1>5. EnablesExclude'
  BY <1>0, <1>1, <1>4 DEF EnablesExclude, OnlyMoves, Same
<1>6. WaitersStarting' /\ CoordinatorAwake'
  BY <1>0, <1>1, <1>4 DEF WaitersStarting, CoordinatorAwake, Starting, OnlyMoves, Same, Types
<1>7. ReleasersHold'
  BY <1>0, <1>1, <1>4 DEF ReleasersHold, OnlyMoves, Same
<1>8. ProgressOf(th'[t])
  <2>1. ProgressOf(th[t]) /\ th[t] \in Thread
    BY <1>0 DEF Progress, Types
  <2> QED
    BY <1>1, <1>4, <2>1 DEF ProgressOf, Thread
<1>9. Progress'
  BY <1>0, <1>4, <1>8, SameKept DEF Progress, OnlyMoves
<1>10. Registrations'
  <2> SUFFICES ASSUME NEW f \in FrontEnds, end[f].alt # NoProc
               PROVE  Registering(th'[end[f].alt], f)
    BY <1>1 DEF Registrations
  <2>1. end[f].alt \in Threads /\ Registering(th[end[f].alt], f)
    BY <1>0 DEF Registrations, Types, FrontEnd
  <2>2. end[f].alt # t
    BY <1>1, <2>1 DEF Registering
  <2> QED
    BY <1>4, <2>1, <2>2, SameKept DEF OnlyMoves
<1>11. GuardsMade'
  BY <1>1, <1>3, <1>4, GuardsKept DEF IInv, EndsKept
<1> QED
  BY <1>3, <1>5, <1>6, <1>7, <1>9, <1>10, <1>11 DEF IInv

\* schedule of every front end of a base moves nobody.
LEMMA ScheduledSame ==
  ASSUME Types, NEW b
  PROVE  /\ Scheduled(b) \in [Threads -> Thread]
         /\ \A u \in Threads : Same(th[u], Scheduled(b)[u])
<1>1. \A u \in Threads : th[u] \in Thread
  BY DEF Types
<1>2. \A u \in Threads : /\ [th[u] EXCEPT !.state = "READY"] \in Thread
                         /\ Same(th[u], [th[u] EXCEPT !.state = "READY"])
  BY <1>1 DEF Thread, Same
<1> QED
  BY <1>1, <1>2 DEF Scheduled, Same

\* resign or contract releases the others: somebody is active then.
LEMMA ReleaseStep ==
  ASSUME IInv, NEW t \in Threads, Release(t)
  PROVE  IInv'
<1> DEFINE b == th[t].offer[1]
<1>0. Types /\ EnablesExclude /\ WaitersStarting /\ ReleasersHold
      /\ CoordinatorAwake /\ Progress /\ Registrations
  BY DEF IInv
<1>1. /\ status = "running" /\ th[t].pc = "release" /\ t \notin cond /\ active = 0
      /\ active' = base[b].enrolled /\ base' = [base EXCEPT ![b].mut = NoProc]
      /\ th' = [Scheduled(b) EXCEPT ![t] = IdleThread]
      /\ UNCHANGED <<end, cond, static, fired, status>>
  BY DEF Release
<1>2. b \in First /\ base[b].mut = t /\ base[b].enrolled > 0 /\ base[b].enrolled \in Nat
  <2>1. b \in First /\ base[b].mut = t /\ base[b].enrolled > 0
    BY <1>0, <1>1 DEF ReleasersHold
  <2>2. base[b] \in BaseType
    BY <1>0, <2>1 DEF Types
  <2> QED
    BY <2>1, <2>2, UIntAssumption DEF BaseType
<1> HIDE DEF b
<1>3. IdleThread \in Thread /\ IdleThread.pc = "idle"
  BY DEF IdleThread, Thread, Stages, NoneSelected
<1>4. /\ th' \in [Threads -> Thread] /\ OnlyMoves(t) /\ th'[t].pc = "idle"
  BY <1>0, <1>1, <1>3, ScheduledSame, MovedFrom
<1>5. base' \in [First -> BaseType]
  BY <1>0, <1>1, <1>2 DEF Types, BaseType
<1>6. Types'
  BY <1>0, <1>1, <1>2, <1>4, <1>5 DEF Types
<1>7. EnablesExclude'
  BY <1>0, <1>1, <1>4 DEF EnablesExclude, OnlyMoves, Same
<1>8. WaitersStarting' /\ CoordinatorAwake'
  BY <1>0, <1>1, <1>2, <1>4
     DEF WaitersStarting, CoordinatorAwake, Starting, OnlyMoves, Same, Types
<1>9. ReleasersHold'
  <2> SUFFICES ASSUME NEW u \in Threads, th'[u].pc = "release"
               PROVE  /\ th'[u].offer[1] \in First
                      /\ base'[th'[u].offer[1]].mut = u /\ base'[th'[u].offer[1]].enrolled > 0
    BY DEF ReleasersHold
  <2>1. u # t /\ th[u].pc = "release" /\ th'[u].offer = th[u].offer
    BY <1>4 DEF OnlyMoves, Same
  <2>2. /\ th[u].offer[1] \in First /\ base[th[u].offer[1]].mut = u
        /\ base[th[u].offer[1]].enrolled > 0
    BY <1>0, <2>1 DEF ReleasersHold
  <2>3. th[u].offer[1] # b
    BY <1>2, <2>1, <2>2
  <2> QED
    BY <1>0, <1>1, <2>1, <2>2, <2>3 DEF Types
<1>10. Progress'
  BY <1>0, <1>4, SameKept DEF Progress, OnlyMoves, ProgressOf
<1>11. Registrations'
  <2> SUFFICES ASSUME NEW f \in FrontEnds, end[f].alt # NoProc
               PROVE  Registering(th'[end[f].alt], f)
    BY <1>1 DEF Registrations
  <2>1. end[f].alt \in Threads /\ Registering(th[end[f].alt], f)
    BY <1>0 DEF Registrations, Types, FrontEnd
  <2>2. end[f].alt # t
    BY <1>1, <2>1 DEF Registering
  <2> QED
    BY <1>4, <2>1, <2>2, SameKept DEF OnlyMoves
<1>12. GuardsMade'
  BY <1>1, <1>4, <1>6, GuardsKept DEF IInv, EndsKept
<1> QED
  BY <1>6, <1>7, <1>8, <1>9, <1>10, <1>11, <1>12 DEF IInv

\* The active alt finishes and notifies one that waits to start.
LEMMA FinishStep ==
  ASSUME IInv, NEW t \in Threads, FinishEnable(t)
  PROVE  IInv'
<1>0. Types /\ EnablesExclude /\ WaitersStarting /\ ReleasersHold
      /\ CoordinatorAwake /\ Progress /\ Registrations
  BY DEF IInv
<1>1. status = "running" /\ th[t].pc = "finish"
  BY DEF FinishEnable
<1>2. CASE active # 1
  BY <1>2, StopStep DEF FinishEnable
<1>3. CASE active = 1
  <2>1. /\ active' = 0 /\ cond' \in NotifyOne(cond)
        /\ th' = [th EXCEPT ![t].pc = "decide"]
        /\ UNCHANGED <<base, end, static, fired, status>>
    BY <1>3 DEF FinishEnable
  <2>2. th' \in [Threads -> Thread]
    BY <1>0, <2>1, StageType DEF Stages
  <2>3. /\ cond' \subseteq cond
        /\ cond # {} => \E u \in cond : cond' = cond \ {u}
    BY <2>1 DEF NotifyOne
  <2>4. Types'
    BY <1>0, <2>1, <2>2, <2>3 DEF Types
  <2>5. /\ OnlyMoves(t) /\ th'[t].pc = "decide" /\ th'[t].pos = th[t].pos
        /\ th'[t].sel = th[t].sel /\ th'[t].offer = th[t].offer /\ th'[t].todo = th[t].todo
    BY <1>0, <2>1 DEF Types, Thread, OnlyMoves, Same
  <2>6. EnablesExclude'
    BY <1>0, <1>1, <2>1, <2>5 DEF EnablesExclude, OnlyMoves, Same
  <2>7. WaitersStarting'
    BY <1>0, <1>1, <2>3, <2>5 DEF WaitersStarting, Starting, OnlyMoves, Same, Types
  <2>8. CoordinatorAwake'
    <3> SUFFICES ASSUME cond' # {}
                 PROVE  \E u \in Threads \ cond' : Starting(u)'
      BY DEF CoordinatorAwake
    <3>1. PICK u \in cond : cond' = cond \ {u}
      BY <2>3
    <3>2. u \in Threads \ cond' /\ Starting(u) /\ u # t
      BY <1>0, <1>1, <3>1 DEF WaitersStarting, Types, Starting
    <3> QED
      BY <2>5, <3>2 DEF Starting, OnlyMoves, Same
  <2>9. ReleasersHold'
    BY <1>0, <2>1, <2>5 DEF ReleasersHold, OnlyMoves, Same
  <2>10. Progress'
    BY <1>0, <1>1, <2>5, SameKept DEF Progress, OnlyMoves, ProgressOf
  <2>11. Registrations'
    <3>1. \A f : Registering(th[t], f) => Registering(th'[t], f)
      BY <1>1, <2>5 DEF Registering
    <3> QED
      BY <1>0, <2>1, <2>5, <3>1, SameKept DEF Registrations, OnlyMoves, Types, FrontEnd
  <2>12. GuardsMade'
    BY <1>1, <2>1, <2>4, <2>5, GuardsKept DEF IInv, EndsKept
  <2> QED
    BY <2>4, <2>6, <2>7, <2>8, <2>9, <2>10, <2>11, <2>12 DEF IInv
<1> QED
  BY <1>2, <1>3

-----------------------------------------------------------------------------
(* A selection.                                                            *)

\* A step to the next guard keeps what was registered before it.
LEMMA RegisteringNext ==
  ASSUME NEW r \in Thread, NEW s \in Thread, NEW f,
         r.pc \in {"enable", "finish", "decide"}, s.pc \in {"enable", "finish", "decide"},
         s.offer = r.offer, s.pos = r.pos \/ s.pos = r.pos + 1, Registering(r, f)
  PROVE  Registering(s, f)
<1>1. r.pos \in Nat /\ s.pos \in Nat
  BY DEF Thread
<1>2. PICK i \in 1..r.pos : r.offer[i] = f
  BY DEF Registering
<1>3. i \in 1..s.pos /\ s.offer[i] = f
  BY <1>1, <1>2
<1> QED
  BY <1>3 DEF Registering

\* enable_guards goes on to the next guard or finishes, and does nothing else.
LEMMA EnableMove ==
  ASSUME IInv, NEW t \in Threads, NEW s \in Thread, th[t].pc = "enable",
         th' = [th EXCEPT ![t] = s], s.offer = th[t].offer,
         s.pos = th[t].pos \/ s.pos = th[t].pos + 1, s.pc \in {"enable", "finish"},
         ProgressOf(s), UNCHANGED <<base, end, active, cond, static, fired, status>>
  PROVE  IInv'
<1>0. Types /\ Registrations /\ GuardsMade /\ th[t] \in Thread
  BY DEF IInv, Types
<1>1. th' \in [Threads -> Thread] /\ OnlyMoves(t) /\ th'[t] = s
  BY <1>0, Moved
<1>2. Types'
  BY <1>0, <1>1 DEF Types
<1>3. \A f \in FrontEnds : end[f].alt = t => Registering(s, f)
  BY <1>0, RegisteringNext, AltingAssumption DEF Registrations
<1>4. GuardsMade'
  BY <1>0, <1>1, <1>2, GuardsKept DEF EndsKept
<1> QED
  BY <1>1, <1>2, <1>3, <1>4, MoveStep DEF LockedKept

\* A thread that enables and has guards left.
LEMMA Enabling ==
  ASSUME IInv, NEW t \in Threads, th[t].pc = "enable"
  PROVE  /\ th[t] \in Thread /\ th[t].pos \in Nat /\ Len(th[t].offer) \in Nat
         /\ th[t].sel = NoneSelected /\ th[t].pos <= Len(th[t].offer)
BY DEF IInv, Types, Progress, ProgressOf, Thread

\* The record of a thread past the guard it was at.
LEMMA PastGuard ==
  ASSUME NEW r \in Thread, r.pc = "enable", r.sel = NoneSelected, r.pos < Len(r.offer)
  PROVE  LET s == [r EXCEPT !.pos = @ + 1] IN
         /\ s \in Thread /\ s.offer = r.offer /\ s.pos = r.pos + 1 /\ s.pc = "enable"
         /\ ProgressOf(s)
<1> DEFINE s == [r EXCEPT !.pos = @ + 1]
<1>1. r.pos \in Nat /\ Len(r.offer) \in Nat
  BY DEF Thread
<1>2. s \in Thread /\ s.offer = r.offer /\ s.pos = r.pos + 1 /\ s.pc = "enable"
      /\ s.sel = r.sel
  <2>1. ASSUME NEW n \in Nat
        PROVE  LET q == [r EXCEPT !.pos = n] IN
               /\ q \in Thread /\ q.offer = r.offer /\ q.pos = n /\ q.pc = r.pc
               /\ q.sel = r.sel
    BY DEF Thread
  <2>2. r.pos + 1 \in Nat
    BY <1>1
  <2> QED
    BY <2>1, <2>2
<1> HIDE DEF s
<1>3. ProgressOf(s)
  BY <1>1, <1>2 DEF ProgressOf
<1> QED
  BY <1>2, <1>3 DEF s

\* enable_guards at a timer or through.
LEMMA EnableTimerStep ==
  ASSUME IInv, NEW t \in Threads, EnableTimer(t)
  PROVE  IInv'
<1> DEFINE r == th[t]
<1>1. /\ r \in Thread /\ r.pc = "enable" /\ r.pos \in Nat /\ Len(r.offer) \in Nat
      /\ r.sel = NoneSelected /\ r.pos <= Len(r.offer)
      /\ UNCHANGED <<base, end, active, cond, static, fired, status>>
  BY Enabling DEF EnableTimer
<1>2. CASE r.pos = Len(r.offer) /\ th' = [th EXCEPT ![t].pc = "finish"]
  <2> DEFINE s == [r EXCEPT !.pc = "finish"]
  <2>1. s \in Thread /\ s.offer = r.offer /\ s.pos = r.pos /\ s.pc = "finish" /\ s.sel = r.sel
    BY <1>1 DEF Thread, Stages
  <2>2. th' = [th EXCEPT ![t] = s]
    BY <1>2
  <2> HIDE DEF s
  <2>3. ProgressOf(s)
    BY <1>1, <1>2, <2>1 DEF ProgressOf
  <2> QED
    BY <1>1, <2>1, <2>2, <2>3, EnableMove
<1>3. CASE r.pos < Len(r.offer) /\ th' = [th EXCEPT ![t].pc = "finish", ![t].sel = th[t].pos,
                                                   ![t].state = "READY"]
  <2> DEFINE s == [r EXCEPT !.pc = "finish", !.sel = r.pos, !.state = "READY"]
  <2>1. s \in Thread /\ s.offer = r.offer /\ s.pos = r.pos /\ s.pc = "finish" /\ s.sel = r.pos
    <3>1. r.pos \in Int /\ r \in Thread
      BY <1>1
    <3> HIDE DEF r
    <3> QED
      BY <3>1 DEF Thread, Stages
  <2>2. th' = [th EXCEPT ![t] = s]
    BY <1>3
  <2> HIDE DEF s
  <2>3. ProgressOf(s)
    BY <1>1, <1>3, <2>1 DEF ProgressOf
  <2> QED
    BY <1>1, <2>1, <2>2, <2>3, EnableMove
<1>4. CASE r.pos < Len(r.offer) /\ th' = [th EXCEPT ![t].pos = @ + 1]
  <2> DEFINE s == [r EXCEPT !.pos = @ + 1]
  <2>1. s \in Thread /\ s.offer = r.offer /\ s.pos = r.pos + 1 /\ s.pc = "enable"
        /\ ProgressOf(s)
    BY <1>1, <1>4, PastGuard
  <2>2. th' = [th EXCEPT ![t] = s]
    BY <1>4
  <2> HIDE DEF s
  <2> QED
    BY <1>1, <2>1, <2>2, EnableMove
<1> QED
  BY <1>2, <1>3, <1>4 DEF EnableTimer

\* The last to arrive completes the barrier and finishes its enable.
LEMMA CompleteStep ==
  ASSUME IInv, NEW t \in Threads, NEW f \in FrontEnds, NEW b \in First,
         th[t].pc = "enable", th[t].pos < Len(th[t].offer), status = "running",
         base[b].mut = NoProc, base[b].enrolled > 0,
         base' = [base EXCEPT ![b].countdown = base[b].enrolled],
         active' = base[b].enrolled,
         end' = [end EXCEPT ![f] = Claimed(@, t)],
         th' = [Scheduled(b) EXCEPT ![t].pc = "finish", ![t].sel = th[t].pos,
                                    ![t].state = "READY"],
         UNCHANGED <<cond, static, fired, status>>
  PROVE  IInv'
<1>0. Types /\ EnablesExclude /\ WaitersStarting /\ ReleasersHold
      /\ CoordinatorAwake /\ Progress /\ Registrations /\ GuardsMade
  BY DEF IInv
<1> DEFINE r == Scheduled(b)[t]
           s == [r EXCEPT !.pc = "finish", !.sel = th[t].pos, !.state = "READY"]
<1>1. /\ th[t] \in Thread /\ th[t].pos \in Nat /\ Len(th[t].offer) \in Nat
      /\ th[t].sel = NoneSelected
  BY Enabling
<1>2. /\ Scheduled(b) \in [Threads -> Thread] /\ r \in Thread
      /\ \A u \in Threads : Same(th[u], Scheduled(b)[u])
  BY <1>0, ScheduledSame
<1>3. th' = [Scheduled(b) EXCEPT ![t] = s]
  OBVIOUS
<1>4. /\ s \in Thread /\ s.pc = "finish" /\ s.sel = th[t].pos /\ s.pos = th[t].pos
      /\ s.offer = th[t].offer
  <2>1. r.pos = th[t].pos /\ r.offer = th[t].offer
    BY <1>2 DEF Same
  <2>2. th[t].pos \in Int
    BY <1>1
  <2> HIDE DEF r
  <2> QED
    BY <1>2, <2>1, <2>2 DEF Thread, Stages
<1> HIDE DEF s, r
<1>5. th' \in [Threads -> Thread] /\ OnlyMoves(t) /\ th'[t] = s
  BY <1>2, <1>3, <1>4, MovedFrom
<1>6. base' \in [First -> BaseType] /\ base[b].enrolled \in Nat
  <2>1. base[b] \in BaseType /\ base[b].enrolled \in 0..UIntMax
    BY <1>0 DEF Types, BaseType
  <2>2. [base[b] EXCEPT !.countdown = base[b].enrolled] \in BaseType
    BY <2>1 DEF BaseType
  <2>3. base' = [base EXCEPT ![b] = [base[b] EXCEPT !.countdown = base[b].enrolled]]
    OBVIOUS
  <2> QED
    BY <1>0, <2>1, <2>2, <2>3, UIntAssumption DEF Types
<1>7. /\ end' \in [FrontEnds -> FrontEnd] /\ EndsKept
      /\ \A g \in FrontEnds : end'[g].alt = end[g].alt
  BY <1>0, ClaimedType DEF Types, EndsKept
<1>8. Types'
  BY <1>0, <1>5, <1>6, <1>7 DEF Types
<1>9. EnablesExclude'
  BY <1>0, <1>4, <1>5 DEF EnablesExclude, OnlyMoves, Same
<1>10. WaitersStarting' /\ CoordinatorAwake'
  BY <1>0, <1>4, <1>5
     DEF WaitersStarting, CoordinatorAwake, Starting, OnlyMoves, Same, Types
<1>11. ReleasersHold'
  <2>1. base \in [First -> BaseType] /\ base[b].mut = NoProc
    BY <1>0 DEF Types
  <2>2. \A c \in First : c # b => base'[c] = base[c]
    BY <2>1
  <2>3. \A c \in First : base[c].mut # NoProc => base'[c] = base[c]
    BY <2>1, <2>2
  <2> SUFFICES ASSUME NEW u \in Threads, th'[u].pc = "release"
               PROVE  /\ th'[u].offer[1] \in First
                      /\ base'[th'[u].offer[1]].mut = u /\ base'[th'[u].offer[1]].enrolled > 0
    BY DEF ReleasersHold
  <2>4. th[u].pc = "release" /\ th'[u].offer = th[u].offer
    BY <1>4, <1>5 DEF OnlyMoves, Same
  <2>5. /\ th[u].offer[1] \in First /\ base[th[u].offer[1]].mut = u
        /\ base[th[u].offer[1]].enrolled > 0
    BY <1>0, <2>4 DEF ReleasersHold
  <2>6. base'[th[u].offer[1]] = base[th[u].offer[1]]
    BY <2>3, <2>5, AltingAssumption
  <2> QED
    BY <2>4, <2>5, <2>6
<1>12. Progress'
  <2>1. ProgressOf(s)
    BY <1>1, <1>4 DEF ProgressOf
  <2> QED
    BY <1>0, <1>5, <2>1, SameKept DEF Progress, OnlyMoves
<1>13. Registrations'
  <2>1. \A g : Registering(th[t], g) => Registering(s, g)
    BY <1>1, <1>4, RegisteringNext
  <2> QED
    BY <1>0, <1>5, <1>7, <2>1, SameKept DEF Registrations, OnlyMoves, Types, FrontEnd
<1>14. GuardsMade'
  BY <1>0, <1>4, <1>5, <1>7, <1>8, GuardsKept
<1> QED
  BY <1>8, <1>9, <1>10, <1>11, <1>12, <1>13, <1>14 DEF IInv

\* A front end that is not the last to arrive is registered.
LEMMA RegisterStep ==
  ASSUME IInv, NEW t \in Threads, NEW f \in FrontEnds, NEW b \in First,
         th[t].pc = "enable", th[t].pos < Len(th[t].offer),
         th[t].offer[th[t].pos + 1] = f, f # Timer, base[b].mut = NoProc,
         base' = [base EXCEPT ![b].countdown = Dec(base[b].countdown)],
         end' = [end EXCEPT ![f] = [Claimed(@, t) EXCEPT !.alt = t]],
         th' = [th EXCEPT ![t].pos = @ + 1],
         UNCHANGED <<active, cond, static, fired, status>>
  PROVE  IInv'
<1>0. Types /\ Registrations /\ GuardsMade
  BY DEF IInv
<1> DEFINE r == th[t]
           s == [r EXCEPT !.pos = @ + 1]
<1>1. r \in Thread /\ r.pos \in Nat /\ Len(r.offer) \in Nat /\ r.sel = NoneSelected
  BY Enabling
<1>2. s \in Thread /\ s.offer = r.offer /\ s.pos = r.pos + 1 /\ s.pc = "enable"
      /\ ProgressOf(s)
  BY <1>1, PastGuard
<1>3. th' = [th EXCEPT ![t] = s]
  OBVIOUS
<1> HIDE DEF s
<1>4. th' \in [Threads -> Thread] /\ OnlyMoves(t) /\ th'[t] = s
  BY <1>0, <1>2, <1>3, Moved
<1>5. base' \in [First -> BaseType]
  <2>1. base[b] \in BaseType
    BY <1>0 DEF Types
  <2>2. [base[b] EXCEPT !.countdown = Dec(base[b].countdown)] \in BaseType
    BY <2>1, CounterTypes DEF BaseType
  <2>3. base' = [base EXCEPT ![b] = [base[b] EXCEPT !.countdown = Dec(base[b].countdown)]]
    OBVIOUS
  <2> QED
    BY <1>0, <2>2, <2>3 DEF Types
<1>6. LET e == [Claimed(end[f], t) EXCEPT !.alt = t] IN
      e \in FrontEnd /\ e.alt = t /\ e.base = end[f].base /\ e.home = end[f].home
  <2>1. end[f] \in FrontEnd
    BY <1>0 DEF Types
  <2>2. /\ Claimed(end[f], t) \in FrontEnd /\ Claimed(end[f], t).base = end[f].base
        /\ Claimed(end[f], t).home = end[f].home
    BY <2>1, ClaimedType
  <2> QED
    BY <2>2 DEF FrontEnd
<1>7. /\ end' \in [FrontEnds -> FrontEnd] /\ EndsKept
      /\ \A g \in FrontEnds : g # f => end'[g] = end[g]
      /\ end'[f].alt = t
  BY <1>0, <1>6 DEF Types, EndsKept
<1>8. Types'
  BY <1>0, <1>4, <1>5, <1>7 DEF Types
<1>9. LockedKept(NoProc)
  BY <1>0 DEF Types, LockedKept
<1>10. \A g \in FrontEnds : end[g].alt = t => Registering(s, g)
  BY <1>0, <1>1, <1>2, RegisteringNext, AltingAssumption DEF Registrations
<1>11. Registering(s, f)
  <2>1. r.pos + 1 \in 1..s.pos /\ s.offer[r.pos + 1] = f
    BY <1>1, <1>2
  <2> QED
    BY <1>2, <2>1 DEF Registering
<1>12. GuardsMade'
  BY <1>0, <1>2, <1>4, <1>7, <1>8, GuardsKept
<1> QED
  BY <1>2, <1>4, <1>7, <1>8, <1>9, <1>10, <1>11, <1>12, MoveStep

\* enable of a front end.
LEMMA EnableEndStep ==
  ASSUME IInv, NEW t \in Threads, EnableEnd(t)
  PROVE  IInv'
<1>1. /\ th[t].pc = "enable" /\ th[t].pos < Len(th[t].offer) /\ status = "running"
      /\ Guard(t) # Timer
  BY DEF EnableEnd
<1>2. th[t] \in Thread /\ th[t].pos \in Nat /\ Len(th[t].offer) \in Nat
      /\ th[t].sel = NoneSelected
  BY <1>1, Enabling
<1>3. PICK f \in FrontEnds : f = Guard(t) /\ f = th[t].offer[th[t].pos + 1]
  <2>1. th[t].offer \in Seq(AltGuards) /\ th[t].pos + 1 \in 1..Len(th[t].offer)
    BY <1>1, <1>2 DEF Thread
  <2>2. Guard(t) \in AltGuards
    BY <2>1 DEF Guard
  <2> QED
    BY <1>1, <2>2 DEF AltGuards, Guard
<1>4. Used(f)
  <2>1. th[t].pos + 1 \in 1..Len(th[t].offer)
    BY <1>1, <1>2
  <2> QED
    BY <1>1, <1>3, <2>1 DEF IInv, GuardsMade
<1>5. CASE Stop("undefined") \/ Stop("terminated")
  BY <1>5, StopStep
<1>6. CASE /\ th' = [th EXCEPT ![t].pos = @ + 1]
           /\ UNCHANGED <<base, end, active, cond, static, fired, status>>
  <2> DEFINE s == [th[t] EXCEPT !.pos = @ + 1]
  <2>1. s \in Thread /\ s.offer = th[t].offer /\ s.pos = th[t].pos + 1 /\ s.pc = "enable"
        /\ ProgressOf(s)
    BY <1>1, <1>2, PastGuard
  <2>2. th' = [th EXCEPT ![t] = s]
    BY <1>6
  <2> HIDE DEF s
  <2> QED
    BY <1>1, <1>6, <2>1, <2>2, EnableMove
<1>7. CASE /\ end[f].base # Null /\ base[end[f].base].mut = NoProc /\ Arrive(t, f)
  <2>1. PICK b \in First : b = end[f].base
    BY <1>4, <1>7 DEF Used
  <2>2. CASE Dec(base[b].countdown) # 0
    BY <1>1, <1>3, <1>7, <2>1, <2>2, RegisterStep DEF Arrive
  <2>3. CASE Dec(base[b].countdown) = 0 /\ ~CanStartDisable(base[b].enrolled)
    BY <1>5, <1>7, <2>1, <2>3 DEF Arrive
  <2>4. CASE Dec(base[b].countdown) = 0 /\ CanStartDisable(base[b].enrolled)
    BY <1>1, <1>7, <2>1, <2>4, CompleteStep DEF Arrive, CanStartDisable
  <2> QED
    BY <2>2, <2>3, <2>4
<1> QED
  BY <1>3, <1>5, <1>6, <1>7 DEF EnableEnd

\* The walk of disable_guards passes every guard that select has enabled.
LEMMA VisitsEnabled ==
  ASSUME NEW n \in Nat, NEW p \in Nat, NEW k \in Int,
         (k = NoneSelected /\ p = n) \/ (k = p /\ p < n)
  PROVE  /\ DisableOrder(n, 0, k) \in Seq(0..(n - 1))
         /\ \A i \in 1..p : \E j \in 1..Len(DisableOrder(n, 0, k)) :
               DisableOrder(n, 0, k)[j] = i - 1
<1>1. CASE n = 0
  <2>1. DisableOrder(n, 0, k) = << >> /\ p = 0
    BY <1>1, EmptyOrder
  <2>2. << >> \in Seq(0..(n - 1))
    OBVIOUS
  <2>3. 1..p = {}
    BY <2>1
  <2>4. \A i \in 1..p : \E j \in 1..Len(DisableOrder(n, 0, k)) :
            DisableOrder(n, 0, k)[j] = i - 1
    BY <2>3
  <2>5. DisableOrder(n, 0, k) \in Seq(0..(n - 1))
    BY <2>1, <2>2, Zenon
  <2> QED
    BY <2>4, <2>5
<1>2. CASE n # 0
  <2>1. n \in Nat \ {0} /\ 0 \in 0..n /\ k \in -1..(n - 1)
    BY <1>2 DEF NoneSelected
  <2>2. /\ DisableOrder(n, 0, k) \in Seq(0..(n - 1))
        /\ \A g \in 0..(n - 1) : Enabled(0, k, g) =>
              \E j \in 1..Len(DisableOrder(n, 0, k)) : DisableOrder(n, 0, k)[j] = g
    BY <2>1, DisablesEnabled, Zenon
  <2>3. \A i \in 1..p : i - 1 \in 0..(n - 1) /\ Enabled(0, k, i - 1)
    BY <1>2 DEF Enabled
  <2> QED
    BY <2>2, <2>3
<1> QED
  BY <1>1, <1>2

\* Wait or disable: what is registered is among the guards to disable.
LEMMA DecideStep ==
  ASSUME IInv, NEW t \in Threads, Decide(t)
  PROVE  IInv'
<1> DEFINE r == th[t]
           n == Len(r.offer)
           D == DisableOrder(n, 0, r.sel)
           e == r.state = "ENABLING"
           s == [r EXCEPT !.pc = IF e THEN "wait" ELSE "disable",
                          !.state = IF e THEN "WAITING" ELSE "READY", !.todo = D]
<1>0. Types /\ Progress /\ Registrations /\ GuardsMade
  BY DEF IInv
<1>1. /\ r.pc = "decide" /\ th' = [th EXCEPT ![t] = s]
      /\ UNCHANGED <<base, end, active, cond, static, fired, status>>
  BY DEF Decide
<1>2. r \in Thread /\ n \in Nat /\ r.pos \in Nat
  BY <1>0 DEF Types, Thread
<1>3. \/ r.sel = NoneSelected /\ r.pos = n
      \/ r.sel = r.pos /\ r.pos < n
  BY <1>0, <1>1 DEF Progress, ProgressOf
<1>4. /\ D \in Seq(0..(n - 1))
      /\ \A i \in 1..r.pos : \E j \in 1..Len(D) : D[j] = i - 1
  <2> DEFINE k == r.sel
             p == r.pos
  <2>1. k \in Int /\ D = DisableOrder(n, 0, k)
    BY <1>2, <1>3 DEF NoneSelected
  <2> HIDE DEF D, k, p, n
  <2>2. n \in Nat /\ p \in Nat /\ ((k = NoneSelected /\ p = n) \/ (k = p /\ p < n))
    BY <1>2, <1>3 DEF k, p
  <2>3. D \in Seq(0..(n - 1)) /\ \A i \in 1..p : \E j \in 1..Len(D) : D[j] = i - 1
    BY <2>1, <2>2, VisitsEnabled
  <2> QED
    BY <2>3 DEF p
<1> HIDE DEF D
<1>5. D \in Seq(Nat) /\ \A i \in 1..Len(D) : D[i] < n
  BY <1>2, <1>4
<1>6. s \in Thread /\ s.pc \in {"wait", "disable"} /\ s.offer = r.offer /\ s.todo = D
  BY <1>2, <1>5 DEF Thread, Stages
<1> HIDE DEF s
<1>7. th' \in [Threads -> Thread] /\ OnlyMoves(t) /\ th'[t] = s
  BY <1>0, <1>1, <1>6, Moved
<1>8. Types'
  BY <1>0, <1>1, <1>7 DEF Types
<1>9. ProgressOf(s)
  BY <1>5, <1>6 DEF ProgressOf
<1>10. ASSUME NEW f \in FrontEnds, end[f].alt = t PROVE Registering(s, f)
  <2>1. Registering(r, f)
    BY <1>0, <1>10, AltingAssumption DEF Registrations
  <2>2. PICK i \in 1..r.pos : r.offer[i] = f
    BY <1>1, <2>1 DEF Registering
  <2>3. PICK j \in 1..Len(D) : D[j] = i - 1
    BY <1>4
  <2>4. s.offer[s.todo[j] + 1] = f
    BY <1>6, <2>2, <2>3
  <2> QED
    BY <1>6, <2>1, <2>3, <2>4 DEF Registering
<1>11. GuardsMade'
  BY <1>0, <1>1, <1>6, <1>7, <1>8, GuardsKept DEF EndsKept
<1> QED
  BY <1>1, <1>6, <1>7, <1>8, <1>9, <1>10, <1>11, MoveStep DEF LockedKept

\* The wait ends.
LEMMA WakeStep ==
  ASSUME IInv, NEW t \in Threads, Wake(t)
  PROVE  IInv'
<1> DEFINE r == th[t]
           s == [r EXCEPT !.pc = "disable", !.state = "READY"]
<1>0. Types /\ Progress /\ Registrations /\ GuardsMade
  BY DEF IInv
<1>1. /\ r.pc = "wait" /\ th' = [th EXCEPT ![t] = s]
      /\ UNCHANGED <<base, end, active, cond, static, fired, status>>
  BY DEF Wake
<1>2. r \in Thread
  BY <1>0 DEF Types
<1>3. s \in Thread /\ s.pc = "disable" /\ s.offer = r.offer /\ s.todo = r.todo
  BY <1>2 DEF Thread, Stages
<1> HIDE DEF s
<1>4. th' \in [Threads -> Thread] /\ OnlyMoves(t) /\ th'[t] = s
  BY <1>0, <1>1, <1>3, Moved
<1>5. Types'
  BY <1>0, <1>1, <1>4 DEF Types
<1>6. ProgressOf(s)
  BY <1>0, <1>1, <1>3 DEF Progress, ProgressOf
<1>7. ASSUME NEW f \in FrontEnds, end[f].alt = t PROVE Registering(s, f)
  <2>1. Registering(r, f)
    BY <1>0, <1>7, AltingAssumption DEF Registrations
  <2> QED
    BY <1>1, <1>3, <2>1 DEF Registering
<1>8. GuardsMade'
  BY <1>0, <1>1, <1>3, <1>4, <1>5, GuardsKept DEF EndsKept
<1> QED
  BY <1>1, <1>3, <1>4, <1>5, <1>6, <1>7, <1>8, MoveStep DEF LockedKept

\* select returns: all guards are disabled, so nobody is left registered.
LEMMA ReturnStep ==
  ASSUME IInv, NEW t \in Threads, SelectReturns(t)
  PROVE  IInv'
<1>0. Types /\ Registrations /\ GuardsMade
  BY DEF IInv
<1>1. /\ th[t].pc = "disable" /\ th[t].todo = << >> /\ th' = [th EXCEPT ![t] = IdleThread]
      /\ UNCHANGED <<base, end, active, cond, static, fired, status>>
  BY DEF SelectReturns
<1>2. IdleThread \in Thread /\ IdleThread.pc = "idle" /\ ProgressOf(IdleThread)
  BY DEF IdleThread, Thread, Stages, NoneSelected, ProgressOf
<1>3. th' \in [Threads -> Thread] /\ OnlyMoves(t) /\ th'[t] = IdleThread
  BY <1>0, <1>1, <1>2, Moved
<1>4. Types'
  BY <1>0, <1>1, <1>3 DEF Types
<1>5. \A f \in FrontEnds : end[f].alt # t
  <2>1. Len(th[t].todo) = 0
    BY <1>1
  <2> QED
    BY <1>0, <1>1, <2>1, AltingAssumption DEF Registrations, Registering
<1>6. GuardsMade'
  BY <1>0, <1>1, <1>2, <1>3, <1>4, GuardsKept DEF EndsKept
<1> QED
  BY <1>1, <1>2, <1>3, <1>4, <1>5, <1>6, MoveStep DEF LockedKept

\* A guard is disabled: a front end loses its registration.
LEMMA DisableGuardStep ==
  ASSUME IInv, NEW t \in Threads, DisableGuard(t)
  PROVE  IInv'
<1> DEFINE r == th[t]
           i == Head(r.todo)
           f == r.offer[i + 1]
<1>0. Types /\ Progress /\ Registrations /\ GuardsMade
  BY DEF IInv
<1>1. r.pc = "disable" /\ r.todo # << >>
  BY DEF DisableGuard
<1>2. /\ r \in Thread /\ r.offer \in Seq(AltGuards) /\ r.todo \in Seq(Nat)
      /\ Len(r.todo) \in Nat \ {0} /\ Len(r.offer) \in Nat
  BY <1>0, <1>1 DEF Types, Thread
<1>3. \A j \in 1..Len(r.todo) : r.todo[j] < Len(r.offer)
  BY <1>0, <1>1 DEF Progress, ProgressOf
<1>4. /\ i = r.todo[1] /\ i \in Nat /\ i < Len(r.offer) /\ Tail(r.todo) \in Seq(Nat)
      /\ Len(Tail(r.todo)) = Len(r.todo) - 1
      /\ \A j \in 1..(Len(r.todo) - 1) : Tail(r.todo)[j] = r.todo[j + 1]
  BY <1>1, <1>2, <1>3
<1> HIDE DEF i
<1>5. CASE Stop("undefined")
  BY <1>5, StopStep
<1>6. ASSUME NEW a \in BOOLEAN, Disabled(t, i, a), LockedKept(NoProc), EndsKept,
             base' \in [First -> BaseType], end' \in [FrontEnds -> FrontEnd],
             UNCHANGED <<active, cond, static, fired, status>>,
             \A g \in FrontEnds : /\ end'[g].alt \in {end[g].alt, NoProc}
                                  /\ g = f => g = Timer \/ end'[g].alt = NoProc
      PROVE  IInv'
  <2> DEFINE s == [r EXCEPT !.todo = Tail(r.todo), !.sel = IF a THEN i ELSE r.sel]
  <2>1. th' = [th EXCEPT ![t] = s]
    BY <1>6 DEF Disabled
  <2>2. s \in Thread /\ s.pc = "disable" /\ s.offer = r.offer /\ s.todo = Tail(r.todo)
    <3>1. (IF a THEN i ELSE r.sel) \in Int
      BY <1>2, <1>4 DEF Thread
    <3> HIDE DEF r
    <3> QED
      BY <1>1, <1>2, <1>4, <3>1 DEF Thread, Stages
  <2> HIDE DEF s
  <2>3. th' \in [Threads -> Thread] /\ OnlyMoves(t) /\ th'[t] = s
    BY <1>0, <2>1, <2>2, Moved
  <2>4. Types'
    BY <1>0, <1>6, <2>3 DEF Types
  <2>5. ProgressOf(s)
    <3>1. \A j \in 1..Len(s.todo) : j + 1 \in 1..Len(r.todo) /\ s.todo[j] = r.todo[j + 1]
      BY <1>2, <1>4, <2>2
    <3> QED
      BY <1>3, <2>2, <3>1 DEF ProgressOf
  <2>6. ASSUME NEW g \in FrontEnds, end'[g].alt = t PROVE Registering(s, g)
    <3>1. Registering(r, g)
      BY <1>0, <1>6, <2>6, AltingAssumption DEF Registrations
    <3>2. PICK j \in 1..Len(r.todo) : r.offer[r.todo[j] + 1] = g
      BY <1>1, <3>1 DEF Registering
    <3>3. g # f
      BY <1>6, <2>6, <3>1, AltingAssumption DEF Registering
    <3>4. j - 1 \in 1..Len(s.todo) /\ s.todo[j - 1] = r.todo[j]
      <4>1. j # 1
        BY <1>4, <3>2, <3>3
      <4>2. j - 1 \in 1..(Len(r.todo) - 1) /\ (j - 1) + 1 = j
        BY <1>2, <3>2, <4>1
      <4>3. Tail(r.todo)[j - 1] = r.todo[(j - 1) + 1]
        BY <1>4, <4>2
      <4> QED
        BY <1>4, <2>2, <4>2, <4>3
    <3>5. s.offer[s.todo[j - 1] + 1] = g
      BY <2>2, <3>2, <3>4
    <3> QED
      BY <2>2, <3>1, <3>4, <3>5 DEF Registering
  <2>7. GuardsMade'
    BY <1>0, <1>1, <1>6, <2>2, <2>3, <2>4, GuardsKept
  <2> QED
    BY <1>1, <1>6, <2>2, <2>3, <2>4, <2>5, <2>6, <2>7, MoveStep
<1>7. CASE /\ f = Timer /\ Disabled(t, i, fired)
           /\ UNCHANGED <<base, end, active, cond, static, fired, status>>
  BY <1>0, <1>6, <1>7 DEF Types, LockedKept, EndsKept
<1>8. CASE f # Timer /\ ~Stop("undefined")
  <2> DEFINE b == end[f].base
             complete == Completed(base[b])
             registered == end[f].alt # NoProc
  <2>1. /\ base[b].mut = NoProc /\ end' = [end EXCEPT ![f].alt = NoProc]
        /\ base' = IF registered /\ ~complete
                   THEN [base EXCEPT ![b].countdown = Inc(@)] ELSE base
        /\ Disabled(t, i, registered /\ complete)
        /\ UNCHANGED <<active, cond, static, fired, status>>
    BY <1>8 DEF DisableGuard, i
  <2>2. f \in FrontEnds
    <3>1. i + 1 \in 1..Len(r.offer)
      BY <1>2, <1>4
    <3> QED
      BY <1>2, <1>8, <3>1 DEF AltGuards
  <2> HIDE DEF f
  <2>3. /\ end' \in [FrontEnds -> FrontEnd] /\ EndsKept
        /\ \A g \in FrontEnds : end'[g].alt \in {end[g].alt, NoProc}
        /\ end'[f].alt = NoProc
    BY <1>0, <2>1, <2>2 DEF Types, FrontEnd, EndsKept
  <2>4. base' \in [First -> BaseType] /\ LockedKept(NoProc)
    <3>1. CASE base' = base
      BY <1>0, <3>1 DEF Types, LockedKept
    <3>2. CASE base' = [base EXCEPT ![b].countdown = Inc(@)]
      <4>1. CASE b \in First
        <5>1. base[b] \in BaseType
          BY <1>0, <4>1 DEF Types
        <5>2. [base[b] EXCEPT !.countdown = Inc(@)] \in BaseType
          BY <5>1, CounterTypes DEF BaseType
        <5>3. base' = [base EXCEPT ![b] = [base[b] EXCEPT !.countdown = Inc(@)]]
          BY <3>2
        <5> QED
          BY <1>0, <2>1, <5>2, <5>3 DEF Types, LockedKept
      <4>2. CASE b \notin First
        BY <1>0, <3>2, <4>2 DEF Types, LockedKept
      <4> QED
        BY <4>1, <4>2
    <3> QED
      BY <2>1, <3>1, <3>2
  <2>5. (registered /\ complete) \in BOOLEAN
    OBVIOUS
  <2> QED
    BY <1>6, <2>1, <2>2, <2>3, <2>4, <2>5
<1> QED
  BY <1>5, <1>7, <1>8 DEF DisableGuard, i

-----------------------------------------------------------------------------
(* The theorems.                                                           *)

\* The first front ends, and no thread inside a call.
LEMMA InitInv == Init => IInv
<1> SUFFICES ASSUME Init PROVE IInv
  OBVIOUS
<1>1. base \in [First -> BaseType]
  BY AltingAssumption, UIntAssumption DEF Init, BaseType
<1>2. end \in [FrontEnds -> FrontEnd]
  BY DEF Init, FrontEnd, NewEnd, Unborn
<1>3. \A f \in FrontEnds : end[f].alt = NoProc /\ (Born(f) => Used(f))
  BY DEF Init, NewEnd, Unborn, Born, Used
<1>4. IdleThread \in Thread /\ IdleThread.pc = "idle" /\ ProgressOf(IdleThread)
  BY DEF IdleThread, Thread, Stages, NoneSelected, ProgressOf
<1>5. Types
  <2>1. fired \in BOOLEAN
    BY Zenon DEF Init
  <2> QED
    BY <1>1, <1>2, <1>4, <2>1 DEF Init, Types
<1>6. \A t \in Threads : th[t] = IdleThread
  BY DEF Init
<1>7. EnablesExclude /\ WaitersStarting /\ ReleasersHold /\ CoordinatorAwake
  BY <1>4, <1>6
     DEF Init, EnablesExclude, WaitersStarting, ReleasersHold, CoordinatorAwake
<1>8. Progress /\ Registrations
  BY <1>3, <1>4, <1>6 DEF Progress, Registrations
<1>9. GuardsMade
  BY <1>3, <1>4, <1>6 DEF GuardsMade, Init
<1> QED
  BY <1>5, <1>7, <1>8, <1>9 DEF IInv

\* Every step keeps the invariant.
LEMMA NextInv == IInv /\ [Next]_vars => IInv'
<1> SUFFICES ASSUME IInv, [Next]_vars PROVE IInv'
  OBVIOUS
<1>1. CASE UNCHANGED vars
  BY <1>1 DEF vars, IInv, Types, EnablesExclude, WaitersStarting, ReleasersHold,
     CoordinatorAwake, Progress, Registrations, Starting, GuardsMade, Used, Born
<1>2. CASE \E t \in Threads : Call(t)
  BY <1>2, CallStep
<1>3. CASE AlarmFires
  <2>1. fired' = TRUE /\ UNCHANGED <<base, end, active, cond, th, static, status>>
    BY <1>3 DEF AlarmFires
  <2>2. Types'
    BY <2>1 DEF IInv, Types
  <2> QED
    BY <2>1, <2>2, QuietStep DEF LockedKept, EndsKept
<1>4. CASE \E t \in Threads : Go(t)
  BY <1>4, AwaitStep, StartStep, ReleaseStep, FinishStep, EnableTimerStep,
     EnableEndStep, DecideStep, WakeStep, DisableGuardStep, ReturnStep DEF Go
<1> QED
  BY <1>1, <1>2, <1>3, <1>4 DEF Next

\* The inductive invariant holds in every state of the program.
THEOREM Inductive == Spec => []IInv
BY InitInv, NextInv, PTL DEF Spec

\* Enables exclude one another, and the coordinator counts one active process
\* while guards are enabled.
THEOREM EnableIsExclusive == Spec => []EnablesExclude
<1>1. IInv => EnablesExclude
  BY DEF IInv
<1> QED
  BY <1>1, Inductive, PTL

\* No wakeup is lost in the coordinator.
THEOREM NobodyForgotten == Spec => []CoordinatorAwake
<1>1. IInv => CoordinatorAwake
  BY DEF IInv
<1> QED
  BY <1>1, Inductive, PTL

\* A registration belongs to a selection in progress that offers the front
\* end.
THEOREM RegistrationsAreLive == Spec => []NoStaleRegistration
<1>1. IInv => NoStaleRegistration
  <2> SUFFICES ASSUME IInv, NEW f \in FrontEnds, end[f].alt # NoProc
               PROVE  LET t == th[end[f].alt] IN
                      /\ t.pc \notin {"idle", "start", "release"}
                      /\ \E i \in 1..Len(t.offer) : t.offer[i] = f
    BY DEF NoStaleRegistration
  <2> DEFINE r == th[end[f].alt]
  <2>1. end[f].alt \in Threads /\ r \in Thread /\ ProgressOf(r) /\ Registering(r, f)
    BY DEF IInv, Types, FrontEnd, Progress, Registrations
  <2> HIDE DEF r
  <2>2. r.pos \in Nat /\ Len(r.offer) \in Nat /\ r.todo \in Seq(Nat)
    BY <2>1 DEF Thread
  <2>3. CASE r.pc \in {"enable", "finish", "decide"}
    <3>1. PICK i \in 1..r.pos : r.offer[i] = f
      BY <2>1, <2>3 DEF Registering
    <3>2. i \in 1..Len(r.offer)
      BY <2>1, <2>2, <2>3 DEF ProgressOf
    <3> QED
      BY <2>3, <3>1, <3>2 DEF r
  <2>4. CASE r.pc \in {"wait", "disable"}
    <3>1. PICK i \in 1..Len(r.todo) : r.offer[r.todo[i] + 1] = f
      BY <2>1, <2>4 DEF Registering
    <3>2. r.todo[i] + 1 \in 1..Len(r.offer)
      BY <2>1, <2>2, <2>4 DEF ProgressOf
    <3> QED
      BY <2>4, <3>1, <3>2 DEF r
  <2> QED
    BY <2>1, <2>3, <2>4 DEF Registering
<1> QED
  BY <1>1, Inductive, PTL
=============================================================================
