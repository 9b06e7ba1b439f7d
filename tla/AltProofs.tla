------------------------------ MODULE AltProofs ------------------------------
(***************************************************************************)
(* Proofs about Alt, for any number and kind of guards, any buffer size    *)
(* and any set of selection modes.                                         *)
(***************************************************************************)
EXTENDS Alt, AltOrderProofs

\* A select that has not begun to disable, and one in progress.
Before    == apc \in {"enable", "decide", "wait"}
InSelect  == apc \in {"enable", "decide", "wait", "disable"}

\* The guards that enable_guards has been through.
Passed == {EnableOrder(n) : n \in 0..(pos - 1)}

Capacity(g) == IF Kind[g] = "chan" THEN 1 ELSE BufSize

\* Guard g takes part in the selection and would answer ready.
Offers(g) == pre[g] /\ IsReady(g)

-----------------------------------------------------------------------------
(* The inductive invariant.                                                *)

\* The types of all the variables.
Types ==
    /\ TypeOK
    /\ mode \in {"pri", "fair", "fair_pre"} /\ pre \in [Guards -> BOOLEAN]
    /\ todo \in Seq(Guards)
    /\ timeout \in BOOLEAN /\ time \in Int /\ now \in Nat
    /\ alting \in [Chans -> BOOLEAN] /\ poisoned \in [Chans -> BOOLEAN]
    /\ wpc \in [Chans -> {"idle", "schedule", "waiting", "taken"}]
    /\ alarm \in [Timers -> Int] /\ offered \in SUBSET Guards

\* A writer that is not held up has room for its next value.
Room ==
    \A g \in Chans :
        /\ held[g] <= Capacity(g)
        /\ wpc[g] \in {"idle", "taken"} \/ (wpc[g] = "schedule" /\ poisoned[g])
           => held[g] < Capacity(g)

\* A writer schedules only an alt that is registered, and because of what it
\* has left in the channel.
Schedulers ==
    \A g \in Chans : wpc[g] = "schedule" => alting[g] /\ Pending(g)

\* Until guards are disabled exactly the guards passed are registered; then
\* the registered ones are still to be disabled.
Registered ==
    \A g \in Chans :
        /\ Before => (alting[g] <=> pre[g] /\ g \in Passed)
        /\ apc = "disable" /\ alting[g] =>
              pre[g] /\ \E i \in 1..Len(todo) : todo[i] = g
        /\ apc \in {"idle", "selected"} => ~alting[g]

\* The alt's state and choice at each stage.
Stage ==
    /\ apc \in {"enable", "decide"} => state \in {"ENABLING", "READY"}
    /\ apc = "decide" =>
          \/ selected = NoneSelected /\ pos = G
          \/ /\ pos < G /\ selected = EnableOrder(pos) /\ state = "READY"
             /\ Offers(selected)
    /\ apc = "wait" =>
          /\ selected = NoneSelected /\ pos = G /\ state \in {"WAITING", "READY"}
          /\ \A g \in Guards : \E i \in 1..Len(todo) : todo[i] = g
    /\ apc = "disable" => state = "READY"
    /\ apc \in {"idle", "selected"} => state = "INACTIVE"

\* A guard passed is ready only if its writer is about to schedule, as long
\* as the alt has not been scheduled.
Unmissed ==
    Before /\ state # "READY" =>
        \A g \in Chans \cap Passed : Offers(g) => wpc[g] = "schedule"

\* An alt that was scheduled while it enabled or waited has a ready guard.
Cause ==
    Before /\ state = "READY" /\ (apc = "decide" => selected = NoneSelected) =>
        \E g \in Chans : alting[g] /\ Offers(g)

\* The time to wake at is the alarm of a timer of the selection.
Alarm ==
    /\ Before /\ timeout =>
          timerIndex \in Timers /\ time = alarm[timerIndex] /\ pre[timerIndex]
    /\ apc \in {"idle", "selected"} => ~timeout

\* disable_guards has chosen a ready guard or will come to one.
Choice ==
    /\ apc = "disable" =>
          \/ selected \in Guards /\ Offers(selected)
          \/ /\ selected = NoneSelected
             /\ \E i \in 1..Len(todo) : Offers(todo[i])
    /\ SelectedIsReady

\* What was ready when select was called still is.
StillOffered == InSelect => \A g \in offered : Offers(g)

\* Guards at a walk's position and later, none past guard o.
EndsAt(i, o) ==
    /\ Offers(todo[i]) /\ todo[i] <= o
    /\ \A j \in (i + 1)..Len(todo) : todo[j] <= o

\* A priority selection has not passed an offered guard, and will not end
\* with a guard past it.
Priority ==
    /\ mode = "pri" /\ Before => next = 0 /\ \A o \in offered : pos <= o
    /\ mode = "pri" /\ apc = "disable" =>
          \A o \in offered :
             \/ /\ selected # NoneSelected /\ selected <= o
                /\ \A i \in 1..Len(todo) : todo[i] <= o
             \/ \E i \in 1..Len(todo) : EndsAt(i, o)
    /\ PriorityKept

IInv ==
    /\ Types /\ Room /\ Schedulers /\ Registered /\ Stage /\ Unmissed /\ Cause
    /\ Alarm /\ Choice /\ StillOffered /\ Priority

-----------------------------------------------------------------------------
(* The kinds of guards.                                                    *)

\* A guard is a channel, a timer or neither.
LEMMA Kinds ==
    /\ G \in Nat \ {0} /\ BufSize \in Nat \ {0}
    /\ Chans \subseteq Guards /\ Timers \subseteq Guards /\ Chans \cap Timers = {}
    /\ \A g \in Guards : g \in Int /\ 0 <= g /\ g < G
BY AltAssumption DEF Chans, Timers, Guards

\* What each kind of guard answers, before and after a step.
LEMMA Answers ==
  ASSUME NEW g
  PROVE  /\ g \in Chans => (IsReady(g) <=> Pending(g)) /\ (IsReady(g)' <=> Pending(g)')
         /\ g \in Timers => (IsReady(g) <=> Fired(g)) /\ (IsReady(g)' <=> Fired(g)')
         /\ g \notin Chans /\ g \notin Timers => ~IsReady(g) /\ ~IsReady(g)'
<1>1. g \in Chans => g \notin Timers
  BY Kinds
<1> QED
  BY <1>1, Zenon DEF IsReady

\* enable_guards comes to guards only, and to each of them once.
LEMMA EnableOrderVisits ==
  ASSUME Types
  PROVE  /\ \A n \in 0..(G - 1) : EnableOrder(n) \in Guards
         /\ \A n \in 0..(G - 1) : \A m \in 0..(n - 1) : EnableOrder(n) # EnableOrder(m)
         /\ Passed \subseteq Guards
         /\ pos = G => Passed = Guards
<1>1. \A n \in 0..(G - 1) : EnableOrder(n) \in Guards
  BY Kinds DEF Types, TypeOK, EnableOrder, Guards
<1>2. \A n \in 0..(G - 1) : \A m \in 0..(n - 1) : EnableOrder(n) # EnableOrder(m)
  BY Kinds DEF Types, TypeOK, EnableOrder
<1>3. Passed \subseteq Guards
  BY <1>1, Kinds DEF Types, TypeOK, Passed
<1>4. ASSUME pos = G, NEW g \in Guards PROVE g \in Passed
  <2>1. CASE g >= next
    <3>1. g - next \in 0..(pos - 1) /\ EnableOrder(g - next) = g
      BY <1>4, <2>1, Kinds DEF Types, TypeOK, EnableOrder
    <3> QED
      BY <3>1 DEF Passed
  <2>2. CASE g < next
    <3>1. g - next + G \in 0..(pos - 1) /\ EnableOrder(g - next + G) = g
      BY <1>4, <2>2, Kinds DEF Types, TypeOK, EnableOrder
    <3> QED
      BY <3>1 DEF Passed
  <2> QED
    BY <2>1, <2>2, Kinds DEF Types, TypeOK
<1> QED
  BY <1>1, <1>2, <1>3, <1>4

-----------------------------------------------------------------------------
(* The writers and the clock.                                              *)

\* A step that leaves the selecting process alone, but for its state, and
\* takes no guard's readiness away keeps what it relies on.
LEMMA EnvironmentKeeps ==
  ASSUME IInv,
         UNCHANGED <<apc, mode, pre, next, selected, pos, todo, timeout, time,
                     timerIndex, offered, alting, alarm>>,
         \A g \in Guards : IsReady(g) => IsReady(g)',
         state' = state \/ (Before /\ state' = "READY")
  PROVE  Stage' /\ Registered' /\ Alarm' /\ Choice' /\ StillOffered' /\ Priority'
<1>1. Passed' = Passed /\ Before' = Before /\ InSelect' = InSelect
  BY DEF Passed, EnableOrder, Before, InSelect
<1>2. \A g \in Guards : Offers(g) => Offers(g)'
  BY DEF Offers
<1>3. Registered'
  BY <1>1, Kinds DEF IInv, Registered
<1>4. Alarm'
  BY <1>1 DEF IInv, Alarm
<1>5. Choice'
  <2>1. \A i \in 1..Len(todo) : todo[i] \in Guards
    BY DEF IInv, Types, TypeOK
  <2>2. SelectedIsReady'
    BY DEF IInv, Choice, SelectedIsReady
  <2> QED
    BY <1>2, <2>1, <2>2 DEF IInv, Choice
<1>6. StillOffered'
  BY <1>1, <1>2 DEF IInv, StillOffered, Types
<1>7. Priority'
  <2>1. \A i \in 1..Len(todo) : todo[i] \in Guards
    BY DEF IInv, Types, TypeOK
  <2>2. \A i \in 1..Len(todo), o \in offered : EndsAt(i, o) => EndsAt(i, o)'
    BY <1>2, <2>1 DEF EndsAt
  <2>3. PriorityKept'
    BY DEF IInv, Priority, PriorityKept
  <2> QED
    BY <1>1, <2>2, <2>3 DEF IInv, Priority
<1>8. Stage'
  <2>1. EnableOrder(pos)' = EnableOrder(pos)
    BY DEF EnableOrder
  <2>2. apc = "decide" =>
           \/ selected' = NoneSelected /\ pos' = G
           \/ /\ pos' < G /\ selected' = EnableOrder(pos)' /\ state' = "READY"
              /\ Offers(selected)'
    <3> SUFFICES ASSUME apc = "decide", ~(selected = NoneSelected /\ pos = G)
                 PROVE  /\ pos' < G /\ selected' = EnableOrder(pos)' /\ state' = "READY"
                        /\ Offers(selected)'
      OBVIOUS
    <3>1. pos < G /\ selected = EnableOrder(pos) /\ state = "READY" /\ Offers(selected)
      BY DEF IInv, Stage
    <3>2. selected \in Guards
      <4>1. Types /\ pos \in 0..(G - 1)
        BY <3>1, Kinds DEF IInv, Types, TypeOK
      <4> QED
        BY <3>1, <4>1, EnableOrderVisits
    <3>3. Offers(selected)'
      BY <3>1, <3>2 DEF Offers
    <3> QED
      BY <2>1, <3>1, <3>3
  <2> QED
    BY <1>1, <2>2 DEF IInv, Stage, Before
<1> QED
  BY <1>3, <1>4, <1>5, <1>6, <1>7, <1>8

\* The fields of the types that the steps of a writer change.
LEMMA ChannelTypes ==
  ASSUME Types, NEW g \in Chans
  PROVE  /\ held[g] \in Nat /\ poisoned[g] \in BOOLEAN /\ alting[g] \in BOOLEAN
         /\ g \in Guards /\ Capacity(g) \in Nat \ {0} /\ Capacity(g) <= BufSize
BY Kinds DEF Types, TypeOK, Capacity

\* A write fills the channel and, if the alt is registered, goes on to
\* schedule it.
LEMMA WriteStep ==
  ASSUME IInv, NEW g \in Chans, Write(g)
  PROVE  IInv'
<1> USE ChannelTypes
<1>0. Types /\ Room /\ Schedulers
  BY DEF IInv
<1>1. /\ wpc[g] = "idle" /\ ~poisoned[g]
      /\ held' = [held EXCEPT ![g] = held[g] + 1]
      /\ UNCHANGED <<altVars, timeVars, alting, poisoned>>
      /\ wpc' = [wpc EXCEPT ![g] = IF alting[g] THEN "schedule" ELSE Written(g, held[g] + 1)]
  BY DEF Write
<1>2. held[g] + 1 <= Capacity(g) /\ (~alting[g] => wpc'[g] = Written(g, held[g] + 1))
      /\ (alting[g] => wpc'[g] = "schedule")
  BY <1>0, <1>1 DEF Room, Types
<1>3. Written(g, held[g] + 1) \in {"idle", "waiting"}
      /\ (Written(g, held[g] + 1) = "idle" => held[g] + 1 < Capacity(g))
  BY <1>0, <1>2 DEF Written, Capacity
<1>4. Types'
  <2>1. held' \in [Chans -> 0..BufSize]
    BY <1>0, <1>1, <1>2, Kinds DEF Types, TypeOK
  <2>2. wpc' \in [Chans -> {"idle", "schedule", "waiting", "taken"}]
    BY <1>0, <1>1, <1>3 DEF Types, TypeOK
  <2> QED
    BY <1>0, <1>1, <2>1, <2>2 DEF Types, TypeOK, altVars, timeVars
<1>5. Room'
  <2> SUFFICES ASSUME NEW h \in Chans
               PROVE  /\ held'[h] <= Capacity(h)
                      /\ wpc'[h] \in {"idle", "taken"} \/ (wpc'[h] = "schedule" /\ poisoned'[h])
                           => held'[h] < Capacity(h)
    BY DEF Room, Capacity
  <2>1. CASE h = g
    BY <1>0, <1>1, <1>2, <1>3, <2>1 DEF Types, TypeOK
  <2>2. CASE h # g
    BY <1>0, <1>1, <2>2 DEF Types, TypeOK, Room
  <2> QED
    BY <2>1, <2>2
<1>6. Schedulers'
  BY <1>0, <1>1, <1>2, <1>3 DEF Schedulers, Pending, Types, TypeOK
<1>7. \A h \in Guards : IsReady(h) => IsReady(h)'
  BY <1>0, <1>1, Answers DEF Pending, Fired, Types, TypeOK, timeVars
<1>8. Passed' = Passed /\ Before' = Before /\ \A h : Offers(h) => pre[h] /\ IsReady(h)
  BY <1>1 DEF Passed, EnableOrder, Before, Offers, altVars
<1>10. Unmissed'
  BY <1>0, <1>1, <1>2, <1>8, Kinds, Answers
     DEF IInv, Unmissed, Registered, Offers, Pending, Types, TypeOK, altVars
<1>11. Cause'
  BY <1>1, <1>7, <1>8, Kinds DEF IInv, Cause, Offers, altVars
<1>12. Stage' /\ Registered' /\ Alarm' /\ Choice' /\ StillOffered' /\ Priority'
  BY <1>1, <1>7, EnvironmentKeeps DEF altVars, timeVars
<1> QED
  BY <1>4, <1>5, <1>6, <1>10, <1>11, <1>12 DEF IInv

\* Poison makes the guard ready and, like a write, goes on to schedule.
LEMMA PoisonStep ==
  ASSUME IInv, NEW g \in Chans, Poison(g)
  PROVE  IInv'
<1> USE ChannelTypes
<1>0. Types /\ Room /\ Schedulers
  BY DEF IInv
<1>1. /\ wpc[g] = "idle" /\ ~poisoned[g]
      /\ poisoned' = [poisoned EXCEPT ![g] = TRUE]
      /\ UNCHANGED <<altVars, timeVars, alting, held>>
      /\ wpc' = [wpc EXCEPT ![g] = IF alting[g] THEN "schedule" ELSE "idle"]
  BY DEF Poison
<1>2. /\ ~alting[g] => wpc'[g] = "idle"
      /\ alting[g] => wpc'[g] = "schedule"
  BY <1>0, <1>1 DEF Types
<1>3. Types'
  <2>1. poisoned' \in [Chans -> BOOLEAN]
    BY <1>0, <1>1 DEF Types
  <2>2. wpc' \in [Chans -> {"idle", "schedule", "waiting", "taken"}]
    BY <1>0, <1>1, <1>2 DEF Types, TypeOK
  <2> QED
    BY <1>0, <1>1, <2>1, <2>2 DEF Types, TypeOK, altVars, timeVars
<1>4. Room'
  BY <1>0, <1>1 DEF Room, Capacity, Types, TypeOK
<1>5. Schedulers'
  BY <1>0, <1>1, <1>2 DEF Schedulers, Pending, Types, TypeOK
<1>6. \A h \in Guards : IsReady(h) => IsReady(h)'
  BY <1>0, <1>1, Answers DEF Pending, Fired, Types, TypeOK, timeVars
<1>7. Passed' = Passed /\ Before' = Before
  BY <1>1 DEF Passed, EnableOrder, Before, altVars
<1>9. Unmissed'
  BY <1>0, <1>1, <1>2, <1>7, Kinds, Answers
     DEF IInv, Unmissed, Registered, Offers, Pending, Types, TypeOK, altVars
<1>10. Cause'
  BY <1>1, <1>6, <1>7, Kinds DEF IInv, Cause, Offers, altVars
<1>11. Stage' /\ Registered' /\ Alarm' /\ Choice' /\ StillOffered' /\ Priority'
  BY <1>1, <1>6, EnvironmentKeeps DEF altVars, timeVars
<1> QED
  BY <1>3, <1>4, <1>5, <1>9, <1>10, <1>11 DEF IInv

\* The writer schedules: from now on the alt has a cause to disable.
LEMMA ScheduleStep ==
  ASSUME IInv, NEW g \in Chans, Schedule(g)
  PROVE  IInv'
<1> USE ChannelTypes
<1>0. Types /\ Room /\ Schedulers /\ Registered /\ Stage
  BY DEF IInv
<1>1. /\ wpc[g] = "schedule" /\ state' = Scheduled(state)
      /\ UNCHANGED <<apc, mode, pre, next, selected, pos, todo, timeout, time,
                     timerIndex, offered, held, alting, poisoned, timeVars>>
      /\ wpc' = [wpc EXCEPT ![g] = IF poisoned[g] THEN "idle" ELSE Written(g, held[g])]
  BY DEF Schedule
<1>2. alting[g] /\ IsReady(g) /\ held[g] <= Capacity(g)
  BY <1>0, <1>1, Answers DEF Schedulers, Room
<1>3. /\ poisoned[g] => wpc'[g] = "idle"
      /\ ~poisoned[g] => wpc'[g] = Written(g, held[g])
      /\ Written(g, held[g]) \in {"idle", "waiting"}
      /\ Written(g, held[g]) = "idle" => held[g] < Capacity(g)
  BY <1>0, <1>1, <1>2 DEF Types, Written, Capacity
<1>4. state' \in {"ENABLING", "WAITING", "READY", "INACTIVE"}
  BY <1>0, <1>1 DEF Types, TypeOK, Scheduled
<1>5. Types'
  <2>1. wpc' \in [Chans -> {"idle", "schedule", "waiting", "taken"}]
    BY <1>0, <1>1, <1>3 DEF Types, TypeOK
  <2> QED
    BY <1>0, <1>1, <1>4, <2>1 DEF Types, TypeOK, timeVars
<1>6. Room'
  <2> SUFFICES ASSUME NEW h \in Chans
               PROVE  /\ held'[h] <= Capacity(h)
                      /\ wpc'[h] \in {"idle", "taken"} \/ (wpc'[h] = "schedule" /\ poisoned'[h])
                           => held'[h] < Capacity(h)
    BY DEF Room, Capacity
  <2>1. CASE h = g
    BY <1>0, <1>1, <1>2, <1>3, <2>1 DEF Room
  <2>2. CASE h # g
    BY <1>0, <1>1, <2>2 DEF Types, TypeOK, Room
  <2> QED
    BY <2>1, <2>2
<1>7. Schedulers'
  BY <1>0, <1>1, <1>3 DEF Schedulers, Pending, Types
<1>8. \A h \in Guards : IsReady(h) => IsReady(h)'
  BY <1>1, Answers DEF Pending, Fired, timeVars
<1>9. Passed' = Passed /\ Before' = Before
  BY <1>1 DEF Passed, EnableOrder, Before
<1>10. Before => state' = "READY"
  BY <1>0, <1>1 DEF Before, Stage, Scheduled
<1>11. ~Before => state' = state
  BY <1>0, <1>1 DEF Before, Stage, Scheduled, Types, TypeOK
<1>13. Unmissed'
  BY <1>9, <1>10 DEF Unmissed
<1>14. Cause'
  <2>1. Before => pre[g]
    BY <1>0, <1>2 DEF Registered
  <2>2. Before => alting'[g] /\ Offers(g)'
    BY <1>0, <1>1, <1>2, <1>8, <2>1 DEF Offers
  <2> QED
    BY <1>9, <2>2 DEF Cause
<1>15. Stage' /\ Registered' /\ Alarm' /\ Choice' /\ StillOffered' /\ Priority'
  BY <1>1, <1>8, <1>10, <1>11, EnvironmentKeeps DEF timeVars
<1> QED
  BY <1>5, <1>6, <1>7, <1>13, <1>14, <1>15 DEF IInv

\* The writer returns.
LEMMA WriteReturnsStep ==
  ASSUME IInv, NEW g \in Chans, WriteReturns(g)
  PROVE  IInv'
<1>0. Types /\ Room /\ Schedulers
  BY DEF IInv
<1>1. /\ wpc[g] = "taken" /\ wpc' = [wpc EXCEPT ![g] = "idle"]
      /\ UNCHANGED <<altVars, timeVars, held, alting, poisoned>>
  BY DEF WriteReturns
<1>2. Types'
  BY <1>0, <1>1 DEF Types, TypeOK, altVars, timeVars
<1>3. Room' /\ Schedulers'
  BY <1>0, <1>1 DEF Room, Capacity, Types, Schedulers, Pending
<1>4. \A h \in Guards : IsReady(h) <=> IsReady(h)'
  BY <1>1, Answers DEF Pending, Fired, timeVars
<1>5. Unmissed' /\ Cause'
  BY <1>0, <1>1, <1>4, Kinds
     DEF IInv, Types, Unmissed, Cause, Offers, altVars, Passed, EnableOrder, Before
<1>6. Stage' /\ Registered' /\ Alarm' /\ Choice' /\ StillOffered' /\ Priority'
  BY <1>1, <1>4, EnvironmentKeeps DEF altVars, timeVars
<1> QED
  BY <1>2, <1>3, <1>5, <1>6 DEF IInv

\* Time passes: alarms fire and stay fired.
LEMMA TickStep ==
  ASSUME IInv, Tick
  PROVE  IInv'
<1>0. Types
  BY DEF IInv
<1>1. now' = now + 1 /\ UNCHANGED <<altVars, chanVars, alarm>>
  BY DEF Tick
<1>2. Types'
  BY <1>0, <1>1 DEF Types, TypeOK, altVars, chanVars
<1>3. Room' /\ Schedulers'
  BY <1>1 DEF IInv, Room, Capacity, Schedulers, Pending, chanVars
<1>4. /\ \A h \in Guards : IsReady(h) => IsReady(h)'
      /\ \A h \in Chans : IsReady(h) <=> IsReady(h)'
  BY <1>0, <1>1, Answers DEF Types, Pending, Fired, chanVars
<1>5. Unmissed' /\ Cause'
  BY <1>1, <1>4, Kinds
     DEF IInv, Unmissed, Cause, Offers, altVars, chanVars, Passed, EnableOrder, Before
<1>6. Stage' /\ Registered' /\ Alarm' /\ Choice' /\ StillOffered' /\ Priority'
  BY <1>1, <1>4, EnvironmentKeeps DEF altVars, chanVars
<1> QED
  BY <1>2, <1>3, <1>5, <1>6 DEF IInv

-----------------------------------------------------------------------------
(* The selecting process.                                                  *)

\* A select begins with nothing registered and nobody about to schedule.
LEMMA CallSelectStep ==
  ASSUME IInv, CallSelect
  PROVE  IInv'
<1>0. Types /\ Schedulers /\ Registered /\ Alarm
  BY DEF IInv
<1>1. PICK m \in Modes : \E p \in Preconditions(m) : Select(m, p)
  BY DEF CallSelect
<1>2. PICK p \in Preconditions(m) : Select(m, p)
  BY <1>1
<1>3. m \in {"pri", "fair", "fair_pre"} /\ p \in [Guards -> BOOLEAN]
  BY AltAssumption DEF Preconditions
<1>4. /\ apc = "idle" /\ mode' = m /\ pre' = p /\ state' = "ENABLING" /\ pos' = 0
      /\ apc' = "enable" /\ next' = IF m = "pri" THEN 0 ELSE next
      /\ offered' = {g \in Guards : p[g] /\ IsReady(g)}
      /\ UNCHANGED <<selected, todo, timeout, time, timerIndex, chanVars, timeVars>>
  BY <1>2 DEF Select
<1>5. Types'
  <2>1. next' \in 0..G
    BY <1>0, <1>4, Kinds DEF Types, TypeOK
  <2>2. pos' \in 0..G
    BY <1>4, Kinds
  <2> QED
    BY <1>0, <1>3, <1>4, <2>1, <2>2 DEF Types, TypeOK, chanVars, timeVars
<1>6. \A g \in Chans : ~alting[g] /\ wpc[g] # "schedule" /\ ~timeout
  BY <1>0, <1>4 DEF Registered, Schedulers, Alarm
<1>7. Room' /\ Schedulers'
  BY <1>4 DEF IInv, Room, Capacity, Schedulers, Pending, chanVars
<1>8. Passed' = {}
  BY <1>4 DEF Passed
<1>9. Registered'
  BY <1>4, <1>6, <1>8 DEF Registered, chanVars
<1>10. Stage' /\ Cause' /\ Unmissed'
  BY <1>4, <1>8 DEF Stage, Cause, Unmissed
<1>11. Alarm'
  BY <1>0, <1>4 DEF Alarm
<1>12. Choice'
  BY <1>4 DEF Choice, SelectedIsReady
<1>13. \A g \in Guards : IsReady(g)' <=> IsReady(g)
  BY <1>4, Answers DEF Pending, Fired, chanVars, timeVars
<1>14. StillOffered'
  BY <1>4, <1>13 DEF StillOffered, Offers
<1>15. Priority'
  BY <1>4, Kinds DEF Priority, PriorityKept
<1> QED
  BY <1>5, <1>7, <1>9, <1>10, <1>11, <1>12, <1>14, <1>15 DEF IInv

\* When enable_guards moves on, the guard it was at joins those passed.
LEMMA PassOne ==
  ASSUME Types, pos < G, pos' = pos + 1, next' = next
  PROVE  Passed' = Passed \cup {EnableOrder(pos)}
<1>1. pos \in Nat
  BY Kinds DEF Types, TypeOK
<1>2. 0..(pos' - 1) = (0..(pos - 1)) \cup {pos}
  BY <1>1
<1>3. \A n : EnableOrder(n)' = EnableOrder(n)
  BY DEF EnableOrder
<1> QED
  BY <1>2, <1>3 DEF Passed

\* What enabling a guard that takes part and is not ready does.
LEMMA RegisterStep ==
  ASSUME NEW g \in Guards, Types, Register(g)
  PROVE  /\ g \in Chans => /\ alting' = [alting EXCEPT ![g] = TRUE]
                           /\ UNCHANGED <<timeout, time, timerIndex>>
         /\ g \notin Chans => alting' = alting
         /\ \/ UNCHANGED <<timeout, time, timerIndex>>
            \/ g \in Timers /\ timeout' = TRUE /\ time' = alarm[g] /\ timerIndex' = g
<1>1. g \in Chans => g \notin Timers
  BY Kinds
<1>2. g \in Timers => SetTimeout(g) /\ alting' = alting
  BY <1>1, Zenon DEF Register
<1>3. g \in Chans => /\ alting' = [alting EXCEPT ![g] = TRUE]
                     /\ UNCHANGED <<timeout, time, timerIndex>>
  BY <1>1, Zenon DEF Register
<1>4. g \notin Chans /\ g \notin Timers => UNCHANGED <<alting, timeout, time, timerIndex>>
  BY Zenon DEF Register
<1> QED
  BY <1>1, <1>2, <1>3, <1>4 DEF SetTimeout

\* A turn of enable_guards: past a guard that does not take part, on a ready
\* guard, or at one that is registered.
LEMMA EnableGuardStep ==
  ASSUME IInv, EnableGuard
  PROVE  IInv'
<1> DEFINE g == EnableOrder(pos)
<1>0. Types /\ Room /\ Schedulers /\ Registered /\ Stage /\ Unmissed /\ Cause /\ Alarm
      /\ StillOffered /\ Priority
  BY DEF IInv
<1>1. /\ apc = "enable" /\ pos < G /\ Before
      /\ UNCHANGED <<mode, pre, next, todo, offered, held, poisoned, wpc, timeVars>>
  BY DEF EnableGuard, Before
<1>2. pos \in 0..(G - 1) /\ g \in Guards /\ g \notin Passed
  <2>1. pos \in 0..(G - 1)
    BY <1>0, <1>1, Kinds DEF Types, TypeOK
  <2> QED
    BY <1>0, <2>1, EnableOrderVisits DEF Passed
<1> HIDE DEF g
<1>3. \A h \in Guards : /\ IsReady(h)' <=> IsReady(h)
                        /\ Offers(h)' <=> Offers(h)
                        /\ h \in Chans => (Pending(h)' <=> Pending(h))
  BY <1>1, Answers DEF Pending, Fired, timeVars, Offers
<1>4. mode = "pri" => g = pos /\ next = 0
  BY <1>0, <1>1, <1>2, Kinds DEF Priority, g, EnableOrder
<1>5. /\ g \in Chans => ~alting[g]
      /\ pos + 1 \in 0..G
  BY <1>0, <1>1, <1>2, Kinds DEF Registered
<1>6. CASE ~pre[g]
  <2>1. pos' = pos + 1 /\ UNCHANGED <<apc, state, selected, alting, timeout, time, timerIndex>>
    BY <1>6 DEF EnableGuard, g
  <2>2. Passed' = Passed \cup {g}
    BY <1>0, <1>1, <2>1, PassOne DEF g
  <2>3. Types'
    BY <1>0, <1>1, <1>5, <2>1 DEF Types, TypeOK, timeVars
  <2>4. Room' /\ Schedulers'
    BY <1>0, <1>1, <1>3, <2>1, Kinds DEF Room, Capacity, Schedulers
  <2>5. Registered'
    BY <1>0, <1>1, <1>5, <1>6, <2>1, <2>2 DEF Registered, Before
  <2>6. Stage' /\ Alarm'
    BY <1>0, <1>1, <2>1, <1>3 DEF Stage, Alarm, Before, timeVars
  <2>7. Unmissed' /\ Cause'
    BY <1>0, <1>1, <1>3, <1>6, <2>1, <2>2, Kinds DEF Unmissed, Cause, Before, Offers
  <2>8. Choice' /\ StillOffered'
    BY <1>0, <1>1, <1>3, <2>1 DEF Choice, SelectedIsReady, StillOffered, InSelect, Types
  <2>9. Priority'
    <3>1. mode = "pri" => \A o \in offered : pos <= o /\ o # g
      BY <1>0, <1>1, <1>6 DEF Priority, StillOffered, InSelect, Offers
    <3>2. mode = "pri" => \A o \in offered : pos + 1 <= o
      BY <1>0, <1>2, <1>4, <3>1, Kinds DEF Types
    <3> QED
      BY <1>0, <1>1, <2>1, <3>2 DEF Priority, PriorityKept
  <2> QED
    BY <2>3, <2>4, <2>5, <2>6, <2>7, <2>8, <2>9 DEF IInv
<1>7. CASE pre[g] /\ IsReady(g)
  <2>1. /\ selected' = g /\ state' = "READY" /\ apc' = "decide"
        /\ UNCHANGED <<pos, alting, timeout, time, timerIndex>>
    BY <1>7 DEF EnableGuard, g
  <2>2. Passed' = Passed /\ EnableOrder(pos)' = g
    BY <1>1, <2>1 DEF Passed, EnableOrder, g
  <2>3. Types'
    <3>1. /\ selected' \in {NoneSelected} \cup Guards
          /\ apc' \in {"idle", "enable", "decide", "wait", "disable", "selected"}
          /\ state' \in {"ENABLING", "WAITING", "READY", "INACTIVE"}
      BY <1>2, <2>1
    <3> QED
      BY <1>0, <1>1, <2>1, <3>1 DEF Types, TypeOK, timeVars
  <2>4. Room' /\ Schedulers'
    BY <1>0, <1>1, <1>3, <2>1, Kinds DEF Room, Capacity, Schedulers
  <2>5. Registered'
    BY <1>0, <1>1, <2>1, <2>2 DEF Registered, Before
  <2>6. Offers(selected)'
    BY <1>2, <1>3, <1>7, <2>1 DEF Offers
  <2>7. Stage'
    BY <1>1, <2>1, <2>2, <2>6 DEF Stage
  <2>8. Alarm' /\ Unmissed' /\ Cause'
    BY <1>0, <1>1, <1>2, <2>1, Kinds
       DEF Alarm, Unmissed, Cause, Before, timeVars, NoneSelected
  <2>9. Choice' /\ StillOffered'
    BY <1>0, <1>1, <1>3, <2>1 DEF Choice, SelectedIsReady, StillOffered, InSelect, Types
  <2>10. Priority'
    BY <1>0, <1>1, <2>1 DEF Priority, PriorityKept, Before
  <2> QED
    BY <2>3, <2>4, <2>5, <2>7, <2>8, <2>9, <2>10 DEF IInv
<1>8. CASE pre[g] /\ ~IsReady(g)
  <2>1. Register(g) /\ pos' = pos + 1 /\ UNCHANGED <<apc, state, selected>> /\ ~Locked(g)
    BY <1>8 DEF EnableGuard, g
  <2>2. Passed' = Passed \cup {g}
    BY <1>0, <1>1, <2>1, PassOne DEF g
  <2>3. /\ g \in Chans => /\ alting' = [alting EXCEPT ![g] = TRUE]
                          /\ UNCHANGED <<timeout, time, timerIndex>>
        /\ g \notin Chans => alting' = alting
        /\ \/ UNCHANGED <<timeout, time, timerIndex>>
           \/ g \in Timers /\ timeout' = TRUE /\ time' = alarm[g] /\ timerIndex' = g
    BY <1>0, <1>2, <2>1, RegisterStep
  <2>4. Types'
    <3>1. alting' \in [Chans -> BOOLEAN]
      BY <1>0, <2>3 DEF Types
    <3>2. timeout' \in BOOLEAN
      BY <1>0, <2>3 DEF Types
    <3>3. time' \in Int
      BY <1>0, <2>3 DEF Types
    <3>4. timerIndex' \in {-1} \cup Timers
      BY <1>0, <2>3 DEF Types, TypeOK
    <3> QED
      BY <1>0, <1>1, <1>5, <2>1, <3>1, <3>2, <3>3, <3>4 DEF Types, TypeOK, timeVars
  <2>5. /\ \A h \in Chans : h # g => alting'[h] = alting[h]
        /\ g \in Chans => alting'[g]
    BY <1>0, <2>3 DEF Types
  <2>6. Room' /\ Schedulers'
    BY <1>0, <1>1, <1>3, <2>5, Kinds DEF Room, Capacity, Schedulers
  <2>7. Registered'
    BY <1>0, <1>1, <1>8, <2>1, <2>2, <2>5 DEF Registered, Before
  <2>8. Stage'
    BY <1>0, <1>1, <2>1 DEF Stage
  <2>9. Alarm'
    BY <1>0, <1>1, <1>8, <2>1, <2>3 DEF Alarm, Before, timeVars
  <2>10. Unmissed'
    BY <1>0, <1>1, <1>3, <1>8, <2>1, <2>2, Kinds DEF Unmissed, Before, Offers
  <2>11. Cause'
    BY <1>0, <1>1, <1>3, <1>5, <2>1, <2>5, Kinds DEF Cause, Before
  <2>12. Choice' /\ StillOffered'
    BY <1>0, <1>1, <1>3, <2>1 DEF Choice, SelectedIsReady, StillOffered, InSelect, Types
  <2>13. Priority'
    <3>1. mode = "pri" => \A o \in offered : pos <= o /\ o # g
      BY <1>0, <1>1, <1>8 DEF Priority, StillOffered, InSelect, Offers
    <3>2. mode = "pri" => \A o \in offered : pos + 1 <= o
      BY <1>0, <1>2, <1>4, <3>1, Kinds DEF Types
    <3> QED
      BY <1>0, <1>1, <2>1, <3>2 DEF Priority, PriorityKept
  <2> QED
    BY <2>4, <2>6, <2>7, <2>8, <2>9, <2>10, <2>11, <2>12, <2>13 DEF IInv
<1>9. pre[g] \in BOOLEAN
  BY <1>0, <1>2 DEF Types
<1> QED
  BY <1>6, <1>7, <1>8, <1>9

\* enable_guards is through and has found no ready guard.
LEMMA NoneReadyStep ==
  ASSUME IInv, NoneReady
  PROVE  IInv'
<1>0. Types /\ Stage /\ Priority /\ Cause /\ Unmissed /\ Alarm /\ Registered /\ StillOffered
  BY DEF IInv
<1>1. /\ apc = "enable" /\ pos = G /\ selected' = NoneSelected /\ apc' = "decide"
      /\ UNCHANGED <<mode, pre, state, next, pos, todo, timeout, time, timerIndex,
                     offered, chanVars, timeVars>>
  BY DEF NoneReady
<1>2. Types'
  BY <1>0, <1>1 DEF Types, TypeOK, chanVars, timeVars
<1>3. Passed' = Passed /\ Before /\ Before' /\ InSelect
  BY <1>1 DEF Passed, EnableOrder, Before, InSelect
<1>4. \A h : Offers(h)' <=> Offers(h)
  BY <1>1, Answers DEF Offers, Pending, Fired, chanVars, timeVars
<1>5. Room' /\ Schedulers' /\ Registered'
  BY <1>1, <1>3 DEF IInv, Room, Capacity, Schedulers, Pending, Registered, chanVars
<1>6. Stage' /\ Alarm'
  BY <1>0, <1>1, <1>3 DEF Stage, Alarm, timeVars
<1>7. Unmissed' /\ Cause'
  BY <1>0, <1>1, <1>3, <1>4 DEF Unmissed, Cause, chanVars
<1>8. Choice' /\ StillOffered' /\ Priority'
  BY <1>0, <1>1, <1>3, <1>4
     DEF Choice, SelectedIsReady, StillOffered, Priority, PriorityKept
<1> QED
  BY <1>2, <1>5, <1>6, <1>7, <1>8 DEF IInv

\* The guards passed are all among those to be disabled.
LEMMA PassedAreDisabled ==
  ASSUME IInv, apc = "decide"
  PROVE  /\ DisableOrder(G, next, selected) \in Seq(Guards)
         /\ \A g \in Passed : \E i \in 1..Len(DisableOrder(G, next, selected)) :
               DisableOrder(G, next, selected)[i] = g
<1>0. Types /\ Stage
  BY DEF IInv
<1>1. selected \in -1..(G - 1) /\ next \in 0..G /\ G \in Nat \ {0} /\ Guards = 0..(G - 1)
  BY <1>0, Kinds DEF Types, TypeOK, Guards, NoneSelected
<1>2. ASSUME NEW g \in Passed PROVE Enabled(next, selected, g)
  <2>1. CASE selected = NoneSelected
    BY <2>1 DEF Enabled
  <2>2. CASE selected # NoneSelected
    <3>1. PICK n \in 0..(pos - 1) : g = EnableOrder(n)
      BY DEF Passed
    <3>2. pos < G /\ selected = EnableOrder(pos) /\ pos \in 0..G
      BY <1>0, <2>2 DEF Stage, Types, TypeOK
    <3> QED
      BY <1>1, <3>1, <3>2 DEF Enabled, EnableOrder
  <2> QED
    BY <2>1, <2>2
<1>3. Passed \subseteq 0..(G - 1)
  BY <1>0, <1>1, EnableOrderVisits
<1>4. /\ DisableOrder(G, next, selected) \in Seq(0..(G - 1))
      /\ \A g \in 0..(G - 1) : Enabled(next, selected, g) =>
            \E i \in 1..Len(DisableOrder(G, next, selected)) :
               DisableOrder(G, next, selected)[i] = g
  BY <1>1, DisablesEnabled
<1> QED
  BY <1>1, <1>2, <1>3, <1>4

\* Wait, or disable at once: what has been registered is still to be disabled.
LEMMA DecideStep ==
  ASSUME IInv, Decide
  PROVE  IInv'
<1>0. Types /\ Stage /\ Priority /\ Cause /\ Unmissed /\ Alarm /\ Registered /\ StillOffered
  BY DEF IInv
<1>1. /\ apc = "decide" /\ todo' = DisableOrder(G, next, selected)
      /\ \/ state = "ENABLING" /\ state' = "WAITING" /\ apc' = "wait"
         \/ state # "ENABLING" /\ state' = state /\ apc' = "disable"
      /\ UNCHANGED <<mode, pre, next, selected, pos, timeout, time, timerIndex,
                     offered, chanVars, timeVars>>
  BY DEF Decide
<1>2. todo' \in Seq(Guards) /\ \A g \in Passed : \E i \in 1..Len(todo') : todo'[i] = g
  BY <1>1, PassedAreDisabled
<1>3. \A i \in 1..Len(todo') : todo'[i] \in Guards
  BY <1>2
<1>4. Types'
  BY <1>0, <1>1, <1>2, <1>3 DEF Types, TypeOK, chanVars, timeVars
<1>5. Passed' = Passed /\ Before /\ InSelect
  BY <1>1 DEF Passed, EnableOrder, Before, InSelect
<1>6. \A h : Offers(h)' <=> Offers(h)
  BY <1>1, Answers DEF Offers, Pending, Fired, chanVars, timeVars
<1>7. Room' /\ Schedulers'
  BY <1>1 DEF IInv, Room, Capacity, Schedulers, Pending, chanVars
<1>8. Registered'
  BY <1>0, <1>1, <1>2, <1>5 DEF Registered, chanVars, Before
<1>9. Stage'
  <2>1. apc' = "wait" => selected = NoneSelected /\ pos = G
    BY <1>0, <1>1 DEF Stage
  <2>2. apc' = "wait" => \A g \in Guards : \E i \in 1..Len(todo') : todo'[i] = g
    BY <1>0, <1>2, <2>1, EnableOrderVisits
  <2> QED
    BY <1>0, <1>1, <2>1, <2>2 DEF Stage
<1>10. Alarm' /\ Unmissed' /\ Cause'
  BY <1>0, <1>1, <1>5, <1>6 DEF Alarm, Unmissed, Cause, Before, chanVars, timeVars
<1>11. Choice'
  <2> SUFFICES ASSUME apc' = "disable"
               PROVE  \/ selected' \in Guards /\ Offers(selected)'
                      \/ /\ selected' = NoneSelected
                         /\ \E i \in 1..Len(todo') : Offers(todo[i])'
    BY <1>1 DEF Choice, SelectedIsReady
  <2>1. CASE selected = NoneSelected
    <3>1. PICK g \in Chans : alting[g] /\ Offers(g)
      BY <1>0, <1>1, <1>5, <2>1 DEF Cause, Stage
    <3>2. PICK i \in 1..Len(todo') : todo'[i] = g
      BY <1>0, <1>2, <1>5, <3>1 DEF Registered
    <3>3. Offers(todo[i])'
      BY <1>1, <1>6, <3>1, <3>2, Answers DEF Offers, Pending, Fired, chanVars, timeVars
    <3> QED
      BY <1>1, <2>1, <3>3
  <2>2. CASE selected # NoneSelected
    <3>1. Offers(selected) /\ selected \in Guards
      BY <1>0, <1>1, <2>2 DEF Stage, Types, TypeOK
    <3>2. Offers(selected)'
      BY <1>1, <3>1, Answers DEF Offers, Pending, Fired, chanVars, timeVars
    <3> QED
      BY <1>1, <3>1, <3>2
  <2> QED
    BY <2>1, <2>2
<1>12. StillOffered'
  BY <1>0, <1>1, <1>5, <1>6 DEF StillOffered
<1>13. Priority'
  <2>1. PriorityKept' /\ (mode' = "pri" /\ Before' => next' = 0 /\ \A o \in offered' : pos' <= o)
    BY <1>0, <1>1, <1>5 DEF Priority, PriorityKept
  <2>2. ASSUME mode = "pri", apc' = "disable", NEW o \in offered
        PROVE  \/ /\ selected # NoneSelected /\ selected <= o
                  /\ \A i \in 1..Len(todo') : todo'[i] <= o
               \/ \E i \in 1..Len(todo') : EndsAt(i, o)'
    <3>1. next = 0 /\ pos <= o /\ o \in Guards
      BY <1>0, <1>5, <2>2 DEF Priority, Types
    <3>2. /\ selected \in 0..(G - 1) /\ selected # NoneSelected /\ selected <= o
          /\ Offers(selected) /\ o \in Int
      BY <1>0, <1>1, <3>1, Kinds
         DEF Stage, EnableOrder, Types, TypeOK, NoneSelected, Guards
    <3>3. \/ \A i \in 1..Len(todo') : todo'[i] <= selected
          \/ \E i \in 1..Len(todo') : /\ todo'[i] = selected
                                      /\ \A j \in (i + 1)..Len(todo') : todo'[j] <= selected
      BY <1>1, <3>1, <3>2, Kinds, PriorityWalk
    <3>4. \A i \in 1..Len(todo') : todo'[i] \in Int
      BY <1>3, Kinds
    <3>5. CASE \A i \in 1..Len(todo') : todo'[i] <= selected
      BY <3>2, <3>4, <3>5
    <3>6. ASSUME NEW i \in 1..Len(todo'), todo'[i] = selected,
                 \A j \in (i + 1)..Len(todo') : todo'[j] <= selected
          PROVE  EndsAt(i, o)'
      <4>1. \A j \in (i + 1)..Len(todo') : todo'[j] <= o
        <5>1. Len(todo') \in Nat
          BY <1>2
        <5> QED
          BY <3>2, <3>4, <3>6, <5>1
      <4>2. Offers(todo[i])' /\ todo'[i] <= o
        BY <1>1, <3>2, <3>6, Answers DEF Offers, Pending, Fired, chanVars, timeVars
      <4> QED
        BY <4>1, <4>2 DEF EndsAt
    <3> QED
      BY <3>3, <3>5, <3>6
  <2> QED
    BY <1>1, <2>1, <2>2 DEF Priority
<1> QED
  BY <1>4, <1>7, <1>8, <1>9, <1>10, <1>11, <1>12, <1>13 DEF IInv

\* The wait ends because a guard is ready, the one that has scheduled the alt
\* or the timer whose alarm it was, and all guards are to be disabled.
LEMMA WakeStep ==
  ASSUME IInv, Wake
  PROVE  IInv'
<1>0. Types /\ Stage /\ Priority /\ Cause /\ Alarm /\ Registered /\ StillOffered
  BY DEF IInv
<1>1. /\ apc = "wait" /\ state' = "READY" /\ apc' = "disable"
      /\ state = "READY" \/ (timeout /\ time <= now)
      /\ UNCHANGED <<mode, pre, next, selected, pos, todo, timeout, time,
                     timerIndex, offered, chanVars, timeVars>>
  BY DEF Wake
<1>2. /\ Before /\ InSelect /\ ~Before' /\ selected = NoneSelected /\ pos = G
      /\ \A g \in Guards : \E i \in 1..Len(todo) : todo[i] = g
  BY <1>0, <1>1 DEF Before, InSelect, Stage
<1>3. Types'
  BY <1>0, <1>1 DEF Types, TypeOK, chanVars, timeVars
<1>4. \A h : Offers(h)' <=> Offers(h)
  BY <1>1, Answers DEF Offers, Pending, Fired, chanVars, timeVars
<1>5. Room' /\ Schedulers'
  BY <1>1 DEF IInv, Room, Capacity, Schedulers, Pending, chanVars
<1>6. Registered'
  BY <1>0, <1>1, <1>2, Kinds DEF Registered, chanVars, Before
<1>7. Stage' /\ Alarm' /\ Unmissed' /\ Cause'
  BY <1>1, <1>2 DEF Stage, Alarm, Unmissed, Cause
<1>8. Choice'
  <2>1. PICK g \in Guards : Offers(g)
    <3>1. CASE state = "READY"
      BY <1>0, <1>1, <1>2, <3>1, Kinds DEF Cause
    <3>2. CASE timeout /\ time <= now
      BY <1>0, <1>2, <3>2, Kinds, Answers DEF Alarm, Offers, Fired
    <3> QED
      BY <1>1, <3>1, <3>2
  <2>2. PICK i \in 1..Len(todo) : todo[i] = g
    BY <1>2
  <2>3. Offers(todo[i])'
    BY <1>1, <2>1, <2>2, Answers DEF Offers, Pending, Fired, chanVars, timeVars
  <2> QED
    BY <1>1, <1>2, <2>3 DEF Choice, SelectedIsReady
<1>9. StillOffered'
  BY <1>0, <1>1, <1>2, <1>4 DEF StillOffered
<1>10. Priority'
  <2>1. mode = "pri" => offered = {}
    BY <1>0, <1>2, Kinds DEF Priority, Types
  <2> QED
    BY <1>1, <1>2, <2>1 DEF Priority, PriorityKept
<1> QED
  BY <1>3, <1>5, <1>6, <1>7, <1>8, <1>9, <1>10 DEF IInv

\* A turn of disable_guards.
LEMMA DisableGuardStep ==
  ASSUME IInv, DisableGuard
  PROVE  IInv'
<1> DEFINE g == Head(todo)
<1>0. Types /\ Schedulers /\ Registered /\ Stage /\ Choice /\ StillOffered /\ Priority
  BY DEF IInv
<1>1. /\ apc = "disable" /\ todo # << >> /\ todo' = Tail(todo)
      /\ UNCHANGED <<apc, mode, pre, state, next, pos, timeout, time, timerIndex,
                     offered, held, poisoned, wpc, timeVars>>
  BY DEF DisableGuard
<1>2. /\ ~pre[g] => selected' = selected /\ alting' = alting
      /\ pre[g] => /\ ~Locked(g)
                   /\ alting' = IF g \in Chans THEN [alting EXCEPT ![g] = FALSE] ELSE alting
                   /\ selected' = IF IsReady(g) THEN g ELSE selected
  BY DEF DisableGuard
<1>3. /\ todo \in Seq(Guards) /\ todo' \in Seq(Guards) /\ Len(todo) \in Nat /\ Len(todo) > 0
      /\ g = todo[1] /\ g \in Guards /\ Len(todo') = Len(todo) - 1
      /\ \A i \in 1..Len(todo') : todo'[i] = todo[i + 1]
  BY <1>0, <1>1 DEF Types
<1> HIDE DEF g
<1>4. \A i \in 2..Len(todo) : i - 1 \in 1..Len(todo') /\ todo'[i - 1] = todo[i]
  BY <1>3
<1>5. \A i \in 1..Len(todo') : i + 1 \in 1..Len(todo) /\ todo'[i] \in Guards
  BY <1>3
<1>6. \A h \in Guards : Offers(h)' <=> Offers(h)
  BY <1>1, Answers DEF Offers, Pending, Fired, timeVars
<1>7. /\ selected' \in {NoneSelected} \cup Guards
      /\ Offers(g) => selected' = g
      /\ ~Offers(g) => selected' = selected
  BY <1>0, <1>2, <1>3 DEF Types, TypeOK, Offers
<1>8. /\ alting' \in [Chans -> BOOLEAN]
      /\ \A h \in Chans : h # g \/ ~pre[g] => alting'[h] = alting[h]
      /\ g \in Chans /\ pre[g] => ~alting'[g] /\ wpc[g] # "schedule"
  BY <1>0, <1>2, <1>3 DEF Types, Locked
<1>9. Types'
  BY <1>0, <1>1, <1>3, <1>5, <1>7, <1>8 DEF Types, TypeOK, timeVars
<1>10. Room'
  BY <1>1 DEF IInv, Room, Capacity
<1>11. Schedulers'
  BY <1>0, <1>1, <1>8 DEF Schedulers, Pending, Registered
<1>12. Registered'
  <2> SUFFICES ASSUME NEW h \in Chans, alting'[h]
               PROVE  pre[h] /\ \E i \in 1..Len(todo') : todo'[i] = h
    BY <1>1 DEF Registered, Before
  <2>1. alting[h] /\ (h # g \/ ~pre[g])
    BY <1>8
  <2>2. pre[h] /\ \E i \in 1..Len(todo) : todo[i] = h
    BY <1>0, <1>1, <2>1 DEF Registered
  <2>3. PICK i \in 1..Len(todo) : todo[i] = h
    BY <2>2
  <2>4. i \in 2..Len(todo)
    BY <1>3, <2>1, <2>2, <2>3
  <2> QED
    BY <1>4, <2>2, <2>3, <2>4
<1>13. Stage' /\ Unmissed' /\ Cause'
  BY <1>0, <1>1 DEF Stage, Unmissed, Cause, Before
<1>14. Alarm'
  BY <1>1 DEF Alarm, Before
<1>15. Choice'
  <2> SUFFICES \/ selected' \in Guards /\ Offers(selected)'
               \/ /\ selected' = NoneSelected
                  /\ \E i \in 1..Len(todo') : Offers(todo[i])'
    BY <1>1 DEF Choice, SelectedIsReady
  <2>1. CASE Offers(g)
    <3>1. PICK h \in Guards : h = g
      BY <1>3
    <3>2. selected' = h /\ Offers(h)'
      BY <1>6, <1>7, <2>1, <3>1
    <3> QED
      BY <3>2 DEF Offers
  <2>2. CASE ~Offers(g) /\ selected \in Guards /\ Offers(selected)
    BY <1>1, <1>6, <1>7, <2>2 DEF Offers
  <2>3. CASE ~Offers(g) /\ selected = NoneSelected /\ \E i \in 1..Len(todo) : Offers(todo[i])
    <3>1. PICK i \in 1..Len(todo) : Offers(todo[i])
      BY <2>3
    <3>2. i \in 2..Len(todo)
      BY <1>3, <2>3, <3>1
    <3>3. i - 1 \in 1..Len(todo') /\ todo'[i - 1] = todo[i] /\ todo[i] \in Guards
      BY <1>3, <1>4, <3>2
    <3>4. Offers(todo[i - 1])'
      BY <1>6, <3>1, <3>3 DEF Offers
    <3> QED
      BY <1>7, <2>3, <3>3, <3>4
  <2> QED
    BY <1>0, <1>1, <2>1, <2>2, <2>3 DEF Choice
<1>16. StillOffered'
  BY <1>0, <1>1, <1>6 DEF StillOffered, InSelect, Types
<1>17. Priority'
  <2> SUFFICES ASSUME mode = "pri", NEW o \in offered
               PROVE  \/ /\ selected' # NoneSelected /\ selected' <= o
                         /\ \A i \in 1..Len(todo') : todo'[i] <= o
                      \/ \E i \in 1..Len(todo') : EndsAt(i, o)'
    BY <1>1 DEF Priority, PriorityKept, Before
  <2>1. CASE /\ selected # NoneSelected /\ selected <= o
             /\ \A i \in 1..Len(todo) : todo[i] <= o
    <3>1. \A i \in 1..Len(todo') : todo'[i] <= o
      BY <1>3, <1>5, <2>1
    <3>2. selected' # NoneSelected /\ selected' <= o
      BY <1>3, <1>7, <2>1, Kinds DEF NoneSelected
    <3> QED
      BY <3>1, <3>2
  <2>2. ASSUME NEW i \in 1..Len(todo), EndsAt(i, o), i # 1
        PROVE  \E j \in 1..Len(todo') : EndsAt(j, o)'
    <3>1. i - 1 \in 1..Len(todo') /\ todo'[i - 1] = todo[i] /\ todo[i] \in Guards
      BY <1>3, <1>4, <2>2
    <3>2. Offers(todo[i - 1])' /\ todo'[i - 1] <= o
      BY <1>6, <2>2, <3>1 DEF Offers, EndsAt
    <3>3. \A j \in ((i - 1) + 1)..Len(todo') : todo'[j] <= o
      BY <1>3, <2>2 DEF EndsAt
    <3>4. EndsAt(i - 1, o)'
      BY <3>2, <3>3 DEF EndsAt
    <3> QED
      BY <3>1, <3>4
  <2>3. ASSUME EndsAt(1, o)
        PROVE  /\ selected' # NoneSelected /\ selected' <= o
               /\ \A i \in 1..Len(todo') : todo'[i] <= o
    <3>1. selected' = g /\ g <= o
      BY <1>3, <1>7, <2>3 DEF EndsAt
    <3>2. \A i \in 1..Len(todo') : todo'[i] <= o
      BY <1>3, <2>3 DEF EndsAt
    <3> QED
      BY <1>3, <3>1, <3>2, Kinds DEF NoneSelected
  <2> QED
    BY <1>0, <1>1, <2>1, <2>2, <2>3 DEF Priority
<1> QED
  BY <1>9, <1>10, <1>11, <1>12, <1>13, <1>14, <1>15, <1>16, <1>17 DEF IInv

\* disable_guards is through: it has chosen a ready guard, so the fallback to
\* the timer's index is never needed, and nothing is left registered.
LEMMA FinishStep ==
  ASSUME IInv, Finish
  PROVE  IInv'
<1>0. Types /\ Schedulers /\ Registered /\ Stage /\ Choice /\ StillOffered /\ Priority
  BY DEF IInv
<1>1. /\ apc = "disable" /\ todo = << >>
      /\ selected' = IF selected = NoneSelected THEN timerIndex ELSE selected
      /\ next' = IF mode = "pri" THEN next ELSE NextPriority(selected')
      /\ state' = "INACTIVE" /\ timeout' = FALSE /\ apc' = "selected"
      /\ UNCHANGED <<mode, pre, pos, todo, time, timerIndex, offered, chanVars, timeVars>>
  BY DEF Finish
<1>2. Len(todo) = 0
  BY <1>1
<1>3. selected \in Guards /\ Offers(selected) /\ selected # NoneSelected
  BY <1>0, <1>1, <1>2, Kinds DEF Choice, NoneSelected
<1>4. selected' = selected
  BY <1>1, <1>3
<1>5. next' \in 0..G
  BY <1>0, <1>1, <1>3, <1>4, Kinds DEF Types, TypeOK, NextPriority
<1>6. Types'
  BY <1>0, <1>1, <1>4, <1>5 DEF Types, TypeOK, chanVars, timeVars
<1>7. Room' /\ Schedulers'
  BY <1>1 DEF IInv, Room, Capacity, Schedulers, Pending, chanVars
<1>8. Registered'
  BY <1>0, <1>1, <1>2 DEF Registered, chanVars, Before
<1>9. Stage' /\ Alarm' /\ Unmissed' /\ Cause' /\ StillOffered'
  BY <1>1 DEF Stage, Alarm, Unmissed, Cause, StillOffered, Before, InSelect
<1>10. Choice'
  <2>1. pre'[selected'] /\ IsReady(selected)'
    BY <1>1, <1>3, <1>4, Answers DEF Offers, Pending, Fired, chanVars, timeVars
  <2> QED
    BY <1>1, <1>3, <1>4, <2>1 DEF Choice, SelectedIsReady
<1>11. Priority'
  <2>1. mode = "pri" => \A o \in offered : selected <= o
    BY <1>0, <1>1, <1>2 DEF Priority
  <2> QED
    BY <1>1, <1>4, <2>1 DEF Priority, PriorityKept, Before
<1> QED
  BY <1>6, <1>7, <1>8, <1>9, <1>10, <1>11 DEF IInv

\* Outside a select nothing depends on what the guards answer.
LEMMA ActStep ==
  ASSUME IInv, Act
  PROVE  IInv'
<1> USE ChannelTypes
<1>0. Types /\ Room /\ Schedulers /\ Registered /\ Stage /\ Alarm
  BY DEF IInv
<1>1. /\ apc = "selected" /\ apc' = "idle"
      /\ UNCHANGED <<mode, pre, state, next, selected, pos, todo, timeout, time,
                     timerIndex, offered, alting, poisoned, now>>
  BY DEF Act
<1>2. /\ Registered' /\ Stage' /\ Alarm' /\ Unmissed' /\ Cause' /\ Choice'
      /\ StillOffered' /\ Priority'
  BY <1>0, <1>1 DEF Registered, Stage, Alarm, Unmissed, Cause, Choice, StillOffered,
     Priority, Before, InSelect, SelectedIsReady, PriorityKept
<1>3. \A g \in Chans : wpc[g] # "schedule"
  BY <1>0, <1>1 DEF Schedulers, Registered
<1>4. CASE /\ selected \in Chans /\ alarm' = alarm
           /\ IF poisoned[selected]
              THEN UNCHANGED <<held, wpc>>
              ELSE /\ held' = [held EXCEPT ![selected] = @ - 1]
                   /\ wpc' = [wpc EXCEPT ![selected] = IF @ = "waiting" THEN "taken" ELSE @]
  <2>1. CASE poisoned[selected]
    <3>1. held' = held /\ wpc' = wpc
      BY <1>4, <2>1
    <3>2. Types' /\ Room' /\ Schedulers'
      BY <1>0, <1>1, <1>4, <3>1
         DEF Types, TypeOK, Room, Capacity, Schedulers, Pending
    <3> QED
      BY <1>2, <3>2 DEF IInv
  <2>2. CASE ~poisoned[selected]
    <3>1. /\ held' = [held EXCEPT ![selected] = @ - 1]
          /\ wpc' = [wpc EXCEPT ![selected] = IF @ = "waiting" THEN "taken" ELSE @]
      BY <1>4, <2>2
    <3>2. held[selected] > 0
      BY <1>1, <1>4, <2>2, Answers DEF IInv, Choice, SelectedIsReady, Pending
    <3>3. held' \in [Chans -> 0..BufSize]
      BY <1>0, <1>4, <3>1, <3>2, Kinds DEF Types, TypeOK
    <3>4. wpc' \in [Chans -> {"idle", "schedule", "waiting", "taken"}]
      BY <1>0, <1>4, <3>1 DEF Types
    <3>5. Types'
      BY <1>0, <1>1, <1>4, <3>3, <3>4 DEF Types, TypeOK
    <3>6. Schedulers'
      BY <1>0, <1>3, <1>4, <3>1 DEF Schedulers, Types
    <3>7. Room'
      <4> SUFFICES ASSUME NEW h \in Chans
                   PROVE  /\ held'[h] <= Capacity(h)
                          /\ wpc'[h] \in {"idle", "taken"} \/ (wpc'[h] = "schedule" /\ poisoned'[h])
                               => held'[h] < Capacity(h)
        BY DEF Room, Capacity
      <4>1. CASE h = selected
        BY <1>0, <1>4, <3>1, <3>2, <4>1 DEF Room, Types, TypeOK
      <4>2. CASE h # selected
        BY <1>0, <1>1, <1>4, <3>1, <4>2 DEF Room, Types, TypeOK
      <4> QED
        BY <4>1, <4>2
    <3> QED
      BY <1>2, <3>5, <3>6, <3>7 DEF IInv
  <2>3. poisoned[selected] \in BOOLEAN
    BY <1>0, <1>4
  <2> QED
    BY <2>1, <2>2, <2>3
<1>5. CASE /\ selected \in Timers /\ UNCHANGED <<held, wpc>>
           /\ \E t \in now..MaxTime : alarm' = [alarm EXCEPT ![selected] = t]
  <2>1. alarm' \in [Timers -> Int]
    BY <1>0, <1>5 DEF Types
  <2>2. Types' /\ Room' /\ Schedulers'
    BY <1>0, <1>1, <1>5, <2>1 DEF Types, TypeOK, Room, Capacity, Schedulers, Pending
  <2> QED
    BY <1>2, <2>2 DEF IInv
<1> QED
  BY <1>4, <1>5 DEF Act

-----------------------------------------------------------------------------
(* The theorems.                                                           *)

\* The constructor establishes the invariant.
LEMMA InitInv == Init => IInv
<1> SUFFICES ASSUME Init PROVE IInv
  OBVIOUS
<1>1. alarm \in [Timers -> Int]
  BY DEF Init
<1>2. Types
  <2>1. /\ pre \in [Guards -> BOOLEAN] /\ alting \in [Chans -> BOOLEAN]
        /\ poisoned \in [Chans -> BOOLEAN]
    BY DEF Init
  <2>2. wpc \in [Chans -> {"idle", "schedule", "waiting", "taken"}]
    BY DEF Init
  <2>3. held \in [Chans -> 0..BufSize] /\ next \in 0..G /\ pos \in 0..G
    BY Kinds DEF Init
  <2>4. todo \in Seq(Guards) /\ Len(todo) = 0
    BY DEF Init
  <2>5. TypeOK
    BY <2>2, <2>3, <2>4 DEF Init, TypeOK
  <2>6. timeout \in BOOLEAN
    BY Zenon DEF Init
  <2>7. time \in Int /\ now \in Nat
    BY DEF Init
  <2>8. mode \in {"pri", "fair", "fair_pre"} /\ offered \in SUBSET Guards
    BY DEF Init
  <2> QED
    BY <1>1, <2>1, <2>2, <2>4, <2>5, <2>6, <2>7, <2>8 DEF Types
<1>3. Room
  BY Kinds DEF Init, Room, Capacity
<1>4. Schedulers /\ Registered /\ Stage /\ Unmissed /\ Cause
  BY DEF Init, Schedulers, Registered, Stage, Unmissed, Cause, Before
<1>5. Alarm /\ Choice /\ StillOffered /\ Priority
  BY DEF Init, Alarm, Choice, StillOffered, Priority, Before, InSelect,
     SelectedIsReady, PriorityKept
<1> QED
  BY <1>2, <1>3, <1>4, <1>5 DEF IInv

\* Every step keeps the invariant.
LEMMA NextInv == IInv /\ [Next]_vars => IInv'
<1> SUFFICES ASSUME IInv, [Next]_vars PROVE IInv'
  OBVIOUS
<1>1. CASE UNCHANGED vars
  <2> USE <1>1 DEF vars, altVars, chanVars, timeVars
  <2>1. /\ Passed' = Passed /\ Before' = Before
        /\ \A g \in Guards : IsReady(g)' <=> IsReady(g)
    BY Answers DEF Passed, EnableOrder, Before, Pending, Fired
  <2>2. Stage' /\ Registered' /\ Alarm' /\ Choice' /\ StillOffered' /\ Priority'
    BY <2>1, EnvironmentKeeps
  <2>3. Types' /\ Room' /\ Schedulers'
    BY DEF IInv, Types, TypeOK, Room, Capacity, Schedulers, Pending
  <2>4. Unmissed' /\ Cause'
    BY <2>1, Kinds DEF IInv, Unmissed, Cause, Offers
  <2> QED
    BY <2>2, <2>3, <2>4 DEF IInv
<1>2. CASE \E g \in Chans : Write(g) \/ Poison(g) \/ Schedule(g) \/ WriteReturns(g)
  BY <1>2, WriteStep, PoisonStep, ScheduleStep, WriteReturnsStep
<1>3. CASE Tick
  BY <1>3, TickStep
<1>4. CASE CallSelect
  BY <1>4, CallSelectStep
<1>5. CASE Selecting
  BY <1>5, EnableGuardStep, NoneReadyStep, DecideStep, WakeStep, DisableGuardStep,
     FinishStep DEF Selecting
<1>6. CASE Act
  BY <1>6, ActStep
<1> QED
  BY <1>1, <1>2, <1>3, <1>4, <1>5, <1>6 DEF Next

\* The inductive invariant holds in every state of every selection.
THEOREM Inductive == Spec => []IInv
BY InitInv, NextInv, PTL DEF Spec

\* The indices and counters stay in range: a selection that starts at _next
\* never comes to a guard that does not exist, and no write finds a full
\* channel.
THEOREM TypeCorrect == Spec => []TypeOK
<1>1. IInv => TypeOK
  BY DEF IInv, Types
<1> QED
  BY <1>1, Inductive, PTL

\* select returns a guard that takes part and is ready, whatever the writers
\* and the clock did while the guards were enabled and disabled.
THEOREM ReturnsReady == Spec => []SelectedIsReady
<1>1. IInv => SelectedIsReady
  BY DEF IInv, Choice
<1> QED
  BY <1>1, Inductive, PTL

\* No wakeup is lost between the last enable and the wait.
THEOREM WakeupKept == Spec => []NoLostWakeup
<1>1. IInv => NoLostWakeup
  <2> SUFFICES ASSUME IInv, apc = "wait", state = "WAITING",
                      NEW g \in Chans, pre[g], IsReady(g)
               PROVE  wpc[g] = "schedule"
    BY DEF NoLostWakeup
  <2>1. Types /\ pos = G
    BY DEF IInv, Stage
  <2>2. g \in Passed
    BY <2>1, Kinds, EnableOrderVisits
  <2> QED
    BY <2>2 DEF IInv, Unmissed, Before, Offers
<1> QED
  BY <1>1, Inductive, PTL

\* Between selections no channel has the alt registered and no writer is
\* about to schedule it.
THEOREM AllDisabled == Spec => []NothingLeftEnabled
<1>1. IInv => NothingLeftEnabled
  BY DEF IInv, NothingLeftEnabled, Registered, Schedulers, Locked
<1> QED
  BY <1>1, Inductive, PTL

\* pri_select returns a guard of at least the priority of every guard that
\* was ready when it was called.
THEOREM PriorityHolds == Spec => []PriorityKept
<1>1. IInv => PriorityKept
  BY DEF IInv, Priority
<1> QED
  BY <1>1, Inductive, PTL
=============================================================================
