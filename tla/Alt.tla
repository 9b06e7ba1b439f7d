--------------------------------- MODULE Alt ---------------------------------
(***************************************************************************)
(* Selection: alt_internal (src/csp/alt.h) with its guards, channels and   *)
(* buffered channels (chan.h), timers (timer.h), skip and stop.  One       *)
(* process selects, then reads the selected channel; every channel guard   *)
(* has one process at its output end.                                      *)
(*                                                                         *)
(* enable, disable, write and writer_poison are critical sections of the   *)
(* channel's mutex.  write and writer_poison call schedule, which locks    *)
(* the alt, from inside that section, so they are two steps with the       *)
(* channel locked in between.  The selecting process enables and disables  *)
(* one guard per step.  Alting barriers as guards are in AltingBarrier.    *)
(***************************************************************************)
EXTENDS AltOrder

CONSTANTS
    G,         \* the number of guards
    Kind,      \* what each guard is: "chan", "buffer", "timer", "skip" or "stop"
    BufSize,   \* the size of a buffered channel
    Modes,     \* the selections used: "pri", "fair" and "fair_pre"
    MaxTime    \* bound: the clock stops here

Guards == 0..(G - 1)
Chans  == {g \in Guards : Kind[g] \in {"chan", "buffer"}}
Timers == {g \in Guards : Kind[g] = "timer"}

ASSUME AltAssumption ==
    /\ G \in Nat \ {0} /\ MaxTime \in Nat /\ BufSize \in Nat \ {0}
    /\ Kind \in [Guards -> {"chan", "buffer", "timer", "skip", "stop"}]
    /\ Modes \subseteq {"pri", "fair", "fair_pre"}

VARIABLES
    apc,        \* where the selecting process is
    mode, pre,  \* the selection it performs and its pre-conditions
    state,      \* _state
    next,       \* _next
    selected,   \* _selected
    pos,        \* how many guards enable_guards has been through
    todo,       \* the guards disable_guards has still to disable, in order
    timeout, time, timerIndex,  \* _timeout, _time, _timer_index
    held,       \* the values in each channel: 0 if its _empty is set or its
                \* buffer is EMPTY
    alting,     \* each channel's _alting
    poisoned,   \* is each channel's _strength > 0?
    wpc,        \* each channel's writer: idle, in the section that schedules
                \* the alt, waiting for the reader, or notified by it
    now,        \* the steady clock
    alarm,      \* each timer's _time
    offered     \* history: the guards that were ready when select was called

altVars  == <<apc, mode, pre, state, next, selected, pos, todo, timeout, time,
              timerIndex, offered>>
chanVars == <<held, alting, poisoned, wpc>>
timeVars == <<now, alarm>>
vars     == <<altVars, chanVars, timeVars>>

Fired(g) == alarm[g] <= now

\* pending of a channel, plain or buffered.
Pending(g) == held[g] > 0 \/ poisoned[g]

\* What a guard's disable answers.
IsReady(g) ==
    CASE g \in Chans  -> Pending(g)
      [] g \in Timers -> Fired(g)
      [] OTHER        -> FALSE

\* The channel's mutex is held while its writer is about to schedule.
Locked(g) == g \in Chans /\ wpc[g] = "schedule"

Init ==
    /\ apc = "idle" /\ mode = "pri" /\ pre = [g \in Guards |-> TRUE]
    /\ state = "INACTIVE" /\ next = 0 /\ selected = NoneSelected
    /\ pos = 0 /\ todo = << >>
    /\ timeout = FALSE /\ time = 0 /\ timerIndex = -1
    /\ held = [g \in Chans |-> 0]
    /\ alting = [g \in Chans |-> FALSE]
    /\ poisoned = [g \in Chans |-> FALSE]
    /\ wpc = [g \in Chans |-> "idle"]
    /\ now = 0
    /\ alarm \in [Timers -> 0..MaxTime]
    /\ offered = {}

-----------------------------------------------------------------------------
(* The writers and the clock.                                              *)

\* Mutant: schedule ignores an alt that is still enabling.
ScheduledIfWaiting(s) == IF s = "WAITING" THEN "READY" ELSE s

\* alt_internal::schedule: the state of the alt afterwards.  A waiting alt is
\* also notified.
Scheduled(s) == IF s \in {"ENABLING", "WAITING"} THEN "READY" ELSE s

\* The end of a write that leaves n values: the writer of a plain channel
\* waits for its reader, that of a buffered one if the buffer is FULL.
Written(g, n) ==
    IF n = (IF Kind[g] = "chan" THEN 1 ELSE BufSize) THEN "waiting" ELSE "idle"

\* write up to the call of schedule.
Write(g) ==
    /\ wpc[g] = "idle" /\ ~poisoned[g]
    /\ held' = [held EXCEPT ![g] = @ + 1]
    /\ wpc' = [wpc EXCEPT ![g] = IF alting[g] THEN "schedule" ELSE Written(g, held[g] + 1)]
    /\ UNCHANGED <<altVars, timeVars, alting, poisoned>>

\* writer_poison up to the call of schedule.
Poison(g) ==
    /\ wpc[g] = "idle" /\ ~poisoned[g]
    /\ poisoned' = [poisoned EXCEPT ![g] = TRUE]
    /\ wpc' = [wpc EXCEPT ![g] = IF alting[g] THEN "schedule" ELSE "idle"]
    /\ UNCHANGED <<altVars, timeVars, alting, held>>

\* The rest of either: schedule the alt and release the channel.
Schedule(g) ==
    /\ wpc[g] = "schedule"
    /\ state' = Scheduled(state)
    /\ wpc' = [wpc EXCEPT ![g] = IF poisoned[g] THEN "idle" ELSE Written(g, held[g])]
    /\ UNCHANGED <<apc, mode, pre, next, selected, pos, todo, timeout, time,
                   timerIndex, offered, held, alting, poisoned, timeVars>>

\* The writer returns once the reader has taken its value.
WriteReturns(g) ==
    /\ wpc[g] = "taken"
    /\ wpc' = [wpc EXCEPT ![g] = "idle"]
    /\ UNCHANGED <<altVars, timeVars, held, alting, poisoned>>

Tick ==
    /\ now < MaxTime
    /\ now' = now + 1
    /\ UNCHANGED <<altVars, chanVars, alarm>>

-----------------------------------------------------------------------------
(* The selecting process.                                                  *)

\* Mutant: pri_select starts where the last fair selection ended.
SelectKeepsNext(m, p) ==
    /\ apc = "idle"
    /\ mode' = m /\ pre' = p
    /\ state' = "ENABLING"
    /\ pos' = 0
    /\ apc' = "enable"
    /\ offered' = {g \in Guards : p[g] /\ IsReady(g)}
    /\ UNCHANGED <<next, selected, todo, timeout, time, timerIndex, chanVars,
                   timeVars>>

\* pri_select starts with guard 0, select and fair_select with guard next;
\* with pre-conditions, false ones are as if the guard were not there.
Select(m, p) ==
    /\ apc = "idle"
    /\ mode' = m /\ pre' = p
    /\ next' = IF m = "pri" THEN 0 ELSE next
    /\ state' = "ENABLING"
    /\ pos' = 0
    /\ apc' = "enable"
    /\ offered' = {g \in Guards : p[g] /\ IsReady(g)}
    /\ UNCHANGED <<selected, todo, timeout, time, timerIndex, chanVars, timeVars>>

\* The guard that enable_guards comes to after n others.
EnableOrder(n) == IF next + n < G THEN next + n ELSE next + n - G

\* set_timeout: remember the earliest alarm and its guard.
SetTimeout(g) ==
    IF ~timeout \/ alarm[g] < time
    THEN timeout' = TRUE /\ time' = alarm[g] /\ timerIndex' = g
    ELSE UNCHANGED <<timeout, time, timerIndex>>

\* What enabling guard g that is not ready does to it.
Register(g) ==
    CASE g \in Chans  -> /\ alting' = [alting EXCEPT ![g] = TRUE]
                         /\ UNCHANGED <<timeout, time, timerIndex>>
      [] g \in Timers -> SetTimeout(g) /\ UNCHANGED alting
      [] OTHER        -> UNCHANGED <<alting, timeout, time, timerIndex>>

\* One turn of enable_guards, or its end.
EnableGuard ==
    /\ apc = "enable" /\ pos < G
    /\ LET g == EnableOrder(pos) IN
       IF ~pre[g]
       THEN pos' = pos + 1
            /\ UNCHANGED <<apc, state, selected, alting, timeout, time, timerIndex>>
       ELSE /\ ~Locked(g)
            /\ IF IsReady(g)
               THEN /\ selected' = g /\ state' = "READY" /\ apc' = "decide"
                    /\ UNCHANGED <<pos, alting, timeout, time, timerIndex>>
               ELSE /\ Register(g) /\ pos' = pos + 1
                    /\ UNCHANGED <<apc, state, selected>>
    /\ UNCHANGED <<mode, pre, next, todo, offered, held, poisoned, wpc, timeVars>>

NoneReady ==
    /\ apc = "enable" /\ pos = G
    /\ selected' = NoneSelected
    /\ apc' = "decide"
    /\ UNCHANGED <<mode, pre, state, next, pos, todo, timeout, time, timerIndex,
                   offered, chanVars, timeVars>>

\* Mutant: the process waits although a guard has become ready.
DecideToWait ==
    /\ apc = "decide"
    /\ state' = "WAITING" /\ apc' = "wait"
    /\ todo' = DisableOrder(G, next, selected)
    /\ UNCHANGED <<mode, pre, next, selected, pos, timeout, time, timerIndex,
                   offered, chanVars, timeVars>>

\* Under the alt's lock: wait unless a guard was ready or has scheduled.
Decide ==
    /\ apc = "decide"
    /\ IF state = "ENABLING"
       THEN state' = "WAITING" /\ apc' = "wait"
       ELSE apc' = "disable" /\ UNCHANGED state
    /\ todo' = DisableOrder(G, next, selected)
    /\ UNCHANGED <<mode, pre, next, selected, pos, timeout, time, timerIndex,
                   offered, chanVars, timeVars>>

\* The wait ends with schedule's notification or at the earliest alarm.
Wake ==
    /\ apc = "wait"
    /\ state = "READY" \/ (timeout /\ time <= now)
    /\ state' = "READY"
    /\ apc' = "disable"
    /\ UNCHANGED <<mode, pre, next, selected, pos, todo, timeout, time,
                   timerIndex, offered, chanVars, timeVars>>

\* Mutant: disable_guards ignores the pre-conditions.
DisableAnyGuard ==
    /\ apc = "disable" /\ todo # << >>
    /\ todo' = Tail(todo)
    /\ LET g == Head(todo) IN
       /\ ~Locked(g)
       /\ alting' = IF g \in Chans THEN [alting EXCEPT ![g] = FALSE] ELSE alting
       /\ selected' = IF IsReady(g) THEN g ELSE selected
    /\ UNCHANGED <<apc, mode, pre, state, next, pos, timeout, time, timerIndex,
                   offered, held, poisoned, wpc, timeVars>>

\* One turn of disable_guards: the last ready guard it meets is selected.
DisableGuard ==
    /\ apc = "disable" /\ todo # << >>
    /\ todo' = Tail(todo)
    /\ LET g == Head(todo) IN
       IF ~pre[g]
       THEN UNCHANGED <<selected, alting>>
       ELSE /\ ~Locked(g)
            /\ alting' = IF g \in Chans THEN [alting EXCEPT ![g] = FALSE] ELSE alting
            /\ selected' = IF IsReady(g) THEN g ELSE selected
    /\ UNCHANGED <<apc, mode, pre, state, next, pos, timeout, time, timerIndex,
                   offered, held, poisoned, wpc, timeVars>>

\* Mutant: a round robin that is never wrapped.
NextUnwrapped(sel) == next + 1

\* The guard with the highest priority in the next fair selection.
NextPriority(sel) ==
    IF next = G THEN 0 ELSE IF mode = "fair" THEN sel + 1 ELSE sel

\* disable_guards is through: without a ready guard the timer fired.
Finish ==
    /\ apc = "disable" /\ todo = << >>
    /\ LET sel == IF selected = NoneSelected THEN timerIndex ELSE selected IN
       /\ selected' = sel
       /\ next' = IF mode = "pri" THEN next ELSE NextPriority(sel)
    /\ state' = "INACTIVE" /\ timeout' = FALSE
    /\ apc' = "selected"
    /\ UNCHANGED <<mode, pre, pos, todo, time, timerIndex, offered, chanVars,
                   timeVars>>

\* The process acts on what was selected: it reads the channel (a poisoned
\* one throws) or sets the timer's alarm anew.
Act ==
    /\ apc = "selected"
    /\ apc' = "idle"
    /\ \/ /\ selected \in Chans /\ ~Locked(selected)
          /\ IF poisoned[selected]
             THEN UNCHANGED <<held, wpc>>
             ELSE /\ held' = [held EXCEPT ![selected] = @ - 1]
                  /\ wpc' = [wpc EXCEPT ![selected] =
                               IF @ = "waiting" THEN "taken" ELSE @]
          /\ UNCHANGED alarm
       \/ /\ selected \in Timers
          /\ \E t \in now..MaxTime : alarm' = [alarm EXCEPT ![selected] = t]
          /\ UNCHANGED <<held, wpc>>
    /\ UNCHANGED <<mode, pre, state, next, selected, pos, todo, timeout, time,
                   timerIndex, offered, alting, poisoned, now>>

\* Pre-conditions are given in mode fair_pre and in priority selections.
Preconditions(m) ==
    IF m = "fair" THEN {[g \in Guards |-> TRUE]}
    ELSE {p \in [Guards -> BOOLEAN] : \E g \in Guards : p[g]}

CallSelect == \E m \in Modes : \E p \in Preconditions(m) : Select(m, p)

Selecting == EnableGuard \/ NoneReady \/ Decide \/ Wake \/ DisableGuard \/ Finish

Next ==
    \/ \E g \in Chans : Write(g) \/ Poison(g) \/ Schedule(g) \/ WriteReturns(g)
    \/ Tick
    \/ CallSelect \/ Selecting \/ Act

Spec == Init /\ [][Next]_vars

\* A select in progress and a write past its push go on, and time passes.
Fairness ==
    /\ WF_vars(Selecting) /\ WF_vars(Act) /\ WF_vars(Tick)
    /\ \A g \in Chans : WF_vars(Schedule(g)) /\ WF_vars(WriteReturns(g))

FairSpec == Spec /\ Fairness

\* The server loop of the plug and play processes: select for ever, with
\* writers that always have something to write and never poison.
LoopSpec ==
    /\ Init
    /\ [][Next /\ UNCHANGED poisoned]_vars
    /\ Fairness /\ WF_vars(CallSelect)

-----------------------------------------------------------------------------
(* Properties.                                                             *)

\* Type invariant.  It bounds _next: selections that start at _next and add
\* to it never index a guard that does not exist.
TypeOK ==
    /\ apc \in {"idle", "enable", "decide", "wait", "disable", "selected"}
    /\ state \in {"ENABLING", "WAITING", "READY", "INACTIVE"}
    /\ next \in 0..G
    /\ selected \in {NoneSelected} \cup Guards
    /\ pos \in 0..G
    /\ \A i \in 1..Len(todo) : todo[i] \in Guards
    /\ timerIndex \in {-1} \cup Timers
    /\ \A g \in Chans : wpc[g] \in {"idle", "schedule", "waiting", "taken"}
    /\ held \in [Chans -> 0..BufSize]

\* select returns a guard that takes part in the selection and is ready: the
\* read that follows does not block, although the writers and the clock went
\* on while the guards were disabled.
SelectedIsReady ==
    apc = "selected" => selected \in Guards /\ pre[selected] /\ IsReady(selected)

\* No lost wakeup: while the process waits unnotified, a guard of the
\* selection can be ready only because its writer is about to schedule.
NoLostWakeup ==
    apc = "wait" /\ state = "WAITING" =>
        \A g \in Chans : pre[g] /\ IsReady(g) => wpc[g] = "schedule"

\* When select has returned no channel is left with the alt registered and no
\* writer is about to schedule it: a late schedule cannot disturb the next
\* selection.
NothingLeftEnabled ==
    apc \in {"idle", "selected"} => \A g \in Chans : ~alting[g] /\ ~Locked(g)

\* pri_select does not pass over a guard: what it returns has at least the
\* priority of every guard that was ready when it was called.
PriorityKept ==
    apc = "selected" /\ mode = "pri" => \A g \in offered : selected <= g

\* A process that waits is woken once a guard of its selection is ready.
SelectReturns ==
    (apc = "wait" /\ \E g \in Guards : pre[g] /\ IsReady(g)) ~> apc = "selected"

\* select is fair ("Will use fair selection semantics", alt.h 385): a writer
\* that waits at a guard of an alt that is selected for ever is served.
FairSelection == \A g \in Chans : (wpc[g] = "waiting") ~> (wpc[g] # "waiting")
=============================================================================
