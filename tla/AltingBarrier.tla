---------------------------- MODULE AltingBarrier ----------------------------
(***************************************************************************)
(* Alting barriers (src/csp/alting_barrier.h) and the one coordinator of   *)
(* all of them (alting_barrier_coordinate in src/csp/alt.h).  A barrier is *)
(* a base with two counters and a mutex; a process uses it through a front *)
(* end of its own, as a guard of an alt.  An alt with a front end among    *)
(* its guards enables them between start_enable and finish_enable.         *)
(*                                                                         *)
(* An exception that meets a noexcept function ends the program, one that  *)
(* reaches the caller of expand or contract leaves its state as described. *)
(* Using a base or a null pointer after contract, and two threads inside   *)
(* the static alt of sync or poll, are undefined.                          *)
(***************************************************************************)
EXTENDS AltOrder, BarrierOps, ChanMonitor, FiniteSets

CONSTANTS
    Threads,
    FrontEnds,
    First,      \* the front ends made by create: each stands for its base, too
    Offers,     \* the guards of the alts that a program builds: sequences of
                \* front ends
    MaxCalls    \* bound: the calls the program makes

ASSUME AltingAssumption ==
    /\ First \subseteq FrontEnds /\ IsFiniteSet(FrontEnds)
    /\ Cardinality(FrontEnds) < UIntMax /\ MaxCalls \in Nat
    /\ Offers \subseteq Seq(FrontEnds) /\ NoProc \notin Threads

Timer == "timer"     \* _poll_time as a guard
Null  == "nullptr"
None  == "none"

VARIABLES
    base,      \* each base: _enrolled, _countdown, _front_ends, owner of _mut
    end,       \* each front end: where it was made, _base, _enrolled (joined),
               \* _owned, _thread, and the thread of _alt if _has_alt
    active,    \* _active of the coordinator
    cond,      \* the threads that wait on its _cond
    th,        \* each thread: where it is, the alt it selects with and its
               \* guards, state, enable index, choice and guards to disable
    static,    \* the front end each static alt was built with
    fired,     \* has the alarm of the poll alt's timer passed?
    status,    \* "running", "terminated" or "undefined"
    calls      \* how many calls have been made

vars == <<base, end, active, cond, th, static, fired, status, calls>>

IdleThread == [pc |-> "idle", alt |-> "own", offer |-> << >>,
               state |-> "INACTIVE", pos |-> 0, sel |-> NoneSelected,
               todo |-> << >>]

\* A front end of base b as its constructor leaves it.
NewEnd(b) == [home |-> b, base |-> b, joined |-> TRUE, owned |-> FALSE,
              thread |-> NoProc, alt |-> NoProc]

Unborn == [home |-> None, base |-> None, joined |-> FALSE, owned |-> FALSE,
           thread |-> NoProc, alt |-> NoProc]

Init ==
    /\ base = [b \in First |-> [enrolled |-> 1, countdown |-> 1,
                                ends |-> {b}, mut |-> NoProc]]
    /\ end = [f \in FrontEnds |-> IF f \in First THEN NewEnd(f) ELSE Unborn]
    /\ active = 0 /\ cond = {}
    /\ th = [t \in Threads |-> IdleThread]
    /\ static = [a \in {"sync", "poll"} |-> None]
    /\ fired = FALSE
    /\ status = "running" /\ calls = 0

-----------------------------------------------------------------------------
Born(f) == end[f].home # None

\* The program stops: terminate, or undefined behaviour.
Stop(how) == status' = how /\ UNCHANGED <<base, end, active, cond, th, static, fired>>

\* A thread that runs its own code and can lock the base of f.
CanCall(t, f) ==
    /\ status = "running" /\ th[t].pc = "idle"
    /\ end[f].base \in First /\ base[end[f].base].mut = NoProc

\* alting_barrier_internal::schedule of every front end of base b.
Scheduled(b) ==
    LET woken == {end[f].alt : f \in base[b].ends} IN
    [t \in Threads |->
        IF t \in woken /\ th[t].state \in {"ENABLING", "WAITING"}
        THEN [th[t] EXCEPT !.state = "READY"] ELSE th[t]]

\* Ownership: the first thread to use a front end owns it.
Claimed(e, t) == IF e.owned THEN e ELSE [e EXCEPT !.owned = TRUE, !.thread = t]

CallEnroll(t, f) ==
    /\ CanCall(t, f)
    /\ IF end[f].joined
       THEN Stop("terminated")
       ELSE /\ end' = [end EXCEPT ![f].joined = TRUE]
            /\ base' = [base EXCEPT ![end[f].base].enrolled = Inc(@),
                                    ![end[f].base].countdown = Inc(@)]
            /\ UNCHANGED <<active, cond, th, static, fired, status>>

CallMark(t, f) ==
    /\ CanCall(t, f)
    /\ IF ~end[f].joined
       THEN Stop("terminated")
       ELSE /\ end' = [end EXCEPT ![f].thread = t]
            /\ UNCHANGED <<base, active, cond, th, static, fired, status>>

\* base::expand: the base with front ends N added.
Expanded(r, N) ==
    LET Add(k) == (k + Cardinality(N)) % (UIntMax + 1) IN
    [r EXCEPT !.enrolled = Add(@), !.countdown = Add(@), !.ends = @ \cup N]

\* expand() and expand(n): new front ends N on the base of f.  A front end
\* that has resigned takes its owner and throws.
CallExpand(t, f, N) ==
    /\ CanCall(t, f)
    /\ Claimed(end[f], t).thread = t
    /\ IF ~end[f].joined
       THEN /\ end' = [end EXCEPT ![f] = Claimed(@, t)]
            /\ UNCHANGED base
       ELSE LET b == end[f].base IN
            /\ end' = [g \in FrontEnds |->
                         CASE g \in N -> NewEnd(b)
                           [] g = f   -> Claimed(end[f], t)
                           [] OTHER   -> end[g]]
            /\ base' = [base EXCEPT ![b] = Expanded(@, N)]
    /\ UNCHANGED <<active, cond, th, static, fired, status>>

\* A base of which front ends have left or resigned: complete wakes the
\* others, for which t, with the base locked, first starts an enable.
Shrunk(t, b, rec, complete) ==
    LET r == IF complete THEN [rec EXCEPT !.countdown = rec.enrolled] ELSE rec
        w == complete /\ rec.enrolled > 0
    IN  /\ base' = [base EXCEPT ![b] = IF w THEN [r EXCEPT !.mut = t] ELSE r]
        /\ th' = IF w THEN [th EXCEPT ![t].pc = "release", ![t].offer = <<b>>]
                 ELSE th

\* resign completes the barrier if others have still to come ("if
\* (_countdown)"), not if nobody has.
CallResign(t, f) ==
    /\ CanCall(t, f)
    /\ IF ~end[f].joined
       THEN Stop("terminated")
       ELSE LET b == end[f].base
                r == [base[b] EXCEPT !.enrolled = Dec(@), !.countdown = Dec(@)]
            IN  /\ end' = [end EXCEPT ![f].joined = FALSE]
                /\ Shrunk(t, b, r, r.countdown # 0)
                /\ UNCHANGED <<active, cond, static, fired, status>>

\* Both contracts want the front end's thread and a front end that has
\* resigned; otherwise they throw and change nothing.
CanContract(t, f) == CanCall(t, f) /\ end[f].thread = t /\ ~end[f].joined

\* Without a front end that points to it the base is freed while it is used.
Dangling(b, V) == \A f \in FrontEnds \ V : end[f].base # b

\* contract() nulls the front end's pointer and leaves it in _front_ends.
CallContract(t, f) ==
    /\ CanContract(t, f)
    /\ LET b == end[f].base IN
       IF Dangling(b, {f})
       THEN Stop("undefined")
       ELSE /\ end' = [end EXCEPT ![f].base = Null]
            /\ Shrunk(t, b, base[b], base[b].countdown = 0)
            /\ UNCHANGED <<active, cond, static, fired, status>>

\* contract(V) removes what it finds of V, counts in a variable that shadows
\* the one it tests, and so throws before it adjusts the counters.
CallContractAll(t, f, V) ==
    /\ CanContract(t, f)
    /\ LET b == end[f].base
           found == V \cap base[b].ends
       IN  IF Dangling(b, found)
           THEN Stop("undefined")
           ELSE /\ end' = [g \in FrontEnds |->
                             IF g \in found THEN [end[g] EXCEPT !.base = Null]
                             ELSE end[g]]
                /\ base' = [base EXCEPT ![b].ends = @ \ found]
                /\ UNCHANGED <<active, cond, th, static, fired, status>>

-----------------------------------------------------------------------------
(* The coordinator.                                                        *)

Starting(t) == th[t].pc \in {"start", "release"}

\* start_enable finds somebody active and waits.
AwaitInactive(t) ==
    /\ status = "running" /\ Starting(t) /\ t \notin cond
    /\ active > 0
    /\ cond' = cond \cup {t}
    /\ UNCHANGED <<base, end, active, th, static, fired, status>>

\* Mutant: start_enable does not look at _active.
StartUnchecked(t) ==
    /\ status = "running" /\ th[t].pc = "start" /\ t \notin cond
    /\ active' = 1
    /\ th' = [th EXCEPT ![t].pc = "enable"]
    /\ UNCHANGED <<base, end, cond, static, fired, status>>

\* start_enable by an alt.
StartEnable(t) ==
    /\ status = "running" /\ th[t].pc = "start" /\ t \notin cond
    /\ active = 0
    /\ active' = 1
    /\ th' = [th EXCEPT ![t].pc = "enable"]
    /\ UNCHANGED <<base, end, cond, static, fired, status>>

\* start_enable, start_disable and schedule by resign and contract.
Release(t) ==
    /\ status = "running" /\ th[t].pc = "release" /\ t \notin cond
    /\ active = 0
    /\ LET b == th[t].offer[1] IN
       /\ active' = base[b].enrolled
       /\ base' = [base EXCEPT ![b].mut = NoProc]
       /\ th' = [Scheduled(b) EXCEPT ![t] = IdleThread]
    /\ UNCHANGED <<end, cond, static, fired, status>>

\* Mutant: the next process is not signalled.
FinishSilently(t) ==
    /\ status = "running" /\ th[t].pc = "finish"
    /\ IF active # 1
       THEN Stop("terminated")
       ELSE /\ active' = 0
            /\ th' = [th EXCEPT ![t].pc = "decide"]
            /\ UNCHANGED <<base, end, cond, static, fired, status>>

\* finish_enable.  set_barrier_trigger clears the flag it should set, so an
\* alt that has just completed a barrier comes here too.
FinishEnable(t) ==
    /\ status = "running" /\ th[t].pc = "finish"
    /\ IF active # 1
       THEN Stop("terminated")
       ELSE /\ active' = 0
            /\ cond' \in NotifyOne(cond)
            /\ th' = [th EXCEPT ![t].pc = "decide"]
            /\ UNCHANGED <<base, end, static, fired, status>>

-----------------------------------------------------------------------------
(* A selection: pri_select.                                                *)

Selection(a, o) == [pc |-> "start", alt |-> a, offer |-> o,
                    state |-> "ENABLING", pos |-> 0, sel |-> NoneSelected,
                    todo |-> << >>]

CallSelect(t, o) ==
    /\ status = "running" /\ th[t].pc = "idle"
    /\ \A i \in 1..Len(o) : end[o[i]].base \in First
    /\ th' = [th EXCEPT ![t] = Selection("own", o)]
    /\ UNCHANGED <<base, end, active, cond, static, fired, status>>

\* sync and poll select with an alt that is static: built once, with the
\* front end of the first call.
CallStatic(t, f, a) ==
    LET g == IF static[a] = None THEN f ELSE static[a] IN
    /\ status = "running" /\ th[t].pc = "idle" /\ Born(f)
    /\ IF \E u \in Threads : th[u].alt = a
       THEN Stop("undefined")
       ELSE /\ static' = [static EXCEPT ![a] = g]
            /\ th' = [th EXCEPT ![t] =
                        Selection(a, IF a = "poll" THEN <<g, Timer>> ELSE <<g>>)]
            /\ fired' = IF a = "poll" /\ g = f THEN FALSE ELSE fired
            /\ UNCHANGED <<base, end, active, cond, status>>

AlarmFires ==
    /\ status = "running" /\ ~fired
    /\ \E t \in Threads : th[t].alt = "poll"
    /\ fired' = TRUE
    /\ UNCHANGED <<base, end, active, cond, th, static, status>>

Guard(t) == th[t].offer[th[t].pos + 1]

\* enable_guards is at a timer, or through.
EnableTimer(t) ==
    /\ status = "running" /\ th[t].pc = "enable"
    /\ \/ /\ th[t].pos = Len(th[t].offer)
          /\ th' = [th EXCEPT ![t].pc = "finish"]
       \/ /\ th[t].pos < Len(th[t].offer) /\ Guard(t) = Timer
          /\ th' = IF fired
                   THEN [th EXCEPT ![t].pc = "finish", ![t].sel = th[t].pos,
                                   ![t].state = "READY"]
                   ELSE [th EXCEPT ![t].pos = @ + 1]
    /\ UNCHANGED <<base, end, active, cond, static, fired, status>>

\* start_disable(n) passes its assertion and its sanity check.
CanStartDisable(n) == n > 0 /\ active = 1

\* base::enable by front end f of thread t: the last to arrive completes the
\* barrier, else the alt is registered.
Arrive(t, f) ==
    LET b == end[f].base
        c == Dec(base[b].countdown)
    IN  IF c # 0
        THEN /\ base' = [base EXCEPT ![b].countdown = c]
             /\ end' = [end EXCEPT ![f] = [Claimed(@, t) EXCEPT !.alt = t]]
             /\ th' = [th EXCEPT ![t].pos = @ + 1]
             /\ UNCHANGED <<active, cond, static, fired, status>>
        ELSE IF ~CanStartDisable(base[b].enrolled)
        THEN Stop("terminated")
        ELSE /\ base' = [base EXCEPT ![b].countdown = base[b].enrolled]
             /\ active' = base[b].enrolled
             /\ end' = [end EXCEPT ![f] = Claimed(@, t)]
             /\ th' = [Scheduled(b) EXCEPT ![t].pc = "finish",
                         ![t].sel = th[t].pos, ![t].state = "READY"]
             /\ UNCHANGED <<cond, static, fired, status>>

\* enable of a front end.  It throws "not enrolled" if it is enrolled.
EnableEnd(t) ==
    /\ status = "running" /\ th[t].pc = "enable"
    /\ th[t].pos < Len(th[t].offer) /\ Guard(t) # Timer
    /\ LET f == Guard(t) IN
       IF end[f].base = Null
       THEN Stop("undefined")
       ELSE /\ base[end[f].base].mut = NoProc
            /\ IF Claimed(end[f], t).thread # t \/ end[f].joined
               THEN Stop("terminated")
               ELSE IF end[f].alt = NoProc
               THEN Arrive(t, f)
               ELSE /\ th' = [th EXCEPT ![t].pos = @ + 1]
                    /\ UNCHANGED <<base, end, active, cond, static, fired, status>>

\* Under the alt's lock: wait unless something has scheduled the alt.
Decide(t) ==
    /\ status = "running" /\ th[t].pc = "decide"
    /\ LET e == th[t].state = "ENABLING" IN
       th' = [th EXCEPT ![t].pc = IF e THEN "wait" ELSE "disable",
                        ![t].state = IF e THEN "WAITING" ELSE "READY",
                        ![t].todo = DisableOrder(Len(th[t].offer), 0, th[t].sel)]
    /\ UNCHANGED <<base, end, active, cond, static, fired, status>>

Wake(t) ==
    /\ status = "running" /\ th[t].pc = "wait"
    /\ th[t].state = "READY" \/ (th[t].alt = "poll" /\ fired)
    /\ th' = [th EXCEPT ![t].pc = "disable", ![t].state = "READY"]
    /\ UNCHANGED <<base, end, active, cond, static, fired, status>>

\* disable of guard number i of thread t's alt; answers tells whether it was
\* ready.
Disabled(t, i, answers) ==
    th' = [th EXCEPT ![t].todo = Tail(@),
                     ![t].sel = IF answers THEN i ELSE @]

\* base::disable answers whether the barrier has completed.
Completed(r) == r.countdown = r.enrolled

DisableGuard(t) ==
    /\ status = "running" /\ th[t].pc = "disable" /\ th[t].todo # << >>
    /\ LET i == Head(th[t].todo)
           f == th[t].offer[i + 1]
       IN  IF f = Timer
           THEN /\ Disabled(t, i, fired)
                /\ UNCHANGED <<base, end, active, cond, static, fired, status>>
           ELSE IF end[f].base = Null
           THEN Stop("undefined")
           ELSE LET b == end[f].base
                    complete == Completed(base[b])
                    registered == end[f].alt # NoProc
                IN  /\ base[b].mut = NoProc
                    /\ end' = [end EXCEPT ![f].alt = NoProc]
                    /\ base' = IF registered /\ ~complete
                               THEN [base EXCEPT ![b].countdown = Inc(@)] ELSE base
                    /\ Disabled(t, i, registered /\ complete)
                    /\ UNCHANGED <<active, cond, static, fired, status>>

SelectReturns(t) ==
    /\ status = "running" /\ th[t].pc = "disable" /\ th[t].todo = << >>
    /\ th' = [th EXCEPT ![t] = IdleThread]
    /\ UNCHANGED <<base, end, active, cond, static, fired, status>>

-----------------------------------------------------------------------------
Call(t) ==
    \/ \E f \in FrontEnds :
          \/ CallEnroll(t, f) \/ CallMark(t, f) \/ CallResign(t, f)
          \/ CallContract(t, f)
          \/ \E N \in SUBSET {g \in FrontEnds : ~Born(g)} : N # {} /\ CallExpand(t, f, N)
          \/ \E V \in SUBSET {g \in FrontEnds : Born(g)} : V # {} /\ CallContractAll(t, f, V)
          \/ \E a \in {"sync", "poll"} : CallStatic(t, f, a)
    \/ \E o \in Offers : CallSelect(t, o)

Go(t) ==
    \/ AwaitInactive(t) \/ StartEnable(t) \/ Release(t) \/ FinishEnable(t)
    \/ EnableTimer(t) \/ EnableEnd(t) \/ Decide(t) \/ Wake(t)
    \/ DisableGuard(t) \/ SelectReturns(t)

Next ==
    \/ calls < MaxCalls /\ calls' = calls + 1 /\ \E t \in Threads : Call(t)
    \/ (AlarmFires \/ \E t \in Threads : Go(t)) /\ UNCHANGED calls

Spec == Init /\ [][Next]_vars

\* A thread inside a select, a resignation or a contraction goes on, and time
\* passes; nobody is obliged to call.
FairSpec ==
    /\ Spec
    /\ WF_vars(AlarmFires /\ UNCHANGED calls)
    /\ \A t \in Threads : WF_vars(Go(t) /\ UNCHANGED calls)

-----------------------------------------------------------------------------
(* Properties.                                                             *)

\* At most one thread is between start_enable and finish_enable, and while it
\* enables guards the coordinator counts one active process: completing a
\* barrier (start_disable) never meets an unexpected count.
EnablesExclude ==
    status = "running" =>
        \A t \in Threads :
            th[t].pc \in {"enable", "finish"} =>
                /\ active > 0 /\ (th[t].pc = "enable" => active = 1)
                /\ \A u \in Threads \ {t} : th[u].pc \notin {"enable", "finish"}

\* No lost wakeup in the coordinator: while threads wait to start an enable
\* somebody is active, or one of those that start has been notified.
CoordinatorAwake ==
    cond # {} => active > 0 \/ \E t \in Threads \ cond : Starting(t)

\* Nobody is left registered: the thread that a front end would schedule is
\* inside a selection that offers the front end, so that a barrier completed
\* later does not disturb another selection.
NoStaleRegistration ==
    \A f \in FrontEnds : end[f].alt # NoProc =>
        LET t == th[end[f].alt] IN
        /\ t.pc \notin {"idle", "start", "release"}
        /\ \E i \in 1..Len(t.offer) : t.offer[i] = f

\* Whoever waits in the coordinator eventually starts: "If active count has
\* hit 0 then inform the next waiting process" (alt.h 551).
WaitersStart == \A t \in Threads : (t \in cond) ~> (~Starting(t) \/ status # "running")
=============================================================================
