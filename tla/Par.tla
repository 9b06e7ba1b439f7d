--------------------------------- MODULE Par ---------------------------------
(***************************************************************************)
(* par (src/csp/par.h): a parallel of N processes that can be run again    *)
(* and again.  The caller of run executes process N itself; processes      *)
(* 1 .. N-1 have a thread each, kept alive between runs.  One barrier ends *)
(* a run; each thread also has a barrier of two, _park, on which it waits  *)
(* for the next run or for its termination.                                *)
(*                                                                         *)
(* par objects are handles: every caller holds a copy, run is serialised   *)
(* by the mutex of the shared par_internal, and the last copy to be        *)
(* destroyed terminates and joins the threads.  As the mutex is held for   *)
(* the whole of a run, one control state (mpc, idx) serves all callers.    *)
(***************************************************************************)
EXTENDS BarrierOps

CONSTANTS
    N,         \* _processes.size(), which never changes
    Callers,   \* the threads that hold a copy of the par
    NoCaller,  \* owner of the free mutex
    MaxRuns    \* bound: run is not called more often than this

ASSUME ParAssumption ==
    /\ N \in Nat /\ MaxRuns \in Nat
    /\ UIntMax >= 2 /\ UIntMax >= N
    /\ NoCaller \notin Callers
    /\ Callers \cap Nat = {}

Workers == 1..(N - 1)

VARIABLES
    mut,             \* owner of par_internal::_mut
    mpc,             \* where the owner is in run or in the destructor
    idx,             \* its loop index
    refs,            \* the callers that hold a copy
    processChanged,  \* _process_changed
    threads,         \* _threads.size()
    bar,             \* _barrier
    park,            \* each thread's _park
    running,         \* each thread's _running
    wpc,             \* where each thread is in par_thread::run
    allThreads,      \* _all_threads, the framework's registry
    runs,            \* history: runs begun
    executed         \* history: how often each process has completed

main == <<mut, mpc, idx, refs, processChanged, threads>>
vars == <<mut, mpc, idx, refs, processChanged, threads, bar, park, running,
          wpc, allThreads, runs, executed>>

Init ==
    /\ mut = NoCaller /\ mpc = "none" /\ idx = 1
    /\ refs = Callers
    /\ processChanged = TRUE
    /\ threads = 0
    /\ bar = NewBarrier(0)
    /\ park = [w \in Workers |-> NewBarrier(2)]
    /\ running = [w \in Workers |-> TRUE]
    /\ wpc = [w \in Workers |-> "none"]
    /\ allThreads = {}
    /\ runs = 0
    /\ executed = [i \in 1..N |-> 0]

-----------------------------------------------------------------------------
(* The caller.                                                             *)

\* Mutant: run does not set the barrier.
PrepareNothing == bar

\* The barrier as run's loops find it: set again while _process_changed.
Prepared == IF processChanged THEN Reset(bar, N) ELSE bar

\* run takes the mutex, prepares the barrier and chooses its loop; a par of
\* no processes gives the mutex back.  The loop that reuses threads when there
\* are too few of them is never entered: there are none or N-1.
Begin(c) ==
    /\ c \in refs /\ mut = NoCaller /\ runs < MaxRuns
    /\ runs' = runs + 1
    /\ IF N = 0
       THEN UNCHANGED <<mut, mpc, idx, bar>>
       ELSE /\ mut' = c /\ idx' = 1
            /\ bar' = Prepared
            /\ mpc' = IF ~processChanged THEN "release"
                      ELSE IF threads < N - 1 THEN "start" ELSE "reset"
    /\ UNCHANGED <<refs, processChanged, threads, park, running, wpc, allThreads,
                   executed>>

\* Construct a par_thread and start its thread, which runs from here on.
\* processChanged stays set.
StartThread ==
    /\ mpc = "start" /\ idx < N
    /\ threads' = threads + 1
    /\ wpc' = [wpc EXCEPT ![idx] = "check"]
    /\ mpc' = "start_register"
    /\ UNCHANGED <<mut, idx, refs, processChanged, bar, park, running, allThreads,
                   runs, executed>>

\* The rest of par_thread::start: registration, and then _running, which the
\* thread may be reading.
RegisterThread ==
    /\ mpc = "start_register"
    /\ allThreads' = allThreads \cup {idx}
    /\ mpc' = "start_running"
    /\ UNCHANGED <<mut, idx, refs, processChanged, threads, bar, park, running, wpc,
                   runs, executed>>

SetRunning ==
    /\ mpc = "start_running"
    /\ running' = [running EXCEPT ![idx] = TRUE]
    /\ mpc' = "start" /\ idx' = idx + 1
    /\ UNCHANGED <<mut, refs, processChanged, threads, bar, park, wpc, allThreads,
                   runs, executed>>

\* par_thread::reset.
ResetThread ==
    /\ mpc = "reset" /\ idx < N
    /\ running' = [running EXCEPT ![idx] = TRUE]
    /\ mpc' = "reset_release"
    /\ UNCHANGED <<mut, idx, refs, processChanged, threads, bar, park, wpc,
                   allThreads, runs, executed>>

\* par_thread::terminate sets the flag before it syncs on the park.
TerminateThread ==
    /\ mpc = "terminate" /\ idx <= threads
    /\ running' = [running EXCEPT ![idx] = FALSE]
    /\ mpc' = "terminate_release"
    /\ UNCHANGED <<mut, idx, refs, processChanged, threads, bar, park, wpc,
                   allThreads, runs, executed>>

\* par_thread::release, or the end of terminate: sync on the thread's park.
Release ==
    /\ \/ mpc \in {"reset_release", "terminate_release"}
       \/ mpc = "release" /\ idx < N
    /\ park' = [park EXCEPT ![idx] = Sync(@, mut)]
    /\ mpc' = CASE mpc = "reset_release"     -> "reset_parked"
                [] mpc = "terminate_release" -> "terminate_parked"
                [] mpc = "release"           -> "release_parked"
    /\ UNCHANGED <<mut, idx, refs, processChanged, threads, bar, running, wpc,
                   allThreads, runs, executed>>

\* The sync returns once the thread has arrived too.
Released ==
    /\ mpc \in {"reset_parked", "release_parked", "terminate_parked"}
    /\ mut \notin park[idx].cond
    /\ mpc' = CASE mpc = "reset_parked"     -> "reset"
                [] mpc = "release_parked"   -> "release"
                [] mpc = "terminate_parked" -> "join"
    /\ idx' = IF mpc = "terminate_parked" THEN idx ELSE idx + 1
    /\ UNCHANGED <<mut, refs, processChanged, threads, bar, park, running, wpc,
                   allThreads, runs, executed>>

\* The end of the three loops of run; only the reset loop clears the flag.
EndLoop ==
    /\ mpc \in {"start", "reset", "release"} /\ idx = N
    /\ processChanged' = (processChanged /\ mpc # "reset")
    /\ mpc' = "process"
    /\ UNCHANGED <<mut, idx, refs, threads, bar, park, running, wpc, allThreads,
                   runs, executed>>

\* my_process() completes.
OwnProcess ==
    /\ mpc = "process"
    /\ executed' = [executed EXCEPT ![N] = @ + 1]
    /\ mpc' = "sync"
    /\ UNCHANGED <<mut, idx, refs, processChanged, threads, bar, park, running,
                   wpc, allThreads, runs>>

\* Mutant: the caller does not sync with the barrier.
SkipBarrier ==
    /\ mpc = "sync"
    /\ mpc' = "synced"
    /\ UNCHANGED <<mut, idx, refs, processChanged, threads, bar, park, running,
                   wpc, allThreads, runs, executed>>

SyncBarrier ==
    /\ mpc = "sync"
    /\ bar' = Sync(bar, mut)
    /\ mpc' = "synced"
    /\ UNCHANGED <<mut, idx, refs, processChanged, threads, park, running, wpc,
                   allThreads, runs, executed>>

\* run returns and releases the mutex.
End ==
    /\ mpc = "synced" /\ mut \notin bar.cond
    /\ mut' = NoCaller /\ mpc' = "none"
    /\ UNCHANGED <<idx, refs, processChanged, threads, bar, park, running, wpc,
                   allThreads, runs, executed>>

\* A caller destroys its copy; the last one runs ~par_internal, which takes
\* the mutex and releases all threads.
Drop(c) ==
    /\ c \in refs /\ mut # c
    /\ refs' = refs \ {c}
    /\ IF refs' = {}
       THEN mut' = c /\ mpc' = "terminate" /\ idx' = 1
       ELSE UNCHANGED <<mut, mpc, idx>>
    /\ UNCHANGED <<processChanged, threads, bar, park, running, wpc, allThreads,
                   runs, executed>>

\* Mutant: the thread is not joined.
DoNotJoin ==
    /\ mpc = "join"
    /\ mpc' = "terminate" /\ idx' = idx + 1
    /\ UNCHANGED <<mut, refs, processChanged, threads, bar, park, running, wpc,
                   allThreads, runs, executed>>

Join ==
    /\ mpc = "join" /\ wpc[idx] = "exited"
    /\ mpc' = "terminate" /\ idx' = idx + 1
    /\ UNCHANGED <<mut, refs, processChanged, threads, bar, park, running, wpc,
                   allThreads, runs, executed>>

\* The threads are cleared; ~par_thread removes each from the registry.
Destroyed ==
    /\ mpc = "terminate" /\ idx > threads
    /\ processChanged' = TRUE
    /\ allThreads' = allThreads \ 1..threads
    /\ threads' = 0
    /\ mut' = NoCaller /\ mpc' = "destroyed"
    /\ UNCHANGED <<idx, refs, bar, park, running, wpc, runs, executed>>

Main ==
    \/ StartThread \/ RegisterThread \/ SetRunning
    \/ ResetThread \/ TerminateThread
    \/ Release \/ Released \/ EndLoop
    \/ OwnProcess \/ SyncBarrier \/ End
    \/ Join \/ Destroyed

-----------------------------------------------------------------------------
(* The threads: par_thread::run.                                           *)

Check(w) ==
    /\ wpc[w] = "check"
    /\ IF running[w]
       THEN wpc' = [wpc EXCEPT ![w] = "process"] /\ UNCHANGED allThreads
       ELSE /\ wpc' = [wpc EXCEPT ![w] = "exited"]
            /\ allThreads' = allThreads \ {w}
    /\ UNCHANGED <<main, bar, park, running, runs, executed>>

Process(w) ==
    /\ wpc[w] = "process"
    /\ executed' = [executed EXCEPT ![w] = @ + 1]
    /\ wpc' = [wpc EXCEPT ![w] = "bar"]
    /\ UNCHANGED <<main, bar, park, running, allThreads, runs>>

SyncBar(w) ==
    /\ wpc[w] = "bar"
    /\ bar' = Sync(bar, w)
    /\ wpc' = [wpc EXCEPT ![w] = "barred"]
    /\ UNCHANGED <<main, park, running, allThreads, runs, executed>>

\* Mutant: the thread does not park.
LeaveBarNoPark(w) ==
    /\ wpc[w] = "barred" /\ w \notin bar.cond
    /\ wpc' = [wpc EXCEPT ![w] = "check"]
    /\ UNCHANGED <<main, bar, park, running, allThreads, runs, executed>>

LeaveBar(w) ==
    /\ wpc[w] = "barred" /\ w \notin bar.cond
    /\ wpc' = [wpc EXCEPT ![w] = "park"]
    /\ UNCHANGED <<main, bar, park, running, allThreads, runs, executed>>

SyncPark(w) ==
    /\ wpc[w] = "park"
    /\ park' = [park EXCEPT ![w] = Sync(@, w)]
    /\ wpc' = [wpc EXCEPT ![w] = "parked"]
    /\ UNCHANGED <<main, bar, running, allThreads, runs, executed>>

LeavePark(w) ==
    /\ wpc[w] = "parked" /\ w \notin park[w].cond
    /\ wpc' = [wpc EXCEPT ![w] = "check"]
    /\ UNCHANGED <<main, bar, park, running, allThreads, runs, executed>>

Worker(w) ==
    \/ Check(w) \/ Process(w) \/ SyncBar(w) \/ LeaveBar(w)
    \/ SyncPark(w) \/ LeavePark(w)

Next ==
    \/ \E c \in Callers : Begin(c) \/ Drop(c)
    \/ Main
    \/ \E w \in Workers : Worker(w)

Spec == Init /\ [][Next]_vars

\* Every thread that can take a step takes it: the scheduler is fair and the
\* processes of the par terminate.  Nothing obliges a caller to call run.
Fairness ==
    /\ WF_vars(Main)
    /\ \A w \in Workers : WF_vars(Worker(w))

FairSpec == Spec /\ Fairness

-----------------------------------------------------------------------------
(* Properties.                                                             *)

\* A run executes every process exactly once: when no run is in progress all
\* processes have completed as often as run was called, although the threads
\* may still be on their way to their parks.
RunsAreComplete ==
    mut = NoCaller /\ N > 0 => \A i \in 1..N : executed[i] = runs

\* No process gets ahead of the run it belongs to or misses one.
NoneRunsAhead ==
    N > 0 => \A i \in 1..N : executed[i] <= runs /\ runs <= executed[i] + 1

\* reset and terminate write _process, _bar and _running of a thread without
\* a lock: at that moment the thread has left _process and _bar behind and
\* cannot read them before it has met the caller on the park.  start does
\* race: it sets _running when the thread may be reading it, but finds it set,
\* so that whatever the thread reads is what it should.
NoRaceOnThread ==
    /\ mpc \in {"reset", "terminate"} /\ idx <= threads =>
          \/ wpc[idx] \in {"park", "parked"}
          \/ wpc[idx] = "barred" /\ idx \notin bar.cond
    /\ mpc = "start_running" => running[idx]

\* The barrier is reset only when nobody waits on it.
ResetsQuietBarrier == mut = NoCaller => bar.cond = {}

\* Once the last copy is destroyed no thread is left, running or registered.
NoThreadSurvives ==
    mpc = "destroyed" =>
        allThreads = {} /\ \A w \in Workers : wpc[w] \in {"none", "exited"}

\* Every run returns, and the destructor too: threads and callers never wait
\* for each other on the barrier, a park or a join for ever.
RunReturns == (mut # NoCaller) ~> (mut = NoCaller)
=============================================================================
