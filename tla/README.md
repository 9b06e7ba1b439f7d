# cpp-csp: a TLA+ model of the library

cpp-csp is a header-only C++ library of CSP primitives (`src/csp`): channels
with poison, selection (`alt`), barriers, and the parallel composition of
processes (`par`).  This directory holds TLA+ modules that model its core, TLC
configurations that check them on small instances, and TLAPS proofs of the
main results for every instance.

## The system

| component | state | operations | interacts with |
|---|---|---|---|
| basic channel (`basic_chan_internal`, chan.h) | `_hold`, `_empty`, `_reading`, `_strength`, `_alting`, a mutex and one condition variable | `write`, `read`, `start_read`, `end_read`, `enable`, `disable`, `pending`, `reader_poison`, `writer_poison` | called by the ends; calls `alt::schedule` from inside its critical section |
| buffered channel (`buffered_chan_internal`, chan.h) | a data store, `_reading`, `_strength`, `_alting`, mutex, condition variable | the same | the same; owns a `chan_data_store` |
| data stores (chan_data_store.h) | a deque and a size | `put`, `get`, `clear`, `get_state` | used by the buffered channel under its lock |
| channel ends and the four channel types (chan.h) | a mutex per shared end | forward to the channel, the shared ones with their mutex held | `chan_out::write` is `noexcept` |
| alt, guards, choice (alt.h, guard.h) | `_state`, `_next`, `_selected`, `_timeout`, `_time`, `_timer_index` | `select`, `pri_select`, `fair_select`, each with or without pre-conditions; `schedule`, `set_timeout` | enables and disables guards; scheduled by writers |
| timer, skip, stop | an alarm time | `enable`, `disable` | guards of an alt |
| barrier (barrier.h) | `_enrolled`, `_count_down`, condition variable | `sync`, `enroll`, `resign`, `reset` | used by `par` |
| par (par.h) | processes, threads, a barrier, `_process_changed`; per thread `_park`, `_running` | `run`, destructor, and `reset`, `release`, `terminate`, `run` of the threads | threads, callers, barriers |
| alting barrier (alting_barrier.h) | per barrier a base (`_enrolled`, `_countdown`, `_front_ends`, a mutex), per process a front end (`_enrolled`, `_owned`, `_thread`, `_alt`, `_has_alt`) | `create`, `expand`, `contract`, `mark`, `enroll`, `resign`, `sync`, `poll`, `enable`, `disable` | guards of an alt; `sync` and `poll` select with a static alt |
| coordinator (`alting_barrier_coordinate`, alt.h) | `_active`, a mutex and a condition variable, all static | `start_enable`, `finish_enable`, `start_disable`, `finish_disable` | every alt with an alting barrier, `resign`, `contract` |
| patterns (patterns.h) | none | `par_for`, `par_read`, `par_write` | a `par` per call |
| plug and play processes (plugnplay/) | local variables | `run`: loops over reads, writes, selections and patterns | channels, alts, timers |
| demos (demos/) | the same | networks of such processes under a `par` | all of the above |

Hard in this code: two sides of a channel meet through one flag and one
condition variable with `notify_one` and waits that test no condition; poison
may arrive at every moment; shared ends hold a mutex while they wait; a writer
may schedule an alt at every moment of its selection; the threads of a `par`
are reused by later runs and written to without a lock; all alts with alting
barriers go through one coordinator, and a resigning process enters it with its
barrier locked; cyclic networks run only if their processes offer the right
communications.  `PROJECT.json` lists
each of these hazards at its line with the properties that would catch it.

What makes each component correct: a channel hands values over in order, once,
and a write returns after its read (or, buffered, when there is room); poison
frees everybody; `select` returns a ready guard, loses no wakeup and starves
nobody; a barrier lets nobody through early and strands nobody; a run of a
`par` executes every process once and returns; selections with alting barriers
exclude each other while they enable, and leave nothing registered; a network
does not deadlock and computes what it is built for.

## Modules

| module | models |
|---|---|
| `ChanMonitor` | `notify_one`, `notify_all` on a wait set; the mutex of a shared end |
| `BasicChan` | basic channel behind plain or shared ends, with poison and extended reads |
| `RendezvousChan` | abstract: reader and writer meet in one atomic step |
| `BufferedChan` | buffered channel over a `buffer` or an `infinite_buffer` |
| `FifoChan` | abstract: a bounded queue with blocking writes |
| `BarrierOps` | the four operations of `barrier_internal` as functions of its state |
| `Barrier` | a barrier and the processes that use it |
| `BarrierSpec` | abstract: a barrier on sets of processes |
| `Par` | `par_internal`, its threads and its callers, over `BarrierOps` |
| `AltOrder` | the order in which `disable_guards` goes through the guards |
| `Alt` | `alt_internal` with channel, buffered channel, timer, skip and stop guards, writers and clock |
| `AltingBarrier` | alting barriers, the coordinator and the alts that select over them; uses `AltOrder`, `BarrierOps` (counters) and `ChanMonitor` (`notify_one`) |
| `Processes` | the patterns and the plug and play processes, an operator per class |
| `Demos` | the processes and the networks of the demos |
| `PlugNPlay` | the plug and play processes that work on bits, the tree of merges, and networks of the processes that no demo uses; apart because the prover supports neither bitwise nor recursive operators |
| `Network` | a `par` of such processes on rendezvous channels |
| `BasicChanProofs`, `BufferedChanProofs`, `BarrierProofs`, `AltOrderProofs`, `AltProofs`, `AltingBarrierProofs`, `ParProofs`, `NetworkProofs` | theorems |
| `MC...` | instances for TLC |

How state and actions correspond to the code:

* **Critical sections are steps.**  The code between `unique_lock lock(_mut)`
  and the end of the function, or `_cond.wait`, is one action.  A process that
  waits is in the set `cond`; a notification removes it; its `...Resume` action
  is the code after the wait.  `notify_one` may remove any waiter.
* **Ends.**  A shared end keeps its mutex while its owner waits inside the
  channel, so `mutIn` and `mutOut` are variables.  `start_read` locks by hand:
  an exception leaves the mutex locked, in the model as in the code.
* **Exceptions.**  A `poison_exception` takes a reader back to `idle`.  At the
  output end it meets a `noexcept` function: `status` becomes `"terminated"`.
  `_hold[0]` of an empty vector is undefined behaviour: `status` becomes
  `"undefined"`, or the program survives to the poison check.
* **Barrier.**  `BarrierOps` is on the code's two counters, of width `UIntMax`;
  which processes they count is known to the callers only (`members`).
* **Par.**  The mutex of `par_internal` is held for a whole run, so one program
  counter serves all callers.  A thread goes round check, process, barrier,
  park.  Every barrier sync is an action and its return another.  `start` is
  three actions: the thread runs from the first on, before it is registered and
  before `_running` is set, which it may be reading then (a data race in C++).
* **Alt.**  Every guard is enabled and disabled in a step of its own, in the
  order of the code's loops, the doubled inner loop of `disable_guards`
  included (`DisableOrder`).  A writer locks its channel, updates it and then
  calls `schedule`, two steps with the channel locked in between.  A channel
  is the number of values it holds: `write` to a plain one waits for the
  reader, to a buffered one only if the buffer is then full.  The process acts
  on what was selected, as `choice` does, in one step.
* **Alting barrier.**  A base, its front ends, the coordinator and the threads
  are one module because one selection goes through all of them.  A call that
  locks the base is a step.  `resign` and `contract` that complete a barrier
  keep the base locked (`mut`) while they wait in `start_enable`, as the code
  does.  The model follows the code where it surprises: `enable` throws for a
  front end that *is* enrolled, and so ends the program; `set_barrier_trigger`
  clears the flag it is named after, so the alt that completes a barrier also
  calls `finish_enable`, which ends the program unless it was alone; `resign`
  completes the barrier when others have still to come and not when nobody
  has; `contract(vector)` throws after it has removed the front ends.
  `status` tells whether the program has ended or met undefined behaviour.
* **Networks.**  A process is a sequence of phases; a phase is a set of
  communications of which all happen, in any order (a `par` of reads and
  writes), or one does (a selection and the read that follows).  A
  communication is one step of both processes.  What justifies this is proved
  below: a channel implements the rendezvous
  (`ImplementsRendezvous`), the read after a selection does not block
  (`SelectedIsReady`), a run of a `par` executes each process once and returns.
  `got` records the first values on the watched channels and stops nothing.  A
  network names its processes that end (`ends`): all those of the farm and of
  montecarlopi, the consumer of commstime, the reader of stressedalt.  In the
  last two the others loop on: `delta`, and the writers, are left with values
  that nobody reads, everything stops and the `par` never returns.  The model
  has this as the code does (`Done` and not `Returned`); `DeadlockFree` says
  that it does not happen earlier, and to no other network ever.
  Priorities of `pri_select` are not used, so a network may do more than the
  code, never less.  Numbers are of `Width` bits, their arithmetic wraps.

## Runs

Passing:

| run | shows | bounds |
|---|---|---|
| `chan_rendezvous` | an any2any channel with plain reads implements `RendezvousChan`; nobody is left waiting; a write waits for its reader; progress | 2 readers, 2 writers, 2 values, 3 writes: enough for a second writer to be behind the shared end while the first one's value is taken, and for one more round after it |
| `chan_ext` | order of delivery, extended reads, poison | 1 reader on a plain end that can poison inside an extended read and read again after it; 2 writers, 2 strengths, 4 writes |
| `buffered` | a buffered channel implements `FifoChan`, nobody waits without reason, no get on an empty buffer, values flow | 2 readers, 2 writers, 2 values, sizes 1, 2 and unbounded, 3 writes: more than fill the largest bounded buffer |
| `barrier` | the counting barrier implements `BarrierSpec`; counters; nobody stranded | 4 processes, counters no wider than that, so that one count too many would wrap |
| `par` | every run executes every process once and returns; `reset` and `terminate` write to a thread without a lock only while it cannot read, and what `start` writes to a running thread changes nothing; the destructor leaves no thread | 3 threads and the caller, 2 callers, 4 runs: start, reset and two releases |
| `alt` | the guard returned is ready, no lost wakeup, nothing left enabled, priority, select returns | a timer between a channel and a buffered channel of size 2, all selections and pre-conditions, a clock of 3 values; the buffered writer writes on while a value is selected and read |
| `alting_barrier` | enables exclude each other, no wakeup is lost in the coordinator, no front end stays registered with a selection that has ended | 2 threads, 2 barriers and 2 more front ends, 6 calls: expand, resign on both sides and two selections that meet, with a call to spare; counters up to 5 |
| `networks` | no network stops before its processes that end have ended; the streams are right (but for `merge`); neighbours do not eat at once; farms return, and with the whole picture | 18 networks, run without a bound on their communications; the 5 first values of each stream are recorded, and read by consumers that stop after very many; 3-bit numbers (bitwise operations differ, sums wrap); 3 philosophers (the smallest table with a neighbour on each side), 3 lines for 2 workers, so that one worker may read two lines, and may end while the other still has one to write |

Expected violations; each is something the repository says and the code does
not do (`PROJECT.json`, "findings"):

| run | shows |
|---|---|
| `end_read` | `end_read` tests `_reading` the wrong way round: an extended read never ends |
| `poisoned_read` | poison that arrives while a reader waits makes it use `_hold[0]` of an empty vector |
| `fair_select` | `select` over three channels can starve the last one for ever |
| `coordinator` | after a resignation from a barrier in which others are enrolled, `_active` stays positive and every later selection with an alting barrier waits for ever |

Because of the first, the extended-read properties of `chan_ext` and
`BasicChan` describe an extended read that never ends: `NeverBothWait` and
`ValuesFlow` leave a channel stuck in one aside.

**Fairness.**  Weak fairness is assumed for steps the scheduler and the mutexes
owe: a woken process gets its mutex back; a free end mutex is taken by one of
those that want it, though by none in particular; threads run and the processes
of a `par` terminate; a selection goes on and time passes; a thread inside a
selection over alting barriers goes on; in a network some communication happens
as long as one can, with no promise to any process.  No process is ever obliged
to call.  `LoopSpec` (run `fair_select`) adds that the selecting process
selects again.

## Proofs

TLAPS proves every safety invariant that the runs on `BasicChan`,
`BufferedChan`, `Barrier`, `Par`, `Alt` and `AltingBarrier` check, and the three
refinements, for every number of readers, writers, values, sizes, strengths,
processes, guards, threads, front ends and callers, and for every value of the
bounds on writes, runs, calls and time.  Of the networks, it proves what the
run checks of the dining philosophers and of the farm, for every size of the
table and every number of lines and of workers.  Each proof has the same shape: an
inductive invariant `IInv` (TLC checked it on the run's instance first), a
lemma per action that the action keeps it, and the properties as consequences.

* `BasicChanProofs`: `TypeOK`, `NeverBothWait`, `WriterWaitsForReader`,
  `DeliveredInOrder`, `PoisonReleases`, `SafeUnlessPoisoned`,
  `ExtendedReadBlocksWriter`.  None is inductive.  The invariant `IInv` says
  that the channel is in one of five phases (unused, reader first, writer
  first, hand-off, extended), each fixing `_empty`, `_hold`, the wait set and
  who is inside; that whoever is inside a shared end owns its mutex (so at most
  one reader and one writer are); and that poison finds a waiting reader only
  with an empty `_hold`.  Each action moves between phases.
  With plain reads (`ASSUME ~ExtendedReads`) the channel also implements the
  rendezvous, `ImplementsRendezvous`: the step in which the reader takes the
  value is the abstract meeting, and the steps by which either side enters
  `_hold` or waits are stutters.  That the writer is still inside its call at
  that step is what the phases give; `Plain` adds that no extended read is on.
* `BufferedChanProofs`: `TypeOK`, `WaitsWithReason`, `NeverUndefined` and the
  refinement `ImplementsFifo`.  `IInv` adds the exclusion by the end mutexes,
  that a waiting reader is notified exactly when there is a value
  (`ReaderNotified`) and a waiting writer when there is room
  (`WriterNotified`), and that a bounded buffer never exceeds its size and is
  full only while its writer is inside (`WithinSize`).  The last is what lets a
  write be mapped to the abstract one that needs room.
* `BarrierProofs`: `CountsMembers`, `NobodyStranded` and the refinement
  `ImplementsBarrier`.  The invariant is `CountsMembers` with the types; the
  refinement uses facts on the cardinality of finite sets.
* `AltOrderProofs`: two theorems on the walk of `disable_guards`, whose inner
  loop runs twice over some guards.  `DisablesEnabled`: it goes through every
  guard that was enabled and through no guard that does not exist.
  `PriorityWalk`: after a priority selection has chosen a guard, the walk passes
  no later guard, or passes the chosen one again after it.
* `AltProofs`: `TypeOK`, `SelectedIsReady`, `NoLostWakeup`,
  `NothingLeftEnabled`, `PriorityKept`.  A selection is interrupted by writers
  between any two guards, so `IInv` says what is true in the middle of one:
  the registered channels are exactly those passed so far, or some of those
  still to be disabled (`Registered`); a guard passed is ready only if the alt
  has been scheduled or that writer is about to (`Unmissed`); an alt that was
  scheduled has a ready guard (`Cause`); the time it wakes at by itself is the
  alarm of a timer in the selection (`Alarm`); `disable_guards` has chosen a ready guard or has still to come to
  one (`Choice`, by `DisablesEnabled`); and what was ready when the call was
  made stays ready (`StillOffered`) and is not passed over (`Priority`, by
  `PriorityWalk`).
* `AltingBarrierProofs`: `EnablesExclude`, `CoordinatorAwake`,
  `NoStaleRegistration`.  The first two are inductive once only starting
  threads wait in the coordinator (`WaitersStarting`) and a thread that
  releases a barrier is known to have it locked with somebody enrolled
  (`ReleasersHold`).  The third needs how far every selection is (`Progress`),
  that a registered front end is one enabled and not yet disabled by the
  selection it names (`Registrations`), and that guards are front ends that
  exist (`GuardsMade`).
* `ParProofs`: `RunsAreComplete`, `NoneRunsAhead`, `NoRaceOnThread`,
  `ResetsQuietBarrier`, `NoThreadSurvives`.  `IInv` ties the caller's place in
  its loop over the threads to each of them: a thread is resting between its
  barrier and its park, has been freed for this run and is active, or is on its
  way out (`Phases`); the run's barrier counts the threads and the caller that
  have still to arrive (`Barred`); a park is empty, or holds its thread, or
  holds the caller (`Parked`); and the mutex, `_running` and the registry of
  threads agree (`Owner`, `Flags`, `Registry`).
* `NetworkProofs`, the philosophers: `NeighboursExclude` (theorem `Exclusion`)
  and `DeadlockFree` (`PhilosophersGoOn`).  `IInv` says where each process is
  in its loop (`States`), that a fork waits for the second message of the
  philosopher who holds it and of nobody else (`ForksHeld`), and that SECURITY
  counts those who are seated (`SeatsCounted`).  Deadlock is excluded by
  counting: if nobody can go on, all who are seated wait for a fork and hold
  at most one each; SECURITY leaves a seat empty, so some fork is free; nobody
  seated is beside it, or he could take it; so its two neighbours stand, and
  as there is then more than one empty seat SECURITY lets one of them sit.
* `NetworkProofs`, the farm of mandelbrot1: `StreamsAreRight` (`FarmStreams`),
  `PictureIsComplete` (`FarmDelivers`) and `DeadlockFree` (`FarmNeverStops`).
  `FarmInv` says where each process is (`FarmStates`), that every line handed
  out is with one worker or has arrived, and never both or twice
  (`LinesOnce`), and that every line and every end marker sent is accounted
  for (`LinesCounted`).  So when the consumer has as many lines as there are,
  it has all of them, and each end marker has stopped one worker.
  The theorems on networks have as hypothesis that the network of that name is
  `DiningPhil`, or `Farm`, as it is in `MCNetwork`.  It cannot be an `ASSUME`:
  the processes are functions on all stores, which TLC cannot compare.

Assumptions: reader and writer processes are distinct and only a shared end has
more than one behind it; strengths are positive (poison of strength 0 only
wakes); the processes of a barrier, or of a `par`, and the front ends of an alting
barrier fit the counters; an alt has at least one guard; there are at least two
philosophers and one worker, and the record holds the whole picture; condition
variables do not wake spuriously.  C++ allows them to, and no wait of the library but
`start_enable`'s tests a condition: a channel's write would return before its
value is read, a barrier would let a process through early, and an alt would
return a guard that is not ready.

Only model-checked: all liveness (out of the prover's reach), and
`DeadlockFree` and `StreamsAreRight` of the other networks.  Those are fixed
networks without a size; what their streams hold is an induction over the
length of a stream, and some of them use recursive or bitwise operators,
neither of which the prover supports.

## Not modelled

* `overflowing_buffer`, `overwrite_oldest_buffer`, `overwriting_buffer`: their
  constructors do not compile when instantiated, so no program creates one.
  Note that `overwriting_buffer::get` returns the front and removes the back.
* `immunity` is stored by the ends and never read.  `chan_out::operator!=`
  compares with `==`.  Handles are shared pointers; copies carry no state.
* A skip guard answers `false` (documented "Always true"); `Alt` follows the
  code.
* A write to a poisoned channel ends the program, because `chan_out::write` is
  `noexcept` (poison_exception.h says that the operation throws).  `BasicChan`
  has it as `status = "terminated"`; no run is about it.
* `alting_barrier::create(n)` increments `n` in its own loop and does not
  return; `alting_barrier_internal::reset` takes no argument, so it is not the
  barrier's `reset`, and nothing calls it.
* `and_proc` reads its second input with two threads at once, and `paraplex`
  calls the `par_read` that writes into an empty vector.  The patterns on
  ranges do not compile when instantiated, `par_for_n` is not used.
* `merge` reads the first stream where it should read the second (merge.h 71).
  The network `merge` follows the code and is run, but `StreamsAreRight` leaves
  its output open: values of the second stream are lost, so it is not the merge
  of the streams that merge.h 19 announces.  If both streams come from one
  `delta`, the network deadlocks.
* commstime3 to 6 and mandelbrot2 and 3 are the networks of commstime1,
  commstime2 and mandelbrot1 again.  The measurements of the demos, their
  output and their repetitions are left out.
* `net_chan` and the skeletons are interfaces without an implementation;
  `block.h` does not parse and nothing includes it.

## What is left

The streams of commstime and of the plug and play networks for every width and
every number of values read.  Spurious wakeups: a model of each wait without
the assumption above would show what they cost, not that the code is right.
