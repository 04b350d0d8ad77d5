# gallus: specification, model checking and proofs

`gallus` (`src/framework/`) is a C framework for multithreaded packet-processing
applications: threads with cancellation, bounded blocking queues, a queue
multiplexer, pipeline stages, a callout scheduler, object pools, modules with a
common life cycle, and a main loop with an orderly shutdown.  This directory holds
TLA+ modules of its concurrent core and of its string conversions, the TLC
configurations that check them on small instances, and TLAPS proofs.

Running things, from this directory: `tlc -config <run>.cfg MC<Module>` for a run of
the table below, `tlapm <Module>Proofs.tla` for the proofs.  `PROJECT.json` names
for every definition the lines of the source it stands for.

## 1. The system: inventory

All paths are under `src/framework/lib/`, headers under `src/framework/include/`.

| Component | State it keeps | Operations | Meets | What is hard | What makes it correct |
|---|---|---|---|---|---|
| Circular buffer `cbuffer.c` (`gallus_bbq_*` are macros over it) | ring of `N+1` slots, two 64-bit indices, element count, waiter count, operational and awakened flags, one mutex, three condition variables | put, get, peek, wait_gettable, wait_puttable, wakeup, clear, shutdown, cancel janitor | qmuxer (notification), pipelines, callout stage, pools | sleepers against every kind of change, partial puts and gets, time limits, wakeup with acknowledgement, cancellation inside a wait, index arithmetic | first-in first-out, no lost wakeup, indices and count agree, shutdown releases |
| Global state `gstate.c` | `s_gs`, `s_gl`, one mutex, one condition variable | set, get, wait_for, request_shutdown, reset, cancel janitor | main loop, signals, exit handler, every long-running thread | two requesters, requester waiting for an acceptance, cancelled sleeper | one way, one grace level, released at shutdown |
| Modules `module.c` | table of 64 slots with a status each, its own global state, a plain mutex with a condition variable, counters | register, find, initialize/start/shutdown/stop/wait/finalize of all, unloading queries, exit handler | main loop, every module's procedures and thread | half-done bulk calls, repeated calls, time limits, exit(3) at any point | status tells the truth, order, nothing finalized under a running thread |
| Main loop `mainloop.c` | `s_do_abort`, `s_gl`, the main loop thread, hooks, pipe to a parent | gallus_mainloop, wait_thread, abort_before_mainloop, hooks, signal handler | gstate, module, thread, signal, callout | signals during startup, two ways to run, exit during everything, a parent process | a requested shutdown ends the process, failures are reported |
| Signals `signal.c` | handler table, set of signals, signal thread with its mask | gallus_signal, the loop around sigwait | main loop | a signal between the change of a handler and the thread that learns of it | a handler comes into force |
| Threads `thread.c` | four mutexes, three condition variables, flags, pthread id, result code, CPU set, table of valid objects | create, start, cancel, wait, get_result_code, destroy, autodelete, affinity | everything | start handshake, cancellation against a normal end, deletion against waiters | the object outlives its users, the final procedure once per run |
| Queue multiplexer `qmuxer.c`, `qpoll.c` | poll objects, a mutex and a condition variable; in each queue one place for a multiplexer | poll create/set_queue/set_type, qmuxer_poll, notify | cbuffer | notification between the look at the queues and the sleep, several pollers of one queue | a sleeper is told, an event that stays is seen |
| Pipeline stages `pipeline_stage.c`, `pipeline_worker.c` | status, workers, batch buffers, pause barrier, maintenance request, shutdown level | create, setup, start, submit, pause, resume, maintenance, shutdown, cancel, wait, destroy | threads, gstate, cbuffer through the methods of the stage | workers and pauser at a barrier with time limits, worker that ends, restart | paused means nobody works; a pause or a shutdown ends |
| Callouts `callout.c`, `callout_task.c`, `callout_queue.c`, `callout_stage.c` | tasks with state, reference counts and times; urgent, idle and timed queues; worker stage | create task, submit, force, cancel, reset interval, start and stop of the loop, finalize | pipelines, cbuffer, main loop, statistics | cancel against dispatch, execution and repetition, freeing | a task runs when due, not after its cancellation, is freed once |
| Pools `pool.c`, `poolable.c`, `pooled_thread.c`, `task.c`, `runnable.c` | array of objects, free queue or used flags, counters, pool state; tasks with their state | acquire, release, wakeup, shutdown, cancel, wait, destroy; tasks run by pooled threads | cbuffer, threads, hash map | acquire against release, shutdown and wakeup; a task against the end of its thread | an object has one user; waits for tasks end |
| Locks `lock.c` | pthread objects with their type | mutexes, reader-writer locks, condition variables, barriers, enter/leave critical | everything | deadlines recomputed, spurious wakeups, cancellation | contract of POSIX |
| Hash map `hashmap.c`, `hash.c` (vendored) | table with chains, reader-writer lock | add, find, delete, iterate, clear, shutdown | thread, pool, stage and statistic tables | rebuilds under pointers into the table, iteration against changes | a function with atomic operations |
| Statistics `statistic.c` | atomic count, minimum, maximum, sum, sum of squares | create, find, record, reset, read, destroy | callouts | five atomics updated one after the other | nothing is lost |
| Strings `strutils.c` | none | parse numbers, tokenize, escape, trim | configuration, everything textual | signs, bases, multipliers, ranges, quotes at the ends | what is read is what is written |
| Logger, sessions, dynamic strings, addresses, time, errors, NUMA, heap check | | | | input and output, conversions, external libraries | |

How they meet: every component blocks through `gallus_cond_wait` of `lock.c`
(pthread condition variables, with an absolute deadline computed in the call), so a
wakeup may be spurious and a retry after one has the whole time limit anew.  Threads
are cancelled with deferred POSIX cancellation; every condition wait is a
cancellation point, and *janitor* calls give a lock back after it.  Modules are
registered by constructors; `gallus_mainloop` drives the module manager through the
start and, once somebody has requested a shutdown from the state tracker, through
shutdown, wait, stop and finalization.  The exit handler of `module.c` decides
whether the static destructors of the library may run.

## 2. The modules

| Module | Stands for | Notes |
|---|---|---|
| `Results` | the result codes the models tell apart | |
| `CBuffer` | `cbuffer.c` | implements `BoundedQueue` |
| `BoundedQueue` | the promise of a blocking queue | a sequence, values being put, values got; no locks or indices |
| `GState` | `gstate.c` | |
| `Module` | `module.c` without the exit handler | one action per turn of the loop of a bulk call |
| `Signals` | `signal.c` | |
| `Lifecycle` | `mainloop.c`, `s_term_handler`, `s_atexit_handler` | instantiates `GState`, `Module` and `Signals` and takes their actions |
| `Thread` | `thread.c`, one object | |
| `Pipeline` | `pipeline_stage.c`, `pipeline_worker.c`, one stage | implements `Stage` |
| `Stage` | the promise of a stage | stopped, running, paused, closing, over; who works |
| `Callout` | `callout*.c` | |
| `ThreadPool` | `pool.c` (queue type), `poolable.c`, `pooled_thread.c`, `task.c` | |
| `QMuxer` | `qmuxer.c`, `qpoll.c` and what `cbuffer.c` does for them | |
| `HashMap` | `hashmap.c`, `hash.c` | implements `KeyMap` |
| `KeyMap` | the promise of a map | a function, whose operations happen at once |
| `Statistic` | `statistic.c`, one name | |
| `Strutils` | `strutils.c` | pure operators, against definitions of what they compute |
| `MC*` | small instances | |
| `CBufferProofs`, `ModuleProofs`, `ThreadProofs`, `PipelineProofs`, `ThreadPoolProofs`, `QMuxerProofs`, `LifecycleProofs`, `CalloutProofs` | theorems about the module of that name; those about `GState` are in `ModuleProofs` | section 4 |

### Composition

`Lifecycle` is the composition of the main loop with the state tracker, the module
manager and the signal thread: their variables are its variables, and its actions
take theirs (`GS!RequestShutdown`, `Mod!Step`, `Sg!gallus_signal`).  The others meet
through contracts that another module checks: `Pipeline`, `Callout` and `ThreadPool`
reduce a thread to what `Thread` shows of it (started, cancelled at a cancellation
point, finalized, and only then waited for), `Callout`, `ThreadPool` and `QMuxer` a
queue to what `BoundedQueue` promises, `Statistic` its table to `KeyMap`, and the
workers of `Callout` a stage to the loop of `Pipeline`.

### Atomicity

One action is one critical section: from taking the component's mutex to releasing
it, or to the `gallus_cond_wait` that releases it.  A thread inside a call has a place
(`pc`, `at`, `cpc`, ...) and, where it sleeps, a reason its wait is about to return;
notify sets it for the sleepers of that condition variable, an expiring timer and a
spurious wakeup set it too, and a separate action re-acquires the lock and goes on at
the label the code jumps to.  So any other thread may run between a notification and
its effect.  Reads outside a lock are actions of their own where the code has them
(the state read by the signal handler, `m_is_started` in `gallus_thread_wait`, the
flags a worker of a stage reads one after the other, `m_is_in_timed_q` in a
cancellation).  Locks that are held over several steps are variables
(`m_lock` and `m_pause_lock` of a stage, the global lock of the callouts, the lock of a
task whose procedure runs under it, `m_lck` of a pool, the reader-writer lock of a map).

### CBuffer and BoundedQueue

State: `m_r_idx`, `m_w_idx`, `m_n_elements`, `m_data` (the ring), `m_n_waiters`,
`m_is_operational`, `m_is_awakened`; per thread the place, the arguments (`call`),
how far it is (`n_copied`, `got`) and its result.  `s_put_n` and `s_get_n` are
`PutPass` and `GetPass`: the label `recheck`, with the partial copy and the choice to
sleep; `Recheck`, `AwakenedExit`, `TimedOutExit` are the ways `s_wait_io_ready`
returns.  `s_copyin` and `s_copyout` keep both `memcpy` with their lengths (`CopyinData`,
`CopyoutData`), since their sum and the spare slot are the point of the ring.
Indices are integers with a largest value `IdxMax`; passing it wraps to negative
numbers, as the adjustment of `s_adjust_indices` expects.  Values are numbered in
the order they are submitted, so that "once and in order" can be said.  The constant
`Ops` says which of the calls each thread makes.

`BoundedQueue` is a sequence, the values calls still have to put, and those they have
got; `ImplementsQueue` maps the ring's used slots to that sequence.  One step of
`CBuffer` may move several values, and so may one of `BoundedQueue`.

### GState

`Set`, `Get`, `WaitFor` with `WaitForReturns`, `RequestShutdown` with
`RequestReturns`, `Reset` and `Cancel` are the functions of `gstate.c`.
`global_state_wait_for_shutdown_request` is `WaitFor` with `REQUEST_SHUTDOWN`.

### Module

`m_status` per slot and `s_gstate` are the code's.  A bulk call is `Begin` (lock, state
change), `Step` once per module, `End` (state change, unlock); `bulk[t]` is its loop
index and first error.  What a module's procedures do is external: `worker` says
whether its thread runs, was asked to stop, is being cancelled, ended, or was
cancelled, and procedures return OK or, when in `Failing`, an error.  The lock is a plain
mutex, held by a bulk call from `Begin` to `End`; only the exit handler, which is in
`Lifecycle`, unlocks what it may not hold.

### Lifecycle and Signals

Three actors: the main thread, the main loop thread (if `do_thread`) and the signal
thread, and one of them may be the exiting thread.  `mlpc` walks through `s_prologue`,
the idle procedure and `s_epilogue`; `After` is what follows each bulk call.  The main
loop is the default one or the one of the callouts.  The latter is `LoopCallouts`: it starts
its workers, looks for `STARTED`, and calls its idle procedure and waits in turns, until the
procedure has got a request, or without one if it finds another state than `STARTED` or
its wait fails; `s_epilogue` follows in every case, with `ml_gl` the level it has then.  What
the scheduler does in each turn is in `Callout`.  The exit handler is `CallExit` (the trylock and, if it fails, the choice by
`s_gstate`), `ExitRechecks` (the label `recheck`), `ExitRequests` and `ExitFinalizes`.
A module procedure may call `exit(3)` (`ProcExits`).  `orphaned` says that the tracker's
lock belongs to a cancelled main loop thread, in which case nobody gets it again.

`Signals` keeps `m_sigset` and `m_sigprocs`, and of the signal thread the mask, the set it
called `sigwait` with, and the signal it got.  `gallus_signal` changes the former and
sends itself `SIGUSR2`; `Refresh` is the mask the thread sets before it sleeps again.  A
signal that no thread blocks takes its default action (`SignalKills`).

### Thread

The flags of the object and `m_finalize_lock`; per thread the place, the call and the
result.  All that is done under `m_wait_lock` is atomic, because no other lock that
somebody waits for is taken inside.  `Start`/`StartResumes` and
`ChildEnters`/`ChildSynced` are the handshake; `FinalizeBegins`, `FinalizeRuns`,
`FinalizeEnds` are `s_finalize`; `WaitChecks`, `WaitReads`, `WaitFinal`, `WaitEnds` are
`gallus_thread_wait` and what its callers do afterwards (`gallus_thread_get_result_code`,
`gallus_thread_destroy`).  `m_cpuset` is the CPU set of the object and `affinity` that of the
running thread; `SetAffinity` sets either or both, as `s_get_pthdid` decides.  Callers keep
a contract: nothing is called on an object that is being destroyed, destroy is called when
no other call is under way, and an object that deletes itself is left alone.

### Pipeline and Stage

A call on a stage holds `m_lock` from its beginning to its end, also while it sleeps, so
that calls follow one another; the callers' places are those where they sleep (the pause,
the wait, the destruction) or depend on a worker (the start and its undoing).  A worker goes
round `WORKER_LOOP`: `Loop` reads `m_do_loop`, `Test` the request and the procedure, `Work` is
a round of fetch, main and throw, and the pause and maintenance go through the barrier
(`BarrierFull`, `BarrierOpens`), whose master runs the maintenance procedure under
`m_pause_lock`.  `Finalize` is the final call of a worker, normal or cancelled.
`Styles` says how the users of a stage use it, since not every mixture makes sense: a
stage is paused with and without a time limit, or is paused and maintained.

### Callout

A task's life is its two states, the one in the table (`table`) and the one in the record
(`m_status`), its reference counts, and where it is: in the urgent, idle or timed queue, in
what a thread has taken (`todo`), in a worker's queue, with an executor (`exec`), with
a canceller (`canc`), or being deleted (`dest`).  The three stand for the layers of calls
`s_exec_task`, `s_cancel` and `s_set_cancel_and_destroy_task_no_lock`, each of which
goes on in steps where it leaves a lock; an executor that runs a procedure which cancels
a task has all three.  The main loop is `SchedFetches`, `SchedIdles`, the peek at the timed
queue, and the wait for the urgent one.  Its sleep there keeps what `s_wait_io_ready` needs:
`woken` is the notification on its way, `m_is_awakened` the flag of the urgent queue that a
wakeup sets and its answer resets.  The sleep ends by `SchedAwakes`, which answers a wakeup, goes
round for an urgent task, and ends the loop for neither (a `SpuriousWakeup` is enough), or by
`SchedTimesOut`, which answers nobody.  A stopper wakes the loop up (`StopWakes`), waits for the answer
(`StopAnswered`), and then for the end of the loop.  `Modes` says whether workers run the tasks, who
cancels them, and whether users force them.

### ThreadPool

`obj` are the poolables with their flags, `tr` the runners' `m_tsk` and shutdown request;
`rpc` is where a runner's thread is in `s_task_runner_main`, `cpc` a client in acquire, run,
wait and release, `bpc` the boss in shutdown, cancel, wait and destroy.  `AcquireLooks` to
`AcquireFails` follow the two critical regions of `gallus_pool_acquire_poolable` with the wait
in the free queue between them; `AcquireSticks` is a creation that fails and never comes back with
the lock (O6).  A runner that releases itself does it by
`RunnerReleases` and `RunnerPuts`.

### QMuxer

A queue is the number of its elements and whether it is up; `m_qmuxer` and `m_type` are its
place for a multiplexer.  `Poll` begins a call, `Look` is `cbuffer_setup_for_qmuxer` for one
queue (before and after the wait), `Sleeps`, `TimesOut`, `Wakes` the wait.  `missed` is
a history variable: the polls of a sleeper whose event came between his look and his sleep.

### HashMap and KeyMap

The table keeps its chains (`buckets`), the sizes and the shift that the index depends on,
and for every entry the bucket it believes to be in; `Rebuild` moves the entries in the order of
the enumeration.  Keys are strings, words or arrays of integers, which differ in how
they are hashed and found; `Spread` is the constant of `HashArray`'s mixing.  An iteration takes a step
for every entry, with `NextHashEntry` reading the chain in between.  `KeyMap` is a
function with atomic operations, and an iteration that nobody else interrupts.

### Statistic

The five counters, each with a width of `2 * Half`; every atomic operation, every store of a
reset and every load of a compare-and-exchange is a step.  `samples` is the bag of the values
recorded, `mixed` says that a reset overlapped a record, `alone` who reads undisturbed.

### Strutils

The conversions as operators on sequences of characters, with the state of the
code's loops as arguments of recursive operators; `mpz_set_str` of GMP is external.  A
behaviour types one string, character by character, so that every string up to the bound
is a state; the properties compare what the code computes for it with what a grammar, or
a reader of one character at a time, says of it.

## 3. The runs

All are expected to hold.

| Run | What it shows |
|---|---|
| `cbuffer` | The ring implements `BoundedQueue`, nobody sleeps for a reason that is gone, indices and count agree, and a shutdown releases everybody, for one thread that puts and one that gets, peeks and is cancelled, and for a clear, a shutdown and a wakeup at any time |
| `gstate` | Nobody sleeps on for a state that has come (`SleepersHaveReason`), the state moves one way and the grace level granted stays (`OneWay`), a shutdown state releases everybody |
| `module_safety` | Statuses tell the truth about the threads (`StatusTellsWorker`), nothing runs ahead of an earlier module (`NoGap`), nothing is finalized under its running thread (`FinalizesStopped`), for bulk calls of two threads in any order |
| `lifecycle` | Destructors run only over modules that are gone (`DestructorsSafe`), the modules go down with the grace level of the granted request (`LevelGranted`), in reverse order and, once the main loop has got a request, all of them (`OrderlyEnd`), a requested shutdown ends the process (`ShutdownEnds`), a handler comes into force although the signal thread sleeps (`HandlersInForce`) |
| `thread` | Affinities are in force (`AffinityInForce`), the object is torn down when nobody is inside (`NoUseAfterDestroy`), one thread at a time, and none that is gone is cancelled (`OneThread`), the final procedure runs once per run (`FinalProcOnce`), starts, waits and destroys end (`CallsEnd`) |
| `pipeline` | A stage implements `Stage`; pauses and maintenances find nobody working (`WorkersIdle`), the end of a stage is that of its workers and is counted right (`EndsAgree`), a first pause begins and every sleeper wakes up after it (`PausesEnd`), workers told to end do (`EndsRightNow`) |
| `callout` | No task is used after it was freed, lost, or misplaced in the timed queue (`TasksSound`), a finalization leaves nothing (`FinalizeCleans`), one-shot tasks run once and tasks that procedures cancelled never (`RunsAllowed`), due tasks are served unless the loop is stopped or ends by itself (`Served`), a stop returns unless its wakeup meets the time limit of the loop's sleep (`StopEnds`) |
| `pool` | Every thread of a pool is free, in use or on its way to one client, and counted (`Accounted`), a task whose end was told is over (`DoneIsOver`), waits for tasks (`TasksEnd`) and for the pool (`PoolEnds`) end |
| `qmuxer` | A sleeper is told of the events after his look (`SleeperTold`), one who polls again and again sees an event that stays (`EventsSeen`) |
| `hashmap` | The map implements `KeyMap` through a rebuild |
| `statistic` | Counters are exact once everybody is through, and so are undisturbed readings (`CountersExact`) |
| `strutils` | Strings are read as the numbers they say and no others (`NumbersRight`); tokens, quotes, escapes and trims are what their definitions say (`TextsRight`) |

A property of several parts is the conjunction of definitions with a comment each;
`PROJECT.json` names for each property a mutant, a plausible slip in the code
(the definitions with an underscore and a capital, such as `Clear_Silent`), that violates it.

Deadlock is not checked: an application whose threads have all returned, and one
that idles, may rightly stop, and so do the bounded instances.

### Bounds, and why they are enough

* `cbuffer`: a capacity of 2 (three slots) with requests of up to 3 makes both copies wrap
  in every position and a put larger than the buffer; `MaxVals = 4` bounds the values submitted
  in a behaviour and with them its length; `IdxMax` is out of reach.  `"zero"`, `"inf"` and
  `"timed"` are the three kinds of `nsec`; a time limit is a timer that may expire at any
  time.  One putter and one getter contend for everything the calls share; that more of
  them lose no wakeup and keep the indices is proved for any number (section 4).
* `gstate`: `Settable` and `Awaited` are states before the request, the acceptance, and
  beyond, which are the cases the comparisons tell apart.
* `module_safety`: two modules have an order, two finalizations show a repeated one; every kind
  of module and every failing procedure occurs.
* `lifecycle`: two modules, one with a stop procedure and one that can only be cancelled; one
  `SIGTERM`, which comes too early, in time or too late.  The procedures that come first
  (initialize and start) may fail; those that fail on the way down are in `module_safety`.
* `thread`: two runs of the object, so that a restart meets the end of an earlier run; CPUs 0 and 1.
  One of the callers starts, see deviation T1; `pthread_create` does not fail, see T4.
* `pipeline`: two workers meet at the barrier, two requests follow one another.  Since `m_lock`
  is held throughout a call, a second caller would only wait; one caller makes every
  sequence of calls.  `ClockStands = FALSE`, see P3.
* `callout`: two tasks have an order in the queues and can cancel one another; with the other
  uses (workers, users that cancel or force) one task is enough for the races about it; where the
  worker stands beside forced executions, which only timed tasks have, the task is timed.  `Cap = 2` is
  never exceeded, see C4; the clock goes to 1, so that a repetition with interval 1 comes round.
* `pool`: two clients for one thread; a task each.
* `qmuxer`: one poller of two queues and one of them shared with another poller, who changes what he
  polls; a capacity of 2.
* `hashmap`: three keys that all collide before the table is rebuilt and in part after; the
  scaled-down table has `Slots = 2` buckets and is rebuilt at the second entry.
* `statistic`: counters of four bits, values at both ends of the range and three samples, so that
  sums and squares wrap around.
* `strutils`: numbers up to five characters over ten of them and texts up to six over five; types of 4,
  8 and 21 bits, so that all three are left by some number of that length.

### Fairness

`FairSpec` of each module asks weak fairness of what a thread does by itself once
it can: getting the mutex it was woken for, going on inside the library, returning.
Mutexes are assumed fair, as the default Linux scheduler makes them in the long run.
It is never asked of the environment: no caller has to call, no signal has to arrive,
no module thread has to end.

* `CBuffer` and `QMuxer` also let timers expire, which real time does (`gallus_cond_wait`
  uses an absolute deadline), and the polls of `QMuxer` repeat, which is what its header asks
  of its users.
* In `Lifecycle` module procedures and hooks return; in `Thread` a main procedure need not
  end but comes to a cancellation point, as every blocking call of the library is one.
* In `Pipeline` a cancellation strikes a worker that sleeps (`WF` of `CancelStrikes` outside
  of user procedures); a user procedure need not have a cancellation point, and
  `EndsRightNow` holds nevertheless.
* In `Callout` each thread has one weak fairness for all of its layers of calls, and the clock
  ticks; a spurious wakeup may come and need not.  Task procedures of the main loop return (`SF` of `ProcReturns`: a procedure that
  calls the scheduler is disabled by its inner calls now and then).

## 4. What is proved

`tlapm` checks, for every value of the constants that satisfies the named
assumption of the module (`CBufferAssumption`, `GStateAssumption`, `ModuleAssumption`,
`ThreadAssumption`, `PipelineAssumption`, `ThreadPoolAssumption`, `QMuxerAssumption`,
`LifecycleAssumption`, `CalloutAssumption`):

| Theorem | States | Argument |
|---|---|---|
| `CBufferProofs!TypeCorrect` | `Spec => []TypeOK` | `TypeInv`: the types, and `CallsFit`, that a call never has more copied than it asked for, without which the lengths of the next partial copy are not bounded |
| `CBufferProofs!NoLostWakeup` | `Spec => []SleepersHaveReason` | `SleepInv` adds `ClosedIsEmpty` (a buffer that was shut down is empty) and a condition per sleeper: a notification in flight counts as a reason, so that each change of the ring is matched with the notify of the same critical section |
| `CBufferProofs!RingCorrect` | as long as the indices stay below `IdxMax`, `RingConsistent` | `RingInv`: the two indices differ by the element count, which each copy moves by the same number |
| `CBufferProofs!WaitersCorrect` | without cancellation `WaitersCounted` | `WaitInv`: `m_n_waiters` is the cardinality of the threads in `s_wait_io_ready`; each enters and leaves once |
| `CBufferProofs!QueueImplemented` | as long as the indices stay below `IdxMax`, the refinement `ImplementsQueue` | `QueueInv` adds to `RingInv` that only a put brings values (`CallsSound`).  The slots are remainders: `ModShift` and `ModSmall` reduce them to places in the queue (`PlaceOfSlot`), so that the two `memcpy` append a portion (`CopyinQueues`) or take one off (`CopyoutQueues`) wherever the ring ends; each pass is then an `Accept` or a `Hand` of `BoundedQueue`, or neither |
| `ModuleProofs!NoLostWakeup` | `Spec => []SleepersHaveReason`, with cancellations, spurious wakeups and reset | `Inv`, the types and the property, which is inductive with them: every state change notifies everybody, and a reset only takes the state back |
| `ModuleProofs!OneWayCorrect` | `Spec => OneWay` | each action either refuses or moves the state forward |
| `ModuleProofs!RequesterUnique` | without the reset at most one thread is inside a granted request | `REQUEST_SHUTDOWN`, once set, is never left backwards, and a request is granted only before it |
| `ModuleProofs!TypeCorrect` | `Spec => []TypeOK`: `MAX_MODULES` is kept, and a bulk call stays within the registered modules | `LockHeld`: only the owner of `s_lck` is in a bulk call, so that nothing is registered during one |
| `ModuleProofs!StatusCorrect` | `Spec => []StatusTellsWorker` | `SlotsFit` adds that a worker being cancelled means the status `CANCELLING`, and that a module without a thread has no worker; each turn keeps both (`TurnsGood`) |
| `ModuleProofs!FinalizeCorrect` | `Spec => FinalizesStopped` | a status from which `s_finalize_module` goes on excludes a live worker, by `SlotsFit` |
| `ModuleProofs!OrderCorrect` | `Spec => []NoGap` | `Progress`: a forward call without an error so far has brought all the modules it went through to what it is about; no turn lowers a rank |
| `ThreadProofs!OneThreadCorrect` | with one starter, `Spec => [](TypeOK /\ OneThread)` | `Runner`: `m_pthd` is the child that runs; `Handshake`: until the child has entered, its starter waits, so that nobody else finds the object startable |
| `ThreadProofs!FinalProcCorrect` | with one starter, `Spec => []FinalProcOnce` | `Turns`: `s_finalize` is entered by one child at a time, and counts each call; `Waiters`: a wait that succeeds has seen the end of the activity it waited for |
| `ThreadProofs!AffinityCorrect` | `Spec => []AffinityInForce`, for any number of starters | `InForce`: `m_cpuset` and the affinity of the thread change together, except at the start (T2) |
| `ThreadProofs!NoUseCorrect` | with one starter and a `pthread_create` that does not fail, `Spec => []NoUseAfterDestroy` | `SafeInv` adds who destroys: one thread at most (`Deleters`); an object that is to delete itself has nobody inside but the starter (`SelfDeletion`); a caller that destroys has seen that the object is inactive, and waits without a time limit (`Destruction`, `Untimed`) |
| `PipelineProofs!EndsCorrect` | on a clock that goes, `Spec => [](TypeOK /\ EndsAgree)` | `EndInv`: the counts are the cardinalities of the workers that have left and of the cancelled among them (`Counts`); a wait has met only workers that are gone (`Waited`); a start that fails takes its workers back (`Crew`) |
| `PipelineProofs!IdleCorrect` | with patient users, `Spec => []WorkersIdle` | `RoundInv`: at most one worker is the barrier's master, and while it has still to act all the others sit behind the barrier (`PauseRounds`, `MaintenanceRounds`, `Masters`) |
| `PipelineProofs!StageImplemented` | under both, `Spec => ImplementsStage` | the refinement of `Stage`: by `RoundInv /\ EndInv` the phase is a function of the status, the requests and the workers' places (`PhaseIs`), and each action is a step of `Stage` or leaves the phase and who works alone |
| `ThreadPoolProofs!AccountedCorrect` | `Spec => []Accounted` | `PoolInv`: the free queue holds a thread once (`QueueSound`), a thread that is not in use is in it or with the one client that got it from there, and the count is a cardinality (`Counted`).  That who gives a thread back has it alone needs the other half |
| `ThreadPoolProofs!DoneCorrect` | `Spec => [](TypeOK /\ DoneIsOver)` | `TaskInv`: a task is with one thread (`Given`); at most one, a client or the thread itself, has to give the thread back, as the flags of its task say (`Held`); a thread with a task is in use, by a client that waits for that very task (`Occupied`); and each place of `s_task_runner_main` knows whether its `t` is still `m_tsk` (`RunnerSound`) |
| `QMuxerProofs!ToldCorrect` | `Spec => [](TypeOK /\ SleeperTold)` | `Sound`: of a queue that is a poller's `Own`, the look before the sleep leaves his multiplexer in it (`InPlace`), where only he takes it out; while he sleeps and has missed nothing, the queue is as the look has found it (`Awake`), since a put to an empty queue and a get from a full one find him there |
| `LifecycleProofs!LevelCorrect` | `Spec => []LevelGranted` | `Tracked` ties the place of the main loop to the tracker's state, so that from `REQUEST_SHUTDOWN` on the level is set and stays; `LevelKept`: the idle procedure that has got `OK` has got that level, a time limit sends it back, and only the loop of the callouts comes to `s_epilogue` without one, where `gallus_module_shutdown_all` refuses it |
| `LifecycleProofs!DestructorsCorrect` | `Spec => []DestructorsSafe` | `Inited`: before `s_is_mods_inited` no module has a thread; `Counted`: each finalization finds no live thread (by `StatusFits`) and is counted once, so that a full count means every module.  That the exit handler finalizes instead of the main loop, and never after it, is in `Exiting` and `Called` |
| `LifecycleProofs!OrderlyCorrect` | unless shutdown or stop procedures fail, `Spec => []OrderlyEnd` | `GoingDown`: for each place of `s_epilogue`, what the modules behind the current turn (`Behind`) and those ahead of it look like; `ComingUp` says that all are started when it begins, and that none is told to go down by a loop without a level |
| `CalloutProofs!TasksSoundAlways` | with one user, and cancellations by the procedures of the main loop if at all, `Spec => []TasksSound` | `IInv`: a task is in one hand (`Apart`): a queue, what a thread has taken, a worker's queue, an executor or a destroyer; each hand says what the table and the record of its task must show (`Stated`), and `m_is_in_timed_q` is whether it is in the timed queue (`Agreed`).  `m_exec_ref_count` is the cardinality of the executors that have counted themselves in (`CountSound`), so that who finds it 0 has the task alone, and nobody has one that was freed (`FreedSound`) |
| `CalloutProofs!FinalizeCleansAlways` | under the same, `Spec => []FinalizeCleans` | `Emptied`: a finalization empties one queue after the other, and by `LoopSound` and `StageSound` the main loop and the workers are over before, so that nothing fills them again; a task that nobody has (`Kept`) was never submitted, or is the one of C2 |
| `CalloutProofs!RunsAllowedAlways` | under the same, `Spec => RunsAllowed` | `CanceledSound`: a cancelled task stays `CANCELLED` until it is destroyed, and an executor only begins one that both its states call `DEQUEUED`; `OneShot`: a task without interval that was executed is not scheduled again |

### The hypotheses

They are cases in which the code itself keeps the promise, and where they fail the
runs show why (section 5):

* no cancellation, and room for the indices (`IndexHasRoom`: `m_w_idx + MaxElems <= IdxMax`):
  a cancelled waiter stays counted (B4), and the index adjustment loses elements (B3);
* `OneStarter`: no second start comes while the first waits for its child (T1); `PlainFails`:
  `pthread_create` does not fail after the autodelete flag was set (T4);
* `Patient`: users that schedule maintenances neither limit the time of their pauses nor are
  cancelled in them (P2); pauses with time limits are covered when nobody schedules a maintenance;
* `ClockGoes`: the clock shows some time between two reads of it (P3);
* `OneUser`, `Orderly`: one user thread uses the callouts, since two could submit the same task at
  once, or one go on while the other finalizes; tasks are cancelled by nobody, with workers and
  forced executions, or by the procedures of tasks where the main loop alone runs them.  A user who
  cancels, or a procedure beside workers, meets C1;
* `OrderlyCorrect` has no failing shutdown or stop procedure: a module that refuses to shut down
  keeps running while the modules before it are told to, and `s_epilogue` goes on to the finalization
  when the stop of a module fails, its thread alive.

`ThreadAssumption` has the machine's set of CPUs not empty.  The theorems about `Module`,
`ThreadPool` and `QMuxer`, and the other two about `Lifecycle`, have no hypothesis but the named
assumption; of those about `GState` only `RequesterUnique` leaves the reset out.

### How the invariants were found

The invariants were checked by TLC on the instances of the runs before they were
proved.  In the proofs each action has a lemma, or a case, of its own; those that
only move a thread between places go through lemmas that say which changes an
invariant does not notice (`PoolKeeps`, `TasksKeep` and `RunnerMoves` in
`ThreadPoolProofs`; `QuietInv`, `TrackerStepInv`, `ExitStepInv` and `Moves` in `LifecycleProofs`).

The invariant of `Callout` speaks of each task and of each thread by itself, and its proof goes the same way.
`TaskFrame` and `ThreadFrame` say what leaves a task or a thread as it was, `MovedSound` what
a task must show that goes from one hand to another, and `DoomedSound` one that is to be destroyed, `ExecutorStep` and `ReleaseStep` how a count goes with its executor.  On them rests one lemma
`...Keeps` per action.  What the queues do is stated by index (`InsertSeq`, `WithoutSeq`).

`Lifecycle` takes the actions of `GState` and `Module` for its own threads, and its proofs use
them through what they do (`WaitForEffect`, `RequestEffect`, `StepTurn`, `EndEffect`), not through
the theorems about those modules, whose other users are not there.

### Only model-checked

* Everything under fairness, since TLAPS has no rules for `ENABLED` here.
* The refinement `ImplementsMap`, whose chains are sequences that are rebuilt by a fold.
* `Callout` with several users, with users that cancel, or with procedures that cancel beside workers
  or forced executions.
* `CountersExact` of `Statistic`: it compares the counters with sums over the recorded samples, which
  are folds, and what a fold computes for every set is an induction over data.
* `Strutils`, which is written with recursive operators, which the provers do not take; what they
  compute is checked for all strings up to the bound.

The type invariants `TypeOK` of the modules without a proof hold on the instances of the runs; they
are not listed there, because a state of another type is one that the properties would show.

## 5. Deviations the models reproduce

The models do what the code does.  Where that differs from a comment, a header or a
message of the repository, or from what a user would expect, it is written down here with the
action that reproduces it.  Properties that state the expectation and are false of the code
are kept in the modules, marked "False of the code, and in no run".

Buffer
- B1 *Waker left asleep* (`WakerRecheck`, `WakerReleased`).  The waiter that leaves last releases
  the waker only if its own wait returned OK; if it timed out, `gallus_cbuffer_wakeup` without a
  time limit sleeps on.  The comment at `cbuffer.c:264` says "the waker is waiting for a
  notification that the all the waiters are awakened and leave this function."
- B2 *wait_gettable* (`WaitReady`).  It returns the count after one wait, 0 included, and it
  does not look at `m_is_operational`: on a buffer that is shut down it sleeps.  *Peek* for more
  than there is takes the branch "Must not happen" (`GetPass`) instead of blocking.
- B3 *Index overflow* (`s_adjust_w`).  After the write index has wrapped to negative, it is
  set to the number of slots whatever the number of elements.
- B4 *Cancelled waiter* (`CBuffer!Cancel`).  It stays counted in `m_n_waiters`.

State, modules, main loop, signals
- L1 *Waiter past the shutdown* (`GState!WaitResult`).  `gstate.c:194` tests `s_gs >= s_wait_for`
  first, so a waiter for `STARTED` that finds a shutdown state is told OK, where
  `gallus_gstate.h:106` promises `NOT_OPERATIONAL`.
- L2 *Names* (`Module!s_find_module`).  With `retmptr == NULL` a registered name is not
  found, so it can be registered twice.
- L3 *Abortion* (`ExitRequests`).  A signal during the startup makes the main loop return with
  modules started and nobody left to accept a shutdown; the exit handler requests one and waits
  for ever (`gallus_mainloop.h:50`).  A signal that reads the state just before `STARTED` and sets
  `s_do_abort` after its last test has no effect (`SignalHandled`).
- L4 *Failed start* (`MainGoesOn`).  With a main loop thread, `s_start_mainloop_thd`
  (`mainloop.c:481`) waits for `STARTED`, which a failed prologue never sets.
- L5 *Epilogue* (`After`).  If a shutdown procedure fails, the remaining modules are neither
  waited for nor stopped.
- L6 *wait_thread* (`MainWaits`, `LoopCanceled`).  It cancels a main loop thread that has not ended
  within its time limit, shutdown requested or not, and the tracker's lock may go with it.  The
  loop of the callouts is a critical section, and dies only when it leaves it
  (`gallus_mutex_leave_critical`), perhaps after it has accepted a request.
- L7 *Unlock at exit* (`CallExit`).  The exiting main thread unlocks `s_lck` although the main
  loop thread may hold it.
- L8 *SIGTERM in between* (`SignalKills`).  Between the return of `gallus_signal` and the next
  update of the mask by the signal thread a signal still takes its default action; one whose
  handler was reset to `SIG_DFL` is swallowed until then.  `m_sigprocs[sig]` is read twice without
  the lock, and a failing `sigwait` returns a positive error, where the code looks for -1.

- L9 *Callout loop that ends early* (`LoopCallouts`, `LoopBegins`, `RequestedTerminated`).  The main
  loop of the callouts ends without a request if its workers do not start, if its wait fails
  or returns nothing (C8), or if a shutdown is requested before it has looked for `STARTED`
  (`callout.c:644`).  `s_epilogue` then has `SHUTDOWN_UNKNOWN`, which `gallus_module_shutdown_all`
  refuses, and goes on to `gallus_module_finalize_all`: the modules are neither told nor
  cancelled, where `gallus_mainloop.h:140` says "it broadcasts the shutdown message to all the
  modules running. If any modules still remain after the nsec, the main loop forcibly
  terminate them."  TLC finds `RequestedTerminated` violated with the callout loop alone in the main
  thread, where no procedure or wait fails.

Threads
- T1 *Two starts* (`Start`, `ChildEnters`).  `gallus_thread_start` tests a flag that only the new
  thread sets, and the handshake releases `m_wait_lock` before that: two starts at once both
  succeed, with two threads on one object (`OneThread` with two `Starters`), where
  `gallus_thread.h` promises `ALREADY_EXISTS`.
- T2 *Affinity at the start* (`AffinityAtStart`).  One that is set between `pthread_create` and the
  child's first step is lost.
- T3 *CPU sets* (`SetAffinity`).  `gallus_thread_set_cpu_affinity` adds a CPU to a set that begins with all
  of them; to clear the set of a running thread is refused by the system.
- T4 *Failed restart with autodelete* (`StartRefused`).  `m_do_autodelete` is set before
  `pthread_create` fails; a destroy that follows does not wait, while the thread of the earlier run
  may still hold `m_finalize_lock` (`NoUseAfterDestroy` with `CreateFails = {TRUE}`).

Stages
- P1 *A pause that never begins* (`PauseSleeps`, `EveryPauseEnds`).  A worker that is slow to wake up
  from one pause finds the request of the next one, takes it for its own, and sleeps on
  `m_resume_cond`; it never comes to the barrier, and the caller waits with `m_lock`.  A worker
  that has ended never comes to the barrier either.
- P2 *Timed pause* (`PauseTimesOut`).  It leaves the request and the barrier behind; the pause
  takes effect later, or mixes with a maintenance.
- P3 *Timed wait* (`WaitOne`).  It goes on with the time the last worker took instead of the time
  that is left, and with none if the clock shows none: it ends early with success, and the
  program exits by "must not happen" (`NeverFatal` with `ClockStands = TRUE`).
- P4 *Foreign unlock* (`Finalize`, `UnlocksOwn`).  A worker cancelled outside of the sleeps of a pause
  unlocks `m_pause_lock`, which it does not hold.
- P5 *Failed start* (`StartUndone`).  It leaves `m_sg_lvl` at `RIGHT_NOW`.
- P6 Outside of the model: a create that fails for a name in use removes the registration of the other stage.

Callouts
- C1 *Use after free* (`CancelEnqueued`, `NoUseAfterFree`).  `s_cancel` looks at `m_is_in_timed_q` under
  the lock of the task and destroys the task after it gave the lock back, without the global
  lock; the main loop may take the task in between.  The comment in `callout_task.c` says "If it is in the
  timed task Q, it is deletable safely."  Threads stop in the model after that.
- C2 *Forgotten repetition* (`ExecLooks`, `NotForgotten`).  With two workers a repeating task may come round
  before its executor has counted itself out; the second executor leaves it, and nobody runs it any more.
- C3 *Canceller asleep* (`CancelWaits`).  It is not told when the task is rescheduled instead of deleted.
- C4 *Full urgent queue* (`SubmitPuts`).  The submitter sleeps for room with the global lock, which the main
  loop needs to make room: with `Cap = 1` both wait for ever.  `bbq_clear` calls the free procedure, and
  with it the locks of tasks, under the lock of the queue.  Such a submitter also counts as a waiter of the
  queue, which a wakeup then waits for; the bound on the tasks keeps it out of the run.
- C5 *Stop before the start* (`GalaFails`).  A shutdown before `STARTED` sets `s_is_stopped` without a notification;
  a finalization when the stage has not started leaves its tasks (`gallus_callout.h:95`).
- C6 A negative idle interval makes the main loop sleep until the next submission.
- C7 *Stopper caught* (`SchedTimesOut`, `Caught`, `EveryStopEnds`).  `s_stop_callout_main_loop` wakes the loop
  up without a time limit (`callout.c:667`).  If the time limit of the loop's sleep is met just then, the
  loop leaves the sleep without an answer (B1), finds itself stopped and ends, and the stopper, and with it
  `gallus_callout_stop_main_loop` or the finalization, sleeps for ever.  After a submission (`callout_queue.c:106`,
  which does not wait) that meets the time limit, `m_is_awakened` stays set, so that the next wakeup does
  nothing: a timed task that comes first is then noticed at the end of the idle interval.
- C8 *Loop ends by itself* (`SchedAwakes`, `SpuriousWakeup`).  `gallus_bbq_wait_gettable` returns 0 after a
  spurious wakeup (B2), which `callout.c:596` takes for an "Event wait failure": the loop ends with
  `s_do_loop` still set, nobody serves the tasks, and the main loop goes on to L9.

Pools and tasks
- O1 *Counts* (`RunnerReleases`, `ReleasedWhenTold`).  The waiter of a task is told before the thread releases
  itself, so that the pool still counts it as used when `gallus_task_wait` returns, where
  `test/thread_pool_test.c:151` expects the contrary.
- O2 *task_run* (`RunReturns`, `NoUseAfterFree`).  It reads the flags of the task after it gave the lock back;
  a task that deletes itself may be gone.
- O3 *Late acquisition* (`AcquireTests`, `AcquireCreates`).  The state of the pool is tested before its lock is
  taken: an acquisition may sleep in a pool that is shut down, or add a thread to it that nobody tells to
  end.  If the creation of a thread fails, an acquisition without a time limit that waits is not told.
- O4 *Locks* (`DestroyWaits`, `WaitEnds`, `RunnerPuts`).  Wait and destroy hold `m_lck` while they wait for a
  thread that needs it to release itself; `PoolEnds` leaves this case (`Caught`) out.  A cancelled
  thread's teardown unlocks `m_lck` for others (`TeardownUnlocks`).
- O5 *Late task* (`RunTask`).  One that is given to a runner that has looked for the last time is never finished.
- O6 *Failed start of a thread* (`AcquireSticks`).  `gallus_pool_acquire_poolable` destroys it under `m_lck`
  (`pool.c:402`), by a `gallus_poolable_wait` without a time limit for the teardown of a thread that never
  ran: the acquisition does not return, and nobody else gets the lock.  What `AcquireFindsNone` goes on from
  is a creation without memory.
- O7 Outside of the model: pools of the index type (no code but the tests creates them) take a lock where they
  should give it back and skip the highest index.

Queue multiplexer
- Q1 *Clear* (`Clear`, `SleeperToldOfClear`).  It makes room, but tells only those who wait for elements.
- Q2 *Left behind* (`Returns`, `PlacedWhilePolling`).  A poll that times out, or finds an event at the first look, leaves
  its multiplexer in the queues, against the comment in `cbuffer_setup_for_qmuxer`.

Map, statistics, strings
- M1 An iteration over an empty map returns `ITERATION_HALTED` (`IterateEnds`).  An addition without memory sets `*valptr`
  to NULL.  `RebuildTable` does not check its allocation.
- M2 *Statistics* (`ResetStores`, `Create`).  A record that overlaps a reset, or a creation, whose statistic is in the
  table before it is reset, is kept in part; a reading between the stores may give an average outside of the values.
- M3 *Numbers* (`ParseByBase`, `Multiplier`).  A sign after the prefix is accepted, a second one negates again; spaces between
  digits are ignored; the prefix `0b` is refused, and so are repeated multiplier letters, where the comment
  at `strutils.c:442` has `[0\]b` and `([kKmMgGtTpP]+[i]*)*`; `k` and `i` are multipliers
  even in bases in which they are digits.
- M4 *Texts* (`TokenizeQuote`, `Escape`, `Unescape`).  `gallus_str_tokenize_quote` may find `max + 1` tokens and writes the last behind
  the array; an unclosed quote is not noticed if the string ends in an escaped quote; backslashes do not survive
  to be escaped and unescaped.

Locks, outside of the models: `gallus_mutex_enter_critical` that fails leaves the cancellation disabled; a reinitialized
mutex keeps the process id of its creator.

## 6. Plan

Done: the components of section 2.  Next, in this order:

1. `Lifecycle`: the forked start with its parent.

## 7. Not modelled

Logger, sessions (OpenSSL and sockets), dynamic strings, addresses, time, errors, NUMA and heap checks: sequential
conversions or input and output, with nothing that several steps could get wrong.  Parts of modelled components that
are left out are in the notes of `PROJECT.json`: the forked start, pools of the index type, submit and event
buffers of a stage (calls of the user), name calls of threads, floating point numbers, creation and
destruction of multiplexers, a callout stage that is cancelled.  `check/` and `test/` are programs
that use the library; `configure`, `mk/` build it.  Queries that change nothing are left out of every model.
