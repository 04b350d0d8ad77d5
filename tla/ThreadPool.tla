----------------------------- MODULE ThreadPool -----------------------------
(***************************************************************************)
(* The thread pool: src/framework/lib/pool.c for pools of the queue type,  *)
(* poolable.c, pooled_thread.c and task.c.                                 *)
(*                                                                         *)
(* Clients acquire a pooled thread, give it a task, wait for the task and  *)
(* release the thread, unless they have told it to release itself.  A boss *)
(* shuts the pool down, cancels its threads, waits for them and destroys   *)
(* it.  The free queue is a bounded blocking queue and behaves as CBuffer  *)
(* says.  The critical sections of m_lck of a runner and of a task call    *)
(* nothing that waits and are one step each; the locks of the pool and of  *)
(* a poolable are variables, because they are held over several steps.     *)
(***************************************************************************)
EXTENDS Integers, SequencesExt

CONSTANTS
    Clients, Boss, Nobody, Tasks,
    N,             \* n_max_objs
    Flags,         \* what a task is run with: sets of "release" and "delete"
    Levels,        \* grace levels of a shutdown
    CreateFails,   \* whether a thread may fail to be created or to start
    GalaFails,     \* whether the application may shut down before it has started
    Cancels        \* whether the boss cancels the threads

ASSUME ThreadPoolAssumption ==
    /\ N \in Nat \ {0}
    /\ Flags \subseteq SUBSET {"release", "delete"}
    /\ Levels \subseteq {"RIGHT_NOW", "GRACEFULLY"}
    /\ {CreateFails, GalaFails, Cancels} \subseteq BOOLEAN
    /\ Boss \notin Clients
    /\ Nobody \notin Clients \cup Tasks \cup {Boss}

Runners == 1..N

VARIABLES
    m_state,       \* of the pool
    m_lck,         \* owner of the pool's lock
    m_n_free,
    m_free_q,
    m_obj_idx,     \* the poolables 1..m_obj_idx are created
    obj,           \* the poolables
    olck,          \* owners of their locks
    tr,            \* the task runners: m_tsk and m_is_shutdown_requested
    rpc, rtask, rshut,  \* where a runner's thread is, its t and its do_shutdown
    canceling,     \* pthread_cancel was called
    cut,           \* the thread was cancelled
    task,          \* the tasks
    freed,         \* tasks whose memory is given back
    cpc, cobj, ctask,   \* where a client is, with which thread and task
    bpc, bidx, blvl     \* where the boss is, at which poolable, his level

pool == <<m_state, m_lck, m_n_free, m_free_q, m_obj_idx>>
poolables == <<obj, olck>>
threads == <<rpc, rtask, rshut, canceling, cut>>
tasks == <<task, freed>>
clients == <<cpc, cobj, ctask>>
boss == <<bpc, bidx, blvl>>
vars == <<pool, poolables, tr, threads, tasks, clients, boss>>

\* gallus_task_create.
NewTask == [m_state |-> "CONSTRUCTED", m_flag |-> {}, m_is_wait_done |-> FALSE]

\* s_pooled_thread_construct.
NewRunner == [m_tsk |-> Nobody, m_is_shutdown_requested |-> FALSE]

\* gallus_pool_create.
Init ==
    /\ m_state = "OPERATIONAL"
    /\ m_lck = Nobody
    /\ m_n_free = N
    /\ m_free_q = <<>>
    /\ m_obj_idx = 0
    /\ obj = [r \in Runners |-> [m_st |-> "UNKNOWN", m_shutdown_lvl |-> "UNKNOWN",
                                 m_is_used |-> FALSE, m_is_cancelled |-> FALSE,
                                 m_is_torndown |-> FALSE]]
    /\ olck = [r \in Runners |-> Nobody]
    /\ tr = [r \in Runners |-> NewRunner]
    /\ rpc = [r \in Runners |-> "none"]
    /\ rtask = [r \in Runners |-> Nobody]
    /\ rshut = [r \in Runners |-> FALSE]
    /\ canceling = [r \in Runners |-> FALSE]
    /\ cut = [r \in Runners |-> FALSE]
    /\ task = [t \in Tasks |-> NewTask]
    /\ freed = {}
    /\ cpc = [c \in Clients |-> "idle"]
    /\ cobj = [c \in Clients |-> 0]
    /\ ctask = [c \in Clients |-> Nobody]
    /\ bpc = "idle"
    /\ bidx = 0
    /\ blvl = "UNKNOWN"

RunnerGoes(r, place) == rpc' = [rpc EXCEPT ![r] = place]
ClientGoes(c, place) == cpc' = [cpc EXCEPT ![c] = place]

\* gallus_cond_notify on m_cnd of a runner.
Notify(r) == rpc' = [rpc EXCEPT ![r] = IF @ = "asleep" THEN "loop" ELSE @]

-----------------------------------------------------------------------------
(* The runners: s_task_runner_main.                                        *)

GalaOpens(r) ==
    /\ rpc[r] = "gala"
    /\ \/ RunnerGoes(r, "loop")
       \/ GalaFails /\ RunnerGoes(r, "exit")
    /\ UNCHANGED <<pool, poolables, tr, rtask, rshut, canceling, cut, tasks, clients, boss>>

\* A task comes before a shutdown, a shutdown before the sleep.
Assigned(r) ==
    LET t == tr[r].m_tsk
        s == tr[r].m_is_shutdown_requested
    IN
    /\ rpc[r] = "loop"
    /\ rtask' = [rtask EXCEPT ![r] = t]
    /\ rshut' = [rshut EXCEPT ![r] = s]
    /\ RunnerGoes(r, IF t # Nobody \/ s THEN "assigned" ELSE "asleep")
    /\ UNCHANGED <<pool, poolables, tr, canceling, cut, tasks, clients, boss>>

\* A cancellation that is pending strikes in the wait.
SpuriousWakeup(r) ==
    /\ rpc[r] = "asleep"
    /\ ~canceling[r]
    /\ RunnerGoes(r, "loop")
    /\ UNCHANGED <<pool, poolables, tr, rtask, rshut, canceling, cut, tasks, clients, boss>>

\* The thread was acquired, and it is not told to end: the task is run.
TaskStarts(r) ==
    /\ rpc[r] = "assigned"
    /\ ~rshut[r] /\ obj[r].m_is_used
    /\ task' = [task EXCEPT ![rtask[r]].m_state = "RUNNING"]
    /\ RunnerGoes(r, "main")
    /\ UNCHANGED <<pool, poolables, tr, rtask, rshut, canceling, cut, freed, clients, boss>>

\* Otherwise the thread ends; a shutdown refuses the task that has just come.
TaskRefused(r) ==
    LET t == rtask[r] IN
    /\ rpc[r] = "assigned"
    /\ rshut[r] \/ ~obj[r].m_is_used
    /\ task' = IF rshut[r] /\ t # Nobody
               THEN [task EXCEPT ![t].m_state = "RUNNER_SHUTDOWN"] ELSE task
    /\ RunnerGoes(r, "exit")
    /\ rshut' = [rshut EXCEPT ![r] = FALSE]
    /\ UNCHANGED <<pool, poolables, tr, rtask, canceling, cut, freed, clients, boss>>

\* Mutant: the runner does not forget the task.
TaskOf_Keep(r) == tr[r].m_tsk

\* m_tsk after the execution.
TaskOf(r) == Nobody

MainReturns(r) ==
    /\ rpc[r] = "main"
    /\ tr' = [tr EXCEPT ![r].m_tsk = TaskOf(r)]
    /\ task' = [task EXCEPT ![rtask[r]].m_state = "CLEAN_FINISHED"]
    /\ RunnerGoes(r, "finalize")
    /\ UNCHANGED <<pool, poolables, rtask, rshut, canceling, cut, freed, clients, boss>>

\* gallus_task_finalize: those who wait for the task are told.
FinalizeTask(r) ==
    /\ rpc[r] = "finalize"
    /\ task' = [task EXCEPT ![rtask[r]].m_is_wait_done = TRUE]
    /\ RunnerGoes(r, "after")
    /\ UNCHANGED <<pool, poolables, tr, rtask, rshut, canceling, cut, freed, clients, boss>>

\* The flags were read when the task started.
AfterTask(r) ==
    LET t == rtask[r] IN
    /\ rpc[r] = "after"
    /\ freed' = IF "delete" \in task[t].m_flag THEN freed \cup {t} ELSE freed
    /\ rtask' = [rtask EXCEPT ![r] = Nobody]
    /\ RunnerGoes(r, IF "release" \in task[t].m_flag THEN "release" ELSE "loop")
    /\ UNCHANGED <<pool, poolables, tr, rshut, canceling, cut, task, clients, boss>>

\* gallus_pool_release_poolable; the state is tested before the lock is taken.
Releasable == m_state = "OPERATIONAL"

\* Mutant: the count is not kept.
FreeAgain_Lost == m_n_free

FreeAgain == m_n_free + 1

\* There is always room in the queue.
Put(r) ==
    /\ m_lck = Nobody
    /\ Len(m_free_q) < N + 1
    /\ obj' = [obj EXCEPT ![r].m_is_used = FALSE]
    /\ m_free_q' = Append(m_free_q, r)
    /\ m_n_free' = FreeAgain
    /\ UNCHANGED <<m_state, m_lck, m_obj_idx, olck>>

RunnerReleases(r) ==
    /\ rpc[r] = "release"
    /\ RunnerGoes(r, IF Releasable THEN "put" ELSE "loop")
    /\ UNCHANGED <<pool, poolables, tr, rtask, rshut, canceling, cut, tasks, clients, boss>>

RunnerPuts(r) ==
    /\ rpc[r] = "put"
    /\ Put(r)
    /\ RunnerGoes(r, "loop")
    /\ UNCHANGED <<tr, rtask, rshut, canceling, cut, tasks, clients, boss>>

\* The runner is cancelled where it sleeps, or in the main procedure of a task.
Canceled(r) ==
    /\ canceling[r]
    /\ rpc[r] \in {"gala", "asleep", "main"}
    /\ cut' = [cut EXCEPT ![r] = TRUE]
    /\ RunnerGoes(r, "exit")
    /\ UNCHANGED <<pool, poolables, tr, rtask, rshut, canceling, tasks, clients, boss>>

\* Mutant: nobody is told of the task.
Told_Not(t) == task[t].m_is_wait_done

Told(t) == TRUE

\* s_task_runner_finalize: a task that the runner has, or got too late.
ExitTask(r) ==
    LET t == tr[r].m_tsk IN
    /\ rpc[r] = "exit"
    /\ task' = IF t = Nobody THEN task
               ELSE [task EXCEPT ![t].m_state = IF cut[r] THEN "CANCELLED" ELSE "HALTED",
                                 ![t].m_is_wait_done = Told(t)]
    /\ rtask' = [rtask EXCEPT ![r] = Nobody]
    /\ RunnerGoes(r, "unlock")
    /\ UNCHANGED <<pool, poolables, tr, rshut, canceling, cut, freed, clients, boss>>

\* gallus_poolable_teardown: a cancelled thread gives m_lck up, whoever has it.
TeardownUnlocks(r) ==
    /\ rpc[r] = "unlock"
    /\ olck' = [olck EXCEPT ![r] = IF cut[r] THEN Nobody ELSE @]
    /\ RunnerGoes(r, "teardown")
    /\ UNCHANGED <<pool, obj, tr, rtask, rshut, canceling, cut, tasks, clients, boss>>

Teardown(r) ==
    /\ rpc[r] = "teardown"
    /\ olck[r] = Nobody
    /\ obj' = [obj EXCEPT ![r].m_st = "NOT_OPERATIONAL", ![r].m_is_cancelled = cut[r],
                          ![r].m_is_torndown = TRUE]
    /\ RunnerGoes(r, "over")
    /\ canceling' = [canceling EXCEPT ![r] = FALSE]
    /\ cut' = [cut EXCEPT ![r] = FALSE]
    /\ UNCHANGED <<pool, olck, tr, rtask, rshut, tasks, clients, boss>>

-----------------------------------------------------------------------------
(* The clients.                                                            *)

\* gallus_pool_acquire_poolable.
AcquireTests(c) ==
    /\ cpc[c] = "idle"
    /\ m_state = "OPERATIONAL"
    /\ \E t \in Tasks : task[t].m_state = "CONSTRUCTED"
    /\ ClientGoes(c, "look")
    /\ UNCHANGED <<pool, poolables, tr, threads, tasks, cobj, ctask, boss>>

Use(r) == m_n_free' = m_n_free - 1 /\ obj' = [obj EXCEPT ![r].m_is_used = TRUE]

Has(c, r) == ClientGoes(c, "have") /\ cobj' = [cobj EXCEPT ![c] = r]

\* The lock is held up to the taking, which others in the queue may forestall.
AcquireLooks(c) ==
    /\ cpc[c] = "look"
    /\ m_lck = Nobody
    /\ m_free_q # <<>>
    /\ m_lck' = c
    /\ ClientGoes(c, "take")
    /\ UNCHANGED <<m_state, m_n_free, m_free_q, m_obj_idx, poolables, tr, threads, tasks, cobj,
                   ctask, boss>>

AcquireTakes(c) ==
    /\ cpc[c] = "take"
    /\ m_lck' = Nobody
    /\ IF m_free_q # <<>>
       THEN /\ Use(Head(m_free_q)) /\ Has(c, Head(m_free_q))
            /\ m_free_q' = Tail(m_free_q)
       ELSE ClientGoes(c, "get") /\ UNCHANGED <<m_n_free, m_free_q, obj, cobj>>
    /\ UNCHANGED <<m_state, m_obj_idx, olck, tr, threads, tasks, ctask, boss>>

\* s_pooled_thread_setup.
StartsThread(r) == tr' = [tr EXCEPT ![r] = NewRunner] /\ RunnerGoes(r, "gala")

\* gallus_poolable_create_with_size and gallus_poolable_setup, which starts the thread.
AcquireCreates(c) ==
    LET r == m_obj_idx + 1 IN
    /\ cpc[c] = "look"
    /\ m_lck = Nobody
    /\ m_free_q = <<>> /\ m_obj_idx < N
    /\ m_obj_idx' = r
    /\ m_n_free' = m_n_free - 1
    /\ obj' = [obj EXCEPT ![r].m_st = "OPERATIONAL", ![r].m_is_used = TRUE]
    /\ StartsThread(r)
    /\ Has(c, r)
    /\ UNCHANGED <<m_state, m_lck, m_free_q, olck, rtask, rshut, canceling, cut, tasks, ctask, boss>>

\* A thread that cannot be started is destroyed under the lock of the pool, by a wait for its
\* teardown, which never comes.
AcquireSticks(c) ==
    /\ cpc[c] = "look"
    /\ m_lck = Nobody
    /\ m_free_q = <<>> /\ m_obj_idx < N /\ CreateFails
    /\ m_lck' = c
    /\ ClientGoes(c, "stuck")
    /\ UNCHANGED <<m_state, m_n_free, m_free_q, m_obj_idx, poolables, tr, threads, tasks, cobj,
                   ctask, boss>>

\* All threads are in use, or there is no memory for one.
AcquireFindsNone(c) ==
    /\ cpc[c] = "look"
    /\ m_lck = Nobody
    /\ m_free_q = <<>> /\ (m_obj_idx = N \/ CreateFails)
    /\ ClientGoes(c, "get")
    /\ UNCHANGED <<pool, poolables, tr, threads, tasks, cobj, ctask, boss>>

\* gallus_bbq_get without the lock of the pool.
AcquireGets(c) ==
    /\ cpc[c] = "get"
    /\ m_free_q # <<>>
    /\ m_free_q' = Tail(m_free_q)
    /\ cobj' = [cobj EXCEPT ![c] = Head(m_free_q)]
    /\ ClientGoes(c, "got")
    /\ UNCHANGED <<m_state, m_lck, m_n_free, m_obj_idx, poolables, tr, threads, tasks, ctask, boss>>

AcquireUses(c) ==
    /\ cpc[c] = "got"
    /\ m_lck = Nobody
    /\ Use(cobj[c])
    /\ ClientGoes(c, "have")
    /\ UNCHANGED <<m_state, m_lck, m_free_q, m_obj_idx, olck, tr, threads, tasks, cobj, ctask, boss>>

\* Woken up by gallus_pool_wakeup, or by the timer.
AcquireFails(c) ==
    /\ cpc[c] \in {"get", "woken"}
    /\ ClientGoes(c, "idle")
    /\ UNCHANGED <<pool, poolables, tr, threads, tasks, cobj, ctask, boss>>

\* gallus_task_run, whatever the runner does.
RunTask(c, t, flag) ==
    LET r == cobj[c] IN
    /\ cpc[c] = "have"
    /\ task[t].m_state = "CONSTRUCTED"
    /\ obj[r].m_is_used
    /\ task' = [task EXCEPT ![t].m_state = "ATTACHED", ![t].m_flag = flag]
    /\ tr' = [tr EXCEPT ![r].m_tsk = t]
    /\ Notify(r)
    /\ ctask' = [ctask EXCEPT ![c] = t]
    /\ ClientGoes(c, "ran")
    /\ UNCHANGED <<pool, poolables, rtask, rshut, canceling, cut, freed, cobj, boss>>

\* m_flag is read without a lock; nobody can wait for a task that deletes itself.
RunReturns(c) ==
    LET t == ctask[c]
        flag == task[t].m_flag
    IN
    /\ cpc[c] = "ran"
    /\ ClientGoes(c, IF "delete" \in flag THEN "idle" ELSE "wait")
    /\ ctask' = IF "delete" \in flag THEN [ctask EXCEPT ![c] = Nobody] ELSE ctask
    /\ cobj' = IF "release" \in flag THEN [cobj EXCEPT ![c] = 0] ELSE cobj
    /\ UNCHANGED <<pool, poolables, tr, threads, tasks, boss>>

\* gallus_task_wait, and gallus_task_destroy, which keeps what was cancelled.
WaitTask(c) ==
    LET t == ctask[c] IN
    /\ cpc[c] = "wait"
    /\ task[t].m_is_wait_done
    /\ freed' = IF task[t].m_state \in {"RUNNING", "CANCELLED"} THEN freed ELSE freed \cup {t}
    /\ ctask' = [ctask EXCEPT ![c] = Nobody]
    /\ ClientGoes(c, IF cobj[c] = 0 THEN "idle" ELSE "release")
    /\ UNCHANGED <<pool, poolables, tr, threads, task, cobj, boss>>

ClientReleases(c) ==
    /\ \/ cpc[c] = "release"
       \/ cpc[c] = "have" /\ \A t \in Tasks : task[t].m_state # "CONSTRUCTED"
    /\ ClientGoes(c, IF Releasable THEN "put" ELSE "idle")
    /\ cobj' = IF Releasable THEN cobj ELSE [cobj EXCEPT ![c] = 0]
    /\ UNCHANGED <<pool, poolables, tr, threads, tasks, ctask, boss>>

ClientPuts(c) ==
    /\ cpc[c] = "put"
    /\ Put(cobj[c])
    /\ ClientGoes(c, "idle")
    /\ cobj' = [cobj EXCEPT ![c] = 0]
    /\ UNCHANGED <<tr, threads, tasks, ctask, boss>>

-----------------------------------------------------------------------------
(* The boss, who goes through the poolables under the lock of the pool.    *)

BossGoes(place) == bpc' = place
BossAt(place) == bpc = place /\ bidx \in 1..m_obj_idx
BossNext(first, last) ==
    IF bidx < m_obj_idx THEN bidx' = bidx + 1 /\ bpc' = first /\ m_lck' = m_lck
                        ELSE bidx' = 0 /\ bpc' = last /\ m_lck' = Nobody

ShutdownTests(lvl) ==
    /\ bpc = "idle"
    /\ m_state = "OPERATIONAL"
    /\ blvl' = lvl
    /\ BossGoes("shutdown")
    /\ UNCHANGED <<pool, poolables, tr, threads, tasks, clients, bidx>>

\* Those who sleep in the free queue are woken up; the others are not known.
ShutdownWakes ==
    /\ bpc = "shutdown"
    /\ m_lck = Nobody
    /\ m_lck' = Boss
    /\ m_state' = "SHUTTINGDOWN"
    /\ cpc' = [c \in Clients |-> IF cpc[c] = "get" THEN "woken" ELSE cpc[c]]
    /\ BossGoes("wakeup")
    /\ UNCHANGED <<m_n_free, m_free_q, m_obj_idx, poolables, tr, threads, tasks, cobj, ctask, bidx,
                   blvl>>

\* When all of them have left, or in time no poolable is shut down.
ShutdownWaits(timed) ==
    /\ bpc = "wakeup"
    /\ IF \A c \in Clients : cpc[c] # "woken" THEN ~timed ELSE timed
    /\ IF timed \/ m_obj_idx = 0
       THEN BossGoes("idle") /\ m_lck' = Nobody /\ blvl' = "UNKNOWN" /\ UNCHANGED bidx
       ELSE BossGoes("closing") /\ bidx' = 1 /\ UNCHANGED <<m_lck, blvl>>
    /\ UNCHANGED <<m_state, m_n_free, m_free_q, m_obj_idx, poolables, tr, threads, tasks,
                   clients>>

\* Mutant: the sleeping runner is not told.
Notified_Not(r) == rpc' = rpc

Notified(r) == Notify(r)

\* gallus_poolable_shutdown and s_pooled_thread_shutdown.
PoolableShutdown(r, lvl) ==
    /\ olck[r] = Nobody
    /\ IF obj[r].m_st = "OPERATIONAL"
       THEN /\ tr' = [tr EXCEPT ![r].m_is_shutdown_requested = TRUE]
            /\ obj' = [obj EXCEPT ![r].m_st = "SHUTDOWNING", ![r].m_shutdown_lvl = lvl]
            /\ Notified(r)
       ELSE UNCHANGED <<tr, obj, rpc>>

ShutdownCloses ==
    /\ BossAt("closing")
    /\ PoolableShutdown(bidx, blvl)
    /\ BossNext("closing", "idle")
    /\ blvl' = IF bidx = m_obj_idx THEN "UNKNOWN" ELSE blvl
    /\ UNCHANGED <<m_state, m_n_free, m_free_q, m_obj_idx, olck, rtask, rshut, canceling, cut,
                   tasks, clients>>

\* gallus_pool_cancel.
CancelBegins ==
    /\ Cancels
    /\ bpc = "idle"
    /\ m_state \in {"OPERATIONAL", "SHUTTINGDOWN"}
    /\ m_obj_idx > 0
    /\ m_lck = Nobody
    /\ m_lck' = Boss
    /\ BossGoes("cancel") /\ bidx' = 1
    /\ UNCHANGED <<m_state, m_n_free, m_free_q, m_obj_idx, poolables, tr, threads, tasks, clients,
                   blvl>>

Cancelable(r) == \/ obj[r].m_st = "OPERATIONAL"
                 \/ obj[r].m_st = "SHUTDOWNING" /\ obj[r].m_shutdown_lvl = "RIGHT_NOW"

\* gallus_poolable_cancel, whose lock is held over gallus_thread_cancel.
CancelSends ==
    /\ BossAt("cancel")
    /\ olck[bidx] = Nobody
    /\ IF Cancelable(bidx)
       THEN /\ olck' = [olck EXCEPT ![bidx] = Boss]
            /\ canceling' = [canceling EXCEPT ![bidx] = TRUE]
            /\ BossGoes("cancelled")
            /\ UNCHANGED <<bidx, m_lck>>
       ELSE BossNext("cancel", "idle") /\ UNCHANGED <<olck, canceling>>
    /\ UNCHANGED <<m_state, m_n_free, m_free_q, m_obj_idx, obj, tr, rpc, rtask, rshut, cut, tasks,
                   clients, blvl>>

\* The thread may have torn the poolable down meanwhile.
CancelMarks ==
    /\ BossAt("cancelled")
    /\ obj' = [obj EXCEPT ![bidx].m_st = "CANCELLING"]
    /\ olck' = [olck EXCEPT ![bidx] = Nobody]
    /\ BossNext("cancel", "idle")
    /\ UNCHANGED <<m_state, m_n_free, m_free_q, m_obj_idx, tr, threads, tasks, clients, blvl>>

\* gallus_pool_wait polls the poolables under the lock of the pool.
WaitBegins ==
    /\ bpc = "idle"
    /\ m_state = "SHUTTINGDOWN"
    /\ m_lck = Nobody
    /\ m_lck' = Boss
    /\ BossGoes("polling")
    /\ UNCHANGED <<m_state, m_n_free, m_free_q, m_obj_idx, poolables, tr, threads, tasks, clients,
                   bidx, blvl>>

\* gallus_poolable_wait of each of them.
WaitEnds ==
    /\ bpc = "polling"
    /\ \A r \in 1..m_obj_idx : obj[r].m_is_torndown
    /\ m_lck' = Nobody
    /\ BossGoes("idle")
    /\ UNCHANGED <<m_state, m_n_free, m_free_q, m_obj_idx, poolables, tr, threads, tasks, clients,
                   bidx, blvl>>

\* gallus_pool_destroy, when no client is in a call or has a thread or a task.
DestroyBegins ==
    /\ bpc = "idle"
    /\ m_state # "gone"
    /\ \A c \in Clients : cpc[c] = "idle"
    /\ m_lck = Nobody
    /\ IF m_obj_idx = 0 THEN m_state' = "gone" /\ UNCHANGED <<m_lck, bidx, bpc>>
                        ELSE m_lck' = Boss /\ bidx' = 1 /\ BossGoes("destroy") /\ UNCHANGED m_state
    /\ UNCHANGED <<m_n_free, m_free_q, m_obj_idx, poolables, tr, threads, tasks, clients, blvl>>

\* gallus_poolable_destroy.
DestroyShuts ==
    /\ BossAt("destroy")
    /\ PoolableShutdown(bidx, "RIGHT_NOW")
    /\ BossGoes("destroying")
    /\ UNCHANGED <<pool, olck, rtask, rshut, canceling, cut, tasks, clients, bidx, blvl>>

DestroyWaits ==
    /\ BossAt("destroying")
    /\ obj[bidx].m_is_torndown
    /\ BossNext("destroy", "idle")
    /\ m_state' = IF bidx = m_obj_idx THEN "gone" ELSE m_state
    /\ UNCHANGED <<m_n_free, m_free_q, m_obj_idx, poolables, tr, threads, tasks, clients, blvl>>

-----------------------------------------------------------------------------

RunnerStep(r) ==
    \/ GalaOpens(r) \/ Assigned(r) \/ TaskStarts(r) \/ TaskRefused(r) \/ MainReturns(r)
    \/ FinalizeTask(r) \/ AfterTask(r) \/ RunnerReleases(r) \/ RunnerPuts(r) \/ Canceled(r) \/ ExitTask(r)
    \/ TeardownUnlocks(r) \/ Teardown(r)

\* What a client does to get a call done.
ClientStep(c) ==
    \/ AcquireLooks(c) \/ AcquireTakes(c)
    \/ AcquireCreates(c) \/ AcquireSticks(c) \/ AcquireFindsNone(c)
    \/ AcquireGets(c) \/ AcquireUses(c) \/ RunReturns(c) \/ WaitTask(c)
    \/ ClientReleases(c) \/ ClientPuts(c)

BossStep ==
    \/ ShutdownWakes \/ ShutdownWaits(FALSE) \/ ShutdownCloses \/ CancelSends \/ CancelMarks
    \/ WaitEnds \/ DestroyShuts \/ DestroyWaits

Next ==
    \/ \E r \in Runners : RunnerStep(r)
    \/ \E r \in Runners : SpuriousWakeup(r)
    \/ \E c \in Clients : ClientStep(c)
    \/ \E c \in Clients : AcquireTests(c) \/ AcquireFails(c)
    \/ \E c \in Clients, t \in Tasks, flag \in Flags : RunTask(c, t, flag)
    \/ BossStep
    \/ ShutdownWaits(TRUE)
    \/ \E lvl \in Levels : ShutdownTests(lvl)
    \/ CancelBegins
    \/ WaitBegins
    \/ DestroyBegins

Spec == Init /\ [][Next]_vars

\* Threads run on, main procedures return, and those woken up leave the queue.
FairSpec ==
    /\ Spec
    /\ \A r \in Runners : WF_vars(RunnerStep(r))
    /\ \A c \in Clients : WF_vars(ClientStep(c)) /\ WF_vars(cpc[c] = "woken" /\ AcquireFails(c))
    /\ WF_vars(BossStep)

-----------------------------------------------------------------------------
(* Properties.                                                             *)

RunnerPlaces == {"none", "gala", "loop", "asleep", "assigned", "main", "finalize", "after", "release",
                 "put", "exit", "unlock", "teardown", "over"}
ClientPlaces == {"idle", "look", "take", "stuck", "get", "woken", "got", "have", "ran", "wait", "release", "put"}
BossPlaces == {"idle", "shutdown", "wakeup", "closing", "cancel", "cancelled", "polling", "destroy",
               "destroying"}

\* The types of the variables of a pool, its threads and those who use it.
TypeOK ==
    /\ m_state \in {"OPERATIONAL", "SHUTTINGDOWN", "gone"}
    /\ m_lck \in Clients \cup {Boss, Nobody}
    /\ m_n_free \in 0 .. N
    /\ m_free_q \in Seq(Runners)
    /\ m_obj_idx \in 0 .. N
    /\ obj \in [Runners -> [m_st : {"UNKNOWN", "OPERATIONAL", "SHUTDOWNING", "CANCELLING",
                                    "NOT_OPERATIONAL"},
                            m_shutdown_lvl : Levels \cup {"UNKNOWN", "RIGHT_NOW"},
                            m_is_used : BOOLEAN, m_is_cancelled : BOOLEAN, m_is_torndown : BOOLEAN]]
    /\ olck \in [Runners -> {Boss, Nobody}]
    /\ tr \in [Runners -> [m_tsk : Tasks \cup {Nobody}, m_is_shutdown_requested : BOOLEAN]]
    /\ rpc \in [Runners -> RunnerPlaces]
    /\ rtask \in [Runners -> Tasks \cup {Nobody}]
    /\ {rshut, canceling, cut} \subseteq [Runners -> BOOLEAN]
    /\ task \in [Tasks -> [m_state : {"CONSTRUCTED", "ATTACHED", "RUNNING", "CLEAN_FINISHED",
                                      "RUNNER_SHUTDOWN", "HALTED", "CANCELLED"},
                           m_flag : SUBSET {"release", "delete"}, m_is_wait_done : BOOLEAN]]
    /\ freed \subseteq Tasks
    /\ cpc \in [Clients -> ClientPlaces]
    /\ cobj \in [Clients -> 0 .. N]
    /\ ctask \in [Clients -> Tasks \cup {Nobody}]
    /\ bpc \in BossPlaces
    /\ bidx \in 0 .. N
    /\ blvl \in Levels \cup {"UNKNOWN"}

\* A pooled thread is free, in use, or on its way from the queue to one client, it is
\* in the queue once, and m_n_free counts those in use (gallus_pool_acquire_poolable
\* and gallus_pool_release_poolable, with and without waiting).
Accounted ==
    LET got(r) == {c \in Clients : cpc[c] = "got" /\ cobj[c] = r} IN
    /\ \A r \in 1..m_obj_idx :
          LET queued == {i \in DOMAIN m_free_q : m_free_q[i] = r} IN
          IF obj[r].m_is_used THEN queued = {} /\ got(r) = {}
                              ELSE Cardinality(queued) + Cardinality(got(r)) = 1
    /\ m_n_free = N - Cardinality({r \in Runners : obj[r].m_is_used})

\* What a runner will still use of a task.
InUse(t) == \E r \in Runners :
               \/ rtask[r] = t /\ rpc[r] \in {"assigned", "main", "finalize"}
               \/ tr[r].m_tsk = t /\ rpc[r] \notin {"unlock", "teardown", "over"}

\* A task that its waiter was told of, or that is freed, is not run, nor will it be,
\* whether it was executed, refused, halted or cancelled.
DoneIsOver == \A t \in Tasks : task[t].m_is_wait_done \/ t \in freed => ~InUse(t)

\* gallus_task_run does not use a task that its runner has freed.  False of the code, and
\* in no run.
NoUseAfterFree == \A c \in Clients : cpc[c] = "ran" => ctask[c] \notin freed

\* A task that comes after the runner has looked for the last time.
TooLate(t) == /\ task[t].m_state = "ATTACHED"
              /\ \E r \in Runners : tr[r].m_tsk = t /\ rpc[r] \in {"unlock", "teardown", "over"}

\* Whoever waits for a task is told in the end, shutdown and cancellation or not,
\* unless the runner had left before the task was given to it.
TasksEnd == \A c \in Clients : cpc[c] = "wait" ~> cpc[c] # "wait" \/ TooLate(ctask[c])

\* A runner that gives itself back while the boss waits for it with the pool's lock.
Caught == \E r \in Runners : rpc[r] = "put" /\ m_lck = Boss

\* A thread that was acquired from a pool that was shutting down, or a shutdown that
\* was given up.
Untold == \E r \in 1..m_obj_idx : obj[r].m_st = "OPERATIONAL"

\* A wait and a destruction end, unless a runner is just releasing itself, or has
\* never been told to end.
PoolEnds == /\ bpc = "polling" ~> bpc # "polling" \/ Caught \/ Untold
            /\ bpc = "destroy" ~> m_state = "gone" \/ Caught

\* What test/thread_pool_test.c:151 expects of gallus_thread_pool_get_outstanding_thread_num
\* when gallus_task_wait has returned: the thread that releases itself is counted as free.
\* False of the code, and in no run.
ReleasedWhenTold ==
    m_state = "OPERATIONAL" /\ (\A c \in Clients : cpc[c] = "idle") => m_n_free = N

=============================================================================
