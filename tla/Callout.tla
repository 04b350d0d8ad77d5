------------------------------ MODULE Callout ------------------------------
(***************************************************************************)
(* The callout scheduler: src/framework/lib/callout.c, callout_task.c,     *)
(* callout_queue.c and callout_stage.c.                                    *)
(*                                                                         *)
(* Users create and submit tasks; the main loop takes the due ones out of  *)
(* three queues and runs them, or gives them to the workers of a stage;    *)
(* users and task procedures cancel tasks.  A task is freed by its executor*)
(* or by its canceller, whoever comes last.                                *)
(*                                                                         *)
(* What happens under a task's lock is one step.  The lock is a variable   *)
(* because a task's procedure runs under it, and the global lock because a *)
(* submission may sleep in a full queue under it.  gallus_callout_cancel_  *)
(* task takes no global lock, so that each of its looks is a step.  The    *)
(* layers of calls of a thread are exec (s_exec_task), canc (s_cancel) and *)
(* dest (s_set_cancel_and_destroy_task_no_lock); an inner one that is      *)
(* active keeps the outer ones waiting.                                    *)
(***************************************************************************)
EXTENDS Integers, SequencesExt, TLC

CONSTANTS
    Tasks, Users, Sched, Nobody,
    Modes,         \* how the scheduler is used: records, see ModeOK
    Intervals,     \* intervals of repetition; 0 is none
    IdleInterval,  \* s_idle_interval
    Cap,           \* CALLOUT_TASK_MAX
    ProcsFail,     \* whether a task procedure, or the idle one, may fail
    MaxTime        \* bound: the clock

ModeOK(m) ==
    /\ m.cancels \in {"none", "procs", "users"}   \* who cancels
    /\ m.forces \in BOOLEAN                       \* users call exec_task_forcibly
    /\ m.tasks \subseteq Tasks
    /\ m.delays \subseteq Int                     \* initial delays: 0 is urgent, negative is idle
    /\ IsFiniteSet(m.workers)
    /\ {Sched, Nobody} \cap m.workers = {}
    /\ m.workers \cap Users = {}

ASSUME CalloutAssumption ==
    /\ \A m \in Modes : ModeOK(m)
    /\ Sched \notin Users
    /\ Nobody \notin Users \cup Tasks \cup {Sched}
    /\ Intervals \subseteq Nat
    /\ IdleInterval \in Int
    /\ {Cap, MaxTime} \subseteq Nat \ {0}
    /\ ProcsFail \in BOOLEAN

VARIABLES
    table,         \* s_tsk_tbl: the states of the valid tasks
    task,          \* the tasks' records
    tlock,         \* owner of a task's m_lock
    freed,         \* tasks whose memory is given back
    urgent_q, idle_q, chrono_q,
    wq,            \* the workers' queues
    last_q,        \* m_last_q, modulo the number of workers
    now,
    glock,         \* owner of s_lck
    s_do_loop, s_is_stopped, s_is_handler_inited,
    spc,           \* where the main loop is
    todo,          \* tasks that a thread has taken and not yet handled
    out,           \* tasks that go to the workers: records of task and worker
    start_time,    \* the time of the main loop's round
    woken,         \* how the main loop's sleep ends: "no", "ok", or "late", after a time limit
                   \* that left a waker behind
    m_is_awakened, \* of the urgent queue: a wakeup is not yet answered
    stage, wpc, wst,  \* the stage, its workers, their last results
    upc, uarg,     \* where a user is, with which arguments
    exec, canc, dest, \* the layers of a thread
    mismatch,      \* the program stopped: "A callout task state mismatch occured."
    canceled,      \* tasks whose cancellation was accepted
    gave_up,       \* a finalization left its tasks where they were
    mode

tasks == <<table, task, tlock, freed>>
queues == <<urgent_q, idle_q, chrono_q, wq, last_q>>
wakes == <<woken, m_is_awakened>>
loop == <<s_do_loop, s_is_stopped, s_is_handler_inited, spc, start_time, wakes>>
taken == <<todo, out>>
workers == <<stage, wpc, wst>>
user == <<upc, uarg>>
layers == <<exec, canc, dest>>
history == <<mismatch, canceled, gave_up, mode>>
vars == <<tasks, queues, now, glock, loop, taken, workers, user, layers, history>>

W == mode.workers
AllWorkers == UNION {m.workers : m \in Modes}
Executors == {Sched} \cup AllWorkers \cup Users

NoExec == [at |-> "none", task |-> Nobody, seen |-> "UNKNOWN", del |-> FALSE]
NoCanc == [at |-> "none", task |-> Nobody, seen |-> "UNKNOWN"]
NoDest == [at |-> "none", task |-> Nobody, unlock |-> FALSE]
NoArg == [task |-> Nobody, delay |-> 0, interval |-> 0, fin |-> FALSE]

\* What s_create_task gives a task.
NewTask ==
    [m_status |-> "CREATED", m_exec_ref_count |-> 0, m_cancel_ref_count |-> 0,
     m_do_repeat |-> FALSE, m_is_first |-> TRUE, m_is_in_timed_q |-> FALSE,
     m_initial_delay_time |-> -1, m_interval_time |-> -1,
     m_last_abstime |-> 0, m_next_abstime |-> 0]

\* s_once_proc: the table and the queues are empty, the locks free.
Once ==
    /\ table = [t \in Tasks |-> "UNKNOWN"]
    /\ urgent_q = <<>> /\ idle_q = <<>> /\ chrono_q = <<>>
    /\ glock = Nobody

\* s_create_callout_stage, if there are to be workers.
CreateStage ==
    /\ stage = IF W = {} THEN "none" ELSE "created"
    /\ wq = [w \in AllWorkers |-> <<>>]
    /\ last_q = 0

\* gallus_callout_initialize_handler was called.
Init ==
    /\ mode \in Modes
    /\ Once
    /\ CreateStage
    /\ task = [t \in Tasks |-> [NewTask EXCEPT !.m_status = "UNKNOWN"]]
    /\ tlock = [t \in Tasks |-> Nobody]
    /\ freed = {}
    /\ now = 0
    /\ s_do_loop = FALSE
    /\ s_is_stopped = FALSE
    /\ s_is_handler_inited = TRUE
    /\ spc = "off"
    /\ todo = [e \in Executors |-> <<>>]
    /\ out = [e \in Executors |-> <<>>]
    /\ start_time = 0
    /\ woken = "no"
    /\ m_is_awakened = FALSE
    /\ wpc = [w \in AllWorkers |-> "off"]
    /\ wst = [w \in AllWorkers |-> 0]
    /\ upc = [u \in Users |-> "idle"]
    /\ uarg = [u \in Users |-> NoArg]
    /\ exec = [e \in Executors |-> NoExec]
    /\ canc = [e \in Executors |-> NoCanc]
    /\ dest = [e \in Executors |-> NoDest]
    /\ mismatch = FALSE
    /\ canceled = {}
    /\ gave_up = FALSE

-----------------------------------------------------------------------------
(* Tasks, their table and the timed queue.                                 *)

\* s_lock_task; the locks are recursive.
CanLock(th, t) == tlock[t] \in {Nobody, th}

\* The state in the table and in the record, which are changed together.
SetBoth(t, s) ==
    /\ table' = [table EXCEPT ![t] = s]
    /\ task' = [task EXCEPT ![t].m_status = s]

\* Before the first task that is later.
Place(q, time) ==
    LET later == {i \in DOMAIN q : task[q[i]].m_next_abstime > time}
    IN  IF later = {} THEN Len(q) + 1 ELSE Min(later)

\* What is left of the timed queue without the task t, which is in it.
Without(q, t) == RemoveAt(q, CHOOSE i \in DOMAIN q : q[i] = t)

\* The record of a timed task that is taken to be executed.
Dequeued(r) == [r EXCEPT !.m_status = "DEQUEUED", !.m_is_in_timed_q = FALSE]

\* gallus_bbq_wakeup of the urgent queue: the main loop is told if it sleeps, and if an
\* earlier wakeup was answered.
Wakeable == spc = "sleep" /\ ~m_is_awakened
WakeLoop ==
    /\ m_is_awakened' = (m_is_awakened \/ Wakeable)
    /\ woken' = IF Wakeable THEN "ok" ELSE woken

\* s_do_sched of a task with the record r, which is not in the timed queue.
DoSched(t, r) ==
    LET first == ~(~r.m_is_first /\ r.m_do_repeat)
        last  == IF first THEN now ELSE r.m_last_abstime
        time  == last + (IF first THEN r.m_initial_delay_time ELSE r.m_interval_time)
    IN  /\ chrono_q' = InsertAt(chrono_q, Place(chrono_q, time), t)
        /\ table' = [table EXCEPT ![t] = "ENQUEUED"]
        /\ task' = [task EXCEPT ![t] =
                       [r EXCEPT !.m_last_abstime = last, !.m_next_abstime = time,
                                 !.m_status = "ENQUEUED", !.m_is_in_timed_q = TRUE]]
        /\ WakeLoop

\* s_delete tells the sleeping cancellers of a task.
Wakeup(t) == [e \in Executors |->
                 IF canc[e].task = t /\ canc[e].at = "asleep" THEN [canc[e] EXCEPT !.at = "wait"]
                                                             ELSE canc[e]]

\* The tasks of what goes to the workers.
Sent(s) == {s[i].task : i \in DOMAIN s}

\* The tasks that a queue or a thread has a pointer to, and will use.
Pointed ==
    UNION {ToSet(urgent_q), ToSet(idle_q), ToSet(chrono_q),
           UNION {ToSet(wq[w]) : w \in AllWorkers},
           UNION {ToSet(todo[e]) \cup Sent(out[e]) : e \in Executors},
           {l.task : l \in {exec[e] : e \in Executors} \cup {canc[e] : e \in Executors}
                           \cup {dest[e] : e \in Executors}}}

\* A thread that uses a freed task ends what can be said of the program.
Defined == Pointed \cap freed = {}

CancAt(th, place) == canc[th].at = place /\ Defined
DestAt(th, place) == dest[th].at = place /\ Defined

-----------------------------------------------------------------------------
(* s_set_cancel_and_destroy_task_no_lock.                                  *)

Destroy(th, t, unlock) == dest' = [dest EXCEPT ![th] = [at |-> "unsched", task |-> t,
                                                        unlock |-> unlock]]

\* s_do_unsched.
DestroyUnscheds(th) ==
    LET t == dest[th].task IN
    /\ DestAt(th, "unsched")
    /\ CanLock(th, t)
    /\ IF task[t].m_is_in_timed_q
       THEN LET s == IF task[t].m_status = "ENQUEUED" THEN "DEQUEUED" ELSE task[t].m_status
            IN  /\ chrono_q' = Without(chrono_q, t)
                /\ task' = [task EXCEPT ![t].m_status = s, ![t].m_is_in_timed_q = FALSE]
                /\ table' = IF task[t].m_status = "ENQUEUED"
                            THEN [table EXCEPT ![t] = "DEQUEUED"] ELSE table
       ELSE UNCHANGED <<chrono_q, task, table>>
    /\ dest' = [dest EXCEPT ![th].at = "mark"]
    /\ UNCHANGED <<tlock, freed, urgent_q, idle_q, wq, last_q, now, glock, loop, taken, workers,
                   user, exec, canc, history>>

\* The state in the table, not in the record, and without the task's lock.
DestroyMarks(th) ==
    /\ DestAt(th, "mark")
    /\ table' = [table EXCEPT ![dest[th].task] = "CANCELLED"]
    /\ dest' = [dest EXCEPT ![th].at = "delete"]
    /\ UNCHANGED <<task, tlock, freed, queues, now, glock, loop, taken, workers, user, exec, canc,
                   history>>

\* s_delete.  A thread that took the global lock for this gives it back.
DestroyDeletes(th) ==
    LET t == dest[th].task IN
    /\ DestAt(th, "delete")
    /\ IF table[t] = "CANCELLED"
       THEN /\ CanLock(th, t)
            /\ table' = [table EXCEPT ![t] =
                            IF task[t].m_status = "DELETING" THEN @ ELSE "UNKNOWN"]
            /\ task' = [task EXCEPT ![t].m_status = "DELETING",
                                    ![t].m_cancel_ref_count = 0, ![t].m_exec_ref_count = 0]
            /\ freed' = freed \cup {t}
            /\ canc' = Wakeup(t)
       ELSE UNCHANGED <<table, task, freed, canc>>
    /\ glock' = IF dest[th].unlock THEN Nobody ELSE glock
    /\ dest' = [dest EXCEPT ![th] = NoDest]
    /\ UNCHANGED <<tlock, queues, now, loop, taken, workers, user, exec, history>>

-----------------------------------------------------------------------------
(* s_cancel, called by the user or by a task's procedure.                  *)

CancelAt(th, place) == canc' = [canc EXCEPT ![th].at = place]
CancelReturns(th) == canc' = [canc EXCEPT ![th] = NoCanc]

\* A cancellation without the layers of others: the thread is free for it.
MayCancel(th, t) ==
    /\ canc[th].at = "none"
    /\ dest[th].at = "none"
    /\ \/ mode.cancels = "users" /\ th \in Users /\ upc[th] = "idle" /\ todo[th] = <<>>
                                 /\ exec[th].at = "none"
       \/ mode.cancels = "procs" /\ exec[th].at = "running" /\ exec[th].task # t

CancelLooks(th, t) ==
    /\ MayCancel(th, t)
    /\ s_is_handler_inited
    /\ table[t] \notin {"UNKNOWN", "CANCELLED"}
    /\ canc' = [canc EXCEPT ![th] = [at |-> "count", task |-> t, seen |-> table[t]]]
    /\ UNCHANGED <<tasks, queues, now, glock, loop, taken, workers, user, exec, dest, history>>

\* Is somebody executing it?  A task that is neither executed nor queued is left.
CancelCounts(th) ==
    LET c == canc[th] IN
    /\ CancAt(th, "count")
    /\ canc' = [canc EXCEPT ![th] =
                   CASE task[c.task].m_exec_ref_count # 0 -> [c EXCEPT !.at = "join"]
                     [] task[c.task].m_exec_ref_count = 0 /\ c.seen \in {"ENQUEUED", "DEQUEUED"}
                                                          -> [c EXCEPT !.at = c.seen]
                     [] OTHER                             -> NoCanc]
    /\ UNCHANGED <<tasks, queues, now, glock, loop, taken, workers, user, exec, dest, history>>

CancelJoins(th) ==
    /\ CancAt(th, "join")
    /\ task' = [task EXCEPT ![canc[th].task].m_cancel_ref_count = @ + 1]
    /\ CancelAt(th, "wait")
    /\ UNCHANGED <<table, tlock, freed, queues, now, glock, loop, taken, workers, user, exec, dest,
                   history>>

CancelWaits(th) ==
    /\ CancAt(th, "wait")
    /\ CanLock(th, canc[th].task)
    /\ CancelAt(th, IF task[canc[th].task].m_exec_ref_count # 0 THEN "asleep" ELSE "last")
    /\ UNCHANGED <<tasks, queues, now, glock, loop, taken, workers, user, exec, dest, history>>

\* The last of the cancellers destroys the task.
CancelLast(th) ==
    LET t == canc[th].task
        n == task[t].m_cancel_ref_count - 1
    IN
    /\ CancAt(th, "last")
    /\ CancelReturns(th)
    /\ IF task[t].m_status = "DELETING"
       THEN UNCHANGED <<task, dest>>
       ELSE /\ task' = [task EXCEPT ![t].m_cancel_ref_count = n]
            /\ IF n > 0 THEN UNCHANGED dest ELSE Destroy(th, t, FALSE)
    /\ canceled' = canceled \cup {t}
    /\ UNCHANGED <<table, tlock, freed, queues, now, glock, loop, taken, workers, user, exec,
                   mismatch, gave_up, mode>>

\* Mutant: a task in the urgent or the idle queue is destroyed at once.
Deletable_Any(t) == TRUE

\* A task in the timed queue can be destroyed at once.
Deletable(t) == task[t].m_is_in_timed_q

CancelEnqueued(th) ==
    LET t == canc[th].task IN
    /\ CancAt(th, "ENQUEUED")
    /\ CanLock(th, t)
    /\ IF Deletable(t)
       THEN Destroy(th, t, FALSE) /\ UNCHANGED <<table, task>>
       ELSE SetBoth(t, "CANCELLED") /\ UNCHANGED dest
    /\ CancelReturns(th)
    /\ canceled' = canceled \cup {t}
    /\ UNCHANGED <<tlock, freed, queues, now, glock, loop, taken, workers, user, exec, mismatch,
                   gave_up, mode>>

\* A task that is about to be executed: its executor will destroy it.
CancelDequeued(th) ==
    LET t == canc[th].task IN
    /\ CancAt(th, "DEQUEUED")
    /\ CanLock(th, t)
    /\ SetBoth(t, "CANCELLED")
    /\ CancelReturns(th)
    /\ canceled' = canceled \cup {t}
    /\ UNCHANGED <<tlock, freed, queues, now, glock, loop, taken, workers, user, exec, dest,
                   mismatch, gave_up, mode>>

-----------------------------------------------------------------------------
(* s_exec_task.  The task's lock is held while its procedure runs.         *)

Exec(th) == exec[th].task
Busy(th) == canc[th].at # "none" \/ dest[th].at # "none"
At(th, place) == exec[th].at = place /\ ~Busy(th) /\ Defined /\ ~mismatch
ExecGoes(th, place) == exec' = [exec EXCEPT ![th].at = place]
Begins(th, t) == exec' = [exec EXCEPT ![th] = [at |-> "begin", task |-> t, seen |-> "UNKNOWN",
                                               del |-> FALSE]]

ExecLooks(th) ==
    LET s == table[Exec(th)] IN
    /\ At(th, "begin")
    /\ exec' = [exec EXCEPT ![th].at = IF s = "DEQUEUED" THEN "count" ELSE "illegal",
                            ![th].seen = s]
    /\ UNCHANGED <<tasks, queues, now, glock, loop, taken, workers, user, canc, dest, history>>

\* The second executor of a task does nothing.
ExecCounts(th) ==
    LET t == Exec(th) IN
    /\ At(th, "count")
    /\ task' = [task EXCEPT ![t].m_exec_ref_count = @ + 1]
    /\ ExecGoes(th, IF task[t].m_exec_ref_count = 0 THEN "lock" ELSE "leave")
    /\ UNCHANGED <<table, tlock, freed, queues, now, glock, loop, taken, workers, user, canc, dest,
                   history>>

ExecLocks(th) ==
    LET t == Exec(th) IN
    /\ At(th, "lock")
    /\ CanLock(th, t)
    /\ CASE table[t] = "DEQUEUED" /\ task[t].m_status = "DEQUEUED" ->
                /\ table' = [table EXCEPT ![t] = "EXECUTING"]
                /\ task' = [task EXCEPT ![t].m_status = "EXECUTING", ![t].m_is_first = FALSE]
                /\ tlock' = [tlock EXCEPT ![t] = th]
                /\ ExecGoes(th, "running")
                /\ UNCHANGED mismatch
         [] table[t] # "DEQUEUED" /\ table[t] = task[t].m_status ->
                /\ exec' = [exec EXCEPT ![th].at = "illegal", ![th].seen = table[t]]
                /\ UNCHANGED <<table, task, tlock, mismatch>>
         [] OTHER ->
                /\ mismatch' = TRUE
                /\ UNCHANGED <<table, task, tlock, exec>>
    /\ UNCHANGED <<freed, queues, now, glock, loop, taken, workers, user, canc, dest, canceled,
                   gave_up, mode>>

\* gallus_callout_task_reset_interval, which the procedure may call.
ResetInterval(th, interval) ==
    /\ At(th, "running")
    /\ interval > 0
    /\ task[Exec(th)].m_interval_time # interval
    /\ task' = [task EXCEPT ![Exec(th)].m_interval_time = interval]
    /\ UNCHANGED <<table, tlock, freed, queues, now, glock, loop, taken, workers, user, layers,
                   history>>

Again(t) == task[t].m_cancel_ref_count = 0 /\ task[t].m_do_repeat

\* The procedure returns, the lock is given back, and whether to repeat is decided.
\* (A canceller who counts himself in between might have done so before.)
ProcReturns(th, ok) ==
    LET t == Exec(th) IN
    /\ At(th, "running")
    /\ ok \/ ProcsFail
    /\ tlock' = [tlock EXCEPT ![t] = Nobody]
    /\ IF ok THEN UNCHANGED <<table, task>> ELSE SetBoth(t, "EXEC_FAILED")
    /\ exec' = [exec EXCEPT ![th].at = IF ok /\ Again(t) THEN "resched" ELSE "leave",
                            ![th].del = ~(ok /\ Again(t))]
    /\ UNCHANGED <<freed, queues, now, glock, loop, taken, workers, user, canc, dest, history>>

Reschedules(th) ==
    LET t == Exec(th) IN
    /\ At(th, "resched")
    /\ glock = Nobody
    /\ CanLock(th, t)
    /\ IF task[t].m_is_in_timed_q
       THEN UNCHANGED <<table, task, chrono_q, wakes>>
       ELSE DoSched(t, task[t])
    /\ exec' = [exec EXCEPT ![th].at = "leave", ![th].del = task[t].m_is_in_timed_q]
    /\ UNCHANGED <<tlock, freed, urgent_q, idle_q, wq, last_q, now, glock, s_do_loop, s_is_stopped,
                   s_is_handler_inited, spc, start_time, taken, workers, user, canc, dest,
                   history>>

\* Mutant: the executor that has rescheduled the task keeps its count.
Uncount_Deleted(t, del) ==
    task' = [task EXCEPT ![t].m_exec_ref_count = IF del THEN @ - 1 ELSE @]

Uncount(t, del) == task' = [task EXCEPT ![t].m_exec_ref_count = @ - 1]

\* The task stays: no canceller is told.
ExecLeaves(th) ==
    /\ At(th, "leave") /\ ~exec[th].del
    /\ Uncount(Exec(th), FALSE)
    /\ exec' = [exec EXCEPT ![th] = NoExec]
    /\ UNCHANGED <<table, tlock, freed, queues, now, glock, loop, taken, workers, user, canc, dest,
                   history>>

\* Nobody cancels the task: its executor destroys it.
ExecDestroys(th) ==
    /\ At(th, "leave") /\ exec[th].del
    /\ task[Exec(th)].m_cancel_ref_count = 0
    /\ Uncount(Exec(th), TRUE)
    /\ ExecGoes(th, "destroy")
    /\ UNCHANGED <<table, tlock, freed, queues, now, glock, loop, taken, workers, user, canc, dest,
                   history>>

\* A canceller will destroy it.
ExecTells(th) ==
    /\ At(th, "leave") /\ exec[th].del
    /\ task[Exec(th)].m_cancel_ref_count > 0
    /\ CanLock(th, Exec(th))
    /\ Uncount(Exec(th), TRUE)
    /\ canc' = Wakeup(Exec(th))
    /\ exec' = [exec EXCEPT ![th] = NoExec]
    /\ UNCHANGED <<table, tlock, freed, queues, now, glock, loop, taken, workers, user, dest,
                   history>>

\* A task that was found in another state; one that is cancelled is destroyed.
ExecRefuses(th) ==
    /\ At(th, "illegal")
    /\ exec' = [exec EXCEPT ![th] = IF @.seen = "CANCELLED" THEN [@ EXCEPT !.at = "destroy"]
                                                            ELSE NoExec]
    /\ UNCHANGED <<tasks, queues, now, glock, loop, taken, workers, user, canc, dest, history>>

ExecLocksGlobal(th) ==
    /\ At(th, "destroy")
    /\ glock = Nobody
    /\ glock' = th
    /\ Destroy(th, Exec(th), TRUE)
    /\ exec' = [exec EXCEPT ![th] = NoExec]
    /\ UNCHANGED <<tasks, queues, now, loop, taken, workers, user, canc, history>>

-----------------------------------------------------------------------------
(* s_final_task_sched_proc: s_run_tasks_by_self or s_submit_callout_stage. *)

Free(th) == exec[th].at = "none" /\ ~Busy(th)

\* Mutant: a cancelled task is made executable again.
Executable_Always(t) == TRUE

Executable(t) == task[t].m_status \in {"ENQUEUED", "CREATED"}

\* The queue of the i-th of n tasks, which are dealt out stride by stride.
QueueOf(i, n) ==
    LET stride == IF n < Cardinality(W) THEN 1 ELSE n \div Cardinality(W)
    IN  (last_q + (i - 1) \div stride) % Cardinality(W)

Mark(th) ==
    LET t == Head(todo[th])
        n == Len(out[th]) + Len(todo[th])
    IN
    /\ th \notin W
    /\ th = Sched => spc = "run"
    /\ todo[th] # <<>>
    /\ Free(th)
    /\ CanLock(th, t)
    /\ table' = IF Executable(t) THEN [table EXCEPT ![t] = "DEQUEUED"] ELSE table
    /\ task' = [task EXCEPT ![t].m_last_abstime = IF th = Sched THEN start_time ELSE now,
                            ![t].m_status = IF Executable(t) THEN "DEQUEUED" ELSE @]
    /\ todo' = [todo EXCEPT ![th] = Tail(@)]
    /\ IF W = {}
       THEN Begins(th, t) /\ UNCHANGED <<out, last_q>>
       ELSE /\ out' = [out EXCEPT ![th] =
                          Append(@, [task |-> t, worker |-> SetToSeq(W)[QueueOf(Len(@) + 1, n) + 1]])]
            /\ last_q' = IF Len(todo[th]) > 1 THEN last_q ELSE (QueueOf(n, n) + 1) % Cardinality(W)
            /\ UNCHANGED exec
    /\ UNCHANGED <<tlock, freed, urgent_q, idle_q, chrono_q, wq, now, glock, loop, workers, user,
                   canc, dest, history>>

\* s_callout_worker_sched waits for room.
Put(th) ==
    LET o == Head(out[th]) IN
    /\ todo[th] = <<>> /\ out[th] # <<>>
    /\ Len(wq[o.worker]) < Cap
    /\ wq' = [wq EXCEPT ![o.worker] = Append(@, o.task)]
    /\ out' = [out EXCEPT ![th] = Tail(@)]
    /\ UNCHANGED <<tasks, urgent_q, idle_q, chrono_q, last_q, now, glock, loop, todo, workers, user,
                   layers, history>>

\* s_callout_worker_fetch: everything that is there, or nothing for a while.
WorkerFetches(w) ==
    /\ wpc[w] = "loop"
    /\ todo[w] = <<>> /\ Free(w)
    /\ (wq[w] # <<>> /\ ~(stage = "shutdown" /\ wst[w] = 0)) \/ wst[w] > 0
    /\ todo' = [todo EXCEPT ![w] = wq[w]]
    /\ wq' = [wq EXCEPT ![w] = <<>>]
    /\ wst' = [wst EXCEPT ![w] = IF wq[w] = <<>> THEN 0 ELSE 1]
    /\ UNCHANGED <<tasks, urgent_q, idle_q, chrono_q, last_q, now, glock, loop, out, stage, wpc,
                   user, layers, history>>

\* s_callout_worker_main.
WorkerRuns(w) ==
    /\ todo[w] # <<>> /\ Free(w)
    /\ Begins(w, Head(todo[w]))
    /\ todo' = [todo EXCEPT ![w] = Tail(@)]
    /\ UNCHANGED <<tasks, queues, now, glock, loop, out, workers, user, canc, dest, history>>

\* Gracefully: when the last fetch has found nothing.
WorkerEnds(w) ==
    /\ wpc[w] = "loop"
    /\ stage = "shutdown"
    /\ todo[w] = <<>> /\ Free(w)
    /\ wst[w] = 0
    /\ wpc' = [wpc EXCEPT ![w] = "over"]
    /\ UNCHANGED <<tasks, queues, now, glock, loop, taken, stage, wst, user, layers, history>>

-----------------------------------------------------------------------------
(* The main loop.                                                          *)

SpcGoes(place) == spc' = place

\* The caller sees to it that nobody finalizes the handler meanwhile.
StartLoop ==
    /\ spc = "off"
    /\ \A u \in Users : ~uarg[u].fin
    /\ s_is_handler_inited
    /\ stage' = IF W = {} THEN stage ELSE "started"
    /\ wpc' = [w \in AllWorkers |-> IF w \in W THEN "loop" ELSE wpc[w]]
    /\ s_do_loop' = TRUE
    /\ SpcGoes("gala")
    /\ UNCHANGED <<tasks, queues, now, glock, s_is_stopped, s_is_handler_inited, start_time, wakes,
                   taken, wst, user, layers, history>>

\* The application shuts down before it has started: nobody is told.
GalaFails ==
    /\ spc = "gala"
    /\ s_is_stopped' = TRUE
    /\ SpcGoes("failed")
    /\ UNCHANGED <<tasks, queues, now, glock, s_do_loop, s_is_handler_inited, start_time, wakes,
                   taken, workers, user, layers, history>>

GalaOpens ==
    /\ spc = "gala"
    /\ s_is_stopped' = FALSE
    /\ SpcGoes("top")
    /\ UNCHANGED <<tasks, queues, now, glock, s_do_loop, s_is_handler_inited, start_time, wakes,
                   taken, workers, user, layers, history>>

\* The urgent and the idle tasks.
SchedFetches ==
    /\ spc = "top"
    /\ s_do_loop
    /\ glock = Nobody
    /\ start_time' = now
    /\ out' = [out EXCEPT ![Sched] = <<>>]
    /\ todo' = [todo EXCEPT ![Sched] = urgent_q \o idle_q]
    /\ urgent_q' = <<>> /\ idle_q' = <<>>
    /\ SpcGoes("timed")
    /\ UNCHANGED <<tasks, chrono_q, wq, last_q, now, glock, s_do_loop, s_is_stopped,
                   s_is_handler_inited, wakes, workers, user, layers, history>>

\* The first of the timed tasks that are due.
DueTasks == SubSeq(chrono_q, 1, Cardinality({i \in DOMAIN chrono_q :
                \A j \in 1..i : task[chrono_q[j]].m_next_abstime <= start_time}))

\* s_get_runnables; the timed tasks come first.
SchedTakesTimed ==
    LET due == DueTasks
        Due(t) == t \in ToSet(due)
    IN
    /\ spc = "timed"
    /\ glock = Nobody
    /\ \A t \in ToSet(due) : CanLock(Sched, t)
    /\ chrono_q' = SubSeq(chrono_q, Len(due) + 1, Len(chrono_q))
    /\ table' = [t \in Tasks |-> IF Due(t) THEN "DEQUEUED" ELSE table[t]]
    /\ task' = [t \in Tasks |-> IF Due(t) THEN Dequeued(task[t]) ELSE task[t]]
    /\ todo' = [todo EXCEPT ![Sched] = due \o @]
    /\ SpcGoes("run")
    /\ UNCHANGED <<tlock, freed, urgent_q, idle_q, wq, last_q, now, glock, s_do_loop, s_is_stopped,
                   s_is_handler_inited, start_time, wakes, out, workers, user, layers, history>>

\* The idle procedure is called, or it is not its time.
SchedIdles ==
    /\ spc = "run"
    /\ todo[Sched] = <<>> /\ out[Sched] = <<>> /\ Free(Sched)
    /\ \/ SpcGoes("peek") /\ UNCHANGED s_do_loop
       \/ ProcsFail /\ s_do_loop' = FALSE /\ SpcGoes("end")
    /\ UNCHANGED <<tasks, queues, now, glock, s_is_stopped, s_is_handler_inited, start_time, wakes,
                   taken, workers, user, layers, history>>

\* The first of the timed tasks.
Earliest == IF chrono_q = <<>> THEN {} ELSE {Head(chrono_q)}

\* No sleep for what is due already, be it a task or the idle procedure.
SchedPeeks ==
    LET due == {t \in Earliest : task[t].m_next_abstime <= start_time} IN
    /\ spc = "peek"
    /\ \A t \in Earliest : CanLock(Sched, t)
    /\ \/ due = {} /\ urgent_q = <<>> /\ SpcGoes("sleep")
       \/ (Earliest = due \/ urgent_q # <<>>) /\ SpcGoes("top")
    /\ woken' = "no"
    /\ UNCHANGED <<tasks, queues, now, glock, s_do_loop, s_is_stopped, s_is_handler_inited,
                   start_time, m_is_awakened, taken, workers, user, layers, history>>

\* Out of the sleep by a wakeup, which is answered, or by an urgent task.  A wait that
\* returns without either is a failure, and ends the loop.
SchedAwakes ==
    /\ spc = "sleep"
    /\ woken = "ok"
    /\ SpcGoes(IF m_is_awakened \/ urgent_q # <<>> THEN "top" ELSE "end")
    /\ woken' = "no"
    /\ m_is_awakened' = FALSE
    /\ UNCHANGED <<tasks, queues, now, glock, s_do_loop, s_is_stopped, s_is_handler_inited,
                   start_time, taken, workers, user, layers, history>>

\* Out of it by the time limit, which the idle interval bounds, while a wakeup may just
\* have come, which is not answered.
SchedTimesOut ==
    /\ spc = "sleep"
    /\ IdleInterval >= 0 \/ chrono_q = <<>>
    /\ SpcGoes("top")
    /\ woken' = IF m_is_awakened THEN "late" ELSE "no"
    /\ UNCHANGED <<tasks, queues, now, glock, s_do_loop, s_is_stopped, s_is_handler_inited,
                   start_time, m_is_awakened, taken, workers, user, layers, history>>

\* A wait of a condition variable may return by itself.
SpuriousWakeup ==
    /\ spc = "sleep"
    /\ woken = "no"
    /\ woken' = "ok"
    /\ UNCHANGED <<tasks, queues, now, glock, s_do_loop, s_is_stopped, s_is_handler_inited, spc,
                   start_time, m_is_awakened, taken, workers, user, layers, history>>

\* Mutant: only those who sleep are told.
Stopped_Untold == s_is_stopped

Stopped == TRUE

\* critical_end.
SchedEnds ==
    /\ spc = "end" \/ (spc = "top" /\ ~s_do_loop)
    /\ s_is_stopped' = Stopped
    /\ upc' = [u \in Users |-> IF upc[u] = "asleep" THEN "stopping" ELSE upc[u]]
    /\ SpcGoes("over")
    /\ UNCHANGED <<tasks, queues, now, glock, s_do_loop, s_is_handler_inited, start_time, wakes,
                   taken, workers, uarg, layers, history>>

Tick ==
    /\ now < MaxTime
    /\ now' = now + 1
    /\ UNCHANGED <<tasks, queues, glock, loop, taken, workers, user, layers, history>>

-----------------------------------------------------------------------------
(* Users.                                                                  *)

UserGoes(u, place) == upc' = [upc EXCEPT ![u] = place]
Idle(u) == upc[u] = "idle" /\ todo[u] = <<>> /\ out[u] = <<>> /\ Free(u)

Create(u, t) ==
    /\ t \in mode.tasks
    /\ Idle(u) /\ s_is_handler_inited
    /\ glock = Nobody
    /\ table[t] = "UNKNOWN" /\ task[t].m_status = "UNKNOWN"
    /\ table' = [table EXCEPT ![t] = "CREATED"]
    /\ task' = [task EXCEPT ![t] = NewTask]
    /\ UNCHANGED <<tlock, freed, queues, now, glock, loop, taken, workers, user, layers, history>>

\* The state is looked at without a lock.
Submit(u, t, delay, interval) ==
    /\ Idle(u) /\ s_is_handler_inited
    /\ table[t] = "CREATED"
    /\ UserGoes(u, "submit")
    /\ uarg' = [uarg EXCEPT ![u] = [task |-> t, delay |-> delay, interval |-> interval,
                                    fin |-> FALSE]]
    /\ UNCHANGED <<tasks, queues, now, glock, loop, taken, workers, layers, history>>

\* What s_submit_task writes before it queues the task.
Submitted(a) ==
    LET r == [task[a.task] EXCEPT !.m_initial_delay_time = a.delay]
    IN  IF a.interval > 0 THEN [r EXCEPT !.m_interval_time = a.interval, !.m_do_repeat = TRUE]
                          ELSE r

SubmitTimed(u) ==
    LET a == uarg[u] IN
    /\ upc[u] = "submit"
    /\ a.delay > 0
    /\ glock = Nobody /\ CanLock(u, a.task)
    /\ IF task[a.task].m_is_in_timed_q
       THEN /\ task' = [task EXCEPT ![a.task] = Submitted(a)]
            /\ UNCHANGED <<table, chrono_q, wakes>>
       ELSE DoSched(a.task, Submitted(a))
    /\ UserGoes(u, "idle") /\ uarg' = [uarg EXCEPT ![u] = NoArg]
    /\ UNCHANGED <<tlock, freed, urgent_q, idle_q, wq, last_q, now, glock, s_do_loop, s_is_stopped,
                   s_is_handler_inited, spc, start_time, taken, workers, layers, history>>

\* The locks are held while the queue has no room.
SubmitLocks(u) ==
    LET a == uarg[u] IN
    /\ upc[u] = "submit"
    /\ a.delay <= 0
    /\ glock = Nobody /\ CanLock(u, a.task)
    /\ glock' = u
    /\ tlock' = [tlock EXCEPT ![a.task] = u]
    /\ task' = [task EXCEPT ![a.task] = Submitted(a)]
    /\ UserGoes(u, "put")
    /\ UNCHANGED <<table, freed, queues, now, loop, taken, workers, uarg, layers, history>>

SubmitPuts(u) ==
    LET a == uarg[u] IN
    /\ upc[u] = "put"
    /\ IF a.delay = 0
       THEN Len(urgent_q) < Cap /\ urgent_q' = Append(urgent_q, a.task) /\ UNCHANGED idle_q
       ELSE Len(idle_q) < Cap /\ idle_q' = Append(idle_q, a.task) /\ UNCHANGED urgent_q
    /\ IF task[a.task].m_is_in_timed_q THEN UNCHANGED <<table, task>> ELSE SetBoth(a.task, "ENQUEUED")
    /\ woken' = IF a.delay = 0 /\ spc = "sleep" THEN "ok" ELSE woken
    /\ tlock' = [tlock EXCEPT ![a.task] = Nobody]
    /\ glock' = Nobody
    /\ UserGoes(u, "idle") /\ uarg' = [uarg EXCEPT ![u] = NoArg]
    /\ UNCHANGED <<freed, chrono_q, wq, last_q, now, s_do_loop, s_is_stopped, s_is_handler_inited,
                   spc, start_time, m_is_awakened, taken, workers, layers, history>>

\* gallus_callout_exec_task_forcibly.
Forcible(t) == s_is_handler_inited /\ table[t] # "UNKNOWN"

\* s_force_schedule_task: only a task in the timed queue is run.
ForceSchedule(u, t) ==
    /\ mode.forces
    /\ Idle(u) /\ Forcible(t)
    /\ glock = Nobody /\ CanLock(u, t)
    /\ table[t] \in {"CREATED", "ENQUEUED"}
    /\ task[t].m_exec_ref_count = 0
    /\ task[t].m_is_in_timed_q
    /\ chrono_q' = Without(chrono_q, t)
    /\ table' = [table EXCEPT ![t] = "DEQUEUED"]
    /\ task' = [task EXCEPT ![t] = Dequeued(@)]
    /\ todo' = [todo EXCEPT ![u] = <<t>>]
    /\ UNCHANGED <<tlock, freed, urgent_q, idle_q, wq, last_q, now, glock, loop, out, workers, user,
                   layers, history>>

\* gallus_callout_stop_main_loop and gallus_callout_finalize_handler.
Stop(u, fin) ==
    /\ Idle(u) /\ s_is_handler_inited
    /\ \/ ~s_is_stopped /\ s_do_loop /\ s_do_loop' = FALSE /\ UserGoes(u, "wakeup")
       \/ /\ s_is_stopped \/ ~s_do_loop
          /\ fin /\ UserGoes(u, "stage") /\ UNCHANGED s_do_loop
    /\ uarg' = [uarg EXCEPT ![u] = [NoArg EXCEPT !.fin = fin]]
    /\ UNCHANGED <<tasks, queues, now, glock, s_is_stopped, s_is_handler_inited, spc, start_time,
                   wakes, taken, workers, layers, history>>

\* gallus_bbq_wakeup without a time limit waits for an answer, if it has told anybody.
StopWakes(u) ==
    /\ upc[u] = "wakeup"
    /\ WakeLoop
    /\ UserGoes(u, IF Wakeable THEN "waking" ELSE "stopping")
    /\ UNCHANGED <<tasks, queues, now, glock, s_do_loop, s_is_stopped, s_is_handler_inited, spc,
                   start_time, taken, workers, uarg, layers, history>>

StopAnswered(u) ==
    /\ upc[u] = "waking"
    /\ ~m_is_awakened
    /\ UserGoes(u, "stopping")
    /\ UNCHANGED <<tasks, queues, now, glock, loop, taken, workers, uarg, layers, history>>

\* The main loop holds s_sched_lck as long as it runs.
StopSleeps(u) ==
    /\ upc[u] = "stopping"
    /\ spc \in {"off", "gala", "failed", "over"}
    /\ UserGoes(u, IF ~s_is_stopped THEN "asleep" ELSE IF uarg[u].fin THEN "stage" ELSE "idle")
    /\ UNCHANGED <<tasks, queues, now, glock, loop, taken, workers, uarg, layers, history>>

\* s_finish_callout_stage; a stage that has not started is not shut down.
FinishStage(u) ==
    /\ upc[u] = "stage"
    /\ \/ stage = "none" /\ UserGoes(u, "timed") /\ UNCHANGED <<stage, gave_up, s_is_handler_inited>>
       \/ /\ stage = "created" /\ UserGoes(u, "finalized") /\ gave_up' = TRUE
          /\ s_is_handler_inited' = FALSE /\ UNCHANGED stage
       \/ /\ stage = "started" /\ stage' = "shutdown"
          /\ UNCHANGED <<upc, gave_up, s_is_handler_inited>>
       \/ /\ stage = "shutdown" /\ \A w \in W : wpc[w] = "over"
          /\ UserGoes(u, "workers") /\ UNCHANGED <<stage, gave_up, s_is_handler_inited>>
    /\ UNCHANGED <<tasks, queues, now, glock, s_do_loop, s_is_stopped, spc, start_time, wakes, taken,
                   wpc, wst, uarg, layers, mismatch, canceled, mode>>

\* s_callout_worker_free, when the stage is destroyed: the tasks in the workers' queues.
ClearWorkers(u) ==
    LET w == CHOOSE w \in W : wq[w] # <<>> IN
    /\ upc[u] = "workers" /\ \E x \in W : wq[x] # <<>>
    /\ Free(u)
    /\ glock = Nobody
    /\ glock' = u
    /\ Destroy(u, Head(wq[w]), TRUE)
    /\ wq' = [wq EXCEPT ![w] = Tail(@)]
    /\ UNCHANGED <<tasks, urgent_q, idle_q, chrono_q, last_q, now, loop, taken, workers, user, exec,
                   canc, history>>

\* s_task_freeup of what is left in the urgent and the idle queue.
ClearQueue(u) ==
    /\ Free(u)
    /\ glock = Nobody
    /\ \/ /\ upc[u] = "urgent" /\ urgent_q # <<>>
          /\ Destroy(u, Head(urgent_q), TRUE)
          /\ urgent_q' = Tail(urgent_q)
          /\ UNCHANGED idle_q
       \/ /\ upc[u] = "queued" /\ idle_q # <<>>
          /\ Destroy(u, Head(idle_q), TRUE)
          /\ idle_q' = Tail(idle_q)
          /\ UNCHANGED urgent_q
    /\ glock' = u
    /\ UNCHANGED <<tasks, chrono_q, wq, last_q, now, loop, taken, workers, user, exec, canc, history>>

\* s_destroy_all_queued_timed_tasks, under the global lock.
ClearTimed(u) ==
    LET t == Head(chrono_q) IN
    /\ upc[u] = "timed" /\ Free(u)
    /\ glock \in {Nobody, u}
    /\ chrono_q # <<>>
    /\ CanLock(u, t)
    /\ glock' = u
    /\ chrono_q' = Tail(chrono_q)
    /\ table' = [table EXCEPT ![t] = "DEQUEUED"]
    /\ task' = [task EXCEPT ![t] = Dequeued(@)]
    /\ Destroy(u, t, FALSE)
    /\ UNCHANGED <<tlock, freed, urgent_q, idle_q, wq, last_q, now, loop, taken, workers, user, exec,
                   canc, history>>

\* Mutant: the idle tasks are forgotten.
Empty_NotIdle(place) ==
    CASE place = "workers" -> \A w \in W : wq[w] = <<>>
      [] place = "timed"   -> chrono_q = <<>>
      [] place = "urgent"  -> urgent_q = <<>>
      [] OTHER             -> TRUE

Empty(place) ==
    CASE place = "workers" -> \A w \in W : wq[w] = <<>>
      [] place = "timed"   -> chrono_q = <<>>
      [] place = "urgent"  -> urgent_q = <<>>
      [] place = "queued"  -> idle_q = <<>>
      [] OTHER             -> FALSE

\* From one queue to the next one.
Cleared(u) ==
    LET p == upc[u] IN
    /\ Free(u)
    /\ p \in {"workers", "timed", "urgent", "queued"} /\ Empty(p)
    /\ UserGoes(u, CASE p = "workers" -> "timed"  [] p = "timed"  -> "urgent"
                     [] p = "urgent"  -> "queued" [] p = "queued" -> "finalized")
    /\ s_is_handler_inited' = (s_is_handler_inited /\ p # "queued")
    /\ glock' = IF glock = u THEN Nobody ELSE glock
    /\ UNCHANGED <<tasks, queues, now, s_do_loop, s_is_stopped, spc, start_time, wakes, taken,
                   workers, uarg, layers, history>>

-----------------------------------------------------------------------------

ThreadStep(th) ==
    \/ DestroyUnscheds(th) \/ DestroyMarks(th) \/ DestroyDeletes(th)
    \/ CancelCounts(th) \/ CancelJoins(th) \/ CancelWaits(th) \/ CancelLast(th)
    \/ CancelEnqueued(th) \/ CancelDequeued(th)
    \/ ExecLooks(th) \/ ExecCounts(th) \/ ExecLocks(th)
    \/ \E ok \in BOOLEAN : ProcReturns(th, ok)
    \/ Reschedules(th)
    \/ ExecLeaves(th) \/ ExecDestroys(th) \/ ExecTells(th) \/ ExecRefuses(th) \/ ExecLocksGlobal(th)
    \/ Mark(th) \/ Put(th)

WorkerStep(w) == WorkerFetches(w) \/ WorkerRuns(w) \/ WorkerEnds(w)

SchedStep ==
    \/ GalaFails \/ GalaOpens \/ SchedFetches \/ SchedTakesTimed \/ SchedIdles \/ SchedPeeks
    \/ SchedAwakes \/ SchedTimesOut \/ SchedEnds

\* What a user does to get a call of his done.
UserStep(u) ==
    \/ SubmitTimed(u) \/ SubmitLocks(u) \/ SubmitPuts(u)
    \/ StopWakes(u) \/ StopAnswered(u) \/ StopSleeps(u) \/ FinishStage(u)
    \/ ClearWorkers(u) \/ ClearQueue(u) \/ ClearTimed(u) \/ Cleared(u)

Next ==
    \/ \E th \in Executors : ThreadStep(th)
    \/ \E th \in Executors, t \in Tasks : CancelLooks(th, t)
    \/ \E th \in Executors, i \in Intervals : ResetInterval(th, i)
    \/ \E w \in AllWorkers : WorkerStep(w)
    \/ SchedStep
    \/ SpuriousWakeup
    \/ StartLoop
    \/ Tick
    \/ \E u \in Users : UserStep(u)
    \/ \E u \in Users, t \in Tasks : Create(u, t)
    \/ \E u \in Users, t \in Tasks : ForceSchedule(u, t)
    \/ \E u \in Users, t \in Tasks, d \in mode.delays, i \in Intervals : Submit(u, t, d, i)
    \/ \E u \in Users, fin \in BOOLEAN : Stop(u, fin)

Spec == Init /\ [][Next]_vars

\* Time passes, threads run on, and procedures return, whatever they call.
FairSpec ==
    /\ Spec
    /\ WF_vars(Tick)
    /\ WF_vars(SchedStep \/ ThreadStep(Sched))
    /\ SF_vars(\E ok \in BOOLEAN : ProcReturns(Sched, ok))
    /\ \A w \in AllWorkers : WF_vars(WorkerStep(w) \/ ThreadStep(w))
    /\ \A u \in Users : WF_vars(UserStep(u) \/ ThreadStep(u))

-----------------------------------------------------------------------------
(* Properties.                                                             *)

\* A task is freed by the last who has a pointer to it: no queue, scheduler,
\* worker or canceller goes on with a task that s_delete has freed.  False of the code
\* where users cancel timed tasks.
NoUseAfterFree == Defined

\* The same where users do not cancel.
NoUseAfterFreeUncanceled == mode.cancels # "users" => NoUseAfterFree

\* The timed queue is in the order of the execution times, a task is in it once
\* if m_is_in_timed_q says so, and is ENQUEUED then, if no user cancels tasks.
TimedQueueSound ==
    /\ \A i, j \in DOMAIN chrono_q : i < j => /\ chrono_q[i] # chrono_q[j]
                                              /\ task[chrono_q[i]].m_next_abstime
                                                    <= task[chrono_q[j]].m_next_abstime
    /\ \A t \in Tasks : t \in ToSet(chrono_q) <=> task[t].m_is_in_timed_q
    /\ mode.cancels # "users" =>
          \A t \in ToSet(chrono_q) : table[t] = "ENQUEUED" /\ task[t].m_status = "ENQUEUED"

\* A task that is due to be executed is in the hands of somebody: once it is taken
\* out of its queue and DEQUEUED, a thread or a worker's queue has it.
Forgotten(t) == table[t] = "DEQUEUED" /\ t \notin Pointed
NotForgotten == \A t \in Tasks : ~Forgotten(t)

\* The same where one thread runs the tasks.
NotForgottenBySelf == (W = {} /\ ~mode.forces) => NotForgotten

\* The three above: what the queues, the threads and the reference counts say of a task
\* agrees, so that it is neither used after it was freed nor lost.
TasksSound == NoUseAfterFreeUncanceled /\ TimedQueueSound /\ NotForgottenBySelf

StartsRunning(e) == exec[e].at # "running" /\ exec'[e].at = "running"

\* A task without interval is executed once at most, whoever executes it.
OneShotOnce ==
    [][\A e \in Executors : StartsRunning(e) =>
          task[exec[e].task].m_do_repeat \/ task[exec[e].task].m_is_first]_vars

\* A task that a task procedure has canceled is not executed any more, wherever it
\* was: in one of the queues, or among those that the main loop has taken.
CanceledNeverRuns ==
    [][\A e \in Executors :
          mode.cancels = "procs" /\ StartsRunning(e) => exec[e].task \notin canceled]_vars

\* The two above: a task procedure is called only as often and as long as it may be.
RunsAllowed == OneShotOnce /\ CanceledNeverRuns

\* "all the tasks submitted are cancelled and its argument are freed up"
\* (gallus_callout_finalize_handler), unless the stage had not started.
FinalizeCleans ==
    (\E u \in Users : upc[u] = "finalized") /\ ~gave_up
        => \A t \in Tasks : table[t] \in {"UNKNOWN", "CREATED"} \/ Forgotten(t)

\* A submitted task is executed when its time has come, or the loop is stopped or ends
\* by itself.  A task that repeats only where one thread runs and cancels the tasks.
Due(t) == /\ table[t] \in {"ENQUEUED", "DEQUEUED"}
          /\ task[t].m_is_in_timed_q => task[t].m_next_abstime <= now
AloneWith(t) == (W = {} /\ ~mode.forces) \/ ~task[t].m_do_repeat
Served ==
    \A t \in Tasks :
        (spc \notin {"off", "gala", "failed"} /\ AloneWith(t) /\ mode.cancels # "users" /\ Due(t))
            ~> (\E e \in Executors : exec[e].task = t) \/ t \in freed \/ ~s_do_loop \/ spc = "over"

\* The main loop's wait has met its time limit when a stopper woke it up, and nobody
\* answers the stopper.
Caught(u) == upc[u] = "waking" /\ m_is_awakened /\ woken = "late"

\* A stop or a finalization returns, unless the stopper is caught, or the application had
\* shut down before the loop ran.
StopEnds ==
    \A u \in Users : upc[u] = "wakeup" ~> upc[u] \in {"idle", "finalized"} \/ ~Defined
                                          \/ spc \in {"off", "failed"} \/ Caught(u)

\* The same of every stopper while the loop runs.  False of the code, and in no run.
EveryStopEnds ==
    \A u \in Users : upc[u] = "wakeup" ~> upc[u] \in {"idle", "finalized"} \/ ~Defined
                                          \/ spc \in {"off", "failed"}
=============================================================================
