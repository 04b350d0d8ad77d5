------------------------------ MODULE Pipeline ------------------------------
(***************************************************************************)
(* One pipeline stage: src/framework/lib/pipeline_stage.c and its workers, *)
(* pipeline_worker.c.                                                      *)
(*                                                                         *)
(* A call holds m_lock from its beginning to its end, also while it sleeps;*)
(* what it does without sleeping is one step.  The workers take no m_lock: *)
(* they read the flags one after the other, meet at m_pause_barrier, and   *)
(* take m_pause_lock, which is a variable because user procedures run      *)
(* under it and because a cancelled worker unlocks it.  A worker's thread  *)
(* is reduced to what Thread shows of it: started, cancelled at a          *)
(* cancellation point, finalized, and only then waited for.                *)
(***************************************************************************)
EXTENDS Integers, FiniteSets

CONSTANTS
    N,            \* m_n_workers
    Callers,      \* threads that call the stage's functions
    Nobody,       \* no thread
    Styles,       \* how the users of a stage use it: sets of Usages
    WaitLimits,   \* time limits of gallus_pipeline_stage_wait
    StartFails,   \* gallus_thread_start may fail
    WorkersFail,  \* a worker's procedures may fail
    ClockStands,  \* the clock may show the same time, or an earlier one, later
    MaxRequests   \* bound: pauses and maintenances

Workers == 1 .. N
Usages == {"pause", "pause_timed", "maintenance", "cancel_caller"}

ASSUME PipelineAssumption ==
    /\ N \in Nat \ {0}
    /\ Callers \cap Workers = {}
    /\ Nobody \notin Callers \cup Workers
    /\ Styles \subseteq SUBSET Usages
    /\ WaitLimits \subseteq {"inf", "timed"}
    /\ {StartFails, WorkersFail, ClockStands} \subseteq BOOLEAN
    /\ MaxRequests \in Nat

VARIABLES
    m_status, m_do_loop, m_sg_lvl, m_pause_requested,
    m_maint_proc,          \* whether there is one
    m_n_canceled_workers, m_n_shutdown_workers,
    m_lock, m_pause_lock,
    gs,                    \* the global state, as global_state_wait_for sees it
    wpc, st,               \* where a worker is, and the result of its last round
    is_master,             \* it came from the barrier as the master
    requested,             \* pthread_cancel was called for it
    canceled,              \* it ended by that
    tpc, call,             \* where a caller is, and its call
    woken,                 \* threads whose gallus_cond_wait is about to return
    n_maintained,          \* how often the maintenance procedure ran
    n_requests,            \* pauses and maintenances so far
    destroyed, fatal,
    style                  \* how the users of this stage use it

flags == <<m_status, m_do_loop, m_sg_lvl, m_pause_requested, m_maint_proc>>
counts == <<m_n_canceled_workers, m_n_shutdown_workers>>
thread == <<requested, canceled>>
caller == <<tpc, call, m_lock>>
history == <<n_maintained, n_requests, destroyed, fatal, style>>
vars == <<flags, counts, m_pause_lock, gs, wpc, st, is_master, thread, caller, woken, history>>

Threads == Callers \cup Workers
NoCall == [op |-> "none", timed |-> FALSE, i |-> 0]

\* s_init_stage.
InitStage ==
    /\ m_status = "INITIALIZED"
    /\ m_do_loop = FALSE
    /\ m_sg_lvl = "UNKNOWN"
    /\ m_pause_requested = FALSE
    /\ m_maint_proc = FALSE
    /\ m_n_canceled_workers = 0
    /\ m_n_shutdown_workers = 0
    /\ m_lock = Nobody
    /\ m_pause_lock = Nobody

\* gallus_pipeline_stage_create: a stage, and no worker yet.
Init ==
    /\ InitStage
    /\ gs = "starting"
    /\ wpc = [w \in Workers |-> "unborn"]
    /\ st = [w \in Workers |-> 0]
    /\ is_master = [w \in Workers |-> FALSE]
    /\ requested = [w \in Workers |-> FALSE]
    /\ canceled = [w \in Workers |-> FALSE]
    /\ tpc = [t \in Callers |-> "idle"]
    /\ call = [t \in Callers |-> NoCall]
    /\ woken = {}
    /\ n_maintained = 0
    /\ n_requests = 0
    /\ destroyed = FALSE
    /\ fatal = FALSE
    /\ style \in Styles

-----------------------------------------------------------------------------
\* Where threads sleep on m_pause_cond and m_resume_cond.
PauseCond == {p \in Threads : IF p \in Callers THEN tpc[p] = "pause_sleep"
                                               ELSE wpc[p] = "maint_sleep"}
ResumeCond == {w \in Workers : wpc[w] = "resume_sleep"}

\* Workers whose thread is there.
Alive(w) == wpc[w] \notin {"unborn", "ended"}
Barrier == {w \in Workers : wpc[w] \in {"barrier_pause", "barrier_maint"}}

WAt(w, place) == wpc' = [wpc EXCEPT ![w] = place]

\* A caller returns and gives m_lock back.  The results of the calls say what
\* m_status says, and are left out.
Returns(t) ==
    /\ tpc' = [tpc EXCEPT ![t] = "idle"]
    /\ call' = [call EXCEPT ![t] = NoCall]
    /\ m_lock' = Nobody

\* A caller goes on, with m_lock held, at a place inside its call.
GoesOn(t, place, c) ==
    /\ tpc' = [tpc EXCEPT ![t] = place]
    /\ call' = [call EXCEPT ![t] = c]
    /\ m_lock' = t

\* A call begins: m_lock is free, and s_is_stage.
Free(t) == tpc[t] = "idle" /\ m_lock = Nobody /\ ~destroyed

-----------------------------------------------------------------------------
(* The workers.                                                            *)

\* s_worker_main: wait for GLOBAL_STATE_STARTED, then run the loop; st is 0.
GalaOpens(w) ==
    /\ wpc[w] = "gala"
    /\ gs \in {"started", "shutdown"}
    /\ WAt(w, IF gs = "started" THEN "loop" ELSE "ending")
    /\ st' = [st EXCEPT ![w] = 0]
    /\ UNCHANGED <<flags, counts, m_pause_lock, gs, is_master, thread, caller, woken, history>>

\* The condition of WORKER_LOOP.  (A negative st has left the loop.)
GoesRound(w) == m_do_loop /\ (st[w] > 0 \/ m_sg_lvl = "UNKNOWN")

Loop(w) ==
    /\ wpc[w] = "loop"
    /\ WAt(w, IF GoesRound(w) THEN "test" ELSE "ending")
    /\ UNCHANGED <<flags, counts, m_pause_lock, gs, st, is_master, thread, caller, woken, history>>

\* Mutant: the request to pause is seen, but not obeyed while there is work.
Obeys_Idle(w) == m_pause_requested /\ st[w] = 0
Obeys(w) == m_pause_requested

\* The body of WORKER_LOOP: a round of work, a pause or a maintenance.
Test(w) ==
    /\ wpc[w] = "test"
    /\ WAt(w, CASE ~Obeys(w)                  -> "work"
                [] Obeys(w) /\ m_maint_proc   -> "barrier_maint"
                [] Obeys(w) /\ ~m_maint_proc  -> "barrier_pause")
    /\ UNCHANGED <<flags, counts, m_pause_lock, gs, st, is_master, thread, caller, woken, history>>

\* s_worker_f_m_t and the like: the fetch, main and throw procedures, the first
\* result that is not positive ending the round; a negative one ends the loop.
Work(w) ==
    /\ wpc[w] = "work"
    /\ \E r \in {0, 1} \cup (IF WorkersFail THEN {-1} ELSE {}) :
          /\ st' = [st EXCEPT ![w] = r]
          /\ WAt(w, IF r < 0 THEN "ending" ELSE "loop")
    /\ UNCHANGED <<flags, counts, m_pause_lock, gs, is_master, thread, caller, woken, history>>

\* Mutant: the barrier counts one worker too few.
BarrierFull_OneLess == Cardinality(Barrier) >= N - 1 /\ Barrier # {}

BarrierFull == Barrier = Workers

\* gallus_barrier_wait: all of them go on, one of them as the master.
BarrierOpens ==
    /\ BarrierFull
    /\ \E m \in Barrier : is_master' = [w \in Workers |-> w = m]
    /\ wpc' = [w \in Workers |-> CASE wpc[w] = "barrier_pause" -> "passed_pause"
                                   [] wpc[w] = "barrier_maint" -> "passed_maint"
                                   [] OTHER                    -> wpc[w]]
    /\ UNCHANGED <<flags, counts, m_pause_lock, gs, st, thread, caller, woken, history>>

\* s_worker_pause, under m_pause_lock.  The master tells the pauser; everybody
\* sleeps as long as the pause is requested.
PauseSleeps(w) ==
    /\ \/ wpc[w] = "passed_pause"
       \/ wpc[w] = "resume_sleep" /\ w \in woken
    /\ m_pause_lock = Nobody
    /\ IF wpc[w] = "passed_pause" /\ is_master[w]
       THEN /\ m_status' = "PAUSED"
            /\ woken' = (woken \cup PauseCond) \ {w}
       ELSE /\ UNCHANGED m_status
            /\ woken' = woken \ {w}
    /\ WAt(w, IF m_pause_requested THEN "resume_sleep" ELSE "loop")
    /\ UNCHANGED <<m_do_loop, m_sg_lvl, m_pause_requested, m_maint_proc, counts, m_pause_lock, gs,
                   st, is_master, thread, caller, history>>

\* s_worker_maintenance: the master locks m_pause_lock and calls the procedure.
MaintenanceBegins(w) ==
    /\ wpc[w] = "passed_maint"
    /\ is_master[w]
    /\ m_pause_lock = Nobody
    /\ m_pause_lock' = w
    /\ WAt(w, "maintaining")
    /\ n_maintained' = n_maintained + 1
    /\ UNCHANGED <<flags, counts, gs, st, is_master, thread, caller, woken,
                   n_requests, destroyed, fatal, style>>

\* Mutant: the procedure is not forgotten.
MaintenanceEnds_Keep(w) ==
    /\ wpc[w] = "maintaining"
    /\ m_pause_requested' = FALSE
    /\ m_status' = "STARTED"
    /\ woken' = woken \cup PauseCond
    /\ m_pause_lock' = Nobody
    /\ WAt(w, "loop")
    /\ UNCHANGED <<m_maint_proc, m_do_loop, m_sg_lvl, counts, gs, st, is_master, thread, caller,
                   history>>

MaintenanceEnds(w) ==
    /\ wpc[w] = "maintaining"
    /\ m_maint_proc' = FALSE
    /\ m_pause_requested' = FALSE
    /\ m_status' = "STARTED"
    /\ woken' = woken \cup PauseCond
    /\ m_pause_lock' = Nobody
    /\ WAt(w, "loop")
    /\ UNCHANGED <<m_do_loop, m_sg_lvl, counts, gs, st, is_master, thread, caller, history>>

\* The other workers sleep until the stage is back.
MaintenanceSleeps(w) ==
    /\ \/ wpc[w] = "passed_maint" /\ ~is_master[w]
       \/ wpc[w] = "maint_sleep" /\ w \in woken
    /\ m_pause_lock = Nobody
    /\ WAt(w, IF m_status = "STARTED" THEN "loop" ELSE "maint_sleep")
    /\ woken' = woken \ {w}
    /\ UNCHANGED <<flags, counts, m_pause_lock, gs, st, is_master, thread, caller, history>>

\* The cancellation strikes: in global_state_wait_for, in the user's procedures
\* if they have cancellation points, or in gallus_cond_wait, which locks
\* m_pause_lock again first.
CancelStrikes(w) ==
    /\ requested[w]
    /\ \/ wpc[w] \in {"gala", "work", "maintaining"} /\ UNCHANGED m_pause_lock
       \/ /\ wpc[w] \in {"resume_sleep", "maint_sleep"}
          /\ m_pause_lock = Nobody
          /\ m_pause_lock' = w
    /\ canceled' = [canceled EXCEPT ![w] = TRUE]
    /\ woken' = woken \ {w}
    /\ WAt(w, "ending")
    /\ UNCHANGED <<flags, counts, gs, st, is_master, requested, caller, history>>

\* Mutant: a cancelled worker is not counted as ended.
CountEnd_NotCanceled(w) ==
    /\ m_n_canceled_workers' = m_n_canceled_workers + (IF canceled[w] THEN 1 ELSE 0)
    /\ m_n_shutdown_workers' = m_n_shutdown_workers + (IF canceled[w] THEN 0 ELSE 1)

CountEnd(w) ==
    /\ m_n_canceled_workers' = m_n_canceled_workers + (IF canceled[w] THEN 1 ELSE 0)
    /\ m_n_shutdown_workers' = m_n_shutdown_workers + 1

\* s_worker_finalize.  A cancelled worker unlocks m_pause_lock, whoever holds it.
Finalize(w) ==
    /\ wpc[w] = "ending"
    /\ CountEnd(w)
    /\ m_pause_lock' = IF canceled[w] THEN Nobody ELSE m_pause_lock
    /\ WAt(w, "ended")
    /\ UNCHANGED <<flags, gs, st, is_master, thread, caller, woken, history>>

-----------------------------------------------------------------------------
(* The calls: setup and start.                                             *)

\* gallus_pipeline_stage_setup, with a setup procedure that succeeds; else it
\* leaves the stage as it is.
Setup(t) ==
    /\ Free(t)
    /\ m_status = "INITIALIZED"
    /\ m_status' = "SETUP"
    /\ Returns(t)
    /\ UNCHANGED <<m_do_loop, m_sg_lvl, m_pause_requested, m_maint_proc, counts, m_pause_lock, gs,
                   wpc, st, is_master, thread, woken, history>>

\* gallus_pipeline_stage_start begins.
Start(t) ==
    /\ Free(t)
    /\ m_status \in {"INITIALIZED", "SETUP", "FINALIZED"}
    /\ m_maint_proc' = FALSE
    /\ m_n_canceled_workers' = 0
    /\ m_n_shutdown_workers' = 0
    /\ m_do_loop' = TRUE
    /\ GoesOn(t, "starting", [op |-> "start", timed |-> FALSE, i |-> 1])
    /\ UNCHANGED <<m_status, m_sg_lvl, m_pause_requested, m_pause_lock, gs, wpc, st, is_master,
                   thread, woken, history>>

\* pthread_cancel of the threads that are there.
CancelWorkers(ws) == requested' = [w \in Workers |-> requested[w] \/ (w \in ws /\ Alive(w))]

\* Mutant: the loops are left to end by the cancellation alone.
s_cancel_stage_Only(ws) == CancelWorkers(ws) /\ m_sg_lvl' = "RIGHT_NOW" /\ UNCHANGED m_do_loop

\* Cancel, and mimic an immediate shutdown for workers that ignore it.
s_cancel_stage(ws) == CancelWorkers(ws) /\ m_sg_lvl' = "RIGHT_NOW" /\ m_do_loop' = FALSE

\* s_worker_start of the next worker, up to the acknowledgement of the new
\* thread; with the last one the stage is started.
StartWorker(t) ==
    LET i == call[t].i IN
    /\ tpc[t] = "starting"
    /\ WAt(i, "gala")
    /\ requested' = [requested EXCEPT ![i] = FALSE]
    /\ canceled' = [canceled EXCEPT ![i] = FALSE]
    /\ IF i = N
       THEN m_status' = "STARTED" /\ Returns(t)
       ELSE GoesOn(t, "starting", [call[t] EXCEPT !.i = i + 1]) /\ UNCHANGED m_status
    /\ UNCHANGED <<m_do_loop, m_sg_lvl, m_pause_requested, m_maint_proc, counts, m_pause_lock, gs,
                   st, is_master, woken, history>>

\* It fails: the workers up to this one are cancelled, and waited for.
StartFailed(t) ==
    /\ StartFails
    /\ tpc[t] = "starting"
    /\ s_cancel_stage(1 .. call[t].i)
    /\ GoesOn(t, "undoing", call[t])
    /\ UNCHANGED <<m_status, m_pause_requested, m_maint_proc, counts, m_pause_lock, gs, wpc, st,
                   is_master, canceled, woken, history>>

StartUndone(t) ==
    /\ tpc[t] = "undoing"
    /\ \A w \in Workers : ~Alive(w)
    /\ m_n_canceled_workers' = 0
    /\ m_n_shutdown_workers' = 0
    /\ Returns(t)
    /\ UNCHANGED <<flags, m_pause_lock, gs, wpc, st, is_master, thread, woken, history>>

-----------------------------------------------------------------------------
(* Cancel and shutdown.                                                    *)

Cancel(t) ==
    /\ Free(t)
    /\ m_status = "STARTED"
    /\ s_cancel_stage(Workers)
    /\ Returns(t)
    /\ UNCHANGED <<m_status, m_pause_requested, m_maint_proc, counts, m_pause_lock, gs, wpc, st,
                   is_master, canceled, woken, history>>

\* Under m_pause_lock, the request is withdrawn and the workers are told.
s_resume_stage ==
    /\ m_pause_lock = Nobody
    /\ m_pause_requested' = FALSE
    /\ woken' = woken \cup ResumeCond

\* A paused stage is resumed first.
Shutdown(t, lvl) ==
    /\ Free(t)
    /\ m_status \in {"STARTED", "PAUSED"}
    /\ IF m_status = "PAUSED" THEN s_resume_stage ELSE UNCHANGED <<m_pause_requested, woken>>
    /\ m_status' = "STARTED"
    /\ IF lvl = "RIGHT_NOW"
       THEN s_cancel_stage(Workers)
       ELSE m_sg_lvl' = lvl /\ UNCHANGED <<m_do_loop, requested>>
    /\ Returns(t)
    /\ UNCHANGED <<m_maint_proc, counts, m_pause_lock, gs, wpc, st, is_master, canceled, history>>

-----------------------------------------------------------------------------
(* Pause, resume and maintenance.                                          *)

\* The first part of a pause, up to m_pre_pause_proc.
Pause(t, timed) ==
    /\ Free(t)
    /\ m_status = "STARTED"
    /\ n_requests < MaxRequests
    /\ (IF timed THEN "pause_timed" ELSE "pause") \in style
    /\ m_pause_lock = Nobody
    /\ m_pause_lock' = t
    /\ m_pause_requested' = TRUE
    /\ n_requests' = n_requests + 1
    /\ GoesOn(t, "pre_pause", [op |-> "pause", timed |-> timed, i |-> 0])
    /\ UNCHANGED <<m_status, m_do_loop, m_sg_lvl, m_maint_proc, counts, gs, wpc, st, is_master,
                   thread, woken, n_maintained, destroyed, fatal, style>>

\* The first part of gallus_pipeline_stage_schedule_maintenance.
Maintain(t) ==
    /\ Free(t)
    /\ m_status = "STARTED"
    /\ n_requests < MaxRequests
    /\ "maintenance" \in style
    /\ m_pause_lock = Nobody
    /\ m_pause_lock' = t
    /\ m_status' = "MAINTENANCE_REQUESTED"
    /\ m_maint_proc' = TRUE
    /\ m_pause_requested' = TRUE
    /\ n_requests' = n_requests + 1
    /\ n_maintained' = 0
    /\ GoesOn(t, "pre_pause", [op |-> "maintenance", timed |-> FALSE, i |-> 0])
    /\ UNCHANGED <<m_do_loop, m_sg_lvl, counts, gs, wpc, st, is_master, thread, woken, destroyed,
                   fatal, style>>

\* The label recheck of both: is the stage where the caller wants it?
MustSleep(op) == IF op = "pause" THEN m_status # "PAUSED" ELSE m_status = "MAINTENANCE_REQUESTED"
RequestMet(op) == op = "pause" \/ m_status = "STARTED"

RequestChecks(t) ==
    LET op == call[t].op IN
    /\ \/ tpc[t] = "pre_pause"
       \/ tpc[t] = "pause_sleep" /\ t \in woken /\ m_pause_lock = Nobody
    /\ m_pause_lock' = Nobody
    /\ woken' = woken \ {t}
    /\ IF MustSleep(op)
       THEN GoesOn(t, "pause_sleep", call[t]) /\ UNCHANGED <<m_pause_requested, m_maint_proc>>
       ELSE /\ Returns(t)
            /\ IF RequestMet(op) THEN UNCHANGED <<m_pause_requested, m_maint_proc>>
               ELSE m_pause_requested' = FALSE /\ m_maint_proc' = FALSE
    /\ UNCHANGED <<m_status, m_do_loop, m_sg_lvl, counts, gs, wpc, st, is_master, thread, history>>

\* The pause times out; the request stays.
PauseTimesOut(t) ==
    /\ tpc[t] = "pause_sleep"
    /\ call[t].timed
    /\ m_pause_lock = Nobody
    /\ woken' = woken \ {t}
    /\ Returns(t)
    /\ UNCHANGED <<flags, counts, m_pause_lock, gs, wpc, st, is_master, thread, history>>

Resume(t) ==
    /\ Free(t)
    /\ m_status = "PAUSED"
    /\ s_resume_stage
    /\ m_status' = "STARTED"
    /\ Returns(t)
    /\ UNCHANGED <<m_do_loop, m_sg_lvl, m_maint_proc, counts, m_pause_lock, gs, wpc, st, is_master,
                   thread, history>>

-----------------------------------------------------------------------------
(* Wait and destroy.                                                       *)

Wait(t, limit) ==
    /\ Free(t)
    /\ m_status = "STARTED"
    /\ GoesOn(t, "waiting", [op |-> "wait", timed |-> limit = "timed", i |-> 1])
    /\ UNCHANGED <<flags, counts, m_pause_lock, gs, wpc, st, is_master, thread, woken, history>>

\* s_wait_stage, one worker: it has ended.  A timed wait goes on with the time
\* that this one took, and with none if the clock showed none.
WaitOne(t) ==
    LET i == call[t].i IN
    /\ tpc[t] = "waiting"
    /\ i <= N
    /\ ~Alive(i)
    /\ \E next \in {i + 1} \cup (IF call[t].timed /\ ClockStands THEN {N + 1} ELSE {}) :
          GoesOn(t, "waiting", [call[t] EXCEPT !.i = next])
    /\ UNCHANGED <<flags, counts, m_pause_lock, gs, wpc, st, is_master, thread, woken, history>>

WaitTimesOut(t) ==
    /\ tpc[t] = "waiting"
    /\ call[t].timed
    /\ call[t].i <= N
    /\ Alive(call[t].i)
    /\ Returns(t)
    /\ UNCHANGED <<flags, counts, m_pause_lock, gs, wpc, st, is_master, thread, woken, history>>

\* All were waited for: the stage is over, or the program ends.
WaitEnds(t) ==
    /\ tpc[t] = "waiting"
    /\ call[t].i > N
    /\ ~fatal
    /\ IF m_n_shutdown_workers = N
       THEN /\ m_status' = IF m_n_canceled_workers > 0 THEN "CANCELED" ELSE "SHUTDOWN"
            /\ m_do_loop' = FALSE
            /\ Returns(t)
            /\ UNCHANGED fatal
       ELSE fatal' = TRUE /\ UNCHANGED <<m_status, m_do_loop, caller>>
    /\ UNCHANGED <<m_sg_lvl, m_pause_requested, m_maint_proc, counts, m_pause_lock, gs, wpc, st,
                   is_master, thread, woken, n_maintained, n_requests, destroyed, style>>

\* gallus_pipeline_stage_destroy, when nobody else is inside a call.
Destroy(t) ==
    /\ Free(t)
    /\ \A u \in Callers : tpc[u] = "idle"
    /\ m_status' = "DESTROYING"
    /\ s_cancel_stage(Workers)
    /\ GoesOn(t, "destroying", [op |-> "destroy", timed |-> FALSE, i |-> 0])
    /\ UNCHANGED <<m_pause_requested, m_maint_proc, counts, m_pause_lock, gs, wpc, st, is_master,
                   canceled, woken, history>>

AllLeft == \A w \in Workers : ~Alive(w)

Destroyed(t) ==
    /\ tpc[t] = "destroying"
    /\ AllLeft
    /\ destroyed' = TRUE
    /\ Returns(t)
    /\ UNCHANGED <<flags, counts, m_pause_lock, gs, wpc, st, is_master, thread, woken, n_maintained,
                   n_requests, fatal, style>>

-----------------------------------------------------------------------------
\* A caller that sleeps is cancelled, and its cleanup handler calls
\* gallus_pipeline_stage_cancel_janitor, which unlocks both locks.
CallerCanceled(t) ==
    /\ "cancel_caller" \in style
    /\ \/ tpc[t] = "pause_sleep" /\ m_pause_lock = Nobody
       \/ tpc[t] = "waiting"
    /\ m_pause_lock' = Nobody
    /\ woken' = woken \ {t}
    /\ Returns(t)
    /\ UNCHANGED <<flags, counts, gs, wpc, st, is_master, thread, history>>

\* The main loop sets the global state.
SetGlobalState ==
    /\ \/ gs = "starting" /\ gs' \in {"started", "shutdown"}
       \/ gs = "started" /\ gs' = "shutdown"
    /\ UNCHANGED <<flags, counts, m_pause_lock, wpc, st, is_master, thread, caller, woken, history>>

WorkerRuns(w) ==
    \/ GalaOpens(w) \/ Loop(w) \/ Test(w) \/ Work(w)
    \/ PauseSleeps(w) \/ MaintenanceBegins(w) \/ MaintenanceEnds(w) \/ MaintenanceSleeps(w)
    \/ Finalize(w)

CallerRuns(t) ==
    \/ StartWorker(t) \/ StartUndone(t) \/ RequestChecks(t) \/ WaitOne(t) \/ WaitEnds(t)
    \/ Destroyed(t)

Calls(t) ==
    \/ Setup(t) \/ Start(t) \/ Cancel(t)
    \/ \E lvl \in {"RIGHT_NOW", "GRACEFULLY"} : Shutdown(t, lvl)
    \/ \E timed \in BOOLEAN : Pause(t, timed)
    \/ Maintain(t) \/ Resume(t)
    \/ \E limit \in WaitLimits : Wait(t, limit)
    \/ Destroy(t)

Next ==
    \/ \E w \in Workers : WorkerRuns(w) \/ CancelStrikes(w)
    \/ BarrierOpens
    \/ \E t \in Callers : \/ CallerRuns(t) \/ Calls(t)
                          \/ StartFailed(t) \/ PauseTimesOut(t) \/ WaitTimesOut(t)
                          \/ CallerCanceled(t)
    \/ SetGlobalState

Spec == Init /\ [][Next]_vars

\* The threads are scheduled, the locks are fair, the user's procedures return,
\* and a thread that sleeps in a cancellation point is cancelled when asked to.
\* Nothing makes the application start, or a caller call.
FairSpec ==
    /\ Spec
    /\ \A w \in Workers : /\ WF_vars(WorkerRuns(w))
                          /\ WF_vars(CancelStrikes(w) /\ wpc[w] \notin {"work", "maintaining"})
    /\ WF_vars(BarrierOpens)
    /\ \A t \in Callers : WF_vars(CallerRuns(t))

-----------------------------------------------------------------------------
(* Properties.                                                             *)

WorkerPlaces == {"unborn", "gala", "loop", "test", "work", "barrier_pause", "barrier_maint",
                 "passed_pause", "passed_maint", "resume_sleep", "maintaining", "maint_sleep",
                 "ending", "ended"}
CallerPlaces == {"idle", "starting", "undoing", "pre_pause", "pause_sleep", "waiting",
                 "destroying"}

\* The types of the variables of a stage, its workers and its callers.
TypeOK ==
    /\ m_status \in {"INITIALIZED", "SETUP", "STARTED", "PAUSED", "MAINTENANCE_REQUESTED",
                     "CANCELED", "SHUTDOWN", "DESTROYING"}
    /\ m_sg_lvl \in {"UNKNOWN", "RIGHT_NOW", "GRACEFULLY"}
    /\ {m_do_loop, m_pause_requested, m_maint_proc, destroyed, fatal} \subseteq BOOLEAN
    /\ {m_n_canceled_workers, m_n_shutdown_workers} \subseteq 0 .. N
    /\ m_lock \in Callers \cup {Nobody}
    /\ m_pause_lock \in Threads \cup {Nobody}
    /\ gs \in {"starting", "started", "shutdown"}
    /\ wpc \in [Workers -> WorkerPlaces]
    /\ st \in [Workers -> {-1, 0, 1}]
    /\ {is_master, requested, canceled} \subseteq [Workers -> BOOLEAN]
    /\ tpc \in [Callers -> CallerPlaces]
    /\ call \in [Callers -> [op : {"none", "start", "pause", "maintenance", "wait", "destroy"},
                             timed : BOOLEAN, i : 0 .. N + 1]]
    /\ woken \subseteq Threads
    /\ n_maintained \in Nat
    /\ n_requests \in 0 .. MaxRequests
    /\ style \in Styles

\* While a stage says that it is paused no worker handles an event, whatever
\* the workers were doing when the pause was requested, and also when the pause
\* has timed out for its caller and takes effect later (s_worker_pause).
PausedIsIdle == m_status = "PAUSED" => \A w \in Workers : wpc[w] # "work"

\* The maintenance procedure runs while no worker handles events, and only once
\* for a request (s_worker_maintenance).
MaintenanceAlone ==
    /\ n_maintained <= 1
    /\ \A w \in Workers : wpc[w] = "maintaining" =>
          \A v \in Workers \ {w} : wpc[v] \notin {"work", "maintaining"}

\* The two above: whoever pauses a stage or maintains it finds nobody at work.
WorkersIdle == PausedIsIdle /\ MaintenanceAlone

\* The users are told that the stage is over.
Over == destroyed \/ m_status \in {"SHUTDOWN", "CANCELED"}

\* A stage that says it is shut down or cancelled, or is destroyed, has no
\* worker left, and it is cancelled exactly if one of them was
\* (gallus_pipeline_stage_wait, s_destroy_stage).
FinalAfterAll ==
    /\ Over => \A w \in Workers : ~Alive(w)
    /\ m_status = "CANCELED" => \E w \in Workers : canceled[w]
    /\ m_status = "SHUTDOWN" => \A w \in Workers : ~canceled[w]

\* The message "must not happen, waiting for all the worker exit succeeded but
\* the number of the exited workers ... differ" of gallus_pipeline_stage_wait is
\* not reached: the counts that the dying workers write agree with the waits.
NeverFatal == ~fatal

\* The two above: the end of a stage is that of its workers, and they are counted right.
EndsAgree == FinalAfterAll /\ NeverFatal

SomeAlive == \E w \in Workers : Alive(w)
Closing == m_status = "DESTROYING" \/ \E t \in Callers : tpc[t] = "destroying"
Open == ~Over /\ ~Closing
phase ==
    CASE Over              -> "over"
      [] ~Over /\ Closing  -> IF SomeAlive THEN "closing" ELSE "over"
      [] Open /\ m_status \in {"STARTED", "MAINTENANCE_REQUESTED"} -> "running"
      [] Open /\ m_status = "PAUSED"                               -> "paused"
      [] Open /\ m_status \in {"INITIALIZED", "SETUP"}             -> "stopped"

\* The abstract stage, whose workers are busy while they run the procedures.
Abstract == INSTANCE Stage WITH phase <- phase, busy <- {w \in Workers : wpc[w] = "work"}

\* Locks, flags, the barrier and the conditions implement the abstract stage.
ImplementsStage == Abstract!Spec

InPause(t) == tpc[t] \in {"pre_pause", "pause_sleep"}
InTheLoop(w) == wpc[w] \notin {"unborn", "gala", "ending", "ended"}

\* A first pause or maintenance comes to its end if no worker leaves its loop or
\* is yet to enter it: nobody misses the barrier and no wakeup is lost between
\* the master and the caller (gallus_pipeline_stage_pause, s_worker_pause).
PauseEnds ==
    \A t \in Callers :
        (InPause(t) /\ n_requests = 1) ~> (~InPause(t) \/ \E w \in Workers : ~InTheLoop(w))

\* The same for every pause, as the comment in gallus_pipeline_stage_pause has it: "Then
\* all the workers enter the barrier ... a worker sets the ps->m_status to
\* STAGE_STATE_PAUSED and wakes this thread up".  False of the code, and in no run.
EveryPauseEnds ==
    \A t \in Callers : InPause(t) ~> (~InPause(t) \/ \E w \in Workers : ~InTheLoop(w))

\* A worker that sleeps through a pause wakes up when the pause is over
\* (s_resume_stage).
SleepersResume ==
    \A w \in Workers :
        (wpc[w] = "resume_sleep" /\ ~m_pause_requested)
            ~> (wpc[w] # "resume_sleep" \/ m_pause_requested)

\* A first pause begins, and every pause that is over ends for its sleepers.
PausesEnd == PauseEnds /\ SleepersResume

\* A worker that a shutdown, a cancellation or a destruction wants to end does,
\* also when its procedures have no cancellation point and always have more
\* work, unless a pause comes between (s_cancel_stage, WORKER_LOOP).
EndsRightNow == \A w \in Workers : requested[w] ~> (~Alive(w) \/ m_pause_requested)

\* The comment in gallus_mutex_unlock: "The caller must have this mutex locked."  False
\* of the code, and in no run.
UnlocksOwn ==
    \A w \in Workers : (wpc[w] = "ending" /\ canceled[w]) => m_pause_lock = w
=============================================================================
