------------------------------- MODULE Thread -------------------------------
(***************************************************************************)
(* One thread object of src/framework/lib/thread.c: the threads that start,*)
(* cancel, wait for and destroy it, and the pthreads it spawns, one for    *)
(* each successful start.                                                  *)
(*                                                                         *)
(* What is done under m_wait_lock is one step, up to the unlock or to      *)
(* gallus_cond_wait; m_op_lock and m_cancel_lock are only taken for single *)
(* assignments.  m_finalize_lock is held across steps and is a variable.   *)
(* The main procedure has cancellation points, as the library's have.      *)
(***************************************************************************)
EXTENDS Results, FiniteSetsExt

CONSTANTS
    Callers,      \* threads that use the object
    Starters,     \* those of them that call gallus_thread_start
    Children,     \* bound: the pthreads that can be created
    Nobody,       \* no thread
    Cpus,         \* the CPUs, numbered
    Singles,      \* those that gallus_thread_set_cpu_affinity is called with
    Nodes,        \* the NUMA nodes, as sets of CPUs; all the CPUs are one of them
    CreateFails,  \* the autodelete arguments with which pthread_create may fail
    Spurious      \* threads that may wake up although nobody notified

Threads == Callers \cup Children

ASSUME ThreadAssumption ==
    /\ Starters \subseteq Callers
    /\ Callers \cap Children = {}
    /\ Nobody \notin Threads
    /\ Singles \subseteq Cpus
    /\ Cpus # {} /\ Cpus \in Nodes /\ Nodes \subseteq SUBSET Cpus
    /\ CreateFails \subseteq BOOLEAN
    /\ Spurious \subseteq Threads

VARIABLES
    m_is_activated, m_is_started, m_is_canceled, m_startup_sync_done,
    m_n_finalized_count, m_do_autodelete, m_pthd, m_result_code,
    m_finalize_lock,
    m_cpuset,     \* *m_cpusetptr, the CPUs the thread is to run on
    affinity,     \* the CPUs the system lets the thread m_pthd run on, if there is one
    late,         \* m_cpuset changed between the creation of the thread and its first step
    destroyed,    \* s_destroy has torn the object down
    pc,           \* where a thread is, inside the library
    call,         \* the call a thread is in, and its time limit
    woken,        \* why its gallus_cond_wait is about to return
    ret,          \* the result a call returns, or is about to return
    requested,    \* pthread_cancel was called for the child
    canceled,     \* the child ended by the cancellation
    finals,       \* how often m_final_proc was called by the child
    awaited       \* the child that ran when a thread began to wait

flags == <<m_is_activated, m_is_started, m_is_canceled, m_startup_sync_done,
           m_n_finalized_count, m_do_autodelete, m_pthd, m_result_code>>
affinities == <<m_cpuset, affinity, late>>
history == <<canceled, finals>>
object == <<flags, affinities, m_finalize_lock, destroyed>>
vars == <<object, pc, call, woken, ret, requested, history, awaited>>

NoCall == [op |-> "none", timed |-> FALSE]

\* s_initialize.
InitObject ==
    /\ m_is_activated = FALSE
    /\ m_is_started = FALSE
    /\ m_is_canceled = FALSE
    /\ m_startup_sync_done = FALSE
    /\ m_n_finalized_count = 0
    /\ m_do_autodelete = FALSE
    /\ m_pthd = Nobody
    /\ m_result_code = NOT_STARTED
    /\ m_finalize_lock = Nobody
    /\ m_cpuset = Cpus

\* gallus_thread_create: the object is there, and no thread.
Init ==
    /\ InitObject
    /\ affinity = Cpus
    /\ late = FALSE
    /\ destroyed = FALSE
    /\ pc = [p \in Threads |-> IF p \in Callers THEN "idle" ELSE "unborn"]
    /\ call = [p \in Threads |-> NoCall]
    /\ woken = [p \in Threads |-> "no"]
    /\ ret = [p \in Threads |-> NoResult]
    /\ requested = [c \in Children |-> FALSE]
    /\ canceled = [c \in Children |-> FALSE]
    /\ finals = [c \in Children |-> 0]
    /\ awaited = [p \in Threads |-> Nobody]

-----------------------------------------------------------------------------
\* The condition variables, by the places where threads sleep on them.
StartupCond == {"start_sleep", "sync_sleep"}
WaitCond == {"wait_sleep"}
FinalizeCond == {"final_sleep"}

Asleep(p) == pc[p] \in StartupCond \cup WaitCond \cup FinalizeCond /\ woken[p] = "no"

\* gallus_cond_notify(cond, true), called by p.
NotifyFrom(p, cond) ==
    [q \in Threads |-> IF q = p THEN "no"
                       ELSE IF pc[q] \in cond /\ woken[q] = "no" THEN "ok" ELSE woken[q]]

At(p, place) == pc' = [pc EXCEPT ![p] = place]
Awake(p) == woken' = [woken EXCEPT ![p] = "no"]

\* p's call returns; what it returned is not kept.
Returns(p) ==
    /\ ret' = [ret EXCEPT ![p] = NoResult]
    /\ call' = [call EXCEPT ![p] = NoCall]
    /\ At(p, IF p \in Callers THEN "idle" ELSE "gone")

\* What a caller owes the object: nothing is called once it is, or is being,
\* destroyed, or will be by the thread itself.
Usable ==
    /\ ~destroyed
    /\ \A p \in Threads : call[p].op \notin {"autodelete", "destroy"}
    /\ m_do_autodelete => \A c \in Children : pc[c] \in {"unborn", "finalized", "gone"}
Free(t) == pc[t] = "idle" /\ Usable

-----------------------------------------------------------------------------
(* gallus_thread_start.                                                    *)

\* Only an object without an active thread is started.
CanStart == ~m_is_activated

\* Mutant: the finalizations of the previous run stay counted.
ResetFlags_KeepCount ==
    /\ m_is_canceled' = FALSE
    /\ m_is_started' = FALSE
    /\ m_startup_sync_done' = FALSE
    /\ UNCHANGED m_n_finalized_count

ResetFlags ==
    /\ m_is_canceled' = FALSE
    /\ m_is_started' = FALSE
    /\ m_startup_sync_done' = FALSE
    /\ m_n_finalized_count' = 0

\* pthread_setaffinity_np for the new thread, which the system refuses for no CPU;
\* that is only logged.
AffinityAtStart ==
    /\ affinity' = IF m_cpuset = {} THEN Cpus ELSE m_cpuset
    /\ late' = FALSE

\* pthread_create succeeds, the flags are reset, and the starter waits for the
\* child.  (With autodelete nobody else may be inside a call.)
Start(t, autodelete) ==
    /\ Free(t)
    /\ CanStart
    /\ autodelete => \A u \in Callers : pc[u] = "idle"
    /\ \E c \in Children :
          /\ pc[c] = "unborn"
          /\ pc' = [pc EXCEPT ![t] = "start_sleep", ![c] = "entry"]
          /\ m_pthd' = c
    /\ call' = [call EXCEPT ![t] = [op |-> "start", timed |-> FALSE]]
    /\ m_do_autodelete' = autodelete
    /\ ResetFlags
    /\ AffinityAtStart
    /\ UNCHANGED <<m_is_activated, m_cpuset, m_result_code, m_finalize_lock, destroyed, woken, ret,
                   requested, history, awaited>>

\* There is a thread (GALLUS_RESULT_ALREADY_EXISTS), or pthread_create fails
\* (GALLUS_RESULT_POSIX_API_ERROR).
StartRefused(t, autodelete) ==
    /\ Free(t)
    /\ \/ ~CanStart /\ Returns(t) /\ UNCHANGED <<m_do_autodelete, m_pthd>>
       \/ /\ CanStart
          /\ autodelete \in CreateFails
          /\ m_do_autodelete' = autodelete
          /\ m_pthd' = Nobody
          /\ Returns(t)
    /\ UNCHANGED <<affinities, m_is_activated, m_is_started, m_is_canceled, m_startup_sync_done,
                   m_n_finalized_count, m_result_code, m_finalize_lock, destroyed, woken,
                   requested, history, awaited>>

\* Mutant: the child is not notified of the acknowledgement.
Acknowledge_Silent(t) == m_startup_sync_done' = TRUE /\ Awake(t)

Acknowledge(t) == m_startup_sync_done' = TRUE /\ woken' = NotifyFrom(t, StartupCond)

\* The label startcheck: wait on, or acknowledge the start.
StartResumes(t) ==
    /\ pc[t] = "start_sleep"
    /\ woken[t] = "ok"
    /\ IF m_is_started
       THEN Acknowledge(t) /\ Returns(t)
       ELSE /\ Awake(t)
            /\ UNCHANGED <<m_startup_sync_done, pc, call, ret>>
    /\ UNCHANGED <<affinities, m_is_activated, m_is_started, m_is_canceled, m_n_finalized_count,
                   m_do_autodelete, m_pthd, m_result_code, m_finalize_lock, destroyed, requested,
                   history, awaited>>

-----------------------------------------------------------------------------
(* The child: s_pthd_entry_point.                                          *)

\* Mutant: the child does not wait for the acknowledgement.
AfterEntry_Hasty == "main"

\* Where the child goes on once it has told that it runs.
AfterEntry == IF m_startup_sync_done THEN "main" ELSE "sync_sleep"

\* The child tells that it started, and waits for the acknowledgement.
ChildEnters(c) ==
    /\ pc[c] = "entry"
    /\ m_is_canceled' = FALSE
    /\ m_is_activated' = TRUE
    /\ m_is_started' = TRUE
    /\ woken' = NotifyFrom(c, StartupCond)
    /\ At(c, AfterEntry)
    /\ UNCHANGED <<affinities, m_startup_sync_done, m_n_finalized_count, m_do_autodelete, m_pthd,
                   m_result_code, m_finalize_lock, destroyed, call, ret, requested, history,
                   awaited>>

\* The label sync_done_check.
ChildSynced(c) ==
    /\ pc[c] = "sync_sleep"
    /\ woken[c] = "ok"
    /\ Awake(c)
    /\ IF m_startup_sync_done THEN At(c, "main") ELSE UNCHANGED pc
    /\ UNCHANGED <<object, call, ret, requested, history, awaited>>

\* m_main_proc returns, and the cancellation is disabled before it strikes.
MainReturns(c) ==
    /\ pc[c] = "main"
    /\ At(c, "ended")
    /\ UNCHANGED <<object, call, woken, ret, requested, history,
                   awaited>>

\* The cancellation strikes, in m_main_proc or just before it: s_pthd_cancel_handler.
MainCanceled(c) ==
    /\ pc[c] = "main"
    /\ requested[c]
    /\ At(c, "ended")
    /\ canceled' = [canceled EXCEPT ![c] = TRUE]
    /\ UNCHANGED <<object, call, woken, ret, requested, finals, awaited>>

-----------------------------------------------------------------------------
(* s_finalize.                                                             *)

\* m_finalize_lock is taken, and how the thread ended is noted.
FinalizeBegins(c) ==
    /\ pc[c] = "ended"
    /\ m_finalize_lock = Nobody
    /\ m_finalize_lock' = c
    /\ m_is_canceled' = canceled[c]
    /\ m_result_code' = IF canceled[c] THEN INTERRUPTED ELSE OK
    /\ At(c, "finalizing")
    /\ UNCHANGED <<affinities, m_is_activated, m_is_started, m_startup_sync_done, m_n_finalized_count,
                   m_do_autodelete, m_pthd, destroyed, call, woken, ret, requested, history,
                   awaited>>

\* Mutant: the id of the ended thread stays.
EndActivity_KeepId ==
    /\ m_is_activated' = FALSE
    /\ m_n_finalized_count' = m_n_finalized_count + 1
    /\ UNCHANGED m_pthd

EndActivity ==
    /\ m_pthd' = Nobody
    /\ m_is_activated' = FALSE
    /\ m_n_finalized_count' = m_n_finalized_count + 1

\* The section under m_wait_lock: the final procedure, unless another thread of
\* the object was there before, and the end of the activity.
FinalizeRuns(c) ==
    /\ pc[c] = "finalizing"
    /\ finals' = [finals EXCEPT ![c] = @ + (IF m_n_finalized_count = 0 THEN 1 ELSE 0)]
    /\ EndActivity
    /\ affinity' = Cpus
    /\ late' = FALSE
    /\ woken' = NotifyFrom(c, WaitCond)
    /\ call' = [call EXCEPT ![c] = IF m_do_autodelete
                                   THEN [op |-> "autodelete", timed |-> FALSE] ELSE NoCall]
    /\ At(c, "finalized")
    /\ UNCHANGED <<m_is_started, m_is_canceled, m_startup_sync_done, m_do_autodelete, m_result_code,
                   m_cpuset, m_finalize_lock, destroyed, ret, requested, canceled, awaited>>

\* The other waiters are told, m_finalize_lock is given back, and with autodelete
\* the thread goes on to gallus_thread_destroy.
FinalizeEnds(c) ==
    /\ pc[c] = "finalized"
    /\ woken' = NotifyFrom(c, FinalizeCond)
    /\ m_finalize_lock' = Nobody
    /\ IF call[c].op = "autodelete"
       THEN At(c, "destroy") /\ call' = [call EXCEPT ![c].op = "destroy"]
       ELSE At(c, "gone") /\ UNCHANGED call
    /\ UNCHANGED <<flags, affinities, destroyed, ret, requested, history, awaited>>

-----------------------------------------------------------------------------
(* gallus_thread_cancel.                                                   *)

\* pthread_cancel, under m_wait_lock, of a thread that is active.
Requests ==
    requested' = [c \in Children |-> \/ requested[c]
                                     \/ m_is_activated /\ ~m_is_canceled /\ m_pthd = c]

Cancel(t) ==
    /\ Free(t)
    /\ Requests
    /\ Returns(t)
    /\ UNCHANGED <<object, woken, history, awaited>>

-----------------------------------------------------------------------------
(* The CPUs of the thread, under m_wait_lock.                              *)

\* The m_cpuset the calls can ask for: a CPU more, none, the CPUs of a node, all.
CpuSets == {m_cpuset \cup {cpu} : cpu \in Singles} \cup {{}} \cup Nodes

\* Mutant: what is set while the thread runs waits for the next start.
Applies_NextStart == FALSE

\* There is a thread to tell the system about.
Applies == m_is_started /\ m_pthd # Nobody

\* gallus_thread_set_cpu_affinity, _set_numa_node_affinity, _set_cpu_affinity_any.
\* The system refuses to let a thread run nowhere.
SetAffinity(t, cpus) ==
    /\ Free(t)
    /\ m_cpuset' = cpus
    /\ IF Applies
       THEN /\ affinity' = IF cpus = {} THEN affinity ELSE cpus
            /\ late' = (late /\ cpus = {})
       ELSE /\ late' = (late \/ (~m_is_started /\ m_pthd # Nobody))
            /\ UNCHANGED affinity
    /\ UNCHANGED <<flags, m_finalize_lock, destroyed, pc, call, woken, ret, requested, history,
                   awaited>>

\* What gallus_thread_get_cpu_affinity returns.
GetAffinity ==
    CASE Applies                            -> Min(affinity)
      [] m_is_started /\ m_pthd = Nobody    -> ALREADY_HALTED
      [] ~m_is_started /\ m_cpuset = {}     -> NOT_DEFINED
      [] OTHER                              -> Min(m_cpuset)

-----------------------------------------------------------------------------
(* gallus_thread_wait, gallus_thread_get_result_code, gallus_thread_destroy.*)

\* A caller begins to wait for the result.
Wait(t, timed) ==
    /\ Free(t)
    /\ call' = [call EXCEPT ![t] = [op |-> "wait", timed |-> timed]]
    /\ At(t, "wait")
    /\ awaited' = [awaited EXCEPT ![t] = IF m_is_activated THEN m_pthd ELSE Nobody]
    /\ UNCHANGED <<object, woken, ret, requested, history>>

\* A caller begins to destroy the object, when no other uses it.
Destroy(t) ==
    /\ Free(t)
    /\ \A u \in Callers : pc[u] = "idle"
    /\ call' = [call EXCEPT ![t] = [op |-> "destroy", timed |-> FALSE]]
    /\ At(t, "destroy")
    /\ UNCHANGED <<object, woken, ret, requested, history, awaited>>

\* gallus_thread_destroy cancels first, then waits.
DestroyCancels(p) ==
    /\ pc[p] = "destroy"
    /\ Requests
    /\ At(p, "wait")
    /\ UNCHANGED <<object, call, woken, ret, history, awaited>>

\* The label waitcheck: sleep while the thread is active.
WaitChecks(p) ==
    \/ /\ pc[p] = "wait"
       /\ m_do_autodelete
       /\ At(p, "waited")
       /\ ret' = [ret EXCEPT ![p] = NOT_OPERATIONAL]
       /\ UNCHANGED <<object, call, woken, requested, history, awaited>>
    \/ /\ \/ pc[p] = "wait" /\ ~m_do_autodelete
          \/ pc[p] = "wait_sleep" /\ woken[p] = "ok"
       /\ Awake(p)
       /\ IF m_is_activated
          THEN At(p, "wait_sleep") /\ UNCHANGED ret
          ELSE At(p, "reads_started") /\ ret' = [ret EXCEPT ![p] = OK]
       /\ UNCHANGED <<object, call, requested, history, awaited>>
    \/ /\ pc[p] = "wait_sleep"
       /\ woken[p] = "timedout"
       /\ Awake(p)
       /\ At(p, "reads_started")
       /\ ret' = [ret EXCEPT ![p] = TIMEDOUT]
       /\ UNCHANGED <<object, call, requested, history, awaited>>

\* m_is_started is read with no lock held.
WaitReads(p) ==
    /\ pc[p] = "reads_started"
    /\ At(p, IF m_is_started THEN "locks" ELSE "waited")
    /\ UNCHANGED <<object, call, woken, ret, requested, history, awaited>>

\* The label finalcheck, under m_finalize_lock.  The second wait has the whole
\* time limit anew, and its result replaces that of the first.
WaitFinal(p) ==
    /\ m_finalize_lock = Nobody
    /\ \/ pc[p] = "locks"
       \/ pc[p] = "final_sleep" /\ woken[p] # "no"
    /\ Awake(p)
    /\ ret' = CASE pc[p] = "locks"         -> ret
                [] woken[p] = "timedout"   -> [ret EXCEPT ![p] = TIMEDOUT]
                [] OTHER                   -> [ret EXCEPT ![p] = OK]
    /\ At(p, IF m_n_finalized_count = 0 /\ woken[p] # "timedout" THEN "final_sleep" ELSE "waited")
    /\ UNCHANGED <<object, call, requested, history, awaited>>

\* The wait is over: the result code is read, or s_destroy tears the object down.
WaitEnds(p) ==
    /\ pc[p] = "waited"
    /\ Returns(p)
    /\ destroyed' = (destroyed \/ call[p].op = "destroy")
    /\ m_cpuset' = IF call[p].op = "destroy" THEN {} ELSE m_cpuset
    /\ awaited' = [awaited EXCEPT ![p] = Nobody]
    /\ UNCHANGED <<flags, affinity, late, m_finalize_lock, woken, requested, history>>

-----------------------------------------------------------------------------
(* pthread_cond_wait and pthread_cond_timedwait.                           *)

Expire(p) ==
    /\ Asleep(p)
    /\ call[p].timed
    /\ woken' = [woken EXCEPT ![p] = "timedout"]
    /\ UNCHANGED <<object, pc, call, ret, requested, history, awaited>>

SpuriousWakeup(p) ==
    /\ p \in Spurious
    /\ Asleep(p)
    /\ woken' = [woken EXCEPT ![p] = "ok"]
    /\ UNCHANGED <<object, pc, call, ret, requested, history, awaited>>

-----------------------------------------------------------------------------
\* What a thread of the object does once it runs, its main procedure aside.
ChildRuns(c) ==
    \/ ChildEnters(c) \/ ChildSynced(c) \/ MainCanceled(c)
    \/ FinalizeBegins(c) \/ FinalizeRuns(c) \/ FinalizeEnds(c)

\* What a thread inside a call of wait or destroy does next.
Waits(p) == DestroyCancels(p) \/ WaitChecks(p) \/ WaitReads(p) \/ WaitFinal(p) \/ WaitEnds(p)

Next ==
    \/ \E t \in Starters, autodelete \in BOOLEAN : Start(t, autodelete) \/ StartRefused(t, autodelete)
    \/ \E t \in Callers : \/ StartResumes(t)
                          \/ Cancel(t)
                          \/ \E cpus \in SUBSET Cpus : cpus \in CpuSets /\ SetAffinity(t, cpus)
                          \/ \E timed \in BOOLEAN : Wait(t, timed)
                          \/ Destroy(t)
    \/ \E c \in Children : ChildRuns(c) \/ MainReturns(c)
    \/ \E p \in Threads : Waits(p) \/ Expire(p) \/ SpuriousWakeup(p)

Spec == Init /\ [][Next]_vars

\* The threads are scheduled and the locks are fair.  The main procedure
\* need not end, but it comes to a cancellation point.
FairSpec ==
    /\ Spec
    /\ \A t \in Callers : WF_vars(StartResumes(t))
    /\ \A c \in Children : WF_vars(ChildRuns(c))
    /\ \A p \in Threads : WF_vars(Waits(p))

-----------------------------------------------------------------------------
CallerPlaces == {"idle", "start_sleep", "destroy", "wait", "wait_sleep", "reads_started", "locks",
                 "final_sleep", "waited"}
ChildPlaces == {"unborn", "entry", "sync_sleep", "main", "ended", "finalizing", "finalized",
                "destroy", "wait", "waited", "gone"}

\* The state has its type, and who sleeps is woken only where he sleeps; the lock of
\* s_finalize is held by a child in it, and a child that destroys never waits.
TypeOK ==
    /\ {m_is_activated, m_is_started, m_is_canceled, m_startup_sync_done,
        m_do_autodelete, destroyed} \subseteq BOOLEAN
    /\ m_n_finalized_count \in Nat
    /\ m_result_code \in Int
    /\ m_pthd \in Children \cup {Nobody}
    /\ m_cpuset \subseteq Cpus /\ affinity \in (SUBSET Cpus) \ {{}} /\ late \in BOOLEAN
    /\ m_finalize_lock \in {Nobody} \cup {c \in Children : pc[c] \in {"finalizing", "finalized"}}
    /\ pc \in [Threads -> CallerPlaces \cup ChildPlaces]
    /\ \A t \in Callers : pc[t] \in CallerPlaces
    /\ \A c \in Children : pc[c] \in ChildPlaces
    /\ call \in [Threads -> [op : {"none", "start", "wait", "autodelete", "destroy"},
                             timed : BOOLEAN]]
    /\ ret \in [Threads -> Int]
    /\ requested \in [Children -> BOOLEAN] /\ canceled \in [Children -> BOOLEAN]
    /\ finals \in [Children -> Nat]
    /\ awaited \in [Threads -> Children \cup {Nobody}]
    /\ woken \in [Threads -> {"no", "ok", "timedout"}]
    /\ \A p \in Threads : woken[p] # "no" => pc[p] \in StartupCond \cup WaitCond \cup FinalizeCond

\* No thread is left inside the object when it is torn down: not the starter
\* that waits for the child, not a child between the end of its activity and the
\* release of m_finalize_lock, with autodelete or without.
NoUseAfterDestroy == destroyed => \A p \in Threads : pc[p] \in {"idle", "unborn", "gone"}

Alive(c) == pc[c] \notin {"unborn", "gone"}

\* One object has one thread at a time: before a start succeeds the thread of an
\* earlier one has at least ended its activity.  And the thread that can be cancelled
\* through the object exists: pthread_cancel is never called with the id of a detached
\* thread that is gone.
OneThread ==
    /\ \A c, d \in Children :
          c # d /\ Alive(c) /\ Alive(d) => pc[c] = "finalized" \/ pc[d] = "finalized"
    /\ m_pthd # Nobody => pc[m_pthd] \notin {"unborn", "finalized", "destroy", "gone"}

\* The final procedure was called, once, for every run of the thread that is over,
\* and it was called before any wait for that run succeeds.
FinalProcOnce ==
    /\ \A c \in Children : pc[c] = "gone" => finals[c] = 1
    /\ \A t \in Callers : pc[t] = "waited" /\ ret[t] = OK /\ awaited[t] # Nobody
                             => finals[awaited[t]] = 1

\* The thread runs where it was last told to, whenever that was: before its start,
\* while it ran, or for an earlier run of the object; and the affinity that can be
\* asked for is the smallest CPU set.  A change that falls between the creation of the
\* thread and its first step (late) is lost, and so is one to no CPU at all.
AffinityInForce ==
    m_cpuset # {} /\ ~late =>
        /\ m_pthd # Nobody => affinity = m_cpuset
        /\ GetAffinity \in {Min(m_cpuset), ALREADY_HALTED}

\* A start returns, and so does a destruction, which cancels the thread.
CallsEnd == \A t \in Callers : (call[t].op \in {"start", "destroy"}) ~> (call[t].op = "none")
=============================================================================
