------------------------------- MODULE Module -------------------------------
(***************************************************************************)
(* The module manager of src/framework/lib/module.c: the registered        *)
(* modules, and the bulk calls that initialize, start, shut down, stop,    *)
(* wait for and finalize them one after the other while s_lck is held.     *)
(*                                                                         *)
(* A bulk call takes a step to begin (lock, store s_gstate), one step per  *)
(* module (the module's own procedure runs in it) and a step to end.  The  *)
(* exit handler, which also calls the tracker of GState, is in Lifecycle.  *)
(***************************************************************************)
EXTENDS Results, Sequences, FiniteSets

CONSTANTS
    Threads,      \* the calling threads
    Nobody,       \* no thread holds s_lck
    MAX_MODULES,  \* capacity of s_modules
    Names,        \* module names
    Kinds,        \* what a module may have: subsets of {"thread", "stop_proc"}
    Failing,      \* the bulk calls whose module procedures may fail
    WaitModes,    \* time limits of gallus_module_wait_all: "inf", "timed"
    MaxFinalized  \* bound: how often a module is finalized before calls stop

ASSUME ModuleAssumption ==
    /\ Nobody \notin Threads
    /\ MAX_MODULES \in Nat
    /\ Kinds \subseteq SUBSET {"thread", "stop_proc"}
    /\ Failing \subseteq {"initialize", "start", "shutdown", "stop"}
    /\ WaitModes \subseteq {"inf", "timed"}
    /\ MaxFinalized \in Nat

VARIABLES
    s_gstate, s_lck,
    s_modules,              \* sequence of [name, kind], the registered modules
    m_status,               \* m_status of each slot of s_modules
    s_n_finalized_modules,
    s_is_mods_inited,
    worker,                 \* the thread of each module: see WorkerStates
    finalized,              \* how often m_finalize_proc of each module was called
    bulk,                   \* the bulk call each thread is in
    ret                     \* result of each thread's last call

vars == <<s_gstate, s_lck, s_modules, m_status, s_n_finalized_modules, s_is_mods_inited,
          worker, finalized, bulk, ret>>

ModuleStates == {"UNKNOWN", "REGISTERED", "INITIALIZED", "STARTED", "SHUTDOWN",
                 "CANCELLING", "STOPPED"}

\* Not started; running, told to shut down or not; cancelled but still there;
\* ended by itself or by the cancellation.
WorkerStates == {"none", "running", "asked", "canceling", "ended", "canceled"}
Alive == {"running", "asked", "canceling"}

Slots == 1 .. MAX_MODULES
N == Len(s_modules)

Forward == {"initialize", "start"}
Backward == {"shutdown", "stop", "wait", "finalize"}
NoBulk == [op |-> "none", i |-> 0, err |-> OK, mode |-> "inf"]

\* s_gstate while a bulk call runs.
Running == [initialize |-> "INITIALIZING", start |-> "STARTING", shutdown |-> "SHUTTINGDOWN",
            stop |-> "STOPPING", wait |-> "WAITING", finalize |-> "FINALIZING"]

\* s_gstate after one that succeeded, where the code stores another.
Completed == [initialize |-> "INITIALIZED", start |-> "STARTED", wait |-> "SHUTDOWN",
              finalize |-> "FINALIZED"]

GStates == {"UNKNOWN"} \cup {Running[op] : op \in DOMAIN Running}
                       \cup {Completed[op] : op \in DOMAIN Completed}

\* s_once_proc, and the modules that constructors have registered since.
InitWith(mods) ==
    /\ s_gstate = "UNKNOWN"
    /\ s_lck = Nobody
    /\ s_modules = mods
    /\ m_status = [m \in Slots |-> IF m <= Len(mods) THEN "REGISTERED" ELSE "UNKNOWN"]
    /\ s_n_finalized_modules = 0
    /\ s_is_mods_inited = FALSE
    /\ worker = [m \in Slots |-> "none"]
    /\ finalized = [m \in Slots |-> 0]
    /\ bulk = [t \in Threads |-> NoBulk]
    /\ ret = [t \in Threads |-> NoResult]

Init == InitWith(<<>>)

-----------------------------------------------------------------------------
(* Registering and finding.                                                *)

\* s_find_module: the index is returned only to a caller that passes retmptr.
s_find_module(name, has_retmptr) ==
    LET hits == {m \in 1 .. N : s_modules[m].name = name}
    IN  IF has_retmptr /\ hits # {} THEN (CHOOSE m \in hits : \A k \in hits : m <= k) - 1
                                    ELSE NOT_FOUND

\* gallus_module_register of a module with all the procedures it must have.
Register(t, name, kind) ==
    /\ bulk[t].op = "none"
    /\ s_lck = Nobody
    /\ IF N >= MAX_MODULES
       THEN ret' = [ret EXCEPT ![t] = NO_MEMORY] /\ UNCHANGED <<s_modules, m_status>>
       ELSE IF s_find_module(name, FALSE) = NOT_FOUND
       THEN /\ s_modules' = Append(s_modules, [name |-> name, kind |-> kind])
            /\ m_status' = [m_status EXCEPT ![N + 1] = "REGISTERED"]
            /\ ret' = [ret EXCEPT ![t] = OK]
       ELSE ret' = [ret EXCEPT ![t] = ALREADY_EXISTS] /\ UNCHANGED <<s_modules, m_status>>
    /\ UNCHANGED <<s_gstate, s_lck, s_n_finalized_modules, s_is_mods_inited, worker, finalized, bulk>>

\* gallus_module_find, which does not lock.
Find(t, name) ==
    /\ bulk[t].op = "none"
    /\ ret' = [ret EXCEPT ![t] = s_find_module(name, FALSE)]
    /\ UNCHANGED <<s_gstate, s_lck, s_modules, m_status, s_n_finalized_modules, s_is_mods_inited,
                   worker, finalized, bulk>>

-----------------------------------------------------------------------------
(* One module's turn in a bulk call: its status and its worker afterwards,  *)
(* and the result.                                                         *)

HasThread(m) == "thread" \in s_modules[m].kind
HasStopProc(m) == "stop_proc" \in s_modules[m].kind

\* What a module's own procedure may return.
ProcResults(op) == {OK} \cup (IF op \in Failing THEN {ANY_FAILURES, TIMEDOUT} ELSE {})

Turn(m, status, w, r) == [m |-> m, status |-> status, worker |-> w, ret |-> r]
Keep(m, r) == Turn(m, m_status[m], worker[m], r)

s_initialize_module(m) ==
    IF m_status[m] = "REGISTERED"
    THEN {Turn(m, IF r = OK THEN "INITIALIZED" ELSE "REGISTERED", worker[m], r)
             : r \in ProcResults("initialize")}
    ELSE {Keep(m, INVALID_STATE)}

s_start_module(m) ==
    IF m_status[m] = "INITIALIZED"
    THEN {IF r = OK THEN Turn(m, "STARTED", IF HasThread(m) THEN "running" ELSE worker[m], r)
                    ELSE Keep(m, r) : r \in ProcResults("start")}
    ELSE {Keep(m, IF m_status[m] = "STARTED" THEN OK ELSE INVALID_STATE)}

\* m_shutdown_proc tells the worker to finish and does not wait for it.
s_shutdown_module(m) ==
    IF m_status[m] = "STARTED"
    THEN {Turn(m, IF HasThread(m) THEN "STARTED" ELSE "SHUTDOWN",
                  IF worker[m] = "running" /\ r = OK THEN "asked" ELSE worker[m], r)
             : r \in ProcResults("shutdown")}
    ELSE {Keep(m, IF m_status[m] \in {"SHUTDOWN", "STOPPED"} THEN OK ELSE INVALID_STATE)}

\* m_stop_proc, or gallus_thread_cancel, which succeeds; a module with neither
\* is left as it is.
s_stop_module(m) ==
    IF m_status[m] = "STARTED"
    THEN IF ~HasStopProc(m) /\ ~HasThread(m) THEN {Keep(m, OK)}
         ELSE {IF r = OK
               THEN Turn(m, IF HasThread(m) THEN "CANCELLING" ELSE "SHUTDOWN",
                            IF worker[m] \in Alive THEN "canceling" ELSE worker[m], r)
               ELSE Keep(m, r) : r \in IF HasStopProc(m) THEN ProcResults("stop") ELSE {OK}}
    ELSE {Keep(m, IF m_status[m] \in {"CANCELLING", "SHUTDOWN", "STOPPED"}
                  THEN OK ELSE INVALID_STATE)}

\* Mutant: the status moves on although the wait timed out.
s_wait_module_Timeout(m, mode) ==
    IF m_status[m] \in {"CANCELLING", "STARTED"} /\ HasThread(m)
    THEN {Turn(m, "SHUTDOWN", worker[m], r)
             : r \in (IF worker[m] \in {"ended", "canceled"} THEN {OK} ELSE {})
                     \cup (IF mode = "timed" /\ worker[m] \in Alive THEN {TIMEDOUT} ELSE {})}
    ELSE {Keep(m, IF m_status[m] \in {"SHUTDOWN", "STOPPED"} THEN OK ELSE INVALID_STATE)}

\* gallus_thread_wait returns once the worker is gone, or when its time is up.
s_wait_module(m, mode) ==
    IF m_status[m] \in {"CANCELLING", "STARTED"} /\ HasThread(m)
    THEN (IF worker[m] \in {"ended", "canceled"}
          THEN {Turn(m, IF worker[m] = "canceled" THEN "STOPPED" ELSE "SHUTDOWN", worker[m], OK)}
          ELSE {})
         \cup (IF mode = "timed" /\ worker[m] \in Alive THEN {Keep(m, TIMEDOUT)} ELSE {})
    ELSE {Keep(m, IF m_status[m] \in {"SHUTDOWN", "STOPPED"} THEN OK ELSE INVALID_STATE)}

\* Mutant: a module that was cancelled is taken for gone.
Finalizable_Cancelling(m) ==
    m_status[m] \in {"INITIALIZED", "SHUTDOWN", "CANCELLING", "STOPPED"}

\* s_finalize_module leaves a module alone that is still running, or was never
\* initialized.
Finalizable(m) == m_status[m] \in {"INITIALIZED", "SHUTDOWN", "STOPPED"}

Turns(op, m, mode) ==
    CASE op = "initialize" -> s_initialize_module(m)
      [] op = "start"      -> s_start_module(m)
      [] op = "shutdown"   -> s_shutdown_module(m)
      [] op = "stop"       -> s_stop_module(m)
      [] op = "wait"       -> s_wait_module(m, mode)
      [] op = "finalize"   -> {Keep(m, OK)}

-----------------------------------------------------------------------------
(* The bulk calls.                                                         *)

\* Mutant: everything is done in the order of registration.
TurnOf_Forward(op, i) == i

\* Whose turn is the i-th of a bulk call: the order of registration, or the
\* reverse.
TurnOf(op, i) == IF op \in Forward THEN i ELSE N - i + 1

\* Mutant: a failure does not end a start or an initialization.
Over_CarryOn(b) == b.i > N

\* A bulk call is over when every module had its turn, and a forward one also
\* at the first failure.
Over(b) == b.i > N \/ (b.op \in Forward /\ b.err # OK)

\* gallus_module_*_all: lock, and store the state.
Begin(t, op, mode) ==
    /\ bulk[t].op = "none"
    /\ s_lck = Nobody
    /\ s_lck' = t
    /\ s_gstate' = IF op = "initialize" /\ N = 0 THEN s_gstate ELSE Running[op]
    /\ bulk' = [bulk EXCEPT ![t] = [op |-> op, i |-> 1, err |-> OK, mode |-> mode]]
    /\ UNCHANGED <<s_modules, m_status, s_n_finalized_modules, s_is_mods_inited, worker,
                   finalized, ret>>

\* One turn of the loop; a backward call keeps the first error and goes on.
Step(t) ==
    LET b == bulk[t]
        m == TurnOf(b.op, b.i)
    IN
    /\ b.op # "none"
    /\ ~Over(b)
    /\ \E turn \in Turns(b.op, m, b.mode) :
          /\ m_status' = [m_status EXCEPT ![m] = turn.status]
          /\ worker' = [worker EXCEPT ![m] = turn.worker]
          /\ bulk' = [bulk EXCEPT ![t] = [b EXCEPT !.i = b.i + 1,
                                                   !.err = IF b.err = OK THEN turn.ret ELSE b.err]]
    /\ IF b.op = "finalize" /\ Finalizable(m)
       THEN /\ finalized' = [finalized EXCEPT ![m] = @ + 1]
            /\ s_n_finalized_modules' = s_n_finalized_modules + 1
       ELSE UNCHANGED <<finalized, s_n_finalized_modules>>
    /\ UNCHANGED <<s_gstate, s_lck, s_modules, s_is_mods_inited, ret>>

\* The end of the call: unlock, whoever holds the lock now.
End(t) ==
    LET b == bulk[t] IN
    /\ b.op # "none"
    /\ Over(b)
    /\ s_lck' = Nobody
    /\ s_gstate' = IF b.err = OK /\ b.op \in DOMAIN Completed THEN Completed[b.op] ELSE s_gstate
    /\ s_is_mods_inited' = (s_is_mods_inited \/ (b.op = "initialize" /\ b.err = OK))
    /\ bulk' = [bulk EXCEPT ![t] = NoBulk]
    /\ ret' = [ret EXCEPT ![t] = b.err]
    /\ UNCHANGED <<s_modules, m_status, s_n_finalized_modules, worker, finalized>>

\* The modules' own threads, which run without the lock.
WorkerEnds(m) ==
    /\ worker[m] \in Alive
    /\ worker' = [worker EXCEPT ![m] = "ended"]
    /\ UNCHANGED <<s_gstate, s_lck, s_modules, m_status, s_n_finalized_modules, s_is_mods_inited,
                   finalized, bulk, ret>>
WorkerCanceled(m) ==
    /\ worker[m] = "canceling"
    /\ worker' = [worker EXCEPT ![m] = "canceled"]
    /\ UNCHANGED <<s_gstate, s_lck, s_modules, m_status, s_n_finalized_modules, s_is_mods_inited,
                   finalized, bulk, ret>>

Next ==
    \/ \E t \in Threads :
          \/ \E name \in Names, kind \in Kinds : Register(t, name, kind)
          \/ \E name \in Names : Find(t, name)
          \/ \E op \in Forward \cup {"shutdown", "stop"} : Begin(t, op, "inf")
          \/ (\A m \in Slots : finalized[m] < MaxFinalized) /\ Begin(t, "finalize", "inf")
          \/ \E mode \in WaitModes : Begin(t, "wait", mode)
          \/ Step(t)
          \/ End(t)
    \/ \E m \in Slots : WorkerEnds(m) \/ WorkerCanceled(m)

Spec == Init /\ [][Next]_vars

\* gallus_module_is_finalized_cleanly, by which the library's static
\* destructors decide whether to tear down what the modules use.
is_finalized_cleanly == s_is_mods_inited => N = s_n_finalized_modules

-----------------------------------------------------------------------------
\* The state has its type; the slots in use are the registered ones.
TypeOK ==
    /\ s_gstate \in GStates
    /\ s_lck \in Threads \cup {Nobody}
    /\ s_modules \in Seq([name : Names, kind : Kinds])
    /\ N <= MAX_MODULES
    /\ m_status \in [Slots -> ModuleStates]
    /\ \A m \in Slots : m_status[m] = "UNKNOWN" <=> m > N
    /\ s_n_finalized_modules \in Nat
    /\ s_is_mods_inited \in BOOLEAN
    /\ worker \in [Slots -> WorkerStates]
    /\ finalized \in [Slots -> Nat]
    /\ bulk \in [Threads -> [op : Forward \cup Backward \cup {"none"}, i : Nat, err : Int,
                             mode : {"inf", "timed"}]]
    /\ \A t \in Threads : bulk[t].op # "none" => bulk[t].i \in 1 .. N + 1
    /\ ret \in [Threads -> Int]

\* A module's status tells the truth about its thread: in the states that
\* s_finalize_module and s_start_module take for safe, the thread is not there,
\* whatever order the bulk calls were made in and whichever procedure failed.
StatusTellsWorker ==
    \A m \in Slots :
        /\ m_status[m] \in {"UNKNOWN", "REGISTERED", "INITIALIZED"} => worker[m] = "none"
        /\ m_status[m] \in {"SHUTDOWN", "STOPPED"} => worker[m] \notin Alive
        /\ worker[m] = "canceled" => m_status[m] \in {"CANCELLING", "STOPPED"}

\* m_finalize_proc is not called under a running worker.
FinalizesStopped ==
    [][ \A m \in Slots : finalized'[m] # finalized[m] => worker[m] \notin Alive ]_vars

\* Modules are initialized and started in the order of registration without a
\* gap, even when one of them fails and the calls are repeated: a module never
\* runs ahead of one registered before it, on which it may rely.
Rank == [UNKNOWN |-> 0, REGISTERED |-> 0, INITIALIZED |-> 1, STARTED |-> 2, SHUTDOWN |-> 2,
         CANCELLING |-> 2, STOPPED |-> 2]
NoGap ==
    \A m, k \in Slots : m < k => Rank[m_status[m]] >= Rank[m_status[k]]

=============================================================================
