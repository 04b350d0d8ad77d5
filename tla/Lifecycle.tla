----------------------------- MODULE Lifecycle -----------------------------
(***************************************************************************)
(* The life of an application: gallus_mainloop of src/framework/lib/       *)
(* mainloop.c (not forked), with the default main loop or the one of the   *)
(* callouts, in the main thread or in one of its own, the signal thread in *)
(* s_term_handler, and the exit handler of module.c.  They meet in the     *)
(* global state tracker (GState) and in the module manager (Module), whose *)
(* actions they take.                                                      *)
(***************************************************************************)
EXTENDS Results, Sequences

CONSTANTS
    Main, Looper, Signal,  \* the main thread, the thread "mainlooper", the signal thread
    Nobody,
    DoThread,      \* the do_thread arguments gallus_mainloop is called with
    Registered,    \* the modules registered by constructors, a sequence of [name, kind]
    Failing,       \* the bulk calls whose module procedures may fail
    HooksFail,     \* what may fail too: the hooks "pre" and "post", and of the callouts
                   \* the initialization, "handler", the start of the workers, "stage",
                   \* and the wait of the main loop, "wait"
    ProcsExit,     \* TRUE iff a module procedure may call exit(3)
    Loops,         \* the kinds of main loop: "default", "callout"
    MaxSignals,    \* bound: signals delivered
    MainDoes       \* what main does next to a main loop thread: "exit", "wait_thread"

Actors == {Main, Looper, Signal}

ASSUME LifecycleAssumption ==
    /\ Main # Looper /\ Main # Signal /\ Looper # Signal
    /\ Nobody \notin Actors
    /\ Registered \in Seq([name : STRING, kind : SUBSET {"thread", "stop_proc"}])
    /\ Failing \subseteq {"initialize", "start", "shutdown", "stop"}
    /\ DoThread \subseteq BOOLEAN /\ ProcsExit \in BOOLEAN
    /\ Loops \subseteq {"default", "callout"}
    /\ HooksFail \subseteq {"pre", "post", "handler", "stage", "wait"}
    /\ MaxSignals \in Nat
    /\ MainDoes \subseteq {"exit", "wait_thread"}

VARIABLES
    s_gs, s_gl, at, woken, want, timed, out,                          \* GState
    s_gstate, s_lck, s_modules, m_status, s_n_finalized_modules,      \* Module
    s_is_mods_inited, worker, finalized, bulk, ret,
    do_thread,       \* the main loop runs in a thread of its own
    loop,            \* its kind
    mlpc,            \* where the main loop is
    ml_gl,           \* s_gl of mainloop.c
    s_do_abort,
    mainpc,          \* where the main thread is
    m_sigset, m_sigprocs, mask, pending, waits, sig, sigpc,           \* Signals
    signals,         \* signals delivered so far
    canceling,       \* gallus_thread_cancel(&s_thd) was called
    orphaned,        \* s_lck of gstate.c belongs to a thread that is gone
    exiter, exitpc,  \* the thread that called exit(3), and where its handler is
    s_is_unloading,
    exited           \* the handlers are through, the process ends

gsvars == <<s_gs, s_gl, at, woken, want, timed, out>>
modvars == <<s_gstate, s_lck, s_modules, m_status, s_n_finalized_modules,
             s_is_mods_inited, worker, finalized, bulk, ret>>
loopvars == <<do_thread, loop, mlpc, ml_gl>>
sigvars == <<m_sigset, m_sigprocs, mask, pending, waits, sig, sigpc, signals>>
exitvars == <<exiter, exitpc, s_is_unloading, exited>>
vars == <<gsvars, modvars, loopvars, s_do_abort, mainpc, sigvars, canceling, orphaned,
          exitvars>>

\* The thread that runs the main loop.
L == IF do_thread THEN Looper ELSE Main

GS == INSTANCE GState WITH
    Callers <- Actors, Settable <- {}, Awaited <- {}, Levels <- {1, 2},
    Resettable <- FALSE, Cancelable <- {}, Spurious <- {}

Mod == INSTANCE Module WITH
    Threads <- Actors, MAX_MODULES <- Len(Registered), Names <- {}, Kinds <- {},
    WaitModes <- {}, MaxFinalized <- 0

Sg == INSTANCE Signals WITH Sigs <- {"SIGTERM"}, Handlers <- {"s_term_handler", "own"}
ASSUME SignalsOfLifecycle == Sg!SignalsAssumption

Init ==
    /\ GS!GSInit
    /\ Mod!InitWith(Registered)
    /\ Sg!Init
    /\ do_thread \in DoThread
    /\ loop \in Loops
    /\ mlpc = "off"
    /\ ml_gl = GS!SHUTDOWN_UNKNOWN
    /\ s_do_abort = FALSE
    /\ mainpc = "application"
    /\ signals = 0
    /\ canceling = FALSE
    /\ orphaned = FALSE
    /\ exiter = Nobody
    /\ exitpc = "none"
    /\ s_is_unloading = FALSE
    /\ exited = FALSE

-----------------------------------------------------------------------------
(* Calls into the tracker, which needs its lock, and into the manager.     *)

Tracker(action) == ~orphaned /\ action /\ UNCHANGED modvars
Manager(action) == action /\ UNCHANGED gsvars

\* A thread that called exit(3) runs nothing but the exit handler.
Runs(t) == exiter # t /\ bulk[t].op = "none" /\ at[t] = "none"

Goto(pc) == mlpc' = pc /\ UNCHANGED <<do_thread, loop, ml_gl>>

-----------------------------------------------------------------------------
(* The main loop: s_default_mainloop with s_prologue and s_epilogue.       *)

\* global_state_set by the main loop, and where it goes on.
LoopSets ==
    /\ ~exited
    /\ Runs(L)
    /\ \/ mlpc = "set_initializing" /\ Tracker(GS!Set(L, GS!INITIALIZING)) /\ Goto("initialize")
       \/ mlpc = "set_starting" /\ Tracker(GS!Set(L, GS!STARTING)) /\ Goto("start")
       \/ mlpc = "set_started" /\ Tracker(GS!Set(L, GS!STARTED)) /\ Goto("post_hook")
       \/ mlpc = "accept" /\ Tracker(GS!Set(L, GS!ACCEPT_SHUTDOWN))
                            /\ Goto(IF loop = "callout" THEN "leave" ELSE "epilogue")
       \/ mlpc = "epilogue" /\ Tracker(GS!Set(L, GS!ACCEPT_SHUTDOWN)) /\ Goto("shutdown")
    /\ UNCHANGED <<s_do_abort, mainpc, sigvars, canceling, orphaned, exitvars>>

\* The tests of s_do_abort, and the hooks.
LoopDecides ==
    /\ ~exited
    /\ Runs(L)
    /\ \/ mlpc = "begin" /\ Goto(IF s_do_abort THEN "returned"
                                ELSE IF loop = "callout" THEN "handler" ELSE "set_initializing")
       \/ mlpc = "handler" /\ \E ok \in {TRUE} \cup {"handler" \notin HooksFail} :
                              Goto(IF ok /\ ~s_do_abort THEN "set_initializing" ELSE "returned")
       \/ mlpc = "pre_hook" /\ \E ok \in {TRUE} \cup {"pre" \notin HooksFail} :
                               Goto(IF ok THEN "set_starting" ELSE "returned")
       \/ mlpc = "post_hook" /\ \E ok \in {TRUE} \cup {"post" \notin HooksFail} :
                                Goto(IF ok THEN "enter" ELSE "returned")
       \/ mlpc = "enter" /\ Goto(IF s_do_abort THEN "returned"
                                ELSE IF loop = "callout" THEN "start_callout" ELSE "idle")
    /\ UNCHANGED <<gsvars, modvars, s_do_abort, mainpc, sigvars, canceling, orphaned,
                   exitvars>>

\* The main loop of the callouts around its idle procedure.  It starts its workers,
\* looks for STARTED, for which it need not wait here, and leaves if the state has
\* moved on already.  Then it calls the idle procedure and waits, in turns, until the
\* procedure has got a request or the wait fails.  However it ends, s_epilogue is next.
LoopCallouts ==
    /\ ~exited
    /\ Runs(L)
    /\ \/ mlpc = "start_callout" /\ Tracker(GS!WaitFor(L, GS!STARTED, FALSE)) /\ Goto("entered")
       \/ /\ \/ mlpc = "start_callout" /\ "stage" \in HooksFail /\ Goto("epilogue")
             \/ mlpc = "entered" /\ Goto(IF out[L].gs = GS!STARTED THEN "idle" ELSE "epilogue")
             \/ mlpc = "waiting" /\ \E ok \in {TRUE} \cup {"wait" \notin HooksFail} :
                                     Goto(IF ok THEN "idle" ELSE "leave")
             \/ mlpc = "leave" /\ ~canceling /\ Goto("epilogue")
          /\ UNCHANGED <<gsvars, modvars>>
    /\ UNCHANGED <<s_do_abort, mainpc, sigvars, canceling, orphaned, exitvars>>

\* s_default_idle_proc waits for a request, again and again; s_callout_idle_proc,
\* called by the main loop of the callouts, looks whether there is one.
LoopIdles ==
    /\ ~exited
    /\ \/ /\ mlpc = "idle"
          /\ Runs(L)
          /\ Tracker(GS!WaitFor(L, GS!REQUEST_SHUTDOWN, TRUE))
          /\ Goto("idling")
       \/ /\ mlpc = "idling"
          /\ Tracker(GS!WaitForReturns(L))
          /\ UNCHANGED loopvars
       \/ /\ mlpc = "idling"
          /\ Runs(L)
          /\ mlpc' = IF out[L].ret = OK THEN "accept"
                     ELSE IF loop = "callout" THEN "waiting"
                     ELSE IF out[L].ret = TIMEDOUT THEN "idle" ELSE "epilogue"
          /\ ml_gl' = IF mlpc' \in {"idle", "waiting"} THEN ml_gl ELSE out[L].gl
          /\ UNCHANGED <<do_thread, loop, gsvars, modvars>>
    /\ UNCHANGED <<s_do_abort, mainpc, sigvars, canceling, orphaned, exitvars>>

\* Where s_prologue and s_epilogue go on after a bulk call.
After(pc, r) ==
    CASE pc = "initialize" -> IF r = OK THEN "pre_hook" ELSE "returned"
      [] pc = "start"      -> IF r = OK THEN "set_started" ELSE "returned"
      [] pc = "shutdown"   -> IF r = OK THEN "wait" ELSE IF r = TIMEDOUT THEN "stop" ELSE "finalize"
      [] pc = "wait"       -> IF r = TIMEDOUT THEN "stop" ELSE "finalize"
      [] pc = "stop"       -> IF r = OK THEN "wait_again" ELSE "finalize"
      [] pc = "wait_again" -> "finalize"
      [] pc = "finalize"   -> "returned"

\* The main loop calls gallus_module_*_all.  gallus_module_shutdown_all refuses the
\* level SHUTDOWN_UNKNOWN, which a main loop has that ended without a request.
LoopBegins ==
    /\ ~exited
    /\ Runs(L)
    /\ \/ /\ \/ mlpc \in {"initialize", "start", "stop", "finalize"} /\ Mod!Begin(L, mlpc, "inf")
             \/ mlpc = "shutdown" /\ ml_gl # GS!SHUTDOWN_UNKNOWN /\ Mod!Begin(L, mlpc, "inf")
             \/ mlpc \in {"wait", "wait_again"} /\ Mod!Begin(L, "wait", "timed")
          /\ UNCHANGED <<gsvars, loopvars>>
       \/ /\ mlpc = "shutdown"
          /\ ml_gl = GS!SHUTDOWN_UNKNOWN
          /\ Goto(After(mlpc, INVALID_ARGS))
          /\ UNCHANGED <<gsvars, modvars>>
    /\ UNCHANGED <<s_do_abort, mainpc, sigvars, canceling, orphaned, exitvars>>

LoopSteps ==
    /\ ~exited
    /\ exiter # L
    /\ Manager(Mod!Step(L))
    /\ UNCHANGED <<loopvars, s_do_abort, mainpc, sigvars, canceling, orphaned, exitvars>>

\* A bulk call of the main loop ends; gallus_module_finalize_all also wakes an
\* exit handler up that waits on s_cnd.
LoopEnds ==
    /\ ~exited
    /\ exiter # L
    /\ Manager(Mod!End(L))
    /\ Goto(After(mlpc, ret'[L]))
    /\ exitpc' = IF mlpc = "finalize" /\ exitpc = "sleep" THEN "awake" ELSE exitpc
    /\ UNCHANGED <<s_do_abort, mainpc, sigvars, canceling, orphaned, exiter,
                   s_is_unloading, exited>>

\* The cancellation strikes the default main loop in gallus_cond_wait of the tracker,
\* and nobody calls global_state_cancel_janitor.  The main loop of the callouts is a
\* critical section, with the cancellation disabled up to its end.
LoopCanceled ==
    /\ ~exited
    /\ canceling
    /\ \/ /\ mlpc = "idling"
          /\ loop = "default"
          /\ at[L] = "wait_for"
          /\ ~orphaned
          /\ at' = [at EXCEPT ![L] = "none"]
          /\ woken' = [woken EXCEPT ![L] = "no"]
          /\ orphaned' = TRUE
       \/ mlpc = "leave" /\ UNCHANGED <<at, woken, orphaned>>
    /\ Goto("canceled")
    /\ UNCHANGED <<s_gs, s_gl, want, timed, out, modvars, s_do_abort, mainpc, sigvars,
                   canceling, exitvars>>

-----------------------------------------------------------------------------
(* s_do_mainloop in the main thread: the handlers, then the main loop.     *)

\* The application has set a handler of SIGTERM before, ignores it, or leaves it
\* to the default (that it says so adds a notification only).
ApplicationSets ==
    /\ ~exited
    /\ mainpc = "application"
    /\ \E new \in {Sg!SIG_DFL, Sg!SIG_IGN, "own"} : Sg!gallus_signal("SIGTERM", new)
    /\ mainpc' = "look"
    /\ UNCHANGED <<gsvars, modvars, loopvars, s_do_abort, signals, canceling, orphaned, exitvars>>

\* s_set_failsafe_handler: only a handler of the application's own stays.
SetFailsafeHandler ==
    /\ ~exited
    /\ \/ /\ mainpc = "look"
          /\ mainpc' = IF Sg!OldHandler("SIGTERM") \in {Sg!SIG_DFL, Sg!SIG_IGN} THEN "set" ELSE "go"
          /\ UNCHANGED sigvars
       \/ /\ mainpc = "set"
          /\ mainpc' = "go"
          /\ Sg!gallus_signal("SIGTERM", "s_term_handler")
          /\ UNCHANGED signals
    /\ UNCHANGED <<gsvars, modvars, loopvars, s_do_abort, canceling, orphaned, exitvars>>

\* The main loop is entered, here or by a thread of its own (MainStarts).
MainEnters ==
    /\ ~exited
    /\ mainpc = "go"
    /\ mainpc' = IF do_thread THEN "start_thd" ELSE "in_loop"
    /\ mlpc' = IF do_thread THEN "off" ELSE "begin"
    /\ UNCHANGED <<gsvars, modvars, do_thread, loop, ml_gl, s_do_abort, sigvars, canceling,
                   orphaned, exitvars>>

-----------------------------------------------------------------------------
(* The main thread next to a main loop thread.                             *)

\* s_start_mainloop_thd: the thread is started, and Main waits for STARTED.
MainStarts ==
    /\ ~exited
    /\ mainpc = "start_thd"
    /\ mainpc' = "starting"
    /\ mlpc' = "begin"
    /\ Tracker(GS!WaitFor(Main, GS!STARTED, FALSE))
    /\ UNCHANGED <<do_thread, loop, ml_gl, s_do_abort, sigvars, canceling, orphaned, exitvars>>

\* gallus_mainloop returns to the application, which may call
\* gallus_mainloop_wait_thread and then returns from main.
MainGoesOn ==
    /\ ~exited
    /\ mainpc = "starting"
    /\ \/ Tracker(GS!WaitForReturns(Main)) /\ UNCHANGED mainpc
       \/ Runs(Main) /\ mainpc' \in MainDoes /\ UNCHANGED <<gsvars, modvars>>
    /\ UNCHANGED <<loopvars, s_do_abort, sigvars, canceling, orphaned, exitvars>>

\* s_wait_mainloop_thd: wait, cancel after the time limit, and wait again.
MainWaits ==
    /\ ~exited
    /\ mainpc \in {"wait_thread", "wait_canceled"}
    /\ IF mlpc \in {"returned", "canceled"}
       THEN mainpc' = "waited" /\ UNCHANGED canceling
       ELSE mainpc' = (IF canceling THEN "waited" ELSE "wait_canceled") /\ canceling' = TRUE
    /\ UNCHANGED <<gsvars, modvars, loopvars, s_do_abort, sigvars, orphaned, exitvars>>

-----------------------------------------------------------------------------
(* Signals, and the signal thread with s_term_handler.                     *)

\* A SIGTERM is sent to the process.
SignalArrives ==
    /\ ~exited
    /\ signals < MaxSignals
    /\ signals' = signals + 1
    /\ Sg!Arrives("SIGTERM")
    /\ UNCHANGED <<gsvars, modvars, loopvars, s_do_abort, mainpc, canceling, orphaned, exitvars>>

\* One ends the process at once, because the signal thread does not block it.
SignalKills ==
    /\ ~exited
    /\ \/ "SIGTERM" \notin mask /\ signals < MaxSignals
       \/ Sg!Unblocks
    /\ exited' = TRUE
    /\ exitpc' = "killed"
    /\ UNCHANGED <<gsvars, modvars, loopvars, s_do_abort, mainpc, sigvars, canceling, orphaned,
                   exiter, s_is_unloading>>

SignalThread ==
    /\ ~exited
    /\ \/ Sg!Steps
       \/ sigpc = "got" /\ Sg!Handler # "s_term_handler" /\ Sg!NextSignal
    /\ UNCHANGED <<gsvars, modvars, loopvars, s_do_abort, mainpc, signals, canceling, orphaned,
                   exitvars>>

\* s_term_handler reads the global state ...
SignalReads ==
    /\ ~exited
    /\ sigpc = "got"
    /\ Sg!Handler = "s_term_handler"
    /\ sigpc' = "handling"
    /\ Tracker(GS!Get(Signal))
    /\ UNCHANGED <<loopvars, s_do_abort, mainpc, m_sigset, m_sigprocs, mask, pending, waits, sig,
                   signals, canceling, orphaned, exitvars>>

\* ... and decides on what it has read.
SignalHandled ==
    /\ ~exited
    /\ sigpc = "handling"
    /\ \/ /\ out[Signal].gs = GS!STARTED
          /\ Tracker(GS!RequestShutdown(Signal, GS!SHUTDOWN_GRACEFULLY))
          /\ sigpc' = "requesting"
          /\ UNCHANGED <<s_do_abort, m_sigset, m_sigprocs, mask, pending, waits, sig>>
       \/ /\ out[Signal].gs < GS!STARTED
          /\ s_do_abort' = TRUE
          /\ Sg!NextSignal
          /\ UNCHANGED <<gsvars, modvars>>
       \/ /\ out[Signal].gs > GS!STARTED
          /\ Sg!NextSignal
          /\ UNCHANGED <<s_do_abort, gsvars, modvars>>
    /\ UNCHANGED <<loopvars, mainpc, signals, canceling, orphaned, exitvars>>

SignalAnswered ==
    /\ ~exited
    /\ sigpc = "requesting"
    /\ \/ Tracker(GS!RequestReturns(Signal)) /\ UNCHANGED sigvars
       \/ at[Signal] = "none" /\ Sg!NextSignal /\ UNCHANGED <<signals, gsvars, modvars>>
    /\ UNCHANGED <<loopvars, s_do_abort, mainpc, canceling, orphaned, exitvars>>

-----------------------------------------------------------------------------
(* exit(3): s_atexit_handler of module.c.                                  *)

\* s_trylock, or, when the lock is taken, the choice by s_gstate.
CallExit(t) ==
    /\ ~exited
    /\ exiter = Nobody
    /\ exiter' = t
    /\ UNCHANGED <<gsvars, loopvars, s_do_abort, mainpc, sigvars, canceling, orphaned>>
    /\ IF s_lck = Nobody
       THEN /\ s_lck' = t
            /\ exitpc' = "held"
            /\ UNCHANGED <<s_is_unloading, exited>>
       ELSE /\ exitpc' = IF s_gstate = "UNKNOWN" \/ t # Main THEN "busy"
                         ELSE IF s_gstate \in {"INITIALIZING", "INITIALIZED", "STARTING"}
                         THEN "finalize"
                         ELSE IF s_gstate = "STARTED" THEN "request" ELSE "busy"
            /\ s_lck' = IF s_gstate # "UNKNOWN" /\ t = Main THEN Nobody ELSE s_lck
            /\ s_is_unloading' = (s_gstate = "UNKNOWN")
            /\ exited' = (exitpc' = "busy")
    /\ UNCHANGED <<s_gstate, s_modules, m_status, s_n_finalized_modules, s_is_mods_inited,
                   worker, finalized, bulk, ret>>

\* main returns.
MainExits == mainpc \in {"exit", "waited"} /\ CallExit(Main)
LoopReturnsToMain == ~do_thread /\ mlpc = "returned" /\ CallExit(Main)

\* A module procedure, called by a bulk call of the main loop, calls exit(3).
ProcExits == ProcsExit /\ bulk[L].op \in {"initialize", "start", "shutdown"}
                       /\ ~Mod!Over(bulk[L]) /\ CallExit(L)

\* The label recheck under the lock: let the destructors run, request a
\* shutdown with the lock held, or wait up to 100 ms for the finalization.
ExitRechecks ==
    /\ ~exited
    /\ exitpc \in {"held", "awake", "timedout"}
    /\ s_lck = IF exitpc = "held" THEN exiter ELSE Nobody
    /\ LET clean == s_gstate \in {"UNKNOWN", "FINALIZED"} /\ Len(s_modules) > 0
           requests == s_gstate = "STARTED" /\ exitpc # "timedout"
           sleeps == ~clean /\ ~requests /\ Len(s_modules) > 0 /\ exitpc # "timedout"
       IN
       /\ exitpc' = IF requests THEN "request" ELSE IF sleeps THEN "sleep" ELSE "over"
       /\ s_lck' = IF requests THEN exiter ELSE Nobody
       /\ s_is_unloading' = (clean /\ exitpc # "timedout")
       /\ exited' = (exitpc' = "over")
    /\ UNCHANGED <<gsvars, s_gstate, s_modules, m_status, s_n_finalized_modules,
                   s_is_mods_inited, worker, finalized, bulk, ret, loopvars, s_do_abort, mainpc,
                   sigvars, canceling, orphaned, exiter>>

ExitTimesOut ==
    /\ ~exited
    /\ exitpc = "sleep"
    /\ exitpc' = "timedout"
    /\ UNCHANGED <<gsvars, modvars, loopvars, s_do_abort, mainpc, sigvars, canceling,
                   orphaned, exiter, s_is_unloading, exited>>

\* global_state_request_shutdown(SHUTDOWN_RIGHT_NOW), then the unlock.
ExitRequests ==
    /\ ~exited
    /\ \/ /\ exitpc = "request"
          /\ exitpc' = "requesting"
          /\ Tracker(GS!RequestShutdown(exiter, GS!SHUTDOWN_RIGHT_NOW))
          /\ UNCHANGED exited
       \/ /\ exitpc = "requesting"
          /\ Tracker(GS!RequestReturns(exiter))
          /\ UNCHANGED <<exitpc, exited>>
       \/ /\ exitpc = "requesting"
          /\ at[exiter] = "none"
          /\ exitpc' = "over"
          /\ exited' = TRUE
          /\ s_lck' = IF s_lck = exiter THEN Nobody ELSE s_lck
          /\ UNCHANGED <<gsvars, s_gstate, s_modules, m_status, s_n_finalized_modules,
                         s_is_mods_inited, worker, finalized, bulk, ret>>
    /\ UNCHANGED <<loopvars, s_do_abort, mainpc, sigvars, canceling, orphaned, exiter,
                   s_is_unloading>>

\* gallus_module_finalize_all, after the interrupted bulk call of this thread.
ExitFinalizes ==
    /\ ~exited
    /\ \/ /\ exitpc = "finalize"
          /\ s_lck = Nobody
          /\ exitpc' = "finalizing"
          /\ s_lck' = exiter
          /\ s_gstate' = "FINALIZING"
          /\ bulk' = [bulk EXCEPT ![exiter] = [op |-> "finalize", i |-> 1, err |-> OK, mode |-> "inf"]]
          /\ UNCHANGED <<s_modules, m_status, s_n_finalized_modules, s_is_mods_inited, worker,
                         finalized, ret, exited>>
       \/ exitpc = "finalizing" /\ Mod!Step(exiter) /\ UNCHANGED <<exitpc, exited>>
       \/ exitpc = "finalizing" /\ Mod!End(exiter) /\ exitpc' = "over" /\ exited' = TRUE
    /\ UNCHANGED <<gsvars, loopvars, s_do_abort, mainpc, sigvars, canceling, orphaned,
                   exiter, s_is_unloading>>

-----------------------------------------------------------------------------
(* The modules' threads and the timer of the idle main loop.               *)

WorkersEnd ==
    /\ ~exited
    /\ \E m \in 1 .. Len(Registered) : Mod!WorkerEnds(m) \/ Mod!WorkerCanceled(m)
    /\ UNCHANGED <<gsvars, loopvars, s_do_abort, mainpc, sigvars, canceling, orphaned,
                   exitvars>>

IdleTimesOut ==
    /\ ~exited
    /\ Tracker(GS!Expire(L))
    /\ UNCHANGED <<loopvars, s_do_abort, mainpc, sigvars, canceling, orphaned, exitvars>>

LoopNext == LoopSets \/ LoopDecides \/ LoopCallouts \/ LoopIdles \/ LoopBegins \/ LoopSteps \/ LoopEnds
MainNext == ApplicationSets \/ SetFailsafeHandler \/ MainEnters \/ MainStarts \/ MainGoesOn \/ MainWaits \/ MainExits \/ LoopReturnsToMain
SignalNext == SignalThread \/ SignalReads \/ SignalHandled \/ SignalAnswered
ExitNext == ExitRechecks \/ ExitTimesOut \/ ExitRequests \/ ExitFinalizes

Next ==
    \/ LoopNext \/ LoopCanceled
    \/ MainNext
    \/ SignalArrives \/ SignalKills \/ SignalNext
    \/ ProcExits
    \/ ExitNext
    \/ WorkersEnd
    \/ IdleTimesOut

Spec == Init /\ [][Next]_vars

\* Every thread that can run does: the scheduler and the locks are fair, and
\* hooks and module procedures return.  Signals need not arrive, modules'
\* threads need not end.
FairSpec ==
    /\ Spec
    /\ WF_vars(LoopNext)
    /\ WF_vars(LoopCanceled)
    /\ WF_vars(MainNext)
    /\ WF_vars(SignalNext)
    /\ WF_vars(ExitNext)

-----------------------------------------------------------------------------
Mods == 1 .. Len(Registered)

\* The condition of the static destructors of the library (gstate.c, mainloop.c):
\* gallus_module_is_unloading() and gallus_module_is_finalized_cleanly().
DestructorsRun == s_is_mods_inited => s_is_unloading /\ Mod!is_finalized_cleanly

\* The library's locks and condition variables are torn down at exit only when
\* no module's thread is left that could use them, and, if the modules came up
\* at all, when every one of them was finalized exactly once: whichever thread
\* exits, in whatever state of the startup or of the shutdown.
DestructorsSafe ==
    exited /\ exitpc # "killed" /\ DestructorsRun =>
        \A m \in Mods : /\ worker[m] \notin Mod!Alive
                        /\ s_is_mods_inited => finalized[m] = 1

\* Modules go down in the reverse of the order they came up: none is finalized
\* before a later one that can be, and, unless procedures fail, none is told to
\* shut down before a later one.
ReverseOrder ==
    \A m, k \in Mods :
        m < k => /\ finalized[m] > 0 => finalized[k] > 0 \/ ~Mod!Finalizable(k)
                 /\ "shutdown" \notin Failing /\ (worker[m] = "asked" \/ m_status[m] = "SHUTDOWN")
                      => worker[k] # "running"

\* The main loop has got the grace level of the request that was granted.
HasLevel == ml_gl = s_gl /\ ml_gl # GS!SHUTDOWN_UNKNOWN

\* A main loop accepts a request, and tells the modules to shut down, with the grace
\* level of the request that was granted, although the signal thread and an exiting
\* thread may race; and the default main loop ends in no other way.  The one of the
\* callouts may end with no level at all, and then tells nobody.
LevelGranted ==
    \/ mlpc = "accept"
    \/ bulk[L].op = "shutdown"
    \/ mlpc \in {"epilogue", "shutdown"} /\ (loop = "default" \/ ml_gl # GS!SHUTDOWN_UNKNOWN)
    => HasLevel

\* Where the main loop is when it is up and does not look at s_do_abort any more.
Up == {"start_callout", "entered", "idle", "idling", "waiting"}

\* A shutdown requested of a main loop that is up ends the process, and so does a
\* SIGTERM that is still pending, unless the application handles it itself: even
\* if a module's thread neither obeys nor dies, although the thread that requests
\* it may be the exiting one, which holds the lock of the module manager, and
\* although the main loop may just be ending by itself.  Only the cancellation of
\* the main loop thread stands in the way.
ShutdownEnds ==
    (/\ mlpc \in Up
     /\ \/ s_gs >= GS!REQUEST_SHUTDOWN
        \/ "SIGTERM" \in pending /\ m_sigprocs["SIGTERM"] = "s_term_handler")
    ~> (exited \/ mlpc = "canceled")

\* The signal thread comes to block a signal gallus_signal was called for, so
\* that it can no longer end the process at once, although the thread may sleep
\* in sigwait with its older mask.
HandlersInForce == ("SIGTERM" \in m_sigset) ~> ("SIGTERM" \in mask \/ exited)

\* No module's thread is left that was not at least cancelled.
AllTerminated == \A m \in Mods : worker[m] \notin {"running", "asked"}

\* When a main loop that has got a request returns, every module's thread that is
\* left was at least cancelled.
RemainingTerminated ==
    mlpc = "returned" /\ ml_gl # GS!SHUTDOWN_UNKNOWN => AllTerminated

\* The same of every main loop that was up, as gallus_mainloop.h has it: it tells all
\* the modules, and forcibly terminates those that still remain.  The main loop of
\* the callouts finalizes modules that were not told if the request came before it
\* looked for STARTED, or if it ended by itself.  False of the code, and in no run.
RequestedTerminated ==
    mlpc = "returned" /\ s_gs >= GS!ACCEPT_SHUTDOWN /\ s_gl # GS!SHUTDOWN_UNKNOWN => AllTerminated

\* Modules go down in reverse order, and all of them.
OrderlyEnd == ReverseOrder /\ RemainingTerminated
=============================================================================
