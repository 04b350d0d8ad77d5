-------------------------- MODULE LifecycleProofs --------------------------
(***************************************************************************)
(* What Lifecycle promises for any list of modules, any number of signals, *)
(* whichever thread exits and whenever: the destructors of the library run *)
(* only when nothing is left that uses its locks, the modules are shut down*)
(* with the level that was requested, and they go down in order and all.   *)
(***************************************************************************)
EXTENDS Lifecycle, TLAPS

\* Where the main loop is, in the order of its way.
Early == {"off", "begin", "handler", "set_initializing", "initialize", "pre_hook",
          "set_starting", "start", "set_started"}
Running == {"post_hook", "enter"} \cup Up \cup {"accept", "leave"}
Down == {"shutdown", "wait", "stop", "wait_again", "finalize"}
Places == Early \cup Running \cup {"epilogue"} \cup Down \cup {"returned", "canceled"}

MainPlaces == {"application", "look", "set", "go", "start_thd", "starting", "exit",
               "wait_thread", "wait_canceled", "waited", "in_loop"}
ExitPlaces == {"none", "held", "awake", "timedout", "busy", "finalize", "finalizing",
               "request", "requesting", "sleep", "over", "killed"}

\* The call of the module manager that the main loop is in; no other thread is in one.
call == bulk[L]
InCall(op) == call.op = op

-----------------------------------------------------------------------------
(* The inductive invariant.                                                *)

\* The types of what the properties are about: of the tracker, of the module manager
\* and of the places.
TrackerTypes ==
    /\ s_gs \in GS!GlobalStates /\ s_gl \in 0 .. 2
    /\ at \in [Actors -> {"none", "wait_for", "request"}]
    /\ woken \in [Actors -> {"no", "ok", "timedout"}]
    /\ want \in [Actors -> GS!GlobalStates]
    /\ out \in [Actors -> [ret : Int, gs : GS!GlobalStates, gl : 0 .. 2]]

Calls == [op : Mod!Forward \cup Mod!Backward \cup {"none"}, i : Nat, err : Int,
          mode : {"inf", "timed"}]
ModuleTypes ==
    /\ s_modules = Registered
    /\ m_status \in [Mods -> Mod!ModuleStates]
    /\ worker \in [Mods -> Mod!WorkerStates]
    /\ finalized \in [Mods -> {0, 1}]
    /\ s_n_finalized_modules \in Nat
    /\ s_is_mods_inited \in BOOLEAN
    /\ bulk \in [Actors -> Calls]
    /\ ret \in [Actors -> Int]

PlaceTypes ==
    /\ do_thread \in BOOLEAN /\ mlpc \in Places /\ ml_gl \in 0 .. 2
    /\ mainpc \in MainPlaces
    /\ exiter \in {Nobody, Main, L} /\ exitpc \in ExitPlaces /\ exited \in BOOLEAN

Types == TrackerTypes /\ ModuleTypes /\ PlaceTypes

\* The place of the main loop and the tracker's state: the former follows the latter.
Tracked ==
    /\ s_gs >= GS!STARTED => mlpc \notin Early
    /\ s_gs >= GS!ACCEPT_SHUTDOWN =>
          mlpc \in {"leave", "canceled", "epilogue", "returned"} \cup Down
    /\ mlpc \in Down => s_gs >= GS!ACCEPT_SHUTDOWN
    /\ s_gs = GS!REQUEST_SHUTDOWN => s_gl # GS!SHUTDOWN_UNKNOWN
    /\ sigpc = "handling" => out[Signal].gs <= s_gs

\* The main thread next to a main loop thread goes on when the main loop has started.
MainBehind ==
    /\ mainpc \in {"application", "look", "set", "go", "start_thd"} => mlpc = "off"
    /\ ~do_thread => mainpc \in {"application", "look", "set", "go", "in_loop"}
    /\ mainpc = "starting" => /\ woken[Main] # "timedout"
                              /\ IF at[Main] = "none" THEN s_gs >= GS!STARTED
                                 ELSE at[Main] = "wait_for" /\ want[Main] = GS!STARTED
    /\ mainpc \in {"exit", "wait_thread", "wait_canceled", "waited"} => s_gs >= GS!STARTED

\* The idle main loop, and the level it has got: only that of the request that was
\* granted.  Without one it shuts nobody down, and only the main loop of the callouts
\* ends.
LevelKept ==
    /\ mlpc = "idling" =>
          IF at[L] = "none"
          THEN \/ out[L].ret = TIMEDOUT
               \/ out[L].ret = OK /\ s_gs >= GS!REQUEST_SHUTDOWN /\ out[L].gl = s_gl
          ELSE at[L] = "wait_for" /\ want[L] = GS!REQUEST_SHUTDOWN
    /\ ml_gl # GS!SHUTDOWN_UNKNOWN =>
          /\ s_gs >= GS!REQUEST_SHUTDOWN /\ ml_gl = s_gl
          /\ mlpc \notin Early \cup {"post_hook", "enter"} \cup Up
    /\ \/ mlpc = "accept"
       \/ mlpc \in {"wait", "stop", "wait_again"}
       \/ call.op = "shutdown"
       \/ mlpc \in {"epilogue", "shutdown"} /\ loop = "default"
       => ml_gl # GS!SHUTDOWN_UNKNOWN
    /\ mlpc \in {"start_callout", "entered", "waiting", "leave"} => loop = "callout"

\* Who exits, and from where.
Exiting ==
    /\ exitpc = "none" => exiter = Nobody
    /\ ~exited /\ exitpc \notin {"none", "finalize", "finalizing"} =>
          exiter = Main /\ (IF do_thread THEN mainpc \in {"exit", "waited"} ELSE mlpc = "returned")
    /\ ~exited /\ exitpc \in {"finalize", "finalizing"} =>
          ~do_thread /\ exiter = Main /\ mlpc \in {"initialize", "start"}
    /\ exitpc = "finalize" => call.op \in {"initialize", "start"}
    /\ exitpc = "finalizing" => InCall("finalize")
    /\ exitpc \in {"request", "requesting"} => s_gs >= GS!STARTED

\* The calls of the module manager are those of the main loop's place, or the
\* finalization by the exit handler that cuts one short.
Called ==
    /\ \A t \in Actors \ {L} : bulk[t].op = "none"
    /\ call.op # "none" => call.i \in 1 .. Len(Registered) + 1
    /\ call.op # "none" /\ exitpc # "finalizing" /\ ~exited =>
          call.op = (IF mlpc = "wait_again" THEN "wait" ELSE mlpc)
    /\ mlpc = "shutdown" => call.op \in {"none", "shutdown"}
    /\ exiter = Nobody => s_lck = (IF call.op = "none" THEN Nobody ELSE L)
    /\ exiter = Nobody /\ call.op # "none" =>
          \/ s_gstate = Mod!Running[call.op]
          \/ call.op = "initialize" /\ Len(Registered) = 0
    /\ s_gstate = "STARTED" => s_gs >= GS!STARTED \/ mlpc = "set_started"

\* Before the initialization has succeeded no module is started.
Inited ==
    ~s_is_mods_inited =>
        /\ mlpc \in {"off", "begin", "handler", "set_initializing", "initialize", "returned"}
        /\ \A m \in Mods : worker[m] = "none"

\* A module's status tells the truth about its thread.
Fits(m, status, w) ==
    /\ w \in {"running", "asked"} => status = "STARTED"
    /\ w = "canceling" => status = "CANCELLING"
    /\ w = "canceled" => status \in {"CANCELLING", "STOPPED"}
    /\ ~Mod!HasThread(m) => w = "none"
StatusFits == \A m \in Mods : Fits(m, m_status[m], worker[m])

\* The turns a call has given, of a backward one: the modules behind.
Behind(m) == m > Len(Registered) - call.i + 1

\* The finalizations are counted, each module is finalized once at most and
\* without its thread, after all that come up later.
Counted ==
    /\ ~exited /\ ~InCall("finalize") /\ mlpc # "returned" =>
          s_n_finalized_modules = 0 /\ \A m \in Mods : finalized[m] = 0
    /\ ~InCall("finalize") =>
          /\ s_n_finalized_modules <= Len(Registered)
          /\ s_n_finalized_modules = Len(Registered) => \A m \in Mods : finalized[m] = 1
    /\ InCall("finalize") =>
          /\ s_n_finalized_modules <= call.i - 1
          /\ s_n_finalized_modules = call.i - 1 => \A m \in Mods : Behind(m) => finalized[m] = 1
          /\ \A m \in Mods : IF Behind(m) THEN finalized[m] = 1 \/ ~Mod!Finalizable(m)
                                          ELSE finalized[m] = 0
    /\ \A m \in Mods : finalized[m] = 1 => worker[m] \notin Mod!Alive
    /\ \A m, k \in Mods : m < k /\ finalized[m] = 1 => finalized[k] = 1 \/ ~Mod!Finalizable(k)

\* Until the shutdown of the modules begins none of them is told to go down, nor is
\* one if the main loop has no level, and once the main loop has started all of them
\* are started.
ComingUp ==
    /\ \/ mlpc \in Early \cup Running \cup {"epilogue", "canceled"}
       \/ mlpc = "shutdown" /\ call.op = "none"
       \/ mlpc \in {"finalize", "returned"} /\ ml_gl = GS!SHUTDOWN_UNKNOWN
       => \A m \in Mods : /\ m_status[m] \in {"REGISTERED", "INITIALIZED", "STARTED"}
                          /\ worker[m] \in {"none", "running", "ended"}
    /\ \/ mlpc \in Running \cup {"set_started", "epilogue"}
       \/ mlpc = "shutdown" /\ call.op = "none"
       => \A m \in Mods : m_status[m] = "STARTED"
    /\ InCall("start") /\ call.err = OK =>
          \A m \in Mods : m < call.i => m_status[m] = "STARTED"

\* A module that was told to go down.
Told(m) == /\ m_status[m] = (IF Mod!HasThread(m) THEN "STARTED" ELSE "SHUTDOWN")
           /\ worker[m] \in {"none", "asked", "ended"}

\* The way down, if the modules' procedures obey.
GoingDown ==
    /\ mlpc = "shutdown" /\ InCall("shutdown") =>
          /\ call.err = OK
          /\ \A m \in Mods : IF Behind(m) THEN Told(m)
                             ELSE m_status[m] = "STARTED" /\ worker[m] \in {"none", "running", "ended"}
    /\ mlpc = "wait" =>
          /\ \A m \in Mods : Told(m) \/ (m_status[m] = "SHUTDOWN" /\ worker[m] \in {"none", "ended"})
          /\ InCall("wait") =>
                /\ call.err \in {OK, TIMEDOUT}
                /\ call.err = OK => \A m \in Mods : Behind(m) => m_status[m] = "SHUTDOWN"
    /\ mlpc = "stop" =>
          \A m \in Mods : /\ m_status[m] = "STARTED" => Mod!HasThread(m)
                          /\ worker[m] # "running"
                          /\ InCall("stop") /\ Behind(m) => m_status[m] # "STARTED"
    /\ \/ mlpc = "wait_again"
       \/ mlpc \in {"finalize", "returned"} /\ ml_gl # GS!SHUTDOWN_UNKNOWN
       => \A m \in Mods : worker[m] \notin {"running", "asked"}

Obeying == Failing \cap {"shutdown", "stop"} = {}

Modular == Inited /\ StatusFits /\ Counted /\ ComingUp /\ (Obeying => GoingDown)
Control == Tracked /\ MainBehind /\ LevelKept /\ Exiting /\ Called
IInv == Types /\ Control /\ Modular

-----------------------------------------------------------------------------
(* The numbers and the threads.                                            *)

LEMMA Numbers ==
    /\ GS!UNKNOWN = 0 /\ GS!INITIALIZING = 1 /\ GS!STARTING = 3 /\ GS!STARTED = 4
    /\ GS!REQUEST_SHUTDOWN = 5 /\ GS!ACCEPT_SHUTDOWN = 6
    /\ GS!SHUTDOWN_UNKNOWN = 0 /\ GS!SHUTDOWN_RIGHT_NOW = 1 /\ GS!SHUTDOWN_GRACEFULLY = 2
    /\ GS!GlobalStates = 0 .. 10
    /\ OK = 0 /\ TIMEDOUT = -2
    /\ GS!OK = 0 /\ GS!TIMEDOUT = -2 /\ GS!ANY_FAILURES = -1 /\ GS!INVALID_STATE = -6
    /\ GS!NOT_OPERATIONAL = -3 /\ GS!NoResult = -99
    /\ Mod!OK = 0 /\ Mod!TIMEDOUT = -2 /\ Mod!ANY_FAILURES = -1 /\ Mod!INVALID_STATE = -6
    /\ Mod!NoResult = -99
  BY DEF GS!UNKNOWN, GS!INITIALIZING, GS!STARTING, GS!STARTED, GS!REQUEST_SHUTDOWN,
         GS!ACCEPT_SHUTDOWN, GS!SHUTDOWN_UNKNOWN, GS!SHUTDOWN_RIGHT_NOW, GS!SHUTDOWN_GRACEFULLY,
         GS!GlobalStates, GS!FINALIZED, OK, TIMEDOUT, GS!OK, GS!TIMEDOUT, GS!ANY_FAILURES,
         GS!INVALID_STATE, GS!NOT_OPERATIONAL, GS!NoResult, Mod!OK, Mod!TIMEDOUT,
         Mod!ANY_FAILURES, Mod!INVALID_STATE, Mod!NoResult

\* The main loop's thread is the main thread or one of its own.
LEMMA Threads ==
    /\ Actors = {Main, Looper, Signal} /\ Main # Looper /\ Main # Signal /\ Looper # Signal
    /\ Nobody \notin Actors
    /\ L \in Actors \ {Signal}
    /\ do_thread => L = Looper
    /\ ~do_thread => L = Main
  BY LifecycleAssumption DEF Actors, L

LEMMA ModuleNumbers ==
    /\ Len(Registered) \in Nat
    /\ Mods = 1 .. Len(Registered)
    /\ Mod!Slots = Mods
    /\ s_modules = Registered => Mod!N = Len(Registered)
  BY LifecycleAssumption DEF Mods, Mod!Slots, Mod!N

LEMMA RunningValues ==
    /\ Mod!Running["initialize"] = "INITIALIZING" /\ Mod!Running["start"] = "STARTING"
    /\ Mod!Running["shutdown"] = "SHUTTINGDOWN" /\ Mod!Running["stop"] = "STOPPING"
    /\ Mod!Running["wait"] = "WAITING" /\ Mod!Running["finalize"] = "FINALIZING"
  BY DEF Mod!Running

-----------------------------------------------------------------------------
(* What the tracker's calls do to the tracker.                             *)

\* A thread's call leaves what the others have got, and expires nobody's wait.
Others(t) ==
    \A u \in Actors \ {t} : /\ out'[u] = out[u] /\ at'[u] = at[u] /\ want'[u] = want[u]
                            /\ woken'[u] = "timedout" => woken[u] = "timedout"

LEMMA SetEffect ==
    ASSUME TrackerTypes, NEW t \in Actors, NEW s \in 1 .. 6, GS!Set(t, s)
    PROVE  /\ TrackerTypes' /\ Others(t)
           /\ s_gs' = (IF s >= s_gs THEN s ELSE s_gs)
           /\ s_gl' = s_gl /\ at' = at /\ want' = want
  BY Numbers DEF TrackerTypes, Others, GS!Set, GS!s_is_valid_state, GS!Done, GS!NotifyFrom,
                 GS!Asleep, GS!NoOutput

LEMMA GetEffect ==
    ASSUME TrackerTypes, NEW t \in Actors, GS!Get(t)
    PROVE  /\ TrackerTypes' /\ Others(t)
           /\ s_gs' = s_gs /\ s_gl' = s_gl /\ at' = at /\ want' = want
           /\ out'[t].gs = s_gs
  BY Numbers DEF TrackerTypes, Others, GS!Get, GS!Done

\* A pass of the wait: t sleeps on, or has got the state and the level.
LEMMA PassEffect ==
    ASSUME TrackerTypes, NEW t \in Actors, NEW s \in {4, 5}, GS!WaitPass(t, s),
           want' = [want EXCEPT ![t] = s]
    PROVE  /\ TrackerTypes' /\ Others(t)
           /\ s_gs' = s_gs /\ s_gl' = s_gl /\ want'[t] = s /\ woken'[t] = "no"
           /\ \/ at'[t] = "wait_for"
              \/ at'[t] = "none" /\ s_gs >= s /\ out'[t].ret = OK /\ out'[t].gl = s_gl
  <1>1. s_gs < s => s_gs < 6
    BY Numbers DEF TrackerTypes
  <1>2. CASE GS!MustWait(s)
    BY <1>2, Numbers DEF TrackerTypes, Others, GS!WaitPass, GS!SleepIn
  <1>3. CASE ~GS!MustWait(s)
    <2>1. s_gs >= s
      BY <1>1, <1>3, Numbers DEF TrackerTypes, GS!MustWait, GS!IS_GLOBAL_STATE_SHUTDOWN
    <2>2. GS!WaitResult(s) = OK
      BY <2>1, Numbers DEF TrackerTypes, GS!WaitResult
    <2>3. /\ at' = [at EXCEPT ![t] = "none"]
          /\ out' = [out EXCEPT ![t] = [ret |-> OK, gs |-> s_gs, gl |-> s_gl]]
          /\ woken' = [woken EXCEPT ![t] = "no"] /\ s_gs' = s_gs /\ s_gl' = s_gl
      BY <1>3, <2>2 DEF GS!WaitPass, GS!Done
    <2> QED BY <2>1, <2>3, Numbers DEF TrackerTypes, Others
  <1> QED BY <1>2, <1>3

LEMMA WaitForEffect ==
    ASSUME TrackerTypes, NEW t \in Actors, NEW s \in {4, 5}, NEW b, GS!WaitFor(t, s, b)
    PROVE  /\ TrackerTypes' /\ Others(t)
           /\ s_gs' = s_gs /\ s_gl' = s_gl /\ want'[t] = s /\ woken'[t] = "no"
           /\ \/ at'[t] = "wait_for"
              \/ at'[t] = "none" /\ s_gs >= s /\ out'[t].ret = OK /\ out'[t].gl = s_gl
  BY PassEffect DEF GS!WaitFor

LEMMA WaitForReturnsEffect ==
    ASSUME TrackerTypes, NEW t \in Actors, want[t] \in {4, 5}, GS!WaitForReturns(t)
    PROVE  /\ TrackerTypes' /\ Others(t)
           /\ s_gs' = s_gs /\ s_gl' = s_gl /\ want'[t] = want[t] /\ woken'[t] = "no"
           /\ \/ at'[t] = "wait_for"
              \/ at'[t] = "none" /\ s_gs >= want[t] /\ out'[t].ret = OK /\ out'[t].gl = s_gl
              \/ at'[t] = "none" /\ out'[t].ret = TIMEDOUT /\ woken[t] = "timedout"
  <1>1. want' = want /\ want' = [want EXCEPT ![t] = want[t]]
    BY DEF GS!WaitForReturns, TrackerTypes
  <1>2. CASE woken[t] = "ok" /\ GS!WaitPass(t, want[t])
    BY <1>1, <1>2, PassEffect
  <1>3. CASE /\ woken[t] = "timedout" /\ woken' = [woken EXCEPT ![t] = "no"]
             /\ GS!Done(t, GS!NoOutput(GS!TIMEDOUT)) /\ UNCHANGED <<s_gs, s_gl>>
    BY <1>1, <1>3, Numbers DEF GS!Done, GS!NoOutput, TrackerTypes, Others
  <1> QED BY <1>2, <1>3 DEF GS!WaitForReturns

LEMMA RequestEffect ==
    ASSUME TrackerTypes, NEW t \in Actors, NEW l \in {1, 2}, GS!RequestShutdown(t, l)
    PROVE  /\ TrackerTypes' /\ Others(t) /\ want' = want
           /\ \/ s_gs < 5 /\ s_gs' = 5 /\ s_gl' = l
              \/ s_gs >= 5 /\ s_gs' = s_gs /\ s_gl' = s_gl
  <1>0. s_gs \in Int
    BY Numbers DEF TrackerTypes
  <1>1. CASE s_gs < 5
    <2>1. /\ s_gs' = 5 /\ s_gl' = l /\ want' = want /\ out' = out
          /\ at' = [at EXCEPT ![t] = "request"] /\ woken' = GS!NotifyFrom(t)
      BY <1>0, <1>1, Numbers DEF GS!RequestShutdown, GS!IS_GLOBAL_STATE_SHUTDOWN, GS!SleepIn
    <2>2. woken' \in [Actors -> {"no", "ok", "timedout"}]
      BY <2>1 DEF GS!NotifyFrom, TrackerTypes
    <2>3. \A u \in Actors : woken'[u] = "timedout" => woken[u] = "timedout"
      BY <2>1 DEF GS!NotifyFrom
    <2>4. TrackerTypes'
      <3>1. s_gs' \in GS!GlobalStates /\ s_gl' \in 0 .. 2
        BY <2>1, Numbers
      <3>2. at' \in [Actors -> {"none", "wait_for", "request"}]
        BY <2>1 DEF TrackerTypes
      <3> QED BY <2>1, <2>2, <3>1, <3>2 DEF TrackerTypes
    <2> QED BY <1>1, <2>1, <2>3, <2>4 DEF TrackerTypes, Others
  <1>2. CASE s_gs >= 5
    <2>1. /\ s_gs' = s_gs /\ s_gl' = s_gl /\ want' = want
          /\ at' = [at EXCEPT ![t] = "none"] /\ woken' = woken
          /\ out' = [out EXCEPT ![t] = GS!NoOutput(GS!ANY_FAILURES)]
      BY <1>0, <1>2, Numbers DEF GS!RequestShutdown, GS!IS_GLOBAL_STATE_SHUTDOWN, GS!Done
    <2>2. GS!NoOutput(GS!ANY_FAILURES) \in [ret : Int, gs : GS!GlobalStates, gl : 0 .. 2]
      BY Numbers DEF GS!NoOutput
    <2>3. TrackerTypes'
      BY <2>1, <2>2 DEF TrackerTypes
    <2> QED BY <1>2, <2>1, <2>3 DEF TrackerTypes, Others
  <1> QED BY <1>1, <1>2, Numbers DEF TrackerTypes

LEMMA RequestReturnsEffect ==
    ASSUME TrackerTypes, NEW t \in Actors, GS!RequestReturns(t)
    PROVE  /\ TrackerTypes' /\ Others(t)
           /\ s_gs' = s_gs /\ s_gl' = s_gl /\ want' = want /\ at[t] = "request"
  <1>1. /\ s_gs' = s_gs /\ s_gl' = s_gl /\ want' = want /\ at[t] = "request"
        /\ woken' = [woken EXCEPT ![t] = "no"]
    BY DEF GS!RequestReturns
  <1>2. CASE GS!SleepIn(t, "request")
    BY <1>1, <1>2 DEF GS!SleepIn, TrackerTypes, Others
  <1>3. CASE GS!Done(t, GS!NoOutput(GS!OK))
    BY <1>1, <1>3, Numbers DEF GS!Done, GS!NoOutput, TrackerTypes, Others
  <1> QED BY <1>2, <1>3 DEF GS!RequestReturns

-----------------------------------------------------------------------------
(* Steps that leave the modules alone.                                     *)

\* What Modular says of the module manager.
modules == <<s_modules, m_status, worker, finalized, s_n_finalized_modules, s_is_mods_inited, bulk>>

LEMMA NoModule ==
    ASSUME UNCHANGED modules, UNCHANGED do_thread
    PROVE  /\ UNCHANGED <<s_modules, m_status, worker, finalized, s_n_finalized_modules,
                          s_is_mods_inited, bulk>>
           /\ L' = L /\ call' = call
           /\ \A m : Behind(m)' = Behind(m) /\ Mod!HasThread(m)' = Mod!HasThread(m)
                     /\ Told(m)' = Told(m) /\ Mod!Finalizable(m)' = Mod!Finalizable(m)
           /\ \A op : InCall(op)' = InCall(op)
  BY DEF modules, L, call, Behind, Mod!HasThread, Told, Mod!Finalizable, InCall

\* The main loop stays where it is.
LEMMA Still ==
    ASSUME Modular, UNCHANGED modules, UNCHANGED <<do_thread, mlpc, ml_gl>>, exited => exited'
    PROVE  Modular'
  <1> USE NoModule
  <1>1. mlpc' = mlpc /\ UNCHANGED <<s_modules, m_status, worker, finalized, s_n_finalized_modules,
                                    s_is_mods_inited, bulk>>
    OBVIOUS
  <1>2. Inited'
    BY <1>1 DEF Modular, Inited
  <1>3. StatusFits'
    BY <1>1 DEF Modular, StatusFits, Fits
  <1>4. Counted'
    BY <1>1 DEF Modular, Counted
  <1>5. ComingUp'
    BY <1>1 DEF Modular, ComingUp
  <1>6. Obeying => GoingDown'
    BY <1>1 DEF Modular, GoingDown
  <1> QED BY <1>2, <1>3, <1>4, <1>5, <1>6 DEF Modular

\* The main loop moves on between the bulk calls of its way up.
Uninited == {"off", "begin", "handler", "set_initializing", "initialize", "returned"}
AllStarted == Running \cup {"set_started", "epilogue"}

LEMMA Moves ==
    ASSUME Modular, UNCHANGED modules, UNCHANGED <<do_thread, exited>>, call.op = "none",
           mlpc \in Early \cup Running \cup {"epilogue"},
           \/ mlpc' \in Early \cup Running \cup {"epilogue", "canceled", "shutdown"}
           \/ mlpc' = "returned" /\ ml_gl' = GS!SHUTDOWN_UNKNOWN,
           mlpc' \in AllStarted \cup {"shutdown"} => mlpc \in AllStarted,
           mlpc \in Uninited => mlpc' \in Uninited
    PROVE  Modular'
  <1> USE NoModule
  <1>1. UNCHANGED <<s_modules, m_status, worker, finalized, s_n_finalized_modules,
                    s_is_mods_inited, bulk>>
    OBVIOUS
  <1>2. Inited'
    BY <1>1 DEF Modular, Inited, Uninited
  <1>3. StatusFits'
    BY <1>1 DEF Modular, StatusFits, Fits
  <1>4. Counted'
    BY <1>1 DEF Modular, Counted, InCall, Early, Running, Up
  <1>5. ComingUp'
    BY <1>1 DEF Modular, ComingUp, AllStarted, InCall
  <1>6. GoingDown'
    BY <1>1 DEF GoingDown, InCall, Early, Running, Up
  <1> QED BY <1>2, <1>3, <1>4, <1>5, <1>6 DEF Modular

-----------------------------------------------------------------------------
(* The main loop.                                                          *)

\* A main loop that runs is not the exiting thread: if anybody exits, it is the main
\* thread, next to the main loop's.
LEMMA LoopRuns ==
    ASSUME IInv, ~exited, exiter # L
    PROVE  /\ exitpc \notin {"finalize", "finalizing"}
           /\ exitpc # "none" => do_thread /\ exiter = Main /\ mainpc \in {"exit", "waited"}
  BY Threads DEF IInv, Types, PlaceTypes, Control, Exiting

LEMMA LoopSetsInv == ASSUME IInv, LoopSets PROVE IInv'
  <1> USE DEF IInv, Types, Control
  <1>1. /\ ~exited /\ exiter # L /\ call.op = "none" /\ at[L] = "none"
        /\ UNCHANGED <<modvars, do_thread, loop, ml_gl, mainpc, exitvars, sigvars>>
    BY DEF LoopSets, Runs, Tracker, Goto, call
  <1>2. PICK s \in {1, 3, 4, 6} :
          /\ GS!Set(L, s)
          /\ \/ mlpc = "set_initializing" /\ s = 1 /\ mlpc' = "initialize"
             \/ mlpc = "set_starting" /\ s = 3 /\ mlpc' = "start"
             \/ mlpc = "set_started" /\ s = 4 /\ mlpc' = "post_hook"
             \/ mlpc = "accept" /\ s = 6 /\ mlpc' = (IF loop = "callout" THEN "leave" ELSE "epilogue")
             \/ mlpc = "epilogue" /\ s = 6 /\ mlpc' = "shutdown"
    BY Numbers DEF LoopSets, Tracker, Goto
  <1>3. /\ TrackerTypes' /\ Others(L)
        /\ s_gs' = (IF s >= s_gs THEN s ELSE s_gs)
        /\ s_gl' = s_gl /\ at' = at /\ want' = want
    BY <1>2, SetEffect, Threads
  <1>4. s_gs \in Int /\ s_gs' \in Int /\ s_gs' >= s_gs
    BY <1>2, <1>3, Numbers DEF TrackerTypes
  <1>5. UNCHANGED modules /\ L' = L /\ call' = call
    BY <1>1, NoModule DEF modvars, modules
  <1>6. ModuleTypes' /\ PlaceTypes'
    BY <1>1, <1>2, <1>5, Threads
       DEF ModuleTypes, PlaceTypes, modvars, exitvars, Places, Early, Running, Up, Down
  <1>7. Tracked'
    <2>0. sigpc' = "handling" => out'[Signal].gs <= s_gs'
      BY <1>1, <1>3, <1>4, Threads, Numbers DEF Tracked, Others, sigvars, TrackerTypes
    <2>1. CASE mlpc \in {"set_initializing", "set_starting"}
      <3>1. s_gs < 4 /\ s_gs' < 4 /\ mlpc' \in {"initialize", "start"}
        BY <1>2, <1>3, <1>4, <2>1, Numbers DEF Tracked, Early
      <3> QED BY <1>4, <2>0, <3>1, Numbers DEF Tracked, Down
    <2>2. CASE mlpc = "set_started"
      <3>1. s_gs < 4 /\ s_gs' = 4 /\ mlpc' = "post_hook"
        BY <1>2, <1>3, <1>4, <2>2, Numbers DEF Tracked, Early
      <3> QED BY <1>4, <2>0, <3>1, Numbers DEF Tracked, Down, Early
    <2>3. CASE mlpc \in {"accept", "epilogue"}
      <3>1. s_gs' >= 6 /\ mlpc' \in {"leave", "epilogue", "shutdown"}
        BY <1>2, <1>3, <1>4, <2>3
      <3> QED BY <1>4, <2>0, <3>1, Numbers DEF Tracked, Down, Early
    <2> QED BY <1>2, <2>1, <2>2, <2>3
  <1>8. MainBehind'
    BY <1>1, <1>2, <1>3, <1>4, Numbers, Threads DEF MainBehind, Others
  <1>9. LevelKept'
    BY <1>1, <1>2, <1>3, <1>4, <1>5, Numbers DEF LevelKept, Early, Up
  <1>10. Exiting'
    BY <1>1, <1>4, <1>5, LoopRuns, Numbers DEF Exiting, exitvars, InCall
  <1>11. Called'
    BY <1>1, <1>2, <1>3, <1>4, <1>5, Numbers, Threads DEF Called, modvars, exitvars
  <1>12. Modular'
    BY <1>1, <1>2, <1>5, Moves DEF exitvars, Early, Running, Up, AllStarted, Uninited
  <1> QED BY <1>3, <1>6, <1>7, <1>8, <1>9, <1>10, <1>11, <1>12

LEMMA LoopDecidesInv == ASSUME IInv, LoopDecides PROVE IInv'
  <1> USE DEF IInv, Types, Control
  <1>1. /\ ~exited /\ exiter # L /\ call.op = "none" /\ at[L] = "none"
        /\ UNCHANGED <<gsvars, modvars, do_thread, loop, ml_gl, mainpc, exitvars, sigvars>>
    BY DEF LoopDecides, Runs, Goto, call
  <1>2. \/ mlpc = "begin" /\ mlpc' \in {"returned", "handler", "set_initializing"}
        \/ mlpc = "handler" /\ mlpc' \in {"returned", "set_initializing"}
        \/ mlpc = "pre_hook" /\ mlpc' \in {"returned", "set_starting"}
        \/ mlpc = "post_hook" /\ mlpc' \in {"returned", "enter"}
        \/ mlpc = "enter" /\ mlpc' \in {"returned", "idle"}
        \/ mlpc = "enter" /\ mlpc' = "start_callout" /\ loop = "callout"
    BY DEF LoopDecides, Goto
  <1>3. UNCHANGED modules /\ L' = L /\ call' = call
    BY <1>1, NoModule DEF modvars, modules
  <1>4. TrackerTypes' /\ ModuleTypes' /\ PlaceTypes'
    BY <1>1, <1>2, <1>3, Threads
       DEF TrackerTypes, ModuleTypes, PlaceTypes, gsvars, modvars, exitvars, Places, Early, Running, Up, Down
  <1>5. ~(s_gs >= 6) /\ ml_gl = 0
    BY <1>2, Numbers DEF Tracked, LevelKept, Early, Up, Down
  <1>6. Tracked'
    BY <1>1, <1>2, <1>5, Numbers DEF Tracked, gsvars, sigvars, Early, Running, Up, Down
  <1>7. MainBehind' /\ LevelKept'
    BY <1>1, <1>2, <1>3, <1>5, Threads, Numbers DEF MainBehind, LevelKept, gsvars
  <1>8. Exiting'
    BY <1>1, <1>3, LoopRuns DEF Exiting, exitvars, InCall, gsvars
  <1>9. Called'
    BY <1>1, <1>2, <1>3, Threads DEF Called, modvars, exitvars, gsvars
  <1>10. Modular'
    BY <1>1, <1>2, <1>3, <1>5, Moves, Numbers
       DEF exitvars, gsvars, Early, Running, Up, AllStarted, Uninited
  <1> QED BY <1>4, <1>6, <1>7, <1>8, <1>9, <1>10

\* While the main loop is up no call is open and the shutdown is not accepted, and
\* where it ends no call is open either.
LEMMA NoCall ==
    ASSUME IInv, ~exited, mlpc \in Up \cup {"leave"}
    PROVE  /\ call.op = "none" /\ exiter # L
           /\ mlpc # "leave" => ~(s_gs >= GS!ACCEPT_SHUTDOWN) /\ ml_gl = 0
           /\ exitpc \notin {"finalize", "finalizing"}
  <1> USE DEF IInv, Types, Control
  <1>1. exitpc \notin {"finalize", "finalizing"}
    BY DEF Exiting, Up
  <1>2. call.op = "none"
    BY <1>1, Threads DEF Called, ModuleTypes, Calls, Mod!Forward, Mod!Backward, call, Up
  <1>3. exiter # L
    BY <1>1, Threads DEF Exiting, Up
  <1>4. mlpc # "leave" => ~(s_gs >= GS!ACCEPT_SHUTDOWN) /\ ml_gl = 0
    BY Numbers DEF Tracked, LevelKept, Up, Down
  <1> QED BY <1>1, <1>2, <1>3, <1>4

\* The main loop of the callouts around its idle procedure.
LEMMA LoopCalloutsInv == ASSUME IInv, LoopCallouts PROVE IInv'
  <1> USE DEF IInv, Types, Control
  <1>1. /\ ~exited /\ at[L] = "none"
        /\ UNCHANGED <<modvars, do_thread, loop, ml_gl, mainpc, exitvars, sigvars>>
        /\ \/ GS!WaitFor(L, GS!STARTED, FALSE) /\ mlpc' = "entered"
           \/ UNCHANGED gsvars /\ mlpc' \in {"epilogue", "idle", "leave"}
        /\ mlpc \in {"start_callout", "entered", "waiting", "leave"}
    BY DEF LoopCallouts, Runs, Tracker, Goto
  <1>2. UNCHANGED modules /\ L' = L /\ call' = call
    BY <1>1, NoModule DEF modvars, modules
  <1>3. /\ call.op = "none" /\ exiter # L /\ exitpc \notin {"finalize", "finalizing"}
        /\ mlpc # "leave" => ~(s_gs >= 6) /\ ml_gl = 0
    BY <1>1, NoCall, Numbers DEF Up
  <1>4. loop = "callout" /\ (mlpc = "leave" => mlpc' = "epilogue")
    BY <1>1 DEF LevelKept, LoopCallouts, Goto
  <1>5. TrackerTypes' /\ Others(L) /\ s_gs' = s_gs /\ s_gl' = s_gl
    <2>1. CASE UNCHANGED gsvars
      BY <2>1 DEF TrackerTypes, Others, gsvars
    <2>2. CASE GS!WaitFor(L, GS!STARTED, FALSE)
      BY <2>2, WaitForEffect, Threads, Numbers
    <2> QED BY <1>1, <2>1, <2>2
  <1>6. ModuleTypes' /\ PlaceTypes'
    BY <1>1, <1>2, Threads DEF ModuleTypes, PlaceTypes, modvars, exitvars, Places, Running, Up
  <1>7. Tracked'
    BY <1>1, <1>3, <1>4, <1>5, Numbers, Threads DEF Tracked, Others, sigvars, Early, Running, Up, Down
  <1>8. MainBehind'
    BY <1>1, <1>5, Threads DEF MainBehind, Others
  <1>9. LevelKept'
    BY <1>1, <1>2, <1>3, <1>4, <1>5, Numbers DEF LevelKept, Early, Up
  <1>10. Exiting'
    BY <1>1, <1>2, <1>3, <1>5 DEF Exiting, exitvars, InCall
  <1>11. Called'
    BY <1>1, <1>2, <1>3, <1>5, Threads DEF Called, modvars, exitvars
  <1>12. Modular'
    BY <1>1, <1>2, <1>3, Moves, Numbers DEF exitvars, Early, Running, Up, AllStarted, Uninited
  <1> QED BY <1>5, <1>6, <1>7, <1>8, <1>9, <1>10, <1>11, <1>12

LEMMA IdleWaitsInv ==
    ASSUME IInv, LoopIdles, mlpc = "idle" \/ at[L] # "none"
    PROVE  IInv'
  <1> USE DEF IInv, Types, Control
  <1>1. /\ ~exited /\ mlpc \in {"idle", "idling"} /\ mlpc' = "idling"
        /\ UNCHANGED <<modvars, do_thread, loop, ml_gl, mainpc, exitvars, sigvars>>
        /\ \/ GS!WaitFor(L, GS!REQUEST_SHUTDOWN, TRUE)
           \/ mlpc = "idling" /\ GS!WaitForReturns(L)
    BY DEF LoopIdles, Tracker, Goto, Runs, loopvars
  <1>2. UNCHANGED modules /\ L' = L /\ call' = call
    BY <1>1, NoModule DEF modvars, modules
  <1>3. /\ call.op = "none" /\ exiter # L /\ exitpc \notin {"finalize", "finalizing"}
        /\ ~(s_gs >= 6) /\ ml_gl = 0
    BY <1>1, NoCall, Numbers DEF Up
  <1>4. /\ TrackerTypes' /\ Others(L)
        /\ s_gs' = s_gs /\ s_gl' = s_gl /\ want'[L] = 5 /\ woken'[L] = "no"
        /\ \/ at'[L] = "wait_for"
           \/ at'[L] = "none" /\ s_gs >= 5 /\ out'[L].ret = OK /\ out'[L].gl = s_gl
           \/ at'[L] = "none" /\ out'[L].ret = TIMEDOUT
    <2>1. CASE GS!WaitFor(L, GS!REQUEST_SHUTDOWN, TRUE)
      BY <2>1, WaitForEffect, Threads, Numbers
    <2>2. CASE mlpc = "idling" /\ GS!WaitForReturns(L)
      <3>1. want[L] = 5
        BY <2>2, Numbers DEF LevelKept, GS!WaitForReturns
      <3> QED BY <2>2, <3>1, WaitForReturnsEffect, Threads
    <2> QED BY <1>1, <2>1, <2>2
  <1>5. ModuleTypes' /\ PlaceTypes'
    BY <1>1, <1>2, Threads DEF ModuleTypes, PlaceTypes, modvars, exitvars, Places, Running, Up
  <1>6. Tracked'
    BY <1>1, <1>3, <1>4, Numbers, Threads DEF Tracked, Others, sigvars, Early, Running, Up, Down
  <1>7. MainBehind'
    BY <1>1, <1>4, Threads DEF MainBehind, Others
  <1>8. LevelKept'
    BY <1>1, <1>2, <1>3, <1>4, Numbers DEF LevelKept
  <1>9. Exiting'
    BY <1>1, <1>2, <1>3, <1>4 DEF Exiting, exitvars, InCall
  <1>10. Called'
    BY <1>1, <1>2, <1>3, <1>4, Threads DEF Called, modvars, exitvars
  <1>11. Modular'
    BY <1>1, <1>2, <1>3, <1>4, Moves, Numbers DEF exitvars, Early, Running, Up, AllStarted, Uninited
  <1> QED BY <1>4, <1>5, <1>6, <1>7, <1>8, <1>9, <1>10, <1>11

\* The idle main loop looks at what the wait has returned.
LEMMA IdleDecidesInv ==
    ASSUME IInv, LoopIdles, mlpc = "idling", at[L] = "none"
    PROVE  IInv'
  <1> USE DEF IInv, Types, Control
  <1>1. /\ ~exited /\ UNCHANGED <<gsvars, modvars, do_thread, loop, mainpc, exitvars, sigvars>>
        /\ mlpc' = IF out[L].ret = OK THEN "accept"
                   ELSE IF loop = "callout" THEN "waiting"
                   ELSE IF out[L].ret = TIMEDOUT THEN "idle" ELSE "epilogue"
        /\ ml_gl' = IF mlpc' \in {"idle", "waiting"} THEN ml_gl ELSE out[L].gl
    BY DEF LoopIdles, GS!WaitForReturns, Tracker
  <1>2. \/ mlpc' \in {"idle", "waiting"} /\ ml_gl' = ml_gl /\ (mlpc' = "waiting" => loop = "callout")
        \/ mlpc' = "accept" /\ ml_gl' = s_gl /\ s_gs >= 5
    BY <1>1, Numbers DEF LevelKept
  <1>3. UNCHANGED modules /\ L' = L /\ call' = call
    BY <1>1, NoModule DEF modvars, modules
  <1>4. /\ call.op = "none" /\ exiter # L /\ exitpc \notin {"finalize", "finalizing"}
        /\ ~(s_gs >= 6) /\ ml_gl = 0
    BY <1>1, NoCall, Numbers DEF Up
  <1>5. TrackerTypes' /\ ModuleTypes' /\ PlaceTypes'
    BY <1>1, <1>2, <1>3, Threads
       DEF TrackerTypes, ModuleTypes, PlaceTypes, gsvars, modvars, exitvars, Places, Early, Running, Up, Down
  <1>6. Tracked'
    BY <1>1, <1>2, <1>4, Numbers DEF Tracked, gsvars, sigvars, Early, Running, Up, Down
  <1>7. MainBehind' /\ LevelKept'
    <2>1. mlpc' = "accept" => ml_gl' # 0
      BY <1>2, <1>4, Numbers DEF Tracked, TrackerTypes
    <2> QED BY <1>1, <1>2, <1>3, <1>4, <2>1, Threads, Numbers DEF MainBehind, LevelKept, gsvars, Early, Up
  <1>8. Exiting'
    BY <1>1, <1>3, <1>4 DEF Exiting, exitvars, InCall, gsvars
  <1>9. Called'
    BY <1>1, <1>2, <1>3, <1>4, Threads DEF Called, modvars, exitvars, gsvars
  <1>10. Modular'
    BY <1>1, <1>2, <1>3, <1>4, Moves, Numbers
       DEF exitvars, gsvars, Early, Running, Up, AllStarted, Uninited
  <1> QED BY <1>5, <1>6, <1>7, <1>8, <1>9, <1>10

LEMMA LoopCanceledInv == ASSUME IInv, LoopCanceled PROVE IInv'
  <1> USE DEF IInv, Types, Control
  <1>1. /\ ~exited /\ mlpc \in {"idling", "leave"} /\ mlpc' = "canceled"
        /\ UNCHANGED <<s_gs, s_gl, want, timed, out, modvars, do_thread, loop, ml_gl, mainpc, exitvars,
                       sigvars>>
        /\ \/ UNCHANGED <<at, woken>>
           \/ at' = [at EXCEPT ![L] = "none"] /\ woken' = [woken EXCEPT ![L] = "no"]
    BY DEF LoopCanceled, Goto
  <1>2. UNCHANGED modules /\ L' = L /\ call' = call
    BY <1>1, NoModule DEF modvars, modules
  <1>3. call.op = "none" /\ exiter # L /\ exitpc \notin {"finalize", "finalizing"}
    BY <1>1, NoCall, Numbers DEF Up
  <1>4. TrackerTypes' /\ ModuleTypes' /\ PlaceTypes'
    BY <1>1, <1>2, Threads DEF TrackerTypes, ModuleTypes, PlaceTypes, modvars, exitvars, Places
  <1>5. Tracked'
    BY <1>1, <1>3, Numbers DEF Tracked, sigvars, Early, Running, Up, Down
  <1>6. MainBehind' /\ LevelKept'
    BY <1>1, <1>2, <1>3, Threads DEF MainBehind, LevelKept, TrackerTypes, Early, Up
  <1>7. Exiting'
    BY <1>1, <1>2, <1>3 DEF Exiting, exitvars, InCall
  <1>8. Called'
    BY <1>1, <1>2, <1>3, Threads DEF Called, modvars, exitvars
  <1>9. Modular'
    BY <1>1, <1>2, <1>3, Moves, Numbers DEF exitvars, Early, Running, Up, AllStarted, Uninited
  <1> QED BY <1>4, <1>5, <1>6, <1>7, <1>8, <1>9

-----------------------------------------------------------------------------
(* The main thread.                                                        *)

\* Steps of the main and of the signal thread that change where these are only.
LEMMA QuietInv ==
    ASSUME IInv, UNCHANGED <<gsvars, modvars, loopvars, exitvars>>,
           sigpc' = "handling" => sigpc = "handling",
           \/ mainpc' = mainpc
           \/ mainpc \in {"application", "look", "set"} /\ mainpc' \in {"look", "set", "go"}
           \/ mainpc = "starting" /\ at[Main] = "none" /\ mainpc' \in {"exit", "wait_thread"}
           \/ mainpc \in {"wait_thread", "wait_canceled"} /\ mainpc' \in {"wait_canceled", "waited"}
    PROVE  IInv'
  <1> USE DEF IInv, Types, Control
  <1>1. UNCHANGED modules /\ L' = L /\ call' = call
    BY NoModule DEF modvars, modules, loopvars
  <1>2. TrackerTypes' /\ ModuleTypes' /\ PlaceTypes'
    BY <1>1, Threads
       DEF TrackerTypes, ModuleTypes, PlaceTypes, gsvars, modvars, loopvars, exitvars, MainPlaces
  <1>3. Tracked'
    BY DEF Tracked, gsvars, loopvars
  <1>4. MainBehind'
    BY DEF MainBehind, gsvars, loopvars
  <1>5. LevelKept'
    BY <1>1 DEF LevelKept, gsvars, loopvars
  <1>6. Exiting'
    BY <1>1 DEF Exiting, exitvars, loopvars, gsvars, InCall
  <1>7. Called'
    BY <1>1 DEF Called, modvars, exitvars, loopvars, gsvars
  <1>8. Modular'
    BY <1>1, Still DEF exitvars, loopvars, gsvars
  <1> QED BY <1>2, <1>3, <1>4, <1>5, <1>6, <1>7, <1>8

LEMMA HandlersInv == ASSUME IInv, ApplicationSets \/ SetFailsafeHandler PROVE IInv'
  <1>1. sigpc' = sigpc
    BY DEF ApplicationSets, SetFailsafeHandler, Sg!gallus_signal, sigvars
  <1> QED BY <1>1, QuietInv DEF ApplicationSets, SetFailsafeHandler

\* The main loop begins, in a thread of its own or in the main thread.
LEMMA MainEntersInv == ASSUME IInv, MainEnters PROVE IInv'
  <1> USE DEF IInv, Types, Control
  <1>1. /\ ~exited /\ mainpc = "go" /\ mlpc = "off"
        /\ UNCHANGED <<gsvars, modvars, do_thread, loop, ml_gl, sigvars, exitvars>>
        /\ \/ do_thread /\ mainpc' = "start_thd" /\ mlpc' = "off"
           \/ ~do_thread /\ mainpc' = "in_loop" /\ mlpc' = "begin"
    BY DEF MainEnters, MainBehind, PlaceTypes
  <1>2. UNCHANGED modules /\ L' = L /\ call' = call
    BY <1>1, NoModule DEF modvars, modules
  <1>3. exitpc = "none" /\ exiter = Nobody /\ ~(s_gs >= 4) /\ ~(s_gs >= 6) /\ call.op = "none"
    <2>1. exitpc \notin {"finalize", "finalizing"}
      BY <1>1 DEF Exiting
    <2>2. exitpc = "none"
      BY <1>1, <2>1 DEF Exiting
    <2>3. ~(s_gs >= 4) /\ ~(s_gs >= 6)
      BY <1>1, Numbers DEF Tracked, Early, Down
    <2>4. call.op = "none"
      BY <1>1, <2>1, Threads DEF Called, ModuleTypes, Calls, Mod!Forward, Mod!Backward, call
    <2> QED BY <2>2, <2>3, <2>4 DEF Exiting
  <1>4. TrackerTypes' /\ ModuleTypes' /\ PlaceTypes'
    BY <1>1, <1>2, Threads
       DEF TrackerTypes, ModuleTypes, PlaceTypes, gsvars, modvars, exitvars, MainPlaces, Places, Early
  <1>5. Tracked'
    BY <1>1, <1>3, Numbers DEF Tracked, gsvars, sigvars, Early, Down
  <1>6. MainBehind' /\ LevelKept'
    BY <1>1, <1>2, <1>3, Numbers DEF MainBehind, LevelKept, gsvars, Early, Up
  <1>7. Exiting'
    BY <1>1, <1>3 DEF Exiting, exitvars
  <1>8. Called'
    BY <1>1, <1>2, <1>3 DEF Called, modvars, exitvars, gsvars
  <1>9. Modular'
    BY <1>1, <1>2, <1>3, Moves, Numbers
       DEF exitvars, gsvars, Early, Running, Up, AllStarted, Uninited
  <1> QED BY <1>4, <1>5, <1>6, <1>7, <1>8, <1>9

LEMMA MainStartsInv == ASSUME IInv, MainStarts PROVE IInv'
  <1> USE DEF IInv, Types, Control
  <1>1. /\ ~exited /\ mainpc = "start_thd" /\ mlpc = "off" /\ mainpc' = "starting" /\ mlpc' = "begin"
        /\ UNCHANGED <<modvars, do_thread, loop, ml_gl, sigvars, exitvars>>
        /\ GS!WaitFor(Main, GS!STARTED, FALSE)
    BY DEF MainStarts, MainBehind, Tracker
  <1>2. UNCHANGED modules /\ L' = L /\ call' = call /\ do_thread
    BY <1>1, NoModule DEF modvars, modules, MainBehind, PlaceTypes
  <1>3. exitpc = "none" /\ exiter = Nobody /\ ~(s_gs >= 4) /\ ~(s_gs >= 6) /\ call.op = "none"
    <2>1. exitpc \notin {"finalize", "finalizing"}
      BY <1>1 DEF Exiting
    <2>2. exitpc = "none"
      BY <1>1, <1>2, <2>1 DEF Exiting
    <2>3. ~(s_gs >= 4) /\ ~(s_gs >= 6)
      BY <1>1, Numbers DEF Tracked, Early, Down
    <2>4. call.op = "none"
      BY <1>1, <2>1, Threads DEF Called, ModuleTypes, Calls, Mod!Forward, Mod!Backward, call
    <2> QED BY <2>2, <2>3, <2>4 DEF Exiting
  <1>4. /\ TrackerTypes' /\ Others(Main) /\ s_gs' = s_gs /\ s_gl' = s_gl
        /\ want'[Main] = 4 /\ woken'[Main] = "no"
        /\ \/ at'[Main] = "wait_for"
           \/ at'[Main] = "none" /\ s_gs >= 4
    BY <1>1, WaitForEffect, Threads, Numbers
  <1>5. ModuleTypes' /\ PlaceTypes'
    BY <1>1, <1>2, Threads DEF ModuleTypes, PlaceTypes, modvars, exitvars, MainPlaces, Places, Early
  <1>6. Tracked'
    BY <1>1, <1>3, <1>4, Numbers, Threads DEF Tracked, Others, sigvars, Early, Down
  <1>7. MainBehind' /\ LevelKept'
    BY <1>1, <1>2, <1>3, <1>4, Numbers DEF MainBehind, LevelKept, Early, Up
  <1>8. Exiting'
    BY <1>1, <1>3 DEF Exiting, exitvars
  <1>9. Called'
    BY <1>1, <1>2, <1>3, <1>4 DEF Called, modvars, exitvars
  <1>10. Modular'
    BY <1>1, <1>2, <1>3, <1>4, Moves, Numbers
       DEF exitvars, Early, Running, Up, AllStarted, Uninited
  <1> QED BY <1>4, <1>5, <1>6, <1>7, <1>8, <1>9, <1>10

LEMMA MainWaitsInv == ASSUME IInv, MainWaits PROVE IInv'
  <1>1. /\ ~exited /\ mainpc \in {"wait_thread", "wait_canceled"}
        /\ mainpc' \in {"wait_canceled", "waited"}
        /\ UNCHANGED <<gsvars, modvars, loopvars, exitvars>> /\ sigpc' = sigpc
    BY DEF MainWaits, sigvars
  <1> QED BY <1>1, QuietInv

-----------------------------------------------------------------------------
(* The tracker's calls by the others: the signal thread, the main thread next to the main  *)
(* loop's, and the exit handler.                                           *)

LEMMA TrackerStepInv ==
    ASSUME IInv, ~exited, NEW t \in Actors,
           UNCHANGED <<modvars, loopvars, mainpc, exiter, exited>>,
           exitpc' = exitpc \/ (exitpc = "request" /\ exitpc' = "requesting"),
           TrackerTypes', Others(t),
           \/ s_gs' = s_gs /\ s_gl' = s_gl
           \/ s_gs >= 4 /\ s_gs < 5 /\ s_gs' = 5 /\ s_gl' \in {1, 2},
           t = L => mlpc # "idling" \/ UNCHANGED <<at, want, out>>,
           t = Main => MainBehind',
           sigpc' = "handling" =>
               (sigpc = "handling" /\ out'[Signal] = out[Signal]) \/ out'[Signal].gs <= s_gs'
    PROVE  IInv'
  <1> USE DEF IInv, Types, Control
  <1>1. UNCHANGED modules /\ L' = L /\ call' = call /\ mlpc' = mlpc
    BY NoModule DEF modvars, modules, loopvars
  <1>2. s_gs \in Int /\ s_gs' \in Int /\ s_gs' >= s_gs /\ (s_gs' >= 6 <=> s_gs >= 6)
        /\ (s_gs >= 5 => s_gs' = s_gs /\ s_gl' = s_gl)
    BY Numbers DEF TrackerTypes
  <1>3. ModuleTypes' /\ PlaceTypes'
    BY <1>1, Threads DEF ModuleTypes, PlaceTypes, modvars, loopvars, ExitPlaces
  <1>4. Tracked'
    <2>1. (s_gs' >= 4 <=> s_gs >= 4) /\ (s_gs >= 5 => s_gs' >= 5)
      BY <1>2
    <2>2. s_gs' = 5 => s_gl' # 0
      BY <1>2, Numbers DEF Tracked
    <2>3. sigpc' = "handling" => out'[Signal].gs <= s_gs'
      <3>1. CASE sigpc = "handling" /\ out'[Signal] = out[Signal]
        BY <1>2, <3>1, Threads, Numbers DEF Tracked, TrackerTypes
      <3> QED BY <3>1
    <2> QED BY <1>1, <1>2, <2>1, <2>2, <2>3, Numbers DEF Tracked
  <1>5. MainBehind'
    <2>1. CASE t # Main
      BY <1>1, <1>2, <2>1, Threads, Numbers DEF MainBehind, Others, loopvars
    <2> QED BY <2>1
  <1>6. LevelKept'
    <2>1. ml_gl # 0 => s_gs >= 5
      BY Numbers DEF LevelKept
    <2>2. CASE t # L
      BY <1>1, <1>2, <2>1, <2>2, Threads, Numbers DEF LevelKept, Others, loopvars
    <2>3. CASE t = L
      BY <1>1, <1>2, <2>1, <2>3, Threads, Numbers DEF LevelKept, loopvars
    <2> QED BY <2>2, <2>3
  <1>7. Exiting'
    BY <1>1, <1>2, Numbers DEF Exiting, loopvars, InCall
  <1>8. Called'
    BY <1>1, <1>2, Numbers DEF Called, modvars, loopvars
  <1>9. Modular'
    BY <1>1, <1>2, Still, Numbers DEF loopvars
  <1> QED BY <1>3, <1>4, <1>5, <1>6, <1>7, <1>8, <1>9

LEMMA MainGoesOnInv == ASSUME IInv, MainGoesOn PROVE IInv'
  <1> USE DEF IInv, Types, Control
  <1>1. CASE Runs(Main) /\ mainpc' \in MainDoes /\ UNCHANGED <<gsvars, modvars>>
    <2>1. at[Main] = "none" /\ mainpc = "starting" /\ mainpc' \in {"exit", "wait_thread"}
      BY <1>1, LifecycleAssumption DEF Runs, MainGoesOn
    <2> QED BY <1>1, <2>1, QuietInv DEF MainGoesOn, sigvars
  <1>2. CASE Tracker(GS!WaitForReturns(Main)) /\ UNCHANGED mainpc
    <2>1. /\ ~exited /\ mainpc = "starting" /\ at[Main] # "none"
          /\ UNCHANGED <<modvars, loopvars, mainpc, sigvars, exitvars>>
          /\ GS!WaitForReturns(Main)
      BY <1>2 DEF MainGoesOn, Tracker, GS!WaitForReturns
    <2>2. do_thread /\ L # Main /\ want[Main] = 4 /\ woken[Main] # "timedout"
      BY <2>1, Threads, Numbers DEF MainBehind, PlaceTypes
    <2>3. /\ TrackerTypes' /\ Others(Main) /\ s_gs' = s_gs /\ s_gl' = s_gl
          /\ want'[Main] = 4 /\ woken'[Main] = "no"
          /\ \/ at'[Main] = "wait_for"
             \/ at'[Main] = "none" /\ s_gs >= 4
      BY <2>1, <2>2, WaitForReturnsEffect, Threads
    <2>4. MainBehind'
      BY <2>1, <2>2, <2>3, Numbers DEF MainBehind, loopvars
    <2> QED BY <2>1, <2>2, <2>3, <2>4, TrackerStepInv, Threads DEF exitvars, sigvars, Others
  <1> QED BY <1>1, <1>2 DEF MainGoesOn

\* The idle main loop's wait has a time limit.
LEMMA IdleTimesOutInv == ASSUME IInv, IdleTimesOut PROVE IInv'
  <1> USE DEF IInv, Types, Control
  <1>1. /\ ~exited /\ UNCHANGED <<modvars, loopvars, mainpc, sigvars, exitvars>>
        /\ UNCHANGED <<s_gs, s_gl, at, want, out>> /\ woken' = [woken EXCEPT ![L] = "timedout"]
    BY DEF IdleTimesOut, Tracker, GS!Expire
  <1>2. TrackerTypes' /\ Others(L)
    BY <1>1, Threads DEF TrackerTypes, Others
  <1>3. L = Main => MainBehind'
    BY <1>1, Threads DEF MainBehind, loopvars, PlaceTypes
  <1> QED BY <1>1, <1>2, <1>3, TrackerStepInv, Threads DEF exitvars, sigvars

-----------------------------------------------------------------------------
(* The signal thread.                                                      *)

LEMMA SignalThreadInv == ASSUME IInv, SignalArrives \/ SignalThread PROVE IInv'
  <1>1. CASE SignalArrives
    BY <1>1, QuietInv DEF SignalArrives, Sg!Arrives
  <1>2. CASE SignalThread
    <2>1. sigpc' # "handling"
      BY <1>2 DEF SignalThread, Sg!Steps, Sg!Refresh, Sg!CallSigwait, Sg!SigwaitReturns,
                  Sg!NextSignal
    <2> QED BY <1>2, <2>1, QuietInv DEF SignalThread
  <1> QED BY <1>1, <1>2

LEMMA SignalCallsInv ==
    ASSUME IInv, SignalReads \/ SignalHandled \/ SignalAnswered
    PROVE  IInv'
  <1> USE DEF IInv, Types, Control
  <1>1. CASE SignalReads
    <2>1. ~exited /\ GS!Get(Signal) /\ UNCHANGED <<modvars, loopvars, mainpc, exitvars>>
      BY <1>1 DEF SignalReads, Tracker
    <2>2. /\ TrackerTypes' /\ Others(Signal)
          /\ s_gs' = s_gs /\ s_gl' = s_gl /\ out'[Signal].gs = s_gs
      BY <2>1, GetEffect, Threads
    <2>3. out'[Signal].gs <= s_gs'
      BY <2>2, Numbers DEF TrackerTypes
    <2> QED BY <2>1, <2>2, <2>3, TrackerStepInv, Threads DEF exitvars
  <1>2. CASE SignalHandled
    <2>1. ~exited /\ sigpc = "handling" /\ sigpc' # "handling"
          /\ UNCHANGED <<modvars, loopvars, mainpc, exitvars>>
      BY <1>2 DEF SignalHandled, Tracker, Sg!NextSignal
    <2>2. CASE UNCHANGED gsvars
      BY <2>1, <2>2, QuietInv
    <2>3. CASE out[Signal].gs = GS!STARTED /\ GS!RequestShutdown(Signal, GS!SHUTDOWN_GRACEFULLY)
      <3>1. /\ TrackerTypes' /\ Others(Signal)
            /\ \/ s_gs < 5 /\ s_gs' = 5 /\ s_gl' = 2
               \/ s_gs >= 5 /\ s_gs' = s_gs /\ s_gl' = s_gl
        BY <2>3, RequestEffect, Threads, Numbers
      <3>2. s_gs >= 4
        BY <2>1, <2>3, Numbers DEF Tracked, TrackerTypes
      <3> QED BY <2>1, <3>1, <3>2, TrackerStepInv, Threads DEF exitvars
    <2> QED BY <1>2, <2>2, <2>3 DEF SignalHandled, Tracker
  <1>3. CASE SignalAnswered
    <2>1. ~exited /\ sigpc = "requesting" /\ sigpc' # "handling"
          /\ UNCHANGED <<modvars, loopvars, mainpc, exitvars>>
      BY <1>3 DEF SignalAnswered, Tracker, Sg!NextSignal, sigvars
    <2>2. CASE UNCHANGED gsvars
      BY <2>1, <2>2, QuietInv
    <2>3. CASE GS!RequestReturns(Signal)
      <3>1. TrackerTypes' /\ Others(Signal) /\ s_gs' = s_gs /\ s_gl' = s_gl
        BY <2>3, RequestReturnsEffect, Threads
      <3> QED BY <2>1, <3>1, TrackerStepInv, Threads DEF exitvars
    <2> QED BY <1>3, <2>2, <2>3 DEF SignalAnswered, Tracker
  <1> QED BY <1>1, <1>2, <1>3

-----------------------------------------------------------------------------
(* The end of the process, and the exit handler but for its finalization.  *)

\* Steps of the exit handler that touch the module manager's lock only, with the conditions
\* that the next place must meet.
LEMMA ExitStepInv ==
    ASSUME IInv, ~exited,
           UNCHANGED <<gsvars, s_gstate, modules, ret, loopvars, mainpc, sigpc>>,
           exitpc' \in ExitPlaces \ {"none", "finalizing"}, exited' \in BOOLEAN,
           exited' \/ exitpc # "finalizing",
           exiter' \in {Nobody, Main, L},
           exiter' = Nobody => exiter = Nobody /\ s_lck' = s_lck,
           \/ exited'
           \/ exiter' = Main /\ exitpc' # "finalize"
              /\ (IF do_thread THEN mainpc \in {"exit", "waited"} ELSE mlpc = "returned")
           \/ exiter' = Main /\ exitpc' = "finalize" /\ ~do_thread /\ mlpc \in {"initialize", "start"},
           exitpc' = "finalize" => call.op \in {"initialize", "start"},
           exitpc' \in {"request", "requesting"} => s_gs >= GS!STARTED
    PROVE  IInv'
  <1> USE DEF IInv, Types, Control
  <1>1. L' = L /\ call' = call /\ mlpc' = mlpc
        /\ UNCHANGED <<s_modules, m_status, worker, finalized, s_n_finalized_modules,
                       s_is_mods_inited, bulk>>
    BY NoModule DEF loopvars
  <1>2. TrackerTypes' /\ ModuleTypes' /\ PlaceTypes'
    BY <1>1, Threads
       DEF TrackerTypes, ModuleTypes, PlaceTypes, gsvars, loopvars, ExitPlaces
  <1>3. Tracked' /\ MainBehind' /\ LevelKept'
    BY <1>1 DEF Tracked, MainBehind, LevelKept, gsvars, loopvars
  <1>4. Exiting'
    BY <1>1 DEF Exiting, gsvars, loopvars, InCall
  <1>5. Called'
    BY <1>1 DEF Called, gsvars, loopvars
  <1>6. Modular'
    BY <1>1, Still DEF loopvars, gsvars
  <1> QED BY <1>2, <1>3, <1>4, <1>5, <1>6

\* A thread calls exit(3): the main thread, or the main loop's in a module's procedure.
LEMMA CallExitInv ==
    ASSUME IInv, NEW t \in {Main, L}, CallExit(t),
           \/ t = Main /\ do_thread /\ mainpc \in {"exit", "waited"}
           \/ t = Main /\ ~do_thread /\ mlpc = "returned"
           \/ t = L /\ call.op \in {"initialize", "start", "shutdown"} /\ Len(Registered) > 0
    PROVE  IInv'
  <1> USE DEF IInv, Types, Control
  <1>1. /\ ~exited /\ exiter = Nobody /\ exiter' = t /\ t # Nobody
        /\ UNCHANGED <<gsvars, s_gstate, modules, ret, loopvars, mainpc, sigpc>>
    BY Threads DEF CallExit, modvars, modules, sigvars
  <1>2. s_lck = (IF call.op = "none" THEN Nobody ELSE L) /\ exitpc \notin {"finalize", "finalizing"}
    BY <1>1, Threads DEF Called, Exiting
  <1>3. CASE s_lck = Nobody
    <2>1. exitpc' = "held" /\ exited' = exited
      BY <1>3 DEF CallExit
    <2>2. call.op = "none"
      BY <1>2, <1>3, Threads
    <2>3. /\ t = Main /\ (IF do_thread THEN mainpc \in {"exit", "waited"} ELSE mlpc = "returned")
      BY <2>2
    <2> QED BY <1>1, <1>2, <2>1, <2>3, ExitStepInv, Threads DEF ExitPlaces, PlaceTypes
  <1>4. CASE s_lck # Nobody
    <2>1. call.op # "none" /\ call.op = (IF mlpc = "wait_again" THEN "wait" ELSE mlpc)
      BY <1>1, <1>2, <1>4 DEF Called
    <2>2. ~(t = Main /\ ~do_thread /\ mlpc = "returned" /\ call.op = "none")
      BY <2>1
    <2>3. exitpc' = IF s_gstate = "UNKNOWN" \/ t # Main THEN "busy"
                    ELSE IF s_gstate \in {"INITIALIZING", "INITIALIZED", "STARTING"} THEN "finalize"
                    ELSE IF s_gstate = "STARTED" THEN "request" ELSE "busy"
      BY <1>4 DEF CallExit
    <2>4. exited' = (exitpc' = "busy")
      BY <1>4 DEF CallExit
    <2>5. call.op \in Mod!Forward \cup Mod!Backward
      BY <2>1, Threads DEF ModuleTypes, Calls, call
    <2>6. CASE t = Main /\ do_thread /\ mainpc \in {"exit", "waited"}
      <3>1. call.op \notin {"initialize", "start"}
        BY <2>1, <2>6, Numbers DEF MainBehind, Tracked, Early
      <3>2. s_gstate = Mod!Running[call.op]
        BY <1>1, <2>1, <3>1 DEF Called
      <3>3. exitpc' = "busy"
        BY <2>3, <2>5, <3>1, <3>2, RunningValues DEF Mod!Forward, Mod!Backward
      <3> QED BY <1>1, <2>3, <2>4, <3>3, ExitStepInv, Threads DEF ExitPlaces, PlaceTypes
    <2>7. CASE t = L /\ call.op \in {"initialize", "start", "shutdown"} /\ Len(Registered) > 0
      <3>1. s_gstate = Mod!Running[call.op]
        BY <1>1, <2>1, <2>7 DEF Called
      <3>2. CASE t = Main /\ call.op \in {"initialize", "start"}
        <4>1. exitpc' = "finalize" /\ (exited' = FALSE)
          <5>1. s_gstate \in {"INITIALIZING", "STARTING"}
            BY <3>1, <3>2, RunningValues
          <5>2. exitpc' = "finalize"
            BY <2>3, <3>2, <5>1
          <5> QED BY <2>4, <5>2
        <4>2. ~do_thread /\ mlpc \in {"initialize", "start"}
          BY <2>1, <2>7, <3>2, Threads
        <4> QED BY <1>1, <1>2, <3>2, <4>1, <4>2, ExitStepInv, Threads DEF ExitPlaces, PlaceTypes
      <3>3. CASE ~(t = Main /\ call.op \in {"initialize", "start"})
        <4>1. exitpc' = "busy" /\ exited'
          <5>1. t # Main \/ s_gstate = "SHUTTINGDOWN"
            BY <2>7, <3>1, <3>3, RunningValues
          <5>2. exitpc' = "busy"
            BY <2>3, <5>1
          <5> QED BY <2>4, <5>2
        <4> QED BY <1>1, <4>1, ExitStepInv, Threads DEF ExitPlaces, PlaceTypes
      <3> QED BY <3>2, <3>3
    <2>8. CASE t = Main /\ ~do_thread /\ mlpc = "returned"
      BY <2>1, <2>5, <2>8 DEF Mod!Forward, Mod!Backward
    <2> QED BY <2>6, <2>7, <2>8
  <1> QED BY <1>3, <1>4

LEMMA ExitsInv == ASSUME IInv, MainExits \/ LoopReturnsToMain \/ ProcExits PROVE IInv'
  <1> USE DEF IInv, Types, Control
  <1>1. CASE MainExits
    <2>1. CallExit(Main) /\ mainpc \in {"exit", "waited"}
      BY <1>1 DEF MainExits
    <2>2. do_thread
      BY <2>1 DEF MainBehind, PlaceTypes
    <2> QED BY <2>1, <2>2, CallExitInv
  <1>2. CASE LoopReturnsToMain
    BY <1>2, CallExitInv DEF LoopReturnsToMain
  <1>3. CASE ProcExits
    <2>1. CallExit(L) /\ call.op \in {"initialize", "start", "shutdown"} /\ ~Mod!Over(call)
      BY <1>3 DEF ProcExits, call
    <2>2. call.i \in 1 .. Len(Registered) + 1 /\ ~(call.i > Len(Registered))
      BY <2>1, ModuleNumbers DEF Called, Mod!Over, ModuleTypes
    <2>3. Len(Registered) > 0
      BY <2>2, ModuleNumbers
    <2> QED BY <2>1, <2>3, CallExitInv
  <1> QED BY <1>1, <1>2, <1>3

LEMMA SignalKillsInv == ASSUME IInv, SignalKills PROVE IInv'
  <1>1. /\ ~exited /\ exited' /\ exitpc' = "killed" /\ exiter' = exiter /\ s_lck' = s_lck
        /\ UNCHANGED <<gsvars, s_gstate, modules, ret, loopvars, mainpc, sigpc>>
    BY DEF SignalKills, modvars, modules, sigvars
  <1> QED BY <1>1, ExitStepInv DEF ExitPlaces, IInv, Types, PlaceTypes

LEMMA ExitRechecksInv == ASSUME IInv, ExitRechecks \/ ExitTimesOut PROVE IInv'
  <1> USE DEF IInv, Types, Control
  <1>1. /\ ~exited /\ exitpc \in {"held", "awake", "timedout", "sleep"}
        /\ UNCHANGED <<gsvars, s_gstate, modules, ret, loopvars, mainpc, sigpc, exiter>>
        /\ exitpc' \in {"request", "sleep", "over", "timedout"}
        /\ exited' = (exitpc' = "over")
        /\ exitpc' = "request" => s_gstate = "STARTED"
    <2>1. CASE ExitRechecks
      <3>1. /\ ~exited /\ exitpc \in {"held", "awake", "timedout"}
            /\ UNCHANGED <<gsvars, s_gstate, modules, ret, loopvars, mainpc, sigpc, exiter>>
            /\ exited' = (exitpc' = "over")
        BY <2>1 DEF ExitRechecks, modules, sigvars
      <3>2. /\ exitpc' \in {"request", "sleep", "over"}
            /\ exitpc' = "request" => s_gstate = "STARTED"
        BY <2>1 DEF ExitRechecks
      <3> QED BY <3>1, <3>2
    <2>2. CASE ExitTimesOut
      BY <2>2 DEF ExitTimesOut, modvars, modules, sigvars, PlaceTypes
    <2> QED BY <2>1, <2>2
  <1>2. exiter = Main /\ (IF do_thread THEN mainpc \in {"exit", "waited"} ELSE mlpc = "returned")
    BY <1>1 DEF Exiting
  <1>3. exitpc' = "request" => s_gs >= GS!STARTED
    BY <1>1, <1>2 DEF MainBehind, Called
  <1> QED BY <1>1, <1>2, <1>3, ExitStepInv, Threads DEF ExitPlaces

LEMMA ExitRequestsInv == ASSUME IInv, ExitRequests PROVE IInv'
  <1> USE DEF IInv, Types, Control
  <1>1. /\ ~exited /\ exitpc \in {"request", "requesting"} /\ s_gs >= 4
        /\ UNCHANGED <<loopvars, mainpc, sigpc, exiter>>
    BY Numbers DEF ExitRequests, sigvars, Exiting
  <1>2. /\ exiter = Main /\ (IF do_thread THEN mainpc \in {"exit", "waited"} ELSE mlpc = "returned")
        /\ mainpc # "starting"
    BY <1>1 DEF Exiting, MainBehind
  <1>3. CASE /\ exitpc = "requesting" /\ exitpc' = "over" /\ exited' = TRUE
             /\ UNCHANGED <<gsvars, s_gstate, s_modules, m_status, s_n_finalized_modules,
                            s_is_mods_inited, worker, finalized, bulk, ret>>
    BY <1>1, <1>2, <1>3, ExitStepInv, Threads DEF ExitPlaces, modules
  <1>4. ASSUME UNCHANGED <<modvars, exited>>,
               exitpc' = exitpc \/ (exitpc = "request" /\ exitpc' = "requesting"),
               GS!RequestShutdown(Main, GS!SHUTDOWN_RIGHT_NOW) \/ GS!RequestReturns(Main)
        PROVE  IInv'
    <2>1. /\ TrackerTypes' /\ Others(Main)
          /\ \/ s_gs' = s_gs /\ s_gl' = s_gl
             \/ s_gs < 5 /\ s_gs' = 5 /\ s_gl' = 1
      BY <1>4, RequestEffect, RequestReturnsEffect, Threads, Numbers
    <2>2. MainBehind'
      <3>1. s_gs' >= 4
        BY <1>1, <2>1
      <3> QED BY <1>1, <1>2, <3>1, Numbers DEF MainBehind, loopvars
    <2>3. Main = L => mlpc # "idling"
      BY <1>2, Threads
    <2>4. sigpc' = "handling" => sigpc = "handling" /\ out'[Signal] = out[Signal]
      BY <1>1, <2>1, Threads DEF Others
    <2> QED BY <1>1, <1>4, <2>1, <2>2, <2>3, <2>4, TrackerStepInv, Threads
  <1> QED BY <1>1, <1>2, <1>3, <1>4 DEF ExitRequests, Tracker

-----------------------------------------------------------------------------
(* A module's turn in a bulk call.                                         *)

\* What a turn of any call leaves: the types, and a status that fits.
TurnTyped(m, turn) ==
    /\ turn.status \in Mod!ModuleStates /\ turn.worker \in Mod!WorkerStates /\ turn.ret \in Int
    /\ Fits(m, turn.status, turn.worker)

LEMMA Before ==
    ASSUME ModuleTypes, StatusFits, NEW m \in Mods
    PROVE  /\ m_status[m] \in Mod!ModuleStates /\ worker[m] \in Mod!WorkerStates
           /\ Fits(m, m_status[m], worker[m])
  BY DEF ModuleTypes, StatusFits

LEMMA KeepTyped ==
    ASSUME ModuleTypes, StatusFits, NEW m \in Mods, NEW r \in Int
    PROVE  /\ TurnTyped(m, Mod!Keep(m, r))
           /\ Mod!Keep(m, r).status = m_status[m] /\ Mod!Keep(m, r).worker = worker[m]
           /\ Mod!Keep(m, r).ret = r
  BY Before DEF TurnTyped, Mod!Keep, Mod!Turn

LEMMA ProcResultsInt == \A op : Mod!ProcResults(op) \subseteq Int
  BY Numbers DEF Mod!ProcResults

LEMMA InitializeTurn ==
    ASSUME ModuleTypes, StatusFits, NEW m \in Mods, NEW turn \in Mod!s_initialize_module(m)
    PROVE  /\ TurnTyped(m, turn)
           /\ turn.status \in {m_status[m], "INITIALIZED"} /\ turn.worker = worker[m]
  <1>1. CASE m_status[m] = "REGISTERED"
    <2>1. PICK r \in Mod!ProcResults("initialize") :
             turn = Mod!Turn(m, IF r = Mod!OK THEN "INITIALIZED" ELSE "REGISTERED", worker[m], r)
      BY <1>1 DEF Mod!s_initialize_module
    <2>2. r \in Int
      BY ProcResultsInt
    <2> QED BY <1>1, <2>1, <2>2, Before DEF TurnTyped, Fits, Mod!Turn, Mod!ModuleStates
  <1>2. CASE m_status[m] # "REGISTERED"
    BY <1>2, KeepTyped, Numbers DEF Mod!s_initialize_module
  <1> QED BY <1>1, <1>2

LEMMA StartTurn ==
    ASSUME ModuleTypes, StatusFits, NEW m \in Mods, NEW turn \in Mod!s_start_module(m)
    PROVE  /\ TurnTyped(m, turn)
           /\ turn.status \in {m_status[m], "STARTED"} /\ turn.worker \in {worker[m], "running"}
           /\ turn.ret = OK => turn.status = "STARTED"
  <1>1. CASE m_status[m] = "INITIALIZED"
    <2>1. PICK r \in Mod!ProcResults("start") :
             turn = IF r = Mod!OK
                    THEN Mod!Turn(m, "STARTED", IF Mod!HasThread(m) THEN "running" ELSE worker[m], r)
                    ELSE Mod!Keep(m, r)
      BY <1>1 DEF Mod!s_start_module
    <2>2. r \in Int
      BY ProcResultsInt
    <2>3. CASE r = Mod!OK
      BY <1>1, <2>1, <2>2, <2>3, Before
         DEF TurnTyped, Fits, Mod!Turn, Mod!ModuleStates, Mod!WorkerStates
    <2>4. CASE r # Mod!OK
      BY <2>1, <2>2, <2>4, KeepTyped, Numbers
    <2> QED BY <2>3, <2>4
  <1>2. CASE m_status[m] # "INITIALIZED"
    BY <1>2, KeepTyped, Numbers DEF Mod!s_start_module
  <1> QED BY <1>1, <1>2

LEMMA ShutdownTurn ==
    ASSUME ModuleTypes, StatusFits, NEW m \in Mods, NEW turn \in Mod!s_shutdown_module(m)
    PROVE  /\ TurnTyped(m, turn)
           /\ Obeying /\ m_status[m] = "STARTED" /\ worker[m] \in {"none", "running", "ended"} =>
                 /\ turn.ret = OK
                 /\ turn.status = (IF Mod!HasThread(m) THEN "STARTED" ELSE "SHUTDOWN")
                 /\ turn.worker \in {"none", "asked", "ended"}
  <1>1. CASE m_status[m] = "STARTED"
    <2>1. PICK r \in Mod!ProcResults("shutdown") :
             turn = Mod!Turn(m, IF Mod!HasThread(m) THEN "STARTED" ELSE "SHUTDOWN",
                             IF worker[m] = "running" /\ r = Mod!OK THEN "asked" ELSE worker[m], r)
      BY <1>1 DEF Mod!s_shutdown_module
    <2>2. r \in Int
      BY ProcResultsInt
    <2>3. Obeying => r = Mod!OK
      BY DEF Obeying, Mod!ProcResults
    <2> QED BY <1>1, <2>1, <2>2, <2>3, Before, Numbers
            DEF TurnTyped, Fits, Mod!Turn, Mod!ModuleStates, Mod!WorkerStates
  <1>2. CASE m_status[m] # "STARTED"
    BY <1>2, KeepTyped, Numbers DEF Mod!s_shutdown_module
  <1> QED BY <1>1, <1>2

LEMMA StopTurn ==
    ASSUME ModuleTypes, StatusFits, NEW m \in Mods, NEW turn \in Mod!s_stop_module(m)
    PROVE  /\ TurnTyped(m, turn)
           /\ worker[m] # "running" => turn.worker # "running"
           /\ turn.status = "STARTED" => m_status[m] = "STARTED"
           /\ Obeying /\ (m_status[m] = "STARTED" => Mod!HasThread(m)) => turn.status # "STARTED"
  <1>1. CASE m_status[m] = "STARTED" /\ (Mod!HasStopProc(m) \/ Mod!HasThread(m))
    <2>1. PICK r \in IF Mod!HasStopProc(m) THEN Mod!ProcResults("stop") ELSE {Mod!OK} :
             turn = IF r = Mod!OK
                    THEN Mod!Turn(m, IF Mod!HasThread(m) THEN "CANCELLING" ELSE "SHUTDOWN",
                                  IF worker[m] \in Mod!Alive THEN "canceling" ELSE worker[m], r)
                    ELSE Mod!Keep(m, r)
      BY <1>1 DEF Mod!s_stop_module
    <2>2. r \in Int
      BY ProcResultsInt, Numbers
    <2>3. Obeying => r = Mod!OK
      BY DEF Obeying, Mod!ProcResults
    <2>4. CASE r = Mod!OK
      BY <1>1, <2>1, <2>2, <2>4, Before
         DEF TurnTyped, Fits, Mod!Turn, Mod!ModuleStates, Mod!WorkerStates, Mod!Alive
    <2>5. CASE r # Mod!OK
      BY <1>1, <2>1, <2>2, <2>3, <2>5, KeepTyped
    <2> QED BY <2>4, <2>5
  <1>2. CASE m_status[m] = "STARTED" /\ ~Mod!HasStopProc(m) /\ ~Mod!HasThread(m)
    BY <1>2, KeepTyped, Numbers DEF Mod!s_stop_module
  <1>3. CASE m_status[m] # "STARTED"
    BY <1>3, KeepTyped, Numbers DEF Mod!s_stop_module
  <1> QED BY <1>1, <1>2, <1>3

LEMMA WaitTurn ==
    ASSUME ModuleTypes, StatusFits, NEW m \in Mods, NEW mode, NEW turn \in Mod!s_wait_module(m, mode)
    PROVE  /\ TurnTyped(m, turn) /\ turn.worker = worker[m]
           /\ Told(m) \/ (m_status[m] = "SHUTDOWN" /\ worker[m] \in {"none", "ended"}) =>
                 \/ turn.status = "SHUTDOWN" /\ worker[m] \in {"none", "ended"} /\ turn.ret = OK
                 \/ turn.status = m_status[m] /\ turn.ret = TIMEDOUT
  <1>1. CASE m_status[m] \in {"CANCELLING", "STARTED"} /\ Mod!HasThread(m)
    <2>1. \/ /\ worker[m] \in {"ended", "canceled"}
             /\ turn = Mod!Turn(m, IF worker[m] = "canceled" THEN "STOPPED" ELSE "SHUTDOWN",
                                worker[m], Mod!OK)
          \/ turn = Mod!Keep(m, Mod!TIMEDOUT)
      BY <1>1 DEF Mod!s_wait_module
    <2>2. CASE /\ worker[m] \in {"ended", "canceled"}
               /\ turn = Mod!Turn(m, IF worker[m] = "canceled" THEN "STOPPED" ELSE "SHUTDOWN",
                                  worker[m], Mod!OK)
      BY <1>1, <2>2, Before, Numbers DEF TurnTyped, Fits, Mod!Turn, Mod!ModuleStates, Told
    <2>3. CASE turn = Mod!Keep(m, Mod!TIMEDOUT)
      BY <2>3, KeepTyped, Numbers
    <2> QED BY <2>1, <2>2, <2>3
  <1>2. CASE ~(m_status[m] \in {"CANCELLING", "STARTED"} /\ Mod!HasThread(m))
    <2>1. turn = Mod!Keep(m, IF m_status[m] \in {"SHUTDOWN", "STOPPED"} THEN Mod!OK ELSE Mod!INVALID_STATE)
      BY <1>2 DEF Mod!s_wait_module
    <2>2. m_status[m] = "SHUTDOWN" => turn = Mod!Keep(m, Mod!OK)
      BY <2>1
    <2>3. Told(m) => m_status[m] = "SHUTDOWN" /\ worker[m] \in {"none", "ended"}
      BY <1>2, Before DEF Told, Fits
    <2> QED BY <2>1, <2>2, <2>3, KeepTyped, Numbers
  <1> QED BY <1>1, <1>2

-----------------------------------------------------------------------------
(* The bulk calls of the main loop and of the exit handler.                *)

\* The level is refused, and the finalization is next.
LEMMA LevelRefusedInv ==
    ASSUME IInv, LoopBegins, mlpc = "shutdown" /\ ml_gl = GS!SHUTDOWN_UNKNOWN
    PROVE  IInv'
  <1> USE DEF IInv, Types, Control
  <1>1. /\ ~exited /\ exiter # L /\ call.op = "none" /\ mlpc' = "finalize"
        /\ UNCHANGED <<gsvars, modvars, do_thread, loop, ml_gl, mainpc, sigvars, exitvars>>
    BY Numbers DEF LoopBegins, Runs, Goto, After, call, INVALID_ARGS
  <1>2. UNCHANGED modules /\ L' = L /\ call' = call
    BY <1>1, NoModule DEF modvars, modules
  <1>3. exitpc \notin {"finalize", "finalizing"}
    BY <1>1, LoopRuns
  <1>4. TrackerTypes' /\ ModuleTypes' /\ PlaceTypes'
    BY <1>1, <1>2, Threads
       DEF TrackerTypes, ModuleTypes, PlaceTypes, gsvars, modvars, exitvars, Places, Down
  <1>5. Tracked'
    BY <1>1, Numbers DEF Tracked, gsvars, sigvars, Early, Down
  <1>6. MainBehind' /\ LevelKept'
    BY <1>1, <1>2, Numbers DEF MainBehind, LevelKept, gsvars
  <1>7. Exiting'
    BY <1>1, <1>2, <1>3 DEF Exiting, exitvars, gsvars, InCall
  <1>8. Called'
    BY <1>1, <1>2 DEF Called, modvars, exitvars, gsvars
  <1>9. Inited' /\ StatusFits' /\ Counted'
    BY <1>1, <1>2, NoModule DEF Modular, Inited, StatusFits, Fits, Counted, exitvars, InCall
  <1>10. ComingUp' /\ (Obeying => GoingDown')
    BY <1>1, <1>2, NoModule DEF Modular, ComingUp, GoingDown, InCall, Early, Running, Up
  <1> QED BY <1>4, <1>5, <1>6, <1>7, <1>8, <1>9, <1>10 DEF Modular

LEMMA CallBeginsInv ==
    ASSUME IInv, LoopBegins, ~(mlpc = "shutdown" /\ ml_gl = GS!SHUTDOWN_UNKNOWN)
    PROVE  IInv'
  <1> USE DEF IInv, Types, Control
  <1>1. PICK op \in Mod!Forward \cup Mod!Backward, mode \in {"inf", "timed"} :
          /\ op = (IF mlpc = "wait_again" THEN "wait" ELSE mlpc)
          /\ op = "shutdown" => ml_gl # GS!SHUTDOWN_UNKNOWN
          /\ Mod!Begin(L, op, mode)
          /\ UNCHANGED <<gsvars, loopvars>>
    BY DEF LoopBegins, Mod!Forward, Mod!Backward
  <1>2. /\ ~exited /\ exiter # L /\ call.op = "none"
        /\ UNCHANGED <<gsvars, loopvars, mainpc, sigvars, exitvars>>
        /\ UNCHANGED <<s_modules, m_status, worker, finalized, s_n_finalized_modules,
                       s_is_mods_inited, ret>>
        /\ s_lck' = L
        /\ bulk' = [bulk EXCEPT ![L] = [op |-> op, i |-> 1, err |-> Mod!OK, mode |-> mode]]
    BY <1>1 DEF LoopBegins, Runs, Mod!Begin, call
  <1>3. s_gstate' = (IF op = "initialize" /\ Mod!N = 0 THEN s_gstate ELSE Mod!Running[op])
    BY <1>1 DEF Mod!Begin
  <1>4. L' = L /\ mlpc' = mlpc
    BY <1>2 DEF loopvars, L
  <1>5. call' = [op |-> op, i |-> 1, err |-> 0, mode |-> mode]
    BY <1>2, <1>4, Threads, Numbers DEF call, ModuleTypes
  <1>6. op # "none" /\ Mod!Running[op] # "STARTED"
    BY RunningValues DEF Mod!Forward, Mod!Backward
  <1>7. exitpc \notin {"finalize", "finalizing"}
    BY <1>2, LoopRuns
  <1>8. TrackerTypes' /\ PlaceTypes'
    BY <1>2, <1>4, Threads DEF TrackerTypes, PlaceTypes, gsvars, loopvars, exitvars
  <1>9. ModuleTypes'
    <2>1. bulk' \in [Actors -> Calls]
      BY <1>1, <1>2, Threads, Numbers DEF ModuleTypes, Calls
    <2> QED BY <1>2, <2>1 DEF ModuleTypes
  <1>10. Tracked' /\ MainBehind' /\ LevelKept'
    BY <1>1, <1>2, <1>4, <1>5 DEF Tracked, MainBehind, LevelKept, gsvars, loopvars, sigvars
  <1>11. Exiting'
    BY <1>2, <1>4, <1>7 DEF Exiting, gsvars, loopvars, exitvars, InCall
  <1>12. Called'
    <2>1. \A t \in Actors \ {L} : bulk'[t].op = "none"
      BY <1>2 DEF Called, ModuleTypes
    <2>2. call'.i \in 1 .. Len(Registered) + 1
      BY <1>5, ModuleNumbers
    <2>3. s_gstate' = Mod!Running[op] \/ (op = "initialize" /\ Len(Registered) = 0)
      BY <1>3, ModuleNumbers DEF ModuleTypes
    <2>4. s_gstate' = "STARTED" => s_gs >= GS!STARTED \/ mlpc = "set_started"
      BY <1>3, <1>6 DEF Called
    <2> QED BY <1>1, <1>2, <1>4, <1>5, <1>6, <2>1, <2>2, <2>3, <2>4
            DEF Called, gsvars, exitvars
  <1>13. \A m \in Mods : ~Behind(m)'
    BY <1>5, ModuleNumbers DEF Behind
  <1>14. /\ \A m \in Mods : /\ m_status'[m] = m_status[m] /\ worker'[m] = worker[m]
                            /\ finalized'[m] = finalized[m]
                            /\ Mod!HasThread(m)' = Mod!HasThread(m) /\ Told(m)' = Told(m)
                            /\ Mod!Finalizable(m)' = Mod!Finalizable(m)
         /\ UNCHANGED <<s_gs, ml_gl, exited>>
    BY <1>1, <1>2 DEF loopvars, Mod!HasThread, Told, Mod!Finalizable, gsvars, exitvars
  <1>15. Inited' /\ StatusFits'
    BY <1>2, <1>4, <1>14 DEF Modular, Inited, StatusFits, Fits
  <1>16. Counted'
    <2>1. mlpc # "returned"
      BY <1>1 DEF Mod!Forward, Mod!Backward
    <2>2. s_n_finalized_modules = 0 /\ \A m \in Mods : finalized[m] = 0
      BY <1>2, <2>1 DEF Modular, Counted, InCall
    <2> QED BY <1>2, <1>5, <1>13, <1>14, <2>2, ModuleNumbers DEF Counted, InCall
  <1>17. ComingUp'
    BY <1>1, <1>2, <1>4, <1>5, <1>6, <1>14, ModuleNumbers DEF Modular, ComingUp, InCall
  <1>18. Obeying => GoingDown'
    <2>1. mlpc = "shutdown" =>
            \A m \in Mods : m_status[m] = "STARTED" /\ worker[m] \in {"none", "running", "ended"}
      BY <1>2 DEF Modular, ComingUp
    <2> QED BY <1>2, <1>4, <1>5, <1>13, <1>14, <2>1, Numbers DEF Modular, GoingDown, InCall
  <1> QED BY <1>8, <1>9, <1>10, <1>11, <1>12, <1>15, <1>16, <1>17, <1>18 DEF Modular

LEMMA LoopBeginsInv == ASSUME IInv, LoopBegins PROVE IInv'
  BY LevelRefusedInv, CallBeginsInv

\* A turn, m's, of the call that is open.
TurnTaken(m, turn) ==
    /\ call.i \in 1 .. Len(Registered)
    /\ m = (IF call.op \in Mod!Forward THEN call.i ELSE Len(Registered) - call.i + 1)
    /\ turn \in Mod!Turns(call.op, m, call.mode)
    /\ m_status' = [m_status EXCEPT ![m] = turn.status]
    /\ worker' = [worker EXCEPT ![m] = turn.worker]
    /\ bulk' = [bulk EXCEPT ![L] =
                  [call EXCEPT !.i = call.i + 1,
                               !.err = IF call.err = Mod!OK THEN turn.ret ELSE call.err]]
    /\ call.op \in Mod!Forward => call.err = Mod!OK
    /\ IF call.op = "finalize" /\ Mod!Finalizable(m)
       THEN /\ finalized' = [finalized EXCEPT ![m] = @ + 1]
            /\ s_n_finalized_modules' = s_n_finalized_modules + 1
       ELSE UNCHANGED <<finalized, s_n_finalized_modules>>
    /\ UNCHANGED <<s_gstate, s_lck, s_modules, s_is_mods_inited, ret>>

LEMMA StepTurn ==
    ASSUME ModuleTypes, Called, Mod!Step(L)
    PROVE  call.op # "none" /\ \E m \in Mods : \E turn : TurnTaken(m, turn)
  <1>1. /\ call.op # "none" /\ ~Mod!Over(call)
        /\ UNCHANGED <<s_gstate, s_lck, s_modules, s_is_mods_inited, ret>>
    BY DEF Mod!Step, call
  <1>2. Mod!N = Len(Registered)
    BY ModuleNumbers DEF ModuleTypes
  <1>3. /\ call.i \in 1 .. Len(Registered)
        /\ call.op \in Mod!Forward => call.err = Mod!OK
    BY <1>1, <1>2, ModuleNumbers DEF Mod!Over, Called
  <1> DEFINE m == Mod!TurnOf(call.op, call.i)
  <1>4. m = (IF call.op \in Mod!Forward THEN call.i ELSE Len(Registered) - call.i + 1)
    BY <1>2 DEF Mod!TurnOf
  <1>5. m \in Mods
    BY <1>3, <1>4, ModuleNumbers
  <1>6. PICK turn \in Mod!Turns(call.op, m, call.mode) :
          /\ m_status' = [m_status EXCEPT ![m] = turn.status]
          /\ worker' = [worker EXCEPT ![m] = turn.worker]
          /\ bulk' = [bulk EXCEPT ![L] =
                        [call EXCEPT !.i = call.i + 1,
                                     !.err = IF call.err = Mod!OK THEN turn.ret ELSE call.err]]
    BY DEF Mod!Step, call
  <1>7. IF call.op = "finalize" /\ Mod!Finalizable(m)
        THEN /\ finalized' = [finalized EXCEPT ![m] = @ + 1]
             /\ s_n_finalized_modules' = s_n_finalized_modules + 1
        ELSE UNCHANGED <<finalized, s_n_finalized_modules>>
    BY DEF Mod!Step, call
  <1>8. TurnTaken(m, turn)
    <2> HIDE DEF m
    <2> QED BY <1>1, <1>3, <1>4, <1>6, <1>7 DEF TurnTaken
  <1> QED BY <1>1, <1>5, <1>8

LEMMA FinalizeTurn ==
    ASSUME ModuleTypes, StatusFits, NEW m \in Mods, NEW turn \in {Mod!Keep(m, Mod!OK)}
    PROVE  /\ TurnTyped(m, turn) /\ turn.ret = OK
           /\ turn.status = m_status[m] /\ turn.worker = worker[m]
  BY KeepTyped, Numbers

\* Whatever the call, a turn leaves the types, and the statuses fit.
LEMMA TurnLeaves ==
    ASSUME ModuleTypes, StatusFits, call.op # "none", NEW m \in Mods, NEW turn, TurnTaken(m, turn)
    PROVE  TurnTyped(m, turn)
  <1>1. call.op \in Mod!Forward \cup Mod!Backward
    BY Threads DEF ModuleTypes, Calls, call
  <1>2. turn \in Mod!Turns(call.op, m, call.mode)
    BY DEF TurnTaken
  <1>3. CASE call.op = "initialize"
    BY <1>2, <1>3, InitializeTurn DEF Mod!Turns
  <1>4. CASE call.op = "start"
    BY <1>2, <1>4, StartTurn DEF Mod!Turns
  <1>5. CASE call.op = "shutdown"
    BY <1>2, <1>5, ShutdownTurn DEF Mod!Turns
  <1>6. CASE call.op = "stop"
    BY <1>2, <1>6, StopTurn DEF Mod!Turns
  <1>7. CASE call.op = "wait"
    BY <1>2, <1>7, WaitTurn DEF Mod!Turns
  <1>8. CASE call.op = "finalize"
    BY <1>2, <1>8, FinalizeTurn DEF Mod!Turns
  <1> QED BY <1>1, <1>3, <1>4, <1>5, <1>6, <1>7, <1>8 DEF Mod!Forward, Mod!Backward

\* What a turn leaves of the modules, seen from each of them.
TurnSeen(m, turn) ==
    /\ UNCHANGED <<L, mlpc, ml_gl, s_modules, s_is_mods_inited>>
    /\ call'.op = call.op /\ call'.i = call.i + 1
    /\ call'.err = (IF call.err = OK THEN turn.ret ELSE call.err)
    /\ \A k \in Mods : m_status'[k] = (IF k = m THEN turn.status ELSE m_status[k])
    /\ \A k \in Mods : worker'[k] = (IF k = m THEN turn.worker ELSE worker[k])
    /\ \A k \in Mods : Mod!HasThread(k)' = Mod!HasThread(k)
    /\ \A op : InCall(op)' = InCall(op)
    /\ call.op \in Mod!Backward =>
          ~Behind(m) /\ \A k \in Mods : Behind(k)' = (Behind(k) \/ k = m)

LEMMA StepSeen ==
    ASSUME Types, call.op # "none", NEW m \in Mods, NEW turn, TurnTyped(m, turn), TurnTaken(m, turn),
           UNCHANGED <<gsvars, loopvars>>
    PROVE  /\ finalized' \in [Mods -> {0, 1}] => ModuleTypes'
           /\ TurnSeen(m, turn)
           /\ \A t \in Actors \ {L} : bulk'[t] = bulk[t]
  <1> USE DEF Types
  <1>1. L' = L /\ mlpc' = mlpc /\ ml_gl' = ml_gl
    BY DEF L, loopvars
  <1>2. call \in Calls /\ call.i \in Nat
    BY Threads DEF ModuleTypes, Calls, call
  <1> DEFINE b == [call EXCEPT !.i = call.i + 1,
                               !.err = IF call.err = Mod!OK THEN turn.ret ELSE call.err]
  <1>3. /\ b \in Calls /\ b.op = call.op /\ b.i = call.i + 1
        /\ b.err = (IF call.err = OK THEN turn.ret ELSE call.err)
    <2>1. turn.ret \in Int /\ call.err \in Int /\ Mod!OK = OK
      BY <1>2, Numbers DEF TurnTyped, Calls
    <2>2. (IF call.err = Mod!OK THEN turn.ret ELSE call.err) \in Int
      BY <2>1
    <2>3. call.i + 1 \in Nat
      BY <1>2
    <2> QED BY <1>2, <2>1, <2>2, <2>3 DEF Calls
  <1>4. bulk' = [bulk EXCEPT ![L] = b]
    BY DEF TurnTaken
  <1> HIDE DEF b
  <1>5. call' = b /\ bulk' \in [Actors -> Calls] /\ \A t \in Actors \ {L} : bulk'[t] = bulk[t]
    BY <1>1, <1>3, <1>4, Threads DEF ModuleTypes, call
  <1>6. /\ m_status' \in [Mods -> Mod!ModuleStates]
        /\ \A k \in Mods : m_status'[k] = (IF k = m THEN turn.status ELSE m_status[k])
    BY DEF TurnTaken, ModuleTypes, TurnTyped
  <1>7. /\ worker' \in [Mods -> Mod!WorkerStates]
        /\ \A k \in Mods : worker'[k] = (IF k = m THEN turn.worker ELSE worker[k])
    BY DEF TurnTaken, ModuleTypes, TurnTyped
  <1>8. UNCHANGED <<s_modules, s_is_mods_inited, ret>>
    BY DEF TurnTaken
  <1>9. \A k \in Mods : Mod!HasThread(k)' = Mod!HasThread(k)
    BY <1>8 DEF Mod!HasThread
  <1>10. call.op \in Mod!Backward =>
           ~Behind(m) /\ \A k \in Mods : Behind(k)' = (Behind(k) \/ k = m)
    <2>1. SUFFICES ASSUME call.op \in Mod!Backward
                   PROVE  ~Behind(m) /\ \A k \in Mods : Behind(k)' = (Behind(k) \/ k = m)
      OBVIOUS
    <2>2. m = Len(Registered) - call.i + 1
      BY <2>1 DEF TurnTaken, Mod!Forward, Mod!Backward
    <2>3. call'.i = call.i + 1
      BY <1>3, <1>5
    <2> QED BY <1>2, <2>2, <2>3, ModuleNumbers DEF Behind
  <1>11. finalized' \in [Mods -> {0, 1}] => ModuleTypes'
    BY <1>5, <1>6, <1>7, <1>8 DEF ModuleTypes, TurnTaken
  <1> QED BY <1>1, <1>3, <1>5, <1>6, <1>7, <1>8, <1>9, <1>10, <1>11 DEF TurnSeen, InCall

\* A turn of a call that is not the finalization, which the main loop has made.
LEMMA TurnModular ==
    ASSUME IInv, ~exited, call.op \notin {"none", "finalize"},
           NEW m \in Mods, NEW turn, TurnTyped(m, turn), TurnTaken(m, turn), TurnSeen(m, turn),
           UNCHANGED exited
    PROVE  Modular' /\ finalized' \in [Mods -> {0, 1}]
  <1> USE DEF IInv, Types, Control
  <1>1. /\ call.op = (IF mlpc = "wait_again" THEN "wait" ELSE mlpc)
        /\ call.op \in {"initialize", "start", "shutdown", "stop", "wait"}
    <2>1. exitpc # "finalizing"
      BY DEF Exiting, InCall
    <2>2. call.op \in Mod!Forward \cup Mod!Backward
      BY Threads DEF ModuleTypes, Calls, call
    <2> QED BY <2>1, <2>2 DEF Called, Mod!Forward, Mod!Backward
  <1>2. /\ finalized' = finalized /\ s_n_finalized_modules' = s_n_finalized_modules
        /\ s_n_finalized_modules = 0 /\ \A k \in Mods : finalized[k] = 0
    <2>1. s_n_finalized_modules = 0 /\ \A k \in Mods : finalized[k] = 0
      BY <1>1 DEF Modular, Counted, InCall
    <2> QED BY <2>1 DEF TurnTaken
  <1>3. turn \in Mod!Turns(call.op, m, call.mode)
    BY DEF TurnTaken
  <1>4. mlpc' = mlpc /\ L' = L /\ ml_gl' = ml_gl /\ s_is_mods_inited' = s_is_mods_inited
        /\ call'.op = call.op /\ \A op : InCall(op)' = InCall(op)
    BY DEF TurnSeen
  <1>5. StatusFits'
    <2>1. \A k \in Mods : Fits(k, m_status[k], worker[k])
      BY DEF Modular, StatusFits
    <2>2. \A k \in Mods : Fits(k, m_status'[k], worker'[k])
      BY <2>1 DEF TurnSeen, TurnTyped
    <2> QED BY <2>2 DEF StatusFits, Fits, TurnSeen
  <1>6. Counted'
    <2>1. \A k \in Mods : finalized'[k] = 0
      BY <1>2
    <2>2. ~InCall("finalize")'
      BY <1>4 DEF InCall
    <2>3. s_n_finalized_modules' = 0 /\ m \in Mods
      BY <1>2
    <2> QED BY <2>1, <2>2, <2>3, ModuleNumbers DEF Counted
  <1>7. Inited' /\ ComingUp' /\ (Obeying => GoingDown')
    <2>0. StatusFits
      BY DEF Modular
    <2>1. CASE call.op = "initialize"
      <3>1. turn.status \in {m_status[m], "INITIALIZED"} /\ turn.worker = worker[m]
        BY <1>3, <2>0, <2>1, InitializeTurn DEF Mod!Turns
      <3>2. mlpc = "initialize" /\ ~InCall("start")
        BY <1>1, <2>1 DEF InCall
      <3>3. Inited'
        BY <1>4, <3>1, <3>2 DEF Modular, Inited, TurnSeen
      <3>4. ComingUp'
        BY <1>4, <3>1, <3>2 DEF Modular, ComingUp, TurnSeen, Early, Running, Up
      <3> QED BY <1>4, <3>2, <3>3, <3>4 DEF GoingDown
    <2>2. CASE call.op = "start"
      <3>1. /\ turn.status \in {m_status[m], "STARTED"} /\ turn.worker \in {worker[m], "running"}
            /\ turn.ret = OK => turn.status = "STARTED"
        BY <1>3, <2>0, <2>2, StartTurn DEF Mod!Turns
      <3>2. mlpc = "start"
        BY <1>1, <2>2
      <3>3. Inited'
        BY <1>4, <3>2 DEF Modular, Inited
      <3>4. ComingUp'
        <4>1. /\ call.err = OK /\ m = call.i /\ call.i \in 1 .. Len(Registered)
              /\ call'.i = call.i + 1 /\ call'.err = turn.ret
          BY <2>2, Numbers DEF TurnTaken, TurnSeen, Mod!Forward
        <4>2. \A k \in Mods : k < call'.i => k < m \/ k = m
          BY <4>1, ModuleNumbers
        <4>3. InCall("start")' /\ call'.err = OK => \A k \in Mods : k < call'.i => m_status'[k] = "STARTED"
          BY <2>2, <3>1, <4>1, <4>2 DEF Modular, ComingUp, InCall, TurnSeen
        <4> QED BY <1>4, <3>1, <3>2, <4>3 DEF Modular, ComingUp, TurnSeen, Early, Running
      <3> QED BY <1>4, <3>2, <3>3, <3>4 DEF GoingDown
    <2>3. CASE call.op = "shutdown"
      <3>1. mlpc = "shutdown" /\ InCall("shutdown") /\ ~InCall("start")
        BY <1>1, <2>3 DEF InCall
      <3>2. Inited' /\ ComingUp'
        BY <1>4, <2>3, <3>1 DEF Modular, Inited, ComingUp, Early, Running, Up
      <3>3. ASSUME Obeying PROVE GoingDown'
        <4>1. ~Behind(m) /\ \A k \in Mods : Behind(k)' = (Behind(k) \/ k = m)
          BY <2>3 DEF TurnSeen, Mod!Backward
        <4>2. m_status[m] = "STARTED" /\ worker[m] \in {"none", "running", "ended"} /\ call.err = OK
          BY <3>1, <3>3, <4>1 DEF Modular, GoingDown
        <4>3. /\ turn.ret = OK /\ turn.worker \in {"none", "asked", "ended"}
              /\ turn.status = (IF Mod!HasThread(m) THEN "STARTED" ELSE "SHUTDOWN")
          BY <1>3, <2>0, <2>3, <3>3, <4>2, ShutdownTurn DEF Mod!Turns
        <4>4. call'.err = OK
          BY <4>2, <4>3 DEF TurnSeen
        <4>5. Told(m)' /\ \A k \in Mods \ {m} : Told(k)' = Told(k)
          BY <4>3 DEF Told, TurnSeen
        <4>6. \A k \in Mods : IF Behind(k)' THEN Told(k)'
                              ELSE m_status'[k] = "STARTED" /\ worker'[k] \in {"none", "running", "ended"}
          <5>1. \A k \in Mods : IF Behind(k) THEN Told(k)
                                ELSE m_status[k] = "STARTED" /\ worker[k] \in {"none", "running", "ended"}
            BY <3>1, <3>3 DEF Modular, GoingDown
          <5>2. \A k \in Mods \ {m} : m_status'[k] = m_status[k] /\ worker'[k] = worker[k]
            BY DEF TurnSeen
          <5>3. SUFFICES ASSUME NEW k \in Mods
                         PROVE  IF Behind(k)' THEN Told(k)'
                                ELSE m_status'[k] = "STARTED" /\ worker'[k] \in {"none", "running", "ended"}
            OBVIOUS
          <5>4. CASE k = m
            BY <4>1, <4>5, <5>4
          <5>5. CASE k # m
            BY <4>1, <4>5, <5>1, <5>2, <5>5
          <5> QED BY <5>4, <5>5
        <4> QED BY <1>4, <3>1, <4>4, <4>6 DEF GoingDown
      <3> QED BY <3>2, <3>3
    <2>4. CASE call.op = "stop"
      <3>1. mlpc = "stop" /\ InCall("stop") /\ ~InCall("start")
        BY <1>1, <2>4 DEF InCall
      <3>2. Inited' /\ ComingUp'
        BY <1>4, <2>4, <3>1 DEF Modular, Inited, ComingUp, Early, Running, Up
      <3>3. ASSUME Obeying PROVE GoingDown'
        <4>1. ~Behind(m) /\ \A k \in Mods : Behind(k)' = (Behind(k) \/ k = m)
          BY <2>4 DEF TurnSeen, Mod!Backward
        <4>2. /\ m_status[m] = "STARTED" => Mod!HasThread(m)
              /\ worker[m] # "running"
          BY <3>1, <3>3 DEF Modular, GoingDown
        <4>3. turn.worker # "running" /\ turn.status # "STARTED"
          BY <1>3, <2>0, <2>4, <3>3, <4>2, StopTurn DEF Mod!Turns
        <4>4. \A k \in Mods : /\ m_status'[k] = "STARTED" => Mod!HasThread(k)'
                              /\ worker'[k] # "running"
                              /\ Behind(k)' => m_status'[k] # "STARTED"
          BY <3>1, <3>3, <4>1, <4>3 DEF Modular, GoingDown, TurnSeen
        <4> QED BY <1>4, <3>1, <4>4 DEF GoingDown
      <3> QED BY <3>2, <3>3
    <2>5. CASE call.op = "wait"
      <3>1. mlpc \in {"wait", "wait_again"} /\ InCall("wait") /\ ~InCall("start")
        BY <1>1, <2>5 DEF InCall
      <3>2. Inited' /\ ComingUp'
        BY <1>4, <3>1 DEF Modular, Inited, ComingUp, Early, Running, Up
      <3>3. /\ turn.worker = worker[m]
            /\ Told(m) \/ (m_status[m] = "SHUTDOWN" /\ worker[m] \in {"none", "ended"}) =>
                  \/ turn.status = "SHUTDOWN" /\ worker[m] \in {"none", "ended"} /\ turn.ret = OK
                  \/ turn.status = m_status[m] /\ turn.ret = TIMEDOUT
        BY <1>3, <2>0, <2>5, WaitTurn DEF Mod!Turns
      <3>4. ASSUME Obeying, mlpc = "wait" PROVE GoingDown'
        <4>1. ~Behind(m) /\ \A k \in Mods : Behind(k)' = (Behind(k) \/ k = m)
          BY <2>5 DEF TurnSeen, Mod!Backward
        <4>2. /\ \A k \in Mods : Told(k) \/ (m_status[k] = "SHUTDOWN" /\ worker[k] \in {"none", "ended"})
              /\ call.err \in {OK, TIMEDOUT}
              /\ call.err = OK => \A k \in Mods : Behind(k) => m_status[k] = "SHUTDOWN"
          BY <3>1, <3>4 DEF Modular, GoingDown
        <4>3. call'.err \in {OK, TIMEDOUT}
              /\ (call'.err = OK => call.err = OK /\ turn.status = "SHUTDOWN")
          BY <3>3, <4>2, Numbers DEF TurnSeen
        <4>4. \A k \in Mods : Told(k)' \/ (m_status'[k] = "SHUTDOWN" /\ worker'[k] \in {"none", "ended"})
          BY <3>3, <4>2 DEF TurnSeen, Told
        <4>5. call'.err = OK => \A k \in Mods : Behind(k)' => m_status'[k] = "SHUTDOWN"
          BY <4>1, <4>2, <4>3 DEF TurnSeen
        <4> QED BY <1>4, <3>4, <4>3, <4>4, <4>5 DEF GoingDown
      <3>5. ASSUME Obeying, mlpc = "wait_again" PROVE GoingDown'
        <4>1. \A k \in Mods : worker'[k] \notin {"running", "asked"}
          BY <3>3, <3>5 DEF Modular, GoingDown, TurnSeen
        <4> QED BY <1>4, <3>5, <4>1 DEF GoingDown
      <3> QED BY <3>1, <3>2, <3>4, <3>5
    <2> QED BY <1>1, <2>1, <2>2, <2>3, <2>4, <2>5
  <1>8. finalized' \in [Mods -> {0, 1}]
    BY <1>2 DEF ModuleTypes
  <1> QED BY <1>5, <1>6, <1>7, <1>8 DEF Modular

\* A turn of the finalization, whoever has called it.
LEMMA FinalizeModular ==
    ASSUME IInv, ~exited, call.op = "finalize",
           NEW m \in Mods, NEW turn, TurnTaken(m, turn), TurnSeen(m, turn), UNCHANGED exited
    PROVE  Modular' /\ finalized' \in [Mods -> {0, 1}]
  <1> USE DEF IInv, Types, Control
  <1>1. turn = Mod!Keep(m, Mod!OK)
    BY DEF TurnTaken, Mod!Turns
  <1>2. turn.status = m_status[m] /\ turn.worker = worker[m]
    BY <1>1, KeepTyped, Numbers DEF Modular
  <1>3. \A k \in Mods : /\ m_status'[k] = m_status[k] /\ worker'[k] = worker[k]
                        /\ Mod!HasThread(k)' = Mod!HasThread(k)
                        /\ Told(k)' = Told(k) /\ Mod!Finalizable(k)' = Mod!Finalizable(k)
    BY <1>2 DEF TurnSeen, Told, Mod!Finalizable
  <1>4. mlpc' = mlpc /\ L' = L /\ ml_gl' = ml_gl /\ s_is_mods_inited' = s_is_mods_inited
        /\ call'.op = call.op /\ call'.i = call.i + 1 /\ \A op : InCall(op)' = InCall(op)
    BY DEF TurnSeen
  <1>5. InCall("finalize") /\ \A op : InCall(op) => op = "finalize"
    BY DEF InCall
  <1>6. ~Behind(m) /\ \A k \in Mods : Behind(k)' = (Behind(k) \/ k = m)
    BY DEF TurnSeen, Mod!Backward
  <1>7. finalized[m] = 0 /\ s_n_finalized_modules \in Nat /\ call.i \in Nat
    BY <1>5, <1>6, Threads DEF Modular, Counted, ModuleTypes, Calls, call
  <1>8. IF Mod!Finalizable(m)
        THEN finalized' = [finalized EXCEPT ![m] = 1] /\ s_n_finalized_modules' = s_n_finalized_modules + 1
        ELSE finalized' = finalized /\ s_n_finalized_modules' = s_n_finalized_modules
    BY <1>7 DEF TurnTaken
  <1>9. /\ finalized' \in [Mods -> {0, 1}]
        /\ \A k \in Mods : finalized'[k] = (IF k = m /\ Mod!Finalizable(m) THEN 1 ELSE finalized[k])
    BY <1>8 DEF ModuleTypes
  <1>10. Inited' /\ StatusFits'
    BY <1>3, <1>4 DEF Modular, Inited, StatusFits, Fits
  <1>11. ComingUp' /\ (Obeying => GoingDown')
    BY <1>3, <1>4, <1>5 DEF Modular, ComingUp, GoingDown
  <1>12. Counted'
    <2>1. /\ s_n_finalized_modules' <= call'.i - 1
          /\ s_n_finalized_modules' = call'.i - 1 =>
                s_n_finalized_modules = call.i - 1 /\ Mod!Finalizable(m)
      BY <1>4, <1>5, <1>7, <1>8 DEF Modular, Counted
    <2>2. s_n_finalized_modules' = call'.i - 1 => \A k \in Mods : Behind(k)' => finalized'[k] = 1
      BY <1>5, <1>6, <1>9, <2>1 DEF Modular, Counted
    <2>3. \A k \in Mods : IF Behind(k)' THEN finalized'[k] = 1 \/ ~Mod!Finalizable(k)'
                          ELSE finalized'[k] = 0
      BY <1>3, <1>5, <1>6, <1>7, <1>9 DEF Modular, Counted
    <2>4. \A k \in Mods : finalized'[k] = 1 => worker'[k] \notin Mod!Alive
      <3>1. Mod!Finalizable(m) => worker[m] \notin Mod!Alive
        BY DEF Modular, StatusFits, Fits, Mod!Finalizable, Mod!Alive
      <3> QED BY <1>3, <1>9, <3>1 DEF Modular, Counted
    <2>5. \A j, k \in Mods : j < k /\ finalized'[j] = 1 => finalized'[k] = 1 \/ ~Mod!Finalizable(k)'
      <3>1. SUFFICES ASSUME NEW j \in Mods, NEW k \in Mods, j < k, finalized'[j] = 1
                     PROVE  finalized'[k] = 1 \/ ~Mod!Finalizable(k)'
        OBVIOUS
      <3>2. Behind(j)'
        BY <2>3, <3>1
      <3>3. Behind(k)'
        BY <1>4, <1>7, <3>1, <3>2, ModuleNumbers DEF Behind
      <3> QED BY <2>3, <3>3
    <2> QED BY <1>4, <1>5, <2>1, <2>2, <2>3, <2>4, <2>5 DEF Counted
  <1> QED BY <1>9, <1>10, <1>11, <1>12 DEF Modular

\* A turn, for the main loop or for the exit handler.
LEMMA StepInv ==
    ASSUME IInv, ~exited, Mod!Step(L), UNCHANGED <<gsvars, loopvars, mainpc, sigpc, exitvars>>
    PROVE  IInv'
  <1> USE DEF IInv, Types, Control
  <1>1. call.op # "none"
    BY StepTurn
  <1>2. PICK m \in Mods : \E turn : TurnTaken(m, turn)
    BY StepTurn
  <1>3. PICK turn : TurnTaken(m, turn)
    BY <1>2
  <1>4. TurnTyped(m, turn)
    BY <1>1, <1>3, TurnLeaves DEF Modular
  <1>5. /\ finalized' \in [Mods -> {0, 1}] => ModuleTypes'
        /\ TurnSeen(m, turn)
        /\ \A t \in Actors \ {L} : bulk'[t] = bulk[t]
    BY <1>1, <1>3, <1>4, StepSeen
  <1>6. Modular' /\ finalized' \in [Mods -> {0, 1}]
    BY <1>1, <1>3, <1>4, <1>5, TurnModular, FinalizeModular DEF exitvars
  <1>7. TrackerTypes' /\ PlaceTypes'
    BY <1>5 DEF TrackerTypes, PlaceTypes, gsvars, loopvars, exitvars, TurnSeen
  <1>8. Tracked' /\ MainBehind' /\ LevelKept'
    BY <1>5 DEF Tracked, MainBehind, LevelKept, gsvars, loopvars, TurnSeen
  <1>9. Exiting'
    BY <1>5 DEF Exiting, gsvars, loopvars, exitvars, TurnSeen
  <1>10. Called'
    <2>1. call'.i \in 1 .. Len(Registered) + 1
      BY <1>3, <1>5, ModuleNumbers DEF TurnTaken, TurnSeen
    <2>2. s_gstate' = s_gstate /\ s_lck' = s_lck
      BY <1>3 DEF TurnTaken
    <2> QED BY <1>1, <1>5, <2>1, <2>2 DEF Called, TurnSeen, gsvars, loopvars, exitvars
  <1> QED BY <1>5, <1>6, <1>7, <1>8, <1>9, <1>10

LEMMA LoopStepsInv == ASSUME IInv, LoopSteps PROVE IInv'
  BY StepInv DEF LoopSteps, Manager, sigvars

\* The end of a call: the modules are left as they are, and nobody is in a call.
LEMMA EndEffect ==
    ASSUME ModuleTypes, Called, Mod!End(L), L' = L
    PROVE  /\ call.op \in Mod!Forward \cup Mod!Backward
           /\ call'.op = "none" /\ ModuleTypes'
           /\ \A t \in Actors : bulk'[t].op = "none"
           /\ s_lck' = Nobody /\ ret'[L] = call.err
           /\ UNCHANGED <<s_modules, m_status, s_n_finalized_modules, worker, finalized>>
           /\ s_gstate' = "STARTED" => s_gstate = "STARTED" \/ (call.op = "start" /\ call.err = OK)
           /\ s_is_mods_inited' = (s_is_mods_inited \/ (call.op = "initialize" /\ call.err = OK))
           /\ call.i = Len(Registered) + 1 \/ (call.op \in Mod!Forward /\ call.err # OK)
           /\ \A m \in Mods : call.op \in Mod!Backward => Behind(m)
  <1>1. call.op \in Mod!Forward \cup Mod!Backward /\ call.i \in 1 .. Len(Registered) + 1
        /\ call.err \in Int
    BY Threads DEF Mod!End, ModuleTypes, Calls, Called, call
  <1>2. /\ s_lck' = Nobody /\ ret' = [ret EXCEPT ![L] = call.err]
        /\ UNCHANGED <<s_modules, m_status, s_n_finalized_modules, worker, finalized>>
        /\ s_is_mods_inited' = (s_is_mods_inited \/ (call.op = "initialize" /\ call.err = Mod!OK))
        /\ bulk' = [bulk EXCEPT ![L] = Mod!NoBulk]
    BY DEF Mod!End, call
  <1>3. Mod!NoBulk \in Calls /\ Mod!NoBulk.op = "none"
    BY Numbers DEF Mod!NoBulk, Calls
  <1>4. s_gstate' = "STARTED" => s_gstate = "STARTED" \/ (call.op = "start" /\ call.err = OK)
    <2>1. s_gstate' = IF call.err = Mod!OK /\ call.op \in DOMAIN Mod!Completed
                      THEN Mod!Completed[call.op] ELSE s_gstate
      BY DEF Mod!End, call
    <2>2. \A op \in DOMAIN Mod!Completed : Mod!Completed[op] = "STARTED" => op = "start"
      BY DEF Mod!Completed
    <2> QED BY <2>1, <2>2, Numbers
  <1>5. call.i = Len(Registered) + 1 \/ (call.op \in Mod!Forward /\ call.err # OK)
    <2>1. Mod!Over(call) /\ Mod!N = Len(Registered)
      BY ModuleNumbers DEF Mod!End, call, ModuleTypes
    <2> QED BY <1>1, <2>1, ModuleNumbers, Numbers DEF Mod!Over
  <1>6. \A m \in Mods : call.op \in Mod!Backward => Behind(m)
    BY <1>5, ModuleNumbers DEF Behind, Mod!Forward, Mod!Backward
  <1>7. bulk' \in [Actors -> Calls] /\ \A t \in Actors : bulk'[t].op = "none"
    BY <1>2, <1>3, Threads DEF ModuleTypes, Called
  <1>8. ModuleTypes'
    <2>1. ret' \in [Actors -> Int] /\ s_is_mods_inited' \in BOOLEAN
      BY <1>1, <1>2 DEF ModuleTypes
    <2> QED BY <1>2, <1>7, <2>1 DEF ModuleTypes
  <1>9. call'.op = "none"
    BY <1>7, Threads DEF call
  <1>10. s_is_mods_inited' = (s_is_mods_inited \/ (call.op = "initialize" /\ call.err = OK))
    BY <1>2, Numbers
  <1>11. ret'[L] = call.err
    BY <1>2, Threads DEF ModuleTypes
  <1> QED BY <1>1, <1>2, <1>4, <1>5, <1>6, <1>7, <1>8, <1>9, <1>10, <1>11

\* After the finalization every module that is counted was finalized.
LEMMA EndCounted ==
    ASSUME ModuleTypes, Called, Counted, Mod!End(L), L' = L,
           ~exited' => ~exited,
           ~exited' /\ mlpc' # "returned" => mlpc # "returned" /\ call.op # "finalize"
    PROVE  Counted'
  <1>1. /\ call'.op = "none"
        /\ UNCHANGED <<s_modules, m_status, s_n_finalized_modules, worker, finalized>>
        /\ \A m \in Mods : call.op \in Mod!Backward => Behind(m)
        /\ call.i = Len(Registered) + 1 \/ (call.op \in Mod!Forward /\ call.err # OK)
    BY EndEffect
  <1>2. ~InCall("finalize")' /\ \A m \in Mods : Mod!Finalizable(m)' = Mod!Finalizable(m)
    BY <1>1 DEF InCall, Mod!Finalizable
  <1>3. /\ s_n_finalized_modules <= Len(Registered)
        /\ s_n_finalized_modules = Len(Registered) => \A m \in Mods : finalized[m] = 1
    <2>1. CASE InCall("finalize")
      <3>1. call.i = Len(Registered) + 1 /\ \A m \in Mods : Behind(m)
        BY <1>1, <2>1 DEF InCall, Mod!Forward, Mod!Backward
      <3>2. call.i - 1 = Len(Registered)
        BY <3>1, ModuleNumbers
      <3> QED BY <2>1, <3>1, <3>2 DEF Counted
    <2> QED BY <2>1 DEF Counted
  <1>4. ~exited' /\ mlpc' # "returned" =>
          s_n_finalized_modules = 0 /\ \A m \in Mods : finalized[m] = 0
    BY DEF Counted, InCall
  <1> QED BY <1>1, <1>2, <1>3, <1>4 DEF Counted

\* Where s_prologue and s_epilogue go on.
LEMMA AfterCalls ==
    \A r : /\ After("initialize", r) \in {"pre_hook", "returned"}
           /\ After("start", r) \in {"set_started", "returned"}
           /\ After("initialize", r) = "pre_hook" => r = OK
           /\ r = OK => After("initialize", r) = "pre_hook"
           /\ After("start", r) = "set_started" => r = OK
           /\ r = OK => After("start", r) = "set_started"
           /\ After("shutdown", r) \in {"wait", "stop", "finalize"}
           /\ r = OK => After("shutdown", r) = "wait"
           /\ After("wait", r) = (IF r = TIMEDOUT THEN "stop" ELSE "finalize")
           /\ After("stop", r) \in {"wait_again", "finalize"}
           /\ After("wait_again", r) = "finalize" /\ After("finalize", r) = "returned"
  BY DEF After

LEMMA LoopEndsInv == ASSUME IInv, LoopEnds PROVE IInv'
  <1> USE DEF IInv, Types, Control
  <1>1. /\ ~exited /\ exiter # L /\ Mod!End(L)
        /\ mlpc' = After(mlpc, ret'[L]) /\ UNCHANGED <<do_thread, loop, ml_gl>>
        /\ exitpc' = IF mlpc = "finalize" /\ exitpc = "sleep" THEN "awake" ELSE exitpc
        /\ UNCHANGED <<gsvars, mainpc, sigvars, exiter, exited>>
    BY DEF LoopEnds, Manager, Goto
  <1>2. L' = L
    BY <1>1 DEF L
  <1>3. /\ call.op \in Mod!Forward \cup Mod!Backward
        /\ call'.op = "none" /\ ModuleTypes'
        /\ \A t \in Actors : bulk'[t].op = "none"
        /\ s_lck' = Nobody /\ ret'[L] = call.err
        /\ UNCHANGED <<s_modules, m_status, s_n_finalized_modules, worker, finalized>>
        /\ s_gstate' = "STARTED" => s_gstate = "STARTED" \/ (call.op = "start" /\ call.err = OK)
        /\ s_is_mods_inited' = (s_is_mods_inited \/ (call.op = "initialize" /\ call.err = OK))
        /\ call.i = Len(Registered) + 1 \/ (call.op \in Mod!Forward /\ call.err # OK)
        /\ \A m \in Mods : call.op \in Mod!Backward => Behind(m)
    BY <1>1, <1>2, EndEffect
  <1>4. exitpc \notin {"finalize", "finalizing"}
        /\ (exitpc # "none" => do_thread /\ exiter = Main /\ mainpc \in {"exit", "waited"})
    BY <1>1, LoopRuns
  <1>5. /\ call.op = (IF mlpc = "wait_again" THEN "wait" ELSE mlpc)
        /\ mlpc \in {"initialize", "start", "shutdown", "wait", "stop", "wait_again", "finalize"}
    BY <1>1, <1>3, <1>4 DEF Called, Mod!Forward, Mod!Backward
  <1>6. \/ mlpc = "initialize" /\ call.err = OK /\ mlpc' = "pre_hook"
        \/ mlpc = "initialize" /\ call.err # OK /\ mlpc' = "returned"
        \/ mlpc = "start" /\ call.err = OK /\ mlpc' = "set_started"
        \/ mlpc = "start" /\ call.err # OK /\ mlpc' = "returned"
        \/ mlpc = "shutdown" /\ call.err = OK /\ mlpc' = "wait"
        \/ mlpc = "shutdown" /\ call.err # OK /\ mlpc' \in {"stop", "finalize"}
        \/ mlpc = "wait" /\ call.err = TIMEDOUT /\ mlpc' = "stop"
        \/ mlpc = "wait" /\ call.err # TIMEDOUT /\ mlpc' = "finalize"
        \/ mlpc = "stop" /\ mlpc' \in {"wait_again", "finalize"}
        \/ mlpc = "wait_again" /\ mlpc' = "finalize"
        \/ mlpc = "finalize" /\ mlpc' = "returned"
    <2>1. mlpc' = After(mlpc, call.err)
      BY <1>1, <1>3
    <2>2. mlpc = "shutdown" /\ call.err # OK => mlpc' \in {"stop", "finalize"}
      BY <2>1 DEF After
    <2> QED BY <1>5, <2>1, <2>2, AfterCalls
  <1>7. (mlpc \in {"initialize", "start"} => ~(s_gs >= 4) /\ ~(s_gs >= 6))
        /\ (mlpc \notin {"initialize", "start"} => s_gs >= 6)
    BY <1>5, Numbers DEF Tracked, Early, Down
  <1>8. TrackerTypes' /\ PlaceTypes'
    <2>1. mlpc' \in Places
      BY <1>6 DEF Places, Early, Running, Up, Down
    <2> QED BY <1>1, <1>2, <2>1 DEF TrackerTypes, PlaceTypes, gsvars, ExitPlaces
  <1>9. Tracked'
    BY <1>1, <1>6, <1>7, Numbers DEF Tracked, gsvars, sigvars, Early, Down
  <1>10. MainBehind' /\ LevelKept'
    BY <1>1, <1>2, <1>3, <1>5, <1>6, Numbers DEF MainBehind, LevelKept, gsvars, Early, Up
  <1>11. Exiting'
    BY <1>1, <1>2, <1>4 DEF Exiting, gsvars
  <1>12. Called'
    <2>1. s_gstate' = "STARTED" => s_gs >= GS!STARTED \/ mlpc' = "set_started"
      BY <1>3, <1>5, <1>6 DEF Called
    <2> QED BY <1>1, <1>2, <1>3, <2>1 DEF Called, gsvars
  <1>13. \A m \in Mods : /\ Mod!HasThread(m)' = Mod!HasThread(m) /\ Told(m)' = Told(m)
                         /\ m_status'[m] = m_status[m] /\ worker'[m] = worker[m]
    BY <1>3 DEF Mod!HasThread, Told
  <1>14. \A op : InCall(op)' => op = "none"
    BY <1>3 DEF InCall
  <1>15. Inited'
    <2>1. CASE s_is_mods_inited
      BY <1>3, <2>1 DEF Inited
    <2>2. CASE ~s_is_mods_inited
      <3>1. mlpc = "initialize" /\ \A m \in Mods : worker[m] = "none"
        BY <1>5, <2>2 DEF Modular, Inited
      <3>2. s_is_mods_inited' \/ mlpc' = "returned"
        BY <1>3, <1>5, <1>6, <3>1
      <3> QED BY <1>13, <3>1, <3>2 DEF Inited
    <2> QED BY <2>1, <2>2
  <1>16. StatusFits'
    BY <1>13 DEF Modular, StatusFits, Fits
  <1>17. Counted'
    BY <1>1, <1>2, <1>5, <1>6, EndCounted DEF Modular
  <1>18. ComingUp'
    <2>1. CASE mlpc \in {"initialize", "start"}
      <3>1. \A m \in Mods : /\ m_status[m] \in {"REGISTERED", "INITIALIZED", "STARTED"}
                            /\ worker[m] \in {"none", "running", "ended"}
        BY <2>1 DEF Modular, ComingUp, Early
      <3>2. mlpc' = "set_started" => \A m \in Mods : m_status[m] = "STARTED"
        <4>1. SUFFICES ASSUME mlpc' = "set_started" PROVE \A m \in Mods : m_status[m] = "STARTED"
          OBVIOUS
        <4>2. mlpc = "start" /\ call.err = OK /\ call.i = Len(Registered) + 1
          BY <1>3, <1>6, <4>1
        <4>3. \A m \in Mods : m < call.i
          BY <4>2, ModuleNumbers
        <4> QED BY <1>5, <4>2, <4>3 DEF Modular, ComingUp, InCall
      <3> QED BY <1>1, <1>6, <1>13, <1>14, <2>1, <3>1, <3>2 DEF ComingUp, Running, Up, Early
    <2>2. CASE mlpc \notin {"initialize", "start"}
      <3>1. /\ mlpc' \in {"wait", "stop", "wait_again", "finalize", "returned"}
            /\ mlpc' = "returned" => mlpc = "finalize"
            /\ mlpc' = "finalize" => ml_gl # GS!SHUTDOWN_UNKNOWN
        BY <1>5, <1>6, <2>2 DEF LevelKept
      <3> QED BY <1>1, <1>13, <1>14, <3>1 DEF Modular, ComingUp, Early, Running, Up
    <2> QED BY <2>1, <2>2
  <1>19. ASSUME Obeying PROVE GoingDown'
    <2> USE DEF Modular
    <2>1. \A m \in Mods : call.op \in {"shutdown", "wait", "stop"} => Behind(m)
      BY <1>3 DEF Mod!Backward
    <2>2. mlpc' # "shutdown" /\ \A op : op # "none" => ~InCall(op)'
      BY <1>6, <1>14
    <2>3. mlpc' = "wait" => \A m \in Mods : Told(m)'
      BY <1>5, <1>6, <1>13, <1>19, <2>1 DEF GoingDown, InCall
    <2>4. mlpc' = "stop" => \A m \in Mods : /\ m_status'[m] = "STARTED" => Mod!HasThread(m)'
                                            /\ worker'[m] # "running"
      <3>1. mlpc' = "stop" => mlpc = "wait"
        BY <1>5, <1>6, <1>19 DEF GoingDown, InCall
      <3> QED BY <1>13, <1>19, <3>1 DEF GoingDown, Told
    <2>5. mlpc' \in {"wait_again", "finalize"} => \A m \in Mods : worker'[m] \notin {"running", "asked"}
      <3>1. CASE mlpc = "wait" /\ call.err # TIMEDOUT
        <4>1. \A m \in Mods : m_status[m] = "SHUTDOWN"
          BY <1>5, <1>19, <2>1, <3>1 DEF GoingDown, InCall
        <4> QED BY <1>13, <4>1 DEF StatusFits, Fits
      <3>2. CASE mlpc = "stop"
        <4>1. \A m \in Mods : m_status[m] # "STARTED"
          BY <1>5, <1>19, <2>1, <3>2 DEF GoingDown, InCall
        <4> QED BY <1>13, <4>1 DEF StatusFits, Fits
      <3>3. CASE mlpc = "wait_again"
        BY <1>13, <1>19, <3>3 DEF GoingDown
      <3>4. mlpc' \in {"wait_again", "finalize"} => ~(mlpc = "shutdown")
        BY <1>5, <1>6, <1>19 DEF GoingDown, InCall
      <3> QED BY <1>6, <3>1, <3>2, <3>3, <3>4
    <2>6. mlpc' = "returned" /\ ml_gl' # GS!SHUTDOWN_UNKNOWN =>
            \A m \in Mods : worker'[m] \notin {"running", "asked"}
      <3>1. mlpc' = "returned" /\ ml_gl' # GS!SHUTDOWN_UNKNOWN => mlpc = "finalize"
        BY <1>1, <1>6 DEF LevelKept, Early
      <3> QED BY <1>1, <1>13, <1>19, <3>1 DEF GoingDown
    <2> QED BY <2>2, <2>3, <2>4, <2>5, <2>6 DEF GoingDown
  <1> QED BY <1>3, <1>8, <1>9, <1>10, <1>11, <1>12, <1>15, <1>16, <1>17, <1>18, <1>19 DEF Modular

\* The finalization by the main thread that has called exit(3) in a module's procedure.
LEMMA ExitFinalizesInv == ASSUME IInv, ExitFinalizes PROVE IInv'
  <1> USE DEF IInv, Types, Control
  <1>1. /\ ~exited /\ exitpc \in {"finalize", "finalizing"}
        /\ UNCHANGED <<gsvars, loopvars, mainpc, sigvars, exiter, s_is_unloading>>
    BY DEF ExitFinalizes
  <1>2. ~do_thread /\ exiter = L /\ L = Main /\ exiter # Nobody /\ mlpc \in {"initialize", "start"}
    BY <1>1, Threads DEF Exiting
  <1>3. L' = L /\ mlpc' = mlpc /\ s_gs' = s_gs
    BY <1>1 DEF L, loopvars, gsvars
  <1>4. TrackerTypes'
    BY <1>1 DEF TrackerTypes, gsvars
  <1>5. Tracked' /\ MainBehind'
    BY <1>1, <1>3 DEF Tracked, MainBehind, gsvars, loopvars, sigvars
  <1>9. call'.op # "shutdown" => LevelKept'
    BY <1>1, <1>2, <1>3 DEF LevelKept, loopvars, Early
  <1>6. CASE exitpc = "finalize"
    <2>1. /\ exitpc' = "finalizing" /\ exited' = exited /\ s_gstate' = "FINALIZING"
          /\ bulk' = [bulk EXCEPT ![L] = [op |-> "finalize", i |-> 1, err |-> OK, mode |-> "inf"]]
          /\ UNCHANGED <<s_modules, m_status, s_n_finalized_modules, s_is_mods_inited, worker,
                         finalized, ret>>
      BY <1>2, <1>6 DEF ExitFinalizes
    <2>2. [op |-> "finalize", i |-> 1, err |-> OK, mode |-> "inf"] \in Calls
      BY Numbers DEF Calls, Mod!Backward
    <2>3. /\ call' = [op |-> "finalize", i |-> 1, err |-> OK, mode |-> "inf"]
          /\ bulk' \in [Actors -> Calls] /\ \A t \in Actors \ {L} : bulk'[t] = bulk[t]
      BY <1>3, <2>1, <2>2, Threads DEF call, ModuleTypes
    <2>4. ModuleTypes' /\ PlaceTypes'
      BY <1>1, <1>3, <2>1, <2>3 DEF ModuleTypes, PlaceTypes, loopvars, ExitPlaces
    <2>5. Exiting'
      BY <1>1, <1>2, <2>1, <2>3 DEF Exiting, InCall, loopvars
    <2>6. Called'
      <3>1. call'.i \in 1 .. Len(Registered) + 1
        BY <2>3, ModuleNumbers
      <3> QED BY <1>1, <1>2, <1>3, <2>1, <2>3, <3>1 DEF Called
    <2>7. call.op \in {"initialize", "start"}
      BY <1>6 DEF Exiting
    <2>8. \A m \in Mods : ~Behind(m)'
      BY <2>3, ModuleNumbers DEF Behind
    <2>9. InCall("finalize")' /\ ~InCall("start")'
      BY <2>3 DEF InCall
    <2>10. \A m \in Mods : /\ Mod!HasThread(m)' = Mod!HasThread(m)
                           /\ Mod!Finalizable(m)' = Mod!Finalizable(m)
      BY <2>1 DEF Mod!HasThread, Mod!Finalizable
    <2>11. Inited' /\ StatusFits'
      BY <1>3, <2>1, <2>10 DEF Modular, Inited, StatusFits, Fits
    <2>12. Counted'
      <3>1. s_n_finalized_modules = 0 /\ \A m \in Mods : finalized[m] = 0
        BY <1>1, <1>2, <2>7 DEF Modular, Counted, InCall
      <3> QED BY <2>1, <2>3, <2>8, <2>9, <2>10, <3>1 DEF Counted
    <2>13. ComingUp' /\ GoingDown'
      BY <1>2, <1>3, <2>1, <2>9 DEF Modular, ComingUp, GoingDown, Running
    <2> QED BY <1>4, <1>5, <1>9, <2>3, <2>4, <2>5, <2>6, <2>11, <2>12, <2>13 DEF Modular
  <1>7. CASE Mod!Step(exiter) /\ UNCHANGED <<exitpc, exited>>
    BY <1>1, <1>2, <1>7, StepInv DEF exitvars, sigvars
  <1>8. CASE exitpc = "finalizing" /\ Mod!End(exiter) /\ exitpc' = "over" /\ exited' = TRUE
    <2>1. InCall("finalize") /\ Mod!End(L)
      BY <1>2, <1>8 DEF Exiting
    <2>2. /\ call'.op = "none" /\ ModuleTypes'
          /\ \A t \in Actors : bulk'[t].op = "none"
          /\ UNCHANGED <<s_modules, m_status, s_n_finalized_modules, worker, finalized>>
          /\ s_gstate' = "STARTED" => s_gstate = "STARTED"
          /\ s_is_mods_inited' = s_is_mods_inited
      BY <1>3, <2>1, EndEffect DEF InCall, ModuleTypes
    <2>3. PlaceTypes'
      BY <1>1, <1>3, <1>8 DEF PlaceTypes, loopvars, ExitPlaces
    <2>4. Exiting'
      BY <1>1, <1>2, <1>8 DEF Exiting
    <2>5. Called'
      BY <1>1, <1>2, <1>3, <1>8, <2>2 DEF Called
    <2>6. \A m \in Mods : Mod!HasThread(m)' = Mod!HasThread(m)
      BY <2>2 DEF Mod!HasThread
    <2>7. Inited' /\ StatusFits'
      BY <1>3, <2>2, <2>6 DEF Modular, Inited, StatusFits, Fits
    <2>8. Counted'
      BY <1>3, <1>8, <2>1, EndCounted DEF Modular
    <2>9. ComingUp' /\ GoingDown'
      BY <1>2, <1>3, <2>2 DEF Modular, ComingUp, GoingDown, InCall, Running
    <2> QED BY <1>4, <1>5, <1>9, <2>2, <2>3, <2>4, <2>5, <2>7, <2>8, <2>9 DEF Modular
  <1> QED BY <1>6, <1>7, <1>8 DEF ExitFinalizes

\* A module's thread ends, or dies of its cancellation.
LEMMA WorkersEndInv == ASSUME IInv, WorkersEnd PROVE IInv'
  <1> USE DEF IInv, Types, Control
  <1>1. PICK m \in Mods : Mod!WorkerEnds(m) \/ Mod!WorkerCanceled(m)
    BY DEF WorkersEnd, Mods
  <1>2. /\ UNCHANGED <<gsvars, loopvars, mainpc, sigvars, exitvars>>
        /\ UNCHANGED <<s_gstate, s_lck, s_modules, m_status, s_n_finalized_modules,
                       s_is_mods_inited, finalized, bulk, ret>>
    BY <1>1 DEF WorkersEnd, Mod!WorkerEnds, Mod!WorkerCanceled
  <1>3. \/ worker[m] \in Mod!Alive /\ worker' = [worker EXCEPT ![m] = "ended"]
        \/ worker[m] = "canceling" /\ worker' = [worker EXCEPT ![m] = "canceled"]
    BY <1>1 DEF Mod!WorkerEnds, Mod!WorkerCanceled
  <1>4. worker' \in [Mods -> Mod!WorkerStates] /\ \A k \in Mods \ {m} : worker'[k] = worker[k]
    BY <1>3 DEF ModuleTypes, Mod!WorkerStates
  <1>5. \/ worker[m] \in Mod!Alive /\ worker'[m] = "ended"
        \/ worker[m] = "canceling" /\ worker'[m] = "canceled"
    BY <1>3 DEF ModuleTypes
  <1>6. L' = L /\ call' = call /\ mlpc' = mlpc
    BY <1>2 DEF L, call, loopvars
  <1>7. TrackerTypes' /\ ModuleTypes' /\ PlaceTypes'
    BY <1>2, <1>4, <1>6
       DEF TrackerTypes, ModuleTypes, PlaceTypes, gsvars, loopvars, exitvars
  <1>8. Tracked' /\ MainBehind' /\ LevelKept'
    BY <1>2, <1>6 DEF Tracked, MainBehind, LevelKept, gsvars, loopvars, sigvars
  <1>9. Exiting' /\ Called'
    BY <1>2, <1>6 DEF Exiting, Called, gsvars, loopvars, exitvars, InCall
  <1>10. \A k \in Mods : /\ Mod!HasThread(k)' = Mod!HasThread(k) /\ Behind(k)' = Behind(k)
                         /\ Mod!Finalizable(k)' = Mod!Finalizable(k)
    BY <1>2, <1>6 DEF Mod!HasThread, Behind, Mod!Finalizable
  <1>11. Inited'
    BY <1>2, <1>5, <1>6 DEF Modular, Inited, Mod!Alive
  <1>12. StatusFits'
    <2>1. Fits(m, m_status[m], worker[m]) /\ \A k \in Mods : Fits(k, m_status[k], worker[k])
      BY DEF Modular, StatusFits
    <2>2. Fits(m, m_status[m], worker'[m])
      BY <1>5, <2>1 DEF Fits, Mod!Alive
    <2> QED BY <1>2, <1>4, <1>10, <2>1, <2>2 DEF StatusFits, Fits
  <1>13. Counted'
    <2>1. \A k \in Mods : finalized'[k] = 1 => worker'[k] \notin Mod!Alive
      BY <1>2, <1>4, <1>5 DEF Modular, Counted, Mod!Alive
    <2> QED BY <1>2, <1>6, <1>10, <2>1 DEF Modular, Counted, InCall, exitvars
  <1>14. ComingUp'
    <2>1. worker[m] \in {"none", "running", "ended"} => worker'[m] = "ended"
      BY <1>5
    <2> QED BY <1>2, <1>4, <1>6, <2>1 DEF Modular, ComingUp, InCall, loopvars
  <1>15. ASSUME Obeying PROVE GoingDown'
    <2>1. worker[m] # "canceling" => worker'[m] = "ended"
      BY <1>5
    <2>2. \A k \in Mods : Told(k) => Told(k)'
      BY <1>2, <1>4, <1>10, <2>1 DEF Told
    <2>3. worker'[m] \in {"ended", "canceled"}
      BY <1>5
    <2> QED BY <1>2, <1>4, <1>5, <1>6, <1>10, <1>15, <2>1, <2>2, <2>3
            DEF Modular, GoingDown, InCall, loopvars
  <1> QED BY <1>7, <1>8, <1>9, <1>11, <1>12, <1>13, <1>14, <1>15 DEF Modular

-----------------------------------------------------------------------------
(* The theorems.                                                           *)

LEMMA InitInv == Init => IInv
  <1> SUFFICES ASSUME Init PROVE IInv
    OBVIOUS
  <1>1. TrackerTypes /\ s_gs = 0 /\ s_gl = 0
    BY Numbers DEF Init, GS!GSInit, TrackerTypes, GS!NoOutput
  <1>2. /\ s_modules = Registered /\ m_status = [m \in Mods |-> "REGISTERED"]
        /\ worker = [m \in Mods |-> "none"] /\ finalized = [m \in Mods |-> 0]
        /\ s_n_finalized_modules = 0 /\ s_is_mods_inited = FALSE
        /\ s_gstate = "UNKNOWN" /\ s_lck = Nobody
        /\ bulk = [t \in Actors |-> Mod!NoBulk] /\ ret = [t \in Actors |-> Mod!NoResult]
    BY ModuleNumbers DEF Init, Mod!InitWith
  <1>3. Mod!NoBulk \in Calls /\ Mod!NoBulk.op = "none"
    BY Numbers DEF Mod!NoBulk, Calls
  <1>4. ModuleTypes
    <2>1. m_status \in [Mods -> Mod!ModuleStates] /\ worker \in [Mods -> Mod!WorkerStates]
      BY <1>2 DEF Mod!ModuleStates, Mod!WorkerStates
    <2>2. finalized \in [Mods -> {0, 1}] /\ s_n_finalized_modules \in Nat
      BY <1>2
    <2>3. bulk \in [Actors -> Calls] /\ ret \in [Actors -> Int]
      BY <1>2, <1>3, Numbers
    <2>4. s_is_mods_inited \in BOOLEAN
      BY <1>2
    <2> QED BY <1>2, <2>1, <2>2, <2>3, <2>4 DEF ModuleTypes
  <1>5. /\ do_thread \in BOOLEAN /\ mlpc = "off" /\ ml_gl = 0 /\ mainpc = "application"
        /\ exiter = Nobody /\ exitpc = "none" /\ exited = FALSE /\ sigpc # "handling"
    BY LifecycleAssumption, Numbers DEF Init, Sg!Init
  <1>6. PlaceTypes
    <2>1. mlpc \in Places /\ mainpc \in MainPlaces /\ exitpc \in ExitPlaces
      BY <1>5 DEF Places, Early, MainPlaces, ExitPlaces
    <2>2. ml_gl \in 0 .. 2 /\ exiter \in {Nobody, Main, L}
      BY <1>5
    <2>3. exited \in BOOLEAN
      BY <1>5
    <2> QED BY <1>5, <2>1, <2>2, <2>3 DEF PlaceTypes
  <1>7. call.op = "none" /\ \A t \in Actors : bulk[t].op = "none"
    BY <1>2, <1>3, Threads DEF call
  <1>8. Tracked /\ MainBehind /\ LevelKept /\ Exiting
    BY <1>1, <1>5, <1>7, Numbers DEF Tracked, MainBehind, LevelKept, Exiting, Down, Early, Up
  <1>9. Called
    BY <1>2, <1>5, <1>7 DEF Called
  <1>10. Inited /\ StatusFits /\ ComingUp /\ GoingDown
    BY <1>2, <1>5, <1>7 DEF Inited, StatusFits, Fits, ComingUp, GoingDown, InCall, Running, Early, Up
  <1>11. Counted
    BY <1>2, <1>5, <1>7, ModuleNumbers DEF Counted, InCall, Mod!Alive
  <1> QED BY <1>1, <1>4, <1>6, <1>8, <1>9, <1>10, <1>11 DEF IInv, Types, Control, Modular

LEMMA NextInv == ASSUME IInv, [Next]_vars PROVE IInv'
  <1>1. CASE UNCHANGED vars
    BY <1>1, QuietInv DEF vars, sigvars
  <1>2. CASE LoopNext
    <2>1. CASE LoopIdles
      <3>1. mlpc = "idle" \/ mlpc = "idling"
        BY <2>1 DEF LoopIdles
      <3> QED BY <2>1, <3>1, IdleWaitsInv, IdleDecidesInv
    <2> QED BY <1>2, <2>1, LoopSetsInv, LoopDecidesInv, LoopCalloutsInv, LoopBeginsInv,
            LoopStepsInv, LoopEndsInv
            DEF LoopNext
  <1>3. CASE MainNext
    BY <1>3, HandlersInv, MainEntersInv, MainStartsInv, MainGoesOnInv, MainWaitsInv, ExitsInv
       DEF MainNext
  <1>4. CASE SignalArrives \/ SignalKills \/ SignalNext
    BY <1>4, SignalThreadInv, SignalKillsInv, SignalCallsInv DEF SignalNext
  <1>5. CASE ProcExits \/ ExitNext
    BY <1>5, ExitsInv, ExitRechecksInv, ExitRequestsInv, ExitFinalizesInv DEF ExitNext
  <1>6. CASE LoopCanceled \/ WorkersEnd \/ IdleTimesOut
    BY <1>6, LoopCanceledInv, WorkersEndInv, IdleTimesOutInv
  <1> QED BY <1>1, <1>2, <1>3, <1>4, <1>5, <1>6 DEF Next

\* The inductive invariant holds in every reachable state: the places of the main loop, of
\* the main thread and of the exit handler follow the tracker's state, and the modules'
\* statuses, threads and finalizations follow those places (gallus_mainloop,
\* s_term_handler and s_atexit_handler).
THEOREM Inductive == Spec => []IInv
  BY InitInv, NextInv, PTL DEF Spec

\* The modules are shut down with the level that was granted, however the signal thread
\* and an exiting thread race in global_state_request_shutdown, and s_default_idle_proc's
\* wait with its time limit: the level that s_epilogue finds in s_gl is the tracker's, and
\* without a level, which only s_callout_mainloop may end with, no module is told.
THEOREM LevelCorrect == Spec => []LevelGranted
  <1>1. IInv => LevelGranted
    BY Numbers DEF IInv, Control, LevelKept, LevelGranted, HasLevel, call
  <1> QED BY <1>1, Inductive, PTL

\* The library's static destructors run at exit only when no module's thread is left and
\* every module was finalized once, whichever thread calls exit(3), in a module's
\* procedure or not, and wherever the main loop is (s_atexit_handler, s_finalize_module,
\* gallus_module_is_finalized_cleanly).
THEOREM DestructorsCorrect == Spec => []DestructorsSafe
  <1>1. IInv => DestructorsSafe
    <2> SUFFICES ASSUME IInv, exited, DestructorsRun, NEW m \in Mods
                 PROVE  worker[m] \notin Mod!Alive /\ (s_is_mods_inited => finalized[m] = 1)
      BY DEF DestructorsSafe
    <2> USE DEF IInv, Modular
    <2>1. CASE ~s_is_mods_inited
      BY <2>1 DEF Inited, Mod!Alive
    <2>2. CASE s_is_mods_inited
      <3>1. s_n_finalized_modules = Len(Registered)
        BY <2>2, ModuleNumbers DEF DestructorsRun, Mod!is_finalized_cleanly, Types, ModuleTypes
      <3>2. finalized[m] = 1
        <4>1. CASE InCall("finalize")
          <5>1. call.i - 1 = Len(Registered) /\ call.i \in Nat
            BY <3>1, <4>1, ModuleNumbers DEF Counted, Types, Control, Called, InCall
          <5>2. Behind(m)
            BY <5>1, ModuleNumbers DEF Behind
          <5> QED BY <3>1, <4>1, <5>1, <5>2 DEF Counted
        <4>2. CASE ~InCall("finalize")
          BY <3>1, <4>2 DEF Counted
        <4> QED BY <4>1, <4>2
      <3> QED BY <3>2 DEF Counted
    <2> QED BY <2>1, <2>2
  <1> QED BY <1>1, Inductive, PTL

\* Modules whose procedures obey the shutdown and the stop go down in the reverse of the
\* order they came up, and when a main loop that has got a request returns every thread
\* left was at least cancelled (gallus_module_shutdown_all, gallus_module_stop_all and
\* gallus_module_finalize_all, called in turn by s_epilogue).
THEOREM OrderlyCorrect == Failing \cap {"shutdown", "stop"} = {} => (Spec => []OrderlyEnd)
  <1> SUFFICES ASSUME Obeying PROVE Spec => []OrderlyEnd
    BY DEF Obeying
  <1>1. IInv => ReverseOrder
    <2> SUFFICES ASSUME IInv, NEW m \in Mods, NEW k \in Mods, m < k
                 PROVE  /\ finalized[m] > 0 => finalized[k] > 0 \/ ~Mod!Finalizable(k)
                        /\ worker[m] = "asked" \/ m_status[m] = "SHUTDOWN" => worker[k] # "running"
      BY DEF ReverseOrder
    <2> USE DEF IInv, Modular
    <2>1. finalized[m] > 0 => finalized[k] > 0 \/ ~Mod!Finalizable(k)
      BY DEF Counted, Types, ModuleTypes
    <2>2. ASSUME worker[m] = "asked" \/ m_status[m] = "SHUTDOWN" PROVE worker[k] # "running"
      <3>1. mlpc \in Places
        BY DEF Types, PlaceTypes
      <3>2. ~(\/ mlpc \in Early \cup Running \cup {"epilogue", "canceled"}
              \/ mlpc = "shutdown" /\ call.op = "none"
              \/ mlpc \in {"finalize", "returned"} /\ ml_gl = GS!SHUTDOWN_UNKNOWN)
        BY <2>2 DEF ComingUp
      <3>3. CASE mlpc = "shutdown"
        <4>0. InCall("shutdown")
          BY <3>2, <3>3 DEF Control, Called, InCall
        <4>1. Behind(m)
          BY <2>2, <3>3, <4>0 DEF GoingDown
        <4>2. Behind(k)
          BY <4>0, <4>1, ModuleNumbers DEF Behind, Types, Control, Called, InCall
        <4> QED BY <3>3, <4>0, <4>2 DEF GoingDown, Told
      <3>4. CASE \/ mlpc \in {"wait", "stop", "wait_again"}
                 \/ mlpc \in {"finalize", "returned"} /\ ml_gl # GS!SHUTDOWN_UNKNOWN
        BY <3>4 DEF GoingDown, Told
      <3> QED BY <3>1, <3>2, <3>3, <3>4 DEF Places, Down
    <2> QED BY <2>1, <2>2
  <1>2. IInv => RemainingTerminated
    BY DEF IInv, Modular, GoingDown, RemainingTerminated, AllTerminated
  <1> QED BY <1>1, <1>2, Inductive, PTL DEF OrderlyEnd

=============================================================================
