---------------------------- MODULE ModuleProofs ----------------------------
(***************************************************************************)
(* What Module promises for any number of threads and modules and any      *)
(* sequence of the bulk calls: the statuses tell the truth about the       *)
(* workers, nothing is finalized under a running worker, and no module     *)
(* runs ahead of one registered before it.  Then what the global state     *)
(* tracker promises: GState shares no state with Module.                           *)
(***************************************************************************)
EXTENDS Module, GState, TLAPS

\* Only the thread that holds s_lck is in a bulk call, so that the registered
\* modules do not change during one.
LockHeld == \A t \in Threads : bulk[t].op # "none" => s_lck = t

\* What a status, a worker and the presence of a thread say about each other.
Fits(status, w, threaded) ==
    /\ status \in {"UNKNOWN", "REGISTERED", "INITIALIZED"} => w = "none"
    /\ status \in {"SHUTDOWN", "STOPPED"} => w \notin Alive
    /\ w = "canceled" => status \in {"CANCELLING", "STOPPED"}
    /\ w = "canceling" => status = "CANCELLING"
    /\ ~threaded => w = "none"

SlotsFit ==
    /\ \A m \in 1 .. N : Fits(m_status[m], worker[m], HasThread(m))
    /\ \A m \in Slots : m > N => worker[m] = "none"

\* How far a forward call has brought the modules it went through.
Reached == [initialize |-> 1, start |-> 2]
Progress ==
    \A t \in Threads :
        bulk[t].op \in Forward /\ bulk[t].err = OK =>
            \A m \in Slots : m < bulk[t].i => Rank[m_status[m]] >= Reached[bulk[t].op]

IInv == TypeOK /\ LockHeld /\ SlotsFit /\ Progress /\ NoGap

-----------------------------------------------------------------------------
\* The result codes are integers, and those that are not OK differ from it.
LEMMA Codes ==
    /\ OK \in Int /\ ANY_FAILURES \in Int /\ TIMEDOUT \in Int /\ INVALID_STATE \in Int
    /\ NO_MEMORY \in Int /\ ALREADY_EXISTS \in Int /\ NOT_FOUND \in Int /\ NoResult \in Int
    /\ INVALID_STATE # OK /\ TIMEDOUT # OK /\ ANY_FAILURES # OK
  BY DEF OK, ANY_FAILURES, TIMEDOUT, INVALID_STATE, NO_MEMORY, ALREADY_EXISTS, NOT_FOUND, NoResult

LEMMA ProcResultsInt == \A op \in Failing \cup Forward \cup Backward : ProcResults(op) \subseteq Int
  BY Codes DEF ProcResults

\* A status has a rank.
LEMMA RankType ==
    /\ \A s \in ModuleStates : Rank[s] \in 0 .. 2
    /\ \A s \in ModuleStates : Rank[s] >= 2 <=> s \notin {"UNKNOWN", "REGISTERED", "INITIALIZED"}
    /\ \A s \in ModuleStates : Rank[s] >= 1 <=> s \notin {"UNKNOWN", "REGISTERED"}
  BY DEF Rank, ModuleStates

\* What one module's turn leaves behind: the types, a status that fits the
\* worker, a rank that does not fall, and one that rises only in a forward call,
\* to what that call is about.
TurnGood(op, m, turn) ==
    /\ turn.status \in ModuleStates \ {"UNKNOWN"}
    /\ turn.worker \in WorkerStates
    /\ turn.ret \in Int
    /\ Fits(turn.status, turn.worker, HasThread(m))
    /\ Rank[turn.status] >= Rank[m_status[m]]
    /\ op \in Backward => Rank[turn.status] = Rank[m_status[m]]
    /\ op \in Forward => \/ Rank[turn.status] = Rank[m_status[m]]
                         \/ Rank[turn.status] <= Reached[op]
    /\ op \in Forward /\ turn.ret = OK => Rank[turn.status] >= Reached[op]

\* A module that is left as it is.
LEMMA KeepGood ==
    ASSUME TypeOK, SlotsFit, NEW m \in 1 .. N, NEW r \in Int, NEW op \in Forward \cup Backward,
           op \in Forward /\ r = OK => Rank[m_status[m]] >= Reached[op]
    PROVE  TurnGood(op, m, Keep(m, r))
  <1>1. m \in Slots /\ m_status[m] \in ModuleStates \ {"UNKNOWN"} /\ worker[m] \in WorkerStates
    BY ModuleAssumption DEF TypeOK, Slots, N
  <1>2. Fits(m_status[m], worker[m], HasThread(m))
    BY DEF SlotsFit
  <1>3. Rank[m_status[m]] \in 0 .. 2
    BY <1>1, RankType
  <1> QED BY <1>1, <1>2, <1>3 DEF TurnGood, Keep, Turn

LEMMA InitializeGood ==
    ASSUME TypeOK, SlotsFit, NEW m \in 1 .. N, NEW turn \in s_initialize_module(m)
    PROVE  TurnGood("initialize", m, turn)
  <1>1. m \in Slots /\ m_status[m] \in ModuleStates \ {"UNKNOWN"} /\ worker[m] \in WorkerStates
    BY ModuleAssumption DEF TypeOK, Slots, N
  <1>2. Fits(m_status[m], worker[m], HasThread(m))
    BY DEF SlotsFit
  <1>3. CASE m_status[m] = "REGISTERED"
    <2>1. PICK r \in ProcResults("initialize") :
             turn = Turn(m, IF r = OK THEN "INITIALIZED" ELSE "REGISTERED", worker[m], r)
      BY <1>3 DEF s_initialize_module
    <2>2. r \in Int
      BY ProcResultsInt DEF Forward, Backward
    <2>3. worker[m] = "none"
      BY <1>2, <1>3 DEF Fits
    <2> QED BY <1>1, <1>3, <2>1, <2>2, <2>3, RankType
            DEF TurnGood, Turn, Fits, Reached, Forward, Backward, ModuleStates, WorkerStates, Alive
  <1>4. CASE m_status[m] # "REGISTERED"
    BY <1>4, KeepGood, Codes DEF s_initialize_module, Forward
  <1> QED BY <1>3, <1>4

LEMMA StartGood ==
    ASSUME TypeOK, SlotsFit, NEW m \in 1 .. N, NEW turn \in s_start_module(m)
    PROVE  TurnGood("start", m, turn)
  <1>1. m \in Slots /\ m_status[m] \in ModuleStates \ {"UNKNOWN"} /\ worker[m] \in WorkerStates
    BY ModuleAssumption DEF TypeOK, Slots, N
  <1>2. Fits(m_status[m], worker[m], HasThread(m))
    BY DEF SlotsFit
  <1>3. CASE m_status[m] = "INITIALIZED"
    <2>1. PICK r \in ProcResults("start") :
             turn = IF r = OK
                    THEN Turn(m, "STARTED", IF HasThread(m) THEN "running" ELSE worker[m], r)
                    ELSE Keep(m, r)
      BY <1>3 DEF s_start_module
    <2>2. r \in Int
      BY ProcResultsInt DEF Forward, Backward
    <2>3. worker[m] = "none"
      BY <1>2, <1>3 DEF Fits
    <2>4. CASE r = OK
      BY <1>1, <1>3, <2>1, <2>2, <2>3, <2>4, RankType
      DEF TurnGood, Turn, Fits, Reached, Forward, Backward, ModuleStates, WorkerStates, Alive
    <2>5. CASE r # OK
      BY <2>1, <2>2, <2>5, KeepGood DEF Forward
    <2> QED BY <2>4, <2>5
  <1>4. CASE m_status[m] # "INITIALIZED"
    <2>1. turn = Keep(m, IF m_status[m] = "STARTED" THEN OK ELSE INVALID_STATE)
      BY <1>4 DEF s_start_module
    <2>2. m_status[m] = "STARTED" => Rank[m_status[m]] >= Reached["start"]
      BY DEF Rank, Reached
    <2> QED BY <2>1, <2>2, KeepGood, Codes DEF Forward
  <1> QED BY <1>3, <1>4

LEMMA ShutdownGood ==
    ASSUME TypeOK, SlotsFit, NEW m \in 1 .. N, NEW turn \in s_shutdown_module(m)
    PROVE  TurnGood("shutdown", m, turn)
  <1>1. m \in Slots /\ m_status[m] \in ModuleStates \ {"UNKNOWN"} /\ worker[m] \in WorkerStates
    BY ModuleAssumption DEF TypeOK, Slots, N
  <1>2. Fits(m_status[m], worker[m], HasThread(m))
    BY DEF SlotsFit
  <1>3. CASE m_status[m] = "STARTED"
    <2>1. PICK r \in ProcResults("shutdown") :
             turn = Turn(m, IF HasThread(m) THEN "STARTED" ELSE "SHUTDOWN",
                         IF worker[m] = "running" /\ r = OK THEN "asked" ELSE worker[m], r)
      BY <1>3 DEF s_shutdown_module
    <2>2. r \in Int
      BY ProcResultsInt DEF Forward, Backward
    <2> QED BY <1>1, <1>2, <1>3, <2>1, <2>2
            DEF TurnGood, Turn, Fits, Rank, Forward, Backward, ModuleStates, WorkerStates, Alive
  <1>4. CASE m_status[m] # "STARTED"
    BY <1>4, KeepGood, Codes DEF s_shutdown_module, Forward, Backward
  <1> QED BY <1>3, <1>4

LEMMA StopGood ==
    ASSUME TypeOK, SlotsFit, NEW m \in 1 .. N, NEW turn \in s_stop_module(m)
    PROVE  TurnGood("stop", m, turn)
  <1>1. m \in Slots /\ m_status[m] \in ModuleStates \ {"UNKNOWN"} /\ worker[m] \in WorkerStates
    BY ModuleAssumption DEF TypeOK, Slots, N
  <1>2. Fits(m_status[m], worker[m], HasThread(m))
    BY DEF SlotsFit
  <1>3. CASE m_status[m] = "STARTED" /\ (HasStopProc(m) \/ HasThread(m))
    <2>1. PICK r \in IF HasStopProc(m) THEN ProcResults("stop") ELSE {OK} :
             turn = IF r = OK
                    THEN Turn(m, IF HasThread(m) THEN "CANCELLING" ELSE "SHUTDOWN",
                              IF worker[m] \in Alive THEN "canceling" ELSE worker[m], r)
                    ELSE Keep(m, r)
      BY <1>3 DEF s_stop_module
    <2>2. r \in Int
      BY ProcResultsInt, Codes DEF Forward, Backward
    <2>3. CASE r = OK
      BY <1>1, <1>2, <1>3, <2>1, <2>2, <2>3
      DEF TurnGood, Turn, Fits, Rank, Forward, Backward, ModuleStates, WorkerStates, Alive
    <2>4. CASE r # OK
      BY <2>1, <2>2, <2>4, KeepGood DEF Forward, Backward
    <2> QED BY <2>3, <2>4
  <1>4. CASE ~(m_status[m] = "STARTED" /\ (HasStopProc(m) \/ HasThread(m)))
    <2>1. \E r \in {OK, INVALID_STATE} : turn = Keep(m, r)
      BY <1>4 DEF s_stop_module
    <2> QED BY <2>1, KeepGood, Codes DEF Forward, Backward
  <1> QED BY <1>3, <1>4

LEMMA WaitGood ==
    ASSUME TypeOK, SlotsFit, NEW m \in 1 .. N, NEW mode, NEW turn \in s_wait_module(m, mode)
    PROVE  TurnGood("wait", m, turn)
  <1>1. m \in Slots /\ m_status[m] \in ModuleStates \ {"UNKNOWN"} /\ worker[m] \in WorkerStates
    BY ModuleAssumption DEF TypeOK, Slots, N
  <1>2. Fits(m_status[m], worker[m], HasThread(m))
    BY DEF SlotsFit
  <1>3. CASE /\ m_status[m] \in {"CANCELLING", "STARTED"} /\ worker[m] \in {"ended", "canceled"}
             /\ turn = Turn(m, IF worker[m] = "canceled" THEN "STOPPED" ELSE "SHUTDOWN",
                            worker[m], OK)
    BY <1>1, <1>2, <1>3, Codes
    DEF TurnGood, Turn, Fits, Rank, Forward, Backward, ModuleStates, WorkerStates, Alive
  <1>4. CASE \E r \in {OK, TIMEDOUT, INVALID_STATE} : turn = Keep(m, r)
    BY <1>4, KeepGood, Codes DEF Forward, Backward
  <1> QED BY <1>3, <1>4 DEF s_wait_module

\* One turn of any bulk call.
LEMMA TurnsGood ==
    ASSUME TypeOK, SlotsFit, NEW m \in 1 .. N, NEW op \in Forward \cup Backward, NEW mode,
           NEW turn \in Turns(op, m, mode)
    PROVE  TurnGood(op, m, turn)
  <1>1. CASE op = "initialize"
    BY <1>1, InitializeGood DEF Turns
  <1>2. CASE op = "start"
    BY <1>2, StartGood DEF Turns
  <1>3. CASE op = "shutdown"
    BY <1>3, ShutdownGood DEF Turns
  <1>4. CASE op = "stop"
    BY <1>4, StopGood DEF Turns
  <1>5. CASE op = "wait"
    BY <1>5, WaitGood DEF Turns
  <1>6. CASE op = "finalize"
    BY <1>6, KeepGood, Codes DEF Turns, Forward, Backward
  <1> QED BY <1>1, <1>2, <1>3, <1>4, <1>5, <1>6 DEF Forward, Backward

-----------------------------------------------------------------------------
\* Nobody is in a bulk call while s_lck is free.
LEMMA FreeLock ==
    ASSUME LockHeld, s_lck = Nobody, NEW t \in Threads
    PROVE  bulk[t].op = "none"
  BY ModuleAssumption DEF LockHeld

LEMMA InitInv == Init => IInv
  <1> SUFFICES ASSUME Init PROVE IInv
    OBVIOUS
  <1>1. N = 0 /\ s_modules \in Seq([name : Names, kind : Kinds])
    BY DEF Init, InitWith, N
  <1>2. TypeOK
    <2>1. s_gstate \in GStates
      BY DEF Init, InitWith, GStates
    <2>2. \A t \in Threads : bulk[t] = NoBulk
      BY DEF Init, InitWith
    <2>3. bulk \in [Threads -> [op : Forward \cup Backward \cup {"none"}, i : Nat, err : Int,
                                mode : {"inf", "timed"}]]
      BY Codes DEF Init, InitWith, NoBulk
    <2>4. /\ m_status \in [Slots -> ModuleStates]
          /\ \A m \in Slots : m_status[m] = "UNKNOWN" /\ m > N
      BY <1>1, ModuleAssumption DEF Init, InitWith, N, Slots, ModuleStates
    <2>5. /\ worker \in [Slots -> WorkerStates]
          /\ finalized \in [Slots -> Nat]
          /\ ret \in [Threads -> Int]
      BY Codes DEF Init, InitWith, WorkerStates
    <2>6. N <= MAX_MODULES
      BY <1>1, ModuleAssumption
    <2> QED BY <1>1, <2>1, <2>2, <2>3, <2>4, <2>5, <2>6
            DEF Init, InitWith, TypeOK, NoBulk
  <1>3. LockHeld /\ Progress
    BY DEF Init, InitWith, LockHeld, Progress, NoBulk, Forward
  <1>4. SlotsFit
    BY <1>1 DEF Init, InitWith, SlotsFit
  <1>5. NoGap
    BY <1>1 DEF Init, InitWith, NoGap, Slots, Rank
  <1> QED BY <1>2, <1>3, <1>4, <1>5 DEF IInv

\* A step that leaves the modules, their statuses and their workers alone.
LEMMA SameModules ==
    ASSUME IInv, UNCHANGED <<s_modules, m_status, worker>>
    PROVE  SlotsFit' /\ NoGap' /\ N' = N
  BY DEF IInv, SlotsFit, NoGap, N, HasThread, Fits

LEMMA RegisterInv ==
    ASSUME IInv, NEW t \in Threads, NEW name \in Names, NEW kind \in Kinds,
           Register(t, name, kind)
    PROVE  IInv'
  <1> USE DEF IInv
  <1>1. s_lck' = s_lck /\ bulk' = bulk /\ worker' = worker
    BY DEF Register
  <1>2. \A u \in Threads : bulk'[u].op = "none"
    BY <1>1, FreeLock DEF Register
  <1>3. LockHeld' /\ Progress'
    BY <1>2 DEF LockHeld, Progress, Forward
  <1>4. CASE s_modules' = s_modules /\ m_status' = m_status
    <2>1. TypeOK'
      BY <1>4, Codes DEF Register, TypeOK, N
    <2> QED BY <1>1, <1>3, <1>4, <2>1, SameModules
  <1>5. CASE /\ N < MAX_MODULES
             /\ s_modules' = Append(s_modules, [name |-> name, kind |-> kind])
             /\ m_status' = [m_status EXCEPT ![N + 1] = "REGISTERED"]
             /\ ret' = [ret EXCEPT ![t] = OK]
    <2>1. N \in Nat /\ N + 1 \in Slots /\ m_status[N + 1] = "UNKNOWN" /\ worker[N + 1] = "none"
      BY <1>5, ModuleAssumption DEF TypeOK, Slots, SlotsFit, N
    <2>2. /\ s_modules' \in Seq([name : Names, kind : Kinds])
          /\ N' = N + 1
          /\ \A m \in 1 .. N : s_modules'[m] = s_modules[m]
      BY <1>5 DEF TypeOK, N
    <2>3. \A m \in Slots : m # N + 1 => m_status'[m] = m_status[m]
      BY <1>5 DEF TypeOK
    <2>4. m_status'[N + 1] = "REGISTERED"
      BY <1>5, <2>1 DEF TypeOK
    <2>5. TypeOK'
      <3>1. m_status' \in [Slots -> ModuleStates]
        BY <1>5 DEF TypeOK, ModuleStates
      <3>2. \A m \in Slots : m_status'[m] = "UNKNOWN" <=> m > N'
        BY <2>1, <2>2, <2>3, <2>4 DEF TypeOK, Slots
      <3>3. ret' \in [Threads -> Int]
        BY <1>5, Codes DEF TypeOK
      <3> QED BY <1>1, <1>2, <1>5, <2>1, <2>2, <3>1, <3>2, <3>3, ModuleAssumption
              DEF Register, TypeOK
    <2>6. SlotsFit'
      <3>1. ASSUME NEW m \in 1 .. N
            PROVE  Fits(m_status'[m], worker'[m], HasThread(m)')
        <4>1. m \in Slots /\ m # N + 1
          BY <2>1, ModuleAssumption DEF Slots
        <4>2. m_status'[m] = m_status[m] /\ worker'[m] = worker[m]
          BY <1>1, <2>3, <4>1
        <4>3. HasThread(m)' <=> HasThread(m)
          BY <2>2 DEF HasThread
        <4>4. Fits(m_status[m], worker[m], HasThread(m))
          BY DEF SlotsFit
        <4> QED BY <4>2, <4>3, <4>4 DEF Fits
      <3>2. \A m \in Slots : m > N' => worker'[m] = "none"
        BY <1>1, <2>1, <2>2 DEF SlotsFit, Slots
      <3>3. \A m \in 1 .. N' : m \in 1 .. N \/ m = N + 1
        BY <2>1, <2>2
      <3>4. \A m \in 1 .. N' : Fits(m_status'[m], worker'[m], HasThread(m)')
        <4> SUFFICES ASSUME NEW m \in 1 .. N'
                     PROVE  Fits(m_status'[m], worker'[m], HasThread(m)')
          OBVIOUS
        <4>1. CASE m \in 1 .. N
          BY <3>1, <4>1
        <4>2. CASE m = N + 1
          BY <1>1, <2>1, <2>4, <4>2 DEF Fits, Alive
        <4> QED BY <3>3, <4>1, <4>2
      <3> QED BY <3>2, <3>4 DEF SlotsFit
    <2>7. NoGap'
      <3>1. \A m \in Slots : Rank[m_status'[m]] = Rank[m_status[m]]
        BY <2>1, <2>3, <2>4 DEF Rank
      <3> QED BY <3>1 DEF NoGap
    <2> QED BY <1>3, <2>5, <2>6, <2>7
  <1>6. N \in Nat
    BY DEF TypeOK, N
  <1>7. CASE N >= MAX_MODULES
    BY <1>4, <1>7 DEF Register
  <1>8. CASE N < MAX_MODULES /\ s_find_module(name, FALSE) = NOT_FOUND
    BY <1>5, <1>6, <1>8, ModuleAssumption DEF Register
  <1>9. CASE N < MAX_MODULES /\ s_find_module(name, FALSE) # NOT_FOUND
    BY <1>4, <1>6, <1>9, ModuleAssumption DEF Register
  <1>10. N >= MAX_MODULES \/ N < MAX_MODULES
    BY <1>6, ModuleAssumption
  <1> QED BY <1>7, <1>8, <1>9, <1>10

LEMMA FindInv ==
    ASSUME IInv, NEW t \in Threads, NEW name \in Names, Find(t, name)
    PROVE  IInv'
  <1> USE DEF IInv
  <1>1. s_find_module(name, FALSE) \in Int
    BY Codes DEF s_find_module
  <1>2. TypeOK'
    BY <1>1 DEF Find, TypeOK, N
  <1>3. LockHeld' /\ Progress'
    BY DEF Find, LockHeld, Progress
  <1>4. SlotsFit' /\ NoGap'
    BY SameModules DEF Find
  <1> QED BY <1>2, <1>3, <1>4

LEMMA BeginInv ==
    ASSUME IInv, NEW t \in Threads, NEW op \in Forward \cup Backward, NEW mode \in {"inf", "timed"},
           Begin(t, op, mode)
    PROVE  IInv'
  <1> USE DEF IInv
  <1>1. N' = N /\ N \in Nat
    BY DEF Begin, TypeOK, N
  <1>2. bulk'[t] = [op |-> op, i |-> 1, err |-> OK, mode |-> mode]
    BY DEF Begin, TypeOK
  <1>3. \A u \in Threads \ {t} : bulk'[u] = bulk[u] /\ bulk[u].op = "none"
    BY FreeLock DEF Begin, TypeOK
  <1>4. TypeOK'
    <2>1. s_gstate' \in GStates
      BY DEF Begin, TypeOK, GStates, Running, Forward, Backward
    <2>2. bulk' \in [Threads -> [op : Forward \cup Backward \cup {"none"}, i : Nat, err : Int,
                                 mode : {"inf", "timed"}]]
      BY Codes DEF Begin, TypeOK
    <2>3. \A u \in Threads : bulk'[u].op # "none" => bulk'[u].i \in 1 .. N' + 1
      BY <1>1, <1>2, <1>3
    <2> QED BY <1>1, <2>1, <2>2, <2>3 DEF Begin, TypeOK
  <1>5. LockHeld'
    BY <1>2, <1>3 DEF Begin, LockHeld
  <1>6. Progress'
    BY <1>2, <1>3 DEF Begin, Progress, Slots, Forward
  <1>7. SlotsFit' /\ NoGap'
    BY SameModules DEF Begin
  <1> QED BY <1>4, <1>5, <1>6, <1>7

LEMMA StepInv ==
    ASSUME IInv, NEW t \in Threads, Step(t)
    PROVE  IInv'
  <1> USE DEF IInv
  <1> DEFINE b == bulk[t]
             m == TurnOf(b.op, b.i)
  <1>1. /\ b \in [op : Forward \cup Backward \cup {"none"}, i : Nat, err : Int,
                  mode : {"inf", "timed"}]
        /\ b.op \in Forward \cup Backward
        /\ b.i \in 1 .. N
        /\ b.op \in Forward => b.err = OK
        /\ N \in Nat
    BY DEF Step, TypeOK, Over, N
  <1>2. /\ m \in 1 .. N
        /\ m \in Slots
        /\ b.op \in Forward => m = b.i
    <2>1. /\ m \in 1 .. N
          /\ b.op \in Forward => m = b.i
      BY <1>1 DEF TurnOf
    <2>2. N \in Nat /\ N <= MAX_MODULES
      BY <1>1 DEF TypeOK
    <2> QED BY <2>1, <2>2, ModuleAssumption DEF Slots
  <1>3. PICK turn \in Turns(b.op, m, b.mode) :
          /\ m_status' = [m_status EXCEPT ![m] = turn.status]
          /\ worker' = [worker EXCEPT ![m] = turn.worker]
          /\ bulk' = [bulk EXCEPT ![t] = [b EXCEPT !.i = b.i + 1,
                                                   !.err = IF b.err = OK THEN turn.ret ELSE b.err]]
    BY DEF Step
  <1>4. TurnGood(b.op, m, turn)
    BY <1>1, <1>2, TurnsGood
  <1>5. s_modules' = s_modules /\ s_lck' = s_lck /\ N' = N
    BY DEF Step, N
  <1>6. /\ m_status'[m] = turn.status
        /\ worker'[m] = turn.worker
        /\ \A k \in Slots \ {m} : m_status'[k] = m_status[k] /\ worker'[k] = worker[k]
    BY <1>2, <1>3 DEF TypeOK
  <1>7. /\ bulk'[t].op = b.op /\ bulk'[t].i = b.i + 1 /\ bulk'[t].mode = b.mode
        /\ bulk'[t].err = IF b.err = OK THEN turn.ret ELSE b.err
        /\ \A u \in Threads \ {t} : bulk'[u] = bulk[u] /\ bulk[u].op = "none"
    <2>1. bulk' = [bulk EXCEPT ![t] = [b EXCEPT !.i = b.i + 1,
                                        !.err = IF b.err = OK THEN turn.ret ELSE b.err]]
      BY <1>3
    <2>2. bulk'[t] = [b EXCEPT !.i = b.i + 1, !.err = IF b.err = OK THEN turn.ret ELSE b.err]
      BY <2>1 DEF TypeOK
    <2>3. \A u \in Threads \ {t} : bulk'[u] = bulk[u]
      BY <2>1 DEF TypeOK
    <2>4. s_lck = t
      BY <1>1 DEF LockHeld, Forward, Backward
    <2>5. \A u \in Threads \ {t} : bulk[u].op = "none"
      BY <2>4 DEF LockHeld
    <2> HIDE DEF b
    <2> QED BY <1>1, <2>2, <2>3, <2>5
  <1>8. /\ \A k \in Slots : Rank[m_status[k]] \in 0 .. 2 /\ Rank[m_status'[k]] \in 0 .. 2
        /\ \A k \in Slots : Rank[m_status'[k]] >= Rank[m_status[k]]
        /\ \A k \in Slots \ {m} : Rank[m_status'[k]] = Rank[m_status[k]]
    <2>1. \A k \in Slots : m_status[k] \in ModuleStates
      BY DEF TypeOK
    <2>2. turn.status \in ModuleStates /\ Rank[turn.status] >= Rank[m_status[m]]
      BY <1>4 DEF TurnGood
    <2>3. ASSUME NEW k \in Slots
          PROVE  /\ Rank[m_status[k]] \in 0 .. 2
                 /\ Rank[m_status'[k]] \in 0 .. 2
                 /\ Rank[m_status'[k]] >= Rank[m_status[k]]
                 /\ k # m => Rank[m_status'[k]] = Rank[m_status[k]]
      <3>1. CASE k = m
        BY <1>6, <2>1, <2>2, <3>1, RankType
      <3>2. CASE k # m
        BY <1>6, <2>1, <3>2, RankType
      <3> QED BY <3>1, <3>2
    <2> QED BY <2>3
  <1>9. TypeOK'
    <2>1. m_status' \in [Slots -> ModuleStates] /\ worker' \in [Slots -> WorkerStates]
      BY <1>3, <1>4 DEF TypeOK, TurnGood
    <2>2. ASSUME NEW k \in Slots
          PROVE  m_status'[k] = "UNKNOWN" <=> k > N
      <3>1. CASE k = m
        BY <1>1, <1>2, <1>4, <1>6, <3>1 DEF TurnGood
      <3>2. CASE k # m
        BY <1>6, <3>2 DEF TypeOK
      <3> QED BY <3>1, <3>2
    <2>3. bulk' \in [Threads -> [op : Forward \cup Backward \cup {"none"}, i : Nat, err : Int,
                                 mode : {"inf", "timed"}]]
      <3>1. turn.ret \in Int
        BY <1>4 DEF TurnGood
      <3>2. [b EXCEPT !.i = b.i + 1, !.err = IF b.err = OK THEN turn.ret ELSE b.err]
              \in [op : Forward \cup Backward \cup {"none"}, i : Nat, err : Int,
                   mode : {"inf", "timed"}]
        <4> DEFINE i2 == b.i + 1
                   e2 == IF b.err = OK THEN turn.ret ELSE b.err
        <4>1. i2 \in Nat /\ e2 \in Int
          BY <1>1, <3>1
        <4> HIDE DEF b, i2, e2
        <4>2. [b EXCEPT !.i = i2, !.err = e2]
                \in [op : Forward \cup Backward \cup {"none"}, i : Nat, err : Int,
                     mode : {"inf", "timed"}]
          BY <1>1, <4>1
        <4> QED BY <4>2 DEF i2, e2
      <3> QED BY <1>3, <3>2 DEF TypeOK
    <2>4. \A u \in Threads : bulk'[u].op # "none" => bulk'[u].i \in 1 .. N + 1
      BY <1>1, <1>7
    <2>5. finalized' \in [Slots -> Nat] /\ s_n_finalized_modules' \in Nat
      BY <1>2 DEF Step, TypeOK
    <2> QED BY <1>5, <2>1, <2>2, <2>3, <2>4, <2>5 DEF Step, TypeOK
  <1>10. LockHeld'
    BY <1>5, <1>7 DEF LockHeld
  <1>11. SlotsFit'
    <2>1. ASSUME NEW k \in 1 .. N
          PROVE  Fits(m_status'[k], worker'[k], HasThread(k)')
      <3>1. HasThread(k)' <=> HasThread(k)
        BY <1>5 DEF HasThread
      <3>2. CASE k = m
        BY <1>4, <1>6, <3>1, <3>2 DEF TurnGood, Fits
      <3>3. CASE k # m
        <4>1. k \in Slots \ {m}
          BY <1>1, <3>3, ModuleAssumption DEF TypeOK, Slots
        <4>2. Fits(m_status[k], worker[k], HasThread(k))
          BY DEF SlotsFit
        <4> QED BY <1>6, <3>1, <4>1, <4>2 DEF Fits
      <3> QED BY <3>2, <3>3
    <2>2. \A k \in Slots : k > N => worker'[k] = "none"
      BY <1>1, <1>2, <1>6 DEF SlotsFit, Slots
    <2> QED BY <1>5, <2>1, <2>2 DEF SlotsFit
  <1>12. Progress'
    <2>1. SUFFICES ASSUME b.op \in Forward, bulk'[t].err = OK,
                          NEW k \in Slots, k < b.i + 1
                   PROVE  Rank[m_status'[k]] >= Reached[b.op]
      BY <1>7 DEF Progress, Forward
    <2>2. CASE k = m
      BY <1>1, <1>4, <1>6, <1>7, <2>1, <2>2 DEF TurnGood
    <2>3. CASE k # m
      <3>1. k < b.i
        BY <1>1, <1>2, <2>1, <2>3 DEF Slots
      <3>2. Rank[m_status[k]] >= Reached[b.op]
        BY <1>1, <2>1, <3>1 DEF Progress
      <3> QED BY <1>8, <2>3, <3>2
    <2> QED BY <2>2, <2>3
  <1>13. NoGap'
    <2>1. SUFFICES ASSUME NEW k \in Slots, NEW l \in Slots, k < l
                   PROVE  Rank[m_status'[k]] >= Rank[m_status'[l]]
      BY DEF NoGap
    <2>2. Rank[m_status[k]] >= Rank[m_status[l]]
      BY <2>1 DEF NoGap
    <2>3. CASE l # m \/ Rank[m_status'[l]] = Rank[m_status[l]]
      BY <1>8, <2>2, <2>3
    <2>4. CASE l = m /\ Rank[m_status'[l]] # Rank[m_status[l]]
      <3>1. b.op \in Forward /\ Rank[m_status'[l]] <= Reached[b.op]
        BY <1>1, <1>4, <1>6, <2>4 DEF TurnGood
      <3>2. Rank[m_status[k]] >= Reached[b.op]
        BY <1>1, <1>2, <2>1, <2>4, <3>1 DEF Progress
      <3>3. Reached[b.op] \in 0 .. 2
        BY <3>1 DEF Reached, Forward
      <3> QED BY <1>8, <3>1, <3>2, <3>3
    <2> QED BY <2>3, <2>4
  <1> QED BY <1>9, <1>10, <1>11, <1>12, <1>13

LEMMA EndInv ==
    ASSUME IInv, NEW t \in Threads, End(t)
    PROVE  IInv'
  <1> USE DEF IInv
  <1>1. bulk[t] \in [op : Forward \cup Backward \cup {"none"}, i : Nat, err : Int,
                     mode : {"inf", "timed"}]
    BY DEF TypeOK
  <1>2. bulk'[t] = NoBulk
    BY DEF End, TypeOK
  <1>3. \A u \in Threads \ {t} : bulk'[u] = bulk[u] /\ bulk[u].op = "none"
    BY ModuleAssumption DEF End, TypeOK, LockHeld
  <1>4. N' = N /\ N \in Nat
    BY DEF End, TypeOK, N
  <1>5. TypeOK'
    <2>1. s_gstate' \in GStates
      BY DEF End, TypeOK, GStates
    <2>2. bulk' \in [Threads -> [op : Forward \cup Backward \cup {"none"}, i : Nat, err : Int,
                                 mode : {"inf", "timed"}]]
      BY Codes DEF End, TypeOK, NoBulk
    <2>3. \A u \in Threads : bulk'[u].op = "none"
      BY <1>2, <1>3 DEF NoBulk
    <2>4. s_is_mods_inited' \in BOOLEAN
      BY DEF End, TypeOK
    <2> QED BY <1>1, <1>4, <2>1, <2>2, <2>3, <2>4 DEF End, TypeOK
  <1>6. LockHeld' /\ Progress'
    BY <1>2, <1>3 DEF LockHeld, Progress, NoBulk, Forward
  <1>7. SlotsFit' /\ NoGap'
    BY SameModules DEF End
  <1> QED BY <1>5, <1>6, <1>7

\* A worker ends, by itself or cancelled.
LEMMA WorkerInv ==
    ASSUME IInv, NEW m \in Slots, WorkerEnds(m) \/ WorkerCanceled(m)
    PROVE  IInv'
  <1> USE DEF IInv
  <1>1. UNCHANGED <<s_gstate, s_lck, s_modules, m_status, s_n_finalized_modules,
                    s_is_mods_inited, finalized, bulk, ret>>
    BY DEF WorkerEnds, WorkerCanceled
  <1>2. N' = N /\ N \in Nat
    BY <1>1 DEF TypeOK, N
  <1>3. PICK w \in {"ended", "canceled"} :
          /\ worker' = [worker EXCEPT ![m] = w]
          /\ worker[m] \in Alive
          /\ w = "canceled" => worker[m] = "canceling"
    BY DEF WorkerEnds, WorkerCanceled, Alive
  <1>4. worker'[m] = w /\ \A k \in Slots \ {m} : worker'[k] = worker[k]
    BY <1>3 DEF TypeOK
  <1>5. TypeOK'
    BY <1>1, <1>2, <1>3 DEF TypeOK, WorkerStates
  <1>6. LockHeld' /\ Progress' /\ NoGap'
    BY <1>1 DEF LockHeld, Progress, NoGap
  <1>7. SlotsFit'
    <2>1. ASSUME NEW k \in 1 .. N
          PROVE  Fits(m_status'[k], worker'[k], HasThread(k)')
      <3>1. HasThread(k)' <=> HasThread(k)
        BY <1>1 DEF HasThread
      <3>2. Fits(m_status[k], worker[k], HasThread(k))
        BY DEF SlotsFit
      <3>3. k \in Slots
        BY <1>2, ModuleAssumption DEF TypeOK, Slots
      <3>4. CASE k = m
        BY <1>1, <1>3, <1>4, <3>1, <3>2, <3>4 DEF Fits, Alive
      <3>5. CASE k # m
        BY <1>1, <1>4, <3>1, <3>2, <3>3, <3>5 DEF Fits
      <3> QED BY <3>4, <3>5
    <2>2. \A k \in Slots : k > N => worker'[k] = "none"
      BY <1>3, <1>4 DEF SlotsFit, Alive
    <2> QED BY <1>2, <2>1, <2>2 DEF SlotsFit
  <1> QED BY <1>5, <1>6, <1>7

LEMMA NextInv == IInv /\ [Next]_vars => IInv'
  <1> SUFFICES ASSUME IInv, [Next]_vars PROVE IInv'
    OBVIOUS
  <1>1. ASSUME NEW t \in Threads, NEW name \in Names, NEW kind \in Kinds, Register(t, name, kind)
        PROVE  IInv'
    BY <1>1, RegisterInv
  <1>2. ASSUME NEW t \in Threads, NEW name \in Names, Find(t, name)
        PROVE  IInv'
    BY <1>2, FindInv
  <1>3. ASSUME NEW t \in Threads, NEW op \in Forward \cup Backward, NEW mode \in {"inf", "timed"},
               Begin(t, op, mode)
        PROVE  IInv'
    BY <1>3, BeginInv
  <1>4. ASSUME NEW t \in Threads, Step(t)
        PROVE  IInv'
    BY <1>4, StepInv
  <1>5. ASSUME NEW t \in Threads, End(t)
        PROVE  IInv'
    BY <1>5, EndInv
  <1>6. ASSUME NEW m \in Slots, WorkerEnds(m) \/ WorkerCanceled(m)
        PROVE  IInv'
    BY <1>6, WorkerInv
  <1>7. CASE UNCHANGED vars
    BY <1>7 DEF vars, IInv, TypeOK, LockHeld, SlotsFit, Progress, NoGap, N, HasThread, Fits
  <1>8. WaitModes \subseteq {"inf", "timed"} /\ {"shutdown", "stop", "finalize", "wait"} \subseteq Backward
    BY ModuleAssumption DEF Backward
  <1> QED BY <1>1, <1>2, <1>3, <1>4, <1>5, <1>6, <1>7, <1>8 DEF Next

LEMMA Inductive == Spec => []IInv
  BY InitInv, NextInv, PTL DEF Spec

-----------------------------------------------------------------------------
\* The state keeps its type: never more modules than MAX_MODULES, and a bulk
\* call never goes past the registered ones.
THEOREM TypeCorrect == Spec => []TypeOK
  <1>1. IInv => TypeOK
    BY DEF IInv
  <1> QED BY <1>1, Inductive, PTL

\* The statuses, by which the bulk calls decide what may be started, waited for
\* and finalized, tell the truth about the modules' threads.
THEOREM StatusCorrect == Spec => []StatusTellsWorker
  <1>1. ASSUME IInv
        PROVE  StatusTellsWorker
    <2> SUFFICES ASSUME NEW m \in Slots
                 PROVE  /\ m_status[m] \in {"UNKNOWN", "REGISTERED", "INITIALIZED"} => worker[m] = "none"
                        /\ m_status[m] \in {"SHUTDOWN", "STOPPED"} => worker[m] \notin Alive
                        /\ worker[m] = "canceled" => m_status[m] \in {"CANCELLING", "STOPPED"}
      BY DEF StatusTellsWorker
    <2>1. CASE m \in 1 .. N
      BY <1>1, <2>1 DEF IInv, SlotsFit, Fits
    <2>2. CASE m > N
      BY <1>1, <2>2 DEF IInv, SlotsFit, Alive
    <2>3. m \in 1 .. N \/ m > N
      BY <1>1 DEF IInv, TypeOK, Slots, N
    <2> QED BY <2>1, <2>2, <2>3
  <1> QED BY <1>1, Inductive, PTL

\* gallus_module_finalize_all never calls m_finalize_proc under a running thread.
THEOREM FinalizeCorrect == Spec => FinalizesStopped
  <1>1. ASSUME IInv, [Next]_vars, NEW m \in Slots, finalized'[m] # finalized[m]
        PROVE  worker[m] \notin Alive
    <2>1. PICK t \in Threads : Step(t)
      BY <1>1 DEF Next, vars, Register, Find, Begin, End, WorkerEnds, WorkerCanceled
    <2> DEFINE k == TurnOf(bulk[t].op, bulk[t].i)
    <2>2. Finalizable(k) /\ finalized' = [finalized EXCEPT ![k] = @ + 1]
      BY <1>1, <2>1 DEF Step
    <2>3. k = m
      BY <1>1, <2>2 DEF IInv, TypeOK
    <2>4. m \in 1 .. N
      BY <1>1, <2>1, <2>3 DEF IInv, TypeOK, Step, Over, TurnOf, Slots, N
    <2> QED BY <1>1, <2>2, <2>3, <2>4 DEF IInv, SlotsFit, Fits, Finalizable, Alive
  <1>2. IInv /\ [Next]_vars =>
          [\A m \in Slots : finalized'[m] # finalized[m] => worker[m] \notin Alive]_vars
    BY <1>1
  <1> QED BY <1>2, Inductive, PTL DEF Spec, FinalizesStopped

\* Modules are brought up in the order of registration without a gap, whatever
\* fails and however often the calls are repeated.
THEOREM OrderCorrect == Spec => []NoGap
  <1>1. IInv => NoGap
    BY DEF IInv
  <1> QED BY <1>1, Inductive, PTL

-----------------------------------------------------------------------------
(* The global state tracker.                                               *)

\* The states and levels are the numbers of the enumerations.
LEMMA StateNumbers ==
    /\ UNKNOWN = 0 /\ REQUEST_SHUTDOWN = 5 /\ ACCEPT_SHUTDOWN = 6
    /\ GlobalStates = 0 .. 10
    /\ UNKNOWN \in GlobalStates
    /\ REQUEST_SHUTDOWN \in GlobalStates
    /\ Settable \subseteq GlobalStates
    /\ Awaited \subseteq GlobalStates
    /\ \A s \in Awaited : s > 0
  BY GStateAssumption
  DEF UNKNOWN, REQUEST_SHUTDOWN, ACCEPT_SHUTDOWN, GlobalStates, INITIALIZING, FINALIZED

\* The record a call returns has its type.
LEMMA OutputType ==
    ASSUME NEW r \in Int
    PROVE  NoOutput(r) \in [ret : Int, gs : GlobalStates, gl : {SHUTDOWN_UNKNOWN} \cup Levels]
  BY StateNumbers DEF NoOutput

\* The result codes are integers.
LEMMA GSCodes ==
    /\ OK \in Int /\ ANY_FAILURES \in Int /\ TIMEDOUT \in Int /\ NOT_OPERATIONAL \in Int
    /\ INTERRUPTED \in Int /\ INVALID_STATE \in Int /\ NoResult \in Int
  BY DEF OK, ANY_FAILURES, TIMEDOUT, NOT_OPERATIONAL, INTERRUPTED, INVALID_STATE, NoResult

\* gallus_cond_notify leaves no sleeper, whatever it was called for.
LEMMA NotifyAll ==
    ASSUME GSTypeOK, NEW t \in Callers, at[t] = "none"
    PROVE  /\ NotifyFrom(t) \in [Callers -> {"no", "ok", "timedout"}]
           /\ \A u \in Callers : at[u] # "none" => NotifyFrom(t)[u] # "no"
           /\ \A u \in Callers : /\ NotifyFrom(t)[u] # "no" => at[u] # "none"
                                 /\ NotifyFrom(t)[u] = "timedout" => timed[u]
           /\ NotifyFrom(t)[t] = "no"
  BY DEF GSTypeOK, NotifyFrom, Asleep

-----------------------------------------------------------------------------
GSInv == GSTypeOK /\ SleepersHaveReason

LEMMA GSInitInv == GSInit => GSInv
  <1> SUFFICES ASSUME GSInit PROVE GSInv
    OBVIOUS
  <1>1. GSTypeOK
    BY StateNumbers, OutputType, GSCodes DEF GSInit, GSTypeOK
  <1>2. SleepersHaveReason
    BY DEF GSInit, SleepersHaveReason, Asleep
  <1> QED BY <1>1, <1>2 DEF GSInv

LEMMA SetInv ==
    ASSUME GSInv, NEW t \in Callers, NEW s \in Settable, Set(t, s)
    PROVE  GSInv'
  <1> USE DEF GSInv
  <1>0. NoOutput(OK) \in [ret : Int, gs : GlobalStates, gl : {SHUTDOWN_UNKNOWN} \cup Levels]
        /\ NoOutput(INVALID_STATE) \in [ret : Int, gs : GlobalStates,
                                        gl : {SHUTDOWN_UNKNOWN} \cup Levels]
    BY OutputType, GSCodes
  <1>a. at' = at
    BY DEF Set, Done, GSTypeOK
  <1>b. s \in GlobalStates
    BY StateNumbers
  <1>1. CASE s_is_valid_state(s)
    <2>1. s_gs' = s /\ woken' = NotifyFrom(t)
      BY <1>1 DEF Set
    <2>2. GSTypeOK'
      BY <1>0, <1>a, <1>b, <1>1, <2>1, NotifyAll DEF Set, GSTypeOK, Done
    <2>3. SleepersHaveReason'
      BY <1>a, <2>1, NotifyAll DEF Set, SleepersHaveReason, Asleep
    <2> QED BY <2>2, <2>3
  <1>2. CASE ~s_is_valid_state(s)
    <2>1. s_gs' = s_gs /\ woken' = woken
      BY <1>2 DEF Set
    <2>2. GSTypeOK'
      BY <1>0, <1>a, <1>2, <2>1 DEF Set, GSTypeOK, Done
    <2>3. SleepersHaveReason'
      BY <1>a, <2>1 DEF Set, SleepersHaveReason, Asleep
    <2> QED BY <2>2, <2>3
  <1> QED BY <1>1, <1>2

LEMMA GetInv ==
    ASSUME GSInv, NEW t \in Callers, Get(t)
    PROVE  GSInv'
  <1> USE DEF GSInv
  <1>1. [ret |-> OK, gs |-> s_gs, gl |-> SHUTDOWN_UNKNOWN]
          \in [ret : Int, gs : GlobalStates, gl : {SHUTDOWN_UNKNOWN} \cup Levels]
    BY GSCodes DEF GSTypeOK
  <1>a. at' = at
    BY DEF Get, Done, GSTypeOK
  <1>2. GSTypeOK'
    BY <1>1, <1>a DEF Get, GSTypeOK, Done
  <1>3. SleepersHaveReason'
    BY <1>a DEF Get, SleepersHaveReason, Asleep
  <1> QED BY <1>2, <1>3

\* One pass of the wait loop: t sleeps only with a reason.
LEMMA WaitPassInv ==
    ASSUME GSInv, NEW t \in Callers, NEW s \in GlobalStates, WaitPass(t, s),
           want' = [want EXCEPT ![t] = s],
           timed' \in [Callers -> BOOLEAN],
           \A u \in Callers \ {t} : timed'[u] = timed[u]
    PROVE  GSInv'
  <1> USE DEF GSInv
  <1>1. [ret |-> WaitResult(s), gs |-> s_gs, gl |-> s_gl]
          \in [ret : Int, gs : GlobalStates, gl : {SHUTDOWN_UNKNOWN} \cup Levels]
    BY GSCodes DEF GSTypeOK, WaitResult
  <1>2. GSTypeOK'
    <2>1. /\ s_gs' \in GlobalStates /\ s_gl' \in {SHUTDOWN_UNKNOWN} \cup Levels
          /\ woken' \in [Callers -> {"no", "ok", "timedout"}]
          /\ want' \in [Callers -> GlobalStates]
      BY DEF WaitPass, GSTypeOK
    <2>2. CASE MustWait(s)
      <3>1. at' = [at EXCEPT ![t] = "wait_for"] /\ out' = out
            /\ woken' = [woken EXCEPT ![t] = "no"]
        BY <2>2 DEF WaitPass, SleepIn
      <3> QED BY <2>1, <3>1 DEF GSTypeOK
    <2>3. CASE ~MustWait(s)
      <3>1. /\ at' = [at EXCEPT ![t] = "none"] /\ woken' = [woken EXCEPT ![t] = "no"]
            /\ out' \in [Callers -> [ret : Int, gs : GlobalStates,
                                     gl : {SHUTDOWN_UNKNOWN} \cup Levels]]
        BY <1>1, <2>3 DEF WaitPass, Done, GSTypeOK
      <3> QED BY <2>1, <3>1 DEF GSTypeOK
    <2> QED BY <2>2, <2>3
  <1>3. ASSUME NEW u \in Callers, Asleep(u)'
        PROVE  /\ ~IS_GLOBAL_STATE_SHUTDOWN(s_gs')
               /\ at'[u] = "wait_for" => s_gs' < want'[u]
    <2>1. CASE u = t
      BY <1>3, <2>1 DEF WaitPass, Done, SleepIn, MustWait, GSTypeOK, Asleep
    <2>2. CASE u # t
      <3>1. at'[u] = at[u] /\ woken'[u] = woken[u] /\ want'[u] = want[u] /\ s_gs' = s_gs
        BY <2>2 DEF WaitPass, Done, SleepIn, GSTypeOK
      <3> QED BY <1>3, <3>1 DEF SleepersHaveReason, Asleep
    <2> QED BY <2>1, <2>2
  <1>4. SleepersHaveReason'
    BY <1>3 DEF SleepersHaveReason
  <1> QED BY <1>2, <1>4

LEMMA WaitForInv ==
    ASSUME GSInv, NEW t \in Callers, NEW s \in Awaited, NEW b \in BOOLEAN, WaitFor(t, s, b)
    PROVE  GSInv'
  <1>1. s \in GlobalStates
    BY StateNumbers
  <1>2. timed' \in [Callers -> BOOLEAN] /\ \A u \in Callers \ {t} : timed'[u] = timed[u]
    BY DEF GSInv, GSTypeOK, WaitFor
  <1> QED BY <1>1, <1>2, WaitPassInv DEF WaitFor

LEMMA WaitForReturnsInv ==
    ASSUME GSInv, NEW t \in Callers, WaitForReturns(t)
    PROVE  GSInv'
  <1> USE DEF GSInv
  <1>1. CASE woken[t] = "ok" /\ WaitPass(t, want[t])
    <2>1. want[t] \in GlobalStates
      BY DEF GSTypeOK
    <2>2. want' = [want EXCEPT ![t] = want[t]]
      BY DEF WaitForReturns, GSTypeOK
    <2>3. timed' \in [Callers -> BOOLEAN] /\ \A u \in Callers \ {t} : timed'[u] = timed[u]
      BY DEF GSTypeOK, WaitForReturns
    <2> QED BY <1>1, <2>1, <2>2, <2>3, WaitPassInv
  <1>2. CASE /\ woken[t] = "timedout"
             /\ woken' = [woken EXCEPT ![t] = "no"]
             /\ Done(t, NoOutput(TIMEDOUT))
             /\ UNCHANGED <<s_gs, s_gl>>
    <2>1. GSTypeOK'
      BY <1>2, OutputType, GSCodes DEF WaitForReturns, GSTypeOK, Done
    <2>2. SleepersHaveReason'
      BY <1>2 DEF WaitForReturns, GSTypeOK, Done, SleepersHaveReason, Asleep
    <2> QED BY <2>1, <2>2
  <1> QED BY <1>1, <1>2 DEF WaitForReturns

LEMMA RequestInv ==
    ASSUME GSInv, NEW t \in Callers, NEW l \in Levels, RequestShutdown(t, l)
    PROVE  GSInv'
  <1> USE DEF GSInv
  <1>1. CASE ~IS_GLOBAL_STATE_SHUTDOWN(s_gs) /\ s_gs # REQUEST_SHUTDOWN
    <2>1. /\ s_gs' = REQUEST_SHUTDOWN /\ s_gl' = l /\ woken' = NotifyFrom(t)
          /\ at' = [at EXCEPT ![t] = "request"] /\ out' = out
          /\ timed' = [timed EXCEPT ![t] = FALSE] /\ want' = want
      BY <1>1 DEF RequestShutdown, SleepIn
    <2>2. at[t] = "none"
      BY DEF RequestShutdown
    <2>3. GSTypeOK'
      <3>1. s_gs' \in GlobalStates /\ s_gl' \in {SHUTDOWN_UNKNOWN} \cup Levels
        BY <2>1, StateNumbers
      <3>2. \A u \in Callers : /\ woken'[u] # "no" => at'[u] # "none"
                               /\ woken'[u] = "timedout" => timed'[u]
        BY <2>1, <2>2, NotifyAll DEF GSTypeOK
      <3> QED BY <2>1, <2>2, <3>1, <3>2, NotifyAll DEF GSTypeOK
    <2>4. SleepersHaveReason'
      <3>1. ~IS_GLOBAL_STATE_SHUTDOWN(s_gs')
        BY <2>1, StateNumbers DEF IS_GLOBAL_STATE_SHUTDOWN
      <3>2. \A u \in Callers : u # t => ~Asleep(u)'
        BY <2>1, <2>2, NotifyAll DEF GSTypeOK, Asleep
      <3> QED BY <2>1, <3>1, <3>2 DEF GSTypeOK, SleepersHaveReason
    <2> QED BY <2>3, <2>4
  <1>2. CASE ~(~IS_GLOBAL_STATE_SHUTDOWN(s_gs) /\ s_gs # REQUEST_SHUTDOWN)
    <2>1. /\ UNCHANGED <<s_gs, s_gl, woken, want>>
          /\ Done(t, NoOutput(ANY_FAILURES))
          /\ timed' = [timed EXCEPT ![t] = FALSE]
          /\ at[t] = "none"
      BY <1>2 DEF RequestShutdown
    <2>2. GSTypeOK'
      BY <2>1, OutputType, GSCodes DEF GSTypeOK, Done
    <2>3. SleepersHaveReason'
      BY <2>1 DEF GSTypeOK, Done, SleepersHaveReason, Asleep
    <2> QED BY <2>2, <2>3
  <1> QED BY <1>1, <1>2

LEMMA RequestReturnsInv ==
    ASSUME GSInv, NEW t \in Callers, RequestReturns(t)
    PROVE  GSInv'
  <1> USE DEF GSInv
  <1>0. /\ UNCHANGED <<s_gs, s_gl, want, timed>>
        /\ woken' = [woken EXCEPT ![t] = "no"]
    BY DEF RequestReturns
  <1>1. GSTypeOK'
    <2>1. CASE SleepIn(t, "request")
      BY <1>0, <2>1 DEF GSTypeOK, SleepIn
    <2>2. CASE Done(t, NoOutput(OK))
      <3>1. /\ at' = [at EXCEPT ![t] = "none"]
            /\ out' \in [Callers -> [ret : Int, gs : GlobalStates,
                                     gl : {SHUTDOWN_UNKNOWN} \cup Levels]]
        BY <2>2, OutputType, GSCodes DEF Done, GSTypeOK
      <3> QED BY <1>0, <3>1 DEF GSTypeOK
    <2> QED BY <2>1, <2>2 DEF RequestReturns
  <1>2. SleepersHaveReason'
    BY DEF RequestReturns, GSTypeOK, Done, SleepIn, SleepersHaveReason, Asleep
  <1> QED BY <1>1, <1>2

\* Reset, the timer, a spurious wakeup and a cancellation.
LEMMA EnvironmentInv ==
    ASSUME GSInv,
           Reset \/ \E t \in Callers : Expire(t) \/ SpuriousWakeup(t) \/ Cancel(t)
    PROVE  GSInv'
  <1> USE DEF GSInv
  <1>1. CASE Reset
    <2>1. \A u \in Callers : Asleep(u) /\ at[u] = "wait_for" => want[u] > 0
      BY StateNumbers DEF GSTypeOK, SleepersHaveReason, Asleep
    <2> QED BY <1>1, <2>1, StateNumbers
            DEF Reset, GSTypeOK, SleepersHaveReason, Asleep, IS_GLOBAL_STATE_SHUTDOWN
  <1>2. ASSUME NEW t \in Callers, Expire(t) PROVE GSInv'
    BY <1>2 DEF Expire, GSTypeOK, SleepersHaveReason, Asleep
  <1>3. ASSUME NEW t \in Callers, SpuriousWakeup(t) PROVE GSInv'
    BY <1>3 DEF SpuriousWakeup, GSTypeOK, SleepersHaveReason, Asleep
  <1>4. ASSUME NEW t \in Callers, Cancel(t) PROVE GSInv'
    BY <1>4, OutputType, GSCodes DEF Cancel, GSTypeOK, SleepersHaveReason, Asleep
  <1> QED BY <1>1, <1>2, <1>3, <1>4

LEMMA GSNextInv == GSInv /\ [GSNext]_gsvars => GSInv'
  <1> SUFFICES ASSUME GSInv, [GSNext]_gsvars PROVE GSInv'
    OBVIOUS
  <1>1. CASE UNCHANGED gsvars
    BY <1>1 DEF gsvars, GSInv, GSTypeOK, SleepersHaveReason, Asleep
  <1>2. CASE GSNext
    BY <1>2, SetInv, GetInv, WaitForInv, RequestInv, WaitForReturnsInv, RequestReturnsInv,
       EnvironmentInv
    DEF GSNext, Resume
  <1> QED BY <1>1, <1>2

\* The tracker's state keeps its type, and gallus_cond_notify(&s_cond, true) in
\* global_state_set and global_state_request_shutdown is all the waking it
\* takes: no thread sleeps on for a state that was reached, or through a shutdown.
THEOREM NoLostWakeup == GSSpec => []GSTypeOK /\ []SleepersHaveReason
  <1>1. GSInv => GSTypeOK /\ SleepersHaveReason
    BY DEF GSInv
  <1> QED BY <1>1, GSInitInv, GSNextInv, PTL DEF GSSpec

-----------------------------------------------------------------------------
\* Every step but the reset leads to the same or a later state, and keeps the
\* level once a shutdown was requested.
LEMMA StepOneWay ==
    ASSUME GSInv, [GSNext]_gsvars, ~Reset
    PROVE  /\ s_gs' >= s_gs
           /\ s_gs >= REQUEST_SHUTDOWN => s_gl' = s_gl
  <1>0. s_gs \in Int
    BY StateNumbers DEF GSInv, GSTypeOK
  <1>1. ASSUME NEW t \in Callers, NEW s \in Settable, Set(t, s)
        PROVE  s_gs' >= s_gs /\ s_gl' = s_gl
    BY <1>0, <1>1 DEF Set, s_is_valid_state
  <1>2. ASSUME NEW t \in Callers, NEW l \in Levels, RequestShutdown(t, l)
        PROVE  s_gs' >= s_gs /\ (s_gs >= REQUEST_SHUTDOWN => s_gl' = s_gl)
    BY <1>0, <1>2, StateNumbers DEF RequestShutdown, IS_GLOBAL_STATE_SHUTDOWN
  <1>3. ASSUME NEW t \in Callers,
               \/ Get(t) \/ Resume(t) \/ Expire(t) \/ SpuriousWakeup(t) \/ Cancel(t)
               \/ \E s \in Awaited, b \in BOOLEAN : WaitFor(t, s, b)
        PROVE  s_gs' = s_gs /\ s_gl' = s_gl
    BY <1>3 DEF Get, Resume, WaitForReturns, RequestReturns, WaitPass, WaitFor, Expire,
                SpuriousWakeup, Cancel
  <1>4. CASE UNCHANGED gsvars
    BY <1>0, <1>4 DEF gsvars
  <1> QED BY <1>0, <1>1, <1>2, <1>3, <1>4 DEF GSNext

\* Without a reset, a step leaves at most one thread inside a granted request.
LEMMA StepRequester ==
    ASSUME GSInv, [GSNext]_gsvars, ~Resettable, OneRequester
    PROVE  OneRequester'
  <1>4. ~Reset
    BY DEF Reset
  <1>0. s_gs \in Int /\ s_gs' \in Int /\ GSInv' /\ s_gs' >= s_gs
    BY <1>4, StateNumbers, GSNextInv, StepOneWay DEF GSInv, GSTypeOK
  <1>1. ASSUME NEW t \in Callers, NEW l \in Levels, RequestShutdown(t, l)
        PROVE  OneRequester'
    <2>1. CASE ~IS_GLOBAL_STATE_SHUTDOWN(s_gs) /\ s_gs # REQUEST_SHUTDOWN
      <3>1. s_gs < REQUEST_SHUTDOWN
        BY <1>0, <2>1, StateNumbers DEF IS_GLOBAL_STATE_SHUTDOWN
      <3>2. s_gs' = REQUEST_SHUTDOWN /\ at' = [at EXCEPT ![t] = "request"]
        BY <1>1, <2>1 DEF RequestShutdown, SleepIn
      <3> QED BY <1>0, <3>1, <3>2, StateNumbers DEF OneRequester, GSInv, GSTypeOK
    <2>2. CASE ~(~IS_GLOBAL_STATE_SHUTDOWN(s_gs) /\ s_gs # REQUEST_SHUTDOWN)
      <3>1. s_gs' = s_gs /\ at' = at
        BY <1>1, <2>2 DEF RequestShutdown, Done, GSInv, GSTypeOK
      <3> QED BY <3>1 DEF OneRequester
    <2> QED BY <2>1, <2>2
  <1>2. ASSUME \A u \in Callers : at'[u] = "request" => at[u] = "request"
        PROVE  OneRequester'
    BY <1>0, <1>2, StateNumbers DEF OneRequester
  <1>3. ASSUME NEW t \in Callers,
               \/ Get(t) \/ Resume(t) \/ Expire(t) \/ SpuriousWakeup(t) \/ Cancel(t)
               \/ \E s \in Awaited, b \in BOOLEAN : WaitFor(t, s, b)
               \/ \E s \in Settable : Set(t, s)
        PROVE  \A u \in Callers : at'[u] = "request" => at[u] = "request"
    BY <1>3 DEF Get, Resume, WaitForReturns, RequestReturns, WaitPass, WaitFor, Expire,
                SpuriousWakeup, Cancel, Set, Done, SleepIn, GSInv, GSTypeOK
  <1>5. CASE UNCHANGED gsvars
    BY <1>5, <1>2 DEF gsvars
  <1> QED BY <1>1, <1>2, <1>3, <1>4, <1>5 DEF GSNext

\* Whatever global_state_set and global_state_request_shutdown are called with,
\* and by how many threads, the state moves one way, and the level of the
\* granted request stays.
THEOREM OneWayCorrect == GSSpec => OneWay
  <1>1. GSInv /\ [GSNext]_gsvars
          => [ \/ Reset
               \/ /\ s_gs' >= s_gs
                  /\ s_gs >= REQUEST_SHUTDOWN => s_gl' = s_gl ]_gsvars
    BY StepOneWay
  <1> QED BY <1>1, GSInitInv, GSNextInv, PTL DEF GSSpec, OneWay

\* Without the reset at most one thread is inside a granted request of
\* global_state_request_shutdown, however many threads ask at once.
THEOREM RequesterUnique == ~Resettable => (GSSpec => []OneRequester)
  <1> SUFFICES ASSUME ~Resettable PROVE GSSpec => []OneRequester
    OBVIOUS
  <1>1. GSInit => GSInv /\ OneRequester
    BY GSInitInv DEF GSInit, OneRequester
  <1>2. GSInv /\ OneRequester /\ [GSNext]_gsvars => GSInv' /\ OneRequester'
    BY GSNextInv, StepRequester
  <1> QED BY <1>1, <1>2, PTL DEF GSSpec

=============================================================================
