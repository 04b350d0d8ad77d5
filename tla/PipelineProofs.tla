--------------------------- MODULE PipelineProofs ---------------------------
(***************************************************************************)
(* What Pipeline promises for any number of workers and callers: who       *)
(* pauses or maintains the stage finds nobody at work, its end is that of  *)
(* its workers, and it implements Stage.                                   *)
(***************************************************************************)
EXTENDS Pipeline, FiniteSetTheorems, TLAPS

\* Users that schedule maintenances neither give up a pause nor are cancelled in one.
Patient ==
    \A s \in Styles : "maintenance" \in s => "pause_timed" \notin s /\ "cancel_caller" \notin s

-----------------------------------------------------------------------------
(* The inductive invariants.                                               *)

\* m_lock is held for a whole call.
Locked == \A t \in Callers : tpc[t] # "idle" <=> m_lock = t

\* Before the start is complete nothing can have been requested.
Fresh == m_status \in {"INITIALIZED", "SETUP"}
Early ==
    Fresh => /\ ~m_pause_requested
             /\ \A w \in Workers : wpc[w] \in {"unborn", "gala", "loop", "test", "work", "ending",
                                               "ended"}

\* What a call has seen when it began, and what others cannot change: they have no m_lock.
Places ==
    \A t \in Callers :
        /\ tpc[t] \in {"starting", "undoing"} => Fresh /\ call[t].i \in Workers
        /\ tpc[t] \in {"pre_pause", "pause_sleep", "waiting"} => ~Fresh /\ ~Over
        /\ tpc[t] \in {"pre_pause", "pause_sleep"} => call[t].op \in {"pause", "maintenance"}
        /\ tpc[t] = "waiting" => call[t].i # 0
        /\ destroyed => tpc[t] = "idle"

\* The workers that this start has created so far: before it, none.
InStart(t) == tpc[t] \in {"starting", "undoing"}
Begun(w) == Fresh => \E t \in Callers : InStart(t) /\ w < call[t].i
Gone == {w \in Workers : wpc[w] = "ended"}
Left == {w \in Workers : Begun(w) /\ wpc[w] = "ended"}
Usable == ~destroyed /\ ~Closing
Crew ==
    /\ m_status = "DESTROYING" => destroyed \/ \E t \in Callers : tpc[t] = "destroying"
    /\ Fresh => \A w \in Workers : Alive(w) => Begun(w)
    /\ Usable => \A w \in Workers : Begun(w) => wpc[w] # "unborn"

\* The counts are those of the workers that have left, and of those that were cancelled.
CountsAre(left) ==
    /\ m_n_shutdown_workers = Cardinality(left)
    /\ m_n_canceled_workers = Cardinality({w \in left : canceled[w]})
Counts == \E left \in SUBSET Gone : CountsAre(left) /\ (Usable => left = Left)

Inv == TypeOK /\ Locked /\ Early /\ Places /\ Crew /\ Counts

\* Nobody returns to the loop before the pause or the maintenance is over.
Pending(w) == wpc[w] \in {"passed_pause", "passed_maint"} /\ is_master[w]
SitsPause(w) == wpc[w] \in {"passed_pause", "resume_sleep", "ending", "ended"} /\ ~Pending(w)
SitsMaint(w) == wpc[w] \in {"passed_maint", "maint_sleep", "ending", "ended"} /\ ~Pending(w)
Quiet == \A w \in Workers : SitsPause(w)

Maintained == m_status = "MAINTENANCE_REQUESTED"
InCall(t, op) == InPause(t) /\ call[t].op = op

\* A caller that may not give up is in its call while the pause is coming.
PauseComes ==
    /\ m_pause_requested /\ ~Fresh /\ m_status # "PAUSED" /\ ~Maintained
    /\ "maintenance" \in style => \E t \in Callers : InCall(t, "pause")

Masters == \A v, w \in Workers : is_master[v] /\ is_master[w] => v = w

PauseRounds ==
    /\ m_status = "PAUSED" => m_pause_requested /\ Quiet
    /\ \A w \in Workers : wpc[w] = "barrier_pause" => PauseComes
    /\ \A w \in Workers : wpc[w] = "passed_pause" /\ is_master[w] =>
           PauseComes /\ \A v \in Workers \ {w} : SitsPause(v)
    /\ m_pause_requested /\ ~m_maint_proc /\ "maintenance" \in style =>
           Quiet \/ \E t \in Callers : InCall(t, "pause")

MaintenanceRounds ==
    /\ m_maint_proc <=> Maintained
    /\ Maintained => m_pause_requested /\ \E t \in Callers : InCall(t, "maintenance")
    /\ n_maintained <= 1
    /\ \A w \in Workers : wpc[w] = "barrier_maint" => Maintained /\ n_maintained = 0
    /\ \A w \in Workers : wpc[w] = "passed_maint" /\ is_master[w] =>
           Maintained /\ n_maintained = 0 /\ \A v \in Workers \ {w} : SitsMaint(v)
    /\ \A w \in Workers : wpc[w] = "maintaining" => Maintained /\ n_maintained = 1 /\ is_master[w]
    /\ Maintained /\ n_maintained = 1 =>
           \A w \in Workers : SitsMaint(w) \/ wpc[w] = "maintaining"

\* Only these users are in such a call.
Stylish ==
    \A t \in Callers :
        /\ InCall(t, "maintenance") => "maintenance" \in style /\ ~call[t].timed
        /\ InCall(t, "pause") /\ call[t].timed => "pause_timed" \in style
        /\ InCall(t, "maintenance") => Maintained \/ m_status = "STARTED"

RoundInv == Inv /\ Masters /\ PauseRounds /\ MaintenanceRounds /\ Stylish

\* A wait has met only workers that are not there.
Waited == \A t \in Callers : tpc[t] = "waiting" => \A w \in Workers : w < call[t].i => ~Alive(w)

EndInv == Inv /\ Waited /\ FinalAfterAll /\ NeverFatal

-----------------------------------------------------------------------------
(* Facts that the steps share.                                             *)

LEMMA Constants ==
    /\ N \in Nat /\ N # 0 /\ Workers = 1 .. N
    /\ Callers \subseteq Threads /\ Workers \subseteq Threads
    /\ Callers \cap Workers = {} /\ Nobody \notin Threads
    /\ MaxRequests \in Nat
    /\ IsFiniteSet(Workers) /\ Cardinality(Workers) = N
    /\ \A S \in SUBSET Workers : IsFiniteSet(S) /\ Cardinality(S) \in 0 .. N
  <1>1. IsFiniteSet(Workers) /\ Cardinality(Workers) = N
    BY PipelineAssumption, FS_Interval DEF Workers
  <1>2. ASSUME NEW S \in SUBSET Workers
        PROVE  IsFiniteSet(S) /\ Cardinality(S) \in 0 .. N
    BY <1>1, FS_Subset, FS_CardinalityType, PipelineAssumption
  <1> QED BY <1>1, <1>2, PipelineAssumption DEF Workers, Threads

CallType == [op : {"none", "start", "pause", "maintenance", "wait", "destroy"},
             timed : BOOLEAN, i : 0 .. N + 1]

LEMMA CallInType ==
    /\ NoCall \in CallType
    /\ \A c \in CallType, k \in 0 .. N + 1 : [c EXCEPT !.i = k] \in CallType
  BY Constants DEF NoCall, CallType

\* The counts are those of workers.
LEMMA CountsType ==
    ASSUME Counts
    PROVE  {m_n_canceled_workers, m_n_shutdown_workers} \subseteq 0 .. N
  BY Constants DEF Counts, CountsAre, Gone

LEMMA WorkerType ==
    ASSUME TypeOK, NEW w \in Workers, WorkerRuns(w) \/ CancelStrikes(w),
           {m_n_canceled_workers, m_n_shutdown_workers}' \subseteq 0 .. N
    PROVE  TypeOK'
  <1> USE Constants DEF TypeOK, WorkerPlaces, WAt
  <1>1. CASE GalaOpens(w)
    BY <1>1 DEF GalaOpens, flags, counts, thread, caller, history
  <1>2. CASE Loop(w)
    BY <1>2 DEF Loop, flags, counts, thread, caller, history
  <1>3. CASE Test(w)
    BY <1>3 DEF Test, Obeys, flags, counts, thread, caller, history
  <1>4. CASE Work(w)
    BY <1>4 DEF Work, flags, counts, thread, caller, history
  <1>5. CASE PauseSleeps(w)
    BY <1>5 DEF PauseSleeps, PauseCond, flags, counts, thread, caller, history
  <1>6. CASE MaintenanceBegins(w)
    BY <1>6 DEF MaintenanceBegins, flags, counts, thread, caller, history
  <1>7. CASE MaintenanceEnds(w)
    BY <1>7 DEF MaintenanceEnds, PauseCond, flags, counts, thread, caller, history
  <1>8. CASE MaintenanceSleeps(w)
    BY <1>8 DEF MaintenanceSleeps, flags, counts, thread, caller, history
  <1>9. CASE Finalize(w)
    BY <1>9 DEF Finalize, flags, counts, thread, caller, history
  <1>10. CASE CancelStrikes(w)
    BY <1>10 DEF CancelStrikes, flags, counts, thread, caller, history
  <1> QED BY <1>1, <1>2, <1>3, <1>4, <1>5, <1>6, <1>7, <1>8, <1>9, <1>10 DEF WorkerRuns

\* A caller returns, or goes on inside its call: the others are not affected.
Steps(t, places, calls) ==
    \/ Returns(t)
    \/ \E place \in places, c \in calls : GoesOn(t, place, c)

LEMMA StepsType ==
    ASSUME TypeOK, NEW t \in Callers, Steps(t, CallerPlaces, CallType)
    PROVE  /\ tpc' \in [Callers -> CallerPlaces] /\ call' \in [Callers -> CallType]
           /\ m_lock' \in Callers \cup {Nobody}
  <1>1. NoCall \in CallType
    BY CallInType
  <1> QED BY <1>1 DEF Steps, Returns, GoesOn, TypeOK, CallType, CallerPlaces

LEMMA CallerRunsType ==
    ASSUME TypeOK, Places, NEW t \in Callers,
           \/ CallerRuns(t) \/ StartFailed(t) \/ PauseTimesOut(t) \/ WaitTimesOut(t)
           \/ CallerCanceled(t),
           {m_n_canceled_workers, m_n_shutdown_workers}' \subseteq 0 .. N
    PROVE  TypeOK'
  <1> USE Constants DEF TypeOK, WorkerPlaces, WAt
  <1>1. CASE StartWorker(t)
    <2>1. call[t].i \in Workers
      BY <1>1 DEF StartWorker, Places
    <2>2. [call[t] EXCEPT !.i = call[t].i + 1] \in CallType
      <3>1. call[t] \in CallType /\ call[t].i + 1 \in 0 .. N + 1
        BY <2>1 DEF CallType
      <3> QED BY <3>1, CallInType
    <2>3. Steps(t, CallerPlaces, CallType)
      BY <1>1, <2>2 DEF StartWorker, Steps, CallerPlaces
    <2>4. wpc' \in [Workers -> WorkerPlaces] /\ {requested, canceled}' \subseteq [Workers -> BOOLEAN]
      BY <1>1, <2>1 DEF StartWorker
    <2>5. m_status' = m_status \/ m_status' = "STARTED"
      BY <1>1 DEF StartWorker
    <2>6. /\ tpc' \in [Callers -> CallerPlaces] /\ call' \in [Callers -> CallType]
          /\ m_lock' \in Callers \cup {Nobody}
      BY <2>3, StepsType
    <2>7. UNCHANGED <<m_do_loop, m_sg_lvl, m_pause_requested, m_maint_proc, counts, m_pause_lock, gs,
                      st, is_master, woken, history>>
      BY <1>1 DEF StartWorker
    <2> QED BY <2>4, <2>5, <2>6, <2>7 DEF history, CallType
  <1>2. CASE StartUndone(t)
    <2>1. Steps(t, CallerPlaces, CallType)
      BY <1>2 DEF StartUndone, Steps
    <2> QED BY <1>2, <2>1, StepsType DEF StartUndone, flags, thread, history, CallType
  <1>3. CASE RequestChecks(t)
    <2>1. Steps(t, CallerPlaces, CallType)
      BY <1>3 DEF RequestChecks, Steps, CallerPlaces, CallType
    <2>2. {m_pause_requested, m_maint_proc}' \subseteq BOOLEAN
      BY <1>3 DEF RequestChecks
    <2> QED BY <1>3, <2>1, <2>2, StepsType DEF RequestChecks, counts, thread, history, CallType
  <1>4. CASE WaitOne(t)
    <2>1. PICK next \in {call[t].i + 1, N + 1} : GoesOn(t, "waiting", [call[t] EXCEPT !.i = next])
      BY <1>4 DEF WaitOne
    <2>2. next \in 0 .. N + 1
      BY <1>4 DEF WaitOne
    <2>3. [call[t] EXCEPT !.i = next] \in CallType
      <3>1. call[t] \in CallType
        BY DEF CallType
      <3> QED BY <2>2, <3>1, CallInType
    <2>4. Steps(t, CallerPlaces, CallType)
      BY <2>1, <2>3 DEF Steps, CallerPlaces
    <2> QED BY <1>4, <2>4, StepsType DEF WaitOne, flags, counts, thread, history, CallType
  <1>5. CASE WaitEnds(t)
    <2>1. \/ Steps(t, CallerPlaces, CallType)
          \/ UNCHANGED caller
      BY <1>5 DEF WaitEnds, Steps
    <2>2. m_status' \in {m_status, "CANCELED", "SHUTDOWN"} /\ {m_do_loop, fatal}' \subseteq BOOLEAN
      BY <1>5 DEF WaitEnds
    <2> QED BY <1>5, <2>1, <2>2, StepsType DEF WaitEnds, counts, thread, caller, CallType
  <1>6. CASE Destroyed(t)
    <2>1. Steps(t, CallerPlaces, CallType)
      BY <1>6 DEF Destroyed, Steps
    <2> QED BY <1>6, <2>1, StepsType DEF Destroyed, flags, counts, thread, CallType
  <1>7. CASE StartFailed(t)
    <2>1. Steps(t, CallerPlaces, CallType)
      BY <1>7 DEF StartFailed, Steps, CallerPlaces, CallType
    <2>2. requested' \in [Workers -> BOOLEAN]
      BY <1>7 DEF StartFailed, s_cancel_stage, CancelWorkers, Alive
    <2> QED BY <1>7, <2>1, <2>2, StepsType
        DEF StartFailed, s_cancel_stage, counts, history, CallType
  <1>8. CASE PauseTimesOut(t)
    <2>1. Steps(t, CallerPlaces, CallType)
      BY <1>8 DEF PauseTimesOut, Steps
    <2> QED BY <1>8, <2>1, StepsType DEF PauseTimesOut, flags, counts, thread, history, CallType
  <1>9. CASE WaitTimesOut(t)
    <2>1. Steps(t, CallerPlaces, CallType)
      BY <1>9 DEF WaitTimesOut, Steps
    <2> QED BY <1>9, <2>1, StepsType DEF WaitTimesOut, flags, counts, thread, history, CallType
  <1>10. CASE CallerCanceled(t)
    <2>1. Steps(t, CallerPlaces, CallType)
      BY <1>10 DEF CallerCanceled, Steps
    <2> QED BY <1>10, <2>1, StepsType DEF CallerCanceled, flags, counts, thread, history, CallType
  <1> QED BY <1>1, <1>2, <1>3, <1>4, <1>5, <1>6, <1>7, <1>8, <1>9, <1>10 DEF CallerRuns

LEMMA CancelType ==
    ASSUME TypeOK, NEW ws, s_cancel_stage(ws)
    PROVE  requested' \in [Workers -> BOOLEAN] /\ m_sg_lvl' = "RIGHT_NOW" /\ m_do_loop' = FALSE
  <1>1. \A w \in Workers : (requested[w] \/ (w \in ws /\ Alive(w))) \in BOOLEAN
    OBVIOUS
  <1> QED BY <1>1 DEF s_cancel_stage, CancelWorkers

LEMMA CallsType ==
    ASSUME TypeOK, NEW t \in Callers, Calls(t),
           {m_n_canceled_workers, m_n_shutdown_workers}' \subseteq 0 .. N
    PROVE  TypeOK'
  <1> USE Constants DEF TypeOK
  <1>1. Steps(t, CallerPlaces, CallType)
    <2>1. \A timed \in BOOLEAN :
             /\ [op |-> "start", timed |-> FALSE, i |-> 1] \in CallType
             /\ [op |-> "pause", timed |-> timed, i |-> 0] \in CallType
             /\ [op |-> "maintenance", timed |-> FALSE, i |-> 0] \in CallType
             /\ [op |-> "wait", timed |-> timed, i |-> 1] \in CallType
             /\ [op |-> "destroy", timed |-> FALSE, i |-> 0] \in CallType
      BY DEF CallType
    <2>2. \A limit : (limit = "timed") \in BOOLEAN
      OBVIOUS
    <2>3. \/ Returns(t)
          \/ GoesOn(t, "starting", [op |-> "start", timed |-> FALSE, i |-> 1])
          \/ \E timed \in BOOLEAN : GoesOn(t, "pre_pause", [op |-> "pause", timed |-> timed, i |-> 0])
          \/ GoesOn(t, "pre_pause", [op |-> "maintenance", timed |-> FALSE, i |-> 0])
          \/ \E timed \in BOOLEAN : GoesOn(t, "waiting", [op |-> "wait", timed |-> timed, i |-> 1])
          \/ GoesOn(t, "destroying", [op |-> "destroy", timed |-> FALSE, i |-> 0])
      BY <2>2 DEF Calls, Setup, Start, Cancel, Shutdown, Pause, Maintain, Resume, Wait, Destroy
    <2> QED BY <2>1, <2>3 DEF Steps, CallerPlaces
  <1>2. /\ tpc' \in [Callers -> CallerPlaces] /\ call' \in [Callers -> CallType]
        /\ m_lock' \in Callers \cup {Nobody}
    BY <1>1, StepsType
  <1>3. CASE Setup(t)
    BY <1>2, <1>3 DEF Setup, counts, thread, history, CallType
  <1>4. CASE Start(t)
    BY <1>2, <1>4 DEF Start, thread, history, CallType
  <1>5. CASE Cancel(t)
    <2>1. requested' \in [Workers -> BOOLEAN] /\ m_sg_lvl' = "RIGHT_NOW" /\ m_do_loop' = FALSE
      BY <1>5, CancelType DEF Cancel
    <2> QED BY <1>2, <1>5, <2>1 DEF Cancel, counts, history, CallType
  <1>6. ASSUME NEW lvl \in {"RIGHT_NOW", "GRACEFULLY"}, Shutdown(t, lvl)
        PROVE  TypeOK'
    <2>1. requested' \in [Workers -> BOOLEAN] /\ m_sg_lvl' = lvl /\ m_do_loop' \in BOOLEAN
      BY <1>6, CancelType DEF Shutdown
    <2>2. m_pause_requested' \in BOOLEAN /\ woken' \subseteq Threads
      BY <1>6 DEF Shutdown, s_resume_stage, ResumeCond
    <2> QED BY <1>2, <1>6, <2>1, <2>2 DEF Shutdown, counts, history, CallType
  <1>7. ASSUME NEW timed \in BOOLEAN, Pause(t, timed)
        PROVE  TypeOK'
    BY <1>2, <1>7 DEF Pause, counts, thread, CallType
  <1>8. CASE Maintain(t)
    BY <1>2, <1>8 DEF Maintain, counts, thread, CallType
  <1>9. CASE Resume(t)
    BY <1>2, <1>9 DEF Resume, s_resume_stage, ResumeCond, counts, thread, history, CallType
  <1>10. ASSUME NEW limit \in WaitLimits, Wait(t, limit)
         PROVE  TypeOK'
    BY <1>2, <1>10 DEF Wait, flags, counts, thread, history, CallType
  <1>11. CASE Destroy(t)
    <2>1. requested' \in [Workers -> BOOLEAN] /\ m_sg_lvl' = "RIGHT_NOW" /\ m_do_loop' = FALSE
      BY <1>11, CancelType DEF Destroy
    <2> QED BY <1>2, <1>11, <2>1 DEF Destroy, counts, history, CallType
  <1> QED BY <1>3, <1>4, <1>5, <1>6, <1>7, <1>8, <1>9, <1>10, <1>11 DEF Calls

LEMMA TypeStep ==
    ASSUME TypeOK, Places, [Next]_vars, Counts'
    PROVE  TypeOK'
  <1> USE Constants
  <1>1. {m_n_canceled_workers, m_n_shutdown_workers}' \subseteq 0 .. N
    BY DEF Counts, CountsAre, Gone
  <1>2. CASE BarrierOpens
    BY <1>2 DEF BarrierOpens, flags, counts, thread, caller, history, TypeOK, WorkerPlaces
  <1>3. CASE SetGlobalState
    BY <1>3 DEF SetGlobalState, flags, counts, thread, caller, history, TypeOK
  <1>4. CASE UNCHANGED vars
    BY <1>4 DEF vars, flags, counts, thread, caller, history, TypeOK
  <1> QED BY <1>1, <1>2, <1>3, <1>4, WorkerType, CallerRunsType, CallsType DEF Next


-----------------------------------------------------------------------------
(* The steps of the workers, the barrier and the main loop.                *)

\* A worker in its loop moves only itself; what it tells the users of the stage it tells when
\* it has passed the barrier.
WorkersMove ==
    /\ UNCHANGED <<counts, caller, destroyed, fatal, style>>
    /\ \A v \in Workers :
          /\ wpc'[v] = wpc[v] \/ (Alive(v) /\ wpc'[v] \notin {"unborn", "ended"})
          /\ canceled'[v] = canceled[v] \/ Alive(v)
    /\ \/ m_status' = m_status
       \/ /\ m_status' \in {"PAUSED", "STARTED"}
          /\ \E w \in Workers : wpc[w] \in {"passed_pause", "maintaining"}

LEMMA WorkersMoveInv ==
    ASSUME Inv, WorkersMove
    PROVE  Locked' /\ Places' /\ Crew' /\ Counts'
  <1> USE Constants
  <1>1. /\ UNCHANGED <<counts, tpc, call, m_lock, destroyed>>
        /\ \A v \in Workers : Alive(v)' <=> Alive(v)
        /\ \A v \in Workers : wpc'[v] = "ended" <=> wpc[v] = "ended"
        /\ \A v \in Workers : wpc'[v] = "unborn" <=> wpc[v] = "unborn"
        /\ \A v \in Workers : wpc[v] = "ended" => canceled'[v] = canceled[v]
    BY DEF WorkersMove, caller, Alive
  <1>2. m_status' = m_status \/ (~Fresh /\ m_status' \in {"PAUSED", "STARTED"})
    BY DEF WorkersMove, Inv, Early
  <1>3. Fresh' <=> Fresh
    BY <1>2 DEF Fresh
  <1>4. Locked'
    BY <1>1 DEF Inv, Locked
  <1>5. Places'
    BY <1>1, <1>2, <1>3 DEF Inv, Places, Over
  <1>6. Usable' <=> Usable
    BY <1>1, <1>2 DEF Usable, Closing, Inv, Crew
  <1>7. \A v \in Workers : Begun(v)' <=> Begun(v)
    BY <1>1, <1>3 DEF Begun, InStart
  <1>8. Crew'
    BY <1>1, <1>2, <1>3, <1>6, <1>7 DEF Inv, Crew
  <1>9. Counts'
    <2>1. Gone' = Gone /\ Left' = Left
      BY <1>1, <1>7 DEF Gone, Left
    <2>2. PICK left \in SUBSET Gone : CountsAre(left) /\ (Usable => left = Left)
      BY DEF Inv, Counts
    <2>3. {w \in left : canceled'[w]} = {w \in left : canceled[w]}
      BY <1>1 DEF Gone
    <2>4. CountsAre(left)'
      BY <1>1, <2>2, <2>3 DEF CountsAre, counts
    <2> QED BY <1>6, <2>1, <2>2, <2>4 DEF Counts
  <1> QED BY <1>4, <1>5, <1>8, <1>9

\* The steps of a worker, its end aside.
LEMMA WorkerRunsMove ==
    ASSUME Inv, NEW w \in Workers,
           \/ WorkerRuns(w) /\ ~Finalize(w)
           \/ CancelStrikes(w)
    PROVE  WorkersMove /\ Early'
  <1> USE DEF Inv, TypeOK, Alive, WorkersMove, Early, Fresh, WAt, flags, thread, history
  <1>1. CASE GalaOpens(w)
    BY <1>1 DEF GalaOpens
  <1>2. CASE Loop(w)
    BY <1>2 DEF Loop
  <1>3. CASE Test(w)
    BY <1>3 DEF Test, Obeys
  <1>4. CASE Work(w)
    BY <1>4 DEF Work
  <1>5. CASE PauseSleeps(w)
    BY <1>5 DEF PauseSleeps
  <1>6. CASE MaintenanceBegins(w)
    BY <1>6 DEF MaintenanceBegins
  <1>7. CASE MaintenanceEnds(w)
    BY <1>7 DEF MaintenanceEnds
  <1>8. CASE MaintenanceSleeps(w)
    BY <1>8 DEF MaintenanceSleeps
  <1>9. CASE CancelStrikes(w)
    BY <1>9 DEF CancelStrikes
  <1> QED BY <1>1, <1>2, <1>3, <1>4, <1>5, <1>6, <1>7, <1>8, <1>9 DEF WorkerRuns

LEMMA BarrierMoves ==
    ASSUME Inv, BarrierOpens
    PROVE  WorkersMove /\ Early'
  <1>1. /\ UNCHANGED <<flags, counts, caller, destroyed, fatal, style, canceled>>
        /\ \A v \in Workers : wpc'[v] = CASE wpc[v] = "barrier_pause" -> "passed_pause"
                                          [] wpc[v] = "barrier_maint" -> "passed_maint"
                                          [] OTHER                    -> wpc[v]
    BY DEF BarrierOpens, thread, history
  <1>2. \A v \in Workers : /\ wpc[v] \in {"barrier_pause", "barrier_maint"} => Alive(v)
                           /\ wpc'[v] = wpc[v] \/ wpc'[v] \in {"passed_pause", "passed_maint"}
                           /\ wpc'[v] = wpc[v] \/ wpc[v] \in {"barrier_pause", "barrier_maint"}
    BY <1>1 DEF Alive
  <1>3. WorkersMove
    BY <1>1, <1>2 DEF WorkersMove, flags
  <1>4. Early'
    BY <1>1, <1>2 DEF Inv, Early, Fresh, flags
  <1> QED BY <1>3, <1>4

\* A worker leaves: it is counted, as one that was cancelled if it was.
LEMMA FinalizeInv ==
    ASSUME Inv, NEW w \in Workers, Finalize(w)
    PROVE  Locked' /\ Early' /\ Places' /\ Crew' /\ Counts'
  <1> USE Constants
  <1>1. /\ UNCHANGED <<flags, thread, caller, destroyed, style>>
        /\ wpc[w] = "ending" /\ wpc'[w] = "ended" /\ \A v \in Workers \ {w} : wpc'[v] = wpc[v]
    BY DEF Finalize, WAt, history, Inv, TypeOK
  <1>2. \A v \in Workers : Alive(v)' => Alive(v)
    BY <1>1 DEF Alive
  <1>3. /\ Fresh' <=> Fresh
        /\ Usable' <=> Usable
        /\ \A v \in Workers : Begun(v)' <=> Begun(v)
    BY <1>1 DEF Fresh, Usable, Closing, Begun, InStart, flags, caller
  <1>4. Locked' /\ Early'
    BY <1>1, <1>3 DEF Inv, Locked, Early, flags, caller
  <1>5. Places'
    BY <1>1, <1>3 DEF Inv, Places, Over, flags, caller
  <1>6. Crew'
    BY <1>1, <1>2, <1>3 DEF Inv, Crew, flags, caller
  <1>7. Counts'
    <2>1. PICK left \in SUBSET Gone : CountsAre(left) /\ (Usable => left = Left)
      BY DEF Inv, Counts
    <2>2. /\ w \notin left /\ IsFiniteSet(left)
          /\ left \cup {w} \subseteq Gone'
      BY <1>1, <2>1 DEF Gone
    <2>3. Cardinality(left \cup {w}) = Cardinality(left) + 1
      BY <2>2, FS_AddElement
    <2>4. Cardinality({v \in left \cup {w} : canceled'[v]})
            = Cardinality({v \in left : canceled[v]}) + (IF canceled[w] THEN 1 ELSE 0)
      <3> DEFINE there == {v \in left : canceled[v]}
      <3>1. canceled' = canceled
        BY <1>1 DEF thread
      <3>2. IsFiniteSet(there) /\ w \notin there /\ Cardinality(there) \in Nat
        BY <2>2, FS_Subset, FS_CardinalityType
      <3>3. Cardinality(there \cup {w}) = Cardinality(there) + 1
        BY <3>2, FS_AddElement
      <3>4. CASE canceled[w]
        <4>1. {v \in left \cup {w} : canceled'[v]} = there \cup {w}
          BY <3>1, <3>4
        <4> QED BY <3>3, <3>4, <4>1
      <3>5. CASE ~canceled[w]
        <4>1. {v \in left \cup {w} : canceled'[v]} = there
          BY <3>1, <3>5
        <4>2. Cardinality(there) + 0 = Cardinality(there)
          BY <3>2
        <4> QED BY <3>5, <4>1, <4>2
      <3> QED BY <3>4, <3>5
    <2>5. CountsAre(left \cup {w})'
      BY <2>1, <2>3, <2>4 DEF Finalize, CountEnd, CountsAre
    <2>6. Usable' => left \cup {w} = Left'
      <3>1. Begun(w)
        BY <1>1 DEF Inv, Crew, Begun, Alive
      <3>2. Left' = Left \cup {w}
        BY <1>1, <1>3, <3>1 DEF Left
      <3> QED BY <1>3, <2>1, <3>2
    <2> QED BY <2>2, <2>5, <2>6 DEF Counts
  <1> QED BY <1>4, <1>5, <1>6, <1>7


-----------------------------------------------------------------------------
(* The steps of the callers.                                               *)

\* Who steps has m_lock, or takes it: he is alone.
CallerSteps(t) ==
    /\ tpc[t] # "idle" \/ (Free(t) /\ tpc[t] = "idle")
    /\ Steps(t, CallerPlaces \ {"idle"}, CallType) \/ UNCHANGED caller

LEMMA CallerAlone ==
    ASSUME Inv, NEW t \in Callers, CallerSteps(t)
    PROVE  /\ Locked' /\ ~destroyed
           /\ \A u \in Callers \ {t} : tpc[u] = "idle" /\ tpc'[u] = "idle"
           /\ tpc'[t] \in CallerPlaces
  <1> USE Constants
  <1>1. ~destroyed
    BY DEF CallerSteps, Free, Inv, Places
  <1>2. \A u \in Callers \ {t} : tpc[u] = "idle"
    BY DEF CallerSteps, Free, Inv, Locked
  <1>3. CASE UNCHANGED caller
    BY <1>1, <1>2, <1>3 DEF caller, Inv, Locked, TypeOK
  <1>4. CASE Returns(t)
    BY <1>1, <1>2, <1>4 DEF Returns, Inv, Locked, TypeOK, CallerPlaces
  <1>5. ASSUME NEW place \in CallerPlaces \ {"idle"}, NEW c \in CallType, GoesOn(t, place, c)
        PROVE  Locked' /\ (\A u \in Callers \ {t} : tpc'[u] = "idle") /\ tpc'[t] \in CallerPlaces
    BY <1>2, <1>5 DEF GoesOn, Inv, Locked, TypeOK
  <1> QED BY <1>1, <1>2, <1>3, <1>4, <1>5 DEF CallerSteps, Steps

\* A call that neither starts nor destroys the stage leaves the workers' counts alone.
LEMMA PlainCallInv ==
    ASSUME Inv, NEW t \in Callers, CallerSteps(t),
           UNCHANGED <<wpc, canceled, counts, destroyed>>,
           tpc[t] \notin {"starting", "undoing", "destroying"},
           tpc'[t] \notin {"starting", "undoing", "destroying"},
           Fresh' <=> Fresh, m_status' # "DESTROYING"
    PROVE  Locked' /\ Crew' /\ Counts'
  <1>1. /\ Locked' /\ ~destroyed
        /\ \A u \in Callers \ {t} : tpc[u] = "idle" /\ tpc'[u] = "idle"
    BY CallerAlone
  <1>2. Usable /\ Usable'
    BY <1>1 DEF Usable, Closing, Inv, Crew
  <1>3. \A w \in Workers : Begun(w)' <=> Begun(w)
    BY <1>1 DEF Begun, InStart
  <1>4. Crew'
    BY <1>2, <1>3 DEF Inv, Crew, Alive
  <1>5. Counts'
    BY <1>2, <1>3 DEF Inv, Counts, CountsAre, Gone, Left, counts
  <1> QED BY <1>1, <1>4, <1>5

\* What the calls have in common that are made of one part, or begin.
LEMMA BeginsInv ==
    ASSUME Inv, NEW t \in Callers,
           \/ Setup(t) \/ Cancel(t) \/ Maintain(t) \/ Resume(t)
           \/ \E lvl \in {"RIGHT_NOW", "GRACEFULLY"} : Shutdown(t, lvl)
           \/ \E timed \in BOOLEAN : Pause(t, timed)
           \/ \E limit \in WaitLimits : Wait(t, limit)
    PROVE  Locked' /\ Early' /\ Places' /\ Crew' /\ Counts'
  <1> USE Constants
  <1>1. /\ Free(t) /\ UNCHANGED <<wpc, canceled, counts, destroyed>>
        /\ Fresh' <=> Fresh
        /\ m_status' \notin {"DESTROYING", "SHUTDOWN", "CANCELED"}
        /\ Fresh' => m_pause_requested' = m_pause_requested
    BY DEF Setup, Cancel, Maintain, Resume, Shutdown, Pause, Wait, Fresh, thread, history, flags,
           s_resume_stage, s_cancel_stage
  <1>2. \/ Returns(t)
        \/ /\ ~Fresh'
           /\ \/ \E timed \in BOOLEAN : GoesOn(t, "pre_pause", [op |-> "pause", timed |-> timed, i |-> 0])
              \/ GoesOn(t, "pre_pause", [op |-> "maintenance", timed |-> FALSE, i |-> 0])
              \/ \E timed \in BOOLEAN : GoesOn(t, "waiting", [op |-> "wait", timed |-> timed, i |-> 1])
    <2>1. \A limit : (limit = "timed") \in BOOLEAN
      OBVIOUS
    <2> QED BY <2>1 DEF Setup, Cancel, Maintain, Resume, Shutdown, Pause, Wait, Fresh, flags
  <1>3. CallerSteps(t)
    <2>1. \A timed \in BOOLEAN :
             /\ [op |-> "pause", timed |-> timed, i |-> 0] \in CallType
             /\ [op |-> "maintenance", timed |-> FALSE, i |-> 0] \in CallType
             /\ [op |-> "wait", timed |-> timed, i |-> 1] \in CallType
      BY DEF CallType
    <2> QED BY <1>1, <1>2, <2>1 DEF CallerSteps, Steps, CallerPlaces, Free
  <1>4. /\ \/ tpc'[t] = "idle"
           \/ ~Fresh' /\ tpc'[t] = "pre_pause" /\ call'[t].op \in {"pause", "maintenance"}
           \/ ~Fresh' /\ tpc'[t] = "waiting" /\ call'[t].i # 0
        /\ tpc[t] = "idle"
    BY <1>1, <1>2 DEF Returns, GoesOn, Free, Inv, TypeOK
  <1>5. Locked' /\ Crew' /\ Counts'
    BY <1>1, <1>3, <1>4, PlainCallInv
  <1>6. Early'
    BY <1>1 DEF Inv, Early, Fresh
  <1>7. Places'
    <2>1. \A u \in Callers \ {t} : tpc'[u] = "idle"
      BY <1>3, CallerAlone
    <2>2. ~destroyed' /\ ~Over'
      BY <1>1 DEF Free, Over
    <2> QED BY <1>4, <2>1, <2>2 DEF Places
  <1> QED BY <1>5, <1>6, <1>7

\* A pause, a maintenance or a wait goes on or comes to its end.
LEMMA GoesOnInv ==
    ASSUME Inv, NEW t \in Callers,
           \/ RequestChecks(t) \/ PauseTimesOut(t) \/ WaitTimesOut(t) \/ CallerCanceled(t)
           \/ WaitOne(t) \/ WaitEnds(t)
    PROVE  Locked' /\ Early' /\ Places' /\ Crew' /\ Counts'
  <1> USE Constants
  <1>1. /\ tpc[t] \in {"pre_pause", "pause_sleep", "waiting"}
        /\ UNCHANGED <<wpc, canceled, counts, destroyed>>
        /\ m_status' = m_status \/ (m_status' \in {"CANCELED", "SHUTDOWN"} /\ Returns(t))
    BY DEF RequestChecks, PauseTimesOut, WaitTimesOut, CallerCanceled, WaitOne, WaitEnds, thread,
           history, flags
  <1>2. /\ ~Fresh /\ ~Over /\ call[t].i \in 0 .. N + 1
        /\ tpc[t] \in {"pre_pause", "pause_sleep"} => call[t].op \in {"pause", "maintenance"}
        /\ tpc[t] = "waiting" => call[t].i # 0
    BY <1>1 DEF Inv, Places, TypeOK
  <1>3. \/ Returns(t)
        \/ UNCHANGED caller /\ m_status' = m_status
        \/ GoesOn(t, "pause_sleep", call[t]) /\ tpc[t] \in {"pre_pause", "pause_sleep"}
        \/ /\ tpc[t] = "waiting"
           /\ \E next \in 1 .. N + 1 : GoesOn(t, "waiting", [call[t] EXCEPT !.i = next])
    <2>1. CASE WaitOne(t)
      <3>1. PICK next \in {call[t].i + 1, N + 1} : GoesOn(t, "waiting", [call[t] EXCEPT !.i = next])
        BY <2>1 DEF WaitOne
      <3>2. next \in 1 .. N + 1 /\ tpc[t] = "waiting"
        BY <1>2, <2>1 DEF WaitOne
      <3> QED BY <3>1, <3>2
    <2> QED BY <2>1 DEF RequestChecks, PauseTimesOut, WaitTimesOut, CallerCanceled, WaitEnds
  <1>4. CallerSteps(t)
    <2>1. call[t] \in CallType
      BY DEF Inv, TypeOK, CallType
    <2>2. \A next \in 1 .. N + 1 : [call[t] EXCEPT !.i = next] \in CallType
      BY <2>1, CallInType
    <2> QED BY <1>1, <1>3, <2>1, <2>2 DEF CallerSteps, Steps, CallerPlaces
  <1>5. /\ tpc'[t] \in {"idle", "pre_pause", "pause_sleep", "waiting"}
        /\ tpc'[t] # "idle" => m_status' = m_status
        /\ tpc'[t] \in {"pre_pause", "pause_sleep"} => call'[t].op \in {"pause", "maintenance"}
        /\ tpc'[t] = "waiting" => call'[t].i # 0
    <2>1. call \in [Callers -> CallType] /\ tpc \in [Callers -> CallerPlaces]
      BY DEF Inv, TypeOK, CallType
    <2>2. CASE Returns(t)
      BY <2>1, <2>2 DEF Returns
    <2>3. CASE UNCHANGED caller /\ m_status' = m_status
      BY <1>1, <1>2, <2>3 DEF caller
    <2>4. CASE GoesOn(t, "pause_sleep", call[t]) /\ tpc[t] \in {"pre_pause", "pause_sleep"}
      BY <1>1, <1>2, <2>1, <2>4 DEF GoesOn, Returns
    <2>5. ASSUME NEW next \in 1 .. N + 1, GoesOn(t, "waiting", [call[t] EXCEPT !.i = next])
          PROVE  tpc'[t] = "waiting" /\ call'[t].i # 0 /\ m_status' = m_status
      <3>1. tpc'[t] = "waiting" /\ call'[t] = [call[t] EXCEPT !.i = next]
        BY <2>1, <2>5 DEF GoesOn
      <3>2. call'[t].i = next
        BY <2>1, <3>1 DEF CallType
      <3> QED BY <1>1, <2>1, <3>1, <3>2 DEF Returns
    <2> QED BY <1>3, <2>2, <2>3, <2>4, <2>5
  <1>6. Fresh' <=> Fresh
    BY <1>1, <1>2 DEF Fresh
  <1>7. m_status' # "DESTROYING"
    BY <1>1, <1>2, <1>4, CallerAlone DEF Inv, Crew, Over
  <1>8. Locked' /\ Crew' /\ Counts'
    BY <1>1, <1>4, <1>5, <1>6, <1>7, PlainCallInv
  <1>9. Early'
    BY <1>2, <1>6 DEF Early
  <1>10. Places'
    <2>1. (\A u \in Callers \ {t} : tpc'[u] = "idle") /\ ~destroyed'
      BY <1>1, <1>4, CallerAlone
    <2>2. tpc'[t] # "idle" => ~Fresh' /\ ~Over'
      BY <1>1, <1>2, <1>5, <1>6 DEF Over
    <2> QED BY <1>5, <2>1, <2>2 DEF Places
  <1> QED BY <1>8, <1>9, <1>10


\* gallus_pipeline_stage_start, and its end when it fails.
LEMMA StartInv ==
    ASSUME Inv, NEW t \in Callers, Start(t) \/ StartUndone(t)
    PROVE  Locked' /\ Early' /\ Places' /\ Crew' /\ Counts'
  <1> USE Constants
  <1>1. /\ Start(t) => Free(t)
        /\ UNCHANGED <<wpc, canceled, destroyed, m_status, m_pause_requested>>
        /\ {m_n_canceled_workers, m_n_shutdown_workers}' \subseteq {0}
        /\ \/ GoesOn(t, "starting", [op |-> "start", timed |-> FALSE, i |-> 1])
           \/ Returns(t)
    BY DEF Start, StartUndone, Free, thread, history, flags
  <1>2. Fresh
    BY DEF Start, StartUndone, Inv, TypeOK, Places, Fresh
  <1>3. CallerSteps(t)
    <2>1. [op |-> "start", timed |-> FALSE, i |-> 1] \in CallType
      BY DEF CallType
    <2> QED BY <1>1, <2>1 DEF Start, StartUndone, Free, CallerSteps, Steps, CallerPlaces
  <1>4. /\ Locked' /\ ~destroyed /\ \A u \in Callers \ {t} : tpc[u] = "idle" /\ tpc'[u] = "idle"
    BY <1>3, CallerAlone
  <1>5. \/ tpc'[t] = "starting" /\ call'[t].i = 1
        \/ tpc'[t] = "idle"
    BY <1>1 DEF GoesOn, Returns, Inv, TypeOK
  <1>6. \A w \in Workers : ~Alive(w) /\ ~Alive(w)'
    <2>1. CASE Start(t)
      <3>1. tpc[t] = "idle"
        BY <2>1 DEF Start, Free
      <3>2. \A w \in Workers : ~Begun(w)
        BY <1>2, <1>4, <3>1 DEF Begun, InStart
      <3> QED BY <1>1, <1>2, <3>2 DEF Inv, Crew, Alive
    <2>2. CASE StartUndone(t)
      BY <1>1, <2>2 DEF StartUndone, Alive
    <2> QED BY <2>1, <2>2
  <1>7. Fresh' /\ \A w \in Workers : ~Begun(w)'
    BY <1>1, <1>2, <1>4, <1>5 DEF Fresh, Begun, InStart
  <1>8. Early'
    BY <1>1, <1>2 DEF Inv, Early
  <1>9. Places'
    BY <1>1, <1>4, <1>5, <1>7 DEF Places
  <1>10. Crew'
    BY <1>1, <1>2, <1>6, <1>7 DEF Crew, Fresh
  <1>11. Counts'
    <2>1. Left' = {}
      BY <1>7 DEF Left
    <2>2. CountsAre({})'
      <3>1. Cardinality({}) = 0 /\ {w \in {} : canceled'[w]} = {}
        BY FS_EmptySet
      <3> QED BY <1>1, <3>1 DEF CountsAre
    <2> QED BY <2>1, <2>2 DEF Counts
  <1> QED BY <1>4, <1>8, <1>9, <1>10, <1>11

\* One worker more; with the last the stage is started.
LEMMA StartWorkerInv ==
    ASSUME Inv, NEW t \in Callers, StartWorker(t)
    PROVE  Locked' /\ Early' /\ Places' /\ Crew' /\ Counts'
  <1> USE Constants
  <1> DEFINE i == call[t].i
  <1>1. /\ tpc[t] = "starting" /\ i \in Workers /\ Fresh
        /\ ~destroyed /\ \A u \in Callers \ {t} : tpc[u] = "idle"
    BY DEF StartWorker, Inv, Places, Locked
  <1>2. /\ wpc'[i] = "gala" /\ \A w \in Workers \ {i} : wpc'[w] = wpc[w] /\ canceled'[w] = canceled[w]
        /\ UNCHANGED <<m_pause_requested, counts, destroyed>>
    <2>1. /\ wpc' = [wpc EXCEPT ![i] = "gala"] /\ canceled' = [canceled EXCEPT ![i] = FALSE]
          /\ UNCHANGED <<m_pause_requested, counts, history>>
      BY DEF StartWorker, WAt
    <2>2. wpc \in [Workers -> WorkerPlaces] /\ canceled \in [Workers -> BOOLEAN]
      BY DEF Inv, TypeOK
    <2> QED BY <1>1, <2>1, <2>2 DEF history
  <1>3. CallerSteps(t)
    <2>1. call[t] \in CallType /\ i + 1 \in 0 .. N + 1
      BY <1>1 DEF Inv, TypeOK, CallType
    <2>2. [call[t] EXCEPT !.i = i + 1] \in CallType
      BY <2>1, CallInType
    <2> QED BY <1>1, <2>2 DEF StartWorker, CallerSteps, Steps, CallerPlaces
  <1>4. Locked' /\ \A u \in Callers \ {t} : tpc'[u] = "idle"
    BY <1>3, CallerAlone
  <1>5. \/ i = N /\ m_status' = "STARTED" /\ tpc'[t] = "idle"
        \/ i < N /\ m_status' = m_status /\ tpc'[t] = "starting" /\ call'[t].i = i + 1
    BY <1>1 DEF StartWorker, Returns, GoesOn, Inv, TypeOK
  <1>6. \A w \in Workers : /\ Begun(w) <=> w < i
                           /\ Begun(w)' <=> w <= i
    <2>1. \A w \in Workers : Begun(w) <=> w < i
      BY <1>1 DEF Begun, InStart
    <2>2. CASE i = N /\ m_status' = "STARTED"
      BY <2>1, <2>2 DEF Begun, Fresh
    <2>3. CASE i < N /\ m_status' = m_status /\ tpc'[t] = "starting" /\ call'[t].i = i + 1
      <3>1. Fresh'
        BY <1>1, <2>3 DEF Fresh
      <3>2. \A w \in Workers : Begun(w)' <=> w < i + 1
        BY <1>1, <1>4, <2>3, <3>1 DEF Begun, InStart
      <3> QED BY <1>1, <2>1, <3>2
    <2> QED BY <1>5, <2>2, <2>3
  <1>7. Early'
    <2>1. Fresh' => m_status' = m_status
      BY <1>5 DEF Fresh
    <2> QED BY <1>1, <1>2, <2>1 DEF Inv, Early, Fresh
  <1>8. Places'
    BY <1>1, <1>2, <1>4, <1>5 DEF Places, Fresh
  <1>9. Usable /\ Usable'
    BY <1>1, <1>2, <1>4, <1>5 DEF Usable, Closing, Fresh
  <1>10. Crew'
    <2>1. \A w \in Workers : Alive(w)' => Begun(w)'
      BY <1>1, <1>2, <1>6 DEF Inv, Crew, Alive
    <2>2. \A w \in Workers : Begun(w)' => wpc'[w] # "unborn"
      BY <1>1, <1>2, <1>6, <1>9 DEF Inv, Crew
    <2>3. m_status' # "DESTROYING"
      BY <1>1, <1>5 DEF Fresh
    <2> QED BY <2>1, <2>2, <2>3 DEF Crew
  <1>11. Counts'
    <2>1. CountsAre(Left)
      BY <1>9 DEF Inv, Counts
    <2>2. Left' = Left /\ Left \subseteq Gone'
      BY <1>1, <1>2, <1>6 DEF Left, Gone
    <2>3. \A w \in Left : canceled'[w] = canceled[w]
      BY <1>1, <1>2, <1>6 DEF Left
    <2>4. {w \in Left : canceled'[w]} = {w \in Left : canceled[w]}
      BY <2>3
    <2>5. CountsAre(Left)'
      BY <1>2, <2>1, <2>2, <2>4 DEF CountsAre, counts
    <2> QED BY <2>2, <2>5 DEF Counts
  <1> QED BY <1>4, <1>7, <1>8, <1>10, <1>11

LEMMA StartFailedInv ==
    ASSUME Inv, NEW t \in Callers, StartFailed(t)
    PROVE  Locked' /\ Early' /\ Places' /\ Crew' /\ Counts'
  <1>1. /\ tpc[t] = "starting" /\ Fresh /\ GoesOn(t, "undoing", call[t])
        /\ UNCHANGED <<m_status, m_pause_requested, counts, wpc, canceled, destroyed>>
    BY DEF StartFailed, Inv, Places, history
  <1>2. CallerSteps(t)
    BY <1>1 DEF CallerSteps, Steps, CallerPlaces, Inv, TypeOK, CallType
  <1>3. /\ Locked' /\ ~destroyed /\ \A u \in Callers \ {t} : tpc[u] = "idle" /\ tpc'[u] = "idle"
    BY <1>2, CallerAlone
  <1>4. tpc'[t] = "undoing" /\ call'[t] = call[t]
    BY <1>1 DEF GoesOn, Inv, TypeOK
  <1>5. Fresh' /\ \A w \in Workers : Begun(w)' <=> Begun(w)
    BY <1>1, <1>3, <1>4 DEF Fresh, Begun, InStart
  <1>6. Usable' <=> Usable
    BY <1>1, <1>3, <1>4 DEF Usable, Closing
  <1>7. Early' /\ Places'
    BY <1>1, <1>3, <1>4, <1>5 DEF Inv, Early, Places
  <1>8. Crew'
    BY <1>1, <1>5, <1>6 DEF Inv, Crew, Alive, Fresh
  <1>9. Counts'
    BY <1>1, <1>5, <1>6 DEF Inv, Counts, CountsAre, Gone, Left, counts
  <1> QED BY <1>3, <1>7, <1>8, <1>9

LEMMA DestroyInv ==
    ASSUME Inv, NEW t \in Callers, Destroy(t) \/ Destroyed(t)
    PROVE  Locked' /\ Early' /\ Places' /\ Crew' /\ Counts'
  <1>1. /\ UNCHANGED <<counts, wpc, canceled, m_pause_requested>>
        /\ \/ /\ Free(t) /\ m_status' = "DESTROYING" /\ destroyed' = destroyed
              /\ GoesOn(t, "destroying", [op |-> "destroy", timed |-> FALSE, i |-> 0])
           \/ /\ tpc[t] = "destroying" /\ AllLeft /\ m_status' = m_status /\ destroyed'
              /\ Returns(t)
    BY DEF Destroy, Destroyed, thread, history, flags
  <1>2. CallerSteps(t)
    <2>1. [op |-> "destroy", timed |-> FALSE, i |-> 0] \in CallType
      BY Constants DEF CallType
    <2> QED BY <1>1, <2>1 DEF CallerSteps, Steps, CallerPlaces, Free
  <1>3. /\ Locked' /\ ~destroyed /\ \A u \in Callers \ {t} : tpc[u] = "idle" /\ tpc'[u] = "idle"
    BY <1>2, CallerAlone
  <1>4. \/ tpc'[t] = "destroying" /\ m_status' = "DESTROYING" /\ ~destroyed'
        \/ tpc'[t] = "idle" /\ m_status' = m_status /\ destroyed' /\ AllLeft
    BY <1>1, <1>3 DEF GoesOn, Returns, Inv, TypeOK
  <1>5. Early' /\ Places'
    BY <1>1, <1>3, <1>4 DEF Inv, Early, Places, Fresh
  <1>6. ~Usable'
    BY <1>4 DEF Usable, Closing
  <1>7. Crew'
    BY <1>1, <1>4, <1>6 DEF Crew, Fresh, AllLeft, Alive
  <1>8. Counts'
    BY <1>1, <1>6 DEF Inv, Counts, CountsAre, Gone, counts
  <1> QED BY <1>3, <1>5, <1>7, <1>8

-----------------------------------------------------------------------------
(* The invariant that needs no assumption about the users.                 *)

LEMMA InitInv == Init => Inv
  <1> USE Constants
  <1> SUFFICES ASSUME Init PROVE Inv
    OBVIOUS
  <1>1. TypeOK
    <2>1. call \in [Callers -> CallType]
      BY CallInType DEF Init
    <2>2. /\ wpc \in [Workers -> WorkerPlaces] /\ tpc \in [Callers -> CallerPlaces]
          /\ st \in [Workers -> {-1, 0, 1}]
          /\ {is_master, requested, canceled} \subseteq [Workers -> BOOLEAN]
      BY DEF Init, WorkerPlaces, CallerPlaces
    <2>3. {m_n_canceled_workers, m_n_shutdown_workers} \subseteq 0 .. N
      BY DEF Init, InitStage
    <2>4. /\ n_maintained \in Nat /\ n_requests \in 0 .. MaxRequests /\ style \in Styles
          /\ woken \subseteq Threads /\ m_lock = Nobody /\ m_pause_lock = Nobody
      BY DEF Init, InitStage
    <2>6. {m_do_loop, m_pause_requested, m_maint_proc, destroyed, fatal} \subseteq BOOLEAN
      BY DEF Init, InitStage
    <2>5. /\ m_status = "INITIALIZED" /\ m_sg_lvl = "UNKNOWN" /\ gs = "starting"
      BY DEF Init, InitStage
    <2> QED BY <2>1, <2>2, <2>3, <2>4, <2>5, <2>6 DEF TypeOK, CallType
  <1>2. Locked /\ Early /\ Places
    BY DEF Init, InitStage, Locked, Early, Places, Fresh
  <1>3. \A w \in Workers : ~Begun(w) /\ ~Alive(w)
    BY DEF Init, InitStage, Begun, InStart, Fresh, Alive
  <1>4. Crew
    BY <1>3 DEF Init, InitStage, Crew
  <1>5. Counts
    <2>1. Left = {}
      BY <1>3 DEF Left
    <2>2. Cardinality({}) = 0 /\ {w \in {} : canceled[w]} = {}
      BY FS_EmptySet
    <2> QED BY <2>1, <2>2 DEF Init, InitStage, Counts, CountsAre
  <1> QED BY <1>1, <1>2, <1>4, <1>5 DEF Inv

LEMMA NextInv == Inv /\ [Next]_vars => Inv'
  <1> SUFFICES ASSUME Inv, [Next]_vars PROVE Inv'
    OBVIOUS
  <1>1. Locked' /\ Early' /\ Places' /\ Crew' /\ Counts'
    <2>1. ASSUME NEW w \in Workers, WorkerRuns(w) \/ CancelStrikes(w)
          PROVE  Locked' /\ Early' /\ Places' /\ Crew' /\ Counts'
      BY <2>1, FinalizeInv, WorkerRunsMove, WorkersMoveInv
    <2>2. CASE BarrierOpens
      BY <2>2, BarrierMoves, WorkersMoveInv
    <2>3. ASSUME NEW t \in Callers,
                 \/ CallerRuns(t) \/ Calls(t) \/ StartFailed(t) \/ PauseTimesOut(t)
                 \/ WaitTimesOut(t) \/ CallerCanceled(t)
          PROVE  Locked' /\ Early' /\ Places' /\ Crew' /\ Counts'
      BY <2>3, BeginsInv, GoesOnInv, StartInv, StartWorkerInv, StartFailedInv, DestroyInv
      DEF CallerRuns, Calls
    <2>4. CASE SetGlobalState \/ UNCHANGED vars
      <3>1. WorkersMove /\ UNCHANGED <<m_status, m_pause_requested, wpc>>
        BY <2>4 DEF SetGlobalState, vars, flags, thread, history, WorkersMove
      <3>2. Early'
        BY <3>1 DEF Inv, Early, Fresh
      <3> QED BY <3>1, <3>2, WorkersMoveInv
    <2> QED BY <2>1, <2>2, <2>3, <2>4 DEF Next
  <1>2. TypeOK'
    BY <1>1, TypeStep DEF Inv
  <1> QED BY <1>1, <1>2 DEF Inv


-----------------------------------------------------------------------------
(* The end of the stage.                                                   *)

\* The time that s_wait_stage subtracts from its limit is positive.
ClockGoes == ~ClockStands

LEMMA WorkersEnd ==
    ASSUME EndInv, NEW w \in Workers, WorkerRuns(w) \/ CancelStrikes(w)
    PROVE  Waited' /\ FinalAfterAll' /\ NeverFatal'
  <1>1. CASE Finalize(w)
    <2>1. /\ UNCHANGED <<m_status, destroyed, canceled, fatal, tpc, call>>
          /\ Alive(w) /\ \A v \in Workers : Alive(v)' => Alive(v)
      BY <1>1 DEF Finalize, WAt, Alive, flags, thread, caller, history, EndInv, Inv, TypeOK
    <2>2. ~Over /\ ~Over'
      BY <2>1 DEF EndInv, FinalAfterAll, Over
    <2> QED BY <2>1, <2>2 DEF EndInv, Waited, FinalAfterAll, NeverFatal, Over
  <1>2. CASE WorkersMove
    <2>1. /\ UNCHANGED <<destroyed, fatal, tpc, call>>
          /\ \A v \in Workers : Alive(v)' <=> Alive(v)
          /\ \A v \in Workers : ~Alive(v) => canceled'[v] = canceled[v]
          /\ (\A v \in Workers : ~Alive(v)) => m_status' = m_status
          /\ m_status' = m_status \/ m_status' \notin {"SHUTDOWN", "CANCELED"}
      BY <1>2 DEF WorkersMove, Alive, caller
    <2> QED BY <2>1 DEF EndInv, Waited, FinalAfterAll, NeverFatal, Over
  <1> QED BY <1>1, <1>2, WorkerRunsMove DEF EndInv

LEMMA WaitsOn ==
    ASSUME EndInv, NEW t \in Callers, CallerSteps(t), UNCHANGED wpc,
           \/ tpc'[t] # "waiting"
           \/ call'[t].i = 1
           \/ tpc[t] = "waiting" /\ call'[t].i = call[t].i
           \/ tpc[t] = "waiting" /\ call'[t].i = call[t].i + 1 /\ ~Alive(call[t].i)
    PROVE  Waited'
  <1> USE Constants
  <1>1. \A u \in Callers \ {t} : tpc'[u] = "idle"
    BY CallerAlone DEF EndInv
  <1>2. ASSUME tpc'[t] = "waiting", NEW w \in Workers, w < call'[t].i
        PROVE  ~Alive(w)'
    <2>1. ~Alive(w)
      BY <1>2 DEF EndInv, Waited, Inv, TypeOK
    <2> QED BY <2>1 DEF Alive
  <1> QED BY <1>1, <1>2 DEF Waited

\* A stage that ends has no worker, and the counts are right.
LEMMA EndOfWait ==
    ASSUME EndInv, NEW t \in Callers, tpc[t] = "waiting", call[t].i > N
    PROVE  /\ \A w \in Workers : ~Alive(w)
           /\ m_n_shutdown_workers = N
           /\ m_n_canceled_workers > 0 <=> \E w \in Workers : canceled[w]
  <1> USE Constants
  <1>1. \A w \in Workers : ~Alive(w)
    BY DEF EndInv, Waited, Inv, TypeOK
  <1>2. ~Fresh /\ Usable
    <2>1. ~Fresh /\ ~destroyed
      BY DEF EndInv, Inv, Places
    <2>2. \A u \in Callers : tpc[u] # "destroying"
      BY DEF EndInv, Inv, Locked
    <2> QED BY <2>1, <2>2 DEF EndInv, Inv, Crew, Usable, Closing
  <1>3. Left = Workers
    BY <1>1, <1>2 DEF EndInv, Inv, Crew, Begun, Alive, Left
  <1>4. CountsAre(Workers)
    BY <1>2, <1>3 DEF EndInv, Inv, Counts
  <1>5. Cardinality({w \in Workers : canceled[w]}) > 0 <=> \E w \in Workers : canceled[w]
    <2> DEFINE there == {w \in Workers : canceled[w]}
    <2>1. IsFiniteSet(there) /\ Cardinality(there) \in 0 .. N
      OBVIOUS
    <2>2. Cardinality(there) = 0 <=> there = {}
      BY <2>1, FS_EmptySet
    <2> QED BY <2>1, <2>2
  <1> QED BY <1>1, <1>4, <1>5 DEF CountsAre

LEMMA CallersEnd ==
    ASSUME EndInv, ClockGoes, NEW t \in Callers,
           \/ CallerRuns(t) \/ Calls(t) \/ StartFailed(t) \/ PauseTimesOut(t)
           \/ WaitTimesOut(t) \/ CallerCanceled(t)
    PROVE  Waited' /\ FinalAfterAll' /\ NeverFatal'
  <1> USE Constants
  <1>0. /\ tpc \in [Callers -> CallerPlaces] /\ call \in [Callers -> CallType]
        /\ m_lock = Nobody => \A u \in Callers : tpc[u] = "idle"
        /\ \A u \in Callers \ {t} : m_lock = t => tpc[u] = "idle"
    BY DEF EndInv, Inv, TypeOK, CallType, Locked
  <1>1. CASE StartWorker(t)
    <2>1. \A u \in Callers : tpc'[u] # "waiting"
      BY <1>1, <1>0 DEF StartWorker, Returns, GoesOn, EndInv, Inv, Locked
    <2>2. ~Over' /\ m_status' \notin {"SHUTDOWN", "CANCELED"} /\ fatal' = fatal
      BY <1>1 DEF StartWorker, history, Over, EndInv, Inv, Places, Fresh
    <2> QED BY <2>1, <2>2 DEF EndInv, Waited, FinalAfterAll, NeverFatal
  <1>2. CASE WaitEnds(t)
    <2>1. /\ \A w \in Workers : ~Alive(w)
          /\ m_n_shutdown_workers = N
          /\ m_n_canceled_workers > 0 <=> \E w \in Workers : canceled[w]
      BY <1>2, EndOfWait DEF WaitEnds
    <2>2. /\ m_status' = (IF m_n_canceled_workers > 0 THEN "CANCELED" ELSE "SHUTDOWN")
          /\ Returns(t) /\ UNCHANGED <<fatal, wpc, canceled, destroyed>>
      BY <1>2, <2>1 DEF WaitEnds, thread
    <2>3. \A u \in Callers : tpc'[u] # "waiting"
      BY <1>0, <1>2, <2>2 DEF WaitEnds, Returns, EndInv, Inv, Locked
    <2> QED BY <2>1, <2>2, <2>3 DEF EndInv, Waited, FinalAfterAll, NeverFatal, Alive
  <1>3. CASE Destroyed(t)
    <2>1. /\ AllLeft /\ Returns(t) /\ UNCHANGED <<m_status, fatal, wpc, canceled>>
      BY <1>3 DEF Destroyed, flags, thread
    <2>2. \A u \in Callers : tpc'[u] # "waiting"
      BY <1>0, <1>3, <2>1 DEF Destroyed, Returns, EndInv, Inv, Locked
    <2> QED BY <2>1, <2>2 DEF EndInv, Waited, FinalAfterAll, NeverFatal, AllLeft, Alive
  <1>4. ASSUME CallerSteps(t), UNCHANGED <<wpc, canceled, destroyed, fatal>>,
               m_status' = m_status \/ m_status' \notin {"SHUTDOWN", "CANCELED"}
        PROVE  FinalAfterAll' /\ NeverFatal'
    BY <1>4 DEF EndInv, FinalAfterAll, NeverFatal, Over, Alive
  <1>5. CASE Calls(t) \/ StartUndone(t) \/ StartFailed(t)
    <2>1. /\ UNCHANGED <<wpc, canceled, destroyed, fatal>>
          /\ m_status' = m_status \/ m_status' \notin {"SHUTDOWN", "CANCELED"}
          /\ tpc[t] # "idle" \/ Free(t)
      BY <1>5 DEF Calls, Setup, Start, Cancel, Shutdown, Pause, Maintain, Resume, Wait, Destroy,
                  StartUndone, StartFailed, thread, history, flags
    <2>2. \/ Returns(t)
          \/ GoesOn(t, "starting", [op |-> "start", timed |-> FALSE, i |-> 1])
          \/ GoesOn(t, "undoing", call[t])
          \/ \E timed \in BOOLEAN : GoesOn(t, "pre_pause", [op |-> "pause", timed |-> timed, i |-> 0])
          \/ GoesOn(t, "pre_pause", [op |-> "maintenance", timed |-> FALSE, i |-> 0])
          \/ \E timed \in BOOLEAN : GoesOn(t, "waiting", [op |-> "wait", timed |-> timed, i |-> 1])
          \/ GoesOn(t, "destroying", [op |-> "destroy", timed |-> FALSE, i |-> 0])
      <3>1. \A limit : (limit = "timed") \in BOOLEAN
        OBVIOUS
      <3> QED BY <1>5, <3>1 DEF Calls, Setup, Start, Cancel, Shutdown, Pause, Maintain, Resume, Wait,
                                Destroy, StartUndone, StartFailed
    <2>3. CallerSteps(t)
      <3>1. \A timed \in BOOLEAN :
               /\ [op |-> "start", timed |-> FALSE, i |-> 1] \in CallType
               /\ [op |-> "pause", timed |-> timed, i |-> 0] \in CallType
               /\ [op |-> "maintenance", timed |-> FALSE, i |-> 0] \in CallType
               /\ [op |-> "wait", timed |-> timed, i |-> 1] \in CallType
               /\ [op |-> "destroy", timed |-> FALSE, i |-> 0] \in CallType
        BY DEF CallType
      <3> QED BY <1>0, <2>1, <2>2, <3>1 DEF CallerSteps, Steps, CallerPlaces, Free
    <2>4. tpc'[t] # "waiting" \/ call'[t].i = 1
      BY <1>0, <2>2 DEF Returns, GoesOn
    <2> QED BY <1>4, <2>1, <2>3, <2>4, WaitsOn
  <1>6. CASE RequestChecks(t) \/ PauseTimesOut(t) \/ WaitTimesOut(t) \/ CallerCanceled(t)
    <2>1. /\ UNCHANGED <<m_status, wpc, canceled, destroyed, fatal>> /\ tpc[t] # "idle"
          /\ Returns(t) \/ GoesOn(t, "pause_sleep", call[t])
      BY <1>6 DEF RequestChecks, PauseTimesOut, WaitTimesOut, CallerCanceled, thread, history, flags
    <2>2. CallerSteps(t)
      BY <1>0, <2>1 DEF CallerSteps, Steps, CallerPlaces
    <2>3. tpc'[t] # "waiting"
      BY <1>0, <2>1 DEF Returns, GoesOn
    <2> QED BY <1>4, <2>1, <2>2, <2>3, WaitsOn
  <1>7. CASE WaitOne(t)
    <2>1. /\ UNCHANGED <<m_status, wpc, canceled, destroyed, fatal>> /\ tpc[t] = "waiting"
          /\ GoesOn(t, "waiting", [call[t] EXCEPT !.i = call[t].i + 1])
          /\ ~Alive(call[t].i) /\ call[t].i + 1 \in 0 .. N + 1
      BY <1>0, <1>7 DEF WaitOne, ClockGoes, thread, history, flags, CallType
    <2>2. [call[t] EXCEPT !.i = call[t].i + 1] \in CallType
      BY <1>0, <2>1, CallInType
    <2>3. CallerSteps(t)
      BY <2>1, <2>2 DEF CallerSteps, Steps, CallerPlaces
    <2>4. call'[t].i = call[t].i + 1
      BY <1>0, <2>1 DEF GoesOn, CallType
    <2> QED BY <1>4, <2>1, <2>3, <2>4, WaitsOn
  <1> QED BY <1>1, <1>2, <1>3, <1>5, <1>6, <1>7 DEF CallerRuns

LEMMA EndStep == ClockGoes => (EndInv /\ [Next]_vars => EndInv')
  <1> SUFFICES ASSUME ClockGoes, EndInv, [Next]_vars PROVE EndInv'
    OBVIOUS
  <1>1. Inv'
    BY NextInv DEF EndInv
  <1>2. CASE WorkersMove
    <2>1. /\ UNCHANGED <<destroyed, fatal, tpc, call>>
          /\ \A v \in Workers : Alive(v)' <=> Alive(v)
          /\ \A v \in Workers : ~Alive(v) => canceled'[v] = canceled[v]
          /\ (\A v \in Workers : ~Alive(v)) => m_status' = m_status
          /\ m_status' = m_status \/ m_status' \notin {"SHUTDOWN", "CANCELED"}
      BY <1>2 DEF WorkersMove, Alive, caller
    <2> QED BY <1>1, <2>1 DEF EndInv, Waited, FinalAfterAll, NeverFatal, Over
  <1>3. CASE SetGlobalState \/ UNCHANGED vars
    BY <1>2, <1>3 DEF SetGlobalState, vars, flags, thread, history, WorkersMove
  <1>4. CASE BarrierOpens
    BY <1>2, <1>4, BarrierMoves DEF EndInv
  <1> QED BY <1>1, <1>3, <1>4, WorkersEnd, CallersEnd DEF EndInv, Next

\* For any number of workers and callers, whatever is cancelled, times out or fails: a stage
\* that gallus_pipeline_stage_wait found shut down or cancelled, or that is destroyed, has no
\* worker; it is cancelled exactly if one was; and the counts that the workers write one by
\* one as they leave (s_worker_finalize) always agree with the waits for their threads.
THEOREM EndsCorrect == ClockGoes => (Spec => [](TypeOK /\ EndsAgree))
  <1> SUFFICES ASSUME ClockGoes PROVE Spec => [](TypeOK /\ EndsAgree)
    OBVIOUS
  <1>1. Init => EndInv
    <2> SUFFICES ASSUME Init PROVE EndInv
      OBVIOUS
    <2> QED BY InitInv DEF Init, InitStage, EndInv, Waited, FinalAfterAll, NeverFatal, Over, Alive
  <1>2. EndInv => TypeOK /\ EndsAgree
    BY DEF EndInv, Inv, EndsAgree
  <1> QED BY <1>1, <1>2, EndStep, PTL DEF Spec


-----------------------------------------------------------------------------
(* The rounds of the pauses and maintenances.                              *)

RoundVars == <<m_status, m_pause_requested, m_maint_proc, n_maintained, style>>
Rounds == Masters /\ PauseRounds /\ MaintenanceRounds /\ Stylish

\* A worker that sits out a round stays seated, as long as there is a request.
LEMMA RoundStays ==
    ASSUME RoundInv, NEW w \in Workers, NEW place \in WorkerPlaces,
           wpc' = [wpc EXCEPT ![w] = place],
           UNCHANGED <<RoundVars, is_master, tpc, call>>,
           place \notin {"passed_pause", "passed_maint", "maintaining"},
           m_pause_requested /\ SitsPause(w) => place \in {"resume_sleep", "ending", "ended"},
           Maintained /\ SitsMaint(w) => place \in {"maint_sleep", "ending", "ended"},
           wpc[w] = "maintaining" => place = "ending",
           place = "barrier_pause" => PauseComes,
           place = "barrier_maint" => Maintained /\ n_maintained = 0
    PROVE  Rounds'
  <1>1. /\ wpc'[w] = place /\ \A v \in Workers \ {w} : wpc'[v] = wpc[v]
        /\ UNCHANGED <<m_status, m_pause_requested, m_maint_proc, n_maintained, style, is_master,
                       tpc, call>>
    BY DEF RoundInv, Inv, TypeOK, RoundVars
  <1>2. /\ \A v \in Workers \ {w} : /\ SitsPause(v)' <=> SitsPause(v)
                                    /\ SitsMaint(v)' <=> SitsMaint(v)
        /\ ~Pending(w)'
    BY <1>1 DEF SitsPause, SitsMaint, Pending
  <1>3. /\ m_pause_requested /\ SitsPause(w) => SitsPause(w)'
        /\ Maintained /\ SitsMaint(w) => SitsMaint(w)'
    BY <1>1, <1>2 DEF SitsPause, SitsMaint
  <1>4. /\ PauseComes' <=> PauseComes
        /\ Maintained' <=> Maintained
        /\ \A t \in Callers, op \in {"pause", "maintenance"} : InCall(t, op)' <=> InCall(t, op)
    BY <1>1 DEF PauseComes, Maintained, Fresh, InCall, InPause
  <1>5. Masters' /\ Stylish'
    BY <1>1, <1>4 DEF RoundInv, Masters, Stylish
  <1>6. PauseRounds'
    <2>1. m_pause_requested /\ Quiet => Quiet'
      BY <1>2, <1>3 DEF Quiet
    <2>2. \A v \in Workers : wpc'[v] = "barrier_pause" => PauseComes
      BY <1>1 DEF RoundInv, PauseRounds
    <2>3. ASSUME NEW v \in Workers, wpc'[v] = "passed_pause", is_master[v]
          PROVE  PauseComes /\ \A u \in Workers \ {v} : SitsPause(u)'
      <3>1. v # w /\ wpc[v] = "passed_pause"
        BY <1>1, <2>3
      <3>2. PauseComes /\ \A u \in Workers \ {v} : SitsPause(u)
        BY <2>3, <3>1 DEF RoundInv, PauseRounds
      <3> QED BY <1>2, <1>3, <3>2 DEF PauseComes
    <2> QED BY <1>1, <1>4, <2>1, <2>2, <2>3 DEF RoundInv, PauseRounds
  <1>7. MaintenanceRounds'
    <2>1. \A v \in Workers : wpc'[v] = "barrier_maint" => Maintained /\ n_maintained = 0
      BY <1>1 DEF RoundInv, MaintenanceRounds
    <2>2. ASSUME NEW v \in Workers, wpc'[v] = "passed_maint", is_master[v]
          PROVE  Maintained /\ n_maintained = 0 /\ \A u \in Workers \ {v} : SitsMaint(u)'
      <3>1. v # w /\ wpc[v] = "passed_maint"
        BY <1>1, <2>2
      <3>2. Maintained /\ n_maintained = 0 /\ \A u \in Workers \ {v} : SitsMaint(u)
        BY <2>2, <3>1 DEF RoundInv, MaintenanceRounds
      <3> QED BY <1>2, <1>3, <3>2
    <2>3. \A v \in Workers : wpc'[v] = "maintaining" => Maintained /\ n_maintained = 1 /\ is_master[v]
      BY <1>1 DEF RoundInv, MaintenanceRounds
    <2>4. ASSUME Maintained, n_maintained = 1, NEW v \in Workers
          PROVE  SitsMaint(v)' \/ wpc'[v] = "maintaining"
      <3>1. SitsMaint(v) \/ wpc[v] = "maintaining"
        BY <2>4 DEF RoundInv, MaintenanceRounds
      <3>2. wpc[w] = "maintaining" => SitsMaint(w)'
        BY <1>1, <1>2 DEF SitsMaint
      <3> QED BY <1>1, <1>2, <1>3, <2>4, <3>1, <3>2
    <2>5. /\ m_maint_proc <=> Maintained
          /\ Maintained => m_pause_requested /\ \E t \in Callers : InCall(t, "maintenance")
          /\ n_maintained <= 1
      BY DEF RoundInv, MaintenanceRounds
    <2> QED BY <1>1, <1>4, <2>1, <2>2, <2>3, <2>4, <2>5 DEF MaintenanceRounds
  <1> QED BY <1>5, <1>6, <1>7 DEF Rounds

\* What a worker finds that sees a request: it is of this round, and nobody sits yet.
LEMMA TestRounds ==
    ASSUME RoundInv, NEW w \in Workers, Test(w)
    PROVE  Rounds'
  <1>1. /\ wpc[w] = "test" /\ UNCHANGED <<RoundVars, is_master, tpc, call>>
        /\ ~SitsPause(w) /\ ~SitsMaint(w)
    BY DEF Test, flags, caller, history, RoundVars, SitsPause, SitsMaint
  <1>2. PICK place \in {"work", "barrier_maint", "barrier_pause"} :
          /\ wpc' = [wpc EXCEPT ![w] = place]
          /\ place = "barrier_maint" => m_pause_requested /\ m_maint_proc
          /\ place = "barrier_pause" => m_pause_requested /\ ~m_maint_proc
    BY DEF Test, WAt, Obeys
  <1>3. place = "barrier_pause" => PauseComes
    <2>1. m_pause_requested => ~Fresh
      BY DEF RoundInv, Inv, Early
    <2>2. ~Quiet
      BY <1>1 DEF Quiet
    <2> QED BY <1>2, <2>1, <2>2 DEF RoundInv, PauseRounds, MaintenanceRounds, PauseComes
  <1>4. place = "barrier_maint" => Maintained /\ n_maintained = 0
    BY <1>1, <1>2 DEF RoundInv, MaintenanceRounds, Inv, TypeOK
  <1>5. place \in WorkerPlaces
    BY DEF WorkerPlaces
  <1> QED BY <1>1, <1>2, <1>3, <1>4, <1>5, RoundStays

\* The master of a pause comes: everybody else sits.
LEMMA PauseSleepsRounds ==
    ASSUME RoundInv, NEW w \in Workers, PauseSleeps(w)
    PROVE  Rounds'
  <1>1. /\ wpc[w] \in {"passed_pause", "resume_sleep"}
        /\ wpc' = [wpc EXCEPT ![w] = IF m_pause_requested THEN "resume_sleep" ELSE "loop"]
        /\ UNCHANGED <<m_pause_requested, m_maint_proc, n_maintained, style, is_master, tpc, call>>
    BY DEF PauseSleeps, WAt, caller, history
  <1>2. CASE ~(wpc[w] = "passed_pause" /\ is_master[w])
    <2>1. UNCHANGED RoundVars
      BY <1>1, <1>2 DEF PauseSleeps, RoundVars
    <2>2. ~SitsMaint(w)
      BY <1>1 DEF SitsMaint
    <2>3. (IF m_pause_requested THEN "resume_sleep" ELSE "loop") \in WorkerPlaces
      BY DEF WorkerPlaces
    <2> QED BY <1>1, <2>1, <2>2, <2>3, RoundStays
  <1>3. CASE wpc[w] = "passed_pause" /\ is_master[w]
    <2>1. PauseComes /\ \A v \in Workers \ {w} : SitsPause(v)
      BY <1>3 DEF RoundInv, PauseRounds
    <2>2. /\ m_status' = "PAUSED" /\ m_pause_requested
          /\ wpc'[w] = "resume_sleep" /\ \A v \in Workers \ {w} : wpc'[v] = wpc[v]
      BY <1>1, <1>3, <2>1 DEF PauseSleeps, PauseComes, RoundInv, Inv, TypeOK
    <2>3. \A v \in Workers : /\ wpc'[v] \in {"passed_pause", "resume_sleep", "ending", "ended"}
                             /\ ~(wpc'[v] = "passed_pause" /\ is_master'[v])
      BY <1>1, <2>1, <2>2 DEF SitsPause, Pending
    <2>4. Quiet'
      BY <2>3 DEF Quiet, SitsPause, Pending
    <2>5. PauseRounds'
      BY <1>1, <2>2, <2>3, <2>4 DEF PauseRounds
    <2>6. MaintenanceRounds'
      BY <1>1, <2>1, <2>2, <2>3 DEF RoundInv, MaintenanceRounds, PauseComes, Maintained
    <2>7. Stylish'
      <3>1. \A t \in Callers : ~InCall(t, "maintenance")
        BY <2>1 DEF RoundInv, Stylish, PauseComes, InCall, InPause, Inv, Locked
      <3> QED BY <1>1, <3>1 DEF RoundInv, Stylish, InCall, InPause
    <2> QED BY <1>1, <2>5, <2>6, <2>7 DEF Rounds, RoundInv, Masters
  <1> QED BY <1>2, <1>3

LEMMA MaintenanceRoundsStep ==
    ASSUME RoundInv, NEW w \in Workers, MaintenanceBegins(w) \/ MaintenanceEnds(w)
    PROVE  Rounds'
  <1>1. CASE MaintenanceBegins(w)
    <2>1. /\ wpc[w] = "passed_maint" /\ is_master[w] /\ n_maintained' = n_maintained + 1
          /\ wpc'[w] = "maintaining" /\ \A v \in Workers \ {w} : wpc'[v] = wpc[v]
          /\ UNCHANGED <<m_status, m_pause_requested, m_maint_proc, style, is_master, tpc, call>>
      BY <1>1 DEF MaintenanceBegins, WAt, flags, caller, RoundInv, Inv, TypeOK
    <2>2. Maintained /\ n_maintained = 0 /\ \A v \in Workers \ {w} : SitsMaint(v)
      BY <2>1 DEF RoundInv, MaintenanceRounds
    <2>3. /\ Maintained' /\ n_maintained' = 1
          /\ \A v \in Workers \ {w} : SitsMaint(v)'
      BY <2>1, <2>2 DEF Maintained, SitsMaint, Pending
    <2>4. \A v \in Workers : /\ wpc'[v] \notin {"barrier_maint", "barrier_pause", "passed_pause"}
                             /\ ~(wpc'[v] = "passed_maint" /\ is_master'[v])
                             /\ wpc'[v] = "maintaining" => v = w
      BY <2>1, <2>3 DEF SitsMaint, Pending
    <2>5. PauseRounds'
      BY <2>1, <2>2, <2>4 DEF RoundInv, MaintenanceRounds, PauseRounds, Maintained
    <2>6. MaintenanceRounds'
      BY <2>1, <2>2, <2>3, <2>4 DEF RoundInv, MaintenanceRounds, Maintained, InCall, InPause
    <2>7. Masters' /\ Stylish'
      BY <2>1 DEF RoundInv, Masters, Stylish, InCall, InPause, Maintained
    <2> QED BY <2>5, <2>6, <2>7 DEF Rounds
  <1>2. CASE MaintenanceEnds(w)
    <2>1. /\ wpc[w] = "maintaining" /\ m_status' = "STARTED" /\ ~m_pause_requested' /\ ~m_maint_proc'
          /\ wpc'[w] = "loop" /\ \A v \in Workers \ {w} : wpc'[v] = wpc[v]
          /\ UNCHANGED <<n_maintained, style, is_master, tpc, call>>
      BY <1>2 DEF MaintenanceEnds, WAt, caller, history, RoundInv, Inv, TypeOK
    <2>2. /\ Maintained /\ n_maintained = 1 /\ is_master[w]
          /\ \A v \in Workers : SitsMaint(v) \/ wpc[v] = "maintaining"
      BY <2>1 DEF RoundInv, MaintenanceRounds
    <2>3. \A v \in Workers : /\ wpc'[v] \notin {"barrier_maint", "barrier_pause", "passed_pause"}
                             /\ ~(wpc'[v] = "passed_maint" /\ is_master'[v])
                             /\ wpc'[v] # "maintaining"
      BY <2>1, <2>2 DEF SitsMaint, Pending, RoundInv, Masters, MaintenanceRounds
    <2>4. PauseRounds'
      BY <2>1, <2>3 DEF PauseRounds
    <2>5. MaintenanceRounds'
      BY <2>1, <2>2, <2>3 DEF MaintenanceRounds, Maintained
    <2>6. Masters' /\ Stylish'
      BY <2>1 DEF RoundInv, Masters, Stylish, InCall, InPause, Maintained
    <2> QED BY <2>4, <2>5, <2>6 DEF Rounds
  <1> QED BY <1>1, <1>2

\* The other steps of a worker alone.
LEMMA WorkersRounds ==
    ASSUME RoundInv, NEW w \in Workers, WorkerRuns(w) \/ CancelStrikes(w)
    PROVE  Rounds'
  <1> DEFINE Plain == UNCHANGED <<RoundVars, is_master, tpc, call>>
  <1>1. CASE GalaOpens(w) \/ Loop(w) \/ Work(w)
    <2>1. Plain /\ wpc[w] \in {"gala", "loop", "work"}
      BY <1>1 DEF GalaOpens, Loop, Work, flags, caller, history, RoundVars
    <2>2. PICK place \in {"loop", "test", "ending"} : wpc' = [wpc EXCEPT ![w] = place]
      BY <1>1 DEF GalaOpens, Loop, Work, WAt
    <2>3. ~SitsPause(w) /\ ~SitsMaint(w)
      BY <2>1 DEF SitsPause, SitsMaint
    <2>4. place \in WorkerPlaces
      BY DEF WorkerPlaces
    <2> QED BY <2>1, <2>2, <2>3, <2>4, RoundStays
  <1>2. CASE MaintenanceSleeps(w)
    <2>1. Plain /\ wpc[w] \in {"passed_maint", "maint_sleep"}
      BY <1>2 DEF MaintenanceSleeps, flags, caller, history, RoundVars
    <2>2. PICK place \in {"loop", "maint_sleep"} :
            wpc' = [wpc EXCEPT ![w] = place] /\ (Maintained => place = "maint_sleep")
      BY <1>2 DEF MaintenanceSleeps, WAt, Maintained
    <2>3. ~SitsPause(w)
      BY <2>1 DEF SitsPause
    <2>4. place \in WorkerPlaces
      BY DEF WorkerPlaces
    <2> QED BY <2>1, <2>2, <2>3, <2>4, RoundStays
  <1>3. CASE CancelStrikes(w)
    <2>1. Plain /\ wpc' = [wpc EXCEPT ![w] = "ending"]
      BY <1>3 DEF CancelStrikes, WAt, flags, caller, history, RoundVars
    <2>2. "ending" \in WorkerPlaces
      BY DEF WorkerPlaces
    <2> QED BY <2>1, <2>2, RoundStays
  <1>4. CASE Finalize(w)
    <2>1. Plain /\ wpc[w] = "ending" /\ wpc' = [wpc EXCEPT ![w] = "ended"]
      BY <1>4 DEF Finalize, WAt, flags, caller, history, RoundVars
    <2>2. "ended" \in WorkerPlaces
      BY DEF WorkerPlaces
    <2> QED BY <2>1, <2>2, RoundStays
  <1> QED BY <1>1, <1>2, <1>3, <1>4, TestRounds, PauseSleepsRounds, MaintenanceRoundsStep
      DEF WorkerRuns

\* All of them wait for the same: the one that goes on as the master finds nobody elsewhere.
LEMMA BarrierRounds ==
    ASSUME RoundInv, BarrierOpens
    PROVE  Rounds'
  <1>1. PICK m \in Workers : is_master' = [w \in Workers |-> w = m]
    BY DEF BarrierOpens, Barrier
  <1>2. \A w \in Workers : wpc[w] \in {"barrier_pause", "barrier_maint"}
    BY DEF BarrierOpens, BarrierFull, Barrier
  <1>3. \A w \in Workers : wpc'[w] = IF wpc[w] = "barrier_pause" THEN "passed_pause" ELSE "passed_maint"
    BY <1>2 DEF BarrierOpens
  <1>4. /\ UNCHANGED <<m_status, m_pause_requested, m_maint_proc, n_maintained, style, tpc, call>>
        /\ \A v, w \in Workers : is_master'[v] /\ is_master'[w] => v = w
    BY <1>1 DEF BarrierOpens, flags, caller, history
  <1>5. ~Quiet
    BY <1>1, <1>2 DEF Quiet, SitsPause
  <1>6. \A w \in Workers : /\ wpc[w] = "barrier_pause" => PauseComes
                           /\ wpc[w] = "barrier_maint" => Maintained /\ n_maintained = 0
    BY DEF RoundInv, PauseRounds, MaintenanceRounds
  <1>7. \/ PauseComes /\ \A w \in Workers : wpc[w] = "barrier_pause"
        \/ Maintained /\ n_maintained = 0 /\ \A w \in Workers : wpc[w] = "barrier_maint"
    BY <1>1, <1>2, <1>6 DEF PauseComes
  <1>8. /\ PauseComes' <=> PauseComes
        /\ Maintained' <=> Maintained
        /\ \A t \in Callers, op \in {"pause", "maintenance"} : InCall(t, op)' <=> InCall(t, op)
    BY <1>4 DEF PauseComes, Maintained, Fresh, InCall, InPause
  <1>9. Masters' /\ Stylish'
    BY <1>4, <1>8 DEF Masters, RoundInv, Stylish
  <1>10. CASE PauseComes /\ \A w \in Workers : wpc[w] = "barrier_pause"
    <2>1. \A w \in Workers : wpc'[w] = "passed_pause"
      BY <1>3, <1>10
    <2>2. \A v, w \in Workers : is_master'[v] /\ w # v => SitsPause(w)'
      BY <1>4, <2>1 DEF SitsPause, Pending
    <2>3. PauseRounds'
      BY <1>4, <1>5, <1>8, <1>10, <2>1, <2>2 DEF RoundInv, PauseRounds, PauseComes
    <2>4. MaintenanceRounds'
      BY <1>4, <1>8, <1>10, <2>1 DEF RoundInv, MaintenanceRounds, PauseComes
    <2> QED BY <1>9, <2>3, <2>4 DEF Rounds
  <1>11. CASE Maintained /\ n_maintained = 0 /\ \A w \in Workers : wpc[w] = "barrier_maint"
    <2>1. \A w \in Workers : wpc'[w] = "passed_maint"
      BY <1>3, <1>11
    <2>2. \A v, w \in Workers : is_master'[v] /\ w # v => SitsMaint(w)'
      BY <1>4, <2>1 DEF SitsMaint, Pending
    <2>3. PauseRounds'
      BY <1>4, <1>5, <1>8, <1>11, <2>1 DEF RoundInv, PauseRounds
    <2>4. MaintenanceRounds'
      BY <1>4, <1>8, <1>11, <2>1, <2>2 DEF RoundInv, MaintenanceRounds
    <2> QED BY <1>9, <2>3, <2>4 DEF Rounds
  <1> QED BY <1>7, <1>10, <1>11

\* Who is in no pause and no maintenance, before and after, leaves both as they are; so does who
\* leaves a pause where nobody maintains.
LEMMA QuietCallRounds ==
    ASSUME RoundInv, NEW t \in Callers, CallerSteps(t),
           UNCHANGED <<m_pause_requested, m_maint_proc, n_maintained, style, wpc, is_master>>,
           ~InPause(t) \/ "maintenance" \notin style, ~InPause(t)',
           m_status' = m_status \/ m_status' \notin {"PAUSED", "MAINTENANCE_REQUESTED"},
           Fresh' => Fresh
    PROVE  Rounds'
  <1>1. /\ \A u \in Callers \ {t} : tpc[u] = "idle" /\ tpc'[u] = "idle"
        /\ \A u \in Callers : ~InPause(u)'
    BY CallerAlone DEF RoundInv, InPause
  <1>2. "maintenance" \in style => \A u \in Callers : ~InPause(u)
    BY <1>1 DEF InPause
  <1>3. ~Maintained /\ ~m_maint_proc /\ ~Maintained'
    BY <1>2 DEF RoundInv, Stylish, MaintenanceRounds, InCall, Maintained
  <1>4. PauseComes => PauseComes'
    BY <1>2, <1>3 DEF PauseComes, InCall, Maintained, Fresh
  <1>5. \A w \in Workers : SitsPause(w)' <=> SitsPause(w)
    BY DEF SitsPause, Pending
  <1>6. PauseRounds'
    BY <1>2, <1>4, <1>5 DEF RoundInv, PauseRounds, Quiet, InCall
  <1>7. MaintenanceRounds'
    BY <1>3 DEF RoundInv, MaintenanceRounds
  <1>8. Masters' /\ Stylish'
    BY <1>1 DEF RoundInv, Masters, Stylish, InCall
  <1> QED BY <1>6, <1>7, <1>8 DEF Rounds

\* Nobody is at the barrier yet, or all have sat down: the round is over, or none has begun.
Nowhere(w) ==
    /\ wpc[w] \notin {"barrier_pause", "barrier_maint", "maintaining"}
    /\ ~Pending(w)

LEMMA NoRound ==
    ASSUME RoundInv, NEW t \in Callers, CallerSteps(t), ~InPause(t)', \A w \in Workers : Nowhere(w)',
           UNCHANGED <<m_maint_proc, n_maintained, style, is_master>>,
           ~m_pause_requested', ~m_maint_proc,
           m_status' \notin {"PAUSED", "MAINTENANCE_REQUESTED"}
    PROVE  Rounds'
  <1>1. \A u \in Callers : ~InPause(u)'
    BY CallerAlone DEF RoundInv, InPause
  <1> QED BY <1>1 DEF Rounds, RoundInv, Masters, PauseRounds, MaintenanceRounds, Stylish, Maintained,
                      InCall, Nowhere, Pending

LEMMA PauseCallRounds ==
    ASSUME RoundInv, NEW t \in Callers,
           Maintain(t) \/ \E timed \in BOOLEAN : Pause(t, timed)
    PROVE  Rounds'
  <1>1. /\ Free(t) /\ m_status = "STARTED"
        /\ m_pause_requested' /\ UNCHANGED <<style, wpc, is_master>>
    BY DEF Maintain, Pause
  <1>2. \A u \in Callers : ~InPause(u)
    BY <1>1, Constants DEF RoundInv, Inv, Locked, Free, InPause
  <1>3. ~Maintained /\ ~m_maint_proc
    BY <1>1 DEF RoundInv, MaintenanceRounds, Maintained
  <1>4. \A w \in Workers : SitsPause(w)' <=> SitsPause(w)
    BY <1>1 DEF SitsPause, Pending
  <1>5. ASSUME NEW timed \in BOOLEAN, Pause(t, timed)
        PROVE  Rounds'
    <2>1. /\ tpc' = [tpc EXCEPT ![t] = "pre_pause"]
          /\ call' = [call EXCEPT ![t] = [op |-> "pause", timed |-> timed, i |-> 0]]
          /\ UNCHANGED <<m_status, m_maint_proc, n_maintained>>
          /\ timed => "pause_timed" \in style
      BY <1>5 DEF Pause, GoesOn
    <2>2. /\ InCall(t, "pause")' /\ call'[t].op # "maintenance"
          /\ call'[t].timed => "pause_timed" \in style
          /\ \A u \in Callers \ {t} : ~InPause(u)'
      BY <1>2, <2>1 DEF InCall, InPause, RoundInv, Inv, TypeOK
    <2>3. PauseComes'
      BY <1>1, <2>1, <2>2 DEF PauseComes, Fresh, Maintained
    <2>4. PauseRounds'
      BY <1>1, <1>4, <2>1, <2>2, <2>3 DEF RoundInv, PauseRounds
    <2>5. MaintenanceRounds'
      BY <1>1, <1>3, <2>1 DEF RoundInv, MaintenanceRounds, Maintained
    <2>6. Masters' /\ Stylish'
      BY <1>1, <2>2 DEF RoundInv, Masters, Stylish, InCall
    <2> QED BY <2>4, <2>5, <2>6 DEF Rounds
  <1>6. CASE Maintain(t)
    <2>1. /\ tpc' = [tpc EXCEPT ![t] = "pre_pause"]
          /\ call' = [call EXCEPT ![t] = [op |-> "maintenance", timed |-> FALSE, i |-> 0]]
          /\ m_status' = "MAINTENANCE_REQUESTED" /\ m_maint_proc' /\ n_maintained' = 0
          /\ "maintenance" \in style
      BY <1>6 DEF Maintain, GoesOn
    <2>2. /\ InCall(t, "maintenance")' /\ ~call'[t].timed /\ call'[t].op # "pause"
          /\ \A u \in Callers \ {t} : ~InPause(u)'
      BY <1>2, <2>1 DEF InCall, InPause, RoundInv, Inv, TypeOK
    <2>3. ~PauseComes
      BY <1>2, <2>1 DEF PauseComes, InCall
    <2>4. \A w \in Workers : Nowhere(w)'
      BY <1>1, <1>3, <2>3 DEF RoundInv, PauseRounds, MaintenanceRounds, Nowhere, Pending
    <2>5. PauseRounds'
      BY <2>1, <2>4 DEF PauseRounds, Nowhere, Pending
    <2>6. MaintenanceRounds'
      BY <1>1, <2>1, <2>2, <2>4 DEF MaintenanceRounds, Maintained, Nowhere, Pending
    <2>7. Masters' /\ Stylish'
      BY <1>1, <2>1, <2>2 DEF RoundInv, Masters, Stylish, InCall, Maintained
    <2> QED BY <2>5, <2>6, <2>7 DEF Rounds
  <1> QED BY <1>5, <1>6

\* The caller looks again: it sleeps on, or finds what it came for.
LEMMA RequestChecksRounds ==
    ASSUME RoundInv, NEW t \in Callers, RequestChecks(t)
    PROVE  Rounds'
  <1>1. /\ InPause(t) /\ UNCHANGED <<m_status, n_maintained, style, wpc, is_master>>
    BY DEF RequestChecks, InPause, history
  <1>2. \A u \in Callers \ {t} : ~InPause(u)
    BY <1>1 DEF InPause, RoundInv, Inv, Locked
  <1>3. /\ call[t].op \in {"pause", "maintenance"}
        /\ call[t].op = "maintenance" => m_status \in {"STARTED", "MAINTENANCE_REQUESTED"}
        /\ call[t].op = "maintenance" => "maintenance" \in style
    BY <1>1 DEF RoundInv, Inv, Places, Stylish, InPause, InCall, Maintained
  <1>4. \A w \in Workers : SitsPause(w)' <=> SitsPause(w)
    BY <1>1 DEF SitsPause, Pending
  <1>5. \A w \in Workers : SitsMaint(w)' <=> SitsMaint(w)
    BY <1>1 DEF SitsMaint, Pending
  <1>6. CASE MustSleep(call[t].op)
    <2>1. /\ tpc' = [tpc EXCEPT ![t] = "pause_sleep"] /\ call' = [call EXCEPT ![t] = call[t]]
          /\ UNCHANGED <<m_pause_requested, m_maint_proc>>
      BY <1>6 DEF RequestChecks, GoesOn
    <2>2. call' = call /\ \A u \in Callers : InPause(u)' <=> InPause(u)
      BY <1>1, <2>1 DEF InPause, RoundInv, Inv, TypeOK
    <2>3. /\ \A u \in Callers, op \in {"pause", "maintenance"} : InCall(u, op)' <=> InCall(u, op)
          /\ Maintained' <=> Maintained
      BY <1>1, <2>2 DEF InCall, Maintained
    <2>4. PauseComes' <=> PauseComes
      BY <1>1, <2>1, <2>3 DEF PauseComes, Fresh
    <2>5. PauseRounds'
      BY <1>1, <1>4, <2>1, <2>3, <2>4 DEF RoundInv, PauseRounds, Quiet
    <2>6. MaintenanceRounds'
      BY <1>1, <1>5, <2>1, <2>3 DEF RoundInv, MaintenanceRounds
    <2>7. Masters' /\ Stylish'
      BY <1>1, <2>2, <2>3 DEF RoundInv, Masters, Stylish
    <2> QED BY <2>5, <2>6, <2>7 DEF Rounds
  <1>7. CASE ~MustSleep(call[t].op)
    <2>1. call[t].op = "maintenance" => m_status = "STARTED"
      BY <1>3, <1>7 DEF MustSleep
    <2>2. Returns(t) /\ UNCHANGED <<m_pause_requested, m_maint_proc>>
      BY <1>3, <1>7, <2>1 DEF RequestChecks, RequestMet
    <2>3. \A u \in Callers : ~InPause(u)'
      BY <1>2, <2>2 DEF Returns, InPause, RoundInv, Inv, TypeOK
    <2>4. ~Maintained /\ ~m_maint_proc
      BY <1>3, <1>7 DEF MustSleep, RoundInv, MaintenanceRounds, Maintained
    <2>5. CASE call[t].op = "pause"
      <3>1. m_status = "PAUSED" /\ Quiet
        BY <1>7, <2>5 DEF MustSleep, RoundInv, PauseRounds
      <3>2. PauseRounds'
        BY <1>1, <1>4, <2>2, <3>1 DEF RoundInv, PauseRounds, Quiet, PauseComes
      <3> QED BY <1>1, <2>2, <2>3, <2>4, <3>2
          DEF Rounds, RoundInv, Masters, MaintenanceRounds, Stylish, InCall, Maintained
    <2>6. CASE call[t].op = "maintenance"
      <3>1. \A u \in Callers : ~InCall(u, "pause")
        BY <1>2, <2>6 DEF InCall
      <3>2. ~PauseComes
        BY <1>3, <2>6, <3>1 DEF PauseComes
      <3>3. m_pause_requested => Quiet
        BY <1>3, <2>4, <2>6, <3>1 DEF RoundInv, PauseRounds
      <3>4. PauseRounds'
        BY <1>1, <1>4, <2>2, <3>2, <3>3 DEF RoundInv, PauseRounds, Quiet
      <3> QED BY <1>1, <2>2, <2>3, <2>4, <3>4
          DEF Rounds, RoundInv, Masters, MaintenanceRounds, Stylish, InCall, Maintained
    <2> QED BY <1>3, <2>5, <2>6
  <1> QED BY <1>6, <1>7

\* A start goes on: nothing has been requested yet.
LEMMA StartWorkerRounds ==
    ASSUME RoundInv, NEW t \in Callers, StartWorker(t)
    PROVE  Rounds'
  <1>1. /\ tpc[t] = "starting" /\ Fresh /\ call[t].i \in Workers
    BY DEF StartWorker, RoundInv, Inv, Places
  <1>2. ~m_pause_requested /\ \A w \in Workers : Nowhere(w)
    BY <1>1 DEF RoundInv, Inv, Early, Nowhere, Pending
  <1>3. wpc' = [wpc EXCEPT ![call[t].i] = "gala"]
    BY DEF StartWorker, WAt
  <1>4. \A w \in Workers : Nowhere(w)'
    BY <1>2, <1>3 DEF StartWorker, Nowhere, Pending, RoundInv, Inv, TypeOK
  <1>5. CallerSteps(t) /\ ~InPause(t)'
    <2>1. Returns(t) \/ GoesOn(t, "starting", [call[t] EXCEPT !.i = call[t].i + 1])
      BY DEF StartWorker
    <2>2. [call[t] EXCEPT !.i = call[t].i + 1] \in CallType
      <3>1. call[t] \in CallType /\ call[t].i + 1 \in 0 .. N + 1
        BY <1>1, Constants DEF RoundInv, Inv, TypeOK, CallType
      <3> QED BY <3>1, CallInType
    <2>3. CallerSteps(t)
      BY <1>1, <2>1, <2>2 DEF CallerSteps, Steps, CallerPlaces
    <2> QED BY <2>1, <2>3 DEF Returns, GoesOn, InPause, RoundInv, Inv, TypeOK
  <1>6. ~m_maint_proc /\ m_status' \notin {"PAUSED", "MAINTENANCE_REQUESTED"}
    BY <1>1 DEF StartWorker, Fresh, RoundInv, MaintenanceRounds, Maintained
  <1> QED BY <1>2, <1>4, <1>5, <1>6, NoRound DEF StartWorker, history

\* The steps of the callers that leave the workers where they are and request nothing.
LEMMA OtherCallsRounds ==
    ASSUME Patient, RoundInv, NEW t \in Callers,
           \/ Setup(t) \/ Start(t) \/ Cancel(t) \/ Destroy(t) \/ StartFailed(t) \/ StartUndone(t)
           \/ Destroyed(t) \/ WaitOne(t) \/ WaitTimesOut(t) \/ WaitEnds(t)
           \/ \E limit \in WaitLimits : Wait(t, limit)
           \/ PauseTimesOut(t) \/ CallerCanceled(t)
    PROVE  Rounds'
  <1> DEFINE Same == UNCHANGED <<m_pause_requested, m_maint_proc, n_maintained, style, wpc, is_master>>
             Tells == /\ m_status' = m_status \/ m_status' \notin {"PAUSED", "MAINTENANCE_REQUESTED"}
                      /\ Fresh' => Fresh
             Quits == ~InPause(t) \/ "maintenance" \notin style
  <1>1. TypeOK /\ Places /\ m_maint_proc \in BOOLEAN /\ style \in Styles
    BY DEF RoundInv, Inv, TypeOK
  <1>2. ASSUME \/ Steps(t, CallerPlaces \ {"idle", "pre_pause", "pause_sleep"}, CallType)
               \/ UNCHANGED caller /\ ~InPause(t),
               tpc[t] # "idle" \/ Free(t), Same, Tells, Quits
        PROVE  Rounds'
    <2>1. ~InPause(t)'
      BY <1>1, <1>2 DEF Steps, Returns, GoesOn, InPause, TypeOK, caller
    <2>2. CallerSteps(t)
      BY <1>2 DEF CallerSteps, Steps, Free
    <2> QED BY <1>2, <2>1, <2>2, QuietCallRounds
  <1>3. \A timed \in BOOLEAN :
           /\ [op |-> "start", timed |-> FALSE, i |-> 1] \in CallType
           /\ [op |-> "wait", timed |-> timed, i |-> 1] \in CallType
           /\ [op |-> "destroy", timed |-> FALSE, i |-> 0] \in CallType
    BY Constants DEF CallType
  <1>4. CASE Setup(t)
    BY <1>2, <1>4 DEF Setup, Steps, Fresh, Free, InPause, history
  <1>5. CASE Start(t)
    <2>1. Fresh /\ ~m_maint_proc
      BY <1>1, <1>5 DEF Start, Fresh, TypeOK, RoundInv, MaintenanceRounds, Maintained
    <2>2. Same
      BY <1>1, <1>5, <2>1 DEF Start, history
    <2>3. Steps(t, CallerPlaces \ {"idle", "pre_pause", "pause_sleep"}, CallType)
      BY <1>3, <1>5 DEF Start, Steps, CallerPlaces
    <2> QED BY <1>2, <1>5, <2>1, <2>2, <2>3 DEF Start, Free, InPause, Fresh
  <1>6. CASE Cancel(t)
    BY <1>2, <1>6 DEF Cancel, Steps, Fresh, Free, InPause, history
  <1>7. CASE Destroy(t)
    <2>1. Steps(t, CallerPlaces \ {"idle", "pre_pause", "pause_sleep"}, CallType)
      BY <1>3, <1>7 DEF Destroy, Steps, CallerPlaces
    <2> QED BY <1>2, <1>7, <2>1 DEF Destroy, Fresh, Free, InPause, history
  <1>8. CASE StartFailed(t)
    <2>1. Steps(t, CallerPlaces \ {"idle", "pre_pause", "pause_sleep"}, CallType)
      BY <1>1, <1>8 DEF StartFailed, Steps, CallerPlaces, TypeOK, CallType
    <2> QED BY <1>2, <1>8, <2>1 DEF StartFailed, Fresh, InPause, history
  <1>9. CASE StartUndone(t)
    BY <1>2, <1>9 DEF StartUndone, Steps, Fresh, InPause, flags, history
  <1>10. CASE Destroyed(t)
    BY <1>2, <1>10 DEF Destroyed, Steps, Fresh, InPause, flags
  <1>11. CASE WaitOne(t)
    <2>1. PICK next \in {call[t].i + 1, N + 1} : GoesOn(t, "waiting", [call[t] EXCEPT !.i = next])
      BY <1>11 DEF WaitOne
    <2>2. [call[t] EXCEPT !.i = next] \in CallType
      <3>1. call[t] \in CallType /\ next \in 0 .. N + 1
        BY <1>1, <1>11, Constants DEF WaitOne, TypeOK, CallType
      <3> QED BY <3>1, CallInType
    <2>3. Steps(t, CallerPlaces \ {"idle", "pre_pause", "pause_sleep"}, CallType)
      BY <2>1, <2>2 DEF Steps, CallerPlaces
    <2> QED BY <1>2, <1>11, <2>3 DEF WaitOne, Fresh, InPause, flags, history
  <1>12. CASE WaitTimesOut(t)
    BY <1>2, <1>12 DEF WaitTimesOut, Steps, Fresh, InPause, flags, history
  <1>13. CASE WaitEnds(t)
    <2>1. Returns(t) \/ UNCHANGED caller
      BY <1>13 DEF WaitEnds
    <2>2. m_status' \in {m_status, "CANCELED", "SHUTDOWN"}
      BY <1>13 DEF WaitEnds
    <2> QED BY <1>2, <1>13, <2>1, <2>2 DEF WaitEnds, Steps, Fresh, InPause
  <1>14. ASSUME NEW limit \in WaitLimits, Wait(t, limit)
         PROVE  Rounds'
    <2>1. (limit = "timed") \in BOOLEAN
      OBVIOUS
    <2>2. Steps(t, CallerPlaces \ {"idle", "pre_pause", "pause_sleep"}, CallType)
      BY <1>3, <1>14, <2>1 DEF Wait, Steps, CallerPlaces
    <2> QED BY <1>2, <1>14, <2>2 DEF Wait, Fresh, Free, InPause, flags, history
  <1>15. CASE PauseTimesOut(t)
    <2>1. InPause(t) /\ call[t].timed
      BY <1>15 DEF PauseTimesOut, InPause
    <2>2. "pause_timed" \in style
      BY <1>1, <2>1 DEF RoundInv, Stylish, InCall, InPause, Places
    <2>3. Quits
      BY <1>1, <2>2 DEF Patient
    <2> QED BY <1>2, <1>15, <2>3 DEF PauseTimesOut, Steps, Fresh, flags, history
  <1>16. CASE CallerCanceled(t)
    <2>1. Quits
      BY <1>1, <1>16 DEF Patient, CallerCanceled
    <2> QED BY <1>2, <1>16, <2>1 DEF CallerCanceled, Steps, Fresh, flags, history
  <1> QED BY <1>4, <1>5, <1>6, <1>7, <1>8, <1>9, <1>10, <1>11, <1>12, <1>13, <1>14, <1>15, <1>16

\* The calls that end a pause: nobody is on the way to the barrier, and all have sat down.
LEMMA ResumeRounds ==
    ASSUME RoundInv, NEW t \in Callers,
           Resume(t) \/ \E lvl \in {"RIGHT_NOW", "GRACEFULLY"} : Shutdown(t, lvl)
    PROVE  Rounds'
  <1>1. /\ Free(t) /\ Returns(t) /\ m_status \in {"STARTED", "PAUSED"} /\ m_status' = "STARTED"
        /\ m_status = "PAUSED" => ~m_pause_requested'
        /\ m_status = "STARTED" => UNCHANGED m_pause_requested
        /\ UNCHANGED <<m_maint_proc, n_maintained, style, wpc, is_master>>
    BY DEF Resume, Shutdown, s_resume_stage, history
  <1>2. CallerSteps(t) /\ ~InPause(t) /\ ~InPause(t)'
    BY <1>1 DEF CallerSteps, Steps, Returns, Free, InPause, RoundInv, Inv, TypeOK
  <1>3. CASE m_status = "PAUSED"
    <2>1. Quiet /\ ~m_maint_proc
      BY <1>3 DEF RoundInv, PauseRounds, MaintenanceRounds, Maintained
    <2>2. \A w \in Workers : Nowhere(w)'
      BY <1>1, <2>1 DEF Quiet, SitsPause, Nowhere, Pending
    <2> QED BY <1>1, <1>2, <1>3, <2>1, <2>2, NoRound
  <1>4. CASE m_status = "STARTED"
    BY <1>1, <1>2, <1>4, QuietCallRounds DEF Fresh
  <1> QED BY <1>1, <1>3, <1>4

LEMMA RoundStep == Patient => (RoundInv /\ [Next]_vars => RoundInv')
  <1> SUFFICES ASSUME Patient, RoundInv, [Next]_vars PROVE RoundInv'
    OBVIOUS
  <1>1. Inv'
    BY NextInv DEF RoundInv
  <1>2. ASSUME NEW w \in Workers, WorkerRuns(w) \/ CancelStrikes(w)
        PROVE  Rounds'
    BY <1>2, WorkersRounds
  <1>3. BarrierOpens => Rounds'
    BY BarrierRounds
  <1>4. ASSUME NEW t \in Callers,
               CallerRuns(t) \/ Calls(t) \/ StartFailed(t) \/ PauseTimesOut(t) \/ WaitTimesOut(t)
               \/ CallerCanceled(t)
        PROVE  Rounds'
    BY <1>4, OtherCallsRounds, ResumeRounds, PauseCallRounds, RequestChecksRounds, StartWorkerRounds
       DEF CallerRuns, Calls
  <1>5. ASSUME SetGlobalState \/ UNCHANGED vars
        PROVE  Rounds'
    <2>1. UNCHANGED <<RoundVars, wpc, is_master, tpc, call>>
      BY <1>5 DEF SetGlobalState, vars, flags, caller, history, RoundVars
    <2>2. Rounds <=> Rounds'
      BY <2>1 DEF RoundVars, Rounds, Masters, PauseRounds, MaintenanceRounds, Stylish, PauseComes, Quiet,
                  SitsPause, SitsMaint, Pending, Maintained, InCall, InPause, Fresh
    <2> QED BY <2>2 DEF RoundInv, Rounds
  <1>6. Rounds'
    BY <1>2, <1>3, <1>4, <1>5 DEF Next
  <1> QED BY <1>1, <1>6 DEF RoundInv, Rounds

LEMMA RoundsIdle == RoundInv => WorkersIdle
  <1> SUFFICES ASSUME RoundInv PROVE WorkersIdle
    OBVIOUS
  <1>1. PausedIsIdle
    BY DEF PausedIsIdle, RoundInv, PauseRounds, Quiet, SitsPause
  <1>2. ASSUME NEW w \in Workers, wpc[w] = "maintaining", NEW v \in Workers \ {w}
        PROVE  wpc[v] \notin {"work", "maintaining"}
    <2>1. SitsMaint(v) \/ wpc[v] = "maintaining"
      BY <1>2 DEF RoundInv, MaintenanceRounds
    <2>2. wpc[v] # "maintaining"
      BY <1>2 DEF RoundInv, MaintenanceRounds, Masters
    <2> QED BY <2>1, <2>2 DEF SitsMaint
  <1>3. n_maintained <= 1
    BY DEF RoundInv, MaintenanceRounds
  <1> QED BY <1>1, <1>2, <1>3 DEF WorkersIdle, MaintenanceAlone

LEMMA InitRounds == Init => RoundInv
  <1> SUFFICES ASSUME Init PROVE RoundInv
    OBVIOUS
  <1>1. Masters /\ PauseRounds /\ MaintenanceRounds /\ Stylish
    BY DEF Init, InitStage, Masters, PauseRounds, MaintenanceRounds, Stylish, Maintained, InCall, InPause
  <1> QED BY <1>1, InitInv DEF RoundInv

\* Whoever pauses the stage, or maintains it, finds no worker at work, and the maintenance procedure
\* runs once for a request, for any number of workers and callers: as long as those that schedule
\* maintenances neither limit the time of their pauses nor are cancelled while they sleep
\* (s_worker_pause, s_worker_maintenance, gallus_pipeline_stage_pause).
THEOREM IdleCorrect == Patient => (Spec => []WorkersIdle)
  <1> SUFFICES ASSUME Patient PROVE Spec => []WorkersIdle
    OBVIOUS
  <1> QED BY InitRounds, RoundStep, RoundsIdle, PTL DEF Spec

-----------------------------------------------------------------------------
(* The abstract stage.                                                     *)

Busy == {w \in Workers : wpc[w] = "work"}
StageInv == RoundInv /\ EndInv

\* What the stage is, in each of the cases that there are.
PhaseIs ==
    /\ Over => phase = "over"
    /\ ~Over /\ Closing /\ SomeAlive => phase = "closing"
    /\ ~Over /\ Closing /\ ~SomeAlive => phase = "over"
    /\ Open /\ m_status \in {"STARTED", "MAINTENANCE_REQUESTED"} => phase = "running"
    /\ Open /\ m_status = "PAUSED" => phase = "paused"
    /\ Open /\ m_status \in {"INITIALIZED", "SETUP"} => phase = "stopped"

LEMMA PhaseNow == PhaseIs /\ PhaseIs'
  BY DEF PhaseIs, phase, Open

\* An open stage runs, is paused or is stopped.
LEMMA OpenStatus ==
    ASSUME Inv, Open
    PROVE  m_status \in {"STARTED", "MAINTENANCE_REQUESTED", "PAUSED", "INITIALIZED", "SETUP"}
  BY DEF Inv, TypeOK, Open, Over, Closing

LEMMA PhaseStays ==
    ASSUME Inv, Over' <=> Over, Closing' <=> Closing, Closing => (SomeAlive' <=> SomeAlive),
           \/ m_status' = m_status
           \/ {m_status, m_status'} \subseteq {"STARTED", "MAINTENANCE_REQUESTED"}
           \/ {m_status, m_status'} \subseteq {"INITIALIZED", "SETUP"}
           \/ Closing
    PROVE  phase' = phase
  <1>1. Open' <=> Open
    BY DEF Open
  <1>2. CASE Over
    BY <1>2, PhaseNow DEF PhaseIs
  <1>3. CASE ~Over /\ Closing
    BY <1>3, PhaseNow DEF PhaseIs
  <1>4. CASE Open
    <2>1. m_status \in {"STARTED", "MAINTENANCE_REQUESTED", "PAUSED", "INITIALIZED", "SETUP"}
      BY <1>4, OpenStatus
    <2> QED BY <1>1, <1>4, <2>1, PhaseNow DEF PhaseIs, Open
  <1> QED BY <1>2, <1>3, <1>4 DEF Open

\* A worker that is there keeps the stage from being over.
LEMMA AliveOpen ==
    ASSUME StageInv, NEW w \in Workers, Alive(w)
    PROVE  /\ ~Over /\ SomeAlive
           /\ phase \in {"stopped", "running", "paused", "closing"}
           /\ phase = "paused" => m_pause_requested /\ Quiet
  <1>1. ~Over /\ SomeAlive
    BY DEF StageInv, EndInv, FinalAfterAll, SomeAlive
  <1>2. CASE Closing
    BY <1>1, <1>2, PhaseNow DEF PhaseIs
  <1>3. CASE Open
    <2>1. m_status \in {"STARTED", "MAINTENANCE_REQUESTED", "PAUSED", "INITIALIZED", "SETUP"}
      BY <1>3, OpenStatus DEF StageInv, RoundInv
    <2>2. m_status = "PAUSED" => m_pause_requested /\ Quiet
      BY DEF StageInv, RoundInv, PauseRounds
    <2> QED BY <1>1, <1>3, <2>1, <2>2, PhaseNow DEF PhaseIs
  <1> QED BY <1>1, <1>2, <1>3 DEF Open

\* A worker in its loop: it enters, it leaves, or nobody sees it.
LEMMA LoopImplements ==
    ASSUME StageInv, NEW w \in Workers, NEW place \in WorkerPlaces,
           Alive(w), place \notin {"unborn", "ended"},
           wpc' = [wpc EXCEPT ![w] = place],
           UNCHANGED <<tpc, destroyed>>,
           m_status' = m_status \/ {m_status, m_status'} \subseteq {"STARTED", "MAINTENANCE_REQUESTED"},
           place = "work" => wpc[w] = "test" /\ ~m_pause_requested
    PROVE  [Abstract!Next]_(Abstract!vars)
  <1>1. wpc'[w] = place /\ \A v \in Workers \ {w} : wpc'[v] = wpc[v]
    BY DEF StageInv, RoundInv, Inv, TypeOK
  <1>2. SomeAlive' /\ SomeAlive
    BY <1>1 DEF SomeAlive, Alive
  <1>3. phase' = phase
    <2>1. (Over' <=> Over) /\ (Closing' <=> Closing)
      BY DEF Over, Closing
    <2> QED BY <1>2, <2>1, PhaseStays DEF StageInv, RoundInv
  <1>4. CASE place = "work"
    <2>1. phase \in {"stopped", "running", "closing"}
      BY <1>4, AliveOpen
    <2>2. Busy' = Busy \cup {w} /\ w \notin Busy
      BY <1>1, <1>4 DEF Busy
    <2> QED BY <1>3, <2>1, <2>2 DEF Abstract!Next, Abstract!Enter, Busy
  <1>5. CASE place # "work" /\ wpc[w] = "work"
    <2>1. Busy' = Busy \ {w} /\ w \in Busy
      BY <1>1, <1>5 DEF Busy
    <2> QED BY <1>3, <2>1 DEF Abstract!Next, Abstract!Leave, Busy
  <1>6. CASE place # "work" /\ wpc[w] # "work"
    <2>1. Busy' = Busy
      BY <1>1, <1>6 DEF Busy
    <2> QED BY <1>3, <2>1 DEF Abstract!vars, Busy
  <1> QED BY <1>4, <1>5, <1>6

\* The master that tells the pauser: nobody works, and the stage is paused unless it is closing.
LEMMA MasterImplements ==
    ASSUME StageInv, NEW w \in Workers, PauseSleeps(w), wpc[w] = "passed_pause", is_master[w]
    PROVE  [Abstract!Next]_(Abstract!vars)
  <1>1. PauseComes /\ \A v \in Workers \ {w} : SitsPause(v)
    BY DEF StageInv, RoundInv, PauseRounds
  <1>2. /\ wpc'[w] = "resume_sleep" /\ \A v \in Workers \ {w} : wpc'[v] = wpc[v]
        /\ m_status' = "PAUSED" /\ UNCHANGED <<tpc, destroyed>>
    BY <1>1 DEF PauseSleeps, WAt, PauseComes, StageInv, RoundInv, Inv, TypeOK, caller, history
  <1>3. SomeAlive /\ SomeAlive' /\ ~Over /\ ~Over'
    BY <1>2, AliveOpen DEF SomeAlive, Alive, Over
  <1>4. Busy = {} /\ Busy' = {}
    BY <1>1, <1>2 DEF Busy, SitsPause
  <1>5. Closing' <=> Closing
    BY <1>2, <1>3 DEF Closing, Over, StageInv, RoundInv, Inv, Crew
  <1>6. CASE Closing
    <2>1. phase' = phase
      BY <1>3, <1>5, <1>6, PhaseNow DEF PhaseIs
    <2> QED BY <1>4, <2>1 DEF Abstract!vars, Busy
  <1>7. CASE ~Closing
    <2>1. m_status = "STARTED"
      BY <1>1, <1>3, <1>7, OpenStatus DEF PauseComes, Maintained, Fresh, Open, StageInv, RoundInv
    <2>2. phase = "running" /\ phase' = "paused"
      BY <1>2, <1>3, <1>5, <1>7, <2>1, PhaseNow DEF PhaseIs, Open
    <2> QED BY <1>4, <2>2 DEF Abstract!Next, Abstract!Pause, Busy
  <1> QED BY <1>6, <1>7

\* The last worker that leaves a stage that closes ends it.
LEMMA FinalizeImplements ==
    ASSUME StageInv, NEW w \in Workers, Finalize(w)
    PROVE  [Abstract!Next]_(Abstract!vars)
  <1>1. /\ wpc[w] = "ending" /\ wpc'[w] = "ended" /\ \A v \in Workers \ {w} : wpc'[v] = wpc[v]
        /\ UNCHANGED <<m_status, tpc, destroyed>>
    BY DEF Finalize, WAt, StageInv, RoundInv, Inv, TypeOK, flags, caller, history
  <1>2. Busy' = Busy
    BY <1>1 DEF Busy
  <1>3. /\ Over' <=> Over
        /\ Closing' <=> Closing
    BY <1>1 DEF Over, Closing
  <1>4. SomeAlive /\ ~Over
    BY <1>1, AliveOpen DEF Alive
  <1>5. CASE ~Closing \/ SomeAlive'
    <2>1. phase' = phase
      BY <1>1, <1>3, <1>4, <1>5, PhaseStays DEF StageInv, RoundInv
    <2> QED BY <1>2, <2>1 DEF Abstract!vars, Busy
  <1>6. CASE Closing /\ ~SomeAlive'
    <2>1. phase = "closing" /\ phase' = "over"
      BY <1>3, <1>4, <1>6, PhaseNow DEF PhaseIs
    <2>2. Busy = {}
      BY <1>1, <1>6 DEF Busy, SomeAlive, Alive
    <2> QED BY <1>2, <2>1, <2>2 DEF Abstract!Next, Abstract!End, Busy
  <1> QED BY <1>5, <1>6

LEMMA WorkersImplement ==
    ASSUME StageInv, NEW w \in Workers, WorkerRuns(w) \/ CancelStrikes(w)
    PROVE  [Abstract!Next]_(Abstract!vars)
  <1>1. CASE GalaOpens(w) \/ Loop(w) \/ Work(w) \/ MaintenanceSleeps(w) \/ CancelStrikes(w)
             \/ MaintenanceBegins(w)
    <2>1. Alive(w) /\ UNCHANGED <<m_status, tpc, destroyed>>
      BY <1>1 DEF GalaOpens, Loop, Work, MaintenanceSleeps, CancelStrikes, MaintenanceBegins, Alive,
                  flags, caller, history
    <2>2. PICK place \in {"loop", "test", "ending", "maint_sleep", "maintaining"} :
            wpc' = [wpc EXCEPT ![w] = place]
      BY <1>1 DEF GalaOpens, Loop, Work, MaintenanceSleeps, CancelStrikes, MaintenanceBegins, WAt
    <2>3. place \in WorkerPlaces
      BY DEF WorkerPlaces
    <2> QED BY <2>1, <2>2, <2>3, LoopImplements
  <1>2. CASE Test(w)
    <2>1. wpc[w] = "test" /\ Alive(w) /\ UNCHANGED <<m_status, tpc, destroyed>>
      BY <1>2 DEF Test, Alive, flags, caller, history
    <2>2. PICK place \in {"work", "barrier_maint", "barrier_pause"} :
            wpc' = [wpc EXCEPT ![w] = place] /\ (place = "work" => ~m_pause_requested)
      BY <1>2 DEF Test, WAt, Obeys
    <2>3. place \in WorkerPlaces
      BY DEF WorkerPlaces
    <2> QED BY <2>1, <2>2, <2>3, LoopImplements
  <1>3. CASE PauseSleeps(w)
    <2>1. CASE ~(wpc[w] = "passed_pause" /\ is_master[w])
      <3>1. Alive(w) /\ UNCHANGED <<m_status, tpc, destroyed>>
        BY <1>3, <2>1 DEF PauseSleeps, Alive, caller, history
      <3>2. PICK place \in {"resume_sleep", "loop"} : wpc' = [wpc EXCEPT ![w] = place]
        BY <1>3 DEF PauseSleeps, WAt
      <3>3. place \in WorkerPlaces
        BY DEF WorkerPlaces
      <3> QED BY <3>1, <3>2, <3>3, LoopImplements
    <2> QED BY <1>3, <2>1, MasterImplements
  <1>4. CASE MaintenanceEnds(w)
    <2>1. Alive(w) /\ wpc' = [wpc EXCEPT ![w] = "loop"] /\ UNCHANGED <<tpc, destroyed>>
      BY <1>4 DEF MaintenanceEnds, Alive, WAt, caller, history
    <2>2. m_status = "MAINTENANCE_REQUESTED" /\ m_status' = "STARTED"
      BY <1>4 DEF MaintenanceEnds, StageInv, RoundInv, MaintenanceRounds, Maintained
    <2>3. "loop" \in WorkerPlaces
      BY DEF WorkerPlaces
    <2> QED BY <2>1, <2>2, <2>3, LoopImplements
  <1> QED BY <1>1, <1>2, <1>3, <1>4, FinalizeImplements DEF WorkerRuns

\* The barrier and the main loop: no user of the stage sees them.
LEMMA UnseenImplement ==
    ASSUME StageInv, BarrierOpens \/ SetGlobalState \/ UNCHANGED vars
    PROVE  [Abstract!Next]_(Abstract!vars)
  <1>1. UNCHANGED <<m_status, tpc, destroyed>>
    BY DEF BarrierOpens, SetGlobalState, vars, flags, caller, history
  <1>2. /\ Over' <=> Over
        /\ Closing' <=> Closing
    BY <1>1 DEF Over, Closing
  <1>3. \A w \in Workers : /\ wpc'[w] = "work" <=> wpc[w] = "work"
                           /\ Alive(w)' <=> Alive(w)
    BY DEF BarrierOpens, BarrierFull, Barrier, SetGlobalState, vars, Alive
  <1>4. phase' = phase
    BY <1>1, <1>2, <1>3, PhaseStays DEF SomeAlive, StageInv, RoundInv
  <1> QED BY <1>3, <1>4 DEF Abstract!vars

\* A call in which no worker moves, the stage stays what it is, and nobody begins to destroy it.
LEMMA CallUnseen ==
    ASSUME StageInv, NEW t \in Callers,
           Returns(t) \/ UNCHANGED caller \/ \E c : \E place \in CallerPlaces : GoesOn(t, place, c),
           tpc[t] # "destroying", tpc'[t] # "destroying",
           UNCHANGED <<wpc, destroyed>>,
           \/ m_status' = m_status
           \/ {m_status, m_status'} \subseteq {"STARTED", "MAINTENANCE_REQUESTED"}
           \/ {m_status, m_status'} \subseteq {"INITIALIZED", "SETUP"}
    PROVE  [Abstract!Next]_(Abstract!vars)
  <1>1. Closing' <=> Closing
    BY DEF Closing, Returns, GoesOn, caller, StageInv, RoundInv, Inv, TypeOK
  <1>2. /\ Over' <=> Over
        /\ SomeAlive' <=> SomeAlive
    BY DEF Over, SomeAlive, Alive
  <1>3. phase' = phase
    BY <1>1, <1>2, PhaseStays DEF StageInv, RoundInv
  <1> QED BY <1>3 DEF Abstract!vars

\* Whoever has m_lock, or takes it, finds nobody else inside a call.
LEMMA CallerSeesOpen ==
    ASSUME StageInv, NEW t \in Callers, Free(t) \/ tpc[t] \notin {"idle", "destroying"}
    PROVE  ~Closing /\ ~destroyed
  <1>1. ~destroyed
    BY DEF Free, StageInv, RoundInv, Inv, Places
  <1>2. \A u \in Callers : tpc[u] # "destroying"
    BY Constants DEF Free, StageInv, RoundInv, Inv, Locked
  <1> QED BY <1>1, <1>2 DEF Closing, StageInv, RoundInv, Inv, Crew

LEMMA CallsImplement ==
    ASSUME StageInv, NEW t \in Callers,
           \/ Setup(t) \/ Start(t) \/ StartFailed(t) \/ StartUndone(t) \/ Cancel(t) \/ Maintain(t)
           \/ \E timed \in BOOLEAN : Pause(t, timed)
           \/ RequestChecks(t) \/ PauseTimesOut(t) \/ CallerCanceled(t)
           \/ \E limit \in WaitLimits : Wait(t, limit)
           \/ WaitOne(t) \/ WaitTimesOut(t)
    PROVE  [Abstract!Next]_(Abstract!vars)
  <1> USE DEF CallerPlaces, Free, Returns, GoesOn, flags, history, StageInv, RoundInv, Inv, TypeOK
  <1>1. CASE Setup(t) \/ Start(t)
    BY <1>1, CallUnseen DEF Setup, Start
  <1>2. CASE StartFailed(t) \/ StartUndone(t)
    BY <1>2, CallUnseen DEF StartFailed, StartUndone
  <1>3. CASE Cancel(t) \/ Maintain(t)
    BY <1>3, CallUnseen DEF Cancel, Maintain
  <1>4. ASSUME NEW timed \in BOOLEAN, Pause(t, timed)
        PROVE  [Abstract!Next]_(Abstract!vars)
    BY <1>4, CallUnseen DEF Pause
  <1>5. CASE RequestChecks(t)
    BY <1>5, CallUnseen DEF RequestChecks
  <1>6. CASE PauseTimesOut(t) \/ CallerCanceled(t)
    BY <1>6, CallUnseen DEF PauseTimesOut, CallerCanceled
  <1>7. ASSUME NEW limit \in WaitLimits, Wait(t, limit)
        PROVE  [Abstract!Next]_(Abstract!vars)
    BY <1>7, CallUnseen DEF Wait
  <1>8. CASE WaitOne(t)
    BY <1>8, CallUnseen DEF WaitOne
  <1>9. CASE WaitTimesOut(t)
    BY <1>9, CallUnseen DEF WaitTimesOut
  <1> QED BY <1>1, <1>2, <1>3, <1>4, <1>5, <1>6, <1>7, <1>8, <1>9

\* With the last worker the stage runs.
LEMMA StartWorkerImplements ==
    ASSUME StageInv, NEW t \in Callers, StartWorker(t)
    PROVE  [Abstract!Next]_(Abstract!vars)
  <1>1. /\ tpc[t] = "starting" /\ Fresh /\ call[t].i \in Workers
        /\ ~Closing /\ ~destroyed /\ ~destroyed'
        /\ \A u \in Callers \ {t} : tpc[u] = "idle"
    BY CallerSeesOpen DEF StartWorker, StageInv, RoundInv, Inv, Places, Locked, history
  <1>2. ~Alive(call[t].i)
    <2>1. ~(call[t].i < call[t].i)
      BY <1>1, Constants
    <2>2. ~Begun(call[t].i)
      BY <1>1, <2>1 DEF Begun, InStart
    <2> QED BY <1>1, <2>2 DEF StageInv, RoundInv, Inv, Crew
  <1>3. Busy' = Busy
    BY <1>1, <1>2 DEF StartWorker, WAt, Busy, Alive, StageInv, RoundInv, Inv, TypeOK
  <1>4. phase = "stopped"
    BY <1>1, PhaseNow DEF PhaseIs, Open, Over, Fresh
  <1>5. \A u \in Callers : tpc'[u] # "destroying"
    BY <1>1 DEF StartWorker, Returns, GoesOn, StageInv, RoundInv, Inv, TypeOK
  <1>6. m_status' = m_status \/ m_status' = "STARTED"
    BY DEF StartWorker
  <1>7. Open'
    BY <1>1, <1>5, <1>6 DEF Open, Over, Closing, Fresh
  <1>8. phase' \in {"stopped", "running"}
    BY <1>1, <1>6, <1>7, PhaseNow DEF PhaseIs, Fresh
  <1> QED BY <1>3, <1>4, <1>8 DEF Abstract!Next, Abstract!Start, Abstract!vars, Busy

LEMMA ResumeImplements ==
    ASSUME StageInv, NEW t \in Callers,
           Resume(t) \/ \E lvl \in {"RIGHT_NOW", "GRACEFULLY"} : Shutdown(t, lvl)
    PROVE  [Abstract!Next]_(Abstract!vars)
  <1>1. /\ Free(t) /\ Returns(t) /\ m_status \in {"STARTED", "PAUSED"} /\ m_status' = "STARTED"
        /\ UNCHANGED <<wpc, destroyed>>
    BY DEF Resume, Shutdown, history
  <1>2. ~Closing /\ ~destroyed
    BY <1>1, CallerSeesOpen
  <1>3. ~Closing'
    BY <1>1, <1>2 DEF Closing, Returns, StageInv, RoundInv, Inv, TypeOK
  <1>4. Open /\ Open'
    BY <1>1, <1>2, <1>3 DEF Open, Over
  <1>5. phase \in {"running", "paused"} /\ phase' = "running"
    BY <1>1, <1>4, PhaseNow DEF PhaseIs
  <1> QED BY <1>1, <1>5 DEF Abstract!Next, Abstract!Resume, Abstract!vars

LEMMA WaitEndsImplements ==
    ASSUME StageInv, StageInv', NEW t \in Callers, WaitEnds(t)
    PROVE  [Abstract!Next]_(Abstract!vars)
  <1>1. /\ tpc[t] = "waiting" /\ UNCHANGED <<wpc, destroyed>>
    BY DEF WaitEnds
  <1>2. CASE m_n_shutdown_workers # N
    BY <1>1, <1>2, CallUnseen DEF WaitEnds, caller
  <1>3. CASE m_n_shutdown_workers = N
    <2>1. Open
      BY <1>1, CallerSeesOpen DEF StageInv, RoundInv, Inv, Places, Open
    <2>2. phase # "over"
      BY <2>1, OpenStatus, PhaseNow DEF PhaseIs, StageInv, RoundInv
    <2>3. Over'
      BY <1>3 DEF WaitEnds, Over
    <2>4. phase' = "over"
      BY <2>3, PhaseNow DEF PhaseIs
    <2>5. Busy = {}
      BY <1>1, <2>3 DEF StageInv, EndInv, FinalAfterAll, Alive, Busy
    <2> QED BY <1>1, <2>2, <2>4, <2>5 DEF Abstract!Next, Abstract!End, Busy
  <1> QED BY <1>2, <1>3

LEMMA DestroyImplements ==
    ASSUME StageInv, NEW t \in Callers, Destroy(t) \/ Destroyed(t)
    PROVE  [Abstract!Next]_(Abstract!vars)
  <1>1. CASE Destroy(t)
    <2>1. /\ Free(t) /\ m_status' = "DESTROYING" /\ UNCHANGED <<wpc, destroyed>> /\ ~destroyed
          /\ tpc'[t] = "destroying"
      BY <1>1 DEF Destroy, Free, GoesOn, history, StageInv, RoundInv, Inv, TypeOK
    <2>2. ~Over' /\ Closing' /\ (SomeAlive' <=> SomeAlive)
      BY <2>1 DEF Over, Closing, SomeAlive, Alive
    <2>3. phase' = IF SomeAlive THEN "closing" ELSE "over"
      BY <2>2, PhaseNow DEF PhaseIs
    <2>4. ~SomeAlive => Busy = {}
      BY DEF SomeAlive, Alive, Busy
    <2>5. CASE Over
      <3>1. phase = "over" /\ ~SomeAlive
        BY <2>5, PhaseNow DEF PhaseIs, StageInv, EndInv, FinalAfterAll, SomeAlive
      <3> QED BY <2>1, <2>3, <3>1 DEF Abstract!vars
    <2>6. CASE ~Over
      <3>1. Open
        BY <2>1, <2>6, CallerSeesOpen DEF Open
      <3>2. phase # "over"
        BY <3>1, OpenStatus, PhaseNow DEF PhaseIs, StageInv, RoundInv
      <3> QED BY <2>1, <2>3, <2>4, <3>2 DEF Abstract!Next, Abstract!Close, Abstract!End, Busy
    <2> QED BY <2>5, <2>6
  <1>2. CASE Destroyed(t)
    <2>1. ~SomeAlive /\ Closing /\ UNCHANGED wpc /\ destroyed'
      BY <1>2 DEF Destroyed, AllLeft, SomeAlive, Closing
    <2>2. phase = "over"
      BY <2>1, PhaseNow DEF PhaseIs
    <2>3. phase' = "over"
      BY <2>1, PhaseNow DEF PhaseIs, Over
    <2> QED BY <2>1, <2>2, <2>3 DEF Abstract!vars
  <1> QED BY <1>1, <1>2

\* Locks, flags, the barrier and the conditions of the stage implement the abstract stage, for any
\* number of workers and callers: they work only while it runs, it is paused when nobody works, and
\* it is over when everybody has left (pipeline_stage.c).
THEOREM StageImplemented == Patient /\ ClockGoes => (Spec => ImplementsStage)
  <1> SUFFICES ASSUME Patient, ClockGoes PROVE Spec => ImplementsStage
    OBVIOUS
  <1>1. Init => StageInv
    <2> SUFFICES ASSUME Init PROVE StageInv
      OBVIOUS
    <2>1. EndInv
      BY InitInv DEF Init, InitStage, EndInv, Waited, FinalAfterAll, NeverFatal, Over, Alive
    <2> QED BY <2>1, InitRounds DEF StageInv
  <1>2. StageInv /\ [Next]_vars => StageInv'
    BY RoundStep, EndStep DEF StageInv
  <1>3. Init => Abstract!Init
    <2> SUFFICES ASSUME Init PROVE Abstract!Init
      OBVIOUS
    <2>1. Open /\ m_status = "INITIALIZED"
      BY DEF Init, InitStage, Open, Over, Closing
    <2>2. phase = "stopped"
      BY <2>1, PhaseNow DEF PhaseIs
    <2> QED BY <2>2 DEF Init, Abstract!Init
  <1>4. StageInv /\ StageInv' /\ [Next]_vars => [Abstract!Next]_(Abstract!vars)
    <2> SUFFICES ASSUME StageInv, StageInv', [Next]_vars PROVE [Abstract!Next]_(Abstract!vars)
      OBVIOUS
    <2>1. ASSUME NEW w \in Workers, WorkerRuns(w) \/ CancelStrikes(w)
          PROVE  [Abstract!Next]_(Abstract!vars)
      BY <2>1, WorkersImplement
    <2>2. CASE BarrierOpens \/ SetGlobalState \/ UNCHANGED vars
      BY <2>2, UnseenImplement
    <2>3. ASSUME NEW t \in Callers,
                 CallerRuns(t) \/ Calls(t) \/ StartFailed(t) \/ PauseTimesOut(t) \/ WaitTimesOut(t)
                 \/ CallerCanceled(t)
          PROVE  [Abstract!Next]_(Abstract!vars)
      BY <2>3, CallsImplement, StartWorkerImplements, ResumeImplements, WaitEndsImplements,
         DestroyImplements DEF CallerRuns, Calls
    <2> QED BY <2>1, <2>2, <2>3 DEF Next
  <1> QED BY <1>1, <1>2, <1>3, <1>4, PTL DEF Spec, ImplementsStage, Abstract!Spec

=============================================================================
