---------------------------- MODULE ThreadProofs ----------------------------
(***************************************************************************)
(* What Thread promises for any number of callers, CPUs and starts, when   *)
(* one thread at a time starts the object: one thread of it at a time, one *)
(* final procedure for each, and nobody inside when it is destroyed.       *)
(***************************************************************************)
EXTENDS Thread, TLAPS

\* A second start while the first waits for its child is another use of the object, one
\* that gallus_thread_start does not hold off.
OneStarter == \A s, t \in Starters : s = t

\* A failed pthread_create leaves the autodelete flag behind: not the one that is set.
PlainFails == CreateFails \subseteq {FALSE}

-----------------------------------------------------------------------------
(* The inductive invariant.                                                *)

\* The thread of a child, from its creation to the end of its activity.
Active == {"sync_sleep", "main", "ended", "finalizing"}
Running == Active \cup {"entry"}
Runs(c) == pc[c] \in Running

\* m_pthd is the child that runs, and the flags say how far it is.
Runner ==
    /\ \A c \in Children : Runs(c) <=> m_pthd = c
    /\ m_is_activated <=> \E c \in Children : pc[c] \in Active
    /\ m_is_activated => m_is_started

\* The handshake of the start: as long as the child has not entered its starter waits, and a
\* starter that waits has not acknowledged.
Handshake ==
    /\ \A c \in Children : pc[c] = "entry" => ~m_is_started
    /\ \A t \in Callers : pc[t] = "start_sleep" => t \in Starters /\ ~m_startup_sync_done
    /\ (\E c \in Children : Alive(c)) /\ ~m_is_started
          => \E t \in Starters : pc[t] = "start_sleep"

\* The final procedure of a child was called once if its activity is over.
FinalCalls(c) == finals[c] = IF Runs(c) \/ pc[c] = "unborn" THEN 0 ELSE 1

\* One child at a time is in s_finalize, and the final procedure is called in its turn.
Turns ==
    /\ \A c \in Children : pc[c] \in {"finalizing", "finalized"} => m_finalize_lock = c
    /\ m_pthd # Nobody => m_n_finalized_count = 0
    /\ \A c \in Children : FinalCalls(c)

\* Who destroys the object, or is about to.
Deletes(p) == call[p].op \in {"autodelete", "destroy"}

\* The calls are those of their places.
CallerCall(t) ==
    /\ call[t].op # "autodelete"
    /\ call[t].op = "start" <=> pc[t] = "start_sleep"
    /\ call[t].op = "none" <=> pc[t] = "idle"
ChildCall(c) ==
    /\ call[c].op \in {"none", "autodelete", "destroy"}
    /\ call[c].op = "destroy" <=> pc[c] \in {"destroy", "wait", "waited"}
    /\ call[c].op = "autodelete" => pc[c] = "finalized"
    /\ Deletes(c) => m_do_autodelete

\* One thread at most destroys the object: when it is to delete itself, only after the
\* child's activity.
Deleters ==
    /\ \A t \in Callers : CallerCall(t)
    /\ \A c \in Children : ChildCall(c)
    /\ \A p, q \in Threads : Deletes(p) /\ Deletes(q) => p = q
    /\ m_do_autodelete => \A p \in Threads : Deletes(p) => m_pthd = Nobody

\* A wait for a child that succeeds has seen the end of its activity.
Waiters ==
    \A t \in Callers :
        awaited[t] # Nobody =>
            /\ pc[awaited[t]] \notin {"unborn", "entry"}
            /\ pc[t] \in {"reads_started", "waited"} /\ ret[t] = OK => ~Runs(awaited[t])

Inv == TypeOK /\ Runner /\ Handshake /\ Turns /\ Deleters /\ Waiters

\* The wait of a destruction has no time limit.
Untimed ==
    /\ \A p \in Threads : Deletes(p) => ~call[p].timed
    /\ \A p \in Threads : woken[p] = "timedout" => call[p].timed

\* An object that is to delete itself has nobody inside but the starter, in the handshake.
SelfDeletion ==
    /\ m_do_autodelete /\ m_pthd # Nobody =>
          \A t \in Callers : \/ pc[t] = "idle"
                             \/ pc[t] = "start_sleep" /\ pc[m_pthd] \in {"entry", "sync_sleep"}
    /\ m_do_autodelete /\ m_pthd = Nobody =>
          \A c \in Children : pc[c] = "finalized" => call[c].op = "autodelete"
    /\ \A c \in Children : Deletes(c) => \A t \in Callers : pc[t] = "idle"
    /\ \A c \in Children : call[c].op = "destroy" => m_finalize_lock = Nobody

\* Where a caller that destroys has seen that the object is not active; he is alone.
Seen == {"reads_started", "locks", "final_sleep", "waited"}
Destruction ==
    \A t \in Callers : call[t].op = "destroy" =>
        /\ \A u \in Callers \ {t} : pc[u] = "idle"
        /\ pc[t] \in Seen => m_pthd = Nobody
        /\ pc[t] = "waited" => m_finalize_lock = Nobody

SafeInv == Inv /\ Untimed /\ SelfDeletion /\ Destruction

-----------------------------------------------------------------------------
(* Facts that the steps share.                                             *)

LEMMA Constants ==
    /\ Starters \subseteq Callers /\ Callers \subseteq Threads /\ Children \subseteq Threads
    /\ Callers \cap Children = {} /\ Nobody \notin Threads
    /\ OK \in Int /\ TIMEDOUT \in Int /\ NOT_OPERATIONAL \in Int /\ NoResult \in Int
    /\ INTERRUPTED \in Int /\ NOT_STARTED \in Int
    /\ OK # TIMEDOUT /\ OK # NOT_OPERATIONAL
  BY ThreadAssumption
  DEF Threads, OK, TIMEDOUT, NOT_OPERATIONAL, NoResult, INTERRUPTED, NOT_STARTED

\* gallus_cond_notify wakes up only who sleeps.
LEMMA NotifyType ==
    ASSUME TypeOK, NEW p \in Threads, NEW cond \in {StartupCond, WaitCond, FinalizeCond}
    PROVE  /\ NotifyFrom(p, cond) \in [Threads -> {"no", "ok", "timedout"}]
           /\ NotifyFrom(p, cond)[p] = "no"
           /\ \A q \in Threads : NotifyFrom(p, cond)[q] # "no" =>
                  pc[q] \in StartupCond \cup WaitCond \cup FinalizeCond
           /\ \A q \in Threads : NotifyFrom(p, cond)[q] = "timedout" => woken[q] = "timedout"
  BY DEF TypeOK, NotifyFrom

\* The m_cpuset that the calls ask for is one of CPUs.
LEMMA CpuSetsType ==
    ASSUME TypeOK, NEW cpus \in CpuSets
    PROVE  cpus \subseteq Cpus
  BY ThreadAssumption DEF TypeOK, CpuSets

-----------------------------------------------------------------------------
(* The calls of the callers.                                               *)

\* Nobody starts a second child while another is on its way in, or runs.
LEMMA StarterFree ==
    ASSUME Inv, OneStarter, NEW t \in Starters, Free(t), CanStart
    PROVE  /\ m_pthd = Nobody
           /\ \A c \in Children : ~Runs(c)
           /\ \A u \in Callers : pc[u] # "start_sleep"
  <1>1. \A u \in Callers : pc[u] # "start_sleep"
    BY DEF Inv, OneStarter, Handshake, Free
  <1>2. \A c \in Children : ~Runs(c)
    BY <1>1, Constants DEF Inv, Runner, Handshake, Runs, Running, CanStart, Alive
  <1> QED BY <1>1, <1>2 DEF Inv, TypeOK, Runner

\* A step of one thread that leaves the flags of the object alone, and moves it to another
\* place of its kind.
LEMMA ObjectStays ==
    ASSUME Inv, NEW p \in Threads,
           UNCHANGED <<flags, m_finalize_lock, finals>>,
           \A q \in Threads \ {p} : pc'[q] = pc[q] /\ call'[q] = call[q],
           p \in Callers => /\ pc'[p] = "start_sleep" <=> pc[p] = "start_sleep"
                            /\ CallerCall(p)',
           p \in Children => /\ \/ pc'[p] = pc[p]
                                \/ /\ pc[p] \in {"destroy", "wait", "waited"}
                                   /\ pc'[p] \in {"wait", "waited", "gone"}
                             /\ ChildCall(p)',
           Deletes(p)' => \/ Deletes(p)
                          \/ /\ \A q \in Threads : ~Deletes(q)
                             /\ m_do_autodelete => m_pthd = Nobody
    PROVE  Runner' /\ Handshake' /\ Turns' /\ Deleters'
  <1> USE Constants
  <1>0. /\ UNCHANGED <<m_is_activated, m_is_started, m_startup_sync_done, m_n_finalized_count,
                       m_do_autodelete, m_pthd, m_finalize_lock, finals>>
    BY DEF flags
  <1>1. \A c \in Children : \/ pc'[c] = pc[c]
                             \/ /\ pc[c] \in {"destroy", "wait", "waited"}
                                /\ pc'[c] \in {"wait", "waited", "gone"}
    OBVIOUS
  <1>2. \A t \in Callers : pc'[t] = "start_sleep" <=> pc[t] = "start_sleep"
    OBVIOUS
  <1>3. Runner'
    <2>1. \A c \in Children : Runs(c)' <=> Runs(c)
      BY <1>1 DEF Runs, Running, Active
    <2>2. \A c \in Children : pc'[c] \in Active <=> pc[c] \in Active
      BY <1>1 DEF Active
    <2> QED BY <1>0, <2>1, <2>2 DEF Inv, Runner
  <1>4. Handshake'
    <2>1. \A c \in Children : Alive(c)' => Alive(c)
      BY <1>1 DEF Alive
    <2>2. \A c \in Children : pc'[c] = "entry" => pc[c] = "entry"
      BY <1>1
    <2> QED BY <1>0, <1>2, <2>1, <2>2 DEF Inv, Handshake
  <1>5. Turns'
    <2>1. \A c \in Children : FinalCalls(c)'
      BY <1>0, <1>1 DEF Inv, Turns, FinalCalls, Runs, Running, Active
    <2>2. \A c \in Children : pc'[c] \in {"finalizing", "finalized"} => pc'[c] = pc[c]
      BY <1>1
    <2> QED BY <1>0, <2>1, <2>2 DEF Inv, Turns
  <1>6. Deleters'
    <2>1. \A q \in Threads \ {p} : Deletes(q)' <=> Deletes(q)
      BY DEF Deletes
    <2>2. \A t \in Callers : CallerCall(t)'
      BY DEF Inv, Deleters, CallerCall
    <2>3. \A c \in Children : ChildCall(c)'
      BY <1>0, <2>1 DEF Inv, Deleters, ChildCall
    <2>4. \A q, r \in Threads : Deletes(q)' /\ Deletes(r)' => q = r
      BY <2>1 DEF Inv, Deleters
    <2>5. m_do_autodelete' => \A q \in Threads : Deletes(q)' => m_pthd' = Nobody
      BY <1>0, <2>1 DEF Inv, Deleters
    <2> QED BY <2>2, <2>3, <2>4, <2>5 DEF Deleters
  <1> QED BY <1>3, <1>4, <1>5, <1>6

LEMMA StartInv ==
    ASSUME Inv, OneStarter, NEW t \in Starters, NEW autodelete \in BOOLEAN, Start(t, autodelete)
    PROVE  Inv'
  <1> USE Constants
  <1>1. /\ m_pthd = Nobody /\ \A c \in Children : ~Runs(c)
        /\ \A u \in Callers : pc[u] # "start_sleep"
    BY StarterFree DEF Start
  <1>2. PICK c \in Children :
          /\ pc[c] = "unborn" /\ m_pthd' = c
          /\ pc' = [pc EXCEPT ![t] = "start_sleep", ![c] = "entry"]
    BY DEF Start
  <1>3. /\ t \in Callers /\ t # c /\ pc[t] = "idle"
        /\ \A p \in Threads : call[p].op \notin {"autodelete", "destroy"}
    BY DEF Start, Free, Usable
  <1>4. /\ pc'[t] = "start_sleep" /\ pc'[c] = "entry"
        /\ \A p \in Threads \ {t, c} : pc'[p] = pc[p]
        /\ call'[t] = [op |-> "start", timed |-> FALSE]
        /\ \A p \in Threads \ {t} : call'[p] = call[p]
    BY <1>2, <1>3 DEF Start, Inv, TypeOK
  <1>5. /\ m_is_started' = FALSE /\ m_startup_sync_done' = FALSE /\ m_n_finalized_count' = 0
        /\ m_is_activated' = m_is_activated /\ m_is_activated = FALSE
        /\ UNCHANGED <<m_finalize_lock, woken, ret, finals, awaited>>
    BY DEF Start, ResetFlags, CanStart, Inv, TypeOK, history
  <1>6. TypeOK'
    <2>1. /\ call' \in [Threads -> [op : {"none", "start", "wait", "autodelete", "destroy"},
                                    timed : BOOLEAN]]
          /\ pc' \in [Threads -> CallerPlaces \cup ChildPlaces]
          /\ \A u \in Callers : pc'[u] \in CallerPlaces
          /\ \A d \in Children : pc'[d] \in ChildPlaces
      BY <1>2, <1>3, <1>4 DEF Start, Inv, TypeOK, CallerPlaces, ChildPlaces
    <2>2. affinity' \in (SUBSET Cpus) \ {{}} /\ late' \in BOOLEAN /\ m_cpuset' \subseteq Cpus
      BY ThreadAssumption DEF Start, AffinityAtStart, Inv, TypeOK
    <2>3. m_finalize_lock' \in {Nobody} \cup {d \in Children : pc'[d] \in {"finalizing", "finalized"}}
      BY <1>2, <1>4, <1>5 DEF Inv, TypeOK
    <2>4. \A p \in Threads : woken'[p] # "no" => pc'[p] \in StartupCond \cup WaitCond \cup FinalizeCond
      BY <1>2, <1>3, <1>4, <1>5 DEF Inv, TypeOK, StartupCond, WaitCond, FinalizeCond
    <2>5. {m_is_activated, m_is_started, m_is_canceled, m_startup_sync_done,
           m_do_autodelete, destroyed}' \subseteq BOOLEAN
      BY DEF Start, ResetFlags, Inv, TypeOK
    <2>6. /\ m_n_finalized_count' \in Nat /\ m_pthd' \in Children \cup {Nobody}
          /\ UNCHANGED <<m_result_code, woken, ret, requested, canceled, finals, awaited>>
      BY <1>2, <1>5 DEF Start, history
    <2> QED BY <2>1, <2>2, <2>3, <2>4, <2>5, <2>6 DEF Inv, TypeOK
  <1>7. Runner'
    BY <1>1, <1>2, <1>3, <1>4, <1>5 DEF Inv, Runner, Runs, Running, Active
  <1>8. Handshake'
    BY <1>1, <1>2, <1>3, <1>4, <1>5 DEF Inv, Handshake
  <1>9. Turns'
    <2>1. \A d \in Children : pc'[d] \in {"finalizing", "finalized"} => m_finalize_lock' = d
      BY <1>3, <1>4, <1>5 DEF Inv, Turns
    <2>2. ASSUME NEW d \in Children
          PROVE  FinalCalls(d)'
      <3>1. CASE d = c
        BY <1>2, <1>4, <1>5, <3>1 DEF Inv, Turns, FinalCalls, Runs, Running
      <3>2. CASE d # c
        BY <1>3, <1>4, <1>5, <3>2 DEF Inv, Turns, FinalCalls, Runs
      <3> QED BY <3>1, <3>2
    <2> QED BY <1>5, <2>1, <2>2 DEF Turns
  <1>10. Deleters'
    <2>1. \A p \in Threads : ~Deletes(p)'
      BY <1>3, <1>4 DEF Deletes
    <2>2. ASSUME NEW u \in Callers PROVE CallerCall(u)'
      <3>1. CASE u = t
        BY <1>4, <3>1 DEF CallerCall
      <3>2. CASE u # t
        <4>1. call'[u] = call[u] /\ pc'[u] = pc[u] /\ CallerCall(u)
          BY <1>2, <1>4, <3>2 DEF Inv, Deleters
        <4> QED BY <4>1 DEF CallerCall
      <3> QED BY <3>1, <3>2
    <2>3. ASSUME NEW d \in Children PROVE ChildCall(d)'
      <3>1. /\ call'[d] = call[d] /\ ChildCall(d) /\ ~Deletes(d)'
            /\ d = c \/ pc'[d] = pc[d]
        BY <1>3, <1>4, <2>1 DEF Inv, Deleters
      <3> QED BY <1>2, <1>4, <3>1 DEF ChildCall, Deletes
    <2> QED BY <2>1, <2>2, <2>3 DEF Deleters
  <1>11. Waiters'
    BY <1>1, <1>2, <1>3, <1>4, <1>5 DEF Inv, TypeOK, Waiters, Runs, Running, Active
  <1> QED BY <1>6, <1>7, <1>8, <1>9, <1>10, <1>11 DEF Inv

LEMMA StartRefusedInv ==
    ASSUME Inv, OneStarter, NEW t \in Starters, NEW autodelete \in BOOLEAN,
           StartRefused(t, autodelete)
    PROVE  Inv'
  <1> USE Constants
  <1>1. /\ pc[t] = "idle" /\ call[t].op = "none" /\ \A p \in Threads : ~Deletes(p)
        /\ t \in Callers
    BY DEF StartRefused, Free, Usable, Inv, Deleters, CallerCall, Deletes
  <1>2. /\ pc' = pc /\ call' = [call EXCEPT ![t] = NoCall] /\ ret' = [ret EXCEPT ![t] = NoResult]
        /\ \A p \in Threads : call'[p].op = call[p].op
        /\ UNCHANGED <<affinities, m_is_activated, m_is_started, m_is_canceled,
                       m_startup_sync_done, m_n_finalized_count, m_result_code, m_finalize_lock,
                       destroyed, woken, requested, history, awaited>>
    BY <1>1 DEF StartRefused, Returns, At, NoCall, Inv, TypeOK
  <1>3. /\ m_do_autodelete' \in BOOLEAN
        /\ \/ m_pthd' = m_pthd /\ m_do_autodelete' = m_do_autodelete
           \/ /\ m_pthd' = Nobody /\ m_pthd = Nobody
              /\ \A c \in Children : ~Runs(c)
    BY StarterFree DEF StartRefused, Inv, TypeOK
  <1>4. TypeOK'
    <2>1. call' \in [Threads -> [op : {"none", "start", "wait", "autodelete", "destroy"},
                                 timed : BOOLEAN]]
      BY <1>2 DEF NoCall, Inv, TypeOK
    <2>2. m_pthd' \in Children \cup {Nobody} /\ ret' \in [Threads -> Int]
      BY <1>2, <1>3 DEF Inv, TypeOK
    <2> QED BY <1>2, <1>3, <2>1, <2>2 DEF Inv, TypeOK, affinities, history
  <1>5. m_pthd' = m_pthd
    BY <1>3
  <1>6. Runner' /\ Handshake'
    BY <1>2, <1>5 DEF Inv, Runner, Handshake, Runs, Alive
  <1>7. Turns'
    BY <1>2, <1>5 DEF Inv, Turns, FinalCalls, Runs, history
  <1>8. Deleters'
    BY <1>1, <1>2 DEF Inv, Deleters, CallerCall, ChildCall, Deletes
  <1>9. Waiters'
    BY <1>1, <1>2 DEF Inv, TypeOK, Waiters, Runs
  <1> QED BY <1>4, <1>6, <1>7, <1>8, <1>9 DEF Inv

LEMMA StartResumesInv ==
    ASSUME Inv, OneStarter, NEW t \in Callers, StartResumes(t)
    PROVE  Inv'
  <1> USE Constants
  <1>1. /\ pc[t] = "start_sleep" /\ t \in Starters
        /\ \A u \in Callers : pc[u] = "start_sleep" => u = t
    BY DEF StartResumes, Inv, Handshake, OneStarter
  <1>2. UNCHANGED <<m_is_activated, m_is_started, m_n_finalized_count, m_do_autodelete, m_pthd,
                    m_is_canceled, m_result_code, m_finalize_lock, destroyed, affinities,
                    requested, finals, canceled, awaited>>
    BY DEF StartResumes, history
  <1>3. CASE m_is_started
    <2>1. /\ m_startup_sync_done' = TRUE /\ woken' = NotifyFrom(t, StartupCond)
          /\ pc' = [pc EXCEPT ![t] = "idle"] /\ call' = [call EXCEPT ![t] = NoCall]
          /\ ret' = [ret EXCEPT ![t] = NoResult]
      BY <1>3 DEF StartResumes, Acknowledge, Returns, At
    <2>2. /\ \A p \in Threads \ {t} : pc'[p] = pc[p] /\ call'[p] = call[p]
          /\ pc'[t] = "idle" /\ call'[t] = NoCall
      BY <2>1 DEF Inv, TypeOK
    <2>3. TypeOK'
      <3>1. /\ call' \in [Threads -> [op : {"none", "start", "wait", "autodelete", "destroy"},
                                      timed : BOOLEAN]]
            /\ pc' \in [Threads -> CallerPlaces \cup ChildPlaces] /\ ret' \in [Threads -> Int]
        BY <2>1 DEF NoCall, Inv, TypeOK, CallerPlaces
      <3>2. /\ \A u \in Callers : pc'[u] \in CallerPlaces
            /\ \A c \in Children : pc'[c] \in ChildPlaces
            /\ m_finalize_lock' \in {Nobody} \cup {c \in Children : pc'[c] \in {"finalizing", "finalized"}}
        BY <1>2, <2>2 DEF Inv, TypeOK, CallerPlaces
      <3>3. /\ woken' \in [Threads -> {"no", "ok", "timedout"}]
            /\ \A p \in Threads : woken'[p] # "no" => pc'[p] \in StartupCond \cup WaitCond \cup FinalizeCond
        BY <2>1, <2>2, NotifyType DEF Inv
      <3> QED BY <1>2, <2>1, <3>1, <3>2, <3>3 DEF Inv, TypeOK, affinities
    <2>4. Runner'
      BY <1>2, <2>2 DEF Inv, Runner, Runs
    <2>5. Handshake'
      BY <1>1, <1>2, <1>3, <2>2 DEF Inv, Handshake
    <2>6. Turns'
      BY <1>2, <2>2 DEF Inv, Turns, FinalCalls, Runs
    <2>7. Deleters'
      <3>1. \A p \in Threads : Deletes(p)' <=> Deletes(p)
        BY <1>1, <2>2 DEF Deletes, NoCall, Inv, Deleters, CallerCall
      <3>2. \A u \in Callers : CallerCall(u)'
        BY <2>2 DEF NoCall, Inv, Deleters, CallerCall
      <3>3. \A c \in Children : ChildCall(c)'
        BY <1>2, <2>2, <3>1 DEF Inv, Deleters, ChildCall
      <3> QED BY <1>2, <3>1, <3>2, <3>3 DEF Inv, Deleters
    <2>8. Waiters'
      BY <1>2, <2>1, <2>2 DEF Inv, TypeOK, Waiters, Runs
    <2> QED BY <2>3, <2>4, <2>5, <2>6, <2>7, <2>8 DEF Inv
  <1>4. CASE ~m_is_started
    <2>1. /\ woken' = [woken EXCEPT ![t] = "no"]
          /\ UNCHANGED <<m_startup_sync_done, pc, call, ret>>
      BY <1>4 DEF StartResumes, Awake
    <2>2. TypeOK'
      BY <1>2, <2>1 DEF Inv, TypeOK, affinities
    <2>3. Runner' /\ Handshake'
      BY <1>2, <2>1 DEF Inv, Runner, Handshake, Runs, Alive
    <2>4. Turns' /\ Deleters' /\ Waiters'
      BY <1>2, <2>1 DEF Inv, Turns, FinalCalls, Deleters, CallerCall, ChildCall, Deletes, Waiters,
                        Runs
    <2> QED BY <2>2, <2>3, <2>4 DEF Inv
  <1> QED BY <1>3, <1>4

\* gallus_thread_cancel and the setting of the CPUs.
LEMMA CancelInv ==
    ASSUME Inv, NEW t \in Callers, Cancel(t)
    PROVE  Inv'
  <1> USE Constants
  <1>1. pc[t] = "idle" /\ call[t].op = "none"
    BY DEF Cancel, Free, Inv, Deleters, CallerCall
  <1>2. /\ pc' = pc /\ call' = [call EXCEPT ![t] = NoCall] /\ ret' = [ret EXCEPT ![t] = NoResult]
        /\ UNCHANGED <<flags, affinities, m_finalize_lock, destroyed, woken, canceled, finals,
                       awaited>>
        /\ requested' \in [Children -> BOOLEAN]
    BY <1>1 DEF Cancel, Returns, At, Requests, object, history, Inv, TypeOK
  <1>3. TypeOK'
    <2>1. call' \in [Threads -> [op : {"none", "start", "wait", "autodelete", "destroy"},
                                 timed : BOOLEAN]]
      BY <1>2 DEF NoCall, Inv, TypeOK
    <2> QED BY <1>2, <2>1 DEF Inv, TypeOK, flags, affinities
  <1>4. call'[t] = NoCall /\ \A q \in Threads \ {t} : call'[q] = call[q]
    BY <1>2 DEF Inv, TypeOK
  <1>5. Runner' /\ Handshake' /\ Turns' /\ Deleters'
    BY <1>1, <1>2, <1>4, ObjectStays DEF CallerCall, Deletes, NoCall
  <1>6. Waiters'
    BY <1>1, <1>2 DEF Inv, TypeOK, Waiters, Runs
  <1> QED BY <1>3, <1>5, <1>6 DEF Inv

LEMMA SetAffinityInv ==
    ASSUME Inv, NEW t \in Callers, NEW cpus \in CpuSets, SetAffinity(t, cpus)
    PROVE  Inv'
  <1>1. UNCHANGED <<flags, m_finalize_lock, destroyed, pc, call, woken, ret, requested, history,
                    awaited>>
    BY DEF SetAffinity
  <1>2. TypeOK'
    <2>1. m_cpuset' \subseteq Cpus
      BY CpuSetsType DEF SetAffinity, Inv
    <2>2. affinity' \in (SUBSET Cpus) \ {{}}
      BY CpuSetsType DEF SetAffinity, Inv, TypeOK
    <2>3. late' \in BOOLEAN
      BY DEF SetAffinity, Inv, TypeOK
    <2> QED BY <1>1, <2>1, <2>2, <2>3 DEF Inv, TypeOK, flags, history
  <1>3. Runner' /\ Handshake'
    BY <1>1 DEF Inv, Runner, Handshake, Runs, Alive, flags
  <1>4. Turns' /\ Waiters'
    BY <1>1 DEF Inv, Turns, FinalCalls, Waiters, Runs, flags, history
  <1>5. Deleters'
    BY <1>1 DEF Inv, Deleters, CallerCall, ChildCall, Deletes, flags
  <1> QED BY <1>2, <1>3, <1>4, <1>5 DEF Inv

LEMMA WaitInv ==
    ASSUME Inv, NEW t \in Callers, NEW timed \in BOOLEAN, Wait(t, timed)
    PROVE  Inv'
  <1> USE Constants
  <1>1. pc[t] = "idle" /\ call[t].op = "none"
    BY DEF Wait, Free, Inv, Deleters, CallerCall
  <1>2. /\ pc' = [pc EXCEPT ![t] = "wait"]
        /\ call' = [call EXCEPT ![t] = [op |-> "wait", timed |-> timed]]
        /\ awaited' = [awaited EXCEPT ![t] = IF m_is_activated THEN m_pthd ELSE Nobody]
        /\ UNCHANGED <<flags, affinities, m_finalize_lock, destroyed, woken, ret, requested,
                       canceled, finals>>
    BY DEF Wait, At, object, history
  <1>3. /\ pc'[t] = "wait" /\ call'[t] = [op |-> "wait", timed |-> timed]
        /\ \A q \in Threads \ {t} : pc'[q] = pc[q] /\ call'[q] = call[q]
    BY <1>2 DEF Inv, TypeOK
  <1>4. TypeOK'
    <2>1. /\ call' \in [Threads -> [op : {"none", "start", "wait", "autodelete", "destroy"},
                                    timed : BOOLEAN]]
          /\ pc' \in [Threads -> CallerPlaces \cup ChildPlaces]
          /\ awaited' \in [Threads -> Children \cup {Nobody}]
      BY <1>2 DEF Inv, TypeOK, CallerPlaces
    <2>2. /\ \A u \in Callers : pc'[u] \in CallerPlaces
          /\ \A c \in Children : pc'[c] \in ChildPlaces
          /\ m_finalize_lock' \in {Nobody} \cup {c \in Children : pc'[c] \in {"finalizing", "finalized"}}
      BY <1>2, <1>3 DEF Inv, TypeOK, CallerPlaces
    <2>3. \A p \in Threads : woken'[p] # "no" => pc'[p] \in StartupCond \cup WaitCond \cup FinalizeCond
      BY <1>1, <1>2, <1>3 DEF Inv, TypeOK, StartupCond, WaitCond, FinalizeCond
    <2> QED BY <1>2, <2>1, <2>2, <2>3 DEF Inv, TypeOK, flags, affinities
  <1>5. Runner' /\ Handshake' /\ Turns' /\ Deleters'
    BY <1>1, <1>2, <1>3, ObjectStays DEF CallerCall, Deletes
  <1>6. Waiters'
    <2>1. m_is_activated => pc[m_pthd] \in Active
      BY DEF Inv, Runner, Runs, Running, Active
    <2> QED BY <1>2, <1>3, <2>1 DEF Inv, TypeOK, Waiters, Runs, Active
  <1> QED BY <1>4, <1>5, <1>6 DEF Inv

LEMMA DestroyInv ==
    ASSUME Inv, NEW t \in Callers, Destroy(t)
    PROVE  Inv'
  <1> USE Constants
  <1>1. /\ pc[t] = "idle" /\ \A q \in Threads : ~Deletes(q)
        /\ m_do_autodelete => m_pthd = Nobody
    <2>1. m_do_autodelete => \A c \in Children : ~Runs(c)
      BY DEF Destroy, Free, Usable, Runs, Running, Active
    <2> QED BY <2>1 DEF Destroy, Free, Usable, Deletes, Inv, Runner, TypeOK
  <1>2. /\ pc' = [pc EXCEPT ![t] = "destroy"]
        /\ call' = [call EXCEPT ![t] = [op |-> "destroy", timed |-> FALSE]]
        /\ UNCHANGED <<flags, affinities, m_finalize_lock, destroyed, woken, ret, requested,
                       canceled, finals, awaited>>
    BY DEF Destroy, At, object, history
  <1>3. /\ pc'[t] = "destroy" /\ call'[t] = [op |-> "destroy", timed |-> FALSE]
        /\ \A q \in Threads \ {t} : pc'[q] = pc[q] /\ call'[q] = call[q]
    BY <1>2 DEF Inv, TypeOK
  <1>4. TypeOK'
    <2>1. /\ call' \in [Threads -> [op : {"none", "start", "wait", "autodelete", "destroy"},
                                    timed : BOOLEAN]]
          /\ pc' \in [Threads -> CallerPlaces \cup ChildPlaces]
      BY <1>2 DEF Inv, TypeOK, CallerPlaces
    <2>2. /\ \A u \in Callers : pc'[u] \in CallerPlaces
          /\ \A c \in Children : pc'[c] \in ChildPlaces
          /\ m_finalize_lock' \in {Nobody} \cup {c \in Children : pc'[c] \in {"finalizing", "finalized"}}
      BY <1>2, <1>3 DEF Inv, TypeOK, CallerPlaces
    <2>3. \A p \in Threads : woken'[p] # "no" => pc'[p] \in StartupCond \cup WaitCond \cup FinalizeCond
      BY <1>1, <1>2, <1>3 DEF Inv, TypeOK, StartupCond, WaitCond, FinalizeCond
    <2> QED BY <1>2, <2>1, <2>2, <2>3 DEF Inv, TypeOK, flags, affinities
  <1>5. Runner' /\ Handshake' /\ Turns' /\ Deleters'
    BY <1>1, <1>2, <1>3, ObjectStays DEF CallerCall, Deletes
  <1>6. Waiters'
    BY <1>2, <1>3 DEF Inv, TypeOK, Waiters, Runs
  <1> QED BY <1>4, <1>5, <1>6 DEF Inv

-----------------------------------------------------------------------------
(* Waiting and destroying.                                                 *)

WaitPlaces == {"destroy", "wait", "wait_sleep", "reads_started", "locks", "final_sleep", "waited"}

\* What a step of gallus_thread_wait or gallus_thread_destroy does to its thread.
GoesOn(p) ==
    /\ pc[p] \in WaitPlaces /\ pc'[p] \in WaitPlaces
    /\ call' = call /\ awaited' = awaited
Leaves(p) ==
    /\ pc[p] = "waited" /\ pc'[p] = IF p \in Callers THEN "idle" ELSE "gone"
    /\ call' = [call EXCEPT ![p] = NoCall] /\ awaited' = [awaited EXCEPT ![p] = Nobody]

\* A child is only on its way through the call when it deletes the object.
ChildMoves(p) ==
    p \in Children => /\ pc[p] \in {"destroy", "wait", "waited"}
                      /\ pc'[p] \in {"wait", "waited", "gone"}
                      /\ pc'[p] = "gone" <=> pc[p] = "waited"

\* What it knows of the child when it has waited: it is not active, or its
\* finalization was counted.
Knows(p) ==
    /\ pc'[p] = "reads_started" /\ ret'[p] = OK => ~m_is_activated
    /\ pc'[p] = "waited" /\ ret'[p] = OK => \/ pc[p] = "reads_started" /\ ret[p] = OK
                                            \/ m_n_finalized_count # 0

LEMMA WaitsMove ==
    ASSUME Inv, NEW p \in Threads, Waits(p)
    PROVE  /\ UNCHANGED <<flags, m_finalize_lock, affinity, late, canceled, finals>>
           /\ \A q \in Threads \ {p} : pc'[q] = pc[q] /\ ret'[q] = ret[q]
           /\ GoesOn(p) \/ Leaves(p)
           /\ ChildMoves(p) /\ Knows(p)
  <1> USE Constants
  <1>0. /\ pc \in [Threads -> CallerPlaces \cup ChildPlaces] /\ ret \in [Threads -> Int]
        /\ p \in Callers \/ (p \in Children /\ pc[p] \in ChildPlaces /\ ChildCall(p))
        /\ woken[p] # "no" => pc[p] \in StartupCond \cup WaitCond \cup FinalizeCond
    BY DEF Inv, TypeOK, Deleters, Threads
  <1>1. CASE DestroyCancels(p)
    BY <1>0, <1>1 DEF DestroyCancels, At, GoesOn, WaitPlaces, ChildMoves, Knows, object, affinities,
                      history
  <1>2. CASE WaitChecks(p)
    <2>1. UNCHANGED <<flags, affinities, m_finalize_lock, canceled, finals, call, awaited>>
      BY <1>2 DEF WaitChecks, object, history
    <2>2. p \in Children => pc[p] = "wait" /\ m_do_autodelete
      BY <1>0, <1>2, Constants DEF WaitChecks, ChildPlaces, ChildCall, Deletes
    <2>3. CASE /\ pc[p] = "wait"
               /\ m_do_autodelete
               /\ At(p, "waited")
               /\ ret' = [ret EXCEPT ![p] = NOT_OPERATIONAL]
      BY <1>0, <2>1, <2>3 DEF At, GoesOn, WaitPlaces, ChildMoves, Knows, affinities
    <2>4. CASE /\ \/ pc[p] = "wait" /\ ~m_do_autodelete
                  \/ pc[p] = "wait_sleep" /\ woken[p] = "ok"
               /\ IF m_is_activated
                  THEN At(p, "wait_sleep") /\ UNCHANGED ret
                  ELSE At(p, "reads_started") /\ ret' = [ret EXCEPT ![p] = OK]
      BY <1>0, <2>1, <2>2, <2>4 DEF At, GoesOn, WaitPlaces, ChildMoves, Knows, affinities
    <2>5. CASE /\ pc[p] = "wait_sleep"
               /\ At(p, "reads_started")
               /\ ret' = [ret EXCEPT ![p] = TIMEDOUT]
      BY <1>0, <2>1, <2>2, <2>5 DEF At, GoesOn, WaitPlaces, ChildMoves, Knows, affinities
    <2> QED BY <1>2, <2>3, <2>4, <2>5 DEF WaitChecks
  <1>3. CASE WaitReads(p)
    BY <1>0, <1>3 DEF WaitReads, At, GoesOn, WaitPlaces, ChildMoves, ChildPlaces, Knows, object,
                      affinities, history
  <1>4. CASE WaitFinal(p)
    <2>1. /\ UNCHANGED <<flags, affinities, m_finalize_lock, canceled, finals, call, awaited>>
          /\ pc[p] \in {"locks", "final_sleep"} /\ p \notin Children
      BY <1>0, <1>4 DEF WaitFinal, object, history, ChildPlaces
    <2>2. /\ pc' = [pc EXCEPT ![p] = IF m_n_finalized_count = 0 /\ woken[p] # "timedout"
                                     THEN "final_sleep" ELSE "waited"]
          /\ \/ ret' = ret /\ woken[p] = "no"
             \/ ret' = [ret EXCEPT ![p] = TIMEDOUT]
             \/ ret' = [ret EXCEPT ![p] = OK] /\ woken[p] # "timedout"
      BY <1>0, <1>4 DEF WaitFinal, At, StartupCond, WaitCond, FinalizeCond
    <2> QED BY <1>0, <2>1, <2>2 DEF GoesOn, WaitPlaces, ChildMoves, Knows, affinities
  <1>5. CASE WaitEnds(p)
    BY <1>0, <1>5 DEF WaitEnds, Returns, At, Leaves, ChildMoves, Knows, history
  <1> QED BY <1>1, <1>2, <1>3, <1>4, <1>5 DEF Waits

LEMMA WaitsType ==
    ASSUME Inv, NEW p \in Threads, Waits(p)
    PROVE  TypeOK'
  <1> USE Constants
  <1>1. /\ UNCHANGED <<flags, m_finalize_lock, affinity, late, canceled, finals>>
        /\ \A q \in Threads \ {p} : pc'[q] = pc[q]
        /\ GoesOn(p) \/ Leaves(p)
        /\ ChildMoves(p)
    BY WaitsMove
  <1>2. pc' \in [Threads -> CallerPlaces \cup ChildPlaces] /\ ret' \in [Threads -> Int]
    BY DEF Waits, DestroyCancels, WaitChecks, WaitReads, WaitFinal, WaitEnds, Returns, At, Inv,
           TypeOK, CallerPlaces, ChildPlaces
  <1>3. /\ \A t \in Callers : pc'[t] \in CallerPlaces
        /\ \A c \in Children : pc'[c] \in ChildPlaces
    <2>1. p \in Callers => pc'[p] \in CallerPlaces
      BY <1>1 DEF GoesOn, Leaves, WaitPlaces, CallerPlaces
    <2>2. p \in Children => pc'[p] \in ChildPlaces
      BY <1>1 DEF ChildMoves, ChildPlaces
    <2> QED BY <1>1, <2>1, <2>2 DEF Inv, TypeOK
  <1>4. m_finalize_lock' \in {Nobody} \cup {c \in Children : pc'[c] \in {"finalizing", "finalized"}}
    BY <1>1 DEF ChildMoves, Inv, TypeOK
  <1>5. /\ call' \in [Threads -> [op : {"none", "start", "wait", "autodelete", "destroy"},
                                  timed : BOOLEAN]]
        /\ awaited' \in [Threads -> Children \cup {Nobody}]
    <2>1. NoCall \in [op : {"none", "start", "wait", "autodelete", "destroy"}, timed : BOOLEAN]
      BY DEF NoCall
    <2>2. CASE GoesOn(p)
      BY <2>2 DEF GoesOn, Inv, TypeOK
    <2>3. CASE Leaves(p)
      BY <2>1, <2>3 DEF Leaves, Inv, TypeOK
    <2> QED BY <1>1, <2>2, <2>3
  <1>6. destroyed' \in BOOLEAN /\ m_cpuset' \subseteq Cpus /\ requested' \in [Children -> BOOLEAN]
    BY DEF Waits, DestroyCancels, WaitChecks, WaitReads, WaitFinal, WaitEnds, Requests, object,
           affinities, Inv, TypeOK
  <1>7. /\ woken' \in [Threads -> {"no", "ok", "timedout"}]
        /\ \A q \in Threads : woken'[q] # "no" => pc'[q] \in StartupCond \cup WaitCond \cup FinalizeCond
    <2>1. CASE WaitChecks(p) \/ WaitFinal(p)
      <3>1. \/ woken' = woken /\ woken[p] = "no"
            \/ woken' = [woken EXCEPT ![p] = "no"]
        BY <2>1 DEF WaitChecks, WaitFinal, Awake, Inv, TypeOK, StartupCond, WaitCond, FinalizeCond
      <3>2. woken' \in [Threads -> {"no", "ok", "timedout"}] /\ woken'[p] = "no"
        BY <3>1 DEF Inv, TypeOK
      <3>3. \A q \in Threads \ {p} : woken'[q] = woken[q]
        BY <3>1 DEF Inv, TypeOK
      <3> QED BY <1>1, <3>2, <3>3 DEF Inv, TypeOK
    <2>2. CASE DestroyCancels(p) \/ WaitReads(p) \/ WaitEnds(p)
      <3>1. woken' = woken /\ woken[p] = "no"
        BY <2>2 DEF DestroyCancels, WaitReads, WaitEnds, Inv, TypeOK, StartupCond, WaitCond,
                    FinalizeCond
      <3> QED BY <1>1, <3>1 DEF Inv, TypeOK
    <2> QED BY <2>1, <2>2 DEF Waits
  <1> QED BY <1>1, <1>2, <1>3, <1>4, <1>5, <1>6, <1>7 DEF Inv, TypeOK, flags

LEMMA WaitsInv ==
    ASSUME Inv, NEW p \in Threads, Waits(p)
    PROVE  Inv'
  <1> USE Constants
  <1>1. TypeOK'
    BY WaitsType
  <1>2. /\ UNCHANGED <<flags, m_finalize_lock, affinity, late, canceled, finals>>
        /\ \A q \in Threads \ {p} : pc'[q] = pc[q] /\ ret'[q] = ret[q]
        /\ GoesOn(p) \/ Leaves(p)
        /\ ChildMoves(p) /\ Knows(p)
    BY WaitsMove
  <1>3. /\ \A q \in Threads \ {p} : call'[q] = call[q] /\ awaited'[q] = awaited[q]
        /\ Leaves(p) => call'[p] = NoCall /\ awaited'[p] = Nobody
    BY <1>2 DEF GoesOn, Leaves, Inv, TypeOK
  <1>4. Deletes(p)' => Deletes(p)
    BY <1>2, <1>3 DEF GoesOn, NoCall, Deletes
  <1>5. p \in Callers => /\ pc'[p] = "start_sleep" <=> pc[p] = "start_sleep"
                         /\ CallerCall(p)'
    <2>1. p \in Callers => CallerCall(p)
      BY DEF Inv, Deleters
    <2> QED BY <1>2, <1>3, <2>1 DEF GoesOn, Leaves, WaitPlaces, CallerCall, NoCall
  <1>6. p \in Children => ChildCall(p)'
    <2>1. p \in Children => ChildCall(p) /\ (m_do_autodelete' <=> m_do_autodelete)
      BY <1>2 DEF Inv, Deleters, flags
    <2>2. CASE GoesOn(p)
      BY <1>2, <2>1, <2>2 DEF GoesOn, WaitPlaces, ChildMoves, ChildCall, Deletes
    <2>3. CASE Leaves(p)
      BY <1>2, <1>3, <2>3 DEF Leaves, ChildMoves, ChildCall, NoCall, Deletes
    <2> QED BY <1>2, <2>2, <2>3
  <1>7. Runner' /\ Handshake' /\ Turns' /\ Deleters'
    BY <1>2, <1>3, <1>4, <1>5, <1>6, ObjectStays DEF ChildMoves
  <1>8. Waiters'
    <2> SUFFICES ASSUME NEW t \in Callers, awaited'[t] # Nobody
                 PROVE  /\ pc'[awaited'[t]] \notin {"unborn", "entry"}
                        /\ pc'[t] \in {"reads_started", "waited"} /\ ret'[t] = OK
                              => pc'[awaited'[t]] \notin Running
      BY DEF Waiters, Runs
    <2>1. awaited'[t] = awaited[t] /\ awaited[t] \in Children
      BY <1>2, <1>3 DEF GoesOn, Leaves, Inv, TypeOK
    <2>2. pc'[awaited[t]] \notin {"unborn", "entry"}
      BY <1>2, <2>1 DEF ChildMoves, Inv, Waiters
    <2>3. Runs(awaited[t])' => Runs(awaited[t]) /\ m_pthd = awaited[t]
      BY <1>2, <2>1 DEF ChildMoves, Runs, Running, Active, Inv, Runner
    <2>4. Runs(awaited[t]) => m_is_activated /\ m_n_finalized_count = 0
      BY <2>1 DEF Inv, Waiters, Runner, Turns, Runs, Running, TypeOK
    <2>5. pc'[t] \in {"reads_started", "waited"} /\ ret'[t] = OK => ~Runs(awaited[t])
      BY <1>2, <2>1, <2>4 DEF Knows, Inv, Waiters
    <2> QED BY <2>1, <2>2, <2>3, <2>5 DEF Runs
  <1> QED BY <1>1, <1>7, <1>8 DEF Inv

\* The timer and a spurious wakeup.
LEMMA WakeInv ==
    ASSUME Inv, NEW p \in Threads, Expire(p) \/ SpuriousWakeup(p)
    PROVE  Inv'
  <1>1. /\ UNCHANGED <<object, pc, call, ret, requested, history, awaited>>
        /\ pc[p] \in StartupCond \cup WaitCond \cup FinalizeCond
        /\ woken' \in [Threads -> {"no", "ok", "timedout"}]
        /\ \A q \in Threads \ {p} : woken'[q] = woken[q]
    BY DEF Expire, SpuriousWakeup, Asleep, Inv, TypeOK
  <1>2. TypeOK'
    BY <1>1 DEF Inv, TypeOK, object, flags, affinities, history
  <1>3. Runner' /\ Handshake'
    BY <1>1 DEF Inv, Runner, Handshake, Runs, Alive, object, flags
  <1>4. Turns' /\ Waiters'
    BY <1>1 DEF Inv, Turns, FinalCalls, Waiters, Runs, object, flags, history
  <1>5. Deleters'
    BY <1>1 DEF Inv, Deleters, CallerCall, ChildCall, Deletes, object, flags
  <1> QED BY <1>2, <1>3, <1>4, <1>5 DEF Inv

-----------------------------------------------------------------------------
(* The child.                                                              *)

\* A child that stays active goes on; entering s_finalize it takes the lock.
LEMMA ActiveStays ==
    ASSUME Inv, NEW c \in Children, NEW place \in Active, pc[c] \in Active \ {"finalizing"},
           pc' = [pc EXCEPT ![c] = place],
           UNCHANGED <<m_is_activated, m_is_started, m_startup_sync_done, m_n_finalized_count,
                       m_do_autodelete, m_pthd, call, ret, finals, awaited>>,
           \/ place # "finalizing" /\ m_finalize_lock' = m_finalize_lock
           \/ m_finalize_lock = Nobody /\ m_finalize_lock' = c
    PROVE  Runner' /\ Handshake' /\ Turns' /\ Deleters' /\ Waiters'
  <1> USE Constants
  <1>1. pc'[c] = place /\ \A p \in Threads \ {c} : pc'[p] = pc[p]
    BY DEF Inv, TypeOK
  <1>2. \A d \in Children : /\ Runs(d)' <=> Runs(d)
                            /\ pc'[d] \in Active <=> pc[d] \in Active
    BY <1>1 DEF Runs, Running
  <1>3. Runner'
    BY <1>2 DEF Inv, Runner
  <1>4. Handshake'
    BY <1>1 DEF Inv, Handshake, Alive, Active
  <1>5. Turns'
    <2>1. \A d \in Children : pc'[d] \in {"finalizing", "finalized"} => m_finalize_lock' = d
      BY <1>1 DEF Inv, TypeOK, Turns, Active
    <2>2. \A d \in Children : FinalCalls(d)'
      BY <1>1, <1>2 DEF Inv, Turns, FinalCalls, Active
    <2> QED BY <2>1, <2>2 DEF Inv, Turns
  <1>6. Deleters'
    <2>1. \A d \in Children : ChildCall(d)'
      BY <1>1 DEF Inv, Deleters, ChildCall, Deletes, Active
    <2>2. \A t \in Callers : CallerCall(t)'
      BY <1>1 DEF Inv, Deleters, CallerCall
    <2> QED BY <2>1, <2>2 DEF Inv, Deleters, Deletes
  <1>7. Waiters'
    BY <1>1, <1>2 DEF Inv, TypeOK, Waiters, Active
  <1> QED BY <1>3, <1>4, <1>5, <1>6, <1>7

\* The type, when only the child's place, the locks and the flags change.
LEMMA ChildType ==
    ASSUME Inv, NEW c \in Children, NEW place \in ChildPlaces,
           pc' = [pc EXCEPT ![c] = place],
           {m_is_activated, m_is_started, m_is_canceled}' \subseteq BOOLEAN,
           m_result_code' \in Int,
           canceled' \in [Children -> BOOLEAN],
           \/ m_finalize_lock' = m_finalize_lock /\ m_finalize_lock # c
           \/ m_finalize_lock' = c /\ place \in {"finalizing", "finalized"},
           UNCHANGED <<m_startup_sync_done, m_n_finalized_count, m_do_autodelete, m_pthd,
                       affinities, destroyed, call, ret, requested, finals, awaited>>,
           woken' \in [Threads -> {"no", "ok", "timedout"}],
           \A q \in Threads : woken'[q] # "no" =>
               /\ pc[q] \in StartupCond \cup WaitCond \cup FinalizeCond
               /\ q = c => place = pc[c]
    PROVE  TypeOK'
  <1> USE Constants
  <1>1. pc'[c] = place /\ \A p \in Threads \ {c} : pc'[p] = pc[p]
    BY DEF Inv, TypeOK
  <1>2. /\ pc' \in [Threads -> CallerPlaces \cup ChildPlaces]
        /\ \A t \in Callers : pc'[t] \in CallerPlaces
        /\ \A d \in Children : pc'[d] \in ChildPlaces
    BY <1>1 DEF Inv, TypeOK
  <1>3. m_finalize_lock' \in {Nobody} \cup {d \in Children : pc'[d] \in {"finalizing", "finalized"}}
    BY <1>1 DEF Inv, TypeOK
  <1>4. \A q \in Threads : woken'[q] # "no" => pc'[q] \in StartupCond \cup WaitCond \cup FinalizeCond
    BY <1>1
  <1>5. {m_is_activated, m_is_started, m_is_canceled, m_startup_sync_done, m_do_autodelete,
         destroyed}' \subseteq BOOLEAN
    BY DEF Inv, TypeOK
  <1> QED BY <1>2, <1>3, <1>4, <1>5 DEF Inv, TypeOK, affinities

LEMMA ChildEntersInv ==
    ASSUME Inv, NEW c \in Children, ChildEnters(c)
    PROVE  Inv'
  <1> USE Constants
  <1>1. /\ pc[c] = "entry" /\ pc' = [pc EXCEPT ![c] = AfterEntry]
        /\ m_is_canceled' = FALSE /\ m_is_activated' = TRUE /\ m_is_started' = TRUE
        /\ woken' = NotifyFrom(c, StartupCond)
        /\ UNCHANGED <<affinities, m_startup_sync_done, m_n_finalized_count, m_do_autodelete, m_pthd,
                       m_result_code, m_finalize_lock, destroyed, call, ret, requested, canceled,
                       finals, awaited>>
    BY DEF ChildEnters, At, history
  <1>2. AfterEntry \in {"main", "sync_sleep"}
    BY DEF AfterEntry
  <1>3. /\ pc'[c] = AfterEntry /\ \A p \in Threads \ {c} : pc'[p] = pc[p]
        /\ m_pthd = c /\ m_finalize_lock # c
    BY <1>1 DEF Inv, TypeOK, Runner, Runs, Running
  <1>4. TypeOK'
    <2>1. /\ woken' \in [Threads -> {"no", "ok", "timedout"}]
          /\ \A q \in Threads : woken'[q] # "no" =>
                 pc[q] \in StartupCond \cup WaitCond \cup FinalizeCond /\ q # c
      BY <1>1, NotifyType DEF Inv
    <2>2. {m_is_activated, m_is_started, m_is_canceled}' \subseteq BOOLEAN
      BY <1>1
    <2>3. AfterEntry \in ChildPlaces /\ m_result_code' \in Int /\ canceled' \in [Children -> BOOLEAN]
      BY <1>1, <1>2 DEF ChildPlaces, Inv, TypeOK
    <2> QED BY <1>1, <1>3, <2>1, <2>2, <2>3, ChildType
  <1>5. Runner'
    BY <1>1, <1>2, <1>3 DEF Inv, Runner, Runs, Running, Active
  <1>6. Handshake'
    BY <1>1, <1>2, <1>3 DEF Inv, Handshake, Runner, Runs, Running, Active
  <1>7. Turns'
    <2>1. \A d \in Children : FinalCalls(d)'
      BY <1>1, <1>2, <1>3 DEF Inv, Turns, FinalCalls, Runs, Running, Active
    <2>2. \A d \in Children : pc'[d] \in {"finalizing", "finalized"} => m_finalize_lock' = d
      BY <1>1, <1>2, <1>3 DEF Inv, Turns
    <2> QED BY <1>1, <2>1, <2>2 DEF Inv, Turns
  <1>8. Deleters'
    <2>1. \A d \in Children : ChildCall(d)'
      BY <1>1, <1>2, <1>3 DEF Inv, Deleters, ChildCall, Deletes
    <2>2. \A t \in Callers : CallerCall(t)'
      BY <1>1, <1>3 DEF Inv, Deleters, CallerCall
    <2> QED BY <1>1, <2>1, <2>2 DEF Inv, Deleters, Deletes
  <1>9. Waiters'
    BY <1>1, <1>2, <1>3 DEF Inv, TypeOK, Waiters, Runs, Running, Active
  <1> QED BY <1>4, <1>5, <1>6, <1>7, <1>8, <1>9 DEF Inv

LEMMA ChildSyncedInv ==
    ASSUME Inv, NEW c \in Children, ChildSynced(c)
    PROVE  Inv'
  <1> USE Constants
  <1>1. /\ pc[c] = "sync_sleep" /\ woken' = [woken EXCEPT ![c] = "no"]
        /\ \E place \in {"main", "sync_sleep"} : pc' = [pc EXCEPT ![c] = place]
        /\ UNCHANGED <<object, call, ret, requested, canceled, finals, awaited>>
    BY DEF ChildSynced, At, Awake, history, Inv, TypeOK
  <1>2. PICK place \in {"main", "sync_sleep"} : pc' = [pc EXCEPT ![c] = place]
    BY <1>1
  <1>3. UNCHANGED <<m_is_activated, m_is_started, m_is_canceled, m_startup_sync_done,
                    m_n_finalized_count, m_do_autodelete, m_pthd, m_result_code, affinities,
                    m_finalize_lock, destroyed>>
    BY <1>1 DEF object, flags
  <1>4. m_finalize_lock # c
    BY <1>1 DEF Inv, TypeOK
  <1>5. /\ woken' \in [Threads -> {"no", "ok", "timedout"}]
        /\ \A q \in Threads : woken'[q] # "no" =>
               pc[q] \in StartupCond \cup WaitCond \cup FinalizeCond /\ q # c
    BY <1>1 DEF Inv, TypeOK
  <1>6. TypeOK'
    <2>1. /\ {m_is_activated, m_is_started, m_is_canceled}' \subseteq BOOLEAN
          /\ m_result_code' \in Int /\ canceled' \in [Children -> BOOLEAN]
      BY <1>1, <1>3 DEF Inv, TypeOK
    <2>2. place \in ChildPlaces
      BY DEF ChildPlaces
    <2> QED BY <1>1, <1>2, <1>3, <1>4, <1>5, <2>1, <2>2, ChildType
  <1>7. Runner' /\ Handshake' /\ Turns' /\ Deleters' /\ Waiters'
    BY <1>1, <1>2, <1>3, ActiveStays DEF Active
  <1> QED BY <1>6, <1>7 DEF Inv

\* The main procedure returns, or is cancelled.
LEMMA MainInv ==
    ASSUME Inv, NEW c \in Children, MainReturns(c) \/ MainCanceled(c)
    PROVE  Inv'
  <1> USE Constants
  <1>1. /\ pc[c] = "main" /\ pc' = [pc EXCEPT ![c] = "ended"]
        /\ UNCHANGED <<object, call, woken, ret, requested, finals, awaited>>
        /\ canceled' \in [Children -> BOOLEAN]
    BY DEF MainReturns, MainCanceled, At, history, Inv, TypeOK
  <1>2. UNCHANGED <<m_is_activated, m_is_started, m_is_canceled, m_startup_sync_done,
                    m_n_finalized_count, m_do_autodelete, m_pthd, m_result_code, affinities,
                    m_finalize_lock, destroyed>>
    BY <1>1 DEF object, flags
  <1>3. m_finalize_lock # c
    BY <1>1 DEF Inv, TypeOK
  <1>4. \A q \in Threads : woken'[q] # "no" =>
            pc[q] \in StartupCond \cup WaitCond \cup FinalizeCond /\ q # c
    BY <1>1 DEF Inv, TypeOK, StartupCond, WaitCond, FinalizeCond
  <1>5. TypeOK'
    BY <1>1, <1>2, <1>3, <1>4, ChildType DEF Inv, TypeOK, ChildPlaces
  <1>6. Runner' /\ Handshake' /\ Turns' /\ Deleters' /\ Waiters'
    BY <1>1, <1>2, ActiveStays DEF Active
  <1> QED BY <1>5, <1>6 DEF Inv

LEMMA FinalizeBeginsInv ==
    ASSUME Inv, NEW c \in Children, FinalizeBegins(c)
    PROVE  Inv'
  <1> USE Constants
  <1>1. /\ pc[c] = "ended" /\ pc' = [pc EXCEPT ![c] = "finalizing"]
        /\ m_finalize_lock = Nobody /\ m_finalize_lock' = c
        /\ m_is_canceled' \in BOOLEAN /\ m_result_code' \in Int
        /\ UNCHANGED <<affinities, m_is_activated, m_is_started, m_startup_sync_done,
                       m_n_finalized_count, m_do_autodelete, m_pthd, destroyed, call, woken, ret,
                       requested, canceled, finals, awaited>>
    BY DEF FinalizeBegins, At, history, Inv, TypeOK
  <1>2. \A q \in Threads : woken'[q] # "no" =>
            pc[q] \in StartupCond \cup WaitCond \cup FinalizeCond /\ q # c
    BY <1>1 DEF Inv, TypeOK, StartupCond, WaitCond, FinalizeCond
  <1>3. TypeOK'
    BY <1>1, <1>2, ChildType DEF Inv, TypeOK, ChildPlaces
  <1>4. Runner' /\ Handshake' /\ Turns' /\ Deleters' /\ Waiters'
    BY <1>1, ActiveStays DEF Active
  <1> QED BY <1>3, <1>4 DEF Inv

LEMMA FinalizeRunsInv ==
    ASSUME Inv, NEW c \in Children, FinalizeRuns(c)
    PROVE  Inv'
  <1> USE Constants
  <1>1. /\ pc[c] = "finalizing" /\ pc' = [pc EXCEPT ![c] = "finalized"]
        /\ m_pthd' = Nobody /\ m_is_activated' = FALSE
        /\ m_n_finalized_count' = m_n_finalized_count + 1
        /\ finals' = [finals EXCEPT ![c] = @ + (IF m_n_finalized_count = 0 THEN 1 ELSE 0)]
        /\ call' = [call EXCEPT ![c] = IF m_do_autodelete
                                       THEN [op |-> "autodelete", timed |-> FALSE] ELSE NoCall]
        /\ affinity' = Cpus /\ late' = FALSE /\ woken' = NotifyFrom(c, WaitCond)
        /\ UNCHANGED <<m_is_started, m_is_canceled, m_startup_sync_done, m_do_autodelete,
                       m_result_code, m_cpuset, m_finalize_lock, destroyed, ret, requested,
                       canceled, awaited>>
    BY DEF FinalizeRuns, EndActivity, At
  <1>2. /\ m_pthd = c /\ m_finalize_lock = c /\ m_is_started /\ m_n_finalized_count = 0
        /\ \A d \in Children \ {c} : ~Runs(d)
    BY <1>1 DEF Inv, Runner, Runs, Running, Active, Turns
  <1>3. /\ pc'[c] = "finalized" /\ \A p \in Threads \ {c} : pc'[p] = pc[p] /\ call'[p] = call[p]
        /\ call'[c] = IF m_do_autodelete THEN [op |-> "autodelete", timed |-> FALSE] ELSE NoCall
    BY <1>1 DEF Inv, TypeOK
  <1>4. m_do_autodelete => \A p \in Threads : ~Deletes(p)
    BY <1>2 DEF Inv, Deleters
  <1>5. TypeOK'
    <2>1. /\ call' \in [Threads -> [op : {"none", "start", "wait", "autodelete", "destroy"},
                                    timed : BOOLEAN]]
          /\ pc' \in [Threads -> CallerPlaces \cup ChildPlaces]
          /\ finals' \in [Children -> Nat] /\ m_n_finalized_count' \in Nat
      BY <1>1, <1>2 DEF NoCall, Inv, TypeOK, ChildPlaces
    <2>2. /\ \A t \in Callers : pc'[t] \in CallerPlaces
          /\ \A d \in Children : pc'[d] \in ChildPlaces
          /\ m_finalize_lock' \in {Nobody} \cup {d \in Children : pc'[d] \in {"finalizing", "finalized"}}
      BY <1>1, <1>2, <1>3 DEF Inv, TypeOK, ChildPlaces
    <2>3. /\ woken' \in [Threads -> {"no", "ok", "timedout"}]
          /\ \A q \in Threads : woken'[q] # "no" => pc'[q] \in StartupCond \cup WaitCond \cup FinalizeCond
      BY <1>1, <1>3, NotifyType DEF Inv
    <2>4. affinity' \in (SUBSET Cpus) \ {{}} /\ late' \in BOOLEAN
      BY <1>1, ThreadAssumption
    <2>5. {m_is_activated, m_is_started, m_is_canceled, m_startup_sync_done, m_do_autodelete,
           destroyed}' \subseteq BOOLEAN
      BY <1>1 DEF Inv, TypeOK
    <2> QED BY <1>1, <2>1, <2>2, <2>3, <2>4, <2>5 DEF Inv, TypeOK
  <1>6. Runner'
    BY <1>1, <1>2, <1>3 DEF Inv, Runner, Runs, Running, Active
  <1>7. Handshake'
    BY <1>1, <1>2, <1>3 DEF Inv, Handshake
  <1>8. Turns'
    <2>1. finals'[c] = 1
      BY <1>1, <1>2 DEF Inv, TypeOK, Turns, FinalCalls, Runs, Running, Active
    <2>2. \A d \in Children \ {c} : finals'[d] = finals[d]
      BY <1>1 DEF Inv, TypeOK
    <2>3. \A d \in Children : FinalCalls(d)'
      BY <1>3, <2>1, <2>2 DEF Inv, Turns, FinalCalls, Runs, Running, Active
    <2>4. \A d \in Children : pc'[d] \in {"finalizing", "finalized"} => m_finalize_lock' = d
      BY <1>1, <1>2, <1>3 DEF Inv, Turns
    <2> QED BY <1>1, <2>3, <2>4 DEF Turns
  <1>9. Deleters'
    <2>1. /\ \A p \in Threads \ {c} : Deletes(p)' <=> Deletes(p)
          /\ Deletes(c)' => m_do_autodelete
      BY <1>3 DEF Deletes, NoCall
    <2>2. \A t \in Callers : CallerCall(t)'
      BY <1>3 DEF Inv, Deleters, CallerCall
    <2>3. ASSUME NEW d \in Children PROVE ChildCall(d)'
      <3>1. CASE d = c
        BY <1>1, <1>3, <3>1 DEF ChildCall, Deletes, NoCall
      <3>2. CASE d # c
        BY <1>1, <1>3, <3>2 DEF Inv, Deleters, ChildCall, Deletes
      <3> QED BY <3>1, <3>2
    <2>4. \A p, q \in Threads : Deletes(p)' /\ Deletes(q)' => p = q
      BY <1>4, <2>1 DEF Inv, Deleters
    <2> QED BY <1>1, <2>2, <2>3, <2>4 DEF Deleters
  <1>10. Waiters'
    BY <1>1, <1>2, <1>3 DEF Inv, TypeOK, Waiters, Runs, Running, Active
  <1> QED BY <1>5, <1>6, <1>7, <1>8, <1>9, <1>10 DEF Inv

LEMMA FinalizeEndsInv ==
    ASSUME Inv, NEW c \in Children, FinalizeEnds(c)
    PROVE  Inv'
  <1> USE Constants
  <1>1. /\ pc[c] = "finalized" /\ m_finalize_lock' = Nobody
        /\ woken' = NotifyFrom(c, FinalizeCond)
        /\ UNCHANGED <<m_is_activated, m_is_started, m_is_canceled, m_startup_sync_done,
                       m_n_finalized_count, m_do_autodelete, m_pthd, m_result_code, affinities,
                       destroyed, ret, requested, canceled, finals, awaited>>
    BY DEF FinalizeEnds, flags, history
  <1>2. /\ m_finalize_lock = c
        /\ \A d \in Children \ {c} : pc[d] \notin {"finalizing", "finalized"}
    BY <1>1 DEF Inv, Turns
  <1>3. /\ \/ /\ call[c].op = "autodelete" /\ pc' = [pc EXCEPT ![c] = "destroy"]
              /\ call' = [call EXCEPT ![c].op = "destroy"]
           \/ call[c].op = "none" /\ pc' = [pc EXCEPT ![c] = "gone"] /\ call' = call
    BY <1>1 DEF FinalizeEnds, At, Inv, Deleters, ChildCall
  <1>4. /\ \A p \in Threads \ {c} : pc'[p] = pc[p] /\ call'[p] = call[p]
        /\ \/ call[c].op = "autodelete" /\ pc'[c] = "destroy" /\ call'[c].op = "destroy"
           \/ call[c].op = "none" /\ pc'[c] = "gone" /\ call'[c].op = "none"
    BY <1>3 DEF Inv, TypeOK
  <1>5. TypeOK'
    <2>1. /\ call' \in [Threads -> [op : {"none", "start", "wait", "autodelete", "destroy"},
                                    timed : BOOLEAN]]
          /\ pc' \in [Threads -> CallerPlaces \cup ChildPlaces]
      <3>1. [call[c] EXCEPT !.op = "destroy"]
              \in [op : {"none", "start", "wait", "autodelete", "destroy"}, timed : BOOLEAN]
        BY DEF Inv, TypeOK
      <3>2. pc' \in [Threads -> CallerPlaces \cup ChildPlaces]
        BY <1>3 DEF Inv, TypeOK, ChildPlaces
      <3> QED BY <1>3, <3>1, <3>2 DEF Inv, TypeOK
    <2>2. /\ \A t \in Callers : pc'[t] \in CallerPlaces
          /\ \A d \in Children : pc'[d] \in ChildPlaces
      BY <1>4 DEF Inv, TypeOK, ChildPlaces
    <2>3. /\ woken' \in [Threads -> {"no", "ok", "timedout"}]
          /\ \A q \in Threads : woken'[q] # "no" => pc'[q] \in StartupCond \cup WaitCond \cup FinalizeCond
      BY <1>1, <1>4, NotifyType DEF Inv
    <2> QED BY <1>1, <2>1, <2>2, <2>3 DEF Inv, TypeOK, affinities
  <1>6. Runner'
    BY <1>1, <1>4 DEF Inv, Runner, Runs, Running, Active
  <1>7. Handshake'
    BY <1>1, <1>4 DEF Inv, Handshake, Alive
  <1>8. Turns'
    <2>1. \A d \in Children : FinalCalls(d)'
      BY <1>1, <1>4 DEF Inv, Turns, FinalCalls, Runs, Running, Active
    <2>2. \A d \in Children : pc'[d] \notin {"finalizing", "finalized"}
      BY <1>2, <1>4
    <2> QED BY <1>1, <2>1, <2>2 DEF Inv, Turns
  <1>9. Deleters'
    <2>1. \A p \in Threads : Deletes(p)' <=> Deletes(p)
      BY <1>4 DEF Deletes
    <2>2. \A t \in Callers : CallerCall(t)'
      BY <1>4 DEF Inv, Deleters, CallerCall
    <2>3. \A d \in Children : ChildCall(d)'
      BY <1>1, <1>4, <2>1 DEF Inv, Deleters, ChildCall
    <2> QED BY <1>1, <2>1, <2>2, <2>3 DEF Inv, Deleters
  <1>10. Waiters'
    BY <1>1, <1>4 DEF Inv, TypeOK, Waiters, Runs, Running, Active
  <1> QED BY <1>5, <1>6, <1>7, <1>8, <1>9, <1>10 DEF Inv

-----------------------------------------------------------------------------
(* The theorems.                                                           *)

LEMMA InitInv == Init => Inv
  <1> USE Constants
  <1> SUFFICES ASSUME Init PROVE Inv
    OBVIOUS
  <1>1. /\ \A t \in Callers : pc[t] = "idle"
        /\ \A c \in Children : pc[c] = "unborn"
        /\ \A p \in Threads : call[p] = NoCall /\ awaited[p] = Nobody
        /\ m_pthd = Nobody /\ m_is_activated = FALSE
    BY DEF Init, InitObject
  <1>2. TypeOK
    BY <1>1, ThreadAssumption DEF Init, InitObject, TypeOK, CallerPlaces, ChildPlaces, NoCall
  <1>3. Runner /\ Handshake
    BY <1>1 DEF Runner, Handshake, Runs, Running, Active, Alive
  <1>4. Turns
    BY <1>1 DEF Init, Turns, FinalCalls
  <1>5. Deleters /\ Waiters
    BY <1>1 DEF Deleters, CallerCall, ChildCall, Deletes, NoCall, Waiters
  <1> QED BY <1>2, <1>3, <1>4, <1>5 DEF Inv

LEMMA NextInv == OneStarter => (Inv /\ [Next]_vars => Inv')
  <1> USE Constants
  <1> SUFFICES ASSUME OneStarter, Inv, [Next]_vars PROVE Inv'
    OBVIOUS
  <1>1. ASSUME NEW t \in Starters, NEW autodelete \in BOOLEAN,
               Start(t, autodelete) \/ StartRefused(t, autodelete)
        PROVE  Inv'
    BY <1>1, StartInv, StartRefusedInv
  <1>2. ASSUME NEW t \in Callers,
               \/ StartResumes(t) \/ Cancel(t) \/ Destroy(t)
               \/ \E cpus \in SUBSET Cpus : cpus \in CpuSets /\ SetAffinity(t, cpus)
               \/ \E timed \in BOOLEAN : Wait(t, timed)
        PROVE  Inv'
    BY <1>2, StartResumesInv, CancelInv, DestroyInv, SetAffinityInv, WaitInv
  <1>3. ASSUME NEW c \in Children, ChildRuns(c) \/ MainReturns(c)
        PROVE  Inv'
    BY <1>3, ChildEntersInv, ChildSyncedInv, MainInv, FinalizeBeginsInv, FinalizeRunsInv,
       FinalizeEndsInv
    DEF ChildRuns
  <1>4. ASSUME NEW p \in Threads, Waits(p) \/ Expire(p) \/ SpuriousWakeup(p)
        PROVE  Inv'
    BY <1>4, WaitsInv, WakeInv
  <1>5. CASE UNCHANGED vars
    <2>1. UNCHANGED <<object, pc, call, woken, ret, requested, history, awaited>>
      BY <1>5 DEF vars
    <2>2. TypeOK'
      BY <2>1 DEF Inv, TypeOK, object, flags, affinities, history
    <2>3. Runner' /\ Handshake'
      BY <2>1 DEF Inv, Runner, Handshake, Runs, Alive, object, flags
    <2>4. Turns' /\ Waiters'
      BY <2>1 DEF Inv, Turns, FinalCalls, Waiters, Runs, object, flags, history
    <2>5. Deleters'
      BY <2>1 DEF Inv, Deleters, CallerCall, ChildCall, Deletes, object, flags
    <2> QED BY <2>2, <2>3, <2>4, <2>5 DEF Inv
  <1> QED BY <1>1, <1>2, <1>3, <1>4, <1>5 DEF Next

\* With one starter at a time the object has one thread: two are alive only when one of
\* them has ended its activity (s_finalize), and m_pthd, which gallus_thread_cancel gives
\* to pthread_cancel, is a thread that is there.
THEOREM OneThreadCorrect == OneStarter => (Spec => [](TypeOK /\ OneThread))
  <1> SUFFICES ASSUME OneStarter PROVE Spec => [](TypeOK /\ OneThread)
    OBVIOUS
  <1>1. Inv => OneThread
    <2> SUFFICES ASSUME Inv PROVE OneThread
      OBVIOUS
    <2>1. ASSUME NEW c \in Children, NEW d \in Children, c # d, Alive(c), Alive(d)
          PROVE  pc[c] = "finalized" \/ pc[d] = "finalized"
      <3>1. ASSUME NEW e \in Children, Alive(e)
            PROVE  pc[e] = "finalized" \/ m_pthd = e \/ (Deletes(e) /\ m_pthd = Nobody)
        BY <3>1, Constants DEF Inv, TypeOK, ChildPlaces, Alive, Runner, Runs, Running, Active,
                               Deleters, ChildCall, Deletes
      <3> QED BY <2>1, <3>1, Constants DEF Inv, Deleters
    <2>2. m_pthd # Nobody => pc[m_pthd] \notin {"unborn", "finalized", "destroy", "gone"}
      BY DEF Inv, TypeOK, Runner, Runs, Running, Active
    <2> QED BY <2>1, <2>2 DEF OneThread
  <1>2. Inv => TypeOK
    BY DEF Inv
  <1> QED BY <1>1, <1>2, InitInv, NextInv, PTL DEF Spec

\* The final procedure is called exactly once for every thread of the object, and before a
\* wait for that thread succeeds, whatever times out or wakes up spuriously meanwhile.
THEOREM FinalProcCorrect == OneStarter => (Spec => []FinalProcOnce)
  <1> SUFFICES ASSUME OneStarter PROVE Spec => []FinalProcOnce
    OBVIOUS
  <1>1. Inv => FinalProcOnce
    BY Constants DEF Inv, TypeOK, Turns, FinalCalls, Waiters, Runs, Running, Active, FinalProcOnce
  <1> QED BY <1>1, InitInv, NextInv, PTL DEF Spec

-----------------------------------------------------------------------------
(* The CPUs.                                                               *)

\* What the system was told last is what m_cpuset says.
InForce == m_pthd # Nobody /\ m_cpuset # {} /\ ~late => affinity = m_cpuset

LEMMA InForceSuffices == InForce => AffinityInForce
  <1> SUFFICES ASSUME InForce, m_cpuset # {}, ~late
               PROVE  /\ m_pthd # Nobody => affinity = m_cpuset
                      /\ GetAffinity \in {Min(m_cpuset), ALREADY_HALTED}
    BY DEF AffinityInForce
  <1>1. CASE Applies
    BY <1>1 DEF InForce, GetAffinity, Applies
  <1>2. CASE ~Applies
    BY <1>2 DEF InForce, GetAffinity, Applies
  <1> QED BY <1>1, <1>2

LEMMA InForceStep == InForce /\ [Next]_vars => InForce'
  <1> SUFFICES ASSUME InForce, [Next]_vars PROVE InForce'
    OBVIOUS
  <1>1. ASSUME NEW t \in Starters, NEW autodelete \in BOOLEAN, Start(t, autodelete)
        PROVE  InForce'
    BY <1>1 DEF Start, AffinityAtStart, InForce
  <1>2. ASSUME NEW t \in Starters, NEW autodelete \in BOOLEAN, StartRefused(t, autodelete)
        PROVE  InForce'
    BY <1>2 DEF StartRefused, affinities, InForce
  <1>3. ASSUME NEW t \in Callers, NEW cpus \in CpuSets, SetAffinity(t, cpus)
        PROVE  InForce'
    <2>1. m_pthd' = m_pthd /\ m_is_started' = m_is_started /\ m_cpuset' = cpus
      BY <1>3 DEF SetAffinity, flags
    <2>2. CASE Applies
      BY <1>3, <2>1, <2>2 DEF SetAffinity, InForce
    <2>3. CASE ~Applies
      BY <1>3, <2>1, <2>3 DEF SetAffinity, InForce, Applies
    <2> QED BY <2>2, <2>3
  <1>4. ASSUME NEW c \in Children, FinalizeRuns(c)
        PROVE  InForce'
    BY <1>4 DEF FinalizeRuns, EndActivity, InForce
  <1>5. ASSUME NEW p \in Threads, WaitEnds(p)
        PROVE  InForce'
    BY <1>5 DEF WaitEnds, flags, InForce
  <1>6. ASSUME UNCHANGED <<m_pthd, affinities>>
        PROVE  InForce'
    BY <1>6 DEF affinities, InForce
  <1>7. ASSUME NEW t \in Callers,
               \/ StartResumes(t) \/ Cancel(t) \/ Destroy(t)
               \/ \E timed \in BOOLEAN : Wait(t, timed)
        PROVE  InForce'
    BY <1>6, <1>7 DEF StartResumes, Cancel, Destroy, Wait, object, flags
  <1>8. ASSUME NEW c \in Children,
               \/ ChildEnters(c) \/ ChildSynced(c) \/ MainCanceled(c) \/ FinalizeBegins(c)
               \/ FinalizeEnds(c) \/ MainReturns(c)
        PROVE  InForce'
    BY <1>6, <1>8 DEF ChildEnters, ChildSynced, MainCanceled, FinalizeBegins, FinalizeEnds,
                      MainReturns, object, flags
  <1>9. ASSUME NEW p \in Threads,
               \/ DestroyCancels(p) \/ WaitChecks(p) \/ WaitReads(p) \/ WaitFinal(p)
               \/ Expire(p) \/ SpuriousWakeup(p)
        PROVE  InForce'
    BY <1>6, <1>9 DEF DestroyCancels, WaitChecks, WaitReads, WaitFinal, Expire, SpuriousWakeup,
                      object, flags
  <1>10. CASE UNCHANGED vars
    BY <1>6, <1>10 DEF vars, object, flags
  <1> QED BY <1>1, <1>2, <1>3, <1>4, <1>5, <1>7, <1>8, <1>9, <1>10 DEF Next, ChildRuns, Waits

\* Whoever starts and however often: a thread runs on the CPUs that were last asked for,
\* by gallus_thread_set_cpu_affinity and its kin, and these are what can be asked.
THEOREM AffinityCorrect == Spec => []AffinityInForce
  <1>1. Init => InForce
    BY DEF Init, InitObject, InForce
  <1> QED BY <1>1, InForceStep, InForceSuffices, PTL DEF Spec

-----------------------------------------------------------------------------
(* Nobody is inside when the object is torn down.                          *)

\* What is done without a time limit stays so.
LEMMA UntimedStays ==
    ASSUME Untimed,
           \A p \in Threads :
               \/ /\ call'[p] = call[p]
                  /\ woken'[p] = "timedout" => woken[p] = "timedout" \/ call[p].timed
               \/ /\ woken'[p] # "timedout"
                  /\ call'[p].op \in {"autodelete", "destroy"} => ~call'[p].timed
    PROVE  Untimed'
  BY DEF Untimed, Deletes

LEMMA UntimedStep == Inv /\ Untimed /\ [Next]_vars => Untimed'
  <1> USE Constants
  <1> SUFFICES ASSUME Inv, Untimed, [Next]_vars PROVE Untimed'
    OBVIOUS
  <1>0. /\ call \in [Threads -> [op : {"none", "start", "wait", "autodelete", "destroy"},
                                 timed : BOOLEAN]]
        /\ woken \in [Threads -> {"no", "ok", "timedout"}]
        /\ \A p \in Threads : woken[p] # "no" => pc[p] \in StartupCond \cup WaitCond \cup FinalizeCond
    BY DEF Inv, TypeOK
  <1>1. ASSUME NEW t \in Callers, pc[t] = "idle", woken' = woken,
               \A p \in Threads \ {t} : call'[p] = call[p],
               \/ call'[t] = call[t]
               \/ call'[t].op \in {"autodelete", "destroy"} => ~call'[t].timed
        PROVE  Untimed'
    <2>1. woken[t] = "no"
      BY <1>0, <1>1 DEF StartupCond, WaitCond, FinalizeCond
    <2> QED BY <1>1, <2>1, UntimedStays
  <1>2. ASSUME NEW t \in Starters, NEW autodelete \in BOOLEAN,
               Start(t, autodelete) \/ StartRefused(t, autodelete)
        PROVE  Untimed'
    <2>1. pc[t] = "idle" /\ woken' = woken
      BY <1>2 DEF Start, StartRefused, Free
    <2>2. \/ call' = [call EXCEPT ![t] = [op |-> "start", timed |-> FALSE]]
          \/ call' = [call EXCEPT ![t] = NoCall]
      BY <1>2 DEF Start, StartRefused, Returns
    <2>3. /\ \A p \in Threads \ {t} : call'[p] = call[p]
          /\ call'[t] \in {NoCall, [op |-> "start", timed |-> FALSE]}
      BY <1>0, <2>2
    <2> QED BY <1>1, <2>1, <2>3 DEF NoCall
  <1>3. ASSUME NEW t \in Callers,
               \/ Cancel(t) \/ Destroy(t)
               \/ \E cpus \in CpuSets : SetAffinity(t, cpus)
        PROVE  Untimed'
    <2>1. pc[t] = "idle" /\ woken' = woken
      BY <1>3 DEF Cancel, Destroy, SetAffinity, Free
    <2>2. \/ call' = call \/ call' = [call EXCEPT ![t] = NoCall]
          \/ call' = [call EXCEPT ![t] = [op |-> "destroy", timed |-> FALSE]]
      BY <1>3 DEF Cancel, Destroy, SetAffinity, Returns
    <2>3. /\ \A p \in Threads \ {t} : call'[p] = call[p]
          /\ call'[t] \in {call[t], NoCall, [op |-> "destroy", timed |-> FALSE]}
      BY <1>0, <2>2
    <2> QED BY <1>1, <2>1, <2>3 DEF NoCall
  <1>9. ASSUME NEW t \in Callers, NEW timed \in BOOLEAN, Wait(t, timed)
        PROVE  Untimed'
    <2>1. /\ pc[t] = "idle" /\ woken' = woken
          /\ call' = [call EXCEPT ![t] = [op |-> "wait", timed |-> timed]]
      BY <1>9 DEF Wait, Free
    <2>2. /\ \A p \in Threads \ {t} : call'[p] = call[p]
          /\ call'[t] = [op |-> "wait", timed |-> timed]
      BY <1>0, <2>1
    <2> QED BY <1>1, <2>1, <2>2
  <1>4. ASSUME NEW t \in Callers, StartResumes(t)
        PROVE  Untimed'
    <2>1. /\ call' = call \/ call' = [call EXCEPT ![t] = NoCall]
          /\ woken' = NotifyFrom(t, StartupCond) \/ woken' = [woken EXCEPT ![t] = "no"]
      BY <1>4 DEF StartResumes, Acknowledge, Returns, Awake
    <2>2. /\ woken'[t] = "no"
          /\ \A p \in Threads \ {t} : /\ call'[p] = call[p]
                                      /\ woken'[p] = "timedout" => woken[p] = "timedout"
      BY <1>0, <2>1 DEF NotifyFrom
    <2>3. call'[t] = call[t] \/ call'[t] = NoCall
      BY <1>0, <2>1
    <2> QED BY <2>2, <2>3, UntimedStays DEF NoCall
  <1>5. ASSUME NEW c \in Children, ChildRuns(c) \/ MainReturns(c)
        PROVE  Untimed'
    <2>1. CASE ChildEnters(c)
      <3>1. call' = call /\ \A p \in Threads : woken'[p] = "timedout" => woken[p] = "timedout"
        BY <2>1, NotifyType DEF ChildEnters, Inv
      <3> QED BY <3>1, UntimedStays
    <2>2. CASE ChildSynced(c) \/ MainCanceled(c) \/ MainReturns(c) \/ FinalizeBegins(c)
      <3>1. call' = call /\ (woken' = woken \/ woken' = [woken EXCEPT ![c] = "no"])
        BY <2>2 DEF ChildSynced, MainCanceled, MainReturns, FinalizeBegins, Awake
      <3>2. \A p \in Threads : woken'[p] = "timedout" => woken[p] = "timedout"
        BY <1>0, <3>1
      <3> QED BY <3>1, <3>2, UntimedStays
    <2>3. CASE FinalizeRuns(c)
      <3>1. /\ \A p \in Threads : woken'[p] = "timedout" => woken[p] = "timedout"
            /\ woken'[c] = "no"
        BY <2>3, NotifyType DEF FinalizeRuns, Inv
      <3>2. /\ \A p \in Threads \ {c} : call'[p] = call[p]
            /\ call'[c] \in {NoCall, [op |-> "autodelete", timed |-> FALSE]}
        BY <1>0, <2>3 DEF FinalizeRuns
      <3> QED BY <3>1, <3>2, UntimedStays DEF NoCall
    <2>4. CASE FinalizeEnds(c)
      <3>1. /\ \A p \in Threads : woken'[p] = "timedout" => woken[p] = "timedout"
            /\ woken'[c] = "no"
        BY <2>4, NotifyType DEF FinalizeEnds, Inv
      <3>2. /\ \A p \in Threads \ {c} : call'[p] = call[p]
            /\ call'[c].timed = call[c].timed
            /\ call'[c] = call[c] \/ call[c].op = "autodelete"
        BY <1>0, <2>4 DEF FinalizeEnds
      <3>3. call'[c] = call[c] \/ ~call'[c].timed
        BY <3>2 DEF Untimed, Deletes
      <3> QED BY <3>1, <3>2, <3>3, UntimedStays
    <2> QED BY <1>5, <2>1, <2>2, <2>3, <2>4 DEF ChildRuns
  <1>6. ASSUME NEW p \in Threads, Waits(p)
        PROVE  Untimed'
    <2>1. /\ pc[p] = "waited" => woken[p] = "no"
          /\ woken' = woken \/ woken' = [woken EXCEPT ![p] = "no"]
      BY <1>0, <1>6 DEF Waits, DestroyCancels, WaitChecks, WaitReads, WaitFinal, WaitEnds, Awake,
                        StartupCond, WaitCond, FinalizeCond
    <2>2. \A q \in Threads : woken'[q] = "timedout" => woken[q] = "timedout"
      BY <1>0, <2>1
    <2>3. \/ call' = call
          \/ pc[p] = "waited" /\ call' = [call EXCEPT ![p] = NoCall]
      BY <1>6, WaitsMove DEF GoesOn, Leaves
    <2>4. CASE call' = call
      BY <2>2, <2>4, UntimedStays
    <2>5. CASE pc[p] = "waited" /\ call' = [call EXCEPT ![p] = NoCall]
      BY <1>0, <2>1, <2>2, <2>5, UntimedStays DEF NoCall
    <2> QED BY <2>3, <2>4, <2>5
  <1>7. ASSUME NEW p \in Threads, Expire(p) \/ SpuriousWakeup(p)
        PROVE  Untimed'
    <2>1. /\ call' = call
          /\ \A q \in Threads : woken'[q] = "timedout" => woken[q] = "timedout" \/ call[q].timed
      BY <1>0, <1>7 DEF Expire, SpuriousWakeup
    <2> QED BY <2>1, UntimedStays
  <1>8. CASE UNCHANGED vars
    BY <1>8, UntimedStays DEF vars
  <1> QED BY <1>2, <1>3, <1>4, <1>5, <1>6, <1>7, <1>8, <1>9 DEF Next

\* A caller that begins a call, when nobody destroys the object.
LEMMA CallerBegins ==
    ASSUME SafeInv, NEW t \in Callers, Free(t),
           UNCHANGED <<m_do_autodelete, m_pthd, m_finalize_lock>>,
           \A p \in Threads \ {t} : pc'[p] = pc[p] /\ call'[p] = call[p],
           \/ call'[t].op # "destroy"
           \/ pc'[t] \notin Seen /\ \A u \in Callers : pc[u] = "idle"
    PROVE  SelfDeletion' /\ Destruction'
  <1> USE Constants
  <1>1. /\ \A p \in Threads : ~Deletes(p)
        /\ m_do_autodelete => m_pthd = Nobody
    <2>1. m_do_autodelete => \A c \in Children : ~Runs(c)
      BY DEF Free, Usable, Runs, Running, Active
    <2> QED BY <2>1 DEF Free, Usable, Deletes, SafeInv, Inv, Runner, TypeOK
  <1>2. \A p \in Threads \ {t} : ~Deletes(p)'
    BY <1>1 DEF Deletes
  <1>3. SelfDeletion'
    BY <1>1, <1>2 DEF SafeInv, SelfDeletion, Deletes
  <1>4. Destruction'
    <2> SUFFICES ASSUME NEW u \in Callers, call'[u].op = "destroy"
                 PROVE  /\ \A v \in Callers \ {u} : pc'[v] = "idle"
                        /\ pc'[u] \notin Seen
      BY DEF Destruction, Seen
    <2>1. u = t
      BY <1>2 DEF Deletes
    <2> QED BY <2>1
  <1> QED BY <1>3, <1>4

LEMMA StartSafe ==
    ASSUME SafeInv, OneStarter, NEW t \in Starters, NEW autodelete \in BOOLEAN,
           Start(t, autodelete)
    PROVE  SelfDeletion' /\ Destruction'
  <1> USE Constants
  <1>1. PICK c \in Children :
          /\ pc[c] = "unborn" /\ m_pthd' = c
          /\ pc' = [pc EXCEPT ![t] = "start_sleep", ![c] = "entry"]
    BY DEF Start
  <1>2. /\ pc[t] = "idle" /\ t \in Callers /\ \A p \in Threads : ~Deletes(p)
        /\ m_do_autodelete' = autodelete
        /\ autodelete => \A u \in Callers : pc[u] = "idle"
    BY DEF Start, Free, Usable, Deletes
  <1>3. /\ pc'[t] = "start_sleep" /\ pc'[c] = "entry"
        /\ \A p \in Threads \ {t, c} : pc'[p] = pc[p]
        /\ \A p \in Threads : ~Deletes(p)'
    BY <1>1, <1>2 DEF Start, SafeInv, Inv, TypeOK, Deletes
  <1>4. SelfDeletion'
    <2>1. \A d \in Children : ~Deletes(d)' /\ call'[d].op # "destroy"
      BY <1>3 DEF Deletes
    <2>2. m_pthd' # Nobody /\ pc'[m_pthd'] = "entry"
      BY <1>1, <1>3
    <2>3. m_do_autodelete' => \A u \in Callers \ {t} : pc'[u] = "idle"
      BY <1>2, <1>3
    <2> QED BY <1>3, <2>1, <2>2, <2>3 DEF SelfDeletion
  <1>5. Destruction'
    BY <1>3 DEF Destruction, Deletes
  <1> QED BY <1>4, <1>5

LEMMA StartRefusedSafe ==
    ASSUME SafeInv, OneStarter, PlainFails, NEW t \in Starters, NEW autodelete \in BOOLEAN,
           StartRefused(t, autodelete)
    PROVE  SelfDeletion' /\ Destruction'
  <1> USE Constants
  <1>1. /\ Free(t) /\ \A p \in Threads \ {t} : pc'[p] = pc[p] /\ call'[p] = call[p]
        /\ call'[t] = NoCall /\ m_finalize_lock' = m_finalize_lock
    BY DEF StartRefused, Returns, At, SafeInv, Inv, TypeOK
  <1>2. CASE UNCHANGED <<m_do_autodelete, m_pthd>>
    BY <1>1, <1>2, CallerBegins DEF NoCall
  <1>3. CASE autodelete \in CreateFails /\ m_do_autodelete' = autodelete
    <2>1. ~m_do_autodelete'
      BY <1>3 DEF PlainFails
    <2>2. \A p \in Threads : ~Deletes(p)'
      BY <1>1 DEF Free, Usable, Deletes, NoCall
    <2>3. SelfDeletion' /\ Destruction'
      BY <2>1, <2>2 DEF SelfDeletion, Destruction, Deletes
    <2> QED BY <2>3
  <1> QED BY <1>2, <1>3 DEF StartRefused

\* The other calls: cancel, the CPUs, wait and destroy.
LEMMA CallsSafe ==
    ASSUME SafeInv, NEW t \in Callers,
           \/ Cancel(t) \/ Destroy(t)
           \/ \E cpus \in CpuSets : SetAffinity(t, cpus)
           \/ \E timed \in BOOLEAN : Wait(t, timed)
    PROVE  SelfDeletion' /\ Destruction'
  <1> USE Constants
  <1>0. pc \in [Threads -> CallerPlaces \cup ChildPlaces] /\ DOMAIN call = Threads
    BY DEF SafeInv, Inv, TypeOK
  <1>1. CASE Cancel(t)
    <2>1. /\ Free(t) /\ UNCHANGED <<m_do_autodelete, m_pthd, m_finalize_lock>>
          /\ pc' = [pc EXCEPT ![t] = IF t \in Callers THEN "idle" ELSE "gone"]
          /\ call' = [call EXCEPT ![t] = NoCall]
      BY <1>1 DEF Cancel, Returns, At, object, flags
    <2> QED BY <1>0, <2>1, CallerBegins DEF NoCall
  <1>2. CASE Destroy(t)
    <2>1. /\ Free(t) /\ UNCHANGED <<m_do_autodelete, m_pthd, m_finalize_lock>>
          /\ pc' = [pc EXCEPT ![t] = "destroy"] /\ \A u \in Callers : pc[u] = "idle"
          /\ call' = [call EXCEPT ![t] = [op |-> "destroy", timed |-> FALSE]]
      BY <1>2 DEF Destroy, At, object, flags
    <2> QED BY <1>0, <2>1, CallerBegins DEF Seen
  <1>3. ASSUME NEW cpus \in CpuSets, SetAffinity(t, cpus)
        PROVE  SelfDeletion' /\ Destruction'
    <2>1. /\ Free(t) /\ UNCHANGED <<m_do_autodelete, m_pthd, m_finalize_lock, pc, call>>
          /\ call[t].op # "destroy"
      BY <1>3 DEF SetAffinity, flags, Free, Usable
    <2> QED BY <1>0, <2>1, CallerBegins
  <1>4. ASSUME NEW timed \in BOOLEAN, Wait(t, timed)
        PROVE  SelfDeletion' /\ Destruction'
    <2>1. /\ Free(t) /\ UNCHANGED <<m_do_autodelete, m_pthd, m_finalize_lock>>
          /\ pc' = [pc EXCEPT ![t] = "wait"]
          /\ call' = [call EXCEPT ![t] = [op |-> "wait", timed |-> timed]]
      BY <1>4 DEF Wait, At, object, flags
    <2> QED BY <1>0, <2>1, CallerBegins
  <1> QED BY <1>1, <1>2, <1>3, <1>4

LEMMA StartResumesSafe ==
    ASSUME SafeInv, NEW t \in Callers, StartResumes(t)
    PROVE  SelfDeletion' /\ Destruction'
  <1> USE Constants
  <1>1. /\ pc[t] = "start_sleep" /\ call[t].op = "start"
        /\ UNCHANGED <<m_do_autodelete, m_pthd, m_finalize_lock>>
    BY DEF StartResumes, SafeInv, Inv, Deleters, CallerCall
  <1>2. /\ \A p \in Threads \ {t} : pc'[p] = pc[p] /\ call'[p] = call[p]
        /\ \/ pc'[t] = "idle" /\ call'[t] = NoCall
           \/ pc'[t] = pc[t] /\ call'[t] = call[t]
    <2>0. /\ pc \in [Threads -> CallerPlaces \cup ChildPlaces]
          /\ DOMAIN call = Threads
      BY DEF SafeInv, Inv, TypeOK
    <2>1. \/ pc' = [pc EXCEPT ![t] = "idle"] /\ call' = [call EXCEPT ![t] = NoCall]
          \/ pc' = pc /\ call' = call
      BY DEF StartResumes, Returns, At
    <2> QED BY <2>0, <2>1
  <1>3. \A p \in Threads : Deletes(p)' <=> Deletes(p)
    BY <1>1, <1>2 DEF Deletes, NoCall
  <1>4. SelfDeletion'
    <2>1. \A c \in Children : pc'[c] = pc[c] /\ call'[c] = call[c]
      BY <1>2
    <2>2. m_pthd # Nobody => m_pthd \in Children
      BY DEF SafeInv, Inv, TypeOK
    <2> QED BY <1>1, <1>2, <1>3, <2>1, <2>2 DEF SafeInv, SelfDeletion
  <1>5. Destruction'
    BY <1>1, <1>2, <1>3 DEF SafeInv, Destruction, NoCall
  <1> QED BY <1>4, <1>5

\* What a thread that has no time limit has seen when it has waited.
LEMMA WaitsSee ==
    ASSUME Inv, Untimed, NEW p \in Threads, Waits(p), Deletes(p)
    PROVE  /\ pc'[p] \in Seen => \/ pc[p] \in Seen
                                 \/ m_do_autodelete
                                 \/ ~m_is_activated
           /\ pc'[p] = "waited" => \/ m_do_autodelete
                                   \/ ~m_is_started
                                   \/ m_finalize_lock = Nobody
  <1>1. pc \in [Threads -> CallerPlaces \cup ChildPlaces] /\ woken[p] # "timedout"
    BY DEF Inv, TypeOK, Untimed
  <1>2. CASE DestroyCancels(p)
    BY <1>1, <1>2 DEF DestroyCancels, At, Seen
  <1>3. CASE WaitChecks(p)
    BY <1>1, <1>3 DEF WaitChecks, At, Seen
  <1>4. CASE WaitReads(p)
    BY <1>1, <1>4 DEF WaitReads, At, Seen
  <1>5. CASE WaitFinal(p)
    BY <1>1, <1>5 DEF WaitFinal, At, Seen
  <1>6. CASE WaitEnds(p)
    BY <1>1, <1>6 DEF WaitEnds, Returns, At, Seen
  <1> QED BY <1>2, <1>3, <1>4, <1>5, <1>6 DEF Waits

\* While a caller destroys the object no start is under way, so that a child that is there
\* has started.
LEMMA DestroyerKnows ==
    ASSUME SafeInv, NEW t \in Callers, call[t].op = "destroy"
    PROVE  /\ \A c \in Children : Alive(c) => m_is_started
           /\ m_pthd # Nobody => m_is_activated
           /\ m_do_autodelete => m_pthd = Nobody /\ m_finalize_lock = Nobody
  <1> USE Constants
  <1>1. \A s \in Callers : pc[s] # "start_sleep"
    BY DEF SafeInv, Inv, Deleters, CallerCall, Destruction
  <1>2. \A c \in Children : Alive(c) => m_is_started
    BY <1>1 DEF SafeInv, Inv, Handshake
  <1>3. m_pthd # Nobody => m_is_activated
    BY <1>2 DEF SafeInv, Inv, TypeOK, Runner, Handshake, Runs, Running, Alive
  <1>4. ASSUME m_do_autodelete
        PROVE  m_pthd = Nobody /\ m_finalize_lock = Nobody
    <2>1. m_pthd = Nobody
      BY <1>4 DEF SafeInv, Inv, Deleters, Deletes
    <2>2. \A c \in Children : pc[c] \notin {"finalizing", "finalized"}
      BY <1>4, <2>1 DEF SafeInv, Inv, Runner, Runs, Running, Active, SelfDeletion, Deleters, Deletes
    <2> QED BY <2>1, <2>2 DEF SafeInv, Inv, TypeOK
  <1> QED BY <1>2, <1>3, <1>4

LEMMA WaitsSafe ==
    ASSUME SafeInv, NEW p \in Threads, Waits(p)
    PROVE  SelfDeletion' /\ Destruction'
  <1> USE Constants
  <1>1. /\ UNCHANGED <<m_do_autodelete, m_is_activated, m_pthd, m_finalize_lock>>
        /\ \A q \in Threads \ {p} : pc'[q] = pc[q] /\ call'[q] = call[q]
        /\ pc[p] \in WaitPlaces
        /\ \/ pc'[p] \in WaitPlaces /\ call'[p] = call[p]
           \/ pc'[p] \in {"idle", "gone"} /\ call'[p] = NoCall
        /\ ChildMoves(p)
    BY WaitsMove DEF GoesOn, Leaves, WaitPlaces, flags, SafeInv, Inv, TypeOK
  <1>2. \A q \in Threads : /\ Deletes(q)' => Deletes(q)
                           /\ call'[q].op = "destroy" => call[q].op = "destroy"
    BY <1>1 DEF Deletes, NoCall
  <1>3. SelfDeletion'
    <2>1. ASSUME m_do_autodelete, m_pthd # Nobody, NEW t \in Callers
          PROVE  \/ pc'[t] = "idle"
                 \/ pc'[t] = "start_sleep" /\ pc'[m_pthd] \in {"entry", "sync_sleep"}
      <3>1. p # m_pthd
        BY <1>1, <2>1 DEF ChildMoves, SafeInv, Inv, TypeOK, Runner, Runs, Running, Active
      <3>2. p \notin Callers
        BY <1>1, <2>1 DEF WaitPlaces, SafeInv, SelfDeletion
      <3>3. m_pthd \in Children
        BY <2>1 DEF SafeInv, Inv, TypeOK
      <3> QED BY <1>1, <2>1, <3>1, <3>2, <3>3 DEF SafeInv, SelfDeletion
    <2>2. ASSUME m_do_autodelete, m_pthd = Nobody, NEW c \in Children, pc'[c] = "finalized"
          PROVE  call'[c].op = "autodelete"
      BY <1>1, <2>2 DEF ChildMoves, SafeInv, SelfDeletion
    <2>3. ASSUME NEW c \in Children, Deletes(c)', NEW t \in Callers
          PROVE  pc'[t] = "idle"
      BY <1>1, <1>2, <2>3 DEF WaitPlaces, SafeInv, SelfDeletion
    <2>4. ASSUME NEW c \in Children, call'[c].op = "destroy"
          PROVE  m_finalize_lock' = Nobody
      BY <1>1, <1>2, <2>4 DEF SafeInv, SelfDeletion
    <2> QED BY <1>1, <2>1, <2>2, <2>3, <2>4 DEF SelfDeletion
  <1>4. Destruction'
    <2> SUFFICES ASSUME NEW t \in Callers, call'[t].op = "destroy"
                 PROVE  /\ \A u \in Callers \ {t} : pc'[u] = "idle"
                        /\ pc'[t] \in Seen => m_pthd' = Nobody
                        /\ pc'[t] = "waited" => m_finalize_lock' = Nobody
      BY DEF Destruction, Seen
    <2>1. /\ call[t].op = "destroy" /\ Deletes(t)
          /\ p = t \/ p \in Children
      BY <1>1, <1>2 DEF Deletes, SafeInv, Destruction, WaitPlaces, Threads
    <2>2. \A u \in Callers \ {t} : pc'[u] = "idle"
      BY <1>1, <2>1 DEF SafeInv, Destruction
    <2>3. CASE p = t
      <3>1. /\ pc'[t] \in Seen => pc[t] \in Seen \/ m_do_autodelete \/ ~m_is_activated
            /\ pc'[t] = "waited" => m_do_autodelete \/ ~m_is_started \/ m_finalize_lock = Nobody
        BY <2>1, <2>3, WaitsSee DEF SafeInv
      <3>2. pc'[t] \in Seen => m_pthd = Nobody
        BY <2>1, <3>1, DestroyerKnows DEF SafeInv, Destruction
      <3>3. m_finalize_lock # Nobody => m_is_started
        BY <2>1, DestroyerKnows DEF SafeInv, Inv, TypeOK, Alive
      <3>4. pc'[t] = "waited" => m_finalize_lock = Nobody
        BY <2>1, <3>1, <3>3, DestroyerKnows
      <3> QED BY <1>1, <2>2, <3>2, <3>4
    <2>4. CASE p # t
      <3>1. pc'[t] = pc[t]
        BY <1>1, <2>4
      <3> QED BY <1>1, <2>1, <2>2, <3>1 DEF SafeInv, Destruction
    <2> QED BY <2>3, <2>4
  <1> QED BY <1>3, <1>4


\* A child that is active and goes on: out of the handshake when its starter has
\* acknowledged the start, into s_finalize when its lock is free.
LEMMA RunsSafe ==
    ASSUME SafeInv, NEW c \in Children, Runs(c), NEW place \in Running,
           pc' = [pc EXCEPT ![c] = place],
           UNCHANGED <<m_do_autodelete, m_pthd, call>>,
           \/ place = "sync_sleep"
           \/ m_startup_sync_done
           \/ pc[c] \notin {"entry", "sync_sleep"},
           \/ m_finalize_lock' = m_finalize_lock
           \/ m_finalize_lock = Nobody
    PROVE  SelfDeletion' /\ Destruction'
  <1> USE Constants
  <1>1. /\ pc'[c] = place /\ \A q \in Threads \ {c} : pc'[q] = pc[q]
        /\ m_pthd = c
        /\ \A q \in Threads : Deletes(q)' <=> Deletes(q)
    BY DEF SafeInv, Inv, TypeOK, Runner, Deletes
  <1>2. \A t \in Callers : pc'[t] = pc[t]
    BY <1>1
  <1>3. SelfDeletion'
    <2>1. ASSUME m_do_autodelete, NEW t \in Callers
          PROVE  pc[t] = "idle" \/ (pc[t] = "start_sleep" /\ place \in {"entry", "sync_sleep"})
      BY <1>1, <2>1 DEF SafeInv, Inv, Handshake, SelfDeletion
    <2>2. \A d \in Children : ~Deletes(d)
      BY <1>1 DEF SafeInv, Inv, Deleters, ChildCall
    <2>3. \A d \in Children : call[d].op # "destroy"
      BY <2>2 DEF Deletes
    <2> QED BY <1>1, <1>2, <2>1, <2>2, <2>3 DEF SelfDeletion
  <1>4. Destruction'
    BY <1>1, <1>2 DEF SafeInv, Destruction, Seen
  <1> QED BY <1>3, <1>4

LEMMA FinalizeRunsSafe ==
    ASSUME SafeInv, NEW c \in Children, FinalizeRuns(c)
    PROVE  SelfDeletion' /\ Destruction'
  <1> USE Constants
  <1>1. /\ pc[c] = "finalizing" /\ m_pthd' = Nobody
        /\ UNCHANGED <<m_do_autodelete, m_finalize_lock>>
    BY DEF FinalizeRuns, EndActivity
  <1>2. /\ m_pthd = c /\ m_finalize_lock = c
        /\ \A d \in Children \ {c} : pc[d] # "finalized"
    BY <1>1 DEF SafeInv, Inv, Runner, Runs, Running, Active, Turns
  <1>3. /\ pc'[c] = "finalized" /\ \A p \in Threads \ {c} : pc'[p] = pc[p] /\ call'[p] = call[p]
        /\ call'[c] = IF m_do_autodelete THEN [op |-> "autodelete", timed |-> FALSE] ELSE NoCall
    BY DEF FinalizeRuns, At, SafeInv, Inv, TypeOK
  <1>4. SelfDeletion'
    <2>1. \A d \in Children : m_do_autodelete /\ pc'[d] = "finalized" => call'[d].op = "autodelete"
      BY <1>2, <1>3
    <2>2. m_do_autodelete => \A t \in Callers : pc'[t] = "idle"
      BY <1>1, <1>2, <1>3 DEF SafeInv, SelfDeletion
    <2>3. \A d \in Children : Deletes(d)' => m_do_autodelete
      BY <1>3 DEF SafeInv, Inv, Deleters, ChildCall, Deletes, NoCall
    <2>4. \A d \in Children : call'[d].op # "destroy"
      BY <1>2, <1>3 DEF SafeInv, SelfDeletion, NoCall
    <2> QED BY <1>1, <2>1, <2>2, <2>3, <2>4 DEF SelfDeletion
  <1>5. Destruction'
    BY <1>1, <1>2, <1>3 DEF SafeInv, Destruction
  <1> QED BY <1>4, <1>5

LEMMA FinalizeEndsSafe ==
    ASSUME SafeInv, NEW c \in Children, FinalizeEnds(c)
    PROVE  SelfDeletion' /\ Destruction'
  <1> USE Constants
  <1>1. /\ pc[c] = "finalized" /\ m_finalize_lock' = Nobody
        /\ UNCHANGED <<m_do_autodelete, m_pthd>>
    BY DEF FinalizeEnds, flags
  <1>2. m_pthd # c
    BY <1>1 DEF SafeInv, Inv, Runner, Runs, Running, Active
  <1>3. /\ \A p \in Threads \ {c} : pc'[p] = pc[p] /\ call'[p] = call[p]
        /\ pc'[c] # "finalized"
        /\ Deletes(c)' => Deletes(c)
    <2>1. /\ pc \in [Threads -> CallerPlaces \cup ChildPlaces] /\ DOMAIN call = Threads
      BY DEF SafeInv, Inv, TypeOK
    <2> QED BY <2>1 DEF FinalizeEnds, At, Deletes
  <1>4. SelfDeletion'
    <2>1. m_pthd # Nobody => pc'[m_pthd] = pc[m_pthd]
      BY <1>2, <1>3 DEF SafeInv, Inv, TypeOK
    <2>2. \A d \in Children : Deletes(d)' => Deletes(d)
      BY <1>3 DEF Deletes
    <2>3. \A d \in Children : pc'[d] = "finalized" => pc[d] = "finalized" /\ call'[d] = call[d]
      BY <1>3
    <2> QED BY <1>1, <1>3, <2>1, <2>2, <2>3 DEF SafeInv, SelfDeletion
  <1>5. Destruction'
    BY <1>1, <1>3 DEF SafeInv, Destruction
  <1> QED BY <1>4, <1>5

LEMMA ChildSafe ==
    ASSUME SafeInv, NEW c \in Children, ChildRuns(c) \/ MainReturns(c)
    PROVE  SelfDeletion' /\ Destruction'
  <1>1. CASE ChildEnters(c)
    <2>1. /\ pc[c] = "entry" /\ pc' = [pc EXCEPT ![c] = AfterEntry]
          /\ UNCHANGED <<m_do_autodelete, m_pthd, m_finalize_lock, call>>
          /\ AfterEntry = "sync_sleep" \/ (AfterEntry = "main" /\ m_startup_sync_done)
      BY <1>1 DEF ChildEnters, At, AfterEntry
    <2> QED BY <2>1, RunsSafe DEF Runs, Running, Active
  <1>2. CASE ChildSynced(c)
    <2>1. /\ pc[c] = "sync_sleep"
          /\ UNCHANGED <<m_do_autodelete, m_pthd, m_finalize_lock, call>>
          /\ \/ m_startup_sync_done /\ pc' = [pc EXCEPT ![c] = "main"]
             \/ pc' = [pc EXCEPT ![c] = "sync_sleep"]
      BY <1>2 DEF ChildSynced, At, object, flags, SafeInv, Inv, TypeOK
    <2> QED BY <2>1, RunsSafe DEF Runs, Running, Active
  <1>3. CASE MainReturns(c) \/ MainCanceled(c) \/ FinalizeBegins(c)
    <2>1. /\ pc[c] \in {"main", "ended"}
          /\ pc' = [pc EXCEPT ![c] = IF pc[c] = "main" THEN "ended" ELSE "finalizing"]
          /\ UNCHANGED <<m_do_autodelete, m_pthd, call>>
          /\ m_finalize_lock' = m_finalize_lock \/ m_finalize_lock = Nobody
      BY <1>3 DEF MainReturns, MainCanceled, FinalizeBegins, At, object, flags
    <2> QED BY <2>1, RunsSafe DEF Runs, Running, Active
  <1> QED BY <1>1, <1>2, <1>3, FinalizeRunsSafe, FinalizeEndsSafe DEF ChildRuns

LEMMA SafeStep == OneStarter /\ PlainFails => (SafeInv /\ [Next]_vars => SafeInv')
  <1> SUFFICES ASSUME OneStarter, PlainFails, SafeInv, [Next]_vars PROVE SafeInv'
    OBVIOUS
  <1>1. Inv' /\ Untimed'
    BY NextInv, UntimedStep DEF SafeInv
  <1>2. SelfDeletion' /\ Destruction'
    <2>1. ASSUME NEW t \in Starters, NEW autodelete \in BOOLEAN,
                 Start(t, autodelete) \/ StartRefused(t, autodelete)
          PROVE  SelfDeletion' /\ Destruction'
      BY <2>1, StartSafe, StartRefusedSafe
    <2>2. ASSUME NEW t \in Callers,
                 \/ StartResumes(t) \/ Cancel(t) \/ Destroy(t)
                 \/ \E cpus \in SUBSET Cpus : cpus \in CpuSets /\ SetAffinity(t, cpus)
                 \/ \E timed \in BOOLEAN : Wait(t, timed)
          PROVE  SelfDeletion' /\ Destruction'
      BY <2>2, StartResumesSafe, CallsSafe
    <2>3. ASSUME UNCHANGED <<m_do_autodelete, m_pthd, m_finalize_lock, pc, call>>
          PROVE  SelfDeletion' /\ Destruction'
      BY <2>3 DEF SafeInv, SelfDeletion, Destruction, Deletes
    <2>4. ASSUME NEW p \in Threads, Waits(p) \/ Expire(p) \/ SpuriousWakeup(p)
          PROVE  SelfDeletion' /\ Destruction'
      BY <2>3, <2>4, WaitsSafe DEF Expire, SpuriousWakeup, object, flags
    <2>5. CASE UNCHANGED vars
      BY <2>3, <2>5 DEF vars, object, flags
    <2> QED BY <2>1, <2>2, <2>4, <2>5, ChildSafe DEF Next
  <1> QED BY <1>1, <1>2 DEF SafeInv

\* When the object is torn down nobody is inside it, and then nobody comes in.
LEMMA NoUseStep == OneStarter => (SafeInv /\ NoUseAfterDestroy /\ [Next]_vars => NoUseAfterDestroy')
  <1> USE Constants
  <1> SUFFICES ASSUME OneStarter, SafeInv, NoUseAfterDestroy, [Next]_vars, destroyed'
               PROVE  \A p \in Threads : pc'[p] \in {"idle", "unborn", "gone"}
    BY DEF NoUseAfterDestroy
  <1>1. CASE destroyed
    <2>1. \A p \in Threads : pc[p] \in {"idle", "unborn", "gone"} /\ ~Free(p)
      BY <1>1 DEF NoUseAfterDestroy, Free, Usable
    <2>2. pc' = pc
      BY <2>1 DEF Next, Start, StartRefused, StartResumes, Cancel, SetAffinity, Wait, Destroy,
                  ChildRuns, ChildEnters, ChildSynced, MainCanceled, MainReturns, FinalizeBegins,
                  FinalizeRuns, FinalizeEnds, Waits, DestroyCancels, WaitChecks, WaitReads,
                  WaitFinal, WaitEnds, Expire, SpuriousWakeup, vars
    <2> QED BY <2>1, <2>2
  <1>2. CASE ~destroyed
    <2>1. PICK p \in Threads : WaitEnds(p) /\ call[p].op = "destroy"
      BY <1>2 DEF Next, Start, StartRefused, StartResumes, Cancel, SetAffinity, Wait, Destroy,
                  ChildRuns, ChildEnters, ChildSynced, MainCanceled, MainReturns, FinalizeBegins,
                  FinalizeRuns, FinalizeEnds, Waits, DestroyCancels, WaitChecks, WaitReads,
                  WaitFinal, WaitEnds, Expire, SpuriousWakeup, vars, object
    <2>2. /\ pc[p] = "waited" /\ pc'[p] \in {"idle", "gone"}
          /\ \A q \in Threads \ {p} : pc'[q] = pc[q]
      BY <2>1 DEF WaitEnds, Returns, At, SafeInv, Inv, TypeOK
    <2>3. \A t \in Callers \ {p} : pc[t] = "idle"
      BY <2>1 DEF Deletes, SafeInv, SelfDeletion, Destruction, Threads
    <2>4. m_pthd = Nobody /\ m_finalize_lock = Nobody
      BY <2>1, <2>2 DEF Deletes, SafeInv, SelfDeletion, Destruction, Threads, Seen, Inv, Deleters,
                        ChildCall
    <2>5. \A c \in Children \ {p} : ~Deletes(c)
      BY <2>1 DEF Deletes, SafeInv, Inv, Deleters
    <2>6. \A c \in Children \ {p} : pc[c] \in {"unborn", "gone"}
      BY <2>4, <2>5 DEF SafeInv, Inv, TypeOK, ChildPlaces, Runner, Runs, Running, Active, Turns,
                        Deleters, ChildCall, Deletes
    <2> QED BY <2>2, <2>3, <2>6 DEF Threads
  <1> QED BY <1>1, <1>2

\* Whoever destroys the object, a caller of gallus_thread_destroy or, with autodelete, the
\* thread itself at the end of s_finalize: no other thread is then inside a call, and no
\* thread of the object has still to leave s_finalize; nor does one enter it later.
THEOREM NoUseCorrect == OneStarter /\ PlainFails => (Spec => []NoUseAfterDestroy)
  <1> SUFFICES ASSUME OneStarter, PlainFails PROVE Spec => []NoUseAfterDestroy
    OBVIOUS
  <1>1. Init => SafeInv /\ NoUseAfterDestroy
    <2> USE Constants
    <2> SUFFICES ASSUME Init PROVE SafeInv /\ NoUseAfterDestroy
      OBVIOUS
    <2>1. /\ \A p \in Threads : call[p] = NoCall /\ woken[p] = "no"
          /\ \A c \in Children : pc[c] = "unborn"
          /\ ~destroyed /\ ~m_do_autodelete
      BY DEF Init, InitObject
    <2>2. Untimed /\ SelfDeletion /\ Destruction
      BY <2>1 DEF Untimed, SelfDeletion, Destruction, Deletes, NoCall
    <2> QED BY <2>1, <2>2, InitInv DEF SafeInv, NoUseAfterDestroy
  <1>2. SafeInv /\ [Next]_vars => SafeInv'
    BY SafeStep
  <1>3. SafeInv /\ NoUseAfterDestroy /\ [Next]_vars => NoUseAfterDestroy'
    BY NoUseStep
  <1> QED BY <1>1, <1>2, <1>3, PTL DEF Spec

=============================================================================
