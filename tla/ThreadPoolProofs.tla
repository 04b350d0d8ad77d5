-------------------------- MODULE ThreadPoolProofs --------------------------
(***************************************************************************)
(* What ThreadPool promises for any number of threads, clients and tasks:  *)
(* the pool accounts for its threads, and a task that is over is nobody's. *)
(***************************************************************************)
EXTENDS ThreadPool, FiniteSetTheorems, TLAPS

-----------------------------------------------------------------------------
(* The inductive invariant.                                                *)

Used(r) == obj[r].m_is_used
Tsk(r) == tr[r].m_tsk

\* The thread has still to look for a task, or has one.
Lives(r) == rpc[r] \notin {"none", "unlock", "teardown", "over"}

\* A task that nobody has run yet is nobody's.
Unrun(t) ==
    task[t].m_state = "CONSTRUCTED" =>
        /\ ~task[t].m_is_wait_done /\ t \notin freed
        /\ \A r \in Runners : Tsk(r) # t /\ rtask[r] # t

\* No task is given to two threads.
Carries(r, t) == Tsk(r) = t \/ rtask[r] = t
Given == \A t \in Tasks : Unrun(t) /\ \A r, s \in Runners : Carries(r, t) /\ Carries(s, t) => r = s

\* What a thread has of its task, where it is.
WillRelease(r) == rtask[r] # Nobody /\ "release" \in task[rtask[r]].m_flag
RunnerSound(r) ==
    /\ rpc[r] = "none" => Tsk(r) = Nobody
    /\ rpc[r] = "assigned" => IF rtask[r] = Nobody THEN rshut[r] ELSE rtask[r] = Tsk(r)
    /\ rpc[r] = "main" => rtask[r] # Nobody /\ rtask[r] = Tsk(r)
    /\ rpc[r] \in {"finalize", "after"} => rtask[r] # Nobody /\ rtask[r] # Tsk(r)
    /\ rpc[r] \in {"finalize", "after"} /\ WillRelease(r) => Tsk(r) = Nobody
    /\ rpc[r] \in {"release", "put"} => Tsk(r) = Nobody

\* Whose turn it is to give the thread r back: a client's, or its own.
Keeps(c) == "release" \notin task[ctask[c]].m_flag
ClientHolds(c, r) ==
    /\ cobj[c] = r
    /\ cpc[c] \in {"have", "wait", "release", "put"} \/ (cpc[c] = "ran" /\ Keeps(c))
RunnerHolds(r) ==
    \/ rpc[r] \in {"release", "put"}
    \/ rpc[r] \in {"finalize", "after"} /\ WillRelease(r)
    \/ Lives(r) /\ Tsk(r) # Nobody /\ "release" \in task[Tsk(r)].m_flag
Held ==
    \A r \in Runners :
        /\ RunnerHolds(r) => Used(r)
        /\ \A c \in Clients : ClientHolds(c, r) =>
              /\ Used(r) /\ ~RunnerHolds(r)
              /\ \A d \in Clients : ClientHolds(d, r) => d = c

\* A thread that has a task, or will find one, is in use; its client waits for that task.
Occupied ==
    \A r \in Runners : Lives(r) /\ Tsk(r) # Nobody =>
        /\ Used(r)
        /\ \A c \in Clients : ClientHolds(c, r) => cpc[c] \in {"ran", "wait"} /\ ctask[c] = Tsk(r)

ClientSound(c) ==
    /\ cpc[c] \in {"ran", "wait"} => ctask[c] \in Tasks /\ task[ctask[c]].m_state # "CONSTRUCTED"
    /\ cpc[c] \in {"got", "have", "ran", "release", "put"} => cobj[c] \in 1 .. m_obj_idx
    /\ cpc[c] = "wait" => cobj[c] \in 0 .. m_obj_idx

\* A thread that is not in use is in the queue, or on its way from there to one client.
InQueue(r) == \E i \in DOMAIN m_free_q : m_free_q[i] = r
Got(c, r) == cpc[c] = "got" /\ cobj[c] = r
QueueSound ==
    /\ \A i, j \in DOMAIN m_free_q : m_free_q[i] = m_free_q[j] => i = j
    /\ \A i \in DOMAIN m_free_q : m_free_q[i] \in 1 .. m_obj_idx
    /\ \A c, d \in Clients : cpc[c] = "got" /\ Got(d, cobj[c]) => d = c
    /\ \A c \in Clients : cpc[c] = "got" => ~InQueue(cobj[c])
    /\ \A r \in 1 .. m_obj_idx : Used(r) <=> (~InQueue(r) /\ \A c \in Clients : ~Got(c, r))

\* The threads that are not created.
Unborn ==
    \A r \in Runners : /\ rpc[r] = "none" <=> r > m_obj_idx
                       /\ rpc[r] = "none" => ~Used(r)

Counted == m_n_free = N - Cardinality({r \in Runners : Used(r)})

\* The two halves: the tasks and their threads, and the accounts of the pool.
TaskInv == Given /\ (\A r \in Runners : RunnerSound(r)) /\ Held /\ Occupied /\ DoneIsOver
PoolInv == QueueSound /\ Unborn /\ Counted /\ \A c \in Clients : ClientSound(c)

Inv == TypeOK /\ TaskInv /\ PoolInv

-----------------------------------------------------------------------------
(* Facts that the steps share.                                             *)

SameTasks ==
    /\ UNCHANGED freed
    /\ \A t \in Tasks : /\ task'[t].m_state = "CONSTRUCTED" <=> task[t].m_state = "CONSTRUCTED"
                        /\ task'[t].m_flag = task[t].m_flag
                        /\ task'[t].m_is_wait_done = task[t].m_is_wait_done
SameThreads == \A r \in Runners : Tsk(r)' = Tsk(r) /\ Used(r)' = Used(r)
SameQueue == UNCHANGED <<m_n_free, m_free_q, m_obj_idx>>

LEMMA Constants ==
    /\ N \in Nat /\ N # 0 /\ Runners = 1 .. N
    /\ Nobody \notin Tasks
    /\ IsFiniteSet(Runners) /\ Cardinality(Runners) = N
    /\ \A S \in SUBSET Runners : IsFiniteSet(S) /\ Cardinality(S) \in 0 .. N
  <1>1. IsFiniteSet(Runners) /\ Cardinality(Runners) = N
    BY ThreadPoolAssumption, FS_Interval DEF Runners
  <1>2. ASSUME NEW S \in SUBSET Runners
        PROVE  IsFiniteSet(S) /\ Cardinality(S) \in 0 .. N
    BY <1>1, FS_Subset, FS_CardinalityType, ThreadPoolAssumption
  <1> QED BY <1>1, <1>2, ThreadPoolAssumption DEF Runners

LEMMA CountKeeps ==
    ASSUME Counted, UNCHANGED m_n_free, \A r \in Runners : Used(r)' = Used(r)
    PROVE  Counted'
  <1>1. {r \in Runners : Used(r)}' = {r \in Runners : Used(r)}
    OBVIOUS
  <1> QED BY <1>1 DEF Counted

\* Nothing happens in the queue, and nobody is on the way from there.
LEMMA PoolKeeps ==
    ASSUME TypeOK, PoolInv, SameQueue, \A r \in Runners : Used(r)' = Used(r),
           \A r \in Runners : rpc'[r] = "none" <=> rpc[r] = "none",
           \A c \in Clients : /\ cpc'[c] = "got" <=> cpc[c] = "got"
                              /\ cpc[c] = "got" => cobj'[c] = cobj[c],
           \A c \in Clients : ClientSound(c)'
    PROVE  PoolInv'
  <1> USE DEF SameQueue
  <1>1. Counted'
    BY CountKeeps DEF PoolInv
  <1>2. Unborn'
    BY DEF PoolInv, Unborn
  <1>3. /\ \A c \in Clients, r \in Runners : Got(c, r)' <=> Got(c, r)
        /\ \A c, d \in Clients : cpc[c] = "got" => (Got(d, cobj[c])' <=> Got(d, cobj[c]))
        /\ \A r : InQueue(r)' <=> InQueue(r)
    BY DEF Got, InQueue
  <1>4. 1 .. m_obj_idx \subseteq Runners
    BY Constants DEF TypeOK
  <1>5. QueueSound'
    <2>1. /\ \A i, j \in DOMAIN m_free_q : m_free_q[i] = m_free_q[j] => i = j
          /\ \A i \in DOMAIN m_free_q : m_free_q[i] \in 1 .. m_obj_idx
      BY DEF PoolInv, QueueSound
    <2>2. ASSUME NEW c \in Clients, NEW d \in Clients, cpc'[c] = "got", Got(d, cobj[c])'
          PROVE  d = c
      BY <1>3, <2>2 DEF PoolInv, QueueSound
    <2>3. \A c \in Clients : cpc'[c] = "got" => ~InQueue(cobj[c])
      BY DEF PoolInv, QueueSound
    <2>4. \A r \in 1 .. m_obj_idx : Used(r) <=> (~InQueue(r) /\ \A c \in Clients : ~Got(c, r))
      BY DEF PoolInv, QueueSound
    <2>5. \A c \in Clients : cpc'[c] = "got" => cobj'[c] = cobj[c]
      OBVIOUS
    <2> QED BY <1>3, <1>4, <2>1, <2>2, <2>3, <2>4, <2>5 DEF QueueSound
  <1> QED BY <1>1, <1>2, <1>5 DEF PoolInv

\* Nobody comes to hold a thread, and a client that waits for its task goes on to wait.
SameHolds ==
    \A c \in Clients, r \in Runners : ClientHolds(c, r)' =>
        /\ ClientHolds(c, r) /\ ctask'[c] = ctask[c]
        /\ cpc[c] \in {"ran", "wait"} => cpc'[c] \in {"ran", "wait"}

\* A thread moves between places where only the task matters that it was given.
SameMoves ==
    \A r \in Runners :
        \/ rpc'[r] = rpc[r] /\ rshut'[r] = rshut[r]
        \/ rpc[r] \in {"gala", "loop", "asleep", "assigned", "main"} /\ rpc'[r] \in {"loop", "asleep", "exit"}
        \/ {rpc[r], rpc'[r]} \subseteq {"unlock", "teardown", "over"}

LEMMA TasksKeep ==
    ASSUME TypeOK, TaskInv, SameTasks, SameThreads, UNCHANGED rtask, SameMoves, SameHolds
    PROVE  TaskInv'
  <1> USE DEF SameThreads
  <1>1. /\ \A r \in Runners : Lives(r)' <=> Lives(r)
        /\ \A r \in Runners : rtask[r] \in Tasks \cup {Nobody} /\ Tsk(r) \in Tasks \cup {Nobody}
    BY DEF SameMoves, Lives, TypeOK, Tsk
  <1>2. \A r \in Runners : WillRelease(r)' <=> WillRelease(r)
    BY <1>1 DEF WillRelease, SameTasks
  <1>3. \A r \in Runners : RunnerHolds(r)' <=> RunnerHolds(r)
    <2> SUFFICES ASSUME NEW r \in Runners PROVE RunnerHolds(r)' <=> RunnerHolds(r)
      OBVIOUS
    <2>1. /\ rpc'[r] \in {"release", "put"} <=> rpc[r] \in {"release", "put"}
          /\ rpc'[r] \in {"finalize", "after"} <=> rpc[r] \in {"finalize", "after"}
      BY DEF SameMoves
    <2>2. Tsk(r) # Nobody =>
            ("release" \in task'[Tsk(r)].m_flag <=> "release" \in task[Tsk(r)].m_flag)
      BY <1>1 DEF SameTasks
    <2> QED BY <1>1, <1>2, <2>1, <2>2 DEF RunnerHolds
  <1>4. Given'
    BY DEF TaskInv, Given, Unrun, Carries, SameTasks
  <1>5. ASSUME NEW r \in Runners
        PROVE  RunnerSound(r)'
    <2>1. RunnerSound(r) /\ (WillRelease(r)' <=> WillRelease(r))
      BY <1>2 DEF TaskInv
    <2>2. \/ rpc[r] = rpc'[r] /\ rshut'[r] = rshut[r]
          \/ rpc'[r] \in {"loop", "asleep", "exit", "unlock", "teardown", "over"}
      BY DEF SameMoves
    <2> QED BY <2>1, <2>2 DEF RunnerSound
  <1>6. Held'
    BY <1>3 DEF TaskInv, Held, SameHolds
  <1>7. Occupied'
    BY <1>1 DEF TaskInv, Occupied, SameHolds
  <1>8. DoneIsOver'
    <2>1. \A t \in Tasks : InUse(t)' => InUse(t)
      BY DEF InUse, Tsk, SameMoves
    <2> QED BY <2>1 DEF TaskInv, DoneIsOver, SameTasks
  <1> QED BY <1>4, <1>5, <1>6, <1>7, <1>8 DEF TaskInv

\* A thread goes on with its task, and takes no other.
LEMMA RunnerMoves ==
    ASSUME TypeOK, TaskInv, PoolInv, NEW r \in Runners, UNCHANGED <<cpc, cobj, ctask>>,
           \A s \in Runners : Used(s)' = Used(s),
           \A s \in Runners \ {r} : /\ Tsk(s)' = Tsk(s) /\ rtask'[s] = rtask[s]
                                    /\ rpc'[s] = rpc[s] /\ rshut'[s] = rshut[s],
           Tsk(r)' \in {Tsk(r), Nobody}, rtask'[r] \in {rtask[r], Tsk(r), Nobody},
           RunnerSound(r)', RunnerHolds(r)' => RunnerHolds(r), Lives(r)' => Lives(r),
           \A t \in Tasks : /\ task'[t].m_state = "CONSTRUCTED" => task[t].m_state = "CONSTRUCTED"
                            /\ task'[t].m_flag = task[t].m_flag,
           \A t \in Tasks : \/ task'[t].m_is_wait_done = task[t].m_is_wait_done /\ (t \in freed' => t \in freed)
                            \/ task'[t].m_state # "CONSTRUCTED" /\ ~InUse(t)',
           \A t \in Tasks : InUse(t)' => InUse(t)
    PROVE  TaskInv'
  <1>1. \A s \in Runners : rtask[s] \in Tasks \cup {Nobody} /\ Tsk(s) \in Tasks \cup {Nobody}
    BY DEF TypeOK, Tsk
  <1>2. \A s \in Runners, t \in Tasks : Carries(s, t)' => Carries(s, t)
    BY Constants DEF Carries
  <1>3. Given'
    <2>1. ASSUME NEW t \in Tasks PROVE Unrun(t)'
      <3> SUFFICES ASSUME task'[t].m_state = "CONSTRUCTED"
                   PROVE  /\ ~task'[t].m_is_wait_done /\ t \notin freed'
                          /\ \A s \in Runners : Tsk(s)' # t /\ rtask'[s] # t
        BY DEF Unrun
      <3>1. /\ ~task[t].m_is_wait_done /\ t \notin freed
            /\ \A s \in Runners : Tsk(s) # t /\ rtask[s] # t
        BY DEF TaskInv, Given, Unrun
      <3> QED BY <1>2, <3>1 DEF Carries
    <2> QED BY <1>2, <2>1 DEF TaskInv, Given
  <1>4. ASSUME NEW s \in Runners \ {r}
        PROVE  /\ WillRelease(s)' <=> WillRelease(s)
               /\ RunnerHolds(s)' <=> RunnerHolds(s)
               /\ Lives(s)' <=> Lives(s)
               /\ RunnerSound(s)'
    <2>1. /\ Lives(s)' <=> Lives(s)
          /\ WillRelease(s)' <=> WillRelease(s)
      BY <1>1 DEF Lives, WillRelease
    <2>2. Tsk(s) # Nobody => ("release" \in task'[Tsk(s)].m_flag <=> "release" \in task[Tsk(s)].m_flag)
      BY <1>1
    <2>3. RunnerHolds(s)' <=> RunnerHolds(s)
      BY <2>1, <2>2 DEF RunnerHolds
    <2> QED BY <2>1, <2>3 DEF TaskInv, RunnerSound
  <1>5. \A c \in Clients, s \in Runners : ClientHolds(c, s)' => ClientHolds(c, s)
    <2>1. \A c \in Clients : cpc[c] = "ran" => ctask[c] \in Tasks
      BY DEF PoolInv, ClientSound
    <2>2. \A c \in Clients : cpc[c] = "ran" /\ Keeps(c)' => Keeps(c)
      BY <2>1 DEF Keeps
    <2> QED BY <2>2 DEF ClientHolds
  <1>6. Held'
    BY <1>4, <1>5 DEF TaskInv, Held
  <1>7. Occupied'
    BY <1>4, <1>5 DEF TaskInv, Occupied
  <1>8. DoneIsOver'
    BY DEF TaskInv, DoneIsOver
  <1> QED BY <1>3, <1>4, <1>6, <1>7, <1>8 DEF TaskInv

\* The steps of a thread with its task.
LEMMA AssignedTasks ==
    ASSUME TypeOK, TaskInv, PoolInv, NEW r \in Runners, Assigned(r)
    PROVE  TaskInv'
  <1>1. /\ rpc[r] = "loop" /\ rtask'[r] = Tsk(r) /\ rshut'[r] = tr[r].m_is_shutdown_requested
        /\ rpc'[r] = IF Tsk(r) # Nobody \/ tr[r].m_is_shutdown_requested THEN "assigned" ELSE "asleep"
        /\ \A s \in Runners \ {r} : /\ rtask'[s] = rtask[s] /\ rpc'[s] = rpc[s] /\ rshut'[s] = rshut[s]
        /\ UNCHANGED <<obj, tr, task, freed, cpc, cobj, ctask>>
    BY DEF Assigned, RunnerGoes, TypeOK, Tsk, poolables, tasks, clients
  <1>2. \A s \in Runners : Tsk(s)' = Tsk(s) /\ Used(s)' = Used(s)
    BY <1>1 DEF Tsk, Used
  <1>3. RunnerSound(r)'
    BY <1>1, <1>2 DEF RunnerSound
  <1>4. (Lives(r)' <=> Lives(r)) /\ (RunnerHolds(r)' => RunnerHolds(r))
    BY <1>1, <1>2 DEF RunnerHolds, Lives
  <1>5. \A t \in Tasks : InUse(t)' => InUse(t)
    <2> SUFFICES ASSUME NEW t \in Tasks, InUse(t)' PROVE InUse(t)
      OBVIOUS
    <2>1. PICK s \in Runners : \/ rtask'[s] = t /\ rpc'[s] \in {"assigned", "main", "finalize"}
                               \/ Tsk(s) = t /\ rpc'[s] \notin {"unlock", "teardown", "over"}
      BY <1>2 DEF InUse, Tsk
    <2> QED BY <1>1, <2>1 DEF InUse, Tsk
  <1> QED BY <1>1, <1>2, <1>3, <1>4, <1>5, RunnerMoves

LEMMA TaskStartsTasks ==
    ASSUME TypeOK, TaskInv, PoolInv, NEW r \in Runners, TaskStarts(r)
    PROVE  TaskInv'
  <1>1. /\ rpc[r] = "assigned" /\ rtask[r] # Nobody /\ rtask[r] = Tsk(r) /\ rtask[r] \in Tasks
        /\ rpc'[r] = "main" /\ \A s \in Runners \ {r} : rpc'[s] = rpc[s]
        /\ UNCHANGED <<obj, tr, rtask, rshut, freed, cpc, cobj, ctask>>
        /\ task' = [task EXCEPT ![rtask[r]].m_state = "RUNNING"]
    BY DEF TaskStarts, RunnerGoes, TypeOK, Tsk, poolables, clients, TaskInv, RunnerSound
  <1>2. \A s \in Runners : Tsk(s)' = Tsk(s) /\ Used(s)' = Used(s)
    BY <1>1 DEF Tsk, Used
  <1>3. \A t \in Tasks : /\ task'[t].m_state = "CONSTRUCTED" => task[t].m_state = "CONSTRUCTED"
                         /\ task'[t].m_flag = task[t].m_flag
                         /\ task'[t].m_is_wait_done = task[t].m_is_wait_done
    BY <1>1 DEF TypeOK
  <1>4. RunnerSound(r)'
    BY <1>1, <1>2 DEF RunnerSound
  <1>5. (Lives(r)' <=> Lives(r)) /\ (RunnerHolds(r)' => RunnerHolds(r))
    BY <1>1, <1>2, <1>3 DEF RunnerHolds, Lives
  <1>6. \A t \in Tasks : InUse(t)' => InUse(t)
    <2> SUFFICES ASSUME NEW t \in Tasks, InUse(t)' PROVE InUse(t)
      OBVIOUS
    <2>1. PICK s \in Runners : \/ rtask[s] = t /\ rpc'[s] \in {"assigned", "main", "finalize"}
                               \/ Tsk(s) = t /\ rpc'[s] \notin {"unlock", "teardown", "over"}
      BY <1>1, <1>2 DEF InUse, Tsk
    <2> QED BY <1>1, <2>1 DEF InUse, Tsk
  <1> QED BY <1>1, <1>2, <1>3, <1>4, <1>5, <1>6, RunnerMoves

LEMMA MainReturnsTasks ==
    ASSUME TypeOK, TaskInv, PoolInv, NEW r \in Runners, MainReturns(r)
    PROVE  TaskInv'
  <1>1. /\ rpc[r] = "main" /\ rtask[r] # Nobody /\ rtask[r] = Tsk(r) /\ rtask[r] \in Tasks
        /\ rpc'[r] = "finalize" /\ \A s \in Runners \ {r} : rpc'[s] = rpc[s]
        /\ UNCHANGED <<obj, rtask, rshut, freed, cpc, cobj, ctask>>
        /\ task' = [task EXCEPT ![rtask[r]].m_state = "CLEAN_FINISHED"]
        /\ tr' = [tr EXCEPT ![r].m_tsk = Nobody]
    BY DEF MainReturns, TaskOf, RunnerGoes, TypeOK, Tsk, poolables, clients, TaskInv, RunnerSound
  <1>2. /\ \A s \in Runners \ {r} : Tsk(s)' = Tsk(s)
        /\ Tsk(r)' = Nobody
        /\ \A s \in Runners : Used(s)' = Used(s)
    BY <1>1 DEF Tsk, Used, TypeOK
  <1>3. \A t \in Tasks : /\ task'[t].m_state = "CONSTRUCTED" => task[t].m_state = "CONSTRUCTED"
                         /\ task'[t].m_flag = task[t].m_flag
                         /\ task'[t].m_is_wait_done = task[t].m_is_wait_done
    BY <1>1 DEF TypeOK
  <1>4. RunnerSound(r)'
    BY <1>1, <1>2 DEF RunnerSound
  <1>5. (Lives(r)' <=> Lives(r)) /\ (RunnerHolds(r)' => RunnerHolds(r))
    BY <1>1, <1>2, <1>3 DEF RunnerHolds, Lives, WillRelease
  <1>6. \A t \in Tasks : InUse(t)' => InUse(t)
    <2> SUFFICES ASSUME NEW t \in Tasks, InUse(t)' PROVE InUse(t)
      OBVIOUS
    <2>1. PICK s \in Runners : \/ rtask[s] = t /\ rpc'[s] \in {"assigned", "main", "finalize"}
                               \/ Tsk(s)' = t /\ rpc'[s] \notin {"unlock", "teardown", "over"}
      BY <1>1 DEF InUse, Tsk
    <2> QED BY <1>1, <1>2, <2>1, Constants DEF InUse, Tsk
  <1> QED BY <1>1, <1>2, <1>3, <1>4, <1>5, <1>6, RunnerMoves

\* The waiter is told, and the task is freed, when the thread does not need it any more.
LEMMA FinalizeTaskTasks ==
    ASSUME TypeOK, TaskInv, PoolInv, NEW r \in Runners, FinalizeTask(r) \/ AfterTask(r)
    PROVE  TaskInv'
  <1> DEFINE T == rtask[r]
  <1>1. /\ rpc[r] \in {"finalize", "after"} /\ T # Nobody /\ T # Tsk(r) /\ T \in Tasks
        /\ \A s \in Runners \ {r} : rpc'[s] = rpc[s] /\ rtask'[s] = rtask[s]
        /\ UNCHANGED <<obj, tr, rshut, cpc, cobj, ctask>>
    BY DEF FinalizeTask, AfterTask, RunnerGoes, TypeOK, Tsk, poolables, clients, TaskInv, RunnerSound
  <1>2. \A s \in Runners : Tsk(s)' = Tsk(s) /\ Used(s)' = Used(s)
    BY <1>1 DEF Tsk, Used
  <1>3. /\ task[T].m_state # "CONSTRUCTED"
        /\ \A s \in Runners \ {r} : Tsk(s) # T /\ rtask[s] # T
    BY <1>1 DEF TaskInv, Given, Unrun, Carries
  <1>4. CASE FinalizeTask(r)
    <2>1. /\ rpc[r] = "finalize" /\ rpc'[r] = "after" /\ rtask' = rtask /\ freed' = freed
          /\ task' = [task EXCEPT ![T].m_is_wait_done = TRUE]
      BY <1>4 DEF FinalizeTask, RunnerGoes, TypeOK
    <2>2. \A t \in Tasks : /\ task'[t].m_state = task[t].m_state
                           /\ task'[t].m_flag = task[t].m_flag
                           /\ t # T => task'[t].m_is_wait_done = task[t].m_is_wait_done
      <3>1. \A t \in Tasks \ {T} : task'[t] = task[t]
        BY <2>1 DEF TypeOK
      <3>2. task'[T].m_state = task[T].m_state /\ task'[T].m_flag = task[T].m_flag
        BY <1>1, <2>1 DEF TypeOK
      <3> QED BY <3>1, <3>2
    <2>3. RunnerSound(r)'
      BY <1>1, <1>2, <2>1, <2>2 DEF TaskInv, RunnerSound, WillRelease
    <2>4. (Lives(r)' <=> Lives(r)) /\ (RunnerHolds(r)' => RunnerHolds(r))
      <3>1. Tsk(r) # Nobody => Tsk(r) \in Tasks
        BY DEF TypeOK, Tsk
      <3> QED BY <1>1, <1>2, <2>1, <2>2, <3>1 DEF RunnerHolds, Lives, WillRelease
    <2>5. \A t \in Tasks : InUse(t)' => InUse(t) /\ t # T
      BY <1>1, <1>2, <1>3, <2>1 DEF InUse, Tsk
    <2> QED BY <1>1, <1>2, <1>3, <2>1, <2>2, <2>3, <2>4, <2>5, RunnerMoves
  <1>5. CASE AfterTask(r)
    <2>1. /\ rpc[r] = "after" /\ rtask'[r] = Nobody /\ task' = task /\ freed' \subseteq freed \cup {T}
          /\ rpc'[r] = IF WillRelease(r) THEN "release" ELSE "loop"
      BY <1>1, <1>5 DEF AfterTask, RunnerGoes, TypeOK, WillRelease
    <2>2. RunnerSound(r)'
      BY <1>1, <1>2, <2>1 DEF TaskInv, RunnerSound
    <2>3. (Lives(r)' <=> Lives(r)) /\ (RunnerHolds(r)' => RunnerHolds(r))
      BY <1>1, <1>2, <2>1 DEF RunnerHolds, Lives
    <2>4. \A t \in Tasks : InUse(t)' => InUse(t) /\ t # T
      BY <1>1, <1>2, <1>3, <2>1 DEF InUse, Tsk
    <2> QED BY <1>1, <1>2, <1>3, <2>1, <2>2, <2>3, <2>4, RunnerMoves
  <1> QED BY <1>4, <1>5

\* The end of the thread: the task that it has, or got too late, is told of.
LEMMA ExitTaskTasks ==
    ASSUME TypeOK, TaskInv, PoolInv, NEW r \in Runners, ExitTask(r)
    PROVE  TaskInv'
  <1> DEFINE T == Tsk(r)
  <1>1. /\ rpc[r] = "exit" /\ rpc'[r] = "unlock" /\ rtask'[r] = Nobody
        /\ \A s \in Runners \ {r} : rpc'[s] = rpc[s] /\ rtask'[s] = rtask[s]
        /\ UNCHANGED <<obj, tr, rshut, freed, cpc, cobj, ctask>>
    BY DEF ExitTask, RunnerGoes, TypeOK, poolables, clients
  <1>2. \A s \in Runners : Tsk(s)' = Tsk(s) /\ Used(s)' = Used(s)
    BY <1>1 DEF Tsk, Used
  <1>3. \A t \in Tasks : /\ task'[t].m_state = "CONSTRUCTED" => task[t].m_state = "CONSTRUCTED"
                         /\ task'[t].m_flag = task[t].m_flag
                         /\ t # T => task'[t].m_is_wait_done = task[t].m_is_wait_done
                         /\ t = T => task'[t].m_state # "CONSTRUCTED"
    <2>1. CASE T = Nobody
      <3>1. task' = task
        BY <2>1 DEF ExitTask, Tsk
      <3> QED BY <2>1, <3>1, Constants
    <2>2. CASE T # Nobody
      <3>1. T \in Tasks
        BY <2>2 DEF TypeOK, Tsk
      <3>2. task' = [task EXCEPT ![T].m_state = IF cut[r] THEN "CANCELLED" ELSE "HALTED",
                                 ![T].m_is_wait_done = TRUE]
        BY <2>2 DEF ExitTask, Told, Tsk
      <3>3. \A t \in Tasks \ {T} : task'[t] = task[t]
        BY <3>2 DEF TypeOK
      <3>4. task'[T].m_state \in {"CANCELLED", "HALTED"} /\ task'[T].m_flag = task[T].m_flag
        BY <3>1, <3>2 DEF TypeOK
      <3> QED BY <3>3, <3>4
    <2> QED BY <2>1, <2>2
  <1>4. RunnerSound(r)'
    BY <1>1 DEF RunnerSound
  <1>5. ~Lives(r)' /\ ~RunnerHolds(r)'
    BY <1>1 DEF RunnerHolds, Lives
  <1>6. \A t \in Tasks : InUse(t)' => InUse(t) /\ t # T
    <2>1. \A s \in Runners \ {r} : Tsk(s) = T \/ rtask[s] = T => T \notin Tasks
      BY DEF TaskInv, Given, Carries
    <2> QED BY <1>1, <1>2, <2>1 DEF InUse, Tsk
  <1> QED BY <1>1, <1>2, <1>3, <1>4, <1>5, <1>6, RunnerMoves

LEMMA RunnerReleasesTasks ==
    ASSUME TypeOK, TaskInv, PoolInv, NEW r \in Runners, RunnerReleases(r)
    PROVE  TaskInv'
  <1>1. /\ rpc[r] = "release" /\ rpc'[r] \in {"put", "loop"}
        /\ \A s \in Runners \ {r} : rpc'[s] = rpc[s]
        /\ UNCHANGED <<obj, tr, task, freed, rtask, rshut, cpc, cobj, ctask>>
    BY DEF RunnerReleases, RunnerGoes, TypeOK, poolables, tasks, clients
  <1>2. \A s \in Runners : Tsk(s)' = Tsk(s) /\ Used(s)' = Used(s)
    BY <1>1 DEF Tsk, Used
  <1>3. RunnerSound(r)'
    BY <1>1, <1>2 DEF TaskInv, RunnerSound
  <1>4. (Lives(r)' <=> Lives(r)) /\ RunnerHolds(r)
    BY <1>1 DEF RunnerHolds, Lives
  <1>5. \A t \in Tasks : InUse(t)' => InUse(t)
    BY <1>1, <1>2 DEF InUse, Tsk
  <1> QED BY <1>1, <1>2, <1>3, <1>4, <1>5, RunnerMoves

\* A thread comes back to the queue, from itself or from its client: it has no task.
LEMMA PutTasks ==
    ASSUME TypeOK, TaskInv, PoolInv, NEW r \in Runners, Put(r), UNCHANGED <<tr, rtask, rshut, tasks>>,
           \/ /\ rpc[r] = "put" /\ rpc' = [rpc EXCEPT ![r] = "loop"]
              /\ UNCHANGED clients
           \/ \E c \in Clients : /\ cpc[c] = "put" /\ cobj[c] = r
                                 /\ cpc' = [cpc EXCEPT ![c] = "idle"]
                                 /\ UNCHANGED <<rpc, ctask>>
                                 /\ \A d \in Clients \ {c} : cobj'[d] = cobj[d]
    PROVE  TaskInv'
  <1>1. /\ \A s \in Runners : Tsk(s)' = Tsk(s)
        /\ \A s \in Runners \ {r} : Used(s)' = Used(s)
        /\ UNCHANGED <<task, freed>>
    BY DEF Tsk, Used, Put, TypeOK, tasks
  <1>2. rpc[r] = "put" \/ \E c \in Clients : ClientHolds(c, r) /\ cpc[c] = "put"
    BY DEF ClientHolds
  <1>3. ~Lives(r) \/ Tsk(r) = Nobody
    BY <1>2 DEF TaskInv, Occupied, RunnerSound
  <1>4. /\ \A s \in Runners : (Lives(s)' <=> Lives(s)) /\ RunnerSound(s)'
        /\ \A s \in Runners : RunnerHolds(s)' => RunnerHolds(s)
        /\ ~RunnerHolds(r)'
    <2>1. CASE rpc[r] = "put" /\ rpc' = [rpc EXCEPT ![r] = "loop"]
      <3>1. rpc'[r] = "loop" /\ \A s \in Runners \ {r} : rpc'[s] = rpc[s]
        BY <2>1 DEF TypeOK
      <3>2. Lives(r) /\ Tsk(r) = Nobody
        BY <1>3, <2>1 DEF Lives
      <3> QED BY <1>1, <2>1, <3>1, <3>2 DEF TaskInv, Lives, RunnerSound, RunnerHolds, WillRelease
    <2>2. CASE rpc' = rpc /\ \E c \in Clients : ClientHolds(c, r)
      <3>1. ~RunnerHolds(r)
        BY <2>2 DEF TaskInv, Held
      <3> QED BY <1>1, <2>2, <3>1 DEF TaskInv, Lives, RunnerSound, RunnerHolds, WillRelease
    <2> QED BY <2>1, <2>2 DEF ClientHolds
  <1>5. \A c \in Clients, s \in Runners : ClientHolds(c, s)' =>
           ClientHolds(c, s) /\ s # r /\ cpc'[c] = cpc[c] /\ ctask'[c] = ctask[c]
    <2>1. CASE rpc[r] = "put" /\ UNCHANGED clients
      <3>1. \A c \in Clients : ~ClientHolds(c, r)
        BY <2>1 DEF RunnerHolds, TaskInv, Held
      <3> QED BY <1>1, <2>1, <3>1 DEF ClientHolds, Keeps, clients
    <2>2. ASSUME NEW c \in Clients, cpc[c] = "put", cobj[c] = r, cpc' = [cpc EXCEPT ![c] = "idle"],
                 UNCHANGED <<rpc, ctask>>, \A d \in Clients \ {c} : cobj'[d] = cobj[d]
          PROVE  \A d \in Clients, s \in Runners :
                    ClientHolds(d, s)' => ClientHolds(d, s) /\ s # r /\ cpc'[d] = cpc[d] /\ ctask'[d] = ctask[d]
      <3>1. cpc'[c] = "idle" /\ \A d \in Clients \ {c} : cpc'[d] = cpc[d]
        BY <2>2 DEF TypeOK
      <3>2. \A d \in Clients \ {c} : ~ClientHolds(d, r)
        BY <2>2 DEF ClientHolds, TaskInv, Held
      <3> QED BY <1>1, <2>2, <3>1, <3>2 DEF ClientHolds, Keeps
    <2> QED BY <2>1, <2>2
  <1>6. Given'
    BY <1>1 DEF TaskInv, Given, Unrun, Carries
  <1>7. Held'
    BY <1>1, <1>4, <1>5 DEF TaskInv, Held
  <1>8. Occupied'
    BY <1>1, <1>3, <1>4, <1>5 DEF TaskInv, Occupied
  <1>9. DoneIsOver'
    <2>1. \A t \in Tasks : InUse(t)' => InUse(t)
      BY <1>1 DEF InUse, Tsk, TypeOK
    <2> QED BY <1>1, <2>1 DEF TaskInv, DoneIsOver
  <1> QED BY <1>4, <1>6, <1>7, <1>8, <1>9 DEF TaskInv

\* A client comes to hold a thread that was free: the thread has no task.
LEMMA AcquiredTasks ==
    ASSUME TypeOK, TaskInv, PoolInv, NEW r \in Runners, NEW c \in Clients, ~Used(r), Used(r)',
           \A s \in Runners \ {r} : Used(s)' = Used(s),
           \A s \in Runners : \/ Tsk(s)' = Tsk(s) /\ rpc'[s] = rpc[s]
                              \/ rpc[s] = "none" /\ rpc'[s] = "gala" /\ Tsk(s)' = Nobody,
           cpc[c] \in {"look", "take", "got"}, cpc' = [cpc EXCEPT ![c] = "have"], cobj'[c] = r,
           \A d \in Clients \ {c} : cobj'[d] = cobj[d],
           UNCHANGED <<rtask, rshut, tasks, ctask>>
    PROVE  TaskInv'
  <1>1. /\ UNCHANGED <<task, freed>>
        /\ cpc'[c] = "have" /\ \A d \in Clients \ {c} : cpc'[d] = cpc[d]
    BY DEF TypeOK, tasks
  <1>2. \A s \in Runners : rpc[s] = "none" => Tsk(s) = Nobody
    BY DEF TaskInv, RunnerSound
  <1>3. /\ ~RunnerHolds(r) /\ \A d \in Clients : ~ClientHolds(d, r)
        /\ ~Lives(r) \/ Tsk(r) = Nobody
    BY DEF TaskInv, Held, Occupied
  <1>4. \A s \in Runners : /\ RunnerHolds(s)' <=> RunnerHolds(s)
                           /\ Tsk(s)' = Tsk(s) /\ RunnerSound(s)'
                           /\ Lives(s)' /\ Tsk(s)' # Nobody => Lives(s)
    BY <1>1, <1>2 DEF RunnerHolds, WillRelease, Lives, RunnerSound, TaskInv
  <1>5. \A d \in Clients, s \in Runners :
           ClientHolds(d, s)' => (d = c /\ s = r) \/ (d # c /\ ClientHolds(d, s))
    BY <1>1 DEF ClientHolds, Keeps
  <1>6. Given'
    BY <1>1, <1>4 DEF TaskInv, Given, Unrun, Carries
  <1>7. Held'
    BY <1>3, <1>4, <1>5 DEF TaskInv, Held
  <1>8. Occupied'
    BY <1>1, <1>3, <1>4, <1>5 DEF TaskInv, Occupied
  <1>9. DoneIsOver'
    <2>1. \A t \in Tasks : InUse(t)' => InUse(t)
      BY <1>2, <1>4, Constants DEF InUse, Tsk
    <2> QED BY <1>1, <2>1 DEF TaskInv, DoneIsOver
  <1> QED BY <1>4, <1>6, <1>7, <1>8, <1>9 DEF TaskInv

\* A task is given to a thread whose client has just got it: nobody else has either.
LEMMA RunTaskTasks ==
    ASSUME TypeOK, TaskInv, PoolInv, NEW c \in Clients, NEW t \in Tasks, NEW flag \in Flags,
           RunTask(c, t, flag)
    PROVE  TaskInv'
  <1> DEFINE R == cobj[c]
  <1>1. cpc[c] = "have" /\ R \in Runners /\ task[t].m_state = "CONSTRUCTED"
    BY Constants DEF RunTask, PoolInv, ClientSound, TypeOK
  <1>2. /\ task'[t].m_state = "ATTACHED" /\ task'[t].m_flag = flag
        /\ task'[t].m_is_wait_done = task[t].m_is_wait_done
        /\ \A u \in Tasks \ {t} : task'[u] = task[u]
    BY DEF RunTask, TypeOK
  <1>3. /\ Tsk(R)' = t /\ \A s \in Runners \ {R} : Tsk(s)' = Tsk(s)
        /\ UNCHANGED <<obj, freed, rtask, rshut, cobj>>
    BY <1>1 DEF RunTask, TypeOK, Tsk, poolables
  <1>4. /\ cpc'[c] = "ran" /\ ctask'[c] = t
        /\ \A d \in Clients \ {c} : cpc'[d] = cpc[d] /\ ctask'[d] = ctask[d]
    BY DEF RunTask, ClientGoes, TypeOK
  <1>5. /\ \A s \in Runners \ {R} : rpc'[s] = rpc[s]
        /\ rpc'[R] = rpc[R] \/ (rpc[R] = "asleep" /\ rpc'[R] = "loop")
    BY DEF RunTask, Notify, TypeOK
  <1>6. /\ ClientHolds(c, R) /\ Used(R) /\ ~RunnerHolds(R)
        /\ \A d \in Clients \ {c} : ~ClientHolds(d, R)
        /\ ~Lives(R) \/ Tsk(R) = Nobody
    BY <1>1 DEF ClientHolds, TaskInv, Held, Occupied
  <1>7. \A s \in Runners : Tsk(s) # t /\ rtask[s] # t
    BY <1>1 DEF TaskInv, Given, Unrun
  <1>8. \A s \in Runners : /\ Used(s)' = Used(s)
                           /\ Lives(s)' <=> Lives(s)
                           /\ WillRelease(s)' <=> WillRelease(s)
    <2>1. \A s \in Runners : rtask[s] # Nobody => task'[rtask[s]] = task[rtask[s]]
      BY <1>2, <1>7 DEF TypeOK
    <2> QED BY <1>3, <1>5, <2>1 DEF Used, Lives, WillRelease
  <1>9. Given'
    <2>1. ASSUME NEW u \in Tasks PROVE Unrun(u)'
      <3>1. CASE u = t
        BY <1>2, <3>1 DEF Unrun
      <3>2. CASE u # t
        BY <1>2, <1>3, <3>2 DEF Unrun, TaskInv, Given
      <3> QED BY <3>1, <3>2
    <2>2. ASSUME NEW u \in Tasks, NEW r \in Runners, NEW s \in Runners, Carries(r, u)', Carries(s, u)'
          PROVE  r = s
      <3>1. CASE u = t
        BY <1>3, <1>7, <2>2, <3>1 DEF Carries
      <3>2. CASE u # t
        BY <1>3, <2>2, <3>2 DEF Carries, TaskInv, Given
      <3> QED BY <3>1, <3>2
    <2> QED BY <2>1, <2>2 DEF Given
  <1>10. ASSUME NEW s \in Runners PROVE RunnerSound(s)'
    <2>1. RunnerSound(s)
      BY DEF TaskInv
    <2>2. CASE s # R
      BY <1>3, <1>5, <1>8, <2>1, <2>2 DEF RunnerSound
    <2>3. CASE s = R
      <3>1. /\ rpc[R] \notin {"release", "put", "main"}
            /\ rpc[R] = "assigned" => rtask[R] = Nobody
            /\ ~(rpc[R] \in {"finalize", "after"} /\ WillRelease(R))
        BY <1>6, <2>1, <2>3 DEF RunnerSound, RunnerHolds, Lives
      <3>2. rpc[R] # "none"
        BY <1>1, <1>6 DEF PoolInv, Unborn
      <3> QED BY <1>1, <1>3, <1>5, <1>7, <1>8, <2>1, <2>3, <3>1, <3>2 DEF RunnerSound
    <2> QED BY <2>2, <2>3
  <1>11. \A s \in Runners \ {R} : RunnerHolds(s)' <=> RunnerHolds(s)
    <2>1. \A s \in Runners \ {R} : Tsk(s) # Nobody => task'[Tsk(s)] = task[Tsk(s)]
      BY <1>2, <1>7 DEF TypeOK, Tsk
    <2> QED BY <1>3, <1>5, <1>8, <2>1 DEF RunnerHolds
  <1>12. /\ \A d \in Clients \ {c}, s \in Runners : ClientHolds(d, s)' => ClientHolds(d, s)
         /\ \A s \in Runners : ClientHolds(c, s)' => s = R /\ "release" \notin flag
    <2>1. \A d \in Clients : cpc[d] = "ran" => ctask[d] \in Tasks /\ ctask[d] # t
      BY <1>1 DEF PoolInv, ClientSound
    <2>2. \A d \in Clients \ {c} : cpc[d] = "ran" => (Keeps(d)' <=> Keeps(d))
      BY <1>2, <1>4, <2>1 DEF Keeps
    <2>3. \A d \in Clients \ {c}, s \in Runners : ClientHolds(d, s)' => ClientHolds(d, s)
      BY <1>3, <1>4, <2>2 DEF ClientHolds
    <2>4. ASSUME NEW s \in Runners, ClientHolds(c, s)'
          PROVE  s = R /\ "release" \notin flag
      BY <1>2, <1>3, <1>4, <2>4 DEF ClientHolds, Keeps
    <2> QED BY <2>3, <2>4
  <1>13. \A s \in Runners : s = R /\ RunnerHolds(s)' => "release" \in flag
    BY <1>1, <1>2, <1>3, <1>5, <1>6, <1>8 DEF RunnerHolds
  <1>14. Held'
    <2>1. \A s \in Runners : RunnerHolds(s)' => Used(s)'
      BY <1>6, <1>8, <1>11 DEF TaskInv, Held
    <2>2. ASSUME NEW s \in Runners, NEW d \in Clients, ClientHolds(d, s)'
          PROVE  /\ Used(s)' /\ ~RunnerHolds(s)'
                 /\ \A e \in Clients : ClientHolds(e, s)' => e = d
      <3>1. CASE s = R
        <4>1. \A e \in Clients : ClientHolds(e, s)' => e = c /\ "release" \notin flag
          BY <1>6, <1>12, <3>1
        <4>2. Used(s)'
          BY <1>6, <1>8, <3>1
        <4> QED BY <1>13, <2>2, <4>1, <4>2, <3>1
      <3>2. CASE s # R
        <4>1. \A e \in Clients : ClientHolds(e, s)' => ClientHolds(e, s)
          BY <1>12, <3>2
        <4> QED BY <1>8, <1>11, <2>2, <3>2, <4>1 DEF TaskInv, Held
      <3> QED BY <3>1, <3>2
    <2> QED BY <2>1, <2>2 DEF Held
  <1>15. Occupied'
    BY <1>3, <1>4, <1>6, <1>8, <1>12 DEF TaskInv, Occupied
  <1>16. DoneIsOver'
    <2>1. \A u \in Tasks \ {t} : InUse(u)' => InUse(u)
      BY <1>3, <1>5 DEF InUse, Tsk
    <2>2. ~task[t].m_is_wait_done /\ t \notin freed
      BY <1>1 DEF TaskInv, Given, Unrun
    <2> QED BY <1>2, <1>3, <2>1, <2>2 DEF TaskInv, DoneIsOver
  <1> QED BY <1>9, <1>10, <1>14, <1>15, <1>16 DEF TaskInv

\* Who was told of its task finds that no thread has it.
LEMMA WaitTaskTasks ==
    ASSUME TypeOK, TaskInv, PoolInv, NEW c \in Clients, WaitTask(c)
    PROVE  TaskInv'
  <1> DEFINE T == ctask[c]
  <1>1. /\ cpc[c] = "wait" /\ T \in Tasks /\ task[T].m_state # "CONSTRUCTED" /\ task[T].m_is_wait_done
        /\ freed' \subseteq freed \cup {T}
        /\ UNCHANGED <<obj, tr, rpc, rtask, rshut, task, cobj>>
        /\ cpc'[c] = IF cobj[c] = 0 THEN "idle" ELSE "release"
        /\ \A d \in Clients \ {c} : cpc'[d] = cpc[d] /\ ctask'[d] = ctask[d]
    BY DEF WaitTask, ClientGoes, TypeOK, PoolInv, ClientSound, poolables, threads
  <1>2. /\ \A r \in Runners : /\ Tsk(r)' = Tsk(r) /\ Used(r)' = Used(r)
                              /\ Lives(r)' <=> Lives(r)
                              /\ RunnerHolds(r)' <=> RunnerHolds(r)
                              /\ RunnerSound(r)' <=> RunnerSound(r)
        /\ \A t \in Tasks : InUse(t)' <=> InUse(t)
    BY <1>1 DEF Tsk, Used, Lives, RunnerHolds, RunnerSound, WillRelease, InUse
  <1>3. ~InUse(T)
    BY <1>1 DEF TaskInv, DoneIsOver
  <1>4. \A d \in Clients, r \in Runners : ClientHolds(d, r)' => ClientHolds(d, r)
    BY <1>1 DEF ClientHolds, Keeps
  <1>5. \A r \in Runners : ClientHolds(c, r) => ~Lives(r) \/ Tsk(r) = Nobody
    <2> SUFFICES ASSUME NEW r \in Runners, ClientHolds(c, r), Lives(r), Tsk(r) # Nobody
                 PROVE  FALSE
      OBVIOUS
    <2>1. Tsk(r) = T
      BY DEF TaskInv, Occupied
    <2> QED BY <1>3, <2>1 DEF InUse, Tsk, Lives
  <1>6. Given'
    BY <1>1, <1>2 DEF TaskInv, Given, Unrun, Carries
  <1>7. Held'
    BY <1>2, <1>4 DEF TaskInv, Held
  <1>8. Occupied'
    <2>1. \A d \in Clients, r \in Runners :
             ClientHolds(d, r)' /\ Lives(r) /\ Tsk(r) # Nobody => d # c
      BY <1>4, <1>5
    <2> QED BY <1>1, <1>2, <1>4, <2>1 DEF TaskInv, Occupied
  <1>9. DoneIsOver'
    BY <1>1, <1>2, <1>3 DEF TaskInv, DoneIsOver
  <1> QED BY <1>2, <1>6, <1>7, <1>8, <1>9 DEF TaskInv

LEMMA TeardownUses ==
    ASSUME TypeOK, NEW r \in Runners, Teardown(r)
    PROVE  \A s \in Runners : Used(s)' = Used(s)
  <1> DEFINE o == [obj[r] EXCEPT !.m_st = "NOT_OPERATIONAL", !.m_is_cancelled = cut[r],
                                 !.m_is_torndown = TRUE]
  <1>1. obj' = [obj EXCEPT ![r] = o]
    BY DEF Teardown, TypeOK
  <1>2. o.m_is_used = obj[r].m_is_used
    BY DEF TypeOK
  <1>3. obj'[r] = o /\ \A s \in Runners \ {r} : obj'[s] = obj[s]
    BY <1>1 DEF TypeOK
  <1> QED BY <1>2, <1>3 DEF Used

\* The steps in which no task changes hands.
LEMMA PlainTasks ==
    ASSUME TypeOK, TaskInv, PoolInv,
           \/ \E r \in Runners : \/ GalaOpens(r) \/ SpuriousWakeup(r) \/ TaskRefused(r) \/ Canceled(r)
                                 \/ TeardownUnlocks(r) \/ Teardown(r)
           \/ \E c \in Clients : \/ AcquireTests(c) \/ AcquireLooks(c) \/ AcquireSticks(c)
                                 \/ AcquireFindsNone(c) \/ AcquireGets(c) \/ AcquireFails(c) \/ RunReturns(c)
                                 \/ ClientReleases(c)
    PROVE  TaskInv'
  <1> USE DEF RunnerGoes, ClientGoes, pool, poolables, threads, tasks, clients, TypeOK
  <1>1. ASSUME NEW r \in Runners,
               \/ GalaOpens(r) \/ SpuriousWakeup(r) \/ TaskRefused(r) \/ Canceled(r)
               \/ TeardownUnlocks(r) \/ Teardown(r)
        PROVE  TaskInv'
    <2>1. UNCHANGED <<tr, rtask, freed, cpc, cobj, ctask>>
      BY <1>1 DEF GalaOpens, SpuriousWakeup, TaskRefused, Canceled, TeardownUnlocks, Teardown
    <2>2. SameMoves
      BY <1>1 DEF GalaOpens, SpuriousWakeup, TaskRefused, Canceled, TeardownUnlocks, Teardown, SameMoves
    <2>3. \A s \in Runners : Used(s)' = Used(s)
      <3>1. CASE Teardown(r)
        BY <3>1, TeardownUses
      <3>2. CASE ~Teardown(r)
        BY <1>1, <3>2 DEF GalaOpens, SpuriousWakeup, TaskRefused, Canceled, TeardownUnlocks, Used
      <3> QED BY <3>1, <3>2
    <2>4. \A t \in Tasks : /\ task'[t].m_state = "CONSTRUCTED" <=> task[t].m_state = "CONSTRUCTED"
                           /\ task'[t].m_flag = task[t].m_flag
                           /\ task'[t].m_is_wait_done = task[t].m_is_wait_done
      <3>1. CASE TaskRefused(r) /\ rshut[r] /\ rtask[r] # Nobody
        <4>1. rtask[r] \in Tasks /\ task[rtask[r]].m_state # "CONSTRUCTED"
          BY <3>1 DEF TaskInv, Given, Unrun
        <4>2. task' = [task EXCEPT ![rtask[r]].m_state = "RUNNER_SHUTDOWN"]
          BY <3>1 DEF TaskRefused
        <4> QED BY <4>1, <4>2
      <3>2. CASE ~(TaskRefused(r) /\ rshut[r] /\ rtask[r] # Nobody)
        <4>1. task' = task
          BY <1>1, <3>2 DEF GalaOpens, SpuriousWakeup, TaskRefused, Canceled, TeardownUnlocks, Teardown
        <4> QED BY <4>1
      <3> QED BY <3>1, <3>2
    <2>5. SameTasks /\ SameThreads
      BY <2>1, <2>3, <2>4 DEF SameTasks, SameThreads, Tsk
    <2>6. \A c \in Clients : cpc[c] = "ran" /\ Keeps(c)' => Keeps(c)
      <3>1. \A c \in Clients : cpc[c] = "ran" => ctask[c] \in Tasks
        BY DEF PoolInv, ClientSound
      <3> QED BY <2>1, <2>4, <3>1 DEF Keeps
    <2>7. SameHolds
      BY <2>1, <2>6 DEF SameHolds, ClientHolds
    <2> QED BY <2>1, <2>2, <2>5, <2>7, TasksKeep
  <1>2. ASSUME NEW c \in Clients,
               \/ AcquireTests(c) \/ AcquireLooks(c) \/ AcquireSticks(c) \/ AcquireFindsNone(c)
               \/ AcquireGets(c) \/ AcquireFails(c) \/ RunReturns(c) \/ ClientReleases(c)
        PROVE  TaskInv'
    <2>1. UNCHANGED <<obj, tr, rpc, rtask, rshut, task, freed>>
      BY <1>2 DEF AcquireTests, AcquireLooks, AcquireSticks, AcquireFindsNone, AcquireGets,
                  AcquireFails, RunReturns, ClientReleases
    <2>2. \A d \in Clients \ {c} : cpc'[d] = cpc[d] /\ cobj'[d] = cobj[d] /\ ctask'[d] = ctask[d]
      BY <1>2 DEF AcquireTests, AcquireLooks, AcquireSticks, AcquireFindsNone, AcquireGets,
                  AcquireFails, RunReturns, ClientReleases
    <2>3. CASE \/ AcquireTests(c) \/ AcquireLooks(c) \/ AcquireSticks(c) \/ AcquireFindsNone(c)
               \/ AcquireGets(c) \/ AcquireFails(c)
      <3>1. cpc'[c] \in {"look", "take", "stuck", "get", "got", "idle"}
        BY <2>3 DEF AcquireTests, AcquireLooks, AcquireSticks, AcquireFindsNone, AcquireGets, AcquireFails
      <3> QED BY <2>1, <2>2, <3>1, TasksKeep
          DEF SameTasks, SameThreads, SameMoves, SameHolds, Tsk, Used, ClientHolds, Keeps
    <2>4. CASE RunReturns(c)
      <3>1. /\ cpc[c] = "ran" /\ cpc'[c] \in {"idle", "wait"}
            /\ cpc'[c] = "wait" => ctask'[c] = ctask[c]
            /\ cobj'[c] = IF Keeps(c) THEN cobj[c] ELSE 0
        BY <2>4 DEF RunReturns, Keeps
      <3>2. SameHolds
        BY <2>1, <2>2, <3>1, Constants DEF SameHolds, ClientHolds, Keeps
      <3> QED BY <2>1, <3>2, TasksKeep DEF SameTasks, SameThreads, SameMoves, Tsk, Used
    <2>5. CASE ClientReleases(c)
      <3>1. /\ cpc[c] \in {"release", "have"} /\ cpc'[c] \in {"put", "idle"} /\ ctask' = ctask
            /\ cpc'[c] = "put" => cobj'[c] = cobj[c]
        BY <2>5 DEF ClientReleases
      <3>2. SameHolds
        BY <2>1, <2>2, <3>1 DEF SameHolds, ClientHolds, Keeps
      <3> QED BY <2>1, <3>2, TasksKeep DEF SameTasks, SameThreads, SameMoves, Tsk, Used
    <2> QED BY <1>2, <2>3, <2>4, <2>5
  <1> QED BY <1>1, <1>2

-----------------------------------------------------------------------------
(* The types.                                                              *)

ObjType == [m_st : {"UNKNOWN", "OPERATIONAL", "SHUTDOWNING", "CANCELLING", "NOT_OPERATIONAL"},
            m_shutdown_lvl : Levels \cup {"UNKNOWN", "RIGHT_NOW"},
            m_is_used : BOOLEAN, m_is_cancelled : BOOLEAN, m_is_torndown : BOOLEAN]
TskType == [m_tsk : Tasks \cup {Nobody}, m_is_shutdown_requested : BOOLEAN]
TaskType == [m_state : {"CONSTRUCTED", "ATTACHED", "RUNNING", "CLEAN_FINISHED", "RUNNER_SHUTDOWN",
                        "HALTED", "CANCELLED"},
             m_flag : SUBSET {"release", "delete"}, m_is_wait_done : BOOLEAN]

LEMMA Updates ==
    /\ \A o \in ObjType, b \in BOOLEAN : [o EXCEPT !.m_is_used = b] \in ObjType
    /\ \A o \in ObjType, b \in BOOLEAN :
          [o EXCEPT !.m_st = "NOT_OPERATIONAL", !.m_is_cancelled = b, !.m_is_torndown = TRUE] \in ObjType
    /\ \A o \in ObjType : [o EXCEPT !.m_st = "OPERATIONAL", !.m_is_used = TRUE] \in ObjType
    /\ \A o \in ObjType, l \in Levels \cup {"UNKNOWN", "RIGHT_NOW"} :
          [o EXCEPT !.m_st = "SHUTDOWNING", !.m_shutdown_lvl = l] \in ObjType
    /\ \A o \in ObjType : [o EXCEPT !.m_st = "CANCELLING"] \in ObjType
    /\ \A k \in TskType, t \in Tasks \cup {Nobody} : [k EXCEPT !.m_tsk = t] \in TskType
    /\ \A k \in TskType, b \in BOOLEAN : [k EXCEPT !.m_is_shutdown_requested = b] \in TskType
    /\ \A x \in TaskType, b \in BOOLEAN : [x EXCEPT !.m_is_wait_done = b] \in TaskType
    /\ \A x \in TaskType, s \in {"RUNNING", "CLEAN_FINISHED", "RUNNER_SHUTDOWN"} :
          [x EXCEPT !.m_state = s] \in TaskType
    /\ \A x \in TaskType, s \in {"HALTED", "CANCELLED"} :
          [x EXCEPT !.m_state = s, !.m_is_wait_done = TRUE] \in TaskType
    /\ \A x \in TaskType, f \in SUBSET {"release", "delete"} :
          [x EXCEPT !.m_state = "ATTACHED", !.m_flag = f] \in TaskType
  <1>1. /\ \A o \in ObjType, b \in BOOLEAN : [o EXCEPT !.m_is_used = b] \in ObjType
        /\ \A o \in ObjType : [o EXCEPT !.m_st = "CANCELLING"] \in ObjType
    BY DEF ObjType
  <1>2. \A o \in ObjType, b \in BOOLEAN :
          [o EXCEPT !.m_st = "NOT_OPERATIONAL", !.m_is_cancelled = b, !.m_is_torndown = TRUE] \in ObjType
    BY DEF ObjType
  <1>3. \A o \in ObjType : [o EXCEPT !.m_st = "OPERATIONAL", !.m_is_used = TRUE] \in ObjType
    BY DEF ObjType
  <1>4. \A o \in ObjType, l \in Levels \cup {"UNKNOWN", "RIGHT_NOW"} :
          [o EXCEPT !.m_st = "SHUTDOWNING", !.m_shutdown_lvl = l] \in ObjType
    BY DEF ObjType
  <1>5. /\ \A k \in TskType, t \in Tasks \cup {Nobody} : [k EXCEPT !.m_tsk = t] \in TskType
        /\ \A k \in TskType, b \in BOOLEAN : [k EXCEPT !.m_is_shutdown_requested = b] \in TskType
    BY DEF TskType
  <1>6. \A x \in TaskType, b \in BOOLEAN : [x EXCEPT !.m_is_wait_done = b] \in TaskType
    BY DEF TaskType
  <1>7. \A x \in TaskType, s \in {"RUNNING", "CLEAN_FINISHED", "RUNNER_SHUTDOWN"} :
          [x EXCEPT !.m_state = s] \in TaskType
    BY DEF TaskType
  <1>8. \A x \in TaskType, s \in {"HALTED", "CANCELLED"} :
          [x EXCEPT !.m_state = s, !.m_is_wait_done = TRUE] \in TaskType
    BY DEF TaskType
  <1>9. \A x \in TaskType, f \in SUBSET {"release", "delete"} :
          [x EXCEPT !.m_state = "ATTACHED", !.m_flag = f] \in TaskType
    BY DEF TaskType
  <1> QED BY <1>1, <1>2, <1>3, <1>4, <1>5, <1>6, <1>7, <1>8, <1>9

LEMMA Typed ==
    ASSUME TypeOK
    PROVE  /\ obj \in [Runners -> ObjType] /\ tr \in [Runners -> TskType]
           /\ task \in [Tasks -> TaskType]
  BY DEF TypeOK, ObjType, TskType, TaskType

LEMMA PutType ==
    ASSUME TypeOK, NEW r \in Runners, Put(r)
    PROVE  /\ obj' \in [Runners -> ObjType] /\ m_free_q' \in Seq(Runners)
           /\ UNCHANGED <<m_state, m_lck, m_obj_idx, olck>>
  <1>1. obj' = [obj EXCEPT ![r] = [obj[r] EXCEPT !.m_is_used = FALSE]]
    BY DEF Put, TypeOK
  <1>2. obj' \in [Runners -> ObjType]
    BY <1>1, Typed, Updates
  <1>3. m_free_q' \in Seq(Runners)
    BY DEF Put, TypeOK
  <1> QED BY <1>2, <1>3 DEF Put

\* The task of a thread, and what becomes of it.
LEMMA TaskKept ==
    ASSUME TypeOK, \A r \in Runners : RunnerSound(r), NEW r \in Runners,
           \/ TaskStarts(r) \/ TaskRefused(r) \/ MainReturns(r) \/ FinalizeTask(r) \/ ExitTask(r)
    PROVE  task' \in [Tasks -> TaskType]
  <1>0. rtask[r] \in Tasks \cup {Nobody} /\ task \in [Tasks -> TaskType]
    BY Typed DEF TypeOK
  <1>1. CASE TaskStarts(r)
    <2>1. rtask[r] \in Tasks
      BY <1>0, <1>1 DEF TaskStarts, RunnerSound
    <2>2. task' = [task EXCEPT ![rtask[r]] = [task[rtask[r]] EXCEPT !.m_state = "RUNNING"]]
      BY <1>1, <2>1 DEF TaskStarts, TypeOK
    <2> QED BY <1>0, <2>1, <2>2, Updates
  <1>2. CASE TaskRefused(r)
    <2>1. CASE task' = task
      BY <1>0, <2>1
    <2>2. CASE task' # task
      <3>1. rtask[r] \in Tasks
        BY <1>0, <1>2, <2>2 DEF TaskRefused
      <3>2. task' = [task EXCEPT ![rtask[r]] = [task[rtask[r]] EXCEPT !.m_state = "RUNNER_SHUTDOWN"]]
        BY <1>2, <2>2, <3>1 DEF TaskRefused, TypeOK
      <3> QED BY <1>0, <3>1, <3>2, Updates
    <2> QED BY <2>1, <2>2
  <1>3. CASE MainReturns(r)
    <2>1. rtask[r] \in Tasks
      BY <1>0, <1>3 DEF MainReturns, RunnerSound
    <2>2. task' = [task EXCEPT ![rtask[r]] = [task[rtask[r]] EXCEPT !.m_state = "CLEAN_FINISHED"]]
      BY <1>3, <2>1 DEF MainReturns, TypeOK
    <2> QED BY <1>0, <2>1, <2>2, Updates
  <1>4. CASE FinalizeTask(r)
    <2>1. rtask[r] \in Tasks
      BY <1>0, <1>4 DEF FinalizeTask, RunnerSound
    <2>2. task' = [task EXCEPT ![rtask[r]] = [task[rtask[r]] EXCEPT !.m_is_wait_done = TRUE]]
      BY <1>4, <2>1 DEF FinalizeTask, TypeOK
    <2> QED BY <1>0, <2>1, <2>2, Updates
  <1>5. CASE ExitTask(r)
    <2> DEFINE T == tr[r].m_tsk
               x == [task[T] EXCEPT !.m_state = IF cut[r] THEN "CANCELLED" ELSE "HALTED",
                                    !.m_is_wait_done = TRUE]
    <2>1. CASE T = Nobody
      BY <1>0, <1>5, <2>1 DEF ExitTask
    <2>2. CASE T # Nobody
      <3>1. T \in Tasks
        BY <2>2 DEF TypeOK
      <3>2. task' = [task EXCEPT ![T] = x]
        BY <1>5, <2>2, <3>1 DEF ExitTask, Told, TypeOK
      <3>3. x \in TaskType
        BY <1>0, <3>1, Updates
      <3> QED BY <1>0, <3>1, <3>2, <3>3
    <2> QED BY <2>1, <2>2
  <1> QED BY <1>1, <1>2, <1>3, <1>4, <1>5

LEMMA RunnersType ==
    ASSUME TypeOK, \A r \in Runners : RunnerSound(r), NEW r \in Runners,
           RunnerStep(r) \/ SpuriousWakeup(r), m_n_free' \in 0 .. N
    PROVE  TypeOK'
  <1> USE DEF RunnerGoes, pool, poolables, threads, tasks, clients, boss
  <1>1. CASE GalaOpens(r)
    BY <1>1 DEF GalaOpens, TypeOK, RunnerPlaces
  <1>2. CASE Assigned(r)
    BY <1>2 DEF Assigned, TypeOK, RunnerPlaces
  <1>3. CASE TaskStarts(r)
    <2>1. task' \in [Tasks -> TaskType]
      BY <1>3, TaskKept
    <2>2. rpc' \in [Runners -> RunnerPlaces]
      BY <1>3 DEF TaskStarts, TypeOK, RunnerPlaces
    <2> QED BY <1>3, <2>1, <2>2 DEF TaskStarts, TypeOK, TaskType
  <1>4. CASE TaskRefused(r)
    <2>1. task' \in [Tasks -> TaskType]
      BY <1>4, TaskKept
    <2>2. rpc' \in [Runners -> RunnerPlaces] /\ rshut' \in [Runners -> BOOLEAN]
      BY <1>4 DEF TaskRefused, TypeOK, RunnerPlaces
    <2>3. UNCHANGED <<pool, poolables, tr, rtask, canceling, cut, freed, clients, boss>>
      BY <1>4 DEF TaskRefused
    <2> QED BY <2>1, <2>2, <2>3 DEF TypeOK, TaskType
  <1>5. CASE MainReturns(r)
    <2>1. task' \in [Tasks -> TaskType]
      BY <1>5, TaskKept
    <2>2. tr' \in [Runners -> TskType]
      <3>1. tr' = [tr EXCEPT ![r] = [tr[r] EXCEPT !.m_tsk = Nobody]]
        BY <1>5 DEF MainReturns, TaskOf, TypeOK
      <3> QED BY <3>1, Typed, Updates
    <2>3. rpc' \in [Runners -> RunnerPlaces]
      BY <1>5 DEF MainReturns, TypeOK, RunnerPlaces
    <2> QED BY <1>5, <2>1, <2>2, <2>3 DEF MainReturns, TypeOK, TaskType, TskType
  <1>6. CASE FinalizeTask(r)
    <2>1. task' \in [Tasks -> TaskType]
      BY <1>6, TaskKept
    <2> QED BY <1>6, <2>1 DEF FinalizeTask, TypeOK, RunnerPlaces, TaskType
  <1>7. CASE AfterTask(r)
    <2>1. freed' \subseteq Tasks
      BY <1>7 DEF AfterTask, RunnerSound, TypeOK
    <2>2. rpc' \in [Runners -> RunnerPlaces] /\ rtask' \in [Runners -> Tasks \cup {Nobody}]
      BY <1>7 DEF AfterTask, TypeOK, RunnerPlaces
    <2> QED BY <1>7, <2>1, <2>2 DEF AfterTask, TypeOK
  <1>8. CASE RunnerReleases(r)
    BY <1>8 DEF RunnerReleases, TypeOK, RunnerPlaces
  <1>9. CASE RunnerPuts(r)
    <2>1. /\ obj' \in [Runners -> ObjType] /\ m_free_q' \in Seq(Runners)
          /\ UNCHANGED <<m_state, m_lck, m_obj_idx, olck>>
      BY <1>9, PutType DEF RunnerPuts
    <2>2. rpc' \in [Runners -> RunnerPlaces]
      BY <1>9 DEF RunnerPuts, TypeOK, RunnerPlaces
    <2> QED BY <1>9, <2>1, <2>2 DEF RunnerPuts, TypeOK, ObjType
  <1>10. CASE Canceled(r) \/ SpuriousWakeup(r)
    <2>1. rpc' \in [Runners -> RunnerPlaces] /\ cut' \in [Runners -> BOOLEAN]
      BY <1>10 DEF Canceled, SpuriousWakeup, TypeOK, RunnerPlaces
    <2> QED BY <1>10, <2>1 DEF Canceled, SpuriousWakeup, TypeOK
  <1>11. CASE ExitTask(r)
    <2>1. task' \in [Tasks -> TaskType]
      BY <1>11, TaskKept
    <2>2. rpc' \in [Runners -> RunnerPlaces] /\ rtask' \in [Runners -> Tasks \cup {Nobody}]
      BY <1>11 DEF ExitTask, TypeOK, RunnerPlaces
    <2> QED BY <1>11, <2>1, <2>2 DEF ExitTask, TypeOK, TaskType
  <1>12. CASE TeardownUnlocks(r)
    BY <1>12 DEF TeardownUnlocks, TypeOK, RunnerPlaces
  <1>13. CASE Teardown(r)
    <2> DEFINE o == [obj[r] EXCEPT !.m_st = "NOT_OPERATIONAL", !.m_is_cancelled = cut[r],
                                   !.m_is_torndown = TRUE]
    <2>1. obj' = [obj EXCEPT ![r] = o]
      BY <1>13 DEF Teardown, TypeOK
    <2>2. o \in ObjType /\ obj \in [Runners -> ObjType]
      <3>1. obj[r] \in ObjType /\ cut[r] \in BOOLEAN
        BY Typed DEF TypeOK
      <3> QED BY <3>1, Typed, Updates
    <2>3. obj' \in [Runners -> ObjType]
      BY <2>1, <2>2
    <2>4. rpc' \in [Runners -> RunnerPlaces] /\ {canceling, cut}' \subseteq [Runners -> BOOLEAN]
      BY <1>13 DEF Teardown, TypeOK, RunnerPlaces
    <2> QED BY <1>13, <2>3, <2>4 DEF Teardown, TypeOK, ObjType
  <1> QED BY <1>1, <1>2, <1>3, <1>4, <1>5, <1>6, <1>7, <1>8, <1>9, <1>10, <1>11, <1>12, <1>13 DEF RunnerStep


\* The free queue: what leaves it was in it.
LEMMA QueueHead ==
    ASSUME TypeOK, m_free_q # <<>>
    PROVE  Head(m_free_q) \in Runners /\ Tail(m_free_q) \in Seq(Runners) /\ InQueue(Head(m_free_q))
  <1>1. Len(m_free_q) \in Nat /\ Len(m_free_q) # 0 /\ DOMAIN m_free_q = 1 .. Len(m_free_q)
    BY DEF TypeOK
  <1>2. m_free_q[1] = Head(m_free_q) /\ 1 \in DOMAIN m_free_q
    BY <1>1 DEF TypeOK
  <1> QED BY <1>2 DEF InQueue, TypeOK

LEMMA UseType ==
    ASSUME TypeOK, NEW r \in Runners, obj' = [obj EXCEPT ![r].m_is_used = TRUE]
    PROVE  obj' \in [Runners -> ObjType]
  <1>1. obj' = [obj EXCEPT ![r] = [obj[r] EXCEPT !.m_is_used = TRUE]]
    BY DEF TypeOK
  <1> QED BY <1>1, Typed, Updates

LEMMA UseIs ==
    ASSUME TypeOK, NEW r \in Runners, obj' = [obj EXCEPT ![r].m_is_used = TRUE]
    PROVE  Used(r)' /\ \A s \in Runners \ {r} : Used(s)' = Used(s)
  <1>1. /\ obj[r] \in ObjType /\ obj'[r] = [obj[r] EXCEPT !.m_is_used = TRUE]
        /\ \A s \in Runners \ {r} : obj'[s] = obj[s]
    BY Typed
  <1>2. obj'[r].m_is_used = TRUE
    BY <1>1 DEF ObjType
  <1> QED BY <1>1, <1>2 DEF Used

LEMMA AcquiresType ==
    ASSUME TypeOK, PoolInv, NEW c \in Clients, m_n_free' \in 0 .. N,
           \/ AcquireTests(c) \/ AcquireLooks(c) \/ AcquireSticks(c) \/ AcquireTakes(c) \/ AcquireCreates(c)
           \/ AcquireFindsNone(c) \/ AcquireGets(c) \/ AcquireUses(c) \/ AcquireFails(c)
    PROVE  TypeOK'
  <1> USE DEF ClientGoes, pool, poolables, threads, tasks, clients, boss
  <1>0. cpc' \in [Clients -> ClientPlaces]
    BY DEF AcquireTests, AcquireLooks, AcquireSticks, AcquireTakes, AcquireCreates,
           AcquireFindsNone, AcquireGets, AcquireUses, AcquireFails, Has, TypeOK, ClientPlaces
  <1>1. CASE AcquireTests(c) \/ AcquireLooks(c) \/ AcquireSticks(c) \/ AcquireFindsNone(c) \/ AcquireFails(c)
    <2>1. m_lck' \in Clients \cup {Boss, Nobody}
      BY <1>1 DEF AcquireTests, AcquireLooks, AcquireSticks, AcquireFindsNone, AcquireFails, TypeOK
    <2>2. UNCHANGED <<m_state, m_free_q, m_obj_idx, poolables, tr, threads, tasks, cobj, ctask, boss>>
      BY <1>1 DEF AcquireTests, AcquireLooks, AcquireSticks, AcquireFindsNone, AcquireFails
    <2> QED BY <1>0, <2>1, <2>2 DEF TypeOK
  <1>2. CASE AcquireTakes(c)
    <2>1. UNCHANGED <<m_state, m_obj_idx, olck, tr, threads, tasks, ctask, boss>> /\ m_lck' = Nobody
      BY <1>2 DEF AcquireTakes
    <2>2. CASE m_free_q = <<>>
      <3>1. UNCHANGED <<m_free_q, obj, cobj>>
        BY <1>2, <2>2 DEF AcquireTakes
      <3> QED BY <1>0, <2>1, <3>1 DEF TypeOK
    <2>3. CASE m_free_q # <<>>
      <3>1. Head(m_free_q) \in Runners /\ Tail(m_free_q) \in Seq(Runners)
        BY <2>3, QueueHead
      <3>2. obj' \in [Runners -> ObjType]
        BY <1>2, <2>3, <3>1, UseType DEF AcquireTakes, Use
      <3>3. cobj' = [cobj EXCEPT ![c] = Head(m_free_q)] /\ m_free_q' = Tail(m_free_q)
        BY <1>2, <2>3 DEF AcquireTakes, Has
      <3>4. cobj' \in [Clients -> 0 .. N]
        BY <3>1, <3>3, Constants DEF TypeOK
      <3> QED BY <1>0, <2>1, <3>1, <3>2, <3>3, <3>4 DEF TypeOK, ObjType
    <2> QED BY <2>2, <2>3
  <1>3. CASE AcquireCreates(c)
    <2> DEFINE R == m_obj_idx + 1
    <2>1. R \in Runners /\ R \in 0 .. N
      BY <1>3, Constants DEF AcquireCreates, TypeOK
    <2>2. obj' \in [Runners -> ObjType]
      <3>1. obj' = [obj EXCEPT ![R] = [obj[R] EXCEPT !.m_st = "OPERATIONAL", !.m_is_used = TRUE]]
        BY <1>3, <2>1 DEF AcquireCreates, TypeOK
      <3> QED BY <2>1, <3>1, Typed, Updates
    <2>3. tr' \in [Runners -> TskType]
      BY <1>3, Typed DEF AcquireCreates, StartsThread, NewRunner, TskType
    <2>4. rpc' \in [Runners -> RunnerPlaces]
      BY <1>3 DEF AcquireCreates, StartsThread, RunnerGoes, RunnerPlaces, TypeOK
    <2>5. cobj' \in [Clients -> 0 .. N] /\ m_obj_idx' \in 0 .. N
      BY <1>3, <2>1 DEF AcquireCreates, Has, TypeOK
    <2>6. UNCHANGED <<m_state, m_lck, m_free_q, olck, rtask, rshut, canceling, cut, tasks, ctask, boss>>
      BY <1>3 DEF AcquireCreates
    <2> QED BY <1>0, <2>2, <2>3, <2>4, <2>5, <2>6 DEF TypeOK, ObjType, TskType
  <1>4. CASE AcquireGets(c)
    <2>1. Head(m_free_q) \in Runners /\ Tail(m_free_q) \in Seq(Runners)
      BY <1>4, QueueHead DEF AcquireGets
    <2>2. cobj' \in [Clients -> 0 .. N] /\ m_free_q' \in Seq(Runners)
      BY <1>4, <2>1, Constants DEF AcquireGets, TypeOK
    <2>3. UNCHANGED <<m_state, m_lck, m_obj_idx, poolables, tr, threads, tasks, ctask, boss>>
      BY <1>4 DEF AcquireGets
    <2> QED BY <1>0, <2>2, <2>3 DEF TypeOK
  <1>5. CASE AcquireUses(c)
    <2>1. cobj[c] \in Runners
      BY <1>5, Constants DEF AcquireUses, PoolInv, ClientSound, TypeOK
    <2>2. obj' \in [Runners -> ObjType]
      BY <1>5, <2>1, UseType DEF AcquireUses, Use
    <2>3. UNCHANGED <<m_state, m_lck, m_free_q, m_obj_idx, olck, tr, threads, tasks, cobj, ctask, boss>>
      BY <1>5 DEF AcquireUses
    <2> QED BY <1>0, <2>2, <2>3 DEF TypeOK, ObjType
  <1> QED BY <1>1, <1>2, <1>3, <1>4, <1>5

LEMMA ClientsType ==
    ASSUME TypeOK, PoolInv, NEW c \in Clients, m_n_free' \in 0 .. N,
           \/ RunReturns(c) \/ WaitTask(c) \/ ClientReleases(c) \/ ClientPuts(c)
           \/ \E t \in Tasks, flag \in Flags : RunTask(c, t, flag)
    PROVE  TypeOK'
  <1> USE DEF ClientGoes, pool, poolables, threads, tasks, clients, boss
  <1>0. cpc' \in [Clients -> ClientPlaces]
    BY DEF RunReturns, WaitTask, ClientReleases, ClientPuts, RunTask, TypeOK, ClientPlaces
  <1>1. CASE RunReturns(c)
    <2>1. ctask' \in [Clients -> Tasks \cup {Nobody}] /\ cobj' \in [Clients -> 0 .. N]
      BY <1>1, Constants DEF RunReturns, TypeOK
    <2>2. UNCHANGED <<pool, poolables, tr, threads, tasks, boss>>
      BY <1>1 DEF RunReturns
    <2> QED BY <1>0, <2>1, <2>2 DEF TypeOK
  <1>2. CASE WaitTask(c)
    <2>1. ctask' \in [Clients -> Tasks \cup {Nobody}] /\ freed' \subseteq Tasks
      BY <1>2 DEF WaitTask, TypeOK, PoolInv, ClientSound
    <2>2. UNCHANGED <<pool, poolables, tr, threads, task, cobj, boss>>
      BY <1>2 DEF WaitTask
    <2> QED BY <1>0, <2>1, <2>2 DEF TypeOK
  <1>3. CASE ClientReleases(c)
    <2>1. cobj' \in [Clients -> 0 .. N]
      BY <1>3, Constants DEF ClientReleases, TypeOK
    <2>2. UNCHANGED <<pool, poolables, tr, threads, tasks, ctask, boss>>
      BY <1>3 DEF ClientReleases
    <2> QED BY <1>0, <2>1, <2>2 DEF TypeOK
  <1>4. CASE ClientPuts(c)
    <2>1. cobj[c] \in Runners /\ Put(cobj[c])
      BY <1>4, Constants DEF ClientPuts, PoolInv, ClientSound, TypeOK
    <2>2. /\ obj' \in [Runners -> ObjType] /\ m_free_q' \in Seq(Runners)
          /\ UNCHANGED <<m_state, m_lck, m_obj_idx, olck>>
      BY <2>1, PutType
    <2>3. cobj' \in [Clients -> 0 .. N]
      BY <1>4, Constants DEF ClientPuts, TypeOK
    <2>4. UNCHANGED <<tr, threads, tasks, ctask, boss>>
      BY <1>4 DEF ClientPuts
    <2> QED BY <1>0, <2>2, <2>3, <2>4 DEF TypeOK, ObjType
  <1>5. ASSUME NEW t \in Tasks, NEW flag \in Flags, RunTask(c, t, flag)
        PROVE  TypeOK'
    <2> DEFINE R == cobj[c]
               x == [task[t] EXCEPT !.m_state = "ATTACHED", !.m_flag = flag]
    <2>1. R \in Runners
      BY <1>5, Constants DEF RunTask, PoolInv, ClientSound, TypeOK
    <2>2. task' \in [Tasks -> TaskType]
      <3>1. task' = [task EXCEPT ![t] = x]
        <4>1. task' = [task EXCEPT ![t].m_state = "ATTACHED", ![t].m_flag = flag]
          BY <1>5 DEF RunTask
        <4> QED BY <4>1 DEF TypeOK
      <3>2. x \in TaskType
        BY Typed, Updates, ThreadPoolAssumption
      <3> QED BY <3>1, <3>2, Typed
    <2>3. tr' \in [Runners -> TskType]
      <3>1. tr' = [tr EXCEPT ![R] = [tr[R] EXCEPT !.m_tsk = t]]
        BY <1>5, <2>1 DEF RunTask, TypeOK
      <3> QED BY <2>1, <3>1, Typed, Updates
    <2>4. rpc' \in [Runners -> RunnerPlaces]
      BY <1>5 DEF RunTask, Notify, RunnerPlaces, TypeOK
    <2>5. ctask' \in [Clients -> Tasks \cup {Nobody}]
      BY <1>5 DEF RunTask, TypeOK
    <2>6. UNCHANGED <<pool, poolables, rtask, rshut, canceling, cut, freed, cobj, boss>>
      BY <1>5 DEF RunTask
    <2> QED BY <1>0, <2>2, <2>3, <2>4, <2>5, <2>6 DEF TypeOK, TaskType, TskType
  <1> QED BY <1>1, <1>2, <1>3, <1>4, <1>5

-----------------------------------------------------------------------------
(* The boss, who gives and takes no thread and no task.                    *)

BossAny ==
    \/ BossStep
    \/ ShutdownWaits(TRUE)
    \/ \E lvl \in Levels : ShutdownTests(lvl)
    \/ CancelBegins \/ WaitBegins \/ DestroyBegins

BossKept ==
    /\ UNCHANGED <<m_n_free, m_free_q, m_obj_idx, rtask, rshut, cut, task, freed, cobj, ctask>>
    /\ SameThreads
    /\ \A r \in Runners : rpc'[r] = rpc[r] \/ (rpc[r] = "asleep" /\ rpc'[r] = "loop")
    /\ \A c \in Clients : cpc'[c] = cpc[c] \/ (cpc[c] = "get" /\ cpc'[c] = "woken")

\* What a shutdown does to a poolable.
LEMMA ShutdownKeeps ==
    ASSUME TypeOK, NEW r \in Runners, NEW lvl \in Levels \cup {"UNKNOWN", "RIGHT_NOW"},
           PoolableShutdown(r, lvl)
    PROVE  /\ obj' \in [Runners -> ObjType] /\ tr' \in [Runners -> TskType]
           /\ rpc' \in [Runners -> RunnerPlaces]
           /\ SameThreads
           /\ \A s \in Runners : rpc'[s] = rpc[s] \/ (rpc[s] = "asleep" /\ rpc'[s] = "loop")
  <1>1. CASE obj[r].m_st # "OPERATIONAL"
    <2>1. UNCHANGED <<tr, obj, rpc>>
      BY <1>1 DEF PoolableShutdown
    <2> QED BY <2>1, Typed DEF SameThreads, Tsk, Used, TypeOK
  <1>2. CASE obj[r].m_st = "OPERATIONAL"
    <2> DEFINE o == [obj[r] EXCEPT !.m_st = "SHUTDOWNING", !.m_shutdown_lvl = lvl]
               k == [tr[r] EXCEPT !.m_is_shutdown_requested = TRUE]
    <2>1. obj' = [obj EXCEPT ![r].m_st = "SHUTDOWNING", ![r].m_shutdown_lvl = lvl]
      BY <1>2 DEF PoolableShutdown
    <2>2. tr' = [tr EXCEPT ![r].m_is_shutdown_requested = TRUE]
      BY <1>2 DEF PoolableShutdown
    <2>3. obj' = [obj EXCEPT ![r] = o] /\ obj[r] \in ObjType
      BY <2>1, Typed
    <2>4. tr' = [tr EXCEPT ![r] = k] /\ tr[r] \in TskType
      BY <2>2, Typed
    <2>5. obj' \in [Runners -> ObjType]
      BY <2>3, Typed, Updates
    <2>6. tr' \in [Runners -> TskType]
      BY <2>4, Typed, Updates
    <2>7. /\ o.m_is_used = obj[r].m_is_used
          /\ k.m_tsk = tr[r].m_tsk
      BY <2>3, <2>4 DEF ObjType, TskType
    <2>8. /\ obj'[r] = o /\ \A s \in Runners \ {r} : obj'[s] = obj[s]
          /\ tr'[r] = k /\ \A s \in Runners \ {r} : tr'[s] = tr[s]
      BY <2>3, <2>4, Typed
    <2>9. SameThreads
      BY <2>7, <2>8 DEF SameThreads, Used, Tsk
    <2>10. /\ rpc' \in [Runners -> RunnerPlaces]
           /\ \A s \in Runners : rpc'[s] = rpc[s] \/ (rpc[s] = "asleep" /\ rpc'[s] = "loop")
      BY <1>2 DEF PoolableShutdown, Notified, Notify, RunnerPlaces, TypeOK
    <2> QED BY <2>5, <2>6, <2>9, <2>10
  <1> QED BY <1>1, <1>2

LEMMA BossMoves ==
    ASSUME TypeOK, NEW first, NEW last, BossNext(first, last), bidx \in 1 .. m_obj_idx
    PROVE  bidx' \in 0 .. N /\ bpc' \in {first, last} /\ m_lck' \in Clients \cup {Boss, Nobody}
  BY Constants DEF BossNext, TypeOK

LEMMA CancelKeeps ==
    ASSUME TypeOK, NEW r \in Runners, obj' = [obj EXCEPT ![r].m_st = "CANCELLING"]
    PROVE  obj' \in [Runners -> ObjType] /\ \A s \in Runners : Used(s)' = Used(s)
  <1> DEFINE o == [obj[r] EXCEPT !.m_st = "CANCELLING"]
  <1>1. obj' = [obj EXCEPT ![r] = o] /\ obj[r] \in ObjType
    BY Typed
  <1>2. obj' \in [Runners -> ObjType]
    BY <1>1, Typed, Updates
  <1>3. o.m_is_used = obj[r].m_is_used
    BY <1>1 DEF ObjType
  <1>4. obj'[r] = o /\ \A s \in Runners \ {r} : obj'[s] = obj[s]
    BY <1>1, Typed
  <1> QED BY <1>2, <1>3, <1>4 DEF Used

LEMMA BossStays ==
    ASSUME TypeOK, BossAny
    PROVE  TypeOK' /\ BossKept
  <1> USE DEF BossGoes, pool, poolables, threads, tasks, clients, boss
  <1>0. /\ UNCHANGED <<m_n_free, m_free_q, m_obj_idx, rtask, rshut, cut, task, freed, cobj, ctask>>
        /\ ~ShutdownWakes => cpc' = cpc
    BY DEF BossAny, BossStep, ShutdownTests, ShutdownWakes, ShutdownWaits, ShutdownCloses, CancelBegins,
           CancelSends, CancelMarks, WaitBegins, WaitEnds, DestroyBegins, DestroyShuts, DestroyWaits
  <1>1. SUFFICES /\ m_state' \in {"OPERATIONAL", "SHUTTINGDOWN", "gone"}
                 /\ m_lck' \in Clients \cup {Boss, Nobody}
                 /\ obj' \in [Runners -> ObjType] /\ tr' \in [Runners -> TskType]
                 /\ olck' \in [Runners -> {Boss, Nobody}]
                 /\ rpc' \in [Runners -> RunnerPlaces]
                 /\ canceling' \in [Runners -> BOOLEAN]
                 /\ bpc' \in BossPlaces /\ bidx' \in 0 .. N /\ blvl' \in Levels \cup {"UNKNOWN"}
                 /\ SameThreads
                 /\ \A r \in Runners : rpc'[r] = rpc[r] \/ (rpc[r] = "asleep" /\ rpc'[r] = "loop")
    <2>1. /\ cpc' \in [Clients -> ClientPlaces]
          /\ \A c \in Clients : cpc'[c] = cpc[c] \/ (cpc[c] = "get" /\ cpc'[c] = "woken")
      <3>1. CASE ShutdownWakes
        BY <3>1 DEF ShutdownWakes, TypeOK, ClientPlaces
      <3> QED BY <1>0, <3>1 DEF TypeOK
    <2> QED BY <1>0, <2>1 DEF TypeOK, BossKept, ObjType, TskType
  <1>2. CASE (\E lvl \in Levels : ShutdownTests(lvl)) \/ ShutdownWakes \/ CancelBegins \/ WaitBegins
             \/ WaitEnds \/ DestroyBegins
    <2>1. UNCHANGED <<obj, olck, tr, rpc, canceling>>
      BY <1>2 DEF ShutdownTests, ShutdownWakes, CancelBegins, WaitBegins, WaitEnds, DestroyBegins
    <2>2. m_state' \in {"OPERATIONAL", "SHUTTINGDOWN", "gone"} /\ m_lck' \in Clients \cup {Boss, Nobody}
      BY <1>2 DEF ShutdownTests, ShutdownWakes, CancelBegins, WaitBegins, WaitEnds, DestroyBegins, TypeOK
    <2>3. bpc' \in BossPlaces /\ bidx' \in 0 .. N /\ blvl' \in Levels \cup {"UNKNOWN"}
      BY <1>2, Constants DEF ShutdownTests, ShutdownWakes, CancelBegins, WaitBegins, WaitEnds,
                             DestroyBegins, TypeOK, BossPlaces
    <2> QED BY <2>1, <2>2, <2>3, Typed DEF TypeOK, SameThreads, Tsk, Used
  <1>3. ASSUME NEW timed \in BOOLEAN, ShutdownWaits(timed)
        PROVE  /\ UNCHANGED <<m_state, obj, olck, tr, rpc, canceling>>
               /\ m_lck' \in Clients \cup {Boss, Nobody}
               /\ bpc' \in BossPlaces /\ bidx' \in 0 .. N /\ blvl' \in Levels \cup {"UNKNOWN"}
    <2>1. UNCHANGED <<m_state, obj, olck, tr, rpc, canceling>>
      BY <1>3 DEF ShutdownWaits
    <2>2. /\ m_lck' \in {m_lck, Nobody} /\ bpc' \in BossPlaces
          /\ bidx' \in {bidx, 1} /\ blvl' \in {blvl, "UNKNOWN"}
      BY <1>3 DEF ShutdownWaits, BossPlaces
    <2> QED BY <2>1, <2>2, Constants DEF TypeOK
  <1>4. CASE ShutdownWaits(TRUE) \/ ShutdownWaits(FALSE)
    BY <1>3, <1>4, Typed DEF TypeOK, SameThreads, Tsk, Used
  <1>5. CASE ShutdownCloses
    <2>1. bidx \in 1 .. m_obj_idx /\ bidx \in Runners
      BY <1>5, Constants DEF ShutdownCloses, BossAt, TypeOK
    <2>2. bidx' \in 0 .. N /\ bpc' \in BossPlaces /\ m_lck' \in Clients \cup {Boss, Nobody}
      BY <1>5, <2>1, BossMoves DEF ShutdownCloses, BossPlaces
    <2>3. blvl' \in Levels \cup {"UNKNOWN"} /\ UNCHANGED <<m_state, olck, canceling>>
      BY <1>5 DEF ShutdownCloses, TypeOK
    <2>4. PoolableShutdown(bidx, blvl) /\ blvl \in Levels \cup {"UNKNOWN"}
      BY <1>5 DEF ShutdownCloses, TypeOK
    <2> QED BY <2>1, <2>2, <2>3, <2>4, ShutdownKeeps DEF TypeOK
  <1>6. CASE DestroyShuts
    <2>1. bidx \in 1 .. m_obj_idx /\ bidx \in Runners
      BY <1>6, Constants DEF DestroyShuts, BossAt, TypeOK
    <2>2. bpc' \in BossPlaces /\ UNCHANGED <<m_state, m_lck, olck, canceling, bidx, blvl>>
      BY <1>6 DEF DestroyShuts, BossPlaces
    <2>3. PoolableShutdown(bidx, "RIGHT_NOW")
      BY <1>6 DEF DestroyShuts
    <2> QED BY <2>1, <2>2, <2>3, ShutdownKeeps DEF TypeOK
  <1>7. CASE DestroyWaits
    <2>1. bidx \in 1 .. m_obj_idx
      BY <1>7 DEF DestroyWaits, BossAt
    <2>2. bidx' \in 0 .. N /\ bpc' \in BossPlaces /\ m_lck' \in Clients \cup {Boss, Nobody}
      BY <1>7, <2>1, BossMoves DEF DestroyWaits, BossPlaces
    <2>3. /\ UNCHANGED <<obj, olck, tr, rpc, canceling, blvl>>
          /\ m_state' \in {"OPERATIONAL", "SHUTTINGDOWN", "gone"}
      BY <1>7 DEF DestroyWaits, TypeOK
    <2> QED BY <2>2, <2>3, Typed DEF TypeOK, SameThreads, Tsk, Used
  <1>8. CASE CancelSends
    <2>1. bidx \in 1 .. m_obj_idx
      BY <1>8 DEF CancelSends, BossAt
    <2>2. bidx' \in 0 .. N /\ bpc' \in BossPlaces /\ m_lck' \in Clients \cup {Boss, Nobody}
      <3>1. CASE Cancelable(bidx)
        BY <1>8, <3>1 DEF CancelSends, BossPlaces, TypeOK
      <3>2. CASE ~Cancelable(bidx)
        BY <1>8, <2>1, <3>2, BossMoves DEF CancelSends, BossPlaces
      <3> QED BY <3>1, <3>2
    <2>3. /\ olck' \in [Runners -> {Boss, Nobody}] /\ canceling' \in [Runners -> BOOLEAN]
          /\ UNCHANGED <<m_state, obj, tr, rpc, blvl>>
      BY <1>8 DEF CancelSends, TypeOK
    <2> QED BY <2>2, <2>3, Typed DEF TypeOK, SameThreads, Tsk, Used
  <1>9. CASE CancelMarks
    <2>1. bidx \in 1 .. m_obj_idx /\ bidx \in Runners
      BY <1>9, Constants DEF CancelMarks, BossAt, TypeOK
    <2>2. bidx' \in 0 .. N /\ bpc' \in BossPlaces /\ m_lck' \in Clients \cup {Boss, Nobody}
      BY <1>9, <2>1, BossMoves DEF CancelMarks, BossPlaces
    <2>3. /\ olck' \in [Runners -> {Boss, Nobody}]
          /\ UNCHANGED <<m_state, tr, rpc, canceling, blvl>>
      BY <1>9 DEF CancelMarks, TypeOK
    <2>4. obj' \in [Runners -> ObjType] /\ \A s \in Runners : Used(s)' = Used(s)
      BY <1>9, <2>1, CancelKeeps DEF CancelMarks
    <2> QED BY <2>2, <2>3, <2>4, Typed DEF TypeOK, SameThreads, Tsk
  <1> QED BY <1>2, <1>4, <1>5, <1>6, <1>7, <1>8, <1>9 DEF BossAny, BossStep

LEMMA BossKeeps ==
    ASSUME TypeOK, TaskInv, PoolInv, BossAny
    PROVE  TypeOK' /\ TaskInv' /\ PoolInv'
  <1>1. TypeOK' /\ BossKept
    BY BossStays
  <1>2. SameTasks /\ SameThreads /\ SameMoves /\ SameQueue
    BY <1>1 DEF BossKept, SameTasks, SameMoves, SameQueue
  <1>3. SameHolds
    BY <1>1 DEF BossKept, SameHolds, ClientHolds, Keeps
  <1>4. TaskInv'
    BY <1>1, <1>2, <1>3, TasksKeep DEF BossKept
  <1>5. \A c \in Clients : ClientSound(c)'
    BY <1>1 DEF BossKept, PoolInv, ClientSound
  <1>6. PoolInv'
    BY <1>1, <1>2, <1>5, PoolKeeps DEF BossKept, SameThreads
  <1> QED BY <1>1, <1>4, <1>6

-----------------------------------------------------------------------------
(* The accounts of the pool.                                               *)

LEMMA UseCounts ==
    ASSUME TypeOK, Counted, NEW r \in Runners, ~Used(r), Used(r)', m_n_free' = m_n_free - 1,
           \A s \in Runners \ {r} : Used(s)' = Used(s)
    PROVE  Counted'
  <1> DEFINE U == {s \in Runners : Used(s)}
  <1>1. U' = U \cup {r} /\ r \notin U
    OBVIOUS
  <1>2. IsFiniteSet(U) /\ Cardinality(U) \in Nat
    BY Constants
  <1>3. Cardinality(U') = Cardinality(U) + 1
    BY <1>1, <1>2, FS_AddElement
  <1> HIDE DEF U
  <1>4. m_n_free = N - Cardinality(U)
    BY DEF Counted, U
  <1>5. m_n_free' = N - Cardinality(U')
    BY <1>2, <1>3, <1>4, Constants
  <1> QED BY <1>5 DEF Counted, U

LEMMA PutCounts ==
    ASSUME TypeOK, Counted, NEW r \in Runners, Used(r), ~Used(r)', m_n_free' = m_n_free + 1,
           \A s \in Runners \ {r} : Used(s)' = Used(s)
    PROVE  Counted'
  <1> DEFINE U == {s \in Runners : Used(s)}
  <1>1. U' = U \ {r} /\ r \in U
    OBVIOUS
  <1>2. IsFiniteSet(U) /\ Cardinality(U) \in Nat
    BY Constants
  <1>3. Cardinality(U') = Cardinality(U) - 1
    BY <1>1, <1>2, FS_RemoveElement
  <1> HIDE DEF U
  <1>4. m_n_free = N - Cardinality(U)
    BY DEF Counted, U
  <1>5. m_n_free' = N - Cardinality(U')
    BY <1>2, <1>3, <1>4, Constants
  <1> QED BY <1>5 DEF Counted, U

LEMMA CountTyped ==
    ASSUME Counted'
    PROVE  m_n_free' \in 0 .. N
  <1>1. Cardinality({r \in Runners : Used(r)}') \in 0 .. N
    BY Constants
  <1> QED BY <1>1, Constants DEF Counted

\* The head of the queue is free, and it leaves the queue for good.
LEMMA LeavesQueue ==
    ASSUME TypeOK, QueueSound, m_free_q # <<>>, m_free_q' = Tail(m_free_q)
    PROVE  LET h == Head(m_free_q) IN
           /\ h \in 1 .. m_obj_idx /\ ~Used(h) /\ \A c \in Clients : ~Got(c, h)
           /\ \A r : InQueue(r)' <=> InQueue(r) /\ r # h
           /\ \A i, j \in DOMAIN m_free_q' : m_free_q'[i] = m_free_q'[j] => i = j
           /\ \A i \in DOMAIN m_free_q' : m_free_q'[i] \in 1 .. m_obj_idx
  <1> DEFINE h == Head(m_free_q)
             L == Len(m_free_q)
  <1>1. /\ L \in Nat /\ L # 0 /\ DOMAIN m_free_q = 1 .. L
        /\ m_free_q[1] = h
        /\ DOMAIN m_free_q' = 1 .. (L - 1)
        /\ \A i \in 1 .. (L - 1) : m_free_q'[i] = m_free_q[i + 1]
    BY DEF TypeOK
  <1>2. /\ \A i, j \in 1 .. L : m_free_q[i] = m_free_q[j] => i = j
        /\ \A i \in 1 .. L : m_free_q[i] \in 1 .. m_obj_idx
    BY <1>1 DEF QueueSound
  <1>3. h \in 1 .. m_obj_idx /\ InQueue(h)
    BY <1>1, <1>2 DEF InQueue
  <1>4. ~Used(h) /\ \A c \in Clients : ~Got(c, h)
    BY <1>3 DEF QueueSound, Got
  <1>5. ASSUME NEW r PROVE InQueue(r)' <=> InQueue(r) /\ r # h
    <2>1. ASSUME InQueue(r)' PROVE InQueue(r) /\ r # h
      <3>1. PICK i \in 1 .. (L - 1) : m_free_q[i + 1] = r
        BY <1>1, <2>1 DEF InQueue
      <3>2. i + 1 \in 1 .. L /\ i + 1 # 1 /\ 1 \in 1 .. L
        BY <1>1
      <3> QED BY <1>1, <1>2, <3>1, <3>2 DEF InQueue
    <2>2. ASSUME InQueue(r), r # h PROVE InQueue(r)'
      <3>1. PICK i \in 1 .. L : m_free_q[i] = r
        BY <1>1, <2>2 DEF InQueue
      <3>2. i - 1 \in 1 .. (L - 1) /\ (i - 1) + 1 = i
        BY <1>1, <2>2, <3>1
      <3>3. m_free_q'[i - 1] = r
        BY <1>1, <3>1, <3>2
      <3> QED BY <1>1, <3>2, <3>3 DEF InQueue
    <2> QED BY <2>1, <2>2
  <1>6. \A i \in 1 .. (L - 1) : i + 1 \in 1 .. L
    BY <1>1
  <1>7. \A i, j \in 1 .. (L - 1) : m_free_q'[i] = m_free_q'[j] => i = j
    BY <1>1, <1>2, <1>6
  <1>8. \A i \in 1 .. (L - 1) : m_free_q'[i] \in 1 .. m_obj_idx
    BY <1>1, <1>2, <1>6
  <1> QED BY <1>1, <1>3, <1>4, <1>5, <1>7, <1>8

\* A thread that is given back comes to the end of the queue, where it was not.
LEMMA PutPool ==
    ASSUME TypeOK, PoolInv, NEW r \in 1 .. m_obj_idx, Used(r), Put(r),
           \A s \in Runners : rpc'[s] = "none" <=> rpc[s] = "none",
           \A c \in Clients : /\ cpc'[c] = "got" <=> cpc[c] = "got"
                              /\ cpc[c] = "got" => cobj'[c] = cobj[c],
           \A c \in Clients : ClientSound(c)'
    PROVE  PoolInv'
  <1> DEFINE L == Len(m_free_q)
  <1>0. r \in Runners /\ 1 .. m_obj_idx \subseteq Runners
    BY Constants DEF TypeOK
  <1>1. /\ ~Used(r)' /\ \A s \in Runners \ {r} : Used(s)' = Used(s)
        /\ m_n_free' = m_n_free + 1 /\ UNCHANGED m_obj_idx
        /\ m_free_q' = Append(m_free_q, r)
    BY <1>0 DEF Put, FreeAgain, Used, TypeOK
  <1>2. Counted'
    BY <1>0, <1>1, PutCounts DEF PoolInv
  <1>3. Unborn'
    BY <1>1 DEF PoolInv, Unborn
  <1>4. /\ L \in Nat /\ DOMAIN m_free_q = 1 .. L /\ DOMAIN m_free_q' = 1 .. (L + 1)
        /\ m_free_q'[L + 1] = r
        /\ \A i \in 1 .. L : m_free_q'[i] = m_free_q[i]
    BY <1>0, <1>1 DEF TypeOK
  <1>5. ~InQueue(r) /\ \A c \in Clients : ~Got(c, r)
    BY DEF PoolInv, QueueSound
  <1>6. ASSUME NEW s PROVE InQueue(s)' <=> InQueue(s) \/ s = r
    <2>1. \A i \in 1 .. (L + 1) : i \in 1 .. L \/ i = L + 1
      BY <1>4
    <2>2. 1 .. L \subseteq 1 .. (L + 1) /\ L + 1 \in 1 .. (L + 1)
      BY <1>4
    <2> QED BY <1>4, <2>1, <2>2 DEF InQueue
  <1>7. /\ \A c \in Clients, s \in Runners : Got(c, s)' <=> Got(c, s)
        /\ \A c, d \in Clients : cpc'[c] = "got" => (Got(d, cobj[c])' <=> Got(d, cobj[c])) /\ cobj'[c] = cobj[c]
    BY DEF Got
  <1>8. ASSUME NEW i \in DOMAIN m_free_q', NEW j \in DOMAIN m_free_q', m_free_q'[i] = m_free_q'[j]
        PROVE  i = j
    <2>1. \A k \in 1 .. L : m_free_q'[k] # r /\ m_free_q'[k] = m_free_q[k]
      BY <1>4, <1>5 DEF InQueue
    <2>2. (i \in 1 .. L \/ i = L + 1) /\ (j \in 1 .. L \/ j = L + 1)
      BY <1>4
    <2> QED BY <1>4, <1>8, <2>1, <2>2 DEF PoolInv, QueueSound
  <1>9. \A i \in DOMAIN m_free_q' : m_free_q'[i] \in 1 .. m_obj_idx
    <2>1. \A i \in 1 .. (L + 1) : i \in 1 .. L \/ i = L + 1
      BY <1>4
    <2> QED BY <1>4, <2>1 DEF PoolInv, QueueSound
  <1>10. ASSUME NEW c \in Clients, cpc'[c] = "got"
         PROVE  ~InQueue(cobj[c])' /\ \A d \in Clients : Got(d, cobj[c])' => d = c
    <2>1. cpc[c] = "got" /\ cobj'[c] = cobj[c] /\ cobj[c] # r
      BY <1>5, <1>10 DEF Got
    <2>2. ~InQueue(cobj[c]) /\ \A d \in Clients : Got(d, cobj[c]) => d = c
      BY <2>1 DEF PoolInv, QueueSound
    <2>3. \A i \in 1 .. (L + 1) : i \in 1 .. L \/ i = L + 1
      BY <1>4
    <2>4. \A i \in 1 .. (L + 1) : m_free_q'[i] # cobj[c]
      BY <1>4, <2>1, <2>2, <2>3 DEF InQueue
    <2>5. ~InQueue(cobj[c])'
      BY <1>4, <2>1, <2>4 DEF InQueue
    <2> QED BY <1>7, <1>10, <2>2, <2>5
  <1>11. ASSUME NEW s \in 1 .. m_obj_idx
         PROVE  Used(s)' <=> (~InQueue(s)' /\ \A c \in Clients : ~Got(c, s)')
    BY <1>0, <1>1, <1>5, <1>6, <1>7 DEF PoolInv, QueueSound
  <1>12. QueueSound'
    <2>1. \A i \in DOMAIN m_free_q' : m_free_q'[i] \in 1 .. m_obj_idx'
      BY <1>1, <1>9
    <2>2. \A s \in 1 .. m_obj_idx' : Used(s)' <=> (~InQueue(s)' /\ \A c \in Clients : ~Got(c, s)')
      BY <1>1, <1>11
    <2> QED BY <1>8, <1>10, <2>1, <2>2 DEF QueueSound
  <1> QED BY <1>2, <1>3, <1>12 DEF PoolInv

\* One client moves, and the others stay.
LEMMA ClientsSound ==
    ASSUME TypeOK, PoolInv, NEW c \in Clients, ClientSound(c)', m_obj_idx' \in {m_obj_idx, m_obj_idx + 1},
           \A d \in Clients \ {c} : cpc'[d] = cpc[d] /\ cobj'[d] = cobj[d] /\ ctask'[d] = ctask[d],
           \A t \in Tasks : task'[t].m_state = "CONSTRUCTED" => task[t].m_state = "CONSTRUCTED"
    PROVE  \A d \in Clients : ClientSound(d)'
  <1>1. 1 .. m_obj_idx \subseteq 1 .. m_obj_idx' /\ 0 .. m_obj_idx \subseteq 0 .. m_obj_idx'
    BY Constants DEF TypeOK
  <1>2. ASSUME NEW d \in Clients \ {c}
        PROVE  ClientSound(d)'
    BY <1>1 DEF PoolInv, ClientSound
  <1> QED BY <1>2

LEMMA TakesPool ==
    ASSUME TypeOK, PoolInv, NEW c \in Clients, AcquireTakes(c), m_free_q # <<>>,
           NEW h \in Runners, h = Head(m_free_q)
    PROVE  /\ PoolInv'
           /\ ~Used(h) /\ Used(h)' /\ \A s \in Runners \ {h} : Used(s)' = Used(s)
           /\ cpc'[c] = "have" /\ cobj'[c] = h
           /\ \A d \in Clients \ {c} : cpc'[d] = cpc[d] /\ cobj'[d] = cobj[d]
  <1>0. 1 .. m_obj_idx \subseteq Runners
    BY Constants DEF TypeOK
  <1>1. /\ h \in 1 .. m_obj_idx /\ ~Used(h) /\ \A d \in Clients : ~Got(d, h)
        /\ \A r : InQueue(r)' <=> InQueue(r) /\ r # h
        /\ \A i, j \in DOMAIN m_free_q' : m_free_q'[i] = m_free_q'[j] => i = j
        /\ \A i \in DOMAIN m_free_q' : m_free_q'[i] \in 1 .. m_obj_idx
    BY LeavesQueue DEF AcquireTakes, PoolInv
  <1>2. /\ obj' = [obj EXCEPT ![h].m_is_used = TRUE] /\ m_n_free' = m_n_free - 1
        /\ UNCHANGED <<m_obj_idx, rpc, task, ctask>> /\ cpc[c] = "take"
        /\ cpc' = [cpc EXCEPT ![c] = "have"] /\ cobj' = [cobj EXCEPT ![c] = h]
    BY DEF AcquireTakes, Use, Has, ClientGoes, threads, tasks
  <1>3. Used(h)' /\ \A s \in Runners \ {h} : Used(s)' = Used(s)
    BY <1>2, UseIs
  <1>4. /\ cpc'[c] = "have" /\ cobj'[c] = h
        /\ \A d \in Clients \ {c} : cpc'[d] = cpc[d] /\ cobj'[d] = cobj[d]
    BY <1>2 DEF TypeOK
  <1>5. Counted'
    BY <1>1, <1>2, <1>3, UseCounts DEF PoolInv
  <1>6. Unborn'
    <2>1. rpc[h] # "none"
      BY <1>0, <1>1, <1>3, Constants DEF PoolInv, Unborn, TypeOK
    <2> QED BY <1>2, <1>3, <2>1 DEF PoolInv, Unborn
  <1>7. \A d \in Clients : \A s : Got(d, s)' <=> Got(d, s)
    BY <1>2, <1>4 DEF Got
  <1>8. ASSUME NEW d \in Clients, cpc'[d] = "got"
        PROVE  ~InQueue(cobj[d])' /\ \A e \in Clients : Got(e, cobj[d])' => e = d
    <2>1. cpc[d] = "got" /\ cobj'[d] = cobj[d]
      BY <1>4, <1>8
    <2>2. ~InQueue(cobj[d]) /\ \A e \in Clients : Got(e, cobj[d]) => e = d
      BY <2>1 DEF PoolInv, QueueSound
    <2>3. ~InQueue(cobj[d])'
      BY <1>1, <2>1, <2>2 DEF InQueue
    <2>4. \A e \in Clients : cpc'[e] = "got" /\ cobj'[e] = cobj[d] => e = d
      BY <1>2, <1>4, <2>1, <2>2 DEF Got
    <2> QED BY <2>1, <2>3, <2>4 DEF Got
  <1>9. \A s \in 1 .. m_obj_idx : Used(s)' <=> (~InQueue(s)' /\ \A d \in Clients : ~Got(d, s)')
    BY <1>0, <1>1, <1>3, <1>7 DEF PoolInv, QueueSound
  <1>10. QueueSound'
    BY <1>1, <1>2, <1>8, <1>9 DEF QueueSound
  <1>11. \A d \in Clients : ClientSound(d)'
    <2>1. ClientSound(c)'
      BY <1>1, <1>2, <1>4 DEF ClientSound
    <2> QED BY <1>2, <1>4, <2>1, ClientsSound
  <1> QED BY <1>0, <1>1, <1>3, <1>4, <1>5, <1>6, <1>10, <1>11 DEF PoolInv

LEMMA GetsPool ==
    ASSUME TypeOK, PoolInv, NEW c \in Clients, AcquireGets(c)
    PROVE  PoolInv'
  <1> DEFINE h == Head(m_free_q)
  <1>1. /\ h \in 1 .. m_obj_idx /\ ~Used(h) /\ \A d \in Clients : ~Got(d, h)
        /\ \A r : InQueue(r)' <=> InQueue(r) /\ r # h
        /\ \A i, j \in DOMAIN m_free_q' : m_free_q'[i] = m_free_q'[j] => i = j
        /\ \A i \in DOMAIN m_free_q' : m_free_q'[i] \in 1 .. m_obj_idx
    BY LeavesQueue DEF AcquireGets, PoolInv
  <1>2. /\ UNCHANGED <<m_n_free, m_obj_idx, obj, rpc, task, ctask>> /\ cpc[c] = "get"
        /\ cpc' = [cpc EXCEPT ![c] = "got"] /\ cobj' = [cobj EXCEPT ![c] = h]
    BY DEF AcquireGets, ClientGoes, threads, tasks, poolables
  <1>3. /\ \A s \in Runners : Used(s)' = Used(s)
        /\ \A s \in 1 .. m_obj_idx : Used(s)' = Used(s)
    BY <1>2 DEF Used
  <1>4. /\ cpc'[c] = "got" /\ cobj'[c] = h
        /\ \A d \in Clients \ {c} : cpc'[d] = cpc[d] /\ cobj'[d] = cobj[d]
    BY <1>2 DEF TypeOK
  <1>5. Counted'
    BY <1>2, <1>3, CountKeeps DEF PoolInv
  <1>6. Unborn'
    BY <1>2, <1>3 DEF PoolInv, Unborn
  <1>7. \A d \in Clients : \A s : Got(d, s)' <=> Got(d, s) \/ (d = c /\ s = h)
    BY <1>2, <1>4 DEF Got
  <1>8. ASSUME NEW d \in Clients, cpc'[d] = "got"
        PROVE  ~InQueue(cobj[d])' /\ \A e \in Clients : Got(e, cobj[d])' => e = d
    <2>1. CASE d = c
      <3>1. cobj'[d] = h
        BY <1>4, <2>1
      <3>2. \A e \in Clients : cpc'[e] = "got" /\ cobj'[e] = h => e = c
        BY <1>1, <1>4 DEF Got
      <3> QED BY <1>1, <2>1, <3>1, <3>2 DEF Got, InQueue
    <2>2. CASE d # c
      <3>1. cpc[d] = "got" /\ cobj'[d] = cobj[d] /\ cobj[d] # h
        BY <1>1, <1>4, <1>8, <2>2 DEF Got
      <3>2. ~InQueue(cobj[d]) /\ \A e \in Clients : Got(e, cobj[d]) => e = d
        BY <3>1 DEF PoolInv, QueueSound
      <3>3. \A e \in Clients : cpc'[e] = "got" /\ cobj'[e] = cobj[d] => e = d
        BY <1>4, <3>1, <3>2 DEF Got
      <3> QED BY <1>1, <3>1, <3>2, <3>3 DEF Got, InQueue
    <2> QED BY <2>1, <2>2
  <1>9. \A s \in 1 .. m_obj_idx : Used(s)' <=> (~InQueue(s)' /\ \A d \in Clients : ~Got(d, s)')
    BY <1>1, <1>3, <1>7 DEF PoolInv, QueueSound
  <1>10. QueueSound'
    BY <1>1, <1>2, <1>8, <1>9 DEF QueueSound
  <1>11. \A d \in Clients : ClientSound(d)'
    <2>1. ClientSound(c)'
      BY <1>1, <1>2, <1>4 DEF ClientSound
    <2> QED BY <1>2, <1>4, <2>1, ClientsSound
  <1> QED BY <1>5, <1>6, <1>10, <1>11 DEF PoolInv

\* Who has got a thread from the queue takes it in use.
LEMMA UsesPool ==
    ASSUME TypeOK, PoolInv, NEW c \in Clients, AcquireUses(c), NEW h \in Runners, h = cobj[c]
    PROVE  /\ PoolInv'
           /\ ~Used(h) /\ Used(h)' /\ \A s \in Runners \ {h} : Used(s)' = Used(s)
  <1>1. /\ obj' = [obj EXCEPT ![h].m_is_used = TRUE] /\ m_n_free' = m_n_free - 1
        /\ UNCHANGED <<m_free_q, m_obj_idx, rpc, task, cobj, ctask>> /\ cpc[c] = "got"
        /\ cpc' = [cpc EXCEPT ![c] = "have"]
    BY DEF AcquireUses, Use, ClientGoes, threads, tasks
  <1>2. h \in 1 .. m_obj_idx /\ 1 .. m_obj_idx \subseteq Runners
    BY <1>1, Constants DEF PoolInv, ClientSound, TypeOK
  <1>3. /\ Got(c, h) /\ \A d \in Clients : Got(d, h) => d = c
        /\ ~InQueue(h) /\ ~Used(h)
    BY <1>1, <1>2 DEF PoolInv, QueueSound, Got
  <1>4. Used(h)' /\ \A s \in Runners \ {h} : Used(s)' = Used(s)
    BY <1>1, UseIs
  <1>5. /\ cpc'[c] = "have" /\ \A d \in Clients \ {c} : cpc'[d] = cpc[d]
        /\ \A r : InQueue(r)' <=> InQueue(r)
    BY <1>1 DEF TypeOK, InQueue
  <1>6. Counted'
    BY <1>1, <1>3, <1>4, UseCounts DEF PoolInv
  <1>7. Unborn'
    <2>1. rpc[h] # "none"
      BY <1>2, Constants DEF PoolInv, Unborn, TypeOK
    <2> QED BY <1>1, <1>4, <2>1 DEF PoolInv, Unborn
  <1>8. \A d \in Clients : \A s : Got(d, s)' <=> Got(d, s) /\ d # c
    BY <1>1, <1>5 DEF Got
  <1>9. ASSUME NEW d \in Clients, cpc'[d] = "got"
        PROVE  ~InQueue(cobj[d])' /\ \A e \in Clients : Got(e, cobj[d])' => e = d
    <2>1. cpc[d] = "got"
      BY <1>5, <1>9
    <2>2. ~InQueue(cobj[d]) /\ \A e \in Clients : Got(e, cobj[d]) => e = d
      BY <2>1 DEF PoolInv, QueueSound
    <2>3. ~InQueue(cobj[d])'
      BY <1>1, <2>2 DEF InQueue
    <2>4. \A e \in Clients : cpc'[e] = "got" /\ cobj[e] = cobj[d] => e = d
      BY <1>5, <2>2 DEF Got
    <2> QED BY <1>1, <2>3, <2>4 DEF Got
  <1>10. \A s \in 1 .. m_obj_idx : Used(s)' <=> (~InQueue(s)' /\ \A d \in Clients : ~Got(d, s)')
    <2>1. \A s \in 1 .. m_obj_idx : s # h => ~Got(c, s)
      BY <1>1 DEF Got
    <2> QED BY <1>2, <1>3, <1>4, <1>5, <1>8, <2>1 DEF PoolInv, QueueSound
  <1>11. QueueSound'
    BY <1>1, <1>9, <1>10 DEF PoolInv, QueueSound
  <1>12. \A d \in Clients : ClientSound(d)'
    <2>1. ClientSound(c)'
      BY <1>1, <1>2, <1>5 DEF ClientSound
    <2> QED BY <1>1, <1>5, <2>1, ClientsSound
  <1> QED BY <1>3, <1>4, <1>6, <1>7, <1>11, <1>12 DEF PoolInv

\* A thread that is created is in use at once.
LEMMA CreatesPool ==
    ASSUME TypeOK, PoolInv, NEW c \in Clients, AcquireCreates(c), NEW h \in Runners, h = m_obj_idx + 1
    PROVE  /\ PoolInv'
           /\ ~Used(h) /\ Used(h)' /\ \A s \in Runners \ {h} : Used(s)' = Used(s)
           /\ rpc[h] = "none"
  <1>1. /\ obj' = [obj EXCEPT ![h].m_st = "OPERATIONAL", ![h].m_is_used = TRUE]
        /\ m_n_free' = m_n_free - 1 /\ m_obj_idx' = h
        /\ UNCHANGED <<m_free_q, task, ctask>> /\ m_free_q = <<>> /\ cpc[c] = "look"
        /\ rpc' = [rpc EXCEPT ![h] = "gala"]
        /\ cpc' = [cpc EXCEPT ![c] = "have"] /\ cobj' = [cobj EXCEPT ![c] = h]
    BY DEF AcquireCreates, StartsThread, RunnerGoes, Has, ClientGoes, tasks
  <1>2. m_obj_idx \in Nat /\ 1 .. h = (1 .. m_obj_idx) \cup {h} /\ h \notin 1 .. m_obj_idx
    BY Constants DEF TypeOK
  <1>3. rpc[h] = "none" /\ ~Used(h)
    BY <1>2, Constants DEF PoolInv, Unborn
  <1>4. Used(h)' /\ \A s \in Runners \ {h} : Used(s)' = Used(s)
    <2>1. /\ obj[h] \in ObjType
          /\ obj'[h] = [obj[h] EXCEPT !.m_st = "OPERATIONAL", !.m_is_used = TRUE]
          /\ \A s \in Runners \ {h} : obj'[s] = obj[s]
      BY <1>1, Typed
    <2>2. obj'[h].m_is_used = TRUE
      BY <2>1 DEF ObjType
    <2> QED BY <2>1, <2>2 DEF Used
  <1>5. /\ cpc'[c] = "have" /\ cobj'[c] = h
        /\ \A d \in Clients \ {c} : cpc'[d] = cpc[d] /\ cobj'[d] = cobj[d]
    BY <1>1 DEF TypeOK
  <1>6. Counted'
    BY <1>1, <1>3, <1>4, UseCounts DEF PoolInv
  <1>7. Unborn'
    <2>1. rpc'[h] = "gala" /\ \A s \in Runners \ {h} : rpc'[s] = rpc[s]
      BY <1>1 DEF TypeOK
    <2>2. \A s \in Runners \ {h} : s > h <=> s > m_obj_idx
      BY <1>2, Constants
    <2> QED BY <1>1, <1>4, <2>1, <2>2, Constants DEF PoolInv, Unborn
  <1>8. /\ \A r : ~InQueue(r) /\ ~InQueue(r)'
        /\ \A d \in Clients : \A s : Got(d, s)' <=> Got(d, s)
    BY <1>1, <1>5 DEF InQueue, Got
  <1>9. \A d \in Clients : ~Got(d, h)
    BY <1>2 DEF Got, PoolInv, ClientSound
  <1>10. ASSUME NEW d \in Clients, cpc'[d] = "got"
         PROVE  ~InQueue(cobj[d])' /\ \A e \in Clients : Got(e, cobj[d])' => e = d
    <2>1. cpc[d] = "got" /\ cobj'[d] = cobj[d]
      BY <1>5, <1>10
    <2>2. \A e \in Clients : Got(e, cobj[d]) => e = d
      BY <2>1 DEF PoolInv, QueueSound
    <2>3. \A e \in Clients : cpc'[e] = "got" /\ cobj'[e] = cobj[d] => e = d
      BY <1>5, <2>2 DEF Got
    <2> QED BY <1>1, <2>1, <2>3 DEF Got, InQueue
  <1>11. \A s \in 1 .. h : Used(s)' <=> (~InQueue(s)' /\ \A d \in Clients : ~Got(d, s)')
    <2>1. 1 .. m_obj_idx \subseteq Runners \ {h}
      BY <1>2, Constants
    <2> QED BY <1>2, <1>4, <1>8, <1>9, <2>1 DEF PoolInv, QueueSound
  <1>12. QueueSound'
    BY <1>1, <1>10, <1>11 DEF QueueSound
  <1>13. \A d \in Clients : ClientSound(d)'
    <2>1. ClientSound(c)'
      BY <1>1, <1>2, <1>5 DEF ClientSound
    <2> QED BY <1>1, <1>5, <2>1, ClientsSound
  <1> QED BY <1>3, <1>4, <1>6, <1>7, <1>12, <1>13 DEF PoolInv

-----------------------------------------------------------------------------
(* The invariant holds.                                                    *)

\* No step of a thread makes a task new again.
LEMMA RunnerOldTasks ==
    ASSUME TypeOK, NEW r \in Runners, RunnerStep(r) \/ SpuriousWakeup(r)
    PROVE  \A t \in Tasks : task'[t].m_state = "CONSTRUCTED" => task[t].m_state = "CONSTRUCTED"
  <1>1. CASE UNCHANGED task
    BY <1>1
  <1>2. CASE TaskStarts(r)
    BY <1>2 DEF TaskStarts, TypeOK
  <1>3. CASE TaskRefused(r)
    BY <1>3 DEF TaskRefused, TypeOK
  <1>4. CASE MainReturns(r)
    BY <1>4 DEF MainReturns, TypeOK
  <1>5. CASE FinalizeTask(r)
    BY <1>5 DEF FinalizeTask, TypeOK
  <1>6. CASE ExitTask(r)
    BY <1>6 DEF ExitTask, TypeOK
  <1>7. GalaOpens(r) \/ Assigned(r) \/ AfterTask(r) \/ RunnerReleases(r) \/ RunnerPuts(r) \/ Canceled(r)
        \/ TeardownUnlocks(r) \/ Teardown(r) \/ SpuriousWakeup(r) => UNCHANGED task
    BY DEF GalaOpens, Assigned, AfterTask, RunnerReleases, RunnerPuts, Canceled, TeardownUnlocks, Teardown,
           SpuriousWakeup, tasks
  <1> QED BY <1>1, <1>2, <1>3, <1>4, <1>5, <1>6, <1>7 DEF RunnerStep

LEMMA RunnersKeep ==
    ASSUME TypeOK, TaskInv, PoolInv, NEW r \in Runners, RunnerStep(r) \/ SpuriousWakeup(r)
    PROVE  TypeOK' /\ TaskInv' /\ PoolInv'
  <1>1. /\ UNCHANGED <<cpc, cobj, ctask, m_obj_idx>>
        /\ rpc[r] # "none" /\ rpc'[r] # "none" /\ \A s \in Runners \ {r} : rpc'[s] = rpc[s]
    BY DEF RunnerStep, GalaOpens, Assigned, TaskStarts, TaskRefused, MainReturns, FinalizeTask, AfterTask,
           RunnerReleases, RunnerPuts, Put, Canceled, ExitTask, TeardownUnlocks, Teardown, SpuriousWakeup,
           RunnerGoes, TypeOK, clients, pool
  <1>2. \A t \in Tasks : task'[t].m_state = "CONSTRUCTED" => task[t].m_state = "CONSTRUCTED"
    BY RunnerOldTasks
  <1>3. \A c \in Clients : ClientSound(c)'
    BY <1>1, <1>2 DEF PoolInv, ClientSound
  <1>4. PoolInv'
    <2>1. CASE RunnerPuts(r)
      <3>1. r \in 1 .. m_obj_idx
        BY <1>1, Constants DEF PoolInv, Unborn, TypeOK
      <3>2. Used(r) /\ Put(r)
        BY <2>1 DEF RunnerPuts, RunnerHolds, TaskInv, Held
      <3> QED BY <1>1, <1>3, <3>1, <3>2, PutPool
    <2>2. CASE ~RunnerPuts(r)
      <3>1. \A s \in Runners : Used(s)' = Used(s)
        <4>1. CASE Teardown(r)
          BY <4>1, TeardownUses
        <4>2. CASE ~Teardown(r)
          BY <2>2, <4>2 DEF RunnerStep, GalaOpens, Assigned, TaskStarts, TaskRefused, MainReturns,
             FinalizeTask, AfterTask, RunnerReleases, Canceled, ExitTask, TeardownUnlocks, SpuriousWakeup,
             Used, poolables
        <4> QED BY <4>1, <4>2
      <3>2. SameQueue
        BY <2>2 DEF RunnerStep, GalaOpens, Assigned, TaskStarts, TaskRefused, MainReturns, FinalizeTask,
           AfterTask, RunnerReleases, Canceled, ExitTask, TeardownUnlocks, Teardown, SpuriousWakeup,
           SameQueue, pool
      <3> QED BY <1>1, <1>3, <3>1, <3>2, PoolKeeps
    <2> QED BY <2>1, <2>2
  <1>5. TypeOK'
    <2>1. m_n_free' \in 0 .. N
      BY <1>4, CountTyped DEF PoolInv
    <2> QED BY <2>1, RunnersType DEF TaskInv
  <1>6. TaskInv'
    <2>1. CASE RunnerPuts(r)
      BY <2>1, PutTasks DEF RunnerPuts, RunnerGoes, threads, clients
    <2>2. CASE GalaOpens(r) \/ SpuriousWakeup(r) \/ TaskRefused(r) \/ Canceled(r) \/ TeardownUnlocks(r)
               \/ Teardown(r)
      BY <2>2, PlainTasks
    <2> QED BY <2>1, <2>2, AssignedTasks, TaskStartsTasks, MainReturnsTasks, FinalizeTaskTasks,
               ExitTaskTasks, RunnerReleasesTasks DEF RunnerStep
  <1> QED BY <1>4, <1>5, <1>6

ClientAny(c) ==
    \/ ClientStep(c) \/ AcquireTests(c) \/ AcquireFails(c)
    \/ \E t \in Tasks, flag \in Flags : RunTask(c, t, flag)

\* The steps of a client in which the pool's accounts do not change.
LEMMA ClientPlain ==
    ASSUME TypeOK, TaskInv, PoolInv, NEW c \in Clients,
           \/ AcquireTests(c) \/ AcquireLooks(c) \/ AcquireSticks(c) \/ (AcquireTakes(c) /\ m_free_q = <<>>)
           \/ AcquireFindsNone(c) \/ AcquireFails(c) \/ RunReturns(c) \/ WaitTask(c) \/ ClientReleases(c)
           \/ \E t \in Tasks, flag \in Flags : RunTask(c, t, flag)
    PROVE  PoolInv' /\ (AcquireTakes(c) => TaskInv')
  <1> USE DEF ClientGoes, pool, poolables, threads, tasks, clients
  <1>1. /\ SameQueue /\ UNCHANGED obj
        /\ cpc[c] # "got" /\ cpc'[c] # "got"
        /\ \A d \in Clients \ {c} : cpc'[d] = cpc[d] /\ cobj'[d] = cobj[d] /\ ctask'[d] = ctask[d]
    <2>1. CASE AcquireTests(c) \/ AcquireLooks(c) \/ AcquireSticks(c) \/ AcquireFindsNone(c) \/ AcquireFails(c)
      BY <2>1 DEF AcquireTests, AcquireLooks, AcquireSticks, AcquireFindsNone, AcquireFails, SameQueue, TypeOK
    <2>2. CASE AcquireTakes(c) /\ m_free_q = <<>>
      BY <2>2 DEF AcquireTakes, SameQueue, TypeOK
    <2>3. CASE RunReturns(c)
      BY <2>3 DEF RunReturns, SameQueue, TypeOK
    <2>4. CASE WaitTask(c) \/ ClientReleases(c)
      BY <2>4 DEF WaitTask, ClientReleases, SameQueue, TypeOK
    <2>5. ASSUME NEW t \in Tasks, NEW flag \in Flags, RunTask(c, t, flag)
          PROVE  /\ SameQueue /\ UNCHANGED obj
                 /\ cpc[c] # "got" /\ cpc'[c] # "got"
                 /\ \A d \in Clients \ {c} : cpc'[d] = cpc[d] /\ cobj'[d] = cobj[d] /\ ctask'[d] = ctask[d]
      BY <2>5 DEF RunTask, SameQueue, TypeOK
    <2> QED BY <2>1, <2>2, <2>3, <2>4, <2>5
  <1>2. \A r \in Runners : rpc'[r] = "none" <=> rpc[r] = "none"
    <2>1. ASSUME NEW t \in Tasks, NEW flag \in Flags, RunTask(c, t, flag)
          PROVE  \A r \in Runners : rpc'[r] = "none" <=> rpc[r] = "none"
      BY <2>1 DEF RunTask, Notify, TypeOK
    <2>2. \/ UNCHANGED rpc
          \/ \E t \in Tasks, flag \in Flags : RunTask(c, t, flag)
      BY DEF AcquireTests, AcquireLooks, AcquireSticks, AcquireTakes, AcquireFindsNone, AcquireFails,
             RunReturns, WaitTask, ClientReleases
    <2> QED BY <2>1, <2>2
  <1>3. ClientSound(c)' /\ \A t \in Tasks : task'[t].m_state = "CONSTRUCTED" => task[t].m_state = "CONSTRUCTED"
    <2>1. ClientSound(c) /\ UNCHANGED m_obj_idx
      BY <1>1 DEF PoolInv, SameQueue
    <2>2. CASE \E t \in Tasks, flag \in Flags : RunTask(c, t, flag)
      <3>1. PICK t \in Tasks, flag \in Flags : RunTask(c, t, flag)
        BY <2>2
      <3>2. task'[t].m_state = "ATTACHED" /\ \A u \in Tasks \ {t} : task'[u] = task[u]
        BY <3>1 DEF RunTask, TypeOK
      <3>3. cpc[c] = "have" /\ cpc'[c] = "ran" /\ ctask'[c] = t /\ cobj' = cobj
        BY <3>1 DEF RunTask, TypeOK
      <3> QED BY <2>1, <3>2, <3>3 DEF ClientSound
    <2>3. CASE ~\E t \in Tasks, flag \in Flags : RunTask(c, t, flag)
      <3>1. UNCHANGED task
        BY <2>3 DEF AcquireTests, AcquireLooks, AcquireSticks, AcquireTakes, AcquireFindsNone, AcquireFails,
                    RunReturns, WaitTask, ClientReleases
      <3>2. CASE AcquireTests(c) \/ AcquireLooks(c) \/ AcquireSticks(c) \/ (AcquireTakes(c) /\ m_free_q = <<>>)
                 \/ AcquireFindsNone(c) \/ AcquireFails(c)
        <4>1. cpc'[c] \in {"look", "take", "stuck", "get", "idle"}
          BY <3>2 DEF AcquireTests, AcquireLooks, AcquireSticks, AcquireTakes, AcquireFindsNone, AcquireFails,
                      TypeOK
        <4> QED BY <3>1, <4>1 DEF ClientSound
      <3>3. CASE RunReturns(c)
        <4>1. /\ cpc[c] = "ran" /\ cpc'[c] \in {"idle", "wait"} /\ (cpc'[c] = "wait" => ctask'[c] = ctask[c])
              /\ cobj'[c] \in {cobj[c], 0}
          BY <3>3 DEF RunReturns, TypeOK
        <4>2. cobj[c] \in 0 .. m_obj_idx /\ 0 \in 0 .. m_obj_idx
          BY <2>1, <4>1, Constants DEF ClientSound, TypeOK
        <4> QED BY <2>1, <3>1, <4>1, <4>2 DEF ClientSound
      <3>4. CASE WaitTask(c)
        <4>1. cpc'[c] = IF cobj[c] = 0 THEN "idle" ELSE "release"
          BY <3>4 DEF WaitTask, TypeOK
        <4>2. cpc[c] = "wait" /\ cobj' = cobj /\ cobj[c] \in 0 .. m_obj_idx
          BY <2>1, <3>4 DEF WaitTask, ClientSound
        <4>3. cobj[c] # 0 => cobj[c] \in 1 .. m_obj_idx
          BY <4>2, Constants DEF TypeOK
        <4> QED BY <2>1, <3>1, <4>1, <4>2, <4>3 DEF ClientSound
      <3>5. CASE ClientReleases(c)
        <4>1. /\ cpc[c] \in {"release", "have"} /\ cpc'[c] \in {"put", "idle"}
              /\ cpc'[c] = "put" => cobj'[c] = cobj[c]
          BY <3>5 DEF ClientReleases, TypeOK
        <4> QED BY <2>1, <3>1, <4>1 DEF ClientSound
      <3> QED BY <2>3, <3>2, <3>3, <3>4, <3>5
    <2> QED BY <2>2, <2>3
  <1>4. \A d \in Clients : ClientSound(d)'
    BY <1>1, <1>3, ClientsSound DEF SameQueue
  <1>5. PoolInv'
    <2>1. \A r \in Runners : Used(r)' = Used(r)
      BY <1>1 DEF Used
    <2>2. \A d \in Clients : /\ cpc'[d] = "got" <=> cpc[d] = "got"
                             /\ cpc[d] = "got" => cobj'[d] = cobj[d]
      BY <1>1
    <2> QED BY <1>1, <1>2, <1>4, <2>1, <2>2, PoolKeeps
  <1>6. ASSUME AcquireTakes(c) PROVE TaskInv'
    <2>1. m_free_q = <<>>
      BY <1>6 DEF AcquireTests, AcquireLooks, AcquireSticks, AcquireTakes, AcquireFindsNone, AcquireFails,
                  RunReturns, WaitTask, ClientReleases, RunTask
    <2>2. UNCHANGED <<obj, tr, rpc, rtask, rshut, task, freed, ctask>> /\ cpc'[c] = "get"
      BY <1>6, <2>1 DEF AcquireTakes, TypeOK
    <2> QED BY <1>1, <2>2, TasksKeep
        DEF SameTasks, SameThreads, SameMoves, SameHolds, Tsk, Used, ClientHolds, Keeps
  <1> QED BY <1>5, <1>6

LEMMA ClientsKeep ==
    ASSUME TypeOK, TaskInv, PoolInv, NEW c \in Clients, ClientAny(c)
    PROVE  TypeOK' /\ TaskInv' /\ PoolInv'
  <1> USE DEF ClientGoes
  <1>1. PoolInv' /\ TaskInv'
    <2>1. CASE AcquireTakes(c) /\ m_free_q # <<>>
      <3>1. PICK h \in Runners : h = Head(m_free_q)
        BY <2>1, QueueHead
      <3>2. /\ PoolInv'
            /\ ~Used(h) /\ Used(h)' /\ \A s \in Runners \ {h} : Used(s)' = Used(s)
            /\ cpc'[c] = "have" /\ cobj'[c] = h
            /\ \A d \in Clients \ {c} : cpc'[d] = cpc[d] /\ cobj'[d] = cobj[d]
        BY <2>1, <3>1, TakesPool
      <3>3. /\ cpc[c] = "take" /\ cpc' = [cpc EXCEPT ![c] = "have"]
            /\ UNCHANGED <<tr, rpc, rtask, rshut, tasks, ctask>>
        BY <2>1 DEF AcquireTakes, Has, threads
      <3>4. \A s \in Runners : Tsk(s)' = Tsk(s) /\ rpc'[s] = rpc[s]
        BY <3>3 DEF Tsk
      <3> QED BY <3>2, <3>3, <3>4, AcquiredTasks
    <2>2. CASE AcquireCreates(c)
      <3>1. PICK h \in Runners : h = m_obj_idx + 1
        BY <2>2, Constants DEF AcquireCreates, TypeOK
      <3>2. /\ PoolInv'
            /\ ~Used(h) /\ Used(h)' /\ \A s \in Runners \ {h} : Used(s)' = Used(s)
            /\ rpc[h] = "none"
        BY <2>2, <3>1, CreatesPool
      <3>3. /\ cpc[c] = "look" /\ cpc' = [cpc EXCEPT ![c] = "have"]
            /\ UNCHANGED <<rtask, rshut, tasks, ctask>>
        BY <2>2 DEF AcquireCreates, Has
      <3>4. cobj'[c] = h /\ \A d \in Clients \ {c} : cobj'[d] = cobj[d]
        BY <2>2, <3>1 DEF AcquireCreates, Has, TypeOK
      <3>5. \A s \in Runners : \/ Tsk(s)' = Tsk(s) /\ rpc'[s] = rpc[s]
                               \/ rpc[s] = "none" /\ rpc'[s] = "gala" /\ Tsk(s)' = Nobody
        BY <2>2, <3>1, <3>2 DEF AcquireCreates, StartsThread, RunnerGoes, NewRunner, Tsk, TypeOK
      <3> QED BY <3>2, <3>3, <3>4, <3>5, AcquiredTasks
    <2>3. CASE AcquireUses(c)
      <3>1. PICK h \in Runners : h = cobj[c]
        BY <2>3, Constants DEF AcquireUses, PoolInv, ClientSound, TypeOK
      <3>2. /\ PoolInv'
            /\ ~Used(h) /\ Used(h)' /\ \A s \in Runners \ {h} : Used(s)' = Used(s)
        BY <2>3, <3>1, UsesPool
      <3>3. /\ cpc[c] = "got" /\ cpc' = [cpc EXCEPT ![c] = "have"]
            /\ UNCHANGED <<tr, rpc, rtask, rshut, tasks, cobj, ctask>>
        BY <2>3 DEF AcquireUses, threads
      <3>4. \A s \in Runners : Tsk(s)' = Tsk(s) /\ rpc'[s] = rpc[s]
        BY <3>3 DEF Tsk
      <3> QED BY <3>1, <3>2, <3>3, <3>4, AcquiredTasks
    <2>4. CASE AcquireGets(c)
      BY <2>4, GetsPool, PlainTasks
    <2>5. CASE ClientPuts(c)
      <3>1. PICK r \in Runners : r = cobj[c]
        BY <2>5, Constants DEF ClientPuts, PoolInv, ClientSound, TypeOK
      <3>2. /\ cpc[c] = "put" /\ Put(r) /\ cpc' = [cpc EXCEPT ![c] = "idle"]
            /\ cobj' = [cobj EXCEPT ![c] = 0] /\ UNCHANGED <<tr, rpc, rtask, rshut, tasks, ctask>>
        BY <2>5, <3>1 DEF ClientPuts, threads
      <3>3. \A d \in Clients \ {c} : cpc'[d] = cpc[d] /\ cobj'[d] = cobj[d] /\ ctask'[d] = ctask[d]
        BY <3>2 DEF TypeOK
      <3>4. r \in 1 .. m_obj_idx /\ Used(r) /\ cpc'[c] = "idle"
        BY <3>1, <3>2 DEF PoolInv, ClientSound, ClientHolds, TaskInv, Held, TypeOK
      <3>5. \A d \in Clients : ClientSound(d)'
        <4>1. ClientSound(c)'
          BY <3>4 DEF ClientSound
        <4>2. UNCHANGED <<task, m_obj_idx>>
          BY <3>2 DEF Put, tasks
        <4> QED BY <3>3, <4>1, <4>2, ClientsSound
      <3>6. PoolInv'
        BY <3>2, <3>3, <3>4, <3>5, PutPool
      <3>7. TaskInv'
        BY <3>1, <3>2, <3>3, PutTasks
      <3> QED BY <3>6, <3>7
    <2>6. CASE RunReturns(c) \/ ClientReleases(c) \/ AcquireTests(c) \/ AcquireLooks(c)
               \/ AcquireSticks(c) \/ AcquireFindsNone(c) \/ AcquireFails(c)
      BY <2>6, ClientPlain, PlainTasks
    <2>7. CASE AcquireTakes(c) /\ m_free_q = <<>>
      BY <2>7, ClientPlain
    <2>8. CASE WaitTask(c)
      BY <2>8, ClientPlain, WaitTaskTasks
    <2>9. CASE \E t \in Tasks, flag \in Flags : RunTask(c, t, flag)
      BY <2>9, ClientPlain, RunTaskTasks
    <2> QED BY <2>1, <2>2, <2>3, <2>4, <2>5, <2>6, <2>7, <2>8, <2>9 DEF ClientAny, ClientStep
  <1>2. TypeOK'
    <2>1. m_n_free' \in 0 .. N
      BY <1>1, CountTyped DEF PoolInv
    <2> QED BY <2>1, AcquiresType, ClientsType DEF ClientAny, ClientStep
  <1> QED BY <1>1, <1>2

LEMMA InitInv == Init => Inv
  <1> SUFFICES ASSUME Init PROVE Inv
    OBVIOUS
  <1>1. TypeOK
    <2>1. obj \in [Runners -> ObjType] /\ tr \in [Runners -> TskType] /\ task \in [Tasks -> TaskType]
      BY DEF Init, NewRunner, NewTask, ObjType, TskType, TaskType
    <2>2. m_n_free \in 0 .. N /\ m_free_q \in Seq(Runners) /\ 0 \in 0 .. N
      BY Constants DEF Init
    <2> QED BY <2>1, <2>2 DEF Init, TypeOK, RunnerPlaces, ClientPlaces, BossPlaces, ObjType, TskType, TaskType
  <1>2. /\ \A r \in Runners : /\ ~Used(r) /\ Tsk(r) = Nobody /\ rtask[r] = Nobody /\ rpc[r] = "none"
        /\ \A t \in Tasks : ~task[t].m_is_wait_done
        /\ freed = {} /\ \A c \in Clients : cpc[c] = "idle"
    BY DEF Init, Used, Tsk, NewRunner, NewTask
  <1>3. TaskInv
    BY <1>2, Constants DEF TaskInv, Given, Unrun, Carries, RunnerSound, Held, RunnerHolds, ClientHolds,
                           Lives, Occupied, DoneIsOver
  <1>4. PoolInv
    <2>1. {r \in Runners : Used(r)} = {}
      BY <1>2
    <2>2. Counted
      BY <2>1, FS_EmptySet, Constants DEF Init, Counted
    <2>3. m_obj_idx = 0 /\ DOMAIN m_free_q = {}
      BY DEF Init
    <2>4. Unborn
      BY <1>2, <2>3, Constants DEF Unborn
    <2>5. QueueSound
      BY <1>2, <2>3 DEF QueueSound
    <2> QED BY <1>2, <2>2, <2>4, <2>5 DEF PoolInv, ClientSound
  <1> QED BY <1>1, <1>3, <1>4 DEF Inv

LEMMA Safety == Spec => []Inv
  <1>1. Inv /\ [Next]_vars => Inv'
    <2> SUFFICES ASSUME TypeOK, TaskInv, PoolInv, [Next]_vars
                 PROVE  (TypeOK /\ TaskInv /\ PoolInv)'
      BY DEF Inv
    <2>1. CASE UNCHANGED vars
      BY <2>1 DEF vars, pool, poolables, threads, tasks, clients, boss, TypeOK, TaskInv, PoolInv, Given,
         Unrun, Carries, RunnerSound, WillRelease, Held, RunnerHolds, ClientHolds, Keeps, Lives, Occupied,
         DoneIsOver, InUse, QueueSound, InQueue, Got, Unborn, Counted, ClientSound, Used, Tsk
    <2>2. ASSUME NEW r \in Runners, RunnerStep(r) \/ SpuriousWakeup(r)
          PROVE  (TypeOK /\ TaskInv /\ PoolInv)'
      BY <2>2, RunnersKeep
    <2>3. ASSUME NEW c \in Clients, ClientAny(c)
          PROVE  (TypeOK /\ TaskInv /\ PoolInv)'
      BY <2>3, ClientsKeep
    <2>4. CASE BossAny
      BY <2>4, BossKeeps
    <2> QED BY <2>1, <2>2, <2>3, <2>4 DEF Next, ClientAny, BossAny
  <1> QED BY <1>1, InitInv, PTL DEF Spec

-----------------------------------------------------------------------------
(* The theorems.                                                           *)

\* The invariant says of each thread what Accounted counts.
LEMMA InvAccounts == Inv => Accounted
  <1> SUFFICES ASSUME TypeOK, PoolInv PROVE Accounted
    BY DEF Inv
  <1> DEFINE got(r) == {c \in Clients : cpc[c] = "got" /\ cobj[c] = r}
             queued(r) == {i \in DOMAIN m_free_q : m_free_q[i] = r}
  <1>1. ASSUME NEW r \in 1 .. m_obj_idx
        PROVE  IF Used(r) THEN queued(r) = {} /\ got(r) = {}
                          ELSE Cardinality(queued(r)) + Cardinality(got(r)) = 1
    <2>1. Used(r) <=> queued(r) = {} /\ got(r) = {}
      BY DEF PoolInv, QueueSound, InQueue, Got
    <2>2. queued(r) = {} \/ got(r) = {}
      BY DEF PoolInv, QueueSound, InQueue
    <2>3. queued(r) # {} => \E i : queued(r) = {i}
      BY DEF PoolInv, QueueSound
    <2>4. got(r) # {} => \E c : got(r) = {c}
      BY DEF PoolInv, QueueSound, Got
    <2> HIDE DEF got, queued
    <2>5. CASE Used(r)
      BY <2>1, <2>5
    <2>6. CASE ~Used(r) /\ got(r) = {}
      <3>1. Cardinality(queued(r)) = 1 /\ Cardinality(got(r)) = 0
        BY <2>1, <2>3, <2>6, FS_EmptySet, FS_Singleton
      <3> QED BY <2>6, <3>1
    <2>7. CASE ~Used(r) /\ queued(r) = {}
      <3>1. Cardinality(queued(r)) = 0 /\ Cardinality(got(r)) = 1
        BY <2>1, <2>4, <2>7, FS_EmptySet, FS_Singleton
      <3> QED BY <2>7, <3>1
    <2> QED BY <2>2, <2>5, <2>6, <2>7
  <1>2. m_n_free = N - Cardinality({r \in Runners : obj[r].m_is_used})
    BY DEF PoolInv, Counted, Used
  <1> QED BY <1>1, <1>2 DEF Accounted, Used

\* A pooled thread is in use, or in the free queue once, or on its way from the queue to
\* one client that has waited for it, and m_n_free counts those that are not in use: for
\* every interleaving of gallus_pool_acquire_poolable and gallus_pool_release_poolable
\* by any number of clients, threads that release themselves, shutdown and cancellation.
THEOREM AccountedCorrect == Spec => []Accounted
  <1> QED BY Safety, InvAccounts, PTL

\* A task that gallus_task_finalize has told its waiter of, or whose memory is given back,
\* is not run by s_task_runner_main, nor is it the task that a thread will look at next.
THEOREM DoneCorrect == Spec => [](TypeOK /\ DoneIsOver)
  <1>1. Inv => TypeOK /\ DoneIsOver
    BY DEF Inv, TaskInv
  <1> QED BY Safety, <1>1, PTL
=============================================================================
