--------------------------- MODULE CalloutProofs ---------------------------
(***************************************************************************)
(* What Callout promises for any number of tasks and workers, any queue    *)
(* length, any delays and intervals, where one user uses the callouts and  *)
(* task procedures cancel tasks only if the main loop runs all of them: a  *)
(* task is in one hand at a time, its record and the table tell in which,  *)
(* and its executor's count says who destroys it.                          *)
(***************************************************************************)
EXTENDS Callout, FiniteSetTheorems, SequenceTheorems, WellFoundedInduction, TLAPS

\* One user thread uses the callouts.  Two of them might submit the same task at once, or
\* go on with the callouts that the other finalizes.
OneUser == \A u, v \in Users : u = v

\* Tasks are cancelled by the procedures of tasks, if at all, and only where the main
\* loop runs all the tasks by itself.
Orderly == \A m \in Modes : \/ m.cancels = "none"
                            \/ m.cancels = "procs" /\ m.workers = {} /\ ~m.forces

-----------------------------------------------------------------------------
(* Types.                                                                  *)

States == {"UNKNOWN", "CREATED", "ENQUEUED", "DEQUEUED", "EXECUTING", "EXEC_FAILED", "CANCELLED"}
Records == [m_status : States \cup {"DELETING"},
            m_exec_ref_count : Int, m_cancel_ref_count : Int,
            m_do_repeat : BOOLEAN, m_is_first : BOOLEAN, m_is_in_timed_q : BOOLEAN,
            m_initial_delay_time : Int, m_interval_time : Int,
            m_last_abstime : Int, m_next_abstime : Int]

TaskTypes ==
    /\ table \in [Tasks -> States]
    /\ task \in [Tasks -> Records]
    /\ tlock \in [Tasks -> Executors \cup {Nobody}]
    /\ freed \subseteq Tasks
    /\ canceled \subseteq Tasks

QueueTypes ==
    /\ urgent_q \in Seq(Tasks) /\ idle_q \in Seq(Tasks) /\ chrono_q \in Seq(Tasks)
    /\ wq \in [AllWorkers -> Seq(Tasks)]
    /\ todo \in [Executors -> Seq(Tasks)]
    /\ out \in [Executors -> Seq([task : Tasks, worker : W])]
    /\ last_q \in Nat

ExecPlaces == {"none", "begin", "count", "lock", "running", "resched", "leave", "destroy", "illegal"}
ExecRecords == [at : ExecPlaces, task : Tasks \cup {Nobody}, seen : States, del : BOOLEAN]
CancRecords == [at : {"none", "count", "ENQUEUED", "DEQUEUED"}, task : Tasks \cup {Nobody}, seen : States]
DestRecords == [at : {"none", "unsched", "mark", "delete"}, task : Tasks \cup {Nobody}, unlock : BOOLEAN]
LayerTypes ==
    /\ exec \in [Executors -> ExecRecords]
    /\ canc \in [Executors -> CancRecords]
    /\ dest \in [Executors -> DestRecords]
    /\ \A e \in Executors : /\ exec[e].at = "none" <=> exec[e].task = Nobody
                            /\ canc[e].at = "none" <=> canc[e].task = Nobody
                            /\ dest[e].at = "none" <=> dest[e].task = Nobody

LoopTypes ==
    /\ mode \in Modes
    /\ s_do_loop \in BOOLEAN /\ s_is_stopped \in BOOLEAN /\ gave_up \in BOOLEAN
    /\ spc \in {"off", "gala", "failed", "top", "timed", "run", "peek", "sleep", "end", "over"}
    /\ now \in Nat /\ start_time \in Nat
    /\ stage \in {"none", "created", "started", "shutdown"}
    /\ wpc \in [AllWorkers -> {"off", "loop", "over"}]
    /\ glock \in Executors \cup {Nobody}

UserTypes ==
    /\ upc \in [Users -> {"idle", "submit", "put", "wakeup", "waking", "stopping", "asleep", "stage",
                          "workers", "timed", "urgent", "queued", "finalized"}]
    /\ uarg \in [Users -> [task : Tasks \cup {Nobody}, delay : Int, interval : Nat, fin : BOOLEAN]]

TypeOK == TaskTypes /\ QueueTypes /\ LayerTypes /\ LoopTypes /\ UserTypes

-----------------------------------------------------------------------------
(* The invariant: the main loop, the stage and the users.                  *)

Clearing == {"workers", "timed", "urgent", "queued"}
Resting == {"off", "failed", "end", "over"}

\* Who finalizes has seen the main loop at rest, and keeps it from starting.
LoopSound ==
    /\ s_is_stopped <=> spc \in {"failed", "over"}
    /\ \A u \in Users : upc[u] \in Clearing \cup {"stage", "finalized"} => uarg[u].fin /\ spc \in Resting
    /\ ~s_do_loop /\ spc \notin Resting =>
          \E u \in Users : upc[u] \in {"wakeup", "waking", "stopping", "asleep"}

\* The workers are over before their queues are cleared.
StageSound ==
    /\ stage = "none" => W = {}
    /\ gave_up => \A u \in Users : upc[u] = "finalized"
    /\ \A w \in AllWorkers \ W : wpc[w] = "off"
    /\ \A u \in Users : upc[u] \in Clearing \/ (upc[u] = "finalized" /\ ~gave_up)
          => \A w \in W : wpc[w] = "over"

\* A finalization empties one queue after the other, and each remains empty.
Past(u, places) == upc[u] \in places \/ (upc[u] = "finalized" /\ ~gave_up)
Emptied ==
    /\ \A w \in AllWorkers \ W : wq[w] = <<>>
    /\ \A u \in Users :
        /\ Past(u, {"timed", "urgent", "queued"}) => \A w \in AllWorkers : wq[w] = <<>>
        /\ Past(u, {"urgent", "queued"}) => chrono_q = <<>>
        /\ Past(u, {"queued"}) => urgent_q = <<>>
        /\ Past(u, {}) => idle_q = <<>>

\* A task that is being submitted is nobody else's.
Submits ==
    \A u \in Users : upc[u] \in {"submit", "put"} =>
        uarg[u].task \in Tasks /\ task[uarg[u].task].m_status = "CREATED"

-----------------------------------------------------------------------------
(* The invariant: the threads that handle tasks.                           *)

\* One thread runs the tasks.
Alone == W = {} /\ ~mode.forces

\* The thread does not handle tasks.
Away(e) == \/ e = Sched /\ spc # "run"
           \/ e \in AllWorkers /\ wpc[e] # "loop"
           \/ e \in Users /\ upc[e] # "idle"

ThreadSound(e) ==
    /\ Away(e) => exec[e].at = "none" /\ canc[e].at = "none" /\ out[e] = <<>>
    /\ Away(e) /\ ~(e = Sched /\ spc = "timed") => todo[e] = <<>>
    /\ Away(e) /\ ~(e \in Users /\ upc[e] \in Clearing) => dest[e].at = "none"
    /\ e \in AllWorkers \/ Alone => out[e] = <<>>
    /\ e # Sched /\ Alone =>
          /\ exec[e].at = "none" /\ todo[e] = <<>>
          /\ dest[e].at # "none" => e \in Users /\ upc[e] \in Clearing
    /\ canc[e].at # "none" => /\ e = Sched /\ mode.cancels = "procs" /\ exec[e].at = "running"
                              /\ dest[e].at = "none" /\ canc[e].task # exec[e].task
    /\ exec[e].at = "illegal" => exec[e].seen = "CANCELLED"
    /\ exec[e].at \in {"begin", "count"} => ~exec[e].del

NoRepeat(q) == \A i, j \in DOMAIN q : q[i] = q[j] => i = j
SentOnce(q) == \A i, j \in DOMAIN q : q[i].task = q[j].task => i = j

\* No queue has a task twice, and the timed one is in the order of the times.
QueuesSound ==
    /\ NoRepeat(urgent_q) /\ NoRepeat(idle_q) /\ NoRepeat(chrono_q)
    /\ \A w \in AllWorkers : NoRepeat(wq[w])
    /\ \A e \in Executors : NoRepeat(todo[e]) /\ SentOnce(out[e])
    /\ \A i, j \in DOMAIN chrono_q :
          i < j => task[chrono_q[i]].m_next_abstime <= task[chrono_q[j]].m_next_abstime

-----------------------------------------------------------------------------
(* The invariant: what a task's records, and those who have it, say.       *)

St(t) == task[t].m_status
InQ(t) == task[t].m_is_in_timed_q
Ref(t) == task[t].m_exec_ref_count

\* An executor that has the task, and one that has only to give up its count.
Main(x) == x.at # "none" /\ ~(x.at = "leave" /\ ~x.del)
\* An executor that is the only one.
Sole(x) == Main(x) /\ x.at \notin {"begin", "count"}

\* The task t is in the hands of e, where k says in which.
Kinds == {"urgent", "idle", "timed", "wq", "todo", "out", "exec", "dest"}
Places == Executors \cup {Nobody}
InHand(t, k, e) ==
    \/ k = "urgent" /\ e = Nobody /\ t \in ToSet(urgent_q)
    \/ k = "idle" /\ e = Nobody /\ t \in ToSet(idle_q)
    \/ k = "timed" /\ e = Nobody /\ t \in ToSet(chrono_q)
    \/ k = "wq" /\ e \in AllWorkers /\ t \in ToSet(wq[e])
    \/ k = "todo" /\ e \in Executors /\ t \in ToSet(todo[e])
    \/ k = "out" /\ e \in Executors /\ t \in Sent(out[e])
    \/ k = "exec" /\ e \in Executors /\ t = exec[e].task /\ Main(exec[e])
    \/ k = "dest" /\ e \in Executors /\ t = dest[e].task /\ t \notin ToSet(chrono_q)

Handed(t) == \E k \in Kinds, e \in Places : InHand(t, k, e)

\* One has it.
Apart(t) == \A k, l \in Kinds, d, e \in Places : InHand(t, k, d) /\ InHand(t, l, e) => k = l /\ d = e
SoleExec(t) == \A d, e \in Executors : t = exec[e].task /\ Sole(exec[e]) /\ t = exec[d].task => d = e
SoleDest(t) ==
    \A e \in Executors : t = dest[e].task =>
        /\ \A d \in Executors : t # exec[d].task
        /\ t \in ToSet(chrono_q) => e = Sched /\ mode.cancels = "procs" /\ dest[e].at = "unsched"

\* The states in the table and in the record, wherever the task is.
Both(t, S) == St(t) = table[t] /\ St(t) \in S
Stated(t) ==
    /\ t \in ToSet(urgent_q) \cup ToSet(idle_q) => Both(t, {"ENQUEUED", "CANCELLED"})
    /\ t \in ToSet(chrono_q) => Both(t, {"ENQUEUED"})
    /\ \A w \in AllWorkers : t \in ToSet(wq[w]) \cup ToSet(todo[w]) => Both(t, {"DEQUEUED", "CANCELLED"})
    /\ \A e \in Executors :
          /\ t \in ToSet(todo[e]) => Both(t, {"ENQUEUED", "DEQUEUED", "CANCELLED"})
          /\ t \in Sent(out[e]) => Both(t, {"DEQUEUED", "CANCELLED"})
          /\ t = exec[e].task => /\ Main(exec[e]) => table[t] = St(t)
                                 /\ exec[e].at = "begin" => Both(t, {"DEQUEUED", "CANCELLED"})
                                 /\ exec[e].at \in {"count", "lock"} => Both(t, {"DEQUEUED"})
                                 /\ exec[e].at = "illegal" => Both(t, {"CANCELLED"})
                                 /\ exec[e].at \in {"running", "resched"} => Both(t, {"EXECUTING"})
                                 /\ exec[e].at = "resched" => task[t].m_do_repeat
          /\ t = dest[e].task => (dest[e].at = "delete" => table[t] = "CANCELLED")

\* The flag, the record and the table agree; only where one thread runs the tasks are
\* there cancelled ones.
Agreed(t) ==
    /\ t \in ToSet(chrono_q) <=> InQ(t)
    /\ t \in freed => table[t] = "UNKNOWN" /\ St(t) = "DELETING"
    /\ t \notin freed => table[t] \in {St(t), "CANCELLED"} /\ St(t) # "DELETING"
    /\ ~Alone => St(t) # "CANCELLED"
    /\ task[t].m_cancel_ref_count = 0

\* A task that was not submitted is in nobody's hands.
FreshSound(t) ==
    St(t) \in {"UNKNOWN", "CREATED"} =>
        /\ table[t] = St(t) /\ Ref(t) = 0 /\ task[t].m_is_first
        /\ ~Handed(t)
        /\ \A e \in Executors : /\ t # exec[e].task /\ t # dest[e].task
                                /\ t = canc[e].task => canc[e].at = "count" /\ canc[e].seen = "CREATED"

\* A procedure cancels what it saw.
CancelSound(t) ==
    \A e \in Executors : t = canc[e].task /\ "DEQUEUED" \in {canc[e].at, canc[e].seen} /\ canc[e].at # "ENQUEUED"
        => t \notin ToSet(chrono_q)

\* The count is that of the executors that have counted themselves.
Counted(t) == {e \in Executors : t = exec[e].task /\ exec[e].at \in {"lock", "running", "resched", "leave"}}
CountSound(t) == IsFiniteSet(Counted(t)) /\ Ref(t) = Cardinality(Counted(t))

\* Nobody has a task that was freed.
FreedSound(t) ==
    t \in freed => /\ ~Handed(t)
                   /\ \A e \in Executors : t # exec[e].task /\ t # canc[e].task /\ t # dest[e].task

\* A task that was cancelled stays so, until somebody destroys it.
CanceledSound(t) ==
    t \in canceled => t \in freed \/ Both(t, {"CANCELLED"}) \/ \E e \in Executors : t = dest[e].task

\* A task is not lost, but by the second of two executors.
Kept(t) == table[t] \in {"UNKNOWN", "CREATED"} \/ (table[t] = "DEQUEUED" /\ ~Alone) \/ Handed(t)

\* A task without repetition that was executed is not enqueued any more.
OneShot(t) == \/ task[t].m_is_first \/ task[t].m_do_repeat
              \/ St(t) \notin {"ENQUEUED", "DEQUEUED"}

TaskSound(t) ==
    /\ Apart(t) /\ SoleExec(t) /\ SoleDest(t)
    /\ Stated(t) /\ Agreed(t) /\ FreshSound(t) /\ CancelSound(t) /\ CountSound(t)
    /\ FreedSound(t) /\ CanceledSound(t) /\ Kept(t) /\ OneShot(t)

IInv ==
    /\ TypeOK /\ LoopSound /\ StageSound /\ Emptied /\ Submits /\ QueuesSound
    /\ \A e \in Executors : ThreadSound(e)
    /\ \A t \in Tasks : TaskSound(t)

-----------------------------------------------------------------------------
(* Sequences: what is in them, and how often.                              *)

LEMMA NothingIn == /\ ToSet(<<>>) = {} /\ Sent(<<>>) = {}
                  /\ NoRepeat(<<>>) /\ SentOnce(<<>>)
  <1>1. \A i \in DOMAIN <<>> : FALSE
    OBVIOUS
  <1>2. ToSet(<<>>) = {} /\ Sent(<<>>) = {}
    BY <1>1 DEF ToSet, Sent
  <1>3. NoRepeat(<<>>) /\ SentOnce(<<>>)
    BY <1>1 DEF NoRepeat, SentOnce
  <1> QED BY <1>2, <1>3

\* An element at the end.
LEMMA AppendSeq ==
    ASSUME NEW S, NEW q \in Seq(S), NEW x \in S
    PROVE  /\ Append(q, x) \in Seq(S)
           /\ ToSet(Append(q, x)) = ToSet(q) \cup {x}
           /\ NoRepeat(q) /\ x \notin ToSet(q) => NoRepeat(Append(q, x))
  <1>1. /\ Len(Append(q, x)) = Len(q) + 1 /\ Len(q) \in Nat
        /\ \A i \in 1 .. Len(q) : Append(q, x)[i] = q[i]
        /\ Append(q, x)[Len(q) + 1] = x
    OBVIOUS
  <1>2. Append(q, x) \in Seq(S)
    OBVIOUS
  <1>3. DOMAIN Append(q, x) = 1 .. Len(q) + 1 /\ DOMAIN q = 1 .. Len(q)
    BY <1>1, <1>2
  <1>4. 1 .. Len(q) + 1 = (1 .. Len(q)) \cup {Len(q) + 1}
    BY <1>1
  <1>5. ToSet(Append(q, x)) = ToSet(q) \cup {x}
    BY <1>1, <1>3, <1>4 DEF ToSet
  <1>6. ASSUME NoRepeat(q), x \notin ToSet(q) PROVE NoRepeat(Append(q, x))
    BY <1>1, <1>3, <1>4, <1>6 DEF ToSet, NoRepeat
  <1> QED BY <1>2, <1>5, <1>6

\* The first element goes.
LEMMA TailSeq ==
    ASSUME NEW S, NEW q \in Seq(S), q # <<>>
    PROVE  /\ Head(q) \in S /\ Head(q) \in ToSet(q) /\ Tail(q) \in Seq(S)
           /\ NoRepeat(q) => NoRepeat(Tail(q)) /\ ToSet(Tail(q)) = ToSet(q) \ {Head(q)}
  <1>1. /\ Len(q) \in Nat \ {0} /\ Len(Tail(q)) = Len(q) - 1 /\ Tail(q) \in Seq(S)
        /\ \A i \in 1 .. Len(q) - 1 : Tail(q)[i] = q[i + 1]
        /\ Head(q) = q[1]
    OBVIOUS
  <1>2. DOMAIN q = 1 .. Len(q) /\ DOMAIN Tail(q) = 1 .. Len(q) - 1
    BY <1>1
  <1>3. ASSUME NoRepeat(q) PROVE NoRepeat(Tail(q))
    BY <1>1, <1>2, <1>3 DEF NoRepeat
  <1>4. ASSUME NoRepeat(q) PROVE ToSet(Tail(q)) = ToSet(q) \ {Head(q)}
    <2>1. ASSUME NEW x \in ToSet(Tail(q)) PROVE x \in ToSet(q) /\ x # Head(q)
      BY <1>1, <1>2, <1>4 DEF ToSet, NoRepeat
    <2>2. ASSUME NEW x \in ToSet(q), x # Head(q) PROVE x \in ToSet(Tail(q))
      <3>1. PICK i \in 1 .. Len(q) : x = q[i]
        BY <1>2 DEF ToSet
      <3>2. i # 1
        BY <1>1, <2>2, <3>1
      <3>3. i - 1 \in 1 .. Len(q) - 1 /\ Tail(q)[i - 1] = x
        BY <1>1, <3>1, <3>2
      <3> QED BY <1>2, <3>3 DEF ToSet
    <2> QED BY <2>1, <2>2
  <1>5. Head(q) \in S /\ Head(q) \in ToSet(q)
    BY <1>1, <1>2 DEF ToSet
  <1> QED BY <1>1, <1>3, <1>4, <1>5

\* One sequence after the other.
LEMMA ConcatSeq ==
    ASSUME NEW S, NEW p \in Seq(S), NEW q \in Seq(S)
    PROVE  /\ p \o q \in Seq(S)
           /\ ToSet(p \o q) = ToSet(p) \cup ToSet(q)
           /\ NoRepeat(p) /\ NoRepeat(q) /\ ToSet(p) \cap ToSet(q) = {} => NoRepeat(p \o q)
  <1>1. /\ p \o q \in Seq(S) /\ Len(p \o q) = Len(p) + Len(q) /\ Len(p) \in Nat /\ Len(q) \in Nat
        /\ \A i \in 1 .. Len(p) + Len(q) :
              (p \o q)[i] = IF i <= Len(p) THEN p[i] ELSE q[i - Len(p)]
    OBVIOUS
  <1>2. /\ DOMAIN p = 1 .. Len(p) /\ DOMAIN q = 1 .. Len(q)
        /\ DOMAIN (p \o q) = 1 .. Len(p) + Len(q)
    BY <1>1
  <1>3. ASSUME NEW x \in ToSet(p) \cup ToSet(q) PROVE x \in ToSet(p \o q)
    <2>1. CASE x \in ToSet(p)
      <3>1. PICK i \in 1 .. Len(p) : x = p[i]
        BY <1>2, <2>1 DEF ToSet
      <3>2. i \in 1 .. Len(p) + Len(q) /\ (p \o q)[i] = x
        BY <1>1, <3>1
      <3> QED BY <1>2, <3>2 DEF ToSet
    <2>2. CASE x \in ToSet(q)
      <3>1. PICK i \in 1 .. Len(q) : x = q[i]
        BY <1>2, <2>2 DEF ToSet
      <3>2. i + Len(p) \in 1 .. Len(p) + Len(q) /\ (p \o q)[i + Len(p)] = x
        BY <1>1, <3>1
      <3> QED BY <1>2, <3>2 DEF ToSet
    <2> QED BY <1>3, <2>1, <2>2
  <1>4. ASSUME NEW i \in 1 .. Len(p) + Len(q)
        PROVE  \/ i \in 1 .. Len(p) /\ (p \o q)[i] = p[i] /\ p[i] \in ToSet(p)
               \/ i - Len(p) \in 1 .. Len(q) /\ (p \o q)[i] = q[i - Len(p)] /\ q[i - Len(p)] \in ToSet(q)
    BY <1>1, <1>2 DEF ToSet
  <1>5. ToSet(p \o q) = ToSet(p) \cup ToSet(q)
    <2>1. \A x \in ToSet(p \o q) : x \in ToSet(p) \cup ToSet(q)
      BY <1>2, <1>4 DEF ToSet
    <2> QED BY <1>3, <2>1
  <1>6. ASSUME NoRepeat(p), NoRepeat(q), ToSet(p) \cap ToSet(q) = {},
               NEW i \in 1 .. Len(p) + Len(q), NEW j \in 1 .. Len(p) + Len(q),
               (p \o q)[i] = (p \o q)[j]
        PROVE  i = j
    <2>1. \/ i \in 1 .. Len(p) /\ j \in 1 .. Len(p) /\ p[i] = p[j]
          \/ i - Len(p) \in 1 .. Len(q) /\ j - Len(p) \in 1 .. Len(q) /\ q[i - Len(p)] = q[j - Len(p)]
      BY <1>4, <1>6
    <2>2. CASE i \in 1 .. Len(p) /\ j \in 1 .. Len(p) /\ p[i] = p[j]
      BY <1>2, <1>6, <2>2 DEF NoRepeat
    <2>3. CASE i - Len(p) \in 1 .. Len(q) /\ j - Len(p) \in 1 .. Len(q)
               /\ q[i - Len(p)] = q[j - Len(p)]
      <3>1. i - Len(p) = j - Len(p)
        BY <1>2, <1>6, <2>3 DEF NoRepeat
      <3> QED BY <1>1, <3>1
    <2> QED BY <2>1, <2>2, <2>3
  <1> QED BY <1>1, <1>2, <1>5, <1>6 DEF NoRepeat

\* What is left behind the place n.
LEMMA Rest ==
    \A n, k \in Nat : /\ n <= k => k - (n + 1) + 1 = k - n /\ (~(n + 1 <= k) => k - n = 0)
                      /\ (n + 1) + k - 1 = n + k
  OBVIOUS

\* A sequence cut in two.
LEMMA SplitSeq ==
    ASSUME NEW S, NEW q \in Seq(S), NEW n \in 0 .. Len(q)
    PROVE  LET a == SubSeq(q, 1, n)
               b == SubSeq(q, n + 1, Len(q))
           IN  /\ a \in Seq(S) /\ b \in Seq(S)
               /\ Len(a) = n /\ Len(b) = Len(q) - n
               /\ \A i \in 1 .. n : a[i] = q[i]
               /\ \A i \in 1 .. Len(q) - n : b[i] = q[n + i]
               /\ ToSet(q) = ToSet(a) \cup ToSet(b)
               /\ NoRepeat(q) => NoRepeat(a) /\ NoRepeat(b) /\ ToSet(a) \cap ToSet(b) = {}
  <1> DEFINE a == SubSeq(q, 1, n)
             b == SubSeq(q, n + 1, Len(q))
  <1>1. Len(q) \in Nat /\ n \in Nat /\ n <= Len(q) /\ DOMAIN q = 1 .. Len(q)
    OBVIOUS
  <1>2. a \in Seq(S) /\ Len(a) = n /\ \A i \in 1 .. n : a[i] = q[i]
    BY <1>1
  <1>3. b \in Seq(S) /\ Len(b) = Len(q) - n /\ \A i \in 1 .. Len(q) - n : b[i] = q[n + i]
    <2>1. \A i \in n + 1 .. Len(q) : q[i] \in S
      BY <1>1
    <2>2. /\ b \in Seq(S)
          /\ Len(b) = IF n + 1 <= Len(q) THEN Len(q) - (n + 1) + 1 ELSE 0
          /\ \A i \in 1 .. Len(q) - (n + 1) + 1 : b[i] = q[(n + 1) + i - 1]
      BY <1>1, <2>1, SubSeqProperties
    <2> HIDE DEF b
    <2>3. Len(q) - (n + 1) + 1 = Len(q) - n /\ (~(n + 1 <= Len(q)) => Len(q) - n = 0)
      BY <1>1, Rest, Zenon
    <2>4. Len(b) = Len(q) - n
      <3>1. Len(b) = Len(q) - (n + 1) + 1 \/ (~(n + 1 <= Len(q)) /\ Len(b) = 0)
        BY <2>2, Zenon
      <3> QED BY <2>3, <3>1, Zenon
    <2>5. ASSUME NEW i \in 1 .. Len(q) - n PROVE b[i] = q[n + i]
      <3>1. i \in Nat
        BY <1>1
      <3>2. (n + 1) + i - 1 = n + i
        BY <1>1, <3>1, Rest, Zenon
      <3>3. b[i] = q[(n + 1) + i - 1]
        BY <2>2, <2>3, Zenon
      <3> QED BY <3>2, <3>3, Zenon
    <2> QED BY <2>2, <2>4, <2>5, Zenon
  <1>4. DOMAIN a = 1 .. n /\ DOMAIN b = 1 .. Len(q) - n
    BY <1>2, <1>3
  <1> HIDE DEF a, b
  <1>5. ASSUME NEW x \in ToSet(q) PROVE x \in ToSet(a) \cup ToSet(b)
    <2>1. PICK i \in 1 .. Len(q) : x = q[i]
      BY <1>1 DEF ToSet
    <2>2. CASE i <= n
      <3>1. i \in 1 .. n /\ a[i] = x
        BY <1>1, <1>2, <2>1, <2>2
      <3> QED BY <1>4, <3>1 DEF ToSet
    <2>3. CASE i > n
      <3>1. i - n \in 1 .. Len(q) - n /\ b[i - n] = x
        BY <1>1, <1>3, <2>1, <2>3
      <3> QED BY <1>4, <3>1 DEF ToSet
    <2> QED BY <1>1, <2>2, <2>3
  <1>6. ToSet(q) = ToSet(a) \cup ToSet(b)
    <2>1. ASSUME NEW x \in ToSet(a) PROVE x \in ToSet(q)
      BY <1>1, <1>2, <1>4 DEF ToSet
    <2>2. ASSUME NEW x \in ToSet(b) PROVE x \in ToSet(q)
      <3>1. PICK i \in 1 .. Len(q) - n : x = b[i]
        BY <1>4 DEF ToSet
      <3>2. n + i \in 1 .. Len(q) /\ x = q[n + i]
        BY <1>1, <1>3, <3>1
      <3> QED BY <1>1, <3>2 DEF ToSet
    <2> QED BY <1>5, <2>1, <2>2
  <1>7. ASSUME NoRepeat(q) PROVE NoRepeat(a) /\ NoRepeat(b) /\ ToSet(a) \cap ToSet(b) = {}
    <2>1. NoRepeat(a)
      BY <1>1, <1>2, <1>4, <1>7 DEF NoRepeat
    <2>2. ASSUME NEW i \in 1 .. Len(q) - n, NEW j \in 1 .. Len(q) - n, b[i] = b[j] PROVE i = j
      <3>1. n + i \in 1 .. Len(q) /\ n + j \in 1 .. Len(q) /\ q[n + i] = q[n + j]
        BY <1>1, <1>3, <2>2
      <3>2. n + i = n + j
        BY <1>1, <1>7, <3>1 DEF NoRepeat
      <3> QED BY <1>1, <3>2
    <2>3. ASSUME NEW i \in 1 .. n, NEW j \in 1 .. Len(q) - n, a[i] = b[j] PROVE FALSE
      <3>1. i \in 1 .. Len(q) /\ n + j \in 1 .. Len(q) /\ q[i] = q[n + j]
        BY <1>1, <1>2, <1>3, <2>3
      <3>2. i = n + j
        BY <1>1, <1>7, <3>1 DEF NoRepeat
      <3> QED BY <1>1, <3>2
    <2> QED BY <1>4, <2>1, <2>2, <2>3 DEF NoRepeat, ToSet
  <1> QED BY <1>2, <1>3, <1>6, <1>7 DEF a, b

\* An element at the place i.
LEMMA InsertSeq ==
    ASSUME NEW S, NEW q \in Seq(S), NEW x \in S, NEW i \in 1 .. Len(q) + 1
    PROVE  /\ InsertAt(q, i, x) \in Seq(S) /\ Len(InsertAt(q, i, x)) = Len(q) + 1
           /\ \A j \in 1 .. Len(q) + 1 :
                 InsertAt(q, i, x)[j] = IF j < i THEN q[j] ELSE IF j = i THEN x ELSE q[j - 1]
           /\ ToSet(InsertAt(q, i, x)) = ToSet(q) \cup {x}
           /\ NoRepeat(q) /\ x \notin ToSet(q) => NoRepeat(InsertAt(q, i, x))
  <1> DEFINE r == InsertAt(q, i, x)
  <1>1. /\ r \in Seq(S) /\ Len(r) = Len(q) + 1 /\ Len(q) \in Nat
        /\ \A j \in 1 .. Len(q) + 1 : r[j] = IF j < i THEN q[j] ELSE IF j = i THEN x ELSE q[j - 1]
    <2> DEFINE a == SubSeq(q, 1, i - 1)
               b == SubSeq(q, i, Len(q))
    <2>1. Len(q) \in Nat /\ i \in 1 .. Len(q) + 1 /\ i - 1 \in 0 .. Len(q) /\ (i - 1) + 1 = i
      OBVIOUS
    <2>2. /\ a \in Seq(S) /\ Len(a) = i - 1 /\ \A j \in 1 .. i - 1 : a[j] = q[j]
          /\ b \in Seq(S) /\ Len(b) = Len(q) - (i - 1)
          /\ \A j \in 1 .. Len(q) - (i - 1) : b[j] = q[(i - 1) + j]
      BY <2>1, SplitSeq
    <2>3. r = a \o <<x>> \o b
      BY DEF InsertAt
    <2> HIDE DEF a, b, r
    <2>4. /\ a \o <<x>> \in Seq(S) /\ Len(a \o <<x>>) = i
          /\ \A j \in 1 .. i : (a \o <<x>>)[j] = IF j < i THEN q[j] ELSE x
      BY <2>1, <2>2
    <2>5. /\ r \in Seq(S) /\ Len(r) = i + (Len(q) - (i - 1))
          /\ \A j \in 1 .. i + (Len(q) - (i - 1)) :
                r[j] = IF j <= i THEN (a \o <<x>>)[j] ELSE b[j - i]
      BY <2>1, <2>2, <2>3, <2>4
    <2>6. ASSUME NEW j \in 1 .. Len(q) + 1
          PROVE  r[j] = IF j < i THEN q[j] ELSE IF j = i THEN x ELSE q[j - 1]
      <3>1. CASE j <= i
        BY <2>1, <2>4, <2>5, <3>1
      <3>2. CASE j > i
        <4>1. j - i \in 1 .. Len(q) - (i - 1) /\ (i - 1) + (j - i) = j - 1
          BY <2>1, <3>2
        <4>2. j \in 1 .. i + (Len(q) - (i - 1)) /\ ~(j <= i) /\ ~(j < i) /\ j # i
          BY <2>1, <3>2
        <4>3. r[j] = b[j - i]
          BY <2>5, <4>2
        <4>4. b[j - i] = q[(i - 1) + (j - i)]
          BY <2>2, <4>1
        <4> QED BY <4>1, <4>2, <4>3, <4>4
      <3> QED BY <2>1, <3>1, <3>2
    <2>7. i + (Len(q) - (i - 1)) = Len(q) + 1
      BY <2>1
    <2>8. r \in Seq(S) /\ Len(r) = Len(q) + 1
      BY <2>5, <2>7
    <2> QED BY <2>1, <2>6, <2>8
  <1>2. DOMAIN r = 1 .. Len(q) + 1 /\ DOMAIN q = 1 .. Len(q)
    BY <1>1
  <1> HIDE DEF r
  <1>3. ASSUME NEW j \in 1 .. Len(q) + 1
        PROVE  \/ j < i /\ j \in 1 .. Len(q) /\ r[j] = q[j] /\ r[j] \in ToSet(q)
               \/ j = i /\ r[j] = x
               \/ j > i /\ j - 1 \in 1 .. Len(q) /\ r[j] = q[j - 1] /\ r[j] \in ToSet(q)
    <2>1. i \in Nat /\ i <= Len(q) + 1 /\ j \in Nat
      BY <1>1
    <2>2. \A m \in 1 .. Len(q) : q[m] \in ToSet(q)
      BY <1>2 DEF ToSet
    <2>3. CASE j < i
      BY <1>1, <2>1, <2>2, <2>3
    <2>4. CASE j > i
      <3>1. j - 1 \in 1 .. Len(q)
        BY <1>1, <2>1, <2>4
      <3> QED BY <1>1, <2>1, <2>2, <2>4, <3>1
    <2> QED BY <1>1, <2>1, <2>3, <2>4
  <1>4. ASSUME NEW y \in ToSet(q) PROVE y \in ToSet(r)
    <2>1. PICK j \in 1 .. Len(q) : y = q[j]
      BY <1>2 DEF ToSet
    <2>2. \/ j \in 1 .. Len(q) + 1 /\ r[j] = y
          \/ j + 1 \in 1 .. Len(q) + 1 /\ r[j + 1] = y
      BY <1>1, <2>1
    <2> QED BY <1>2, <2>2 DEF ToSet
  <1>5. x \in ToSet(r)
    BY <1>1, <1>2 DEF ToSet
  <1>6. ToSet(r) = ToSet(q) \cup {x}
    <2>1. \A y \in ToSet(r) : y \in ToSet(q) \cup {x}
      BY <1>2, <1>3 DEF ToSet
    <2> QED BY <1>4, <1>5, <2>1
  <1>7. ASSUME NoRepeat(q), x \notin ToSet(q),
               NEW j \in 1 .. Len(q) + 1, NEW k \in 1 .. Len(q) + 1, r[j] = r[k]
        PROVE  j = k
    <2>1. \/ j = i /\ k = i
          \/ j < i /\ k < i /\ j \in 1 .. Len(q) /\ k \in 1 .. Len(q) /\ q[j] = q[k]
          \/ j < i /\ k > i /\ j \in 1 .. Len(q) /\ k - 1 \in 1 .. Len(q) /\ q[j] = q[k - 1]
          \/ j > i /\ k < i /\ j - 1 \in 1 .. Len(q) /\ k \in 1 .. Len(q) /\ q[j - 1] = q[k]
          \/ j > i /\ k > i /\ j - 1 \in 1 .. Len(q) /\ k - 1 \in 1 .. Len(q) /\ q[j - 1] = q[k - 1]
      BY <1>3, <1>7
    <2>2. \A m, n \in 1 .. Len(q) : q[m] = q[n] => m = n
      BY <1>2, <1>7 DEF NoRepeat
    <2>3. i \in Nat
      BY <1>1
    <2>4. \/ j = k \/ j - 1 = k - 1
          \/ j = k - 1 /\ j < i /\ k > i
          \/ j - 1 = k /\ j > i /\ k < i
      BY <2>1, <2>2
    <2> QED BY <1>1, <2>3, <2>4
  <1> QED BY <1>1, <1>2, <1>6, <1>7 DEF NoRepeat, r

\* A task leaves the sequence; what follows it moves up.
LEMMA WithoutSeq ==
    ASSUME NEW S, NEW q \in Seq(S), NEW x \in ToSet(q), NoRepeat(q)
    PROVE  /\ Without(q, x) \in Seq(S) /\ NoRepeat(Without(q, x))
           /\ ToSet(Without(q, x)) = ToSet(q) \ {x}
           /\ \A i, j \in DOMAIN Without(q, x) :
                 i < j => \E m, n \in DOMAIN q : /\ m < n /\ q[m] = Without(q, x)[i]
                                                 /\ q[n] = Without(q, x)[j]
  <1> DEFINE k == CHOOSE i \in DOMAIN q : q[i] = x
             r == Without(q, x)
  <1>0. Len(q) \in Nat /\ DOMAIN q = 1 .. Len(q)
    OBVIOUS
  <1>1. k \in 1 .. Len(q) /\ q[k] = x
    BY <1>0 DEF ToSet
  <1>2. /\ r \in Seq(S) /\ Len(r) = Len(q) - 1
        /\ \A j \in 1 .. Len(q) - 1 : r[j] = IF j < k THEN q[j] ELSE q[j + 1]
    <2>1. r = RemoveAt(q, k)
      BY DEF Without
    <2> DEFINE a == SubSeq(q, 1, k - 1)
               b == SubSeq(q, k + 1, Len(q))
    <2> HIDE DEF k, r
    <2>2. k \in Nat /\ k >= 1 /\ k <= Len(q) /\ k - 1 \in 0 .. Len(q) /\ k \in 0 .. Len(q)
      BY <1>0, <1>1
    <2>3. /\ a \in Seq(S) /\ Len(a) = k - 1 /\ \A j \in 1 .. k - 1 : a[j] = q[j]
          /\ b \in Seq(S) /\ Len(b) = Len(q) - k
          /\ \A j \in 1 .. Len(q) - k : b[j] = q[k + j]
      BY <2>2, SplitSeq
    <2>4. r = a \o b
      BY <2>1 DEF RemoveAt
    <2> HIDE DEF a, b
    <2>5. /\ r \in Seq(S) /\ Len(r) = (k - 1) + (Len(q) - k)
          /\ \A j \in 1 .. (k - 1) + (Len(q) - k) : r[j] = IF j <= k - 1 THEN a[j] ELSE b[j - (k - 1)]
      BY <1>0, <2>2, <2>3, <2>4
    <2>7. (k - 1) + (Len(q) - k) = Len(q) - 1
      BY <1>0, <2>2
    <2>6. ASSUME NEW j \in 1 .. Len(q) - 1 PROVE r[j] = IF j < k THEN q[j] ELSE q[j + 1]
      <3>0. r[j] = IF j <= k - 1 THEN a[j] ELSE b[j - (k - 1)]
        BY <2>5, <2>7
      <3>1. CASE j < k
        <4>1. j \in 1 .. k - 1
          BY <1>0, <2>2, <3>1
        <4> QED BY <2>2, <2>3, <3>0, <3>1, <4>1
      <3>2. CASE j >= k
        <4>1. j - (k - 1) \in 1 .. Len(q) - k /\ k + (j - (k - 1)) = j + 1
          BY <1>0, <2>2, <3>2
        <4>2. b[j - (k - 1)] = q[j + 1]
          BY <2>3, <4>1
        <4> QED BY <1>0, <2>2, <3>0, <3>2, <4>2
      <3> QED BY <1>0, <2>2, <3>1, <3>2
    <2> QED BY <1>0, <2>2, <2>5, <2>6, <2>7
  <1>3. DOMAIN r = 1 .. Len(q) - 1
    BY <1>0, <1>2
  <1> HIDE DEF k, r
  <1> DEFINE f(j) == IF j < k THEN j ELSE j + 1
  <1>4. \A j \in 1 .. Len(q) - 1 : f(j) \in (1 .. Len(q)) \ {k} /\ r[j] = q[f(j)]
    BY <1>0, <1>1, <1>2
  <1>5. \A i, j \in 1 .. Len(q) - 1 : i < j <=> f(i) < f(j)
    BY <1>0, <1>1
  <1>6. ASSUME NEW y \in ToSet(q), y # x PROVE y \in ToSet(r)
    <2>1. PICK j \in 1 .. Len(q) : y = q[j]
      BY <1>0 DEF ToSet
    <2>2. \/ j \in 1 .. Len(q) - 1 /\ r[j] = y
          \/ j - 1 \in 1 .. Len(q) - 1 /\ r[j - 1] = y
      BY <1>0, <1>1, <1>2, <1>6, <2>1
    <2> QED BY <1>3, <2>2 DEF ToSet
  <1>7. ASSUME NEW y \in ToSet(r) PROVE y \in ToSet(q) /\ y # x
    <2>1. PICK j \in 1 .. Len(q) - 1 : y = r[j]
      BY <1>3 DEF ToSet
    <2>2. f(j) \in (1 .. Len(q)) \ {k} /\ y = q[f(j)]
      BY <1>4, <2>1
    <2> QED BY <1>0, <1>1, <2>2 DEF ToSet, NoRepeat
  <1>8. ToSet(r) = ToSet(q) \ {x}
    BY <1>6, <1>7
  <1>9. ASSUME NEW i \in 1 .. Len(q) - 1, NEW j \in 1 .. Len(q) - 1, r[i] = r[j] PROVE i = j
    <2>1. f(i) = f(j)
      BY <1>0, <1>4, <1>9 DEF NoRepeat
    <2> QED BY <1>0, <1>1, <2>1
  <1>10. NoRepeat(r)
    BY <1>3, <1>9 DEF NoRepeat
  <1>11. ASSUME NEW i \in 1 .. Len(q) - 1, NEW j \in 1 .. Len(q) - 1, i < j
         PROVE  \E m, n \in DOMAIN q : m < n /\ q[m] = r[i] /\ q[n] = r[j]
    BY <1>0, <1>4, <1>5, <1>11
  <1>12. \A i, j \in DOMAIN r : i < j => \E m, n \in DOMAIN q : m < n /\ q[m] = r[i] /\ q[n] = r[j]
    BY <1>3, <1>11
  <1>13. r \in Seq(S)
    BY <1>2
  <1> QED BY <1>8, <1>10, <1>12, <1>13 DEF r

\* What goes to the workers, at its end and at its beginning.
LEMMA SentAppend ==
    ASSUME NEW S, NEW V, NEW q \in Seq([task : S, worker : V]), NEW x \in S, NEW w \in V
    PROVE  LET r == Append(q, [task |-> x, worker |-> w])
           IN  /\ r \in Seq([task : S, worker : V])
               /\ Sent(r) = Sent(q) \cup {x}
               /\ SentOnce(q) /\ x \notin Sent(q) => SentOnce(r)
  <1> DEFINE r == Append(q, [task |-> x, worker |-> w])
  <1>1. /\ Len(r) = Len(q) + 1 /\ Len(q) \in Nat /\ r \in Seq([task : S, worker : V])
        /\ \A i \in 1 .. Len(q) : r[i] = q[i]
        /\ r[Len(q) + 1].task = x
    OBVIOUS
  <1>2. DOMAIN r = 1 .. Len(q) + 1 /\ DOMAIN q = 1 .. Len(q)
        /\ 1 .. Len(q) + 1 = (1 .. Len(q)) \cup {Len(q) + 1}
    BY <1>1
  <1> HIDE DEF r
  <1>3. Sent(r) = Sent(q) \cup {x}
    BY <1>1, <1>2 DEF Sent
  <1>4. ASSUME SentOnce(q), x \notin Sent(q) PROVE SentOnce(r)
    BY <1>1, <1>2, <1>4 DEF Sent, SentOnce
  <1> QED BY <1>1, <1>3, <1>4 DEF r

LEMMA SentTail ==
    ASSUME NEW S, NEW V, NEW q \in Seq([task : S, worker : V]), q # <<>>
    PROVE  /\ Head(q) \in [task : S, worker : V] /\ Head(q).task \in Sent(q)
           /\ Tail(q) \in Seq([task : S, worker : V])
           /\ SentOnce(q) => SentOnce(Tail(q)) /\ Sent(Tail(q)) = Sent(q) \ {Head(q).task}
  <1> DEFINE R == [task : S, worker : V]
  <1> HIDE DEF R
  <1>0. q \in Seq(R)
    BY DEF R
  <1>1. /\ Len(q) \in Nat \ {0} /\ Len(Tail(q)) = Len(q) - 1 /\ Tail(q) \in Seq(R)
        /\ \A i \in 1 .. Len(q) - 1 : Tail(q)[i] = q[i + 1]
        /\ Head(q) = q[1] /\ Head(q) \in R
    BY <1>0
  <1>2. DOMAIN q = 1 .. Len(q) /\ DOMAIN Tail(q) = 1 .. Len(q) - 1
    BY <1>0, <1>1
  <1>3. ASSUME SentOnce(q) PROVE SentOnce(Tail(q))
    BY <1>1, <1>2, <1>3 DEF SentOnce
  <1>4. ASSUME SentOnce(q) PROVE Sent(Tail(q)) = Sent(q) \ {Head(q).task}
    <2>1. ASSUME NEW x \in Sent(Tail(q)) PROVE x \in Sent(q) /\ x # Head(q).task
      BY <1>1, <1>2, <1>4 DEF Sent, SentOnce
    <2>2. ASSUME NEW x \in Sent(q), x # Head(q).task PROVE x \in Sent(Tail(q))
      <3>1. PICK i \in 1 .. Len(q) : x = q[i].task
        BY <1>2 DEF Sent
      <3>2. i # 1
        BY <1>1, <2>2, <3>1
      <3>3. i - 1 \in 1 .. Len(q) - 1 /\ Tail(q)[i - 1].task = x
        BY <1>1, <3>1, <3>2
      <3> QED BY <1>2, <3>3 DEF Sent
    <2> QED BY <2>1, <2>2
  <1>5. Head(q).task \in Sent(q)
    BY <1>1, <1>2 DEF Sent
  <1> QED BY <1>1, <1>3, <1>4, <1>5 DEF R

-----------------------------------------------------------------------------
(* Threads, and the timed queue.                                           *)

LEMMA WhoIsWho ==
    ASSUME LoopTypes, Orderly
    PROVE  /\ Sched \in Executors /\ Sched \notin Users /\ Sched \notin AllWorkers
           /\ Nobody \notin Executors /\ Nobody \notin Tasks
           /\ Users \subseteq Executors /\ AllWorkers \subseteq Executors
           /\ \A u \in Users : u \notin AllWorkers
           /\ \A e \in Executors : e = Sched \/ e \in AllWorkers \/ e \in Users
           /\ W \subseteq AllWorkers /\ IsFiniteSet(W)
           /\ mode.delays \subseteq Int /\ mode.tasks \subseteq Tasks /\ mode.forces \in BOOLEAN
           /\ mode.cancels = "none" \/ (mode.cancels = "procs" /\ Alone)
  <1>1. mode \in Modes /\ ModeOK(mode) /\ \A m \in Modes : ModeOK(m)
    BY CalloutAssumption DEF LoopTypes
  <1>2. \A w \in AllWorkers : w # Sched /\ w # Nobody /\ w \notin Users
    BY <1>1 DEF AllWorkers, ModeOK
  <1>3. W \subseteq AllWorkers
    BY <1>1 DEF AllWorkers, W
  <1>4. /\ IsFiniteSet(W) /\ mode.delays \subseteq Int /\ mode.tasks \subseteq Tasks
        /\ mode.forces \in BOOLEAN
    BY <1>1 DEF ModeOK, W
  <1>5. mode.cancels = "none" \/ (mode.cancels = "procs" /\ Alone)
    BY <1>1 DEF Orderly, Alone, W
  <1>6. Sched \notin Users /\ Nobody \notin Users /\ Nobody \notin Tasks /\ Nobody # Sched
    BY CalloutAssumption
  <1> QED BY <1>2, <1>3, <1>4, <1>5, <1>6 DEF Executors

\* Some natural number of a set is the least.
LEMMA LeastNumber ==
    ASSUME NEW S, S \subseteq Nat, S # {}
    PROVE  \E m \in S : \A n \in S : m <= n
  <1> DEFINE R == OpToRel(<, Nat)
  <1>1. IsWellFoundedOn(R, Nat)
    BY NatLessThanWellFounded
  <1>2. \A m, n \in Nat : m < n => <<m, n>> \in R
    BY DEF OpToRel
  <1> HIDE DEF R
  <1>3. PICK m \in S : \A n \in S : ~(<<n, m>> \in R)
    BY <1>1, WFMin
  <1>4. \A n \in S : ~(n < m)
    BY <1>2, <1>3
  <1> QED BY <1>4

\* Where a task with its time belongs in the timed queue.
LEMMA PlaceSound ==
    ASSUME NEW q \in Seq(Tasks), TaskTypes, NEW time \in Int
    PROVE  /\ Place(q, time) \in 1 .. Len(q) + 1
           /\ \A i \in 1 .. Len(q) : i < Place(q, time) => task[q[i]].m_next_abstime <= time
           /\ Place(q, time) <= Len(q) => task[q[Place(q, time)]].m_next_abstime > time
  <1> DEFINE later == {i \in DOMAIN q : task[q[i]].m_next_abstime > time}
  <1>0. Len(q) \in Nat /\ DOMAIN q = 1 .. Len(q)
    OBVIOUS
  <1>t. \A i \in 1 .. Len(q) : task[q[i]].m_next_abstime \in Int
    BY <1>0 DEF TaskTypes, Records
  <1>1. CASE later = {}
    <2>1. Place(q, time) = Len(q) + 1
      BY <1>1 DEF Place
    <2> QED BY <1>0, <1>1, <1>t, <2>1
  <1>2. CASE later # {}
    <2>1. Place(q, time) = Min(later)
      BY <1>2 DEF Place
    <2>2. later \subseteq Nat
      BY <1>0
    <2>3. PICK m \in later : \A y \in later : m <= y
      BY <1>2, <2>2, LeastNumber
    <2>4. Min(later) \in later /\ \A y \in later : Min(later) <= y
      BY <2>3 DEF Min
    <2>5. Place(q, time) \in later /\ \A y \in later : Place(q, time) <= y
      BY <2>1, <2>4
    <2> DEFINE p == Place(q, time)
    <2>6. /\ p \in 1 .. Len(q) /\ task[q[p]].m_next_abstime > time
          /\ \A i \in 1 .. Len(q) : task[q[i]].m_next_abstime > time => p <= i
      BY <1>0, <2>5
    <2> HIDE DEF p
    <2>7. \A i \in 1 .. Len(q) : i < p => ~(task[q[i]].m_next_abstime > time)
      BY <1>0, <2>6
    <2> QED BY <1>0, <1>t, <2>6, <2>7 DEF p
  <1> QED BY <1>1, <1>2

Ordered(q) ==
    \A i, j \in DOMAIN q : i < j => task[q[i]].m_next_abstime <= task[q[j]].m_next_abstime

\* What is left of the timed queue keeps its order.
LEMMA StillOrdered ==
    ASSUME NEW q, NEW r, Ordered(q),
           \A i, j \in DOMAIN r : i < j => \E m, n \in DOMAIN q : m < n /\ q[m] = r[i] /\ q[n] = r[j],
           \A i \in DOMAIN q : task'[q[i]].m_next_abstime = task[q[i]].m_next_abstime
    PROVE  \A i, j \in DOMAIN r :
              i < j => task'[r[i]].m_next_abstime <= task'[r[j]].m_next_abstime
  <1> SUFFICES ASSUME NEW i \in DOMAIN r, NEW j \in DOMAIN r, i < j
               PROVE  task'[r[i]].m_next_abstime <= task'[r[j]].m_next_abstime
    OBVIOUS
  <1>1. PICK m \in DOMAIN q, n \in DOMAIN q : m < n /\ q[m] = r[i] /\ q[n] = r[j]
    OBVIOUS
  <1>2. task[q[m]].m_next_abstime <= task[q[n]].m_next_abstime
    BY <1>1 DEF Ordered
  <1> QED BY <1>1, <1>2

\* s_do_sched.
LEMMA DoSchedDoes ==
    ASSUME TaskTypes, QueueTypes, LoopTypes, Ordered(chrono_q), NoRepeat(chrono_q),
           NEW t \in Tasks, NEW r \in Records, t \notin ToSet(chrono_q), DoSched(t, r)
    PROVE  /\ chrono_q' \in Seq(Tasks) /\ NoRepeat(chrono_q')
           /\ ToSet(chrono_q') = ToSet(chrono_q) \cup {t}
           /\ \A i, j \in DOMAIN chrono_q' :
                 i < j => task'[chrono_q'[i]].m_next_abstime <= task'[chrono_q'[j]].m_next_abstime
           /\ table' = [table EXCEPT ![t] = "ENQUEUED"]
           /\ task' \in [Tasks -> Records]
           /\ \A s \in Tasks \ {t} : task'[s] = task[s]
           /\ task'[t].m_status = "ENQUEUED" /\ task'[t].m_is_in_timed_q
           /\ task'[t].m_exec_ref_count = r.m_exec_ref_count
           /\ task'[t].m_cancel_ref_count = r.m_cancel_ref_count
           /\ task'[t].m_is_first = r.m_is_first /\ task'[t].m_do_repeat = r.m_do_repeat
  <1> DEFINE first == ~(~r.m_is_first /\ r.m_do_repeat)
             last  == IF first THEN now ELSE r.m_last_abstime
             time  == last + (IF first THEN r.m_initial_delay_time ELSE r.m_interval_time)
             p     == Place(chrono_q, time)
             rec   == [r EXCEPT !.m_last_abstime = last, !.m_next_abstime = time,
                                !.m_status = "ENQUEUED", !.m_is_in_timed_q = TRUE]
  <1>1. last \in Int /\ time \in Int
    BY DEF LoopTypes, Records
  <1>h. time \in Int
    BY <1>1
  <1>2. rec \in Records
    <2> HIDE DEF last, time
    <2> QED BY <1>1 DEF Records, States
  <1>3. /\ chrono_q' = InsertAt(chrono_q, p, t) /\ table' = [table EXCEPT ![t] = "ENQUEUED"]
        /\ task' = [task EXCEPT ![t] = rec]
    BY DEF DoSched
  <1>4. /\ rec.m_status = "ENQUEUED" /\ rec.m_is_in_timed_q /\ rec.m_next_abstime = time
        /\ rec.m_exec_ref_count = r.m_exec_ref_count
        /\ rec.m_cancel_ref_count = r.m_cancel_ref_count
        /\ rec.m_is_first = r.m_is_first /\ rec.m_do_repeat = r.m_do_repeat
    <2> HIDE DEF last, time
    <2> QED BY DEF Records
  <1> HIDE DEF rec, time
  <1>5. /\ p \in 1 .. Len(chrono_q) + 1
        /\ \A i \in 1 .. Len(chrono_q) : i < p => task[chrono_q[i]].m_next_abstime <= time
        /\ p <= Len(chrono_q) => task[chrono_q[p]].m_next_abstime > time
    BY <1>1, PlaceSound DEF QueueTypes
  <1> HIDE DEF p
  <1>6. /\ chrono_q' \in Seq(Tasks) /\ Len(chrono_q') = Len(chrono_q) + 1
        /\ \A j \in 1 .. Len(chrono_q) + 1 :
              chrono_q'[j] = IF j < p THEN chrono_q[j] ELSE IF j = p THEN t ELSE chrono_q[j - 1]
        /\ ToSet(chrono_q') = ToSet(chrono_q) \cup {t} /\ NoRepeat(chrono_q')
    <2>1. chrono_q \in Seq(Tasks)
      BY DEF QueueTypes
    <2> QED BY <1>3, <1>5, <2>1, InsertSeq
  <1>7. /\ task' \in [Tasks -> Records] /\ task'[t] = rec
        /\ \A s \in Tasks \ {t} : task'[s] = task[s]
    BY <1>2, <1>3 DEF TaskTypes
  <1>8. ASSUME NEW i \in DOMAIN chrono_q', NEW j \in DOMAIN chrono_q', i < j
        PROVE  task'[chrono_q'[i]].m_next_abstime <= task'[chrono_q'[j]].m_next_abstime
    <2>0. /\ Len(chrono_q) \in Nat /\ DOMAIN chrono_q = 1 .. Len(chrono_q)
          /\ i \in 1 .. Len(chrono_q) + 1 /\ j \in 1 .. Len(chrono_q) + 1 /\ p \in Nat
      BY <1>5, <1>6 DEF QueueTypes
    <2>1. ASSUME NEW m \in 1 .. Len(chrono_q)
          PROVE  /\ chrono_q[m] \in Tasks \ {t} /\ task'[chrono_q[m]] = task[chrono_q[m]]
                 /\ task[chrono_q[m]].m_next_abstime \in Int
      <3>1. chrono_q[m] \in Tasks /\ chrono_q[m] \in ToSet(chrono_q)
        <4>1. chrono_q[m] \in Tasks
          BY <2>0 DEF QueueTypes
        <4> QED BY <2>0, <4>1 DEF ToSet
      <3>2. task[chrono_q[m]] \in Records
        BY <3>1 DEF TaskTypes
      <3> QED BY <1>7, <3>1, <3>2 DEF Records
    <2>2. ASSUME NEW m \in 1 .. Len(chrono_q), NEW n \in 1 .. Len(chrono_q), m <= n
          PROVE  task[chrono_q[m]].m_next_abstime <= task[chrono_q[n]].m_next_abstime
      <3>1. CASE m = n
        <4>1. task[chrono_q[m]].m_next_abstime \in Int
          BY <2>1
        <4> QED BY <3>1, <4>1
      <3>2. CASE m < n
        BY <2>0, <3>2 DEF Ordered
      <3> QED BY <2>2, <3>1, <3>2
    <2>3. CASE j < p
      <3>1. /\ i \in 1 .. Len(chrono_q) /\ chrono_q'[i] = chrono_q[i]
            /\ j \in 1 .. Len(chrono_q) /\ chrono_q'[j] = chrono_q[j] /\ i <= j
        BY <1>5, <1>6, <1>8, <2>0, <2>3
      <3> QED BY <2>1, <2>2, <3>1
    <2>4. CASE j = p
      <3>1. i \in 1 .. Len(chrono_q) /\ chrono_q'[i] = chrono_q[i] /\ chrono_q'[j] = t
        BY <1>6, <1>8, <2>0, <2>4
      <3>2. task[chrono_q[i]].m_next_abstime <= time
        BY <1>5, <1>8, <2>4, <3>1
      <3> QED BY <1>4, <1>7, <2>1, <3>1, <3>2
    <2>5. CASE j > p /\ i < p
      <3>1. /\ i \in 1 .. Len(chrono_q) /\ chrono_q'[i] = chrono_q[i]
            /\ j - 1 \in 1 .. Len(chrono_q) /\ chrono_q'[j] = chrono_q[j - 1] /\ i <= j - 1
        BY <1>6, <1>8, <2>0, <2>5
      <3> QED BY <2>1, <2>2, <3>1
    <2>6. CASE j > p /\ i = p
      <3>1. /\ chrono_q'[i] = t /\ p \in 1 .. Len(chrono_q)
            /\ j - 1 \in 1 .. Len(chrono_q) /\ chrono_q'[j] = chrono_q[j - 1] /\ p <= j - 1
        BY <1>6, <1>8, <2>0, <2>6
      <3>2. task[chrono_q[p]].m_next_abstime > time
        BY <1>5, <3>1
      <3>3. task[chrono_q[p]].m_next_abstime <= task[chrono_q[j - 1]].m_next_abstime
        BY <2>2, <3>1
      <3>4. time <= task[chrono_q[j - 1]].m_next_abstime
        BY <1>h, <2>1, <3>1, <3>2, <3>3
      <3> QED BY <1>4, <1>7, <2>1, <3>1, <3>4
    <2>7. CASE j > p /\ i > p
      <3>1. /\ i - 1 \in 1 .. Len(chrono_q) /\ chrono_q'[i] = chrono_q[i - 1]
            /\ j - 1 \in 1 .. Len(chrono_q) /\ chrono_q'[j] = chrono_q[j - 1] /\ i - 1 <= j - 1
        <4>1. i - 1 \in 1 .. Len(chrono_q) /\ j - 1 \in 1 .. Len(chrono_q) /\ i - 1 <= j - 1
          BY <1>5, <1>8, <2>0, <2>7
        <4>2. ~(i < p) /\ ~(i = p) /\ ~(j < p) /\ ~(j = p)
          BY <2>0, <2>7
        <4> QED BY <1>6, <2>0, <4>1, <4>2
      <3> QED BY <2>1, <2>2, <3>1
    <2> QED BY <2>0, <2>3, <2>4, <2>5, <2>6, <2>7
  <1> QED BY <1>3, <1>4, <1>6, <1>7, <1>8

-----------------------------------------------------------------------------
(* Steps that do not concern a thread, or a task.                          *)

\* The thread e is where it was.
SameThread(e) ==
    /\ exec'[e] = exec[e] /\ canc'[e] = canc[e] /\ dest'[e] = dest[e]
    /\ todo'[e] = todo[e] /\ out'[e] = out[e]

\* A thread that a step does not concern remains sound.
LEMMA ThreadFrame ==
    ASSUME NEW e \in Executors, ThreadSound(e), SameThread(e), mode' = mode,
           e = Sched => spc' = spc,
           e \in AllWorkers => wpc'[e] = wpc[e],
           e \in Users => upc'[e] = upc[e]
    PROVE  ThreadSound(e)'
  <1>1. Away(e)' <=> Away(e)
    BY DEF Away
  <1>2. Alone' <=> Alone
    BY DEF Alone, W
  <1> QED BY <1>1, <1>2 DEF ThreadSound, SameThread

\* The queues that the task t is in are those it was in.
SameQueues(t) ==
    /\ t \in ToSet(urgent_q)' <=> t \in ToSet(urgent_q)
    /\ t \in ToSet(idle_q)' <=> t \in ToSet(idle_q)
    /\ t \in ToSet(chrono_q)' <=> t \in ToSet(chrono_q)
    /\ \A w \in AllWorkers : t \in ToSet(wq[w])' <=> t \in ToSet(wq[w])
    /\ \A e \in Executors : /\ t \in ToSet(todo[e])' <=> t \in ToSet(todo[e])
                            /\ t \in Sent(out[e])' <=> t \in Sent(out[e])

\* The threads that handle it do so as before.
SameLayers(t) ==
    \A e \in Executors : /\ t = exec[e].task \/ t = exec'[e].task => exec'[e] = exec[e]
                         /\ t = canc[e].task \/ t = canc'[e].task => canc'[e] = canc[e]
                         /\ t = dest[e].task \/ t = dest'[e].task => dest'[e] = dest[e]

SameRecord(t) ==
    /\ St(t)' = St(t) /\ InQ(t)' = InQ(t) /\ Ref(t)' = Ref(t)
    /\ task'[t].m_cancel_ref_count = task[t].m_cancel_ref_count
    /\ task'[t].m_is_first = task[t].m_is_first
    /\ task[t].m_do_repeat => task'[t].m_do_repeat
    /\ table'[t] = table[t]
    /\ t \in freed' <=> t \in freed
    /\ t \in canceled' <=> t \in canceled

Same(t) == SameQueues(t) /\ SameLayers(t) /\ SameRecord(t)

\* The hands that have it are those that had it.
SameHands(t) ==
    /\ SameQueues(t)
    /\ \A e \in Executors : /\ (t = exec[e].task /\ Main(exec[e]))' <=> t = exec[e].task /\ Main(exec[e])
                            /\ t = dest'[e].task <=> t = dest[e].task

\* A task stays where it is.
LEMMA HandsFrame ==
    ASSUME NEW t \in Tasks, SameHands(t)
    PROVE  /\ \A k \in Kinds, e \in Places : InHand(t, k, e)' <=> InHand(t, k, e)
           /\ Handed(t)' <=> Handed(t)
           /\ Apart(t) => Apart(t)'
  <1>1. \A k \in Kinds, e \in Places : InHand(t, k, e)' <=> InHand(t, k, e)
    BY DEF InHand, SameHands, SameQueues
  <1>2. Handed(t)' <=> Handed(t)
    BY <1>1 DEF Handed
  <1>3. Apart(t) => Apart(t)'
    BY <1>1 DEF Apart
  <1> QED BY <1>1, <1>2, <1>3

\* Only cancellers go on with the task.
Overlooked(t) ==
    \A e \in Executors : /\ t = exec[e].task \/ t = exec'[e].task => exec'[e] = exec[e]
                         /\ t = dest[e].task \/ t = dest'[e].task => dest'[e] = dest[e]

\* A task of which only the canceller changes.
LEMMA CancFrame ==
    ASSUME NEW t \in Tasks, TaskSound(t), SameQueues(t), Overlooked(t), SameRecord(t), mode' = mode,
           CancelSound(t)',
           \A e \in Executors : t = canc'[e].task =>
              /\ t \notin freed
              /\ St(t) \in {"UNKNOWN", "CREATED"} => canc'[e].at = "count" /\ canc'[e].seen = "CREATED"
    PROVE  TaskSound(t)'
  <1>1. SameHands(t)
    BY DEF SameHands, Overlooked, Main
  <1>2. Handed(t)' <=> Handed(t)
    BY <1>1, HandsFrame
  <1>3. Apart(t)'
    BY <1>1, HandsFrame DEF TaskSound
  <1>a. /\ TaskSound(t) /\ SameQueues(t) /\ Overlooked(t) /\ SameRecord(t)
        /\ Alone' <=> Alone
    BY DEF Alone, W
  <1>4. SoleExec(t)' /\ SoleDest(t)'
    BY <1>a DEF SoleExec, SoleDest, TaskSound, Overlooked, SameQueues, Sole, Main
  <1>5. Stated(t)'
    <2>0. \A S : Both(t, S)' <=> Both(t, S)
      BY <1>a DEF Both, SameRecord
    <2>s. Stated(t)
      BY <1>a DEF TaskSound
    <2>1. /\ (t \in ToSet(urgent_q) \cup ToSet(idle_q) => Both(t, {"ENQUEUED", "CANCELLED"}))'
          /\ (t \in ToSet(chrono_q) => Both(t, {"ENQUEUED"}))'
      BY <1>a, <2>0, <2>s DEF Stated, SameQueues
    <2>2. \A w \in AllWorkers : (t \in ToSet(wq[w]) \cup ToSet(todo[w]) => Both(t, {"DEQUEUED", "CANCELLED"}))'
      <3>1. AllWorkers \subseteq Executors
        BY DEF Executors
      <3> QED BY <1>a, <2>0, <2>s, <3>1 DEF Stated, SameQueues
    <2>3. \A e \in Executors :
            /\ (t \in ToSet(todo[e]) => Both(t, {"ENQUEUED", "DEQUEUED", "CANCELLED"}))'
            /\ (t \in Sent(out[e]) => Both(t, {"DEQUEUED", "CANCELLED"}))'
      BY <1>a, <2>0, <2>s DEF Stated, SameQueues
    <2>4. \A e \in Executors : t = exec'[e].task => exec'[e] = exec[e]
      BY <1>a DEF Overlooked
    <2>5. \A e \in Executors : t = exec'[e].task =>
            /\ (Main(exec[e]) => table[t] = St(t))'
            /\ (exec[e].at = "begin" => Both(t, {"DEQUEUED", "CANCELLED"}))'
            /\ (exec[e].at \in {"count", "lock"} => Both(t, {"DEQUEUED"}))'
            /\ (exec[e].at = "illegal" => Both(t, {"CANCELLED"}))'
            /\ (exec[e].at \in {"running", "resched"} => Both(t, {"EXECUTING"}))'
      BY <1>a, <2>0, <2>s, <2>4 DEF Stated, SameRecord, Main
    <2>6. \A e \in Executors : t = exec'[e].task =>
            (exec[e].at = "resched" => task[t].m_do_repeat)'
      BY <1>a, <2>s, <2>4 DEF Stated, SameRecord
    <2>7. \A e \in Executors : t = dest'[e].task => (dest[e].at = "delete" => table[t] = "CANCELLED")'
      BY <1>a, <2>s DEF Stated, Overlooked, SameRecord
    <2> QED BY <2>1, <2>2, <2>3, <2>5, <2>6, <2>7 DEF Stated
  <1>6. Agreed(t)'
    BY <1>a DEF Agreed, TaskSound, SameQueues, SameRecord
  <1>7. FreshSound(t)'
    <2>1. FreshSound(t)
      BY <1>a DEF TaskSound
    <2>2. SUFFICES ASSUME St(t)' \in {"UNKNOWN", "CREATED"}
                   PROVE  /\ table'[t] = St(t)' /\ Ref(t)' = 0 /\ task'[t].m_is_first
                          /\ ~Handed(t)'
                          /\ \A e \in Executors :
                                /\ t # exec'[e].task /\ t # dest'[e].task
                                /\ t = canc'[e].task => canc'[e].at = "count" /\ canc'[e].seen = "CREATED"
      BY DEF FreshSound
    <2>3. St(t) \in {"UNKNOWN", "CREATED"}
      BY <1>a, <2>2 DEF SameRecord
    <2>4. /\ table'[t] = St(t)' /\ Ref(t)' = 0 /\ task'[t].m_is_first /\ ~Handed(t)'
      BY <1>a, <1>2, <2>1, <2>3 DEF FreshSound, SameRecord
    <2>5. \A e \in Executors :
             /\ t # exec'[e].task /\ t # dest'[e].task
             /\ t = canc'[e].task => canc'[e].at = "count" /\ canc'[e].seen = "CREATED"
      BY <1>a, <2>1, <2>3 DEF FreshSound, Overlooked
    <2> QED BY <2>4, <2>5
  <1>8. CancelSound(t)'
    OBVIOUS
  <1>9. CountSound(t)'
    <2>1. Counted(t)' = Counted(t)
      BY <1>a DEF Counted, Overlooked
    <2> QED BY <1>a, <2>1 DEF CountSound, TaskSound, SameRecord
  <1>10. FreedSound(t)' /\ CanceledSound(t)'
    <2>1. FreedSound(t)'
      BY <1>a, <1>2 DEF FreedSound, TaskSound, SameRecord, Overlooked
    <2>2. CanceledSound(t)'
      BY <1>a DEF CanceledSound, TaskSound, SameRecord, Overlooked, Both
    <2> QED BY <2>1, <2>2
  <1>11. Kept(t)' /\ OneShot(t)'
    BY <1>a, <1>2 DEF Kept, OneShot, TaskSound, SameRecord
  <1> QED BY <1>3, <1>4, <1>5, <1>6, <1>7, <1>8, <1>9, <1>10, <1>11 DEF TaskSound

\* A task that a step does not concern remains sound.
LEMMA TaskFrame ==
    ASSUME NEW t \in Tasks, TaskSound(t), Same(t), mode' = mode
    PROVE  TaskSound(t)'
  <1>1. SameQueues(t) /\ Overlooked(t) /\ SameRecord(t)
    BY DEF Same, SameLayers, Overlooked
  <1>2. CancelSound(t)'
    BY DEF CancelSound, TaskSound, Same, SameQueues, SameLayers
  <1>3. \A e \in Executors : t = canc'[e].task =>
           /\ t \notin freed
           /\ St(t) \in {"UNKNOWN", "CREATED"} => canc'[e].at = "count" /\ canc'[e].seen = "CREATED"
    BY DEF TaskSound, FreshSound, FreedSound, Same, SameLayers
  <1> QED BY <1>1, <1>2, <1>3, CancFrame

\* A task in one hand is in no other.
LEMMA OneHand ==
    ASSUME NEW t \in Tasks, Apart(t), NEW k \in Kinds, NEW e \in Places, InHand(t, k, e)
    PROVE  \A l \in Kinds, d \in Places : InHand(t, l, d) => l = k /\ d = e
  BY DEF Apart

\* What it means that a task is in the hand k of e alone.
OnlyIn(t, k, e) ==
    /\ t \in ToSet(urgent_q) => k = "urgent"
    /\ t \in ToSet(idle_q) => k = "idle"
    /\ t \in ToSet(chrono_q) => k = "timed"
    /\ \A w \in AllWorkers : t \in ToSet(wq[w]) => k = "wq" /\ w = e
    /\ \A d \in Executors :
          /\ t \in ToSet(todo[d]) => k = "todo" /\ d = e
          /\ t \in Sent(out[d]) => k = "out" /\ d = e
          /\ t = exec[d].task /\ Main(exec[d]) => k = "exec" /\ d = e
          /\ t = dest[d].task => \/ k = "dest" /\ d = e
                                 \/ t \in ToSet(chrono_q)

\* Where a task is, it is in no other hand.
LEMMA OnlyInHand ==
    ASSUME NEW t \in Tasks, Apart(t), NEW k \in Kinds, NEW e \in Places, InHand(t, k, e),
           Nobody \notin Executors, AllWorkers \subseteq Executors
    PROVE  OnlyIn(t, k, e)
  <1>1. \A l \in Kinds, d \in Places : InHand(t, l, d) => l = k /\ d = e
    BY OneHand
  <1>2. /\ InHand(t, "urgent", Nobody) => k = "urgent"
        /\ InHand(t, "idle", Nobody) => k = "idle"
        /\ InHand(t, "timed", Nobody) => k = "timed"
    BY <1>1 DEF Kinds, Places
  <1>3. \A d \in Executors : /\ InHand(t, "wq", d) => k = "wq" /\ d = e
                             /\ InHand(t, "todo", d) => k = "todo" /\ d = e
                             /\ InHand(t, "out", d) => k = "out" /\ d = e
                             /\ InHand(t, "exec", d) => k = "exec" /\ d = e
                             /\ InHand(t, "dest", d) => k = "dest" /\ d = e
    BY <1>1 DEF Kinds, Places
  <1>4. /\ t \in ToSet(urgent_q) => InHand(t, "urgent", Nobody)
        /\ t \in ToSet(idle_q) => InHand(t, "idle", Nobody)
        /\ t \in ToSet(chrono_q) => InHand(t, "timed", Nobody)
        /\ \A d \in AllWorkers : t \in ToSet(wq[d]) => InHand(t, "wq", d)
    BY DEF InHand
  <1>5. \A d \in Executors : /\ t \in ToSet(todo[d]) => InHand(t, "todo", d)
                             /\ t \in Sent(out[d]) => InHand(t, "out", d)
                             /\ t = exec[d].task /\ Main(exec[d]) => InHand(t, "exec", d)
                             /\ t = dest[d].task => InHand(t, "dest", d) \/ t \in ToSet(chrono_q)
    BY DEF InHand
  <1> QED BY <1>2, <1>3, <1>4, <1>5 DEF OnlyIn

\* The other way round, in the next state.
LEMMA ApartAgain ==
    ASSUME NEW t \in Tasks, NEW k \in Kinds, NEW e \in Places, OnlyIn(t, k, e)',
           k \in {"urgent", "idle", "timed"} <=> e = Nobody
    PROVE  Apart(t)'
  <1>1. \A l \in Kinds, d \in Places : InHand(t, l, d)' => l = k /\ d = e
    BY DEF OnlyIn, InHand
  <1> QED BY <1>1 DEF Apart

\* A task that is in no hand.
LEMMA NoHand ==
    ASSUME NEW t \in Tasks, ~Handed(t), Nobody \notin Executors, AllWorkers \subseteq Executors
    PROVE  /\ t \notin ToSet(urgent_q) /\ t \notin ToSet(idle_q) /\ t \notin ToSet(chrono_q)
           /\ \A w \in AllWorkers : t \notin ToSet(wq[w])
           /\ \A e \in Executors : /\ t \notin ToSet(todo[e]) /\ t \notin Sent(out[e])
                                   /\ ~(t = exec[e].task /\ Main(exec[e])) /\ t # dest[e].task
  <1>1. \A k \in Kinds, e \in Places : ~InHand(t, k, e)
    BY DEF Handed
  <1>2. ~InHand(t, "urgent", Nobody) /\ ~InHand(t, "idle", Nobody) /\ ~InHand(t, "timed", Nobody)
    BY <1>1 DEF Kinds, Places
  <1>3. \A e \in Executors : /\ ~InHand(t, "wq", e) /\ ~InHand(t, "todo", e) /\ ~InHand(t, "out", e)
                             /\ ~InHand(t, "exec", e) /\ ~InHand(t, "dest", e)
    BY <1>1 DEF Kinds, Places
  <1>4. t \notin ToSet(urgent_q) /\ t \notin ToSet(idle_q) /\ t \notin ToSet(chrono_q)
    BY <1>2 DEF InHand
  <1>5. \A w \in AllWorkers : t \notin ToSet(wq[w])
    BY <1>3 DEF InHand
  <1>6. \A e \in Executors : /\ t \notin ToSet(todo[e]) /\ t \notin Sent(out[e])
                             /\ ~(t = exec[e].task /\ Main(exec[e])) /\ t # dest[e].task
    BY <1>3, <1>4 DEF InHand
  <1> QED BY <1>4, <1>5, <1>6

\* The parts of the invariant, put together.
LEMMA Assembled ==
    ASSUME IInv, mode' = mode,
           TypeOK', LoopSound', StageSound', Emptied', Submits', QueuesSound',
           \A e \in Executors : ThreadSound(e)',
           \A t \in Tasks : Same(t) \/ TaskSound(t)'
    PROVE  IInv'
  <1>1. \A t \in Tasks : TaskSound(t)'
    BY TaskFrame DEF IInv
  <1>2. Executors' = Executors
    BY DEF Executors, AllWorkers
  <1> QED BY <1>1, <1>2 DEF IInv

-----------------------------------------------------------------------------
(* Steps that leave the main loop, the stage and the users where they are. *)

Still == UNCHANGED <<mode, s_is_stopped, s_do_loop, spc, upc, uarg, stage, gave_up, wpc>>
QueuesStay == UNCHANGED <<urgent_q, idle_q, chrono_q, wq, last_q, todo, out>>

\* The main loop, the stage and the users, where none of them moves.
LEMMA ControlFrame ==
    ASSUME LoopSound, StageSound, Still
    PROVE  LoopSound' /\ StageSound'
  <1>1. LoopSound'
    BY DEF LoopSound, Still
  <1>2. StageSound'
    BY DEF StageSound, Still, W
  <1> QED BY <1>1, <1>2

\* A queue that was emptied is not filled again.
LEMMA EmptiedFrame ==
    ASSUME Emptied, UNCHANGED <<upc, gave_up, mode>>,
           \A w \in AllWorkers : wq[w] = <<>> => wq'[w] = <<>>,
           chrono_q = <<>> => chrono_q' = <<>>,
           urgent_q = <<>> => urgent_q' = <<>>, idle_q = <<>> => idle_q' = <<>>
    PROVE  Emptied'
  <1>1. \A u \in Users : \A S : Past(u, S)' <=> Past(u, S)
    BY DEF Past
  <1> QED BY <1>1 DEF Emptied, W

\* Nor is one filled if nobody has emptied it.
LEMMA FilledFrame ==
    ASSUME \A w \in AllWorkers \ W : wq[w] = <<>> /\ wq'[w] = <<>>, mode' = mode,
           \A u \in Users : ~Past(u, Clearing)'
    PROVE  Emptied'
  BY DEF Emptied, Past, Clearing, W

LEMMA SubmitsFrame ==
    ASSUME Submits, UNCHANGED <<upc, uarg>>,
           \A t \in Tasks : St(t) = "CREATED" => St(t)' = "CREATED"
    PROVE  Submits'
  BY DEF Submits, St

\* The queues, where no task enters or leaves one.
LEMMA QueuesFrame ==
    ASSUME QueuesSound, QueueTypes, QueuesStay,
           \A t \in Tasks : task'[t].m_next_abstime = task[t].m_next_abstime
    PROVE  QueuesSound'
  <1>1. \A i \in DOMAIN chrono_q : chrono_q[i] \in Tasks
    BY DEF QueueTypes
  <1>2. \A i \in DOMAIN chrono_q :
           task'[chrono_q[i]].m_next_abstime = task[chrono_q[i]].m_next_abstime
    BY <1>1
  <1> QED BY <1>2 DEF QueuesSound, QueuesStay

\* The layers of th alone change, and they are about the task t.
LEMMA LayerStep ==
    ASSUME IInv, Orderly, NEW th \in Executors, NEW t \in Tasks,
           Still, QueuesStay, now' = now, start_time' = start_time,
           glock' \in Executors \cup {Nobody}, TaskTypes', LayerTypes',
           \A e \in Executors \ {th} : exec'[e] = exec[e] /\ canc'[e] = canc[e] /\ dest'[e] = dest[e],
           \A s \in Tasks \ {t} : SameLayers(s) /\ SameRecord(s),
           \A s \in Tasks : task'[s].m_next_abstime = task[s].m_next_abstime,
           St(t) = "CREATED" => St(t)' = "CREATED",
           ThreadSound(th)', TaskSound(t)'
    PROVE  IInv'
  <1>1. TypeOK'
    BY DEF IInv, TypeOK, QueueTypes, LoopTypes, UserTypes, Still, QueuesStay, W
  <1>2. LoopSound' /\ StageSound'
    BY ControlFrame DEF IInv
  <1>3. Emptied'
    BY EmptiedFrame DEF IInv, Still, QueuesStay
  <1>4. Submits'
    <2>1. \A s \in Tasks : St(s) = "CREATED" => St(s)' = "CREATED"
      BY DEF SameRecord
    <2> QED BY <2>1, SubmitsFrame DEF IInv, Still
  <1>5. QueuesSound'
    BY QueuesFrame DEF IInv, TypeOK
  <1>6. ASSUME NEW e \in Executors PROVE ThreadSound(e)'
    <2>1. CASE e # th
      BY <2>1, ThreadFrame DEF IInv, SameThread, Still, QueuesStay
    <2> QED BY <2>1
  <1>7. \A s \in Tasks : Same(s) \/ TaskSound(s)'
    BY DEF Same, SameQueues, QueuesStay
  <1> QED BY <1>1, <1>2, <1>3, <1>4, <1>5, <1>6, <1>7, Assembled DEF Still

\* One layer of one thread changes.
LEMMA ExecChanges ==
    ASSUME LayerTypes, NEW th \in Executors, NEW x \in ExecRecords,
           x.at = "none" <=> x.task = Nobody,
           exec' = [exec EXCEPT ![th] = x], UNCHANGED <<canc, dest>>
    PROVE  /\ LayerTypes' /\ exec'[th] = x /\ canc'[th] = canc[th] /\ dest'[th] = dest[th]
           /\ \A e \in Executors \ {th} :
                 exec'[e] = exec[e] /\ canc'[e] = canc[e] /\ dest'[e] = dest[e]
  BY DEF LayerTypes

LEMMA CancChanges ==
    ASSUME LayerTypes, NEW th \in Executors, NEW x \in CancRecords,
           x.at = "none" <=> x.task = Nobody,
           canc' = [canc EXCEPT ![th] = x], UNCHANGED <<exec, dest>>
    PROVE  /\ LayerTypes' /\ canc'[th] = x /\ exec'[th] = exec[th] /\ dest'[th] = dest[th]
           /\ \A e \in Executors \ {th} :
                 exec'[e] = exec[e] /\ canc'[e] = canc[e] /\ dest'[e] = dest[e]
  BY DEF LayerTypes

LEMMA DestChanges ==
    ASSUME LayerTypes, NEW th \in Executors, NEW x \in DestRecords,
           x.at = "none" <=> x.task = Nobody,
           dest' = [dest EXCEPT ![th] = x], UNCHANGED <<exec, canc>>
    PROVE  /\ LayerTypes' /\ dest'[th] = x /\ exec'[th] = exec[th] /\ canc'[th] = canc[th]
           /\ \A e \in Executors \ {th} :
                 exec'[e] = exec[e] /\ canc'[e] = canc[e] /\ dest'[e] = dest[e]
  BY DEF LayerTypes

-----------------------------------------------------------------------------
(* Who is where.                                                           *)

\* Only the main loop's procedures cancel tasks.
LEMMA WhoCancels ==
    ASSUME IInv, Orderly, NEW e \in Executors, canc[e].at # "none" \/ canc[e].task # Nobody
    PROVE  /\ e = Sched /\ mode.cancels = "procs" /\ Alone /\ spc = "run"
           /\ canc[e].at # "none" /\ exec[e].at = "running" /\ dest[e].at = "none"
           /\ canc[e].task \in Tasks /\ canc[e].task # exec[e].task
  <1>1. /\ LoopTypes /\ ThreadSound(e) /\ canc[e].at # "none" /\ canc[e].task \in Tasks
    BY DEF IInv, TypeOK, LayerTypes, CancRecords
  <1>2. /\ e = Sched /\ mode.cancels = "procs" /\ exec[e].at = "running"
        /\ dest[e].at = "none" /\ canc[e].task # exec[e].task
    BY <1>1 DEF ThreadSound
  <1>3. Alone
    BY <1>1, <1>2, WhoIsWho
  <1>4. ~Away(e)
    BY <1>1 DEF ThreadSound
  <1> QED BY <1>1, <1>2, <1>3, <1>4 DEF Away

\* Whoever handles a task, nobody clears the queues.
LEMMA NobodyClears ==
    ASSUME IInv, OneUser, Orderly, NEW e \in Executors, ~Away(e)
    PROVE  \A u \in Users : ~Past(u, Clearing)
  <1> SUFFICES ASSUME NEW u \in Users, Past(u, Clearing)
               PROVE  FALSE
    OBVIOUS
  <1>0. LoopTypes /\ LoopSound /\ StageSound
    BY DEF IInv, TypeOK
  <1>1. /\ upc[u] \in Clearing \cup {"finalized"}
        /\ upc[u] \in Clearing \/ (upc[u] = "finalized" /\ ~gave_up)
    BY DEF Past
  <1>2. e # Sched
    BY <1>0, <1>1 DEF LoopSound, Resting, Away
  <1>3. e \notin Users
    BY <1>1 DEF OneUser, Away, Clearing
  <1>4. e \in AllWorkers
    BY <1>2, <1>3 DEF Executors
  <1>5. wpc[e] \in {"over", "off"}
    BY <1>0, <1>1, <1>4 DEF StageSound
  <1> QED BY <1>4, <1>5 DEF Away

\* Whoever clears them, nobody handles a task.
LEMMA ClearingAlone ==
    ASSUME IInv, OneUser, Orderly, NEW u \in Users, Past(u, Clearing)
    PROVE  /\ spc \in Resting
           /\ \A e \in Executors :
                 /\ exec[e].at = "none" /\ exec[e].task = Nobody
                 /\ canc[e].at = "none" /\ canc[e].task = Nobody
                 /\ todo[e] = <<>> /\ out[e] = <<>>
                 /\ e # u => dest[e].at = "none" /\ dest[e].task = Nobody
  <1>0. LoopTypes /\ LoopSound /\ StageSound /\ LayerTypes
    BY DEF IInv, TypeOK
  <1>1. spc \in Resting
    BY <1>0 DEF LoopSound, Past
  <1>2. ASSUME NEW e \in Executors
        PROVE  Away(e) /\ ~(e = Sched /\ spc = "timed") /\ (e # u => e \notin Users)
    BY <1>1, NobodyClears DEF OneUser, Resting
  <1>3. ASSUME NEW e \in Executors
        PROVE  /\ exec[e].at = "none" /\ canc[e].at = "none" /\ todo[e] = <<>> /\ out[e] = <<>>
               /\ e # u => dest[e].at = "none"
    BY <1>2 DEF IInv, ThreadSound
  <1> QED BY <1>0, <1>1, <1>3 DEF LayerTypes

\* An executor that has a task.
LEMMA WhoExecutes ==
    ASSUME IInv, Orderly, NEW e \in Executors, exec[e].at # "none"
    PROVE  /\ exec[e].task \in Tasks /\ TaskSound(exec[e].task) /\ ~Away(e)
           /\ Alone => e = Sched
           /\ St(exec[e].task) \notin {"UNKNOWN", "CREATED"}
           /\ exec[e].task \notin freed
           /\ \A d \in Executors : exec[e].task # dest[d].task
           /\ Main(exec[e]) => OnlyIn(exec[e].task, "exec", e)
  <1> DEFINE t == exec[e].task
  <1>0. LoopTypes /\ LayerTypes /\ ThreadSound(e)
    BY DEF IInv, TypeOK
  <1>1. t \in Tasks /\ ~Away(e) /\ (Alone => e = Sched)
    BY <1>0 DEF LayerTypes, ExecRecords, ThreadSound
  <1>2. TaskSound(t)
    BY <1>1 DEF IInv
  <1>3. St(t) \notin {"UNKNOWN", "CREATED"} /\ t \notin freed
    BY <1>2 DEF TaskSound, FreshSound, FreedSound
  <1>4. \A d \in Executors : t # dest[d].task
    BY <1>2 DEF TaskSound, SoleDest
  <1>5. Main(exec[e]) => OnlyIn(t, "exec", e)
    <2> HAVE Main(exec[e])
    <2>1. InHand(t, "exec", e)
      BY DEF InHand
    <2>2. Nobody \notin Executors /\ AllWorkers \subseteq Executors
      BY <1>0, WhoIsWho
    <2> QED BY <1>1, <1>2, <2>1, <2>2, OnlyInHand DEF TaskSound, Kinds, Places
  <1> QED BY <1>1, <1>2, <1>3, <1>4, <1>5

-----------------------------------------------------------------------------
(* s_exec_task.                                                            *)

\* What an executor may assume.
LEMMA AtFacts ==
    ASSUME IInv, Orderly, NEW th \in Executors, NEW place, place # "none", At(th, place)
    PROVE  /\ exec[th].at = place /\ Exec(th) = exec[th].task
           /\ exec[th] \in ExecRecords /\ LayerTypes /\ TaskTypes /\ ThreadSound(th)
           /\ exec[th].task \in Tasks /\ TaskSound(exec[th].task)
           /\ task[exec[th].task] \in Records /\ table[exec[th].task] \in States
           /\ canc[th].at = "none" /\ dest[th].at = "none"
           /\ Nobody \notin Tasks /\ glock \in Executors \cup {Nobody}
  BY WhoExecutes, WhoIsWho DEF At, Busy, IInv, TypeOK, LayerTypes, TaskTypes, LoopTypes, Exec

\* The record of one task changes.
LEMMA TaskChanges ==
    ASSUME TaskTypes, NEW t \in Tasks, NEW r \in Records, task' = [task EXCEPT ![t] = r]
    PROVE  /\ task' \in [Tasks -> Records] /\ task'[t] = r
           /\ \A s \in Tasks \ {t} : task'[s] = task[s]
  BY DEF TaskTypes

\* Records that differ from a task's in one field.
LEMMA CountRecord ==
    ASSUME NEW q \in Records, NEW n \in Int
    PROVE  LET r == [q EXCEPT !.m_exec_ref_count = n]
           IN  /\ r \in Records /\ r.m_exec_ref_count = n /\ r.m_status = q.m_status
               /\ r.m_cancel_ref_count = q.m_cancel_ref_count
               /\ r.m_do_repeat = q.m_do_repeat /\ r.m_is_first = q.m_is_first
               /\ r.m_is_in_timed_q = q.m_is_in_timed_q /\ r.m_next_abstime = q.m_next_abstime
  BY DEF Records

\* Another state.
LEMMA StatusOnly ==
    ASSUME NEW q \in Records, NEW s \in States \cup {"DELETING"}
    PROVE  LET r == [q EXCEPT !.m_status = s]
           IN  /\ r \in Records /\ r.m_exec_ref_count = q.m_exec_ref_count /\ r.m_status = s
               /\ r.m_cancel_ref_count = q.m_cancel_ref_count
               /\ r.m_do_repeat = q.m_do_repeat /\ r.m_is_first = q.m_is_first
               /\ r.m_is_in_timed_q = q.m_is_in_timed_q /\ r.m_next_abstime = q.m_next_abstime
  BY DEF Records

\* Taken out of the timed queue.
LEMMA OutRecord ==
    ASSUME NEW q \in Records
    PROVE  LET r == [q EXCEPT !.m_status = "DEQUEUED", !.m_is_in_timed_q = FALSE]
           IN  /\ r \in Records /\ r.m_exec_ref_count = q.m_exec_ref_count /\ r.m_status = "DEQUEUED"
               /\ r.m_cancel_ref_count = q.m_cancel_ref_count
               /\ r.m_do_repeat = q.m_do_repeat /\ r.m_is_first = q.m_is_first
               /\ r.m_is_in_timed_q = FALSE /\ r.m_next_abstime = q.m_next_abstime
  BY DEF Records, States

LEMMA ZeroRecord ==
    ASSUME NEW q \in Records
    PROVE  /\ LET r == [q EXCEPT !.m_cancel_ref_count = 0]
              IN  /\ r \in Records /\ r.m_cancel_ref_count = 0 /\ r.m_status = q.m_status
                  /\ r.m_is_in_timed_q = q.m_is_in_timed_q /\ r.m_next_abstime = q.m_next_abstime
           /\ LET r == [q EXCEPT !.m_exec_ref_count = 0]
              IN  /\ r \in Records /\ r.m_exec_ref_count = 0 /\ r.m_status = q.m_status
                  /\ r.m_cancel_ref_count = q.m_cancel_ref_count
                  /\ r.m_is_in_timed_q = q.m_is_in_timed_q /\ r.m_next_abstime = q.m_next_abstime
  BY DEF Records

\* Destroyed.
LEMMA DeletedRecord ==
    ASSUME NEW q \in Records
    PROVE  LET r == [q EXCEPT !.m_status = "DELETING", !.m_cancel_ref_count = 0, !.m_exec_ref_count = 0]
           IN  /\ r \in Records /\ r.m_exec_ref_count = 0 /\ r.m_status = "DELETING"
               /\ r.m_cancel_ref_count = 0
               /\ r.m_is_in_timed_q = q.m_is_in_timed_q /\ r.m_next_abstime = q.m_next_abstime
  <1>1. PICK a \in Records : /\ a = [q EXCEPT !.m_status = "DELETING"] /\ a.m_status = "DELETING"
                             /\ a.m_is_in_timed_q = q.m_is_in_timed_q
                             /\ a.m_next_abstime = q.m_next_abstime
    BY StatusOnly
  <1>2. PICK b \in Records : /\ b = [a EXCEPT !.m_cancel_ref_count = 0] /\ b.m_status = a.m_status
                             /\ b.m_cancel_ref_count = 0
                             /\ b.m_is_in_timed_q = a.m_is_in_timed_q
                             /\ b.m_next_abstime = a.m_next_abstime
    BY ZeroRecord
  <1>3. PICK c \in Records : /\ c = [b EXCEPT !.m_exec_ref_count = 0] /\ c.m_status = b.m_status
                             /\ c.m_cancel_ref_count = b.m_cancel_ref_count /\ c.m_exec_ref_count = 0
                             /\ c.m_is_in_timed_q = b.m_is_in_timed_q
                             /\ c.m_next_abstime = b.m_next_abstime
    BY ZeroRecord
  <1> QED BY <1>1, <1>2, <1>3

LEMMA DelayRecord ==
    ASSUME NEW q \in Records, NEW i \in Int
    PROVE  LET r == [q EXCEPT !.m_initial_delay_time = i]
           IN  /\ r \in Records /\ r.m_exec_ref_count = q.m_exec_ref_count /\ r.m_status = q.m_status
               /\ r.m_cancel_ref_count = q.m_cancel_ref_count
               /\ r.m_do_repeat = q.m_do_repeat /\ r.m_is_first = q.m_is_first
               /\ r.m_is_in_timed_q = q.m_is_in_timed_q /\ r.m_next_abstime = q.m_next_abstime
  BY DEF Records

LEMMA IntervalRecord ==
    ASSUME NEW q \in Records, NEW i \in Int
    PROVE  LET r == [q EXCEPT !.m_interval_time = i]
           IN  /\ r \in Records /\ r.m_exec_ref_count = q.m_exec_ref_count /\ r.m_status = q.m_status
               /\ r.m_cancel_ref_count = q.m_cancel_ref_count
               /\ r.m_do_repeat = q.m_do_repeat /\ r.m_is_first = q.m_is_first
               /\ r.m_is_in_timed_q = q.m_is_in_timed_q /\ r.m_next_abstime = q.m_next_abstime
  BY DEF Records

LEMMA RepeatRecord ==
    ASSUME NEW q \in Records
    PROVE  LET r == [q EXCEPT !.m_do_repeat = TRUE]
           IN  /\ r \in Records /\ r.m_exec_ref_count = q.m_exec_ref_count /\ r.m_status = q.m_status
               /\ r.m_cancel_ref_count = q.m_cancel_ref_count
               /\ r.m_do_repeat = TRUE /\ r.m_is_first = q.m_is_first
               /\ r.m_is_in_timed_q = q.m_is_in_timed_q /\ r.m_next_abstime = q.m_next_abstime
  BY DEF Records

\* What a submission writes.
LEMMA SubmittedRecord ==
    ASSUME UserTypes, TaskTypes, NEW u \in Users, uarg[u].task \in Tasks
    PROVE  LET r == Submitted(uarg[u])
               q == task[uarg[u].task]
           IN  /\ r \in Records /\ r.m_exec_ref_count = q.m_exec_ref_count /\ r.m_status = q.m_status
               /\ r.m_cancel_ref_count = q.m_cancel_ref_count
               /\ (q.m_do_repeat => r.m_do_repeat) /\ r.m_is_first = q.m_is_first
               /\ r.m_is_in_timed_q = q.m_is_in_timed_q /\ r.m_next_abstime = q.m_next_abstime
  <1>1. PICK q \in Records : q = task[uarg[u].task]
    BY DEF TaskTypes
  <1>2. PICK d \in Int : d = uarg[u].delay
    BY DEF UserTypes
  <1>3. PICK i \in Int : i = uarg[u].interval
    BY DEF UserTypes
  <1>4. PICK p \in Records :
           /\ p = [q EXCEPT !.m_initial_delay_time = d]
           /\ p.m_exec_ref_count = q.m_exec_ref_count /\ p.m_status = q.m_status
           /\ p.m_cancel_ref_count = q.m_cancel_ref_count
           /\ p.m_do_repeat = q.m_do_repeat /\ p.m_is_first = q.m_is_first
           /\ p.m_is_in_timed_q = q.m_is_in_timed_q /\ p.m_next_abstime = q.m_next_abstime
    BY DelayRecord
  <1>a. PICK o \in Records :
           /\ o = [p EXCEPT !.m_interval_time = i]
           /\ o.m_exec_ref_count = p.m_exec_ref_count /\ o.m_status = p.m_status
           /\ o.m_cancel_ref_count = p.m_cancel_ref_count
           /\ o.m_do_repeat = p.m_do_repeat /\ o.m_is_first = p.m_is_first
           /\ o.m_is_in_timed_q = p.m_is_in_timed_q /\ o.m_next_abstime = p.m_next_abstime
    BY IntervalRecord
  <1>5. PICK r \in Records :
           /\ r = [o EXCEPT !.m_do_repeat = TRUE]
           /\ r.m_exec_ref_count = o.m_exec_ref_count /\ r.m_status = o.m_status
           /\ r.m_cancel_ref_count = o.m_cancel_ref_count
           /\ r.m_do_repeat = TRUE /\ r.m_is_first = o.m_is_first
           /\ r.m_is_in_timed_q = o.m_is_in_timed_q /\ r.m_next_abstime = o.m_next_abstime
    BY RepeatRecord
  <1>6. Submitted(uarg[u]) = IF i > 0 THEN r ELSE p
    BY <1>1, <1>2, <1>3, <1>4, <1>a, <1>5 DEF Submitted
  <1>7. CASE i > 0
    BY <1>1, <1>4, <1>a, <1>5, <1>6, <1>7
  <1>8. CASE ~(i > 0)
    BY <1>1, <1>4, <1>6, <1>8
  <1> QED BY <1>7, <1>8

\* The state of one task changes in the table.
LEMMA TableChanges ==
    ASSUME TaskTypes, NEW t \in Tasks, NEW s \in States, table' = [table EXCEPT ![t] = s]
    PROVE  /\ table' \in [Tasks -> States] /\ table'[t] = s
           /\ \A o \in Tasks \ {t} : table'[o] = table[o]
  BY DEF TaskTypes

\* The record of a task of which only some fields change.
LEMMA SameFields ==
    ASSUME NEW s, task'[s] = task[s], table'[s] = table[s], UNCHANGED <<freed, canceled>>
    PROVE  SameRecord(s) /\ task'[s].m_next_abstime = task[s].m_next_abstime
  BY DEF SameRecord, St, InQ, Ref

\* An executor goes to x and keeps its task t, whose record becomes r.
Advances(th, t, x, r, s) ==
    /\ exec[th].at # "none" /\ Main(exec[th]) /\ t = exec[th].task
    /\ canc[th].at = "none" /\ dest[th].at = "none"
    /\ x \in ExecRecords /\ t = x.task /\ Main(x)
    /\ x.at = "illegal" => x.seen = "CANCELLED"
    /\ x.at \in {"begin", "count"} => ~x.del
    /\ exec' = [exec EXCEPT ![th] = x] /\ canc' = canc /\ dest' = dest
    /\ Still /\ QueuesStay
    /\ now' = now /\ start_time' = start_time /\ glock' = glock
    /\ freed' = freed /\ canceled' = canceled
    /\ r \in Records /\ task' = [task EXCEPT ![t] = r]
    /\ s \in States /\ table' = [table EXCEPT ![t] = s] /\ r.m_status = s
    /\ tlock' \in [Tasks -> Executors \cup {Nobody}]
    /\ r.m_is_in_timed_q = InQ(t) /\ r.m_cancel_ref_count = task[t].m_cancel_ref_count
    /\ r.m_next_abstime = task[t].m_next_abstime
    /\ ~Alone => s # "CANCELLED"
    /\ s \notin {"UNKNOWN", "CREATED"}
    /\ x.at = "begin" => s \in {"DEQUEUED", "CANCELLED"}
    /\ x.at \in {"count", "lock"} => s = "DEQUEUED"
    /\ x.at = "illegal" => s = "CANCELLED"
    /\ x.at \in {"running", "resched"} => s = "EXECUTING"
    /\ x.at = "resched" => r.m_do_repeat
    /\ Sole(x) => \A d \in Executors : t = exec[d].task => d = th
    /\ IsFiniteSet(Counted(t)') /\ r.m_exec_ref_count = Cardinality(Counted(t)')
    /\ r.m_is_first \/ r.m_do_repeat \/ s \notin {"ENQUEUED", "DEQUEUED"}
    /\ t \in canceled => s = "CANCELLED"

\* Such a step of an executor keeps the invariant.
LEMMA ExecutorStep ==
    ASSUME IInv, Orderly, NEW th \in Executors, NEW t \in Tasks, NEW x, NEW r, NEW s,
           Advances(th, t, x, r, s)
    PROVE  IInv'
  <1> USE DEF Advances
  <1>0. /\ TaskSound(t) /\ t \notin freed /\ OnlyIn(t, "exec", th)
        /\ \A d \in Executors : t # dest[d].task
        /\ St(t) # "CREATED"
    BY WhoExecutes
  <1>1. /\ LayerTypes /\ TaskTypes /\ ThreadSound(th) /\ Nobody \notin Tasks
        /\ glock \in Executors \cup {Nobody} /\ x.at # "none" /\ ~Away(th)
    BY WhoExecutes, WhoIsWho DEF IInv, TypeOK, LoopTypes, Main
  <1>2. /\ LayerTypes' /\ exec'[th] = x /\ canc'[th] = canc[th] /\ dest'[th] = dest[th]
        /\ \A e \in Executors \ {th} :
              exec'[e] = exec[e] /\ canc'[e] = canc[e] /\ dest'[e] = dest[e]
    <2>1. x.at = "none" <=> x.task = Nobody
      BY <1>1
    <2> QED BY <1>1, <2>1, ExecChanges
  <1>3. /\ task' \in [Tasks -> Records] /\ task'[t] = r
        /\ \A o \in Tasks \ {t} : task'[o] = task[o]
    BY <1>1, TaskChanges
  <1>4. /\ table' \in [Tasks -> States] /\ table'[t] = s
        /\ \A o \in Tasks \ {t} : table'[o] = table[o]
    BY <1>1, TableChanges
  <1>5. TaskTypes'
    BY <1>1, <1>3, <1>4 DEF TaskTypes
  <1>6. ThreadSound(th)'
    BY <1>1, <1>2 DEF ThreadSound, Away, Alone, W, Still, QueuesStay
  <1>7. /\ St(t)' = s /\ Ref(t)' = r.m_exec_ref_count /\ InQ(t)' = InQ(t)
        /\ \A S : Both(t, S)' <=> s \in S
    BY <1>3, <1>4 DEF St, Ref, InQ, Both
  <1>a. Alone' <=> Alone
    BY DEF Alone, W, Still
  <1>8. Apart(t)' /\ Handed(t)'
    <2>1. InHand(t, "exec", th)
      BY DEF InHand
    <2>2. Handed(t)
      BY <2>1 DEF Handed, Kinds, Places
    <2>3. SameHands(t)
      BY <1>2 DEF SameHands, SameQueues, QueuesStay
    <2> QED BY <1>0, <2>2, <2>3, HandsFrame DEF TaskSound
  <1>9. SoleExec(t)'
    <2> SUFFICES ASSUME NEW d \in Executors, NEW e \in Executors,
                        t = exec'[e].task, Sole(exec'[e]), t = exec'[d].task
                 PROVE  d = e
      BY DEF SoleExec
    <2>1. e = th
      <3> SUFFICES ASSUME e # th PROVE FALSE
        OBVIOUS
      <3>1. t = exec[e].task /\ Main(exec[e])
        BY <1>2 DEF Sole
      <3> QED BY <1>0, <3>1 DEF OnlyIn
    <2>2. t = exec[d].task
      BY <1>2
    <2> QED BY <1>2, <2>1, <2>2
  <1>10. SoleDest(t)'
    BY <1>0 DEF SoleDest
  <1>11. Stated(t)'
    <2>1. /\ t \notin ToSet(urgent_q)' /\ t \notin ToSet(idle_q)' /\ t \notin ToSet(chrono_q)'
          /\ \A w \in AllWorkers : t \notin ToSet(wq[w])'
          /\ \A d \in Executors : t \notin ToSet(todo[d])' /\ t \notin Sent(out[d])'
          /\ \A d \in Executors : t # dest'[d].task
      BY <1>0 DEF OnlyIn, QueuesStay
    <2>2. \A e \in Executors \ {th} : t = exec'[e].task =>
             /\ ~Main(exec'[e])
             /\ exec'[e].at \notin {"begin", "count", "lock", "illegal", "running", "resched"}
      BY <1>0, <1>2 DEF OnlyIn, Main
    <2>3. AllWorkers \subseteq Executors
      BY DEF Executors
    <2>4. /\ table'[t] = St(t)'
          /\ exec'[th].at = "begin" => Both(t, {"DEQUEUED", "CANCELLED"})'
          /\ exec'[th].at \in {"count", "lock"} => Both(t, {"DEQUEUED"})'
          /\ exec'[th].at = "illegal" => Both(t, {"CANCELLED"})'
          /\ exec'[th].at \in {"running", "resched"} => Both(t, {"EXECUTING"})'
          /\ exec'[th].at = "resched" => task'[t].m_do_repeat
      BY <1>2, <1>3, <1>4, <1>7
    <2> QED BY <2>1, <2>2, <2>3, <2>4 DEF Stated
  <1>12. Agreed(t)'
    <2>1. t \in ToSet(chrono_q)' <=> InQ(t)'
      BY <1>0, <1>7 DEF Agreed, TaskSound, QueuesStay
    <2>2. t \notin freed' /\ task'[t].m_cancel_ref_count = 0
      BY <1>0, <1>3 DEF Agreed, TaskSound
    <2>3. table'[t] = St(t)' /\ St(t)' # "DELETING" /\ (~Alone' => St(t)' # "CANCELLED")
      BY <1>4, <1>7, <1>a DEF States
    <2> QED BY <2>1, <2>2, <2>3 DEF Agreed
  <1>13. FreshSound(t)' /\ FreedSound(t)' /\ CanceledSound(t)'
    BY <1>0, <1>7 DEF FreshSound, FreedSound, CanceledSound
  <1>14. CancelSound(t)'
    BY <1>0 DEF CancelSound, TaskSound, QueuesStay
  <1>15. Kept(t)' /\ OneShot(t)' /\ CountSound(t)'
    BY <1>3, <1>7, <1>8 DEF Kept, OneShot, CountSound
  <1>16. TaskSound(t)'
    BY <1>8, <1>9, <1>10, <1>11, <1>12, <1>13, <1>14, <1>15 DEF TaskSound
  <1>17. \A o \in Tasks \ {t} : SameLayers(o) /\ SameRecord(o)
    <2> TAKE o \in Tasks \ {t}
    <2>0. exec[th].task = t /\ exec'[th].task = t
      BY <1>2
    <2> HIDE DEF Advances
    <2>1. SameLayers(o)
      <3>1. \A e \in Executors : o = exec[e].task \/ o = exec'[e].task => exec'[e] = exec[e]
        BY <1>2, <2>0
      <3> QED BY <1>2, <3>1 DEF SameLayers
    <2>2. freed' = freed /\ canceled' = canceled
      BY DEF Advances
    <2> QED BY <1>3, <1>4, <2>1, <2>2, SameFields
  <1>18. \A o \in Tasks : task'[o].m_next_abstime = task[o].m_next_abstime
    BY <1>3
  <1>19. St(t) # "CREATED" /\ Still /\ QueuesStay /\ now' = now /\ start_time' = start_time
    BY <1>0
  <1>20. glock' \in Executors \cup {Nobody}
    BY <1>1
  <1> HIDE DEF Advances
  <1> QED BY <1>2, <1>5, <1>6, <1>16, <1>17, <1>18, <1>19, <1>20, LayerStep

LEMMA ExecLooksKeeps ==
    ASSUME IInv, Orderly, NEW th \in Executors, ExecLooks(th)
    PROVE  IInv'
  <1>0. At(th, "begin")
    BY DEF ExecLooks
  <1>1. PICK t \in Tasks : t = exec[th].task
    BY <1>0, AtFacts
  <1>2. /\ exec[th].at = "begin" /\ exec[th] \in ExecRecords /\ LayerTypes /\ TaskTypes
        /\ ThreadSound(th) /\ TaskSound(t) /\ table[t] \in States /\ task[t] \in Records
        /\ canc[th].at = "none" /\ dest[th].at = "none" /\ Exec(th) = t
    BY <1>0, <1>1, AtFacts
  <1>3. PICK x \in ExecRecords :
           /\ exec' = [exec EXCEPT ![th] = x]
           /\ x.task = t /\ ~x.del /\ x.seen = table[t]
           /\ x.at = IF table[t] = "DEQUEUED" THEN "count" ELSE "illegal"
    <2> DEFINE x == [exec[th] EXCEPT !.at = IF table[t] = "DEQUEUED" THEN "count" ELSE "illegal",
                                     !.seen = table[t]]
    <2>1. exec' = [exec EXCEPT ![th] = x]
      BY <1>2 DEF ExecLooks
    <2>2. /\ x \in ExecRecords /\ x.task = t /\ ~x.del /\ x.seen = table[t]
          /\ x.at = IF table[t] = "DEQUEUED" THEN "count" ELSE "illegal"
      BY <1>1, <1>2 DEF ExecRecords, ExecPlaces, ThreadSound
    <2> QED BY <2>1, <2>2
  <1>4. /\ Still /\ QueuesStay /\ now' = now /\ start_time' = start_time /\ glock' = glock
        /\ canc' = canc /\ dest' = dest /\ freed' = freed /\ canceled' = canceled
        /\ table' = table /\ task' = task /\ tlock' = tlock
    BY DEF ExecLooks, Still, QueuesStay, tasks, queues, loop, taken, workers, user, history
  <1>5. Both(t, {"DEQUEUED", "CANCELLED"})
    BY <1>1, <1>2 DEF TaskSound, Stated
  <1>6. St(t) = table[t] /\ table[t] \in {"DEQUEUED", "CANCELLED"}
    BY <1>5 DEF Both
  <1>7. Sole(x) => \A d \in Executors : t = exec[d].task => d = th
    <2> HAVE Sole(x)
    <2>1. St(t) = "CANCELLED"
      BY <1>3, <1>6 DEF Sole
    <2>2. Alone
      BY <1>2, <2>1 DEF TaskSound, Agreed
    <2>3. \A d \in Executors : t = exec[d].task => exec[d].at # "none"
      BY <1>2, WhoIsWho DEF LayerTypes, IInv, TypeOK
    <2> QED BY <1>1, <1>2, <2>2, <2>3, WhoExecutes
  <1>8. IsFiniteSet(Counted(t)') /\ task[t].m_exec_ref_count = Cardinality(Counted(t)')
    <2>1. exec'[th] = x /\ \A e \in Executors \ {th} : exec'[e] = exec[e]
      BY <1>2, <1>3 DEF LayerTypes
    <2>2. Counted(t)' = Counted(t)
      BY <1>2, <1>3, <2>1 DEF Counted
    <2> QED BY <1>2, <2>2 DEF TaskSound, CountSound, Ref
  <1>9. /\ task' = [task EXCEPT ![t] = task[t]] /\ table' = [table EXCEPT ![t] = table[t]]
        /\ tlock' \in [Tasks -> Executors \cup {Nobody}]
    BY <1>2, <1>4 DEF TaskTypes
  <1>10. /\ t \in canceled => table[t] = "CANCELLED"
         /\ ~Alone => table[t] # "CANCELLED"
         /\ task[t].m_is_first \/ task[t].m_do_repeat \/ table[t] \notin {"ENQUEUED", "DEQUEUED"}
    <2>1. t \notin freed /\ \A e \in Executors : t # dest[e].task
      BY <1>1, <1>2, WhoExecutes
    <2> QED BY <1>2, <1>6, <2>1 DEF TaskSound, CanceledSound, Both, Agreed, OneShot
  <1>11. Main(exec[th]) /\ Main(x)
    BY <1>2, <1>3 DEF Main
  <1>12. task[t].m_status = table[t] /\ task[t].m_is_in_timed_q = InQ(t)
    BY <1>6 DEF St, InQ
  <1>13. Advances(th, t, x, task[t], table[t])
    BY <1>1, <1>2, <1>3, <1>4, <1>6, <1>7, <1>8, <1>9, <1>10, <1>11, <1>12 DEF Advances
  <1> QED BY <1>13, ExecutorStep

\* An executor gives up its count, or counts himself without getting the task.
Releases(th, t, x, r) ==
    /\ exec[th].at # "none" /\ t = exec[th].task
    /\ canc[th].at = "none" /\ dest[th].at = "none"
    /\ x \in ExecRecords /\ x.task \in {t, Nobody} /\ ~Main(x)
    /\ x.at \in {"none", "leave"} /\ (x.at = "none" <=> x.task = Nobody)
    /\ exec' = [exec EXCEPT ![th] = x] /\ canc' = canc /\ dest' = dest
    /\ Still /\ QueuesStay
    /\ now' = now /\ start_time' = start_time /\ glock' = glock
    /\ freed' = freed /\ canceled' = canceled /\ table' = table /\ tlock' = tlock
    /\ r \in Int /\ task' = [task EXCEPT ![t].m_exec_ref_count = r]
    /\ IsFiniteSet(Counted(t)') /\ r = Cardinality(Counted(t)')
    /\ ~Main(exec[th]) \/ (table[t] = "DEQUEUED" /\ ~Alone)

\* An executor that gives up a task keeps the invariant.
LEMMA ReleaseStep ==
    ASSUME IInv, Orderly, NEW th \in Executors, NEW t \in Tasks, NEW x, NEW r, Releases(th, t, x, r)
    PROVE  IInv'
  <1> USE DEF Releases
  <1>0. /\ TaskSound(t) /\ t \notin freed /\ (\A d \in Executors : t # dest[d].task)
        /\ St(t) \notin {"UNKNOWN", "CREATED"}
    BY WhoExecutes
  <1>1. /\ LayerTypes /\ TaskTypes /\ ThreadSound(th) /\ Nobody \notin Tasks
        /\ glock \in Executors \cup {Nobody} /\ ~Away(th)
    BY WhoExecutes, WhoIsWho DEF IInv, TypeOK, LoopTypes
  <1>2. /\ LayerTypes' /\ exec'[th] = x /\ canc'[th] = canc[th] /\ dest'[th] = dest[th]
        /\ \A e \in Executors \ {th} :
              exec'[e] = exec[e] /\ canc'[e] = canc[e] /\ dest'[e] = dest[e]
    BY <1>1, ExecChanges
  <1>3. /\ task' \in [Tasks -> Records] /\ \A o \in Tasks \ {t} : task'[o] = task[o]
        /\ task'[t] = [task[t] EXCEPT !.m_exec_ref_count = r]
    <2>1. task[t] \in Records
      BY <1>1 DEF TaskTypes
    <2>2. [task[t] EXCEPT !.m_exec_ref_count = r] \in Records
      BY <2>1 DEF Records
    <2>3. task' = [task EXCEPT ![t] = [task[t] EXCEPT !.m_exec_ref_count = r]]
      OBVIOUS
    <2> HIDE DEF Releases
    <2> QED BY <1>1, <2>2, <2>3, TaskChanges
  <1>4. /\ Ref(t)' = r /\ St(t)' = St(t) /\ InQ(t)' = InQ(t)
        /\ task'[t].m_cancel_ref_count = task[t].m_cancel_ref_count
        /\ task'[t].m_is_first = task[t].m_is_first
        /\ task'[t].m_do_repeat = task[t].m_do_repeat
        /\ task'[t].m_next_abstime = task[t].m_next_abstime
    BY <1>1, <1>3 DEF Ref, St, InQ, TaskTypes, Records
  <1>5. (\A S : Both(t, S)' <=> Both(t, S)) /\ (Alone' <=> Alone)
    BY <1>4 DEF Both, Alone, W, Still
  <1>6. TaskTypes'
    BY <1>1, <1>3 DEF TaskTypes
  <1>7. ThreadSound(th)'
    BY <1>1, <1>2 DEF ThreadSound, Away, Alone, W, Still, QueuesStay
  <1>8. SameQueues(t)
    BY DEF SameQueues, QueuesStay
  <1>9. \A e \in Executors : t = exec'[e].task /\ Main(exec'[e]) => e # th /\ exec'[e] = exec[e]
    BY <1>2
  <1>10. Apart(t)'
    <2>1. \A k \in Kinds, e \in Places : InHand(t, k, e)' => InHand(t, k, e)
      BY <1>8, <1>9 DEF InHand, SameQueues
    <2> HIDE DEF Releases
    <2> QED BY <1>0, <2>1 DEF Apart, TaskSound
  <1>11. SoleExec(t)'
    <2> SUFFICES ASSUME NEW d \in Executors, NEW e \in Executors,
                        t = exec'[e].task, Sole(exec'[e]), t = exec'[d].task
                 PROVE  d = e
      BY DEF SoleExec
    <2>1. t = exec[e].task /\ Sole(exec[e])
      BY <1>9 DEF Sole
    <2>2. t = exec[d].task
      BY <1>2
    <2> HIDE DEF Releases
    <2> QED BY <1>0, <2>1, <2>2 DEF TaskSound, SoleExec
  <1>12. SoleDest(t)'
    BY <1>0 DEF SoleDest
  <1>13. Stated(t)'
    <2>0. Stated(t)
      BY <1>0 DEF TaskSound
    <2>1. /\ (t \in ToSet(urgent_q) \cup ToSet(idle_q) => Both(t, {"ENQUEUED", "CANCELLED"}))'
          /\ (t \in ToSet(chrono_q) => Both(t, {"ENQUEUED"}))'
      BY <1>5, <2>0 DEF Stated, QueuesStay
    <2>2. \A w \in AllWorkers :
             (t \in ToSet(wq[w]) \cup ToSet(todo[w]) => Both(t, {"DEQUEUED", "CANCELLED"}))'
      BY <1>5, <2>0 DEF Stated, QueuesStay
    <2>3. \A e \in Executors :
            /\ (t \in ToSet(todo[e]) => Both(t, {"ENQUEUED", "DEQUEUED", "CANCELLED"}))'
            /\ (t \in Sent(out[e]) => Both(t, {"DEQUEUED", "CANCELLED"}))'
      BY <1>5, <2>0 DEF Stated, QueuesStay
    <2>4. \A e \in Executors :
             t = exec'[e].task => (exec'[e].at = "leave" /\ ~Main(exec'[e])) \/ exec'[e] = exec[e]
      BY <1>1, <1>2
    <2>5. \A e \in Executors : t = exec'[e].task =>
             /\ (Main(exec[e]) => table[t] = St(t))'
             /\ (exec[e].at = "begin" => Both(t, {"DEQUEUED", "CANCELLED"}))'
             /\ (exec[e].at \in {"count", "lock"} => Both(t, {"DEQUEUED"}))'
             /\ (exec[e].at = "illegal" => Both(t, {"CANCELLED"}))'
             /\ (exec[e].at \in {"running", "resched"} => Both(t, {"EXECUTING"}))'
             /\ (exec[e].at = "resched" => task[t].m_do_repeat)'
      BY <1>4, <1>5, <2>0, <2>4 DEF Stated
    <2>6. \A e \in Executors : t # dest'[e].task
      BY <1>0
    <2> HIDE DEF Releases
    <2> QED BY <2>1, <2>2, <2>3, <2>5, <2>6 DEF Stated
  <1>14. Agreed(t)'
    BY <1>0, <1>4, <1>5 DEF Agreed, TaskSound, QueuesStay
  <1>15. FreshSound(t)' /\ FreedSound(t)' /\ CanceledSound(t)'
    <2>1. CanceledSound(t)'
      BY <1>0, <1>5 DEF CanceledSound, TaskSound
    <2> QED BY <1>0, <1>4, <2>1 DEF FreshSound, FreedSound
  <1>16. CancelSound(t)'
    BY <1>0 DEF CancelSound, TaskSound, QueuesStay
  <1>17. OneShot(t)' /\ CountSound(t)'
    BY <1>0, <1>4 DEF OneShot, TaskSound, CountSound
  <1>18. Kept(t)'
    <2>1. CASE ~Main(exec[th])
      <3>1. SameHands(t)
        BY <1>2, <1>8, <2>1 DEF SameHands
      <3> QED BY <1>0, <1>5, <3>1, HandsFrame DEF Kept, TaskSound
    <2> QED BY <1>5, <2>1 DEF Kept
  <1>19. TaskSound(t)'
    BY <1>10, <1>11, <1>12, <1>13, <1>14, <1>15, <1>16, <1>17, <1>18 DEF TaskSound
  <1>20. \A o \in Tasks \ {t} : SameLayers(o) /\ SameRecord(o)
    <2> TAKE o \in Tasks \ {t}
    <2>1. SameLayers(o)
      <3>1. \A e \in Executors : o = exec[e].task \/ o = exec'[e].task => exec'[e] = exec[e]
        BY <1>1, <1>2
      <3> HIDE DEF Releases
      <3> QED BY <1>2, <3>1 DEF SameLayers
    <2> QED BY <1>3, <2>1, SameFields
  <1>21. /\ \A o \in Tasks : task'[o].m_next_abstime = task[o].m_next_abstime
         /\ glock' \in Executors \cup {Nobody} /\ St(t) # "CREATED"
         /\ Still /\ QueuesStay /\ now' = now /\ start_time' = start_time
    BY <1>0, <1>1, <1>3, <1>4
  <1> HIDE DEF Releases
  <1> QED BY <1>2, <1>6, <1>7, <1>19, <1>20, <1>21, LayerStep

\* The executors that have counted themselves, but for th.
LEMMA CountChanges ==
    ASSUME NEW t, NEW th \in Executors, CountSound(t),
           \A e \in Executors \ {th} : exec'[e] = exec[e]
    PROVE  /\ Counted(t)' \ {th} = Counted(t) \ {th}
           /\ (th \in Counted(t)' <=> th \in Counted(t)) =>
                 IsFiniteSet(Counted(t)') /\ Cardinality(Counted(t)') = Ref(t)
           /\ th \in Counted(t)' /\ th \notin Counted(t) =>
                 IsFiniteSet(Counted(t)') /\ Cardinality(Counted(t)') = Ref(t) + 1
           /\ th \notin Counted(t)' /\ th \in Counted(t) =>
                 IsFiniteSet(Counted(t)') /\ Cardinality(Counted(t)') = Ref(t) - 1
  <1>1. Counted(t)' \ {th} = Counted(t) \ {th}
    BY DEF Counted
  <1>2. IsFiniteSet(Counted(t)) /\ Ref(t) = Cardinality(Counted(t))
    BY DEF CountSound
  <1>3. ASSUME th \in Counted(t)' <=> th \in Counted(t)
        PROVE  IsFiniteSet(Counted(t)') /\ Cardinality(Counted(t)') = Ref(t)
    <2>1. Counted(t)' = Counted(t)
      BY <1>1, <1>3
    <2> QED BY <1>2, <2>1
  <1>4. ASSUME th \in Counted(t)', th \notin Counted(t)
        PROVE  IsFiniteSet(Counted(t)') /\ Cardinality(Counted(t)') = Ref(t) + 1
    <2>1. Counted(t)' = Counted(t) \cup {th}
      BY <1>1, <1>4
    <2> QED BY <1>2, <1>4, <2>1, FS_AddElement
  <1>5. ASSUME th \notin Counted(t)', th \in Counted(t)
        PROVE  IsFiniteSet(Counted(t)') /\ Cardinality(Counted(t)') = Ref(t) - 1
    <2>1. Counted(t)' = Counted(t) \ {th}
      BY <1>1, <1>5
    <2> QED BY <1>2, <1>5, <2>1, FS_RemoveElement
  <1> QED BY <1>1, <1>3, <1>4, <1>5

LEMMA ExecCountsKeeps ==
    ASSUME IInv, Orderly, NEW th \in Executors, ExecCounts(th)
    PROVE  IInv'
  <1>0. At(th, "count")
    BY DEF ExecCounts
  <1>1. PICK t \in Tasks : t = exec[th].task
    BY <1>0, AtFacts
  <1>2. /\ exec[th].at = "count" /\ exec[th] \in ExecRecords /\ LayerTypes /\ TaskTypes
        /\ ThreadSound(th) /\ TaskSound(t) /\ table[t] \in States /\ task[t] \in Records
        /\ canc[th].at = "none" /\ dest[th].at = "none" /\ Exec(th) = t
    BY <1>0, <1>1, AtFacts
  <1>3. PICK x \in ExecRecords :
           /\ exec' = [exec EXCEPT ![th] = x] /\ x.task = t /\ ~x.del
           /\ x.at = IF Ref(t) = 0 THEN "lock" ELSE "leave"
    <2> DEFINE x == [exec[th] EXCEPT !.at = IF Ref(t) = 0 THEN "lock" ELSE "leave"]
    <2>1. exec' = [exec EXCEPT ![th] = x]
      BY <1>2 DEF ExecCounts, ExecGoes, Ref
    <2>2. x \in ExecRecords /\ x.task = t /\ ~x.del /\ x.at = IF Ref(t) = 0 THEN "lock" ELSE "leave"
      BY <1>1, <1>2 DEF ExecRecords, ExecPlaces, ThreadSound
    <2> QED BY <2>1, <2>2
  <1>4. /\ Still /\ QueuesStay /\ now' = now /\ start_time' = start_time /\ glock' = glock
        /\ canc' = canc /\ dest' = dest /\ freed' = freed /\ canceled' = canceled
        /\ table' = table /\ tlock' = tlock
        /\ task' = [task EXCEPT ![t].m_exec_ref_count = task[t].m_exec_ref_count + 1]
    BY <1>2 DEF ExecCounts, Still, QueuesStay, tasks, queues, loop, taken, workers, user, history
  <1>5. St(t) = "DEQUEUED" /\ table[t] = "DEQUEUED"
    BY <1>1, <1>2 DEF TaskSound, Stated, Both
  <1>6. exec'[th] = x /\ \A e \in Executors \ {th} : exec'[e] = exec[e]
    BY <1>2, <1>3 DEF LayerTypes
  <1>7. /\ th \in Counted(t)' /\ th \notin Counted(t)
        /\ IsFiniteSet(Counted(t)') /\ Ref(t) + 1 = Cardinality(Counted(t)')
    <2>1. th \in Counted(t)' /\ th \notin Counted(t)
      BY <1>2, <1>3, <1>6 DEF Counted
    <2> QED BY <1>2, <1>6, <2>1, CountChanges DEF TaskSound
  <1>8. CASE Ref(t) = 0
    <2>1. Counted(t) = {}
      BY <1>2, <1>8, FS_EmptySet DEF TaskSound, CountSound
    <2>2. \A d \in Executors : t = exec[d].task => d = th
      <3> SUFFICES ASSUME NEW d \in Executors, t = exec[d].task PROVE d = th
        OBVIOUS
      <3>1. exec[d].at \notin {"none", "leave"}
        BY <1>2, <2>1, WhoIsWho DEF Counted, IInv, TypeOK, LayerTypes
      <3>2. Main(exec[d]) /\ Main(exec[th])
        BY <1>2, <3>1 DEF Main
      <3>3. OnlyIn(t, "exec", th)
        BY <1>1, <1>2, <3>2, WhoExecutes
      <3> QED BY <3>2, <3>3 DEF OnlyIn
    <2>3. PICK r \in Records : r = [task[t] EXCEPT !.m_exec_ref_count = Ref(t) + 1]
      <3>1. Ref(t) + 1 \in Int
        BY <1>2 DEF Records, Ref
      <3> QED BY <1>2, <3>1, CountRecord
    <2>4. /\ task' = [task EXCEPT ![t] = r] /\ table' = [table EXCEPT ![t] = "DEQUEUED"]
          /\ tlock' \in [Tasks -> Executors \cup {Nobody}]
      BY <1>2, <1>4, <1>5, <2>3 DEF TaskTypes, Ref
    <2>5. /\ r.m_status = "DEQUEUED" /\ r.m_is_in_timed_q = InQ(t)
          /\ r.m_cancel_ref_count = task[t].m_cancel_ref_count
          /\ r.m_next_abstime = task[t].m_next_abstime
          /\ r.m_exec_ref_count = Cardinality(Counted(t)')
          /\ r.m_is_first = task[t].m_is_first /\ r.m_do_repeat = task[t].m_do_repeat
      BY <1>2, <1>5, <1>7, <2>3 DEF Records, St, InQ
    <2>6. r.m_is_first \/ r.m_do_repeat
      BY <1>2, <1>5, <2>5 DEF TaskSound, OneShot
    <2>7. t \notin canceled
      BY <1>1, <1>2, <1>5, WhoExecutes DEF TaskSound, CanceledSound, Both
    <2>8. Main(exec[th]) /\ Main(x)
      BY <1>2, <1>3, <1>8 DEF Main
    <2>9. Advances(th, t, x, r, "DEQUEUED")
      BY <1>1, <1>2, <1>3, <1>4, <1>7, <1>8, <2>2, <2>4, <2>5, <2>6, <2>7, <2>8 DEF Advances, States
    <2> QED BY <2>9, ExecutorStep
  <1>9. CASE Ref(t) # 0
    <2>1. ~Alone
      <3> SUFFICES ASSUME Alone PROVE FALSE
        OBVIOUS
      <3>1. PICK d \in Executors : d \in Counted(t)
        BY <1>2, <1>9, FS_EmptySet DEF TaskSound, CountSound, Counted
      <3>2. d # th /\ exec[d].at # "none"
        BY <1>7, <3>1 DEF Counted
      <3> QED BY <1>2, <3>2, WhoExecutes
    <2>2. Ref(t) + 1 \in Int
      BY <1>2 DEF Records, Ref
    <2>3. task' = [task EXCEPT ![t].m_exec_ref_count = Ref(t) + 1]
      BY <1>4 DEF Ref
    <2>4. ~Main(x) /\ x.at = "leave" /\ Nobody \notin Tasks
      BY <1>0, <1>3, <1>9, AtFacts DEF Main
    <2>5. PICK n \in Int : n = Ref(t) + 1
      BY <2>2
    <2>6. Releases(th, t, x, n)
      BY <1>1, <1>2, <1>3, <1>4, <1>5, <1>7, <2>1, <2>3, <2>4, <2>5 DEF Releases
    <2> QED BY <2>6, ReleaseStep
  <1> QED BY <1>8, <1>9

LEMMA ExecLocksKeeps ==
    ASSUME IInv, Orderly, NEW th \in Executors, ExecLocks(th)
    PROVE  IInv'
  <1>0. At(th, "lock")
    BY DEF ExecLocks
  <1>1. PICK t \in Tasks : t = exec[th].task
    BY <1>0, AtFacts
  <1>2. /\ exec[th].at = "lock" /\ exec[th] \in ExecRecords /\ LayerTypes /\ TaskTypes
        /\ ThreadSound(th) /\ TaskSound(t) /\ table[t] \in States /\ task[t] \in Records
        /\ canc[th].at = "none" /\ dest[th].at = "none" /\ Exec(th) = t
    BY <1>0, <1>1, AtFacts
  <1>3. St(t) = "DEQUEUED" /\ table[t] = "DEQUEUED" /\ task[t].m_status = "DEQUEUED"
    BY <1>1, <1>2 DEF TaskSound, Stated, Both, St
  <1>4. /\ table' = [table EXCEPT ![t] = "EXECUTING"]
        /\ task' = [task EXCEPT ![t].m_status = "EXECUTING", ![t].m_is_first = FALSE]
        /\ tlock' = [tlock EXCEPT ![t] = th]
        /\ exec' = [exec EXCEPT ![th].at = "running"]
    BY <1>2, <1>3 DEF ExecLocks, ExecGoes
  <1>5. /\ Still /\ QueuesStay /\ now' = now /\ start_time' = start_time /\ glock' = glock
        /\ canc' = canc /\ dest' = dest /\ freed' = freed /\ canceled' = canceled
    BY DEF ExecLocks, Still, QueuesStay, tasks, queues, loop, taken, workers, user, history
  <1>6. PICK x \in ExecRecords : exec' = [exec EXCEPT ![th] = x] /\ x.task = t /\ x.at = "running"
    <2> DEFINE x == [exec[th] EXCEPT !.at = "running"]
    <2>1. exec' = [exec EXCEPT ![th] = x]
      BY <1>4
    <2>2. x \in ExecRecords /\ x.task = t /\ x.at = "running"
      BY <1>1, <1>2 DEF ExecRecords, ExecPlaces
    <2> QED BY <2>1, <2>2
  <1>7. PICK r \in Records :
           /\ task' = [task EXCEPT ![t] = r]
           /\ r.m_status = "EXECUTING" /\ r.m_exec_ref_count = Ref(t) /\ r.m_is_in_timed_q = InQ(t)
           /\ r.m_cancel_ref_count = task[t].m_cancel_ref_count
           /\ r.m_next_abstime = task[t].m_next_abstime
    <2> DEFINE r == [task[t] EXCEPT !.m_status = "EXECUTING", !.m_is_first = FALSE]
    <2>1. task' = [task EXCEPT ![t] = r]
      BY <1>4
    <2>2. /\ r \in Records /\ r.m_status = "EXECUTING" /\ r.m_exec_ref_count = Ref(t)
          /\ r.m_is_in_timed_q = InQ(t) /\ r.m_cancel_ref_count = task[t].m_cancel_ref_count
          /\ r.m_next_abstime = task[t].m_next_abstime
      BY <1>2 DEF Records, States, Ref, InQ
    <2> QED BY <2>1, <2>2
  <1>8. IsFiniteSet(Counted(t)') /\ Ref(t) = Cardinality(Counted(t)')
    <2>1. exec'[th] = x /\ \A e \in Executors \ {th} : exec'[e] = exec[e]
      BY <1>2, <1>6 DEF LayerTypes
    <2>2. th \in Counted(t)' /\ th \in Counted(t)
      BY <1>1, <1>2, <1>6, <2>1 DEF Counted
    <2> QED BY <1>2, <2>1, <2>2, CountChanges DEF TaskSound
  <1>9. \A d \in Executors : t = exec[d].task => d = th
    BY <1>1, <1>2 DEF TaskSound, SoleExec, Sole, Main
  <1>10. t \notin canceled
    BY <1>1, <1>2, <1>3, WhoExecutes DEF TaskSound, CanceledSound, Both
  <1>11. Main(exec[th]) /\ Main(x) /\ tlock' \in [Tasks -> Executors \cup {Nobody}]
    BY <1>2, <1>4, <1>6 DEF Main, TaskTypes
  <1>12. Advances(th, t, x, r, "EXECUTING")
    BY <1>1, <1>2, <1>4, <1>5, <1>6, <1>7, <1>8, <1>9, <1>10, <1>11 DEF Advances, States
  <1> QED BY <1>12, ExecutorStep

LEMMA ProcReturnsKeeps ==
    ASSUME IInv, Orderly, NEW th \in Executors, NEW ok \in BOOLEAN, ProcReturns(th, ok)
    PROVE  IInv'
  <1>0. At(th, "running")
    BY DEF ProcReturns
  <1>1. PICK t \in Tasks : t = exec[th].task
    BY <1>0, AtFacts
  <1>2. /\ exec[th].at = "running" /\ exec[th] \in ExecRecords /\ LayerTypes /\ TaskTypes
        /\ ThreadSound(th) /\ TaskSound(t) /\ table[t] \in States /\ task[t] \in Records
        /\ canc[th].at = "none" /\ dest[th].at = "none" /\ Exec(th) = t
    BY <1>0, <1>1, AtFacts
  <1>3. St(t) = "EXECUTING" /\ table[t] = "EXECUTING" /\ task[t].m_status = "EXECUTING"
    BY <1>1, <1>2 DEF TaskSound, Stated, Both, St
  <1>4. /\ IF ok THEN table' = table /\ task' = task ELSE SetBoth(t, "EXEC_FAILED")
        /\ tlock' = [tlock EXCEPT ![t] = Nobody]
        /\ Still /\ QueuesStay /\ now' = now /\ start_time' = start_time /\ glock' = glock
        /\ canc' = canc /\ dest' = dest /\ freed' = freed /\ canceled' = canceled
    BY <1>2 DEF ProcReturns, Still, QueuesStay, queues, loop, taken, workers, user, history
  <1>5. PICK x \in ExecRecords :
           /\ exec' = [exec EXCEPT ![th] = x] /\ x.task = t
           /\ x.at = IF ok /\ Again(t) THEN "resched" ELSE "leave"
           /\ x.del <=> ~(ok /\ Again(t))
    <2>1. CASE ok /\ Again(t)
      <3> DEFINE x == [exec[th] EXCEPT !.at = "resched", !.del = FALSE]
      <3>1. exec' = [exec EXCEPT ![th] = x]
        BY <1>2, <2>1 DEF ProcReturns
      <3>2. x \in ExecRecords /\ x.task = t /\ x.at = "resched" /\ x.del = FALSE
        BY <1>1, <1>2 DEF ExecRecords, ExecPlaces
      <3> QED BY <2>1, <3>1, <3>2
    <2>2. CASE ~(ok /\ Again(t))
      <3> DEFINE x == [exec[th] EXCEPT !.at = "leave", !.del = TRUE]
      <3>1. exec' = [exec EXCEPT ![th] = x]
        BY <1>2, <2>2 DEF ProcReturns
      <3>2. x \in ExecRecords /\ x.task = t /\ x.at = "leave" /\ x.del = TRUE
        BY <1>1, <1>2 DEF ExecRecords, ExecPlaces
      <3> QED BY <2>2, <3>1, <3>2
    <2> QED BY <2>1, <2>2
  <1>6. PICK s \in States : s = IF ok THEN "EXECUTING" ELSE "EXEC_FAILED"
    BY DEF States
  <1>7. PICK r \in Records :
           /\ task' = [task EXCEPT ![t] = r] /\ table' = [table EXCEPT ![t] = s]
           /\ r.m_status = s /\ r.m_exec_ref_count = Ref(t) /\ r.m_is_in_timed_q = InQ(t)
           /\ r.m_cancel_ref_count = task[t].m_cancel_ref_count
           /\ r.m_next_abstime = task[t].m_next_abstime /\ r.m_do_repeat = task[t].m_do_repeat
    <2> DEFINE r == [task[t] EXCEPT !.m_status = s]
    <2>1. task' = [task EXCEPT ![t] = r] /\ table' = [table EXCEPT ![t] = s]
      <3>1. CASE ok
        <4>1. r = task[t]
          BY <1>2, <1>3, <1>6, <3>1 DEF Records
        <4> QED BY <1>2, <1>3, <1>4, <1>6, <3>1, <4>1 DEF TaskTypes
      <3>2. CASE ~ok
        BY <1>4, <1>6, <3>2 DEF SetBoth
      <3> QED BY <3>1, <3>2
    <2>2. /\ r \in Records /\ r.m_status = s /\ r.m_exec_ref_count = Ref(t)
          /\ r.m_is_in_timed_q = InQ(t) /\ r.m_cancel_ref_count = task[t].m_cancel_ref_count
          /\ r.m_next_abstime = task[t].m_next_abstime /\ r.m_do_repeat = task[t].m_do_repeat
      BY <1>2 DEF Records, Ref, InQ
    <2> QED BY <2>1, <2>2
  <1>8. IsFiniteSet(Counted(t)') /\ Ref(t) = Cardinality(Counted(t)')
    <2>1. exec'[th] = x /\ \A e \in Executors \ {th} : exec'[e] = exec[e]
      BY <1>2, <1>5 DEF LayerTypes
    <2>2. th \in Counted(t)' /\ th \in Counted(t)
      BY <1>1, <1>2, <1>5, <2>1 DEF Counted
    <2> QED BY <1>2, <2>1, <2>2, CountChanges DEF TaskSound
  <1>9. \A d \in Executors : t = exec[d].task => d = th
    BY <1>1, <1>2 DEF TaskSound, SoleExec, Sole, Main
  <1>10. t \notin canceled
    BY <1>1, <1>2, <1>3, WhoExecutes DEF TaskSound, CanceledSound, Both
  <1>11. Main(exec[th]) /\ Main(x) /\ tlock' \in [Tasks -> Executors \cup {Nobody}]
    BY <1>2, <1>4, <1>5 DEF Main, TaskTypes
  <1>12. /\ x.at \in {"resched", "leave"}
         /\ x.at = "resched" => s = "EXECUTING" /\ r.m_do_repeat
         /\ s \in {"EXECUTING", "EXEC_FAILED"}
    BY <1>5, <1>6, <1>7 DEF Again
  <1>13. Advances(th, t, x, r, s)
    BY <1>1, <1>2, <1>4, <1>5, <1>6, <1>7, <1>8, <1>9, <1>10, <1>11, <1>12 DEF Advances
  <1> QED BY <1>13, ExecutorStep

LEMMA ExecRefusesKeeps ==
    ASSUME IInv, Orderly, NEW th \in Executors, ExecRefuses(th)
    PROVE  IInv'
  <1>0. At(th, "illegal")
    BY DEF ExecRefuses
  <1>1. PICK t \in Tasks : t = exec[th].task
    BY <1>0, AtFacts
  <1>2. /\ exec[th].at = "illegal" /\ exec[th] \in ExecRecords /\ LayerTypes /\ TaskTypes
        /\ ThreadSound(th) /\ TaskSound(t) /\ table[t] \in States /\ task[t] \in Records
        /\ canc[th].at = "none" /\ dest[th].at = "none"
    BY <1>0, <1>1, AtFacts
  <1>3. St(t) = "CANCELLED" /\ table[t] = "CANCELLED"
    BY <1>1, <1>2 DEF TaskSound, Stated, Both, St
  <1>4. exec[th].seen = "CANCELLED"
    BY <1>2 DEF ThreadSound
  <1>5. PICK x \in ExecRecords : exec' = [exec EXCEPT ![th] = x] /\ x.task = t /\ x.at = "destroy"
    <2> DEFINE x == [exec[th] EXCEPT !.at = "destroy"]
    <2>1. exec' = [exec EXCEPT ![th] = x]
      BY <1>4 DEF ExecRefuses
    <2>2. x \in ExecRecords /\ x.task = t /\ x.at = "destroy"
      BY <1>1, <1>2 DEF ExecRecords, ExecPlaces
    <2> QED BY <2>1, <2>2
  <1>6. /\ Still /\ QueuesStay /\ now' = now /\ start_time' = start_time /\ glock' = glock
        /\ canc' = canc /\ dest' = dest /\ freed' = freed /\ canceled' = canceled
        /\ table' = table /\ task' = task /\ tlock' = tlock
    BY DEF ExecRefuses, Still, QueuesStay, tasks, queues, loop, taken, workers, user, history
  <1>7. IsFiniteSet(Counted(t)') /\ Ref(t) = Cardinality(Counted(t)')
    <2>1. exec'[th] = x /\ \A e \in Executors \ {th} : exec'[e] = exec[e]
      BY <1>2, <1>5 DEF LayerTypes
    <2>2. th \notin Counted(t)' /\ th \notin Counted(t)
      BY <1>1, <1>2, <1>5, <2>1 DEF Counted
    <2> QED BY <1>2, <2>1, <2>2, CountChanges DEF TaskSound
  <1>8. \A d \in Executors : t = exec[d].task => d = th
    BY <1>1, <1>2 DEF TaskSound, SoleExec, Sole, Main
  <1>9. /\ Main(exec[th]) /\ Main(x) /\ tlock' \in [Tasks -> Executors \cup {Nobody}]
        /\ task' = [task EXCEPT ![t] = task[t]] /\ table' = [table EXCEPT ![t] = "CANCELLED"]
    BY <1>2, <1>3, <1>5, <1>6 DEF Main, TaskTypes
  <1>10. /\ ~Alone => FALSE
         /\ task[t].m_status = "CANCELLED" /\ task[t].m_is_in_timed_q = InQ(t)
         /\ task[t].m_exec_ref_count = Ref(t)
    BY <1>2, <1>3 DEF TaskSound, Agreed, St, InQ, Ref
  <1>11. Advances(th, t, x, task[t], "CANCELLED")
    BY <1>1, <1>2, <1>5, <1>6, <1>7, <1>8, <1>9, <1>10 DEF Advances, States
  <1> QED BY <1>11, ExecutorStep

\* Who leaves a task and destroys it goes on alone, in the state he has left it in.
LEMMA ExecDestroysKeeps ==
    ASSUME IInv, Orderly, NEW th \in Executors, ExecDestroys(th)
    PROVE  IInv'
  <1>0. At(th, "leave") /\ exec[th].del
    BY DEF ExecDestroys
  <1>1. PICK t \in Tasks : t = exec[th].task
    BY <1>0, AtFacts
  <1>2. /\ exec[th].at = "leave" /\ exec[th] \in ExecRecords /\ LayerTypes /\ TaskTypes
        /\ ThreadSound(th) /\ TaskSound(t) /\ table[t] \in States /\ task[t] \in Records
        /\ canc[th].at = "none" /\ dest[th].at = "none" /\ Exec(th) = t
    BY <1>0, <1>1, AtFacts
  <1>3. Main(exec[th])
    BY <1>0, <1>2 DEF Main
  <1>4. St(t) = table[t] /\ table[t] \notin {"UNKNOWN", "CREATED"}
    <2>1. St(t) = table[t]
      BY <1>1, <1>2, <1>3 DEF TaskSound, Stated
    <2>2. St(t) \notin {"UNKNOWN", "CREATED"}
      BY <1>1, <1>2, WhoExecutes
    <2> QED BY <2>1, <2>2
  <1>5. t \in canceled => table[t] = "CANCELLED"
    BY <1>1, <1>2, <1>4, WhoExecutes DEF TaskSound, CanceledSound, Both
  <1>6. /\ Still /\ QueuesStay /\ now' = now /\ start_time' = start_time /\ glock' = glock
        /\ canc' = canc /\ dest' = dest /\ freed' = freed /\ canceled' = canceled
        /\ table' = table /\ tlock' = tlock
        /\ task' = [task EXCEPT ![t].m_exec_ref_count = task[t].m_exec_ref_count - 1]
        /\ exec' = [exec EXCEPT ![th].at = "destroy"]
    BY <1>2 DEF ExecDestroys, Uncount, ExecGoes, Still, QueuesStay, tasks, queues, loop, taken,
                workers, user, history
  <1>7. PICK x \in ExecRecords : exec' = [exec EXCEPT ![th] = x] /\ x.task = t /\ x.at = "destroy"
    <2> DEFINE x == [exec[th] EXCEPT !.at = "destroy"]
    <2>1. exec' = [exec EXCEPT ![th] = x]
      BY <1>6
    <2>2. x \in ExecRecords /\ x.task = t /\ x.at = "destroy"
      BY <1>1, <1>2 DEF ExecRecords, ExecPlaces
    <2> QED BY <2>1, <2>2
  <1>8. IsFiniteSet(Counted(t)') /\ Ref(t) - 1 = Cardinality(Counted(t)')
    <2>1. exec'[th] = x /\ \A e \in Executors \ {th} : exec'[e] = exec[e]
      BY <1>2, <1>7 DEF LayerTypes
    <2>2. th \notin Counted(t)' /\ th \in Counted(t)
      BY <1>1, <1>2, <1>7, <2>1 DEF Counted
    <2> QED BY <1>2, <2>1, <2>2, CountChanges DEF TaskSound
  <1>9. PICK r \in Records :
           /\ task' = [task EXCEPT ![t] = r] /\ r.m_exec_ref_count = Ref(t) - 1
           /\ r.m_status = table[t] /\ r.m_is_in_timed_q = InQ(t)
           /\ r.m_cancel_ref_count = task[t].m_cancel_ref_count
           /\ r.m_next_abstime = task[t].m_next_abstime
           /\ r.m_is_first = task[t].m_is_first /\ r.m_do_repeat = task[t].m_do_repeat
    <2> DEFINE r == [task[t] EXCEPT !.m_exec_ref_count = Ref(t) - 1]
    <2>1. task' = [task EXCEPT ![t] = r]
      BY <1>6 DEF Ref
    <2>2. Ref(t) - 1 \in Int
      BY <1>2 DEF Records, Ref
    <2>3. /\ r \in Records /\ r.m_exec_ref_count = Ref(t) - 1
          /\ r.m_status = task[t].m_status /\ r.m_is_in_timed_q = task[t].m_is_in_timed_q
          /\ r.m_cancel_ref_count = task[t].m_cancel_ref_count
          /\ r.m_next_abstime = task[t].m_next_abstime
          /\ r.m_is_first = task[t].m_is_first /\ r.m_do_repeat = task[t].m_do_repeat
      BY <1>2, <2>2, CountRecord
    <2> QED BY <1>4, <2>1, <2>3 DEF St, InQ
  <1>10. \A d \in Executors : t = exec[d].task => d = th
    BY <1>1, <1>2, <1>3 DEF TaskSound, SoleExec, Sole
  <1>11. /\ Main(x) /\ tlock' \in [Tasks -> Executors \cup {Nobody}]
         /\ table' = [table EXCEPT ![t] = table[t]]
    BY <1>2, <1>6, <1>7 DEF Main, TaskTypes
  <1>12. /\ ~Alone => table[t] # "CANCELLED"
         /\ r.m_is_first \/ r.m_do_repeat \/ table[t] \notin {"ENQUEUED", "DEQUEUED"}
    BY <1>2, <1>4, <1>9 DEF TaskSound, Agreed, OneShot
  <1>13. Advances(th, t, x, r, table[t])
    BY <1>1, <1>2, <1>3, <1>4, <1>5, <1>6, <1>7, <1>8, <1>9, <1>10, <1>11, <1>12 DEF Advances
  <1> QED BY <1>13, ExecutorStep

LEMMA ExecLeavesKeeps ==
    ASSUME IInv, Orderly, NEW th \in Executors, ExecLeaves(th)
    PROVE  IInv'
  <1>0. At(th, "leave") /\ ~exec[th].del
    BY DEF ExecLeaves
  <1>1. PICK t \in Tasks : t = exec[th].task
    BY <1>0, AtFacts
  <1>2. /\ exec[th].at = "leave" /\ LayerTypes /\ TaskSound(t) /\ task[t] \in Records
        /\ canc[th].at = "none" /\ dest[th].at = "none" /\ Exec(th) = t /\ Nobody \notin Tasks
    BY <1>0, <1>1, AtFacts
  <1>3. /\ Still /\ QueuesStay /\ now' = now /\ start_time' = start_time /\ glock' = glock
        /\ canc' = canc /\ dest' = dest /\ freed' = freed /\ canceled' = canceled
        /\ table' = table /\ tlock' = tlock
        /\ task' = [task EXCEPT ![t].m_exec_ref_count = task[t].m_exec_ref_count - 1]
        /\ exec' = [exec EXCEPT ![th] = NoExec]
    BY <1>2 DEF ExecLeaves, Uncount, Still, QueuesStay, tasks, queues, loop, taken,
                workers, user, history
  <1>4. NoExec \in ExecRecords /\ NoExec.task = Nobody /\ NoExec.at = "none" /\ ~Main(NoExec)
    BY DEF NoExec, ExecRecords, ExecPlaces, States, Main
  <1>5. IsFiniteSet(Counted(t)') /\ Ref(t) - 1 = Cardinality(Counted(t)')
    <2>1. exec'[th] = NoExec /\ \A e \in Executors \ {th} : exec'[e] = exec[e]
      BY <1>2, <1>3 DEF LayerTypes
    <2>2. th \notin Counted(t)' /\ th \in Counted(t)
      BY <1>1, <1>2, <1>4, <2>1 DEF Counted
    <2> QED BY <1>2, <2>1, <2>2, CountChanges DEF TaskSound
  <1>6. PICK n \in Int : n = Ref(t) - 1
    BY <1>2 DEF Records, Ref
  <1>7. task' = [task EXCEPT ![t].m_exec_ref_count = n] /\ ~Main(exec[th])
    BY <1>0, <1>2, <1>3, <1>6 DEF Ref, Main
  <1>8. Releases(th, t, NoExec, n)
    BY <1>1, <1>2, <1>3, <1>4, <1>5, <1>6, <1>7 DEF Releases
  <1> QED BY <1>8, ReleaseStep

\* No canceller waits for an executor here.
LEMMA NoTelling ==
    ASSUME IInv, Orderly, NEW th \in Executors, ExecTells(th)
    PROVE  FALSE
  <1>1. At(th, "leave") /\ task[Exec(th)].m_cancel_ref_count > 0
    BY DEF ExecTells
  <1>2. TaskSound(exec[th].task) /\ Exec(th) = exec[th].task
    BY <1>1, AtFacts
  <1> QED BY <1>1, <1>2 DEF TaskSound, Agreed

-----------------------------------------------------------------------------
(* Tasks that go from hand to hand.                                        *)

\* What the table and the record say of a task, where it is.
Says(k, e) == CASE k \in {"urgent", "idle"} -> {"ENQUEUED", "CANCELLED"}
                [] k = "timed" -> {"ENQUEUED"}
                [] k = "todo" /\ e \notin AllWorkers -> {"ENQUEUED", "DEQUEUED", "CANCELLED"}
                [] OTHER -> {"DEQUEUED", "CANCELLED"}

\* A task that is now in the hand k of e, which is that of nobody who destroys it.
Moved(t, k, e) ==
    /\ OnlyIn(t, k, e)' /\ InHand(t, k, e)' /\ Both(t, Says(k, e))'
    /\ \A d \in Executors : /\ t # dest'[d].task
                            /\ t = exec'[d].task => exec'[d].at = "begin" \/ ~Main(exec'[d])
    /\ t \notin freed' /\ (InQ(t)' <=> k = "timed")
    /\ task'[t].m_cancel_ref_count = 0
    /\ ~Alone' => St(t)' # "CANCELLED"
    /\ k = "timed" => CancelSound(t)'
    /\ CountSound(t)' /\ OneShot(t)'
    /\ t \in canceled' => St(t)' = "CANCELLED"

\* A task that was moved like this is sound.
LEMMA MovedSound ==
    ASSUME NEW t \in Tasks, NEW k \in Kinds \ {"dest"}, NEW e \in Places, Moved(t, k, e),
           k \in {"urgent", "idle", "timed"} <=> e = Nobody, Sched \notin AllWorkers
    PROVE  TaskSound(t)'
  <1> USE DEF Moved
  <1>1. Apart(t)' /\ Handed(t)'
    <2>1. Apart(t)'
      BY ApartAgain
    <2>2. Handed(t)'
      BY DEF Handed, Kinds, Places
    <2> QED BY <2>1, <2>2
  <1>2. St(t)' = table'[t] /\ St(t)' \in Says(k, e)'
    BY DEF Both
  <1>3. St(t)' \in {"ENQUEUED", "DEQUEUED", "CANCELLED"}
    BY <1>2 DEF Says
  <1>4. t \in ToSet(chrono_q)' <=> k = "timed"
    BY DEF OnlyIn, InHand
  <1>5. SoleExec(t)' /\ SoleDest(t)'
    BY DEF SoleExec, Sole, SoleDest
  <1>6. Stated(t)'
    <2>0. AllWorkers' = AllWorkers
      BY DEF AllWorkers
    <2>1. \A S : Both(t, S)' <=> St(t)' \in S
      BY <1>2 DEF Both
    <2>2. /\ (t \in ToSet(urgent_q) \cup ToSet(idle_q) => Both(t, {"ENQUEUED", "CANCELLED"}))'
          /\ (t \in ToSet(chrono_q) => Both(t, {"ENQUEUED"}))'
      BY <1>2, <2>1 DEF OnlyIn, Says
    <2>3. \A w \in AllWorkers :
             (t \in ToSet(wq[w]) \cup ToSet(todo[w]) => Both(t, {"DEQUEUED", "CANCELLED"}))'
      <3>1. AllWorkers \subseteq Executors
        BY DEF Executors
      <3> QED BY <1>2, <2>0, <2>1, <3>1 DEF OnlyIn, Says
    <2>4. \A d \in Executors :
            /\ (t \in ToSet(todo[d]) => Both(t, {"ENQUEUED", "DEQUEUED", "CANCELLED"}))'
            /\ (t \in Sent(out[d]) => Both(t, {"DEQUEUED", "CANCELLED"}))'
      BY <1>2, <1>3, <2>1 DEF OnlyIn, Says
    <2>5. \A d \in Executors : t = exec'[d].task => \/ ~Main(exec'[d])
                                                    \/ exec'[d].at = "begin" /\ k = "exec"
      BY DEF OnlyIn
    <2>6. \A d \in Executors : t = exec'[d].task =>
             /\ (Main(exec[d]) => table[t] = St(t))'
             /\ (exec[d].at = "begin" => Both(t, {"DEQUEUED", "CANCELLED"}))'
             /\ (exec[d].at \in {"count", "lock"} => Both(t, {"DEQUEUED"}))'
             /\ (exec[d].at = "illegal" => Both(t, {"CANCELLED"}))'
             /\ (exec[d].at \in {"running", "resched"} => Both(t, {"EXECUTING"}))'
             /\ (exec[d].at = "resched" => task[t].m_do_repeat)'
      BY <1>2, <2>1, <2>5 DEF Main, Says
    <2> QED BY <2>2, <2>3, <2>4, <2>6 DEF Stated
  <1>7. Agreed(t)'
    BY <1>2, <1>3, <1>4 DEF Agreed
  <1>8. FreshSound(t)' /\ FreedSound(t)'
    BY <1>3 DEF FreshSound, FreedSound
  <1>9. CancelSound(t)'
    BY <1>4 DEF CancelSound
  <1>10. CanceledSound(t)'
    BY <1>2 DEF CanceledSound, Both
  <1>11. Kept(t)'
    BY <1>1 DEF Kept
  <1> QED BY <1>1, <1>5, <1>6, <1>7, <1>8, <1>9, <1>10, <1>11 DEF TaskSound

\* A task that e is to destroy now, and that is in no queue.
Doomed(t, e) ==
    /\ OnlyIn(t, "dest", e)' /\ t = dest'[e].task /\ (dest'[e].at = "delete" => table'[t] = "CANCELLED")
    /\ t \notin ToSet(chrono_q)' /\ ~InQ(t)'
    /\ \A d \in Executors : t # exec'[d].task
    /\ t \notin freed' /\ table'[t] \in {St(t)', "CANCELLED"} /\ St(t)' \notin {"UNKNOWN", "CREATED", "DELETING"}
    /\ task'[t].m_cancel_ref_count = 0
    /\ ~Alone' => St(t)' # "CANCELLED"
    /\ CountSound(t)' /\ OneShot(t)'

\* A task that is to be destroyed is sound.
LEMMA DoomedSound ==
    ASSUME NEW t \in Tasks, NEW e \in Executors, Doomed(t, e), Nobody \notin Executors
    PROVE  TaskSound(t)'
  <1> USE DEF Doomed
  <1>1. Apart(t)' /\ Handed(t)'
    <2>1. InHand(t, "dest", e)'
      BY DEF InHand
    <2>2. Apart(t)'
      BY ApartAgain DEF Kinds, Places
    <2>3. Handed(t)'
      BY <2>1 DEF Handed, Kinds, Places
    <2> QED BY <2>2, <2>3
  <1>2. SoleExec(t)' /\ SoleDest(t)'
    BY DEF SoleExec, SoleDest
  <1>3. Stated(t)'
    <2>1. AllWorkers \subseteq Executors /\ AllWorkers' = AllWorkers
      BY DEF Executors, AllWorkers
    <2>2. \A d \in Executors : t = dest'[d].task => d = e
      BY DEF OnlyIn
    <2>3. /\ t \notin ToSet(urgent_q)' /\ t \notin ToSet(idle_q)'
          /\ \A w \in AllWorkers : t \notin ToSet(wq[w])'
          /\ \A d \in Executors : t \notin ToSet(todo[d])' /\ t \notin Sent(out[d])'
      BY DEF OnlyIn
    <2> QED BY <2>1, <2>2, <2>3 DEF Stated
  <1>4. Agreed(t)'
    BY DEF Agreed
  <1>5. FreshSound(t)' /\ FreedSound(t)' /\ CanceledSound(t)' /\ CancelSound(t)'
    BY DEF FreshSound, FreedSound, CanceledSound, CancelSound
  <1>6. Kept(t)'
    BY <1>1 DEF Kept
  <1> QED BY <1>1, <1>2, <1>3, <1>4, <1>5, <1>6 DEF TaskSound

\* What holds of a task in a queue.
LEMMA InHandFacts ==
    ASSUME IInv, Orderly, NEW t \in Tasks, NEW k \in Kinds \ {"exec", "dest"}, NEW e \in Places,
           InHand(t, k, e)
    PROVE  /\ TaskSound(t) /\ OnlyIn(t, k, e) /\ t \notin freed
           /\ St(t) = table[t] /\ St(t) \in Says(k, e) /\ St(t) \in {"ENQUEUED", "DEQUEUED", "CANCELLED"}
           /\ InQ(t) <=> k = "timed"
           /\ \A d \in Executors : t = exec[d].task => ~Main(exec[d])
           /\ \A d \in Executors :
                 t = dest[d].task => k = "timed" /\ d = Sched /\ Alone /\ spc = "run"
           /\ t \in canceled => St(t) = "CANCELLED" \/ \E x \in Executors : t = dest[x].task
  <1>0. LoopTypes /\ TaskSound(t) /\ \A d \in Executors : ThreadSound(d)
    BY DEF IInv, TypeOK
  <1>1. OnlyIn(t, k, e)
    BY <1>0, OnlyInHand, WhoIsWho DEF TaskSound
  <1>2. Handed(t) /\ t \notin freed
    <2>1. Handed(t)
      BY DEF Handed, Kinds, Places
    <2> QED BY <1>0, <2>1 DEF TaskSound, FreedSound
  <1>3. Both(t, Says(k, e))
    <2>1. e \in AllWorkers => e \in Executors
      BY DEF Executors
    <2> QED BY <1>0, <2>1 DEF InHand, Says, TaskSound, Stated, Kinds
  <1>4. InQ(t) <=> k = "timed"
    BY <1>0, <1>1 DEF TaskSound, Agreed, InHand, OnlyIn
  <1>5. \A d \in Executors : t = exec[d].task => ~Main(exec[d])
    BY <1>1 DEF OnlyIn, Kinds
  <1>6. \A d \in Executors : t = dest[d].task => k = "timed" /\ d = Sched /\ Alone /\ spc = "run"
    <2> SUFFICES ASSUME NEW d \in Executors, t = dest[d].task
                 PROVE  k = "timed" /\ d = Sched /\ Alone /\ spc = "run"
      OBVIOUS
    <2>1. t \in ToSet(chrono_q) /\ k = "timed"
      BY <1>1 DEF OnlyIn, Kinds
    <2>2. d = Sched /\ mode.cancels = "procs" /\ dest[d].at = "unsched"
      BY <1>0, <2>1 DEF TaskSound, SoleDest
    <2>3. Alone /\ Sched \notin Users
      BY <1>0, <2>2, WhoIsWho
    <2>4. ~Away(d)
      BY <1>0, <2>2, <2>3 DEF ThreadSound
    <2> QED BY <2>1, <2>2, <2>3, <2>4 DEF Away
  <1>7. St(t) = table[t] /\ St(t) \in Says(k, e)
    BY <1>3 DEF Both
  <1>8. St(t) \in {"ENQUEUED", "DEQUEUED", "CANCELLED"}
    BY <1>7 DEF Says
  <1>9. t \in canceled => St(t) = "CANCELLED" \/ \E x \in Executors : t = dest[x].task
    BY <1>0, <1>2 DEF TaskSound, CanceledSound, Both
  <1> QED BY <1>0, <1>1, <1>2, <1>4, <1>5, <1>6, <1>7, <1>8, <1>9

\* The types, where neither the main loop nor a user moves.
LEMMA TypesFrame ==
    ASSUME TypeOK, Still, now' = now, start_time' = start_time, glock' \in Executors \cup {Nobody}
    PROVE  LoopTypes' /\ UserTypes'
  BY DEF TypeOK, LoopTypes, UserTypes, Still

LEMMA FilledStep ==
    ASSUME IInv, OneUser, Orderly, Still, NEW e \in Executors, ~Away(e),
           \A w \in AllWorkers \ W : wq'[w] = <<>>
    PROVE  Emptied'
  <1>1. \A u \in Users : ~Past(u, Clearing)
    BY NobodyClears
  <1>2. \A u \in Users : ~Past(u, Clearing)'
    BY <1>1 DEF Past, Still
  <1>3. \A w \in AllWorkers \ W : wq[w] = <<>>
    BY DEF IInv, Emptied
  <1> QED BY <1>2, <1>3, FilledFrame DEF Still

\* The other tasks, when only the layers of th and the record of t change.
LEMMA OthersStay ==
    ASSUME NEW th \in Executors, NEW t \in Tasks, Nobody \notin Tasks,
           (exec[th].task \in {t, Nobody} /\ exec'[th].task \in {t, Nobody}) \/ exec'[th] = exec[th],
           (canc[th].task \in {t, Nobody} /\ canc'[th].task \in {t, Nobody}) \/ canc'[th] = canc[th],
           (dest[th].task \in {t, Nobody} /\ dest'[th].task \in {t, Nobody}) \/ dest'[th] = dest[th],
           \A e \in Executors \ {th} : exec'[e] = exec[e] /\ canc'[e] = canc[e] /\ dest'[e] = dest[e],
           \A o \in Tasks \ {t} : /\ task'[o] = task[o] /\ table'[o] = table[o]
                                  /\ (o \in freed' <=> o \in freed)
                                  /\ (o \in canceled' <=> o \in canceled)
    PROVE  \A o \in Tasks \ {t} : SameLayers(o) /\ SameRecord(o)
  <1> TAKE o \in Tasks \ {t}
  <1>1. SameRecord(o)
    BY DEF SameRecord, St, InQ, Ref
  <1>2. o # Nobody /\ o # t
    OBVIOUS
  <1>3. o = exec[th].task \/ o = exec'[th].task => exec'[th] = exec[th]
    BY <1>2
  <1>4. o = canc[th].task \/ o = canc'[th].task => canc'[th] = canc[th]
    BY <1>2
  <1>5. o = dest[th].task \/ o = dest'[th].task => dest'[th] = dest[th]
    BY <1>2
  <1>6. SameLayers(o)
    BY <1>3, <1>4, <1>5 DEF SameLayers
  <1> QED BY <1>1, <1>6

LEMMA ReschedulesKeeps ==
    ASSUME IInv, OneUser, Orderly, NEW th \in Executors, Reschedules(th)
    PROVE  IInv'
  <1>0. At(th, "resched")
    BY DEF Reschedules
  <1>1. PICK t \in Tasks : t = exec[th].task
    BY <1>0, AtFacts
  <1>2. /\ exec[th].at = "resched" /\ exec[th] \in ExecRecords /\ LayerTypes /\ TaskTypes
        /\ ThreadSound(th) /\ TaskSound(t) /\ table[t] \in States /\ task[t] \in Records
        /\ canc[th].at = "none" /\ dest[th].at = "none" /\ Exec(th) = t /\ Nobody \notin Tasks
        /\ glock \in Executors \cup {Nobody}
    BY <1>0, <1>1, AtFacts
  <1>3. /\ OnlyIn(t, "exec", th) /\ t \notin freed /\ (\A d \in Executors : t # dest[d].task)
        /\ ~Away(th) /\ (Alone => th = Sched)
    BY <1>1, <1>2, WhoExecutes DEF Main
  <1>4. /\ St(t) = "EXECUTING" /\ table[t] = "EXECUTING" /\ t \notin ToSet(chrono_q)
        /\ ~InQ(t) /\ ~task[t].m_is_in_timed_q /\ task[t].m_do_repeat
        /\ task[t].m_cancel_ref_count = 0
    <2>1. /\ St(t) = "EXECUTING" /\ table[t] = "EXECUTING" /\ task[t].m_do_repeat
      BY <1>1, <1>2 DEF TaskSound, Stated, Both
    <2>2. t \notin ToSet(chrono_q)
      BY <1>3 DEF OnlyIn
    <2> QED BY <1>2, <2>1, <2>2 DEF TaskSound, Agreed, InQ
  <1>5. /\ TypeOK /\ QueueTypes /\ LoopTypes /\ QueuesSound /\ LoopSound /\ StageSound /\ Submits
        /\ Ordered(chrono_q) /\ NoRepeat(chrono_q)
        /\ \A e \in Executors : ThreadSound(e)
    BY DEF IInv, TypeOK, QueuesSound, Ordered
  <1>6. /\ DoSched(t, task[t]) /\ exec' = [exec EXCEPT ![th].at = "leave", ![th].del = FALSE]
        /\ Still /\ now' = now /\ start_time' = start_time /\ glock' = glock
        /\ canc' = canc /\ dest' = dest /\ freed' = freed /\ canceled' = canceled /\ tlock' = tlock
        /\ UNCHANGED <<urgent_q, idle_q, wq, last_q, todo, out>>
    <2>1. task[t].m_is_in_timed_q = FALSE
      BY <1>2, <1>4 DEF Records
    <2>2. exec' = [exec EXCEPT ![th].at = "leave", ![th].del = task[t].m_is_in_timed_q]
      BY <1>2 DEF Reschedules
    <2>3. DoSched(t, task[t])
      BY <1>2, <1>4 DEF Reschedules
    <2>4. /\ Still /\ now' = now /\ start_time' = start_time /\ glock' = glock
          /\ canc' = canc /\ dest' = dest /\ freed' = freed /\ canceled' = canceled /\ tlock' = tlock
          /\ UNCHANGED <<urgent_q, idle_q, wq, last_q, todo, out>>
      BY DEF Reschedules, Still, taken, workers, user, history
    <2> QED BY <2>1, <2>2, <2>3, <2>4
  <1>7. PICK x \in ExecRecords : /\ exec' = [exec EXCEPT ![th] = x] /\ x.task = t
                                 /\ x.at = "leave" /\ ~x.del
    <2> DEFINE x == [exec[th] EXCEPT !.at = "leave", !.del = FALSE]
    <2>1. exec' = [exec EXCEPT ![th] = x]
      BY <1>6
    <2>2. x \in ExecRecords /\ x.task = t /\ x.at = "leave" /\ ~x.del
      BY <1>1, <1>2 DEF ExecRecords, ExecPlaces
    <2> QED BY <2>1, <2>2
  <1>8. /\ LayerTypes' /\ exec'[th] = x /\ canc'[th] = canc[th] /\ dest'[th] = dest[th]
        /\ \A e \in Executors \ {th} :
              exec'[e] = exec[e] /\ canc'[e] = canc[e] /\ dest'[e] = dest[e]
    <2>1. x.at = "none" <=> x.task = Nobody
      BY <1>2, <1>7
    <2> QED BY <1>2, <1>6, <1>7, <2>1, ExecChanges
  <1>9. /\ chrono_q' \in Seq(Tasks) /\ NoRepeat(chrono_q')
        /\ ToSet(chrono_q') = ToSet(chrono_q) \cup {t}
        /\ \A i, j \in DOMAIN chrono_q' :
              i < j => task'[chrono_q'[i]].m_next_abstime <= task'[chrono_q'[j]].m_next_abstime
        /\ table' = [table EXCEPT ![t] = "ENQUEUED"]
        /\ task' \in [Tasks -> Records]
        /\ \A s \in Tasks \ {t} : task'[s] = task[s]
        /\ task'[t].m_status = "ENQUEUED" /\ task'[t].m_is_in_timed_q
        /\ task'[t].m_exec_ref_count = task[t].m_exec_ref_count
        /\ task'[t].m_cancel_ref_count = task[t].m_cancel_ref_count
        /\ task'[t].m_is_first = task[t].m_is_first /\ task'[t].m_do_repeat = task[t].m_do_repeat
    BY <1>2, <1>4, <1>5, <1>6, DoSchedDoes
  <1>10. /\ table' \in [Tasks -> States] /\ table'[t] = "ENQUEUED"
         /\ \A o \in Tasks \ {t} : table'[o] = table[o]
    BY <1>2, <1>9, TableChanges DEF States
  <1>11. TypeOK'
    <2>1. LoopTypes' /\ UserTypes'
      BY <1>2, <1>5, <1>6, TypesFrame
    <2>2. TaskTypes' /\ QueueTypes'
      BY <1>2, <1>5, <1>6, <1>9, <1>10 DEF TaskTypes, QueueTypes, Still, W
    <2> QED BY <1>8, <2>1, <2>2 DEF TypeOK
  <1>12. LoopSound' /\ StageSound'
    BY <1>5, <1>6, ControlFrame
  <1>13. Emptied'
    <2>1. \A w \in AllWorkers \ W : wq'[w] = <<>>
      BY <1>6 DEF IInv, Emptied
    <2> QED BY <1>3, <1>6, <2>1, FilledStep
  <1>14. Submits'
    <2>1. \A s \in Tasks : St(s) = "CREATED" => St(s)' = "CREATED"
      BY <1>4, <1>9 DEF St
    <2> QED BY <1>5, <1>6, <2>1, SubmitsFrame DEF Still
  <1>15. QueuesSound'
    BY <1>5, <1>6, <1>9 DEF QueuesSound
  <1>16. ASSUME NEW e \in Executors PROVE ThreadSound(e)'
    <2>1. CASE e = th
      BY <1>2, <1>3, <1>6, <1>7, <1>8, <2>1 DEF ThreadSound, Away, Alone, W, Still
    <2>2. CASE e # th
      <3>1. SameThread(e)
        BY <1>6, <1>8, <2>2 DEF SameThread
      <3> QED BY <1>5, <1>6, <3>1, ThreadFrame DEF Still
    <2> QED BY <2>1, <2>2
  <1>17. TaskSound(t)'
    <2>1. Moved(t, "timed", Nobody)
      <3>1. OnlyIn(t, "timed", Nobody)'
        <4>1. \A d \in Executors : ~(t = exec'[d].task /\ Main(exec'[d]))
          BY <1>3, <1>7, <1>8 DEF OnlyIn, Main
        <4> QED BY <1>3, <1>6, <1>9, <4>1 DEF OnlyIn
      <3>2. InHand(t, "timed", Nobody)'
        BY <1>9 DEF InHand
      <3>3. Both(t, Says("timed", Nobody))'
        BY <1>9, <1>10 DEF Both, St, Says
      <3>4. \A d \in Executors : /\ t # dest'[d].task
                                 /\ t = exec'[d].task => exec'[d].at = "begin" \/ ~Main(exec'[d])
        <4>1. \A d \in Executors : t # dest'[d].task
          BY <1>3, <1>6
        <4>2. ASSUME NEW d \in Executors, t = exec'[d].task
              PROVE  exec'[d].at = "begin" \/ ~Main(exec'[d])
          <5>1. CASE d = th
            BY <1>7, <1>8, <5>1 DEF Main
          <5>2. CASE d # th
            <6>1. exec'[d] = exec[d]
              BY <1>8, <5>2
            <6> QED BY <1>3, <4>2, <5>2, <6>1 DEF OnlyIn
          <5> QED BY <5>1, <5>2
        <4> QED BY <4>1, <4>2
      <3>5. CancelSound(t)'
        <4>1. \A e \in Executors : t # canc[e].task
          <5> SUFFICES ASSUME NEW e \in Executors, t = canc[e].task PROVE FALSE
            OBVIOUS
          <5> QED BY <1>2, <1>3, WhoCancels
        <4> QED BY <1>6, <4>1 DEF CancelSound
      <3>6. CountSound(t)'
        <4>1. th \in Counted(t)' /\ th \in Counted(t)
          BY <1>1, <1>2, <1>7, <1>8 DEF Counted
        <4>2. IsFiniteSet(Counted(t)') /\ Cardinality(Counted(t)') = Ref(t)
          BY <1>2, <1>8, <4>1, CountChanges DEF TaskSound
        <4> QED BY <1>9, <4>2 DEF CountSound, Ref
      <3>7. OneShot(t)' /\ t \notin canceled' /\ t \notin freed' /\ InQ(t)'
            /\ task'[t].m_cancel_ref_count = 0 /\ St(t)' = "ENQUEUED"
        BY <1>2, <1>3, <1>4, <1>6, <1>9 DEF OneShot, InQ, TaskSound, CanceledSound, Both, St
      <3> QED BY <3>1, <3>2, <3>3, <3>4, <3>5, <3>6, <3>7 DEF Moved
    <2>2. Sched \notin AllWorkers
      BY <1>5, WhoIsWho
    <2> QED BY <2>1, <2>2, MovedSound DEF Kinds, Places
  <1>18. \A o \in Tasks \ {t} : Same(o)
    <2>1. \A o \in Tasks \ {t} : SameLayers(o) /\ SameRecord(o)
      BY <1>1, <1>2, <1>6, <1>7, <1>8, <1>9, <1>10, OthersStay
    <2>2. \A o \in Tasks \ {t} : SameQueues(o)
      BY <1>6, <1>9 DEF SameQueues
    <2> QED BY <2>1, <2>2 DEF Same
  <1>19. \A o \in Tasks : Same(o) \/ TaskSound(o)'
    BY <1>17, <1>18
  <1>20. mode' = mode
    BY <1>6 DEF Still
  <1> QED BY <1>11, <1>12, <1>13, <1>14, <1>15, <1>16, <1>19, <1>20, Assembled

LEMMA ExecLocksGlobalKeeps ==
    ASSUME IInv, Orderly, NEW th \in Executors, ExecLocksGlobal(th)
    PROVE  IInv'
  <1>0. At(th, "destroy")
    BY DEF ExecLocksGlobal
  <1>1. PICK t \in Tasks : t = exec[th].task
    BY <1>0, AtFacts
  <1>2. /\ exec[th].at = "destroy" /\ LayerTypes /\ TaskTypes
        /\ ThreadSound(th) /\ TaskSound(t)
        /\ canc[th].at = "none" /\ dest[th].at = "none" /\ Exec(th) = t /\ Nobody \notin Tasks
    BY <1>0, <1>1, AtFacts
  <1>3. /\ OnlyIn(t, "exec", th) /\ t \notin freed /\ (\A d \in Executors : t # dest[d].task)
        /\ ~Away(th) /\ (Alone => th = Sched) /\ St(t) \notin {"UNKNOWN", "CREATED"}
    BY <1>1, <1>2, WhoExecutes DEF Main
  <1>4. /\ Still /\ QueuesStay /\ now' = now /\ start_time' = start_time /\ glock' = th
        /\ canc' = canc /\ freed' = freed /\ canceled' = canceled
        /\ table' = table /\ task' = task /\ tlock' = tlock
        /\ exec' = [exec EXCEPT ![th] = NoExec]
        /\ dest' = [dest EXCEPT ![th] = [at |-> "unsched", task |-> t, unlock |-> TRUE]]
    BY <1>2 DEF ExecLocksGlobal, Destroy, Still, QueuesStay, tasks, queues, loop, taken, workers, user,
                history
  <1>5. /\ exec'[th] = NoExec /\ dest'[th].at = "unsched" /\ dest'[th].task = t
        /\ canc'[th] = canc[th]
        /\ \A e \in Executors \ {th} :
              exec'[e] = exec[e] /\ canc'[e] = canc[e] /\ dest'[e] = dest[e]
    BY <1>2, <1>4 DEF LayerTypes
  <1>6. LayerTypes'
    <2>1. NoExec \in ExecRecords /\ NoExec.at = "none" /\ NoExec.task = Nobody
      BY DEF NoExec, ExecRecords, ExecPlaces, States
    <2>2. [at |-> "unsched", task |-> t, unlock |-> TRUE] \in DestRecords
      BY DEF DestRecords
    <2> QED BY <1>2, <1>4, <2>1, <2>2 DEF LayerTypes
  <1>7. NoExec.at = "none" /\ NoExec.task = Nobody
    BY DEF NoExec
  <1>8. ThreadSound(th)'
    BY <1>2, <1>3, <1>4, <1>5, <1>7 DEF ThreadSound, Away, Alone, W, Still, QueuesStay
  <1>9. Doomed(t, th)
    <2>1. t \notin ToSet(chrono_q)' /\ ~InQ(t)'
      BY <1>2, <1>3, <1>4 DEF OnlyIn, TaskSound, Agreed, InQ, QueuesStay
    <2>2. \A d \in Executors : t = exec[d].task => d = th
      BY <1>1, <1>2 DEF TaskSound, SoleExec, Sole, Main
    <2>3. \A d \in Executors : t # exec'[d].task
      BY <1>2, <1>5, <1>7, <2>2
    <2>4. OnlyIn(t, "dest", th)'
      BY <1>3, <1>4, <1>5, <2>3 DEF OnlyIn, QueuesStay
    <2>5. CountSound(t)'
      <3>1. th \notin Counted(t)' /\ th \notin Counted(t)
        BY <1>2, <2>3 DEF Counted
      <3>2. IsFiniteSet(Counted(t)') /\ Cardinality(Counted(t)') = Ref(t)
        BY <1>2, <1>5, <3>1, CountChanges DEF TaskSound
      <3> QED BY <1>4, <3>2 DEF CountSound, Ref
    <2>6. OneShot(t)'
      BY <1>2, <1>4 DEF TaskSound, OneShot, St
    <2>7. /\ table[t] \in {St(t), "CANCELLED"} /\ St(t) # "DELETING"
          /\ task[t].m_cancel_ref_count = 0 /\ (~Alone => St(t) # "CANCELLED")
      BY <1>2, <1>3 DEF TaskSound, Agreed
    <2>8. /\ table'[t] \in {St(t)', "CANCELLED"} /\ St(t)' \notin {"UNKNOWN", "CREATED", "DELETING"}
          /\ task'[t].m_cancel_ref_count = 0 /\ (~Alone' => St(t)' # "CANCELLED")
      BY <1>3, <1>4, <2>7 DEF St, Alone, W, Still
    <2> QED BY <1>3, <1>4, <1>5, <2>1, <2>3, <2>4, <2>5, <2>6, <2>8 DEF Doomed
  <1>10. TaskSound(t)'
    BY <1>9, DoomedSound, WhoIsWho DEF IInv, TypeOK
  <1>11. \A o \in Tasks \ {t} : SameLayers(o) /\ SameRecord(o)
    <2>1. canc'[th] = canc[th] /\ dest[th].task = Nobody
      BY <1>2, <1>5 DEF LayerTypes
    <2> QED BY <1>1, <1>2, <1>4, <1>5, <1>7, <2>1, OthersStay
  <1>12. TaskTypes' /\ glock' \in Executors \cup {Nobody}
    BY <1>2, <1>4 DEF TaskTypes
  <1>13. St(t)' = St(t) /\ \A s \in Tasks : task'[s].m_next_abstime = task[s].m_next_abstime
    BY <1>4 DEF St
  <1> QED BY <1>4, <1>5, <1>6, <1>8, <1>10, <1>11, <1>12, <1>13, LayerStep

\* The procedure changes its task's interval.
LEMMA ResetIntervalKeeps ==
    ASSUME IInv, Orderly, NEW th \in Executors, NEW i \in Intervals, ResetInterval(th, i)
    PROVE  IInv'
  <1>0. At(th, "running")
    BY DEF ResetInterval
  <1>1. PICK t \in Tasks : t = exec[th].task
    BY <1>0, AtFacts
  <1>2. /\ LayerTypes /\ TaskTypes /\ ThreadSound(th) /\ TaskSound(t) /\ task[t] \in Records
        /\ Exec(th) = t /\ glock \in Executors \cup {Nobody} /\ i \in Int
    BY <1>0, <1>1, AtFacts, CalloutAssumption
  <1>3. /\ Still /\ QueuesStay /\ now' = now /\ start_time' = start_time /\ glock' = glock
        /\ canc' = canc /\ dest' = dest /\ exec' = exec /\ freed' = freed /\ canceled' = canceled
        /\ table' = table /\ tlock' = tlock
        /\ task' = [task EXCEPT ![t] = [task[t] EXCEPT !.m_interval_time = i]]
    BY <1>2 DEF ResetInterval, Still, QueuesStay, queues, loop, taken, workers, user, layers, history
  <1>4. PICK r \in Records :
           /\ r = [task[t] EXCEPT !.m_interval_time = i]
           /\ r.m_status = task[t].m_status /\ r.m_exec_ref_count = task[t].m_exec_ref_count
           /\ r.m_cancel_ref_count = task[t].m_cancel_ref_count
           /\ r.m_do_repeat = task[t].m_do_repeat /\ r.m_is_first = task[t].m_is_first
           /\ r.m_is_in_timed_q = task[t].m_is_in_timed_q /\ r.m_next_abstime = task[t].m_next_abstime
    <2> DEFINE s == [task[t] EXCEPT !.m_interval_time = i]
    <2>1. s = [task[t] EXCEPT !.m_interval_time = i]
      OBVIOUS
    <2>2. /\ s \in Records
          /\ s.m_status = task[t].m_status /\ s.m_exec_ref_count = task[t].m_exec_ref_count
          /\ s.m_cancel_ref_count = task[t].m_cancel_ref_count
          /\ s.m_do_repeat = task[t].m_do_repeat /\ s.m_is_first = task[t].m_is_first
          /\ s.m_is_in_timed_q = task[t].m_is_in_timed_q /\ s.m_next_abstime = task[t].m_next_abstime
      <3>1. task[t] \in Records /\ i \in Int
        BY <1>2
      <3> QED BY <3>1, IntervalRecord
    <2> HIDE DEF s
    <2> QED BY <2>1, <2>2
  <1>5. /\ task' \in [Tasks -> Records] /\ task'[t] = r
        /\ \A o \in Tasks \ {t} : task'[o] = task[o]
    BY <1>2, <1>3, <1>4, TaskChanges
  <1>6. /\ \A o \in Tasks : SameRecord(o)
        /\ \A o \in Tasks : task'[o].m_next_abstime = task[o].m_next_abstime
    BY <1>3, <1>4, <1>5 DEF SameRecord, St, InQ, Ref
  <1>7. \A o \in Tasks : Same(o)
    BY <1>3, <1>6 DEF Same, SameQueues, SameLayers, QueuesStay
  <1>8. TaskSound(t)'
    BY <1>2, <1>3, <1>7, TaskFrame DEF Still
  <1>9. TaskTypes' /\ LayerTypes'
    BY <1>2, <1>3, <1>5 DEF TaskTypes, LayerTypes
  <1>10. ThreadSound(th)'
    BY <1>2, <1>3, ThreadFrame DEF SameThread, Still, QueuesStay
  <1>11. /\ \A s \in Tasks \ {t} : SameLayers(s) /\ SameRecord(s)
         /\ \A e \in Executors \ {th} : exec'[e] = exec[e] /\ canc'[e] = canc[e] /\ dest'[e] = dest[e]
         /\ St(t) = "CREATED" => St(t)' = "CREATED"
    BY <1>3, <1>6, <1>7 DEF Same, SameRecord
  <1> QED BY <1>2, <1>3, <1>6, <1>8, <1>9, <1>10, <1>11, LayerStep

-----------------------------------------------------------------------------
(* s_cancel.                                                               *)

LEMMA CancFacts ==
    ASSUME IInv, Orderly, NEW th \in Executors, canc[th].at # "none"
    PROVE  /\ LayerTypes /\ TaskTypes /\ ThreadSound(th) /\ canc[th] \in CancRecords
           /\ canc[th].task \in Tasks /\ TaskSound(canc[th].task) /\ canc[th].task \notin freed
           /\ task[canc[th].task] \in Records /\ Nobody \notin Tasks
           /\ glock \in Executors \cup {Nobody}
           /\ th = Sched /\ mode.cancels = "procs" /\ Alone /\ spc = "run"
           /\ exec[th].at = "running" /\ dest[th].at = "none"
           /\ canc[th].at \in {"count", "ENQUEUED", "DEQUEUED"}
           /\ \A e \in Executors : canc[th].task # exec[e].task
           /\ Ref(canc[th].task) = 0
  <1>1. /\ LayerTypes /\ TaskTypes /\ ThreadSound(th) /\ Nobody \notin Tasks
        /\ glock \in Executors \cup {Nobody}
    BY WhoIsWho DEF IInv, TypeOK, LoopTypes
  <1>2. /\ th = Sched /\ mode.cancels = "procs" /\ Alone /\ spc = "run"
        /\ exec[th].at = "running" /\ dest[th].at = "none"
        /\ canc[th].task \in Tasks /\ canc[th].task # exec[th].task
    BY WhoCancels
  <1>3. \A e \in Executors : canc[th].task # exec[e].task
    <2> SUFFICES ASSUME NEW e \in Executors, canc[th].task = exec[e].task PROVE FALSE
      OBVIOUS
    <2>1. exec[e].at # "none"
      BY <1>1, <1>2 DEF LayerTypes
    <2> QED BY <1>2, <2>1, WhoExecutes
  <1>4. TaskSound(canc[th].task) /\ task[canc[th].task] \in Records /\ canc[th].task \notin freed
    BY <1>1, <1>2 DEF IInv, TaskTypes, TaskSound, FreedSound
  <1>5. Ref(canc[th].task) = 0
    <2>1. Counted(canc[th].task) = {}
      BY <1>3 DEF Counted
    <2> QED BY <1>4, <2>1, FS_EmptySet DEF TaskSound, CountSound
  <1>6. canc[th] \in CancRecords /\ canc[th].at \in {"count", "ENQUEUED", "DEQUEUED"}
    BY <1>1 DEF LayerTypes, CancRecords
  <1> QED BY <1>1, <1>2, <1>3, <1>4, <1>5, <1>6

\* A canceller that looks, or returns.
LEMMA CancelLooksKeeps ==
    ASSUME IInv, Orderly, NEW th \in Executors, NEW t \in Tasks, CancelLooks(th, t)
    PROVE  IInv'
  <1>0. /\ LayerTypes /\ TaskTypes /\ ThreadSound(th) /\ TaskSound(t) /\ LoopTypes
        /\ table[t] \in States /\ glock \in Executors \cup {Nobody} /\ Nobody \notin Tasks
    BY WhoIsWho DEF IInv, TypeOK, TaskTypes, LoopTypes
  <1>1. /\ canc[th].at = "none" /\ dest[th].at = "none" /\ table[t] \notin {"UNKNOWN", "CANCELLED"}
        /\ mode.cancels = "procs" /\ exec[th].at = "running" /\ exec[th].task # t
    BY <1>0, WhoIsWho DEF CancelLooks, MayCancel
  <1>2. Alone /\ th = Sched /\ ~Away(th)
    BY <1>0, <1>1, WhoIsWho, WhoExecutes
  <1>3. /\ Still /\ QueuesStay /\ now' = now /\ start_time' = start_time /\ glock' = glock
        /\ exec' = exec /\ dest' = dest /\ freed' = freed /\ canceled' = canceled
        /\ table' = table /\ tlock' = tlock /\ task' = task
        /\ canc' = [canc EXCEPT ![th] = [at |-> "count", task |-> t, seen |-> table[t]]]
    BY DEF CancelLooks, Still, QueuesStay, tasks, queues, loop, taken, workers, user, history
  <1>4. PICK c \in CancRecords : c = [at |-> "count", task |-> t, seen |-> table[t]]
    BY <1>0 DEF CancRecords
  <1>5. /\ LayerTypes' /\ canc'[th] = c /\ exec'[th] = exec[th] /\ dest'[th] = dest[th]
        /\ \A e \in Executors \ {th} :
              exec'[e] = exec[e] /\ canc'[e] = canc[e] /\ dest'[e] = dest[e]
    <2>1. c.at = "none" <=> c.task = Nobody
      BY <1>0, <1>4
    <2> QED BY <1>0, <1>3, <1>4, <2>1, CancChanges
  <1>6. ThreadSound(th)'
    BY <1>0, <1>1, <1>2, <1>3, <1>4, <1>5 DEF ThreadSound, Away, Alone, W, Still, QueuesStay
  <1>7. \A o \in Tasks : SameRecord(o) /\ SameQueues(o) /\ Overlooked(o)
    BY <1>3 DEF SameRecord, SameQueues, Overlooked, QueuesStay, St, InQ, Ref
  <1>8. TaskSound(t)'
    <2>1. \A e \in Executors : t = canc[e].task => FALSE
      <3> SUFFICES ASSUME NEW e \in Executors, t = canc[e].task PROVE FALSE
        OBVIOUS
      <3> QED BY <1>0, <1>1, <1>2, WhoCancels
    <2>2. \A e \in Executors : t = canc'[e].task => e = th
      BY <1>5, <2>1
    <2>3. CancelSound(t)'
      <3>1. table[t] = "DEQUEUED" => t \notin ToSet(chrono_q)
        BY <1>0 DEF TaskSound, Stated, Both
      <3> QED BY <1>3, <1>4, <1>5, <2>2, <3>1 DEF CancelSound, QueuesStay
    <2>4. t \notin freed
      BY <1>0, <1>1 DEF TaskSound, Agreed
    <2>5. St(t) \in {"UNKNOWN", "CREATED"} => table[t] = "CREATED"
      BY <1>0, <1>1, <2>4 DEF TaskSound, Agreed
    <2> QED BY <1>0, <1>3, <1>4, <1>5, <1>7, <2>2, <2>3, <2>4, <2>5, CancFrame DEF Still
  <1>9. \A o \in Tasks \ {t} : SameLayers(o) /\ SameRecord(o)
    <2>1. \A o \in Tasks \ {t} : SameLayers(o)
      BY <1>0, <1>1, <1>4, <1>5 DEF SameLayers, LayerTypes
    <2> QED BY <1>7, <2>1
  <1>10. TaskTypes' /\ St(t)' = St(t) /\ \A s \in Tasks : task'[s].m_next_abstime = task[s].m_next_abstime
    BY <1>0, <1>3 DEF TaskTypes, St
  <1> QED BY <1>0, <1>3, <1>5, <1>6, <1>8, <1>9, <1>10, LayerStep

LEMMA CancelCountsKeeps ==
    ASSUME IInv, Orderly, NEW th \in Executors, CancelCounts(th)
    PROVE  IInv'
  <1>0. canc[th].at = "count"
    BY DEF CancelCounts, CancAt
  <1>1. PICK t \in Tasks : t = canc[th].task
    BY <1>0, CancFacts
  <1>2. /\ LayerTypes /\ TaskTypes /\ ThreadSound(th) /\ TaskSound(t) /\ t \notin freed
        /\ canc[th] \in CancRecords /\ Nobody \notin Tasks /\ glock \in Executors \cup {Nobody}
        /\ th = Sched /\ mode.cancels = "procs" /\ Alone /\ spc = "run"
        /\ exec[th].at = "running" /\ dest[th].at = "none" /\ Ref(t) = 0
        /\ \A e \in Executors : t # exec[e].task
    BY <1>0, <1>1, CancFacts
  <1>3. PICK c \in CancRecords :
           /\ canc' = [canc EXCEPT ![th] = c]
           /\ \/ c = NoCanc
              \/ c.at = canc[th].seen /\ c.seen = canc[th].seen /\ c.task = t
                 /\ c.at \in {"ENQUEUED", "DEQUEUED"}
    <2>1. task[t].m_exec_ref_count = 0
      BY <1>2 DEF Ref
    <2>2. CASE canc[th].seen \in {"ENQUEUED", "DEQUEUED"}
      <3> DEFINE c == [canc[th] EXCEPT !.at = canc[th].seen]
      <3>1. canc' = [canc EXCEPT ![th] = c]
        BY <1>1, <2>1, <2>2 DEF CancelCounts
      <3>2. /\ c \in CancRecords /\ c.at = canc[th].seen /\ c.seen = canc[th].seen /\ c.task = t
        BY <1>1, <1>2, <2>2 DEF CancRecords
      <3> QED BY <2>2, <3>1, <3>2
    <2>3. CASE canc[th].seen \notin {"ENQUEUED", "DEQUEUED"}
      <3>1. canc' = [canc EXCEPT ![th] = NoCanc]
        BY <1>1, <2>1, <2>3 DEF CancelCounts
      <3>2. NoCanc \in CancRecords
        BY DEF NoCanc, CancRecords, States
      <3> QED BY <3>1, <3>2
    <2> QED BY <2>2, <2>3
  <1>4. /\ Still /\ QueuesStay /\ now' = now /\ start_time' = start_time /\ glock' = glock
        /\ exec' = exec /\ dest' = dest /\ freed' = freed /\ canceled' = canceled
        /\ table' = table /\ tlock' = tlock /\ task' = task
    BY DEF CancelCounts, Still, QueuesStay, tasks, queues, loop, taken, workers, user, history
  <1>n. NoCanc.at = "none" /\ NoCanc.task = Nobody
    BY DEF NoCanc
  <1>5. /\ LayerTypes' /\ canc'[th] = c /\ exec'[th] = exec[th] /\ dest'[th] = dest[th]
        /\ \A e \in Executors \ {th} :
              exec'[e] = exec[e] /\ canc'[e] = canc[e] /\ dest'[e] = dest[e]
    <2>1. c.at = "none" <=> c.task = Nobody
      BY <1>2, <1>3, <1>n
    <2> QED BY <1>2, <1>3, <1>4, <2>1, CancChanges
  <1>6. ThreadSound(th)'
    BY <1>1, <1>2, <1>3, <1>4, <1>5, <1>n DEF ThreadSound, Away, Alone, W, Still, QueuesStay
  <1>7. \A o \in Tasks : SameRecord(o) /\ SameQueues(o) /\ Overlooked(o)
    BY <1>4 DEF SameRecord, SameQueues, Overlooked, QueuesStay, St, InQ, Ref
  <1>8. TaskSound(t)'
    <2>1. \A e \in Executors : t = canc[e].task => e = th
      <3> SUFFICES ASSUME NEW e \in Executors, t = canc[e].task PROVE e = th
        OBVIOUS
      <3> QED BY <1>2, WhoCancels
    <2>2. \A e \in Executors : t = canc'[e].task => e = th /\ c # NoCanc
      BY <1>2, <1>5, <1>n, <2>1
    <2>3. CancelSound(t)'
      <3>1. canc[th].seen = "DEQUEUED" => t \notin ToSet(chrono_q)
        BY <1>0, <1>1, <1>2 DEF TaskSound, CancelSound
      <3> QED BY <1>3, <1>4, <1>5, <2>2, <3>1 DEF CancelSound, QueuesStay
    <2>4. St(t) \in {"UNKNOWN", "CREATED"} => canc[th].seen = "CREATED"
      BY <1>1, <1>2 DEF TaskSound, FreshSound
    <2>5. \A e \in Executors : t = canc'[e].task => St(t) \notin {"UNKNOWN", "CREATED"}
      BY <1>3, <1>5, <2>2, <2>4
    <2> QED BY <1>2, <1>4, <1>7, <2>3, <2>5, CancFrame DEF Still
  <1>9. \A o \in Tasks \ {t} : SameLayers(o) /\ SameRecord(o)
    <2>1. \A o \in Tasks \ {t} : SameLayers(o)
      BY <1>1, <1>2, <1>3, <1>5, <1>n DEF SameLayers
    <2> QED BY <1>7, <2>1
  <1>10. TaskTypes' /\ St(t)' = St(t) /\ \A s \in Tasks : task'[s].m_next_abstime = task[s].m_next_abstime
    BY <1>2, <1>4 DEF TaskTypes, St
  <1> QED BY <1>2, <1>4, <1>5, <1>6, <1>8, <1>9, <1>10, LayerStep

\* Where the main loop runs and cancels the tasks, nobody waits for an executor.
LEMMA NoJoining ==
    ASSUME IInv, Orderly, NEW th \in Executors, CancelJoins(th) \/ CancelWaits(th) \/ CancelLast(th)
    PROVE  FALSE
  <1>1. canc[th].at \in {"join", "wait", "last"}
    BY DEF CancelJoins, CancelWaits, CancelLast, CancAt
  <1>2. canc[th] \in CancRecords
    BY <1>1, CancFacts
  <1> QED BY <1>1, <1>2 DEF CancRecords

\* What a canceller may assume of the task that it is about to cancel.
LEMMA CancelFacts ==
    ASSUME IInv, OneUser, Orderly, NEW th \in Executors, canc[th].at \in {"ENQUEUED", "DEQUEUED"}
    PROVE  LET t == canc[th].task
           IN  /\ \A e \in Executors : t # exec[e].task /\ t # dest[e].task /\ (t = canc[e].task => e = th)
               /\ St(t) \notin {"UNKNOWN", "CREATED"} /\ Handed(t)
               /\ canc[th].at = "DEQUEUED" => t \notin ToSet(chrono_q)
  <1>1. PICK t \in Tasks : t = canc[th].task
    BY CancFacts
  <1>2. /\ LayerTypes /\ TaskTypes /\ ThreadSound(th) /\ TaskSound(t) /\ t \notin freed
        /\ th = Sched /\ Alone /\ spc = "run" /\ dest[th].at = "none" /\ Nobody \notin Tasks
        /\ \A e \in Executors : t # exec[e].task
    BY <1>1, CancFacts
  <1>3. \A e \in Executors : t # dest[e].task
    <2> SUFFICES ASSUME NEW e \in Executors, t = dest[e].task PROVE FALSE
      OBVIOUS
    <2>1. dest[e].at # "none"
      BY <1>2 DEF LayerTypes
    <2>2. e \in Users /\ upc[e] \in Clearing
      BY <1>2, <2>1 DEF IInv, ThreadSound
    <2>3. spc \in Resting
      BY <2>2 DEF IInv, LoopSound
    <2> QED BY <1>2, <2>3 DEF Resting
  <1>4. St(t) \notin {"UNKNOWN", "CREATED"}
    BY <1>1, <1>2 DEF TaskSound, FreshSound
  <1>5. Handed(t)
    <2>1. table[t] \notin {"UNKNOWN", "CREATED"}
      BY <1>2, <1>4 DEF TaskSound, Agreed
    <2> QED BY <1>2, <2>1 DEF TaskSound, Kept
  <1>6. \A e \in Executors : t = canc[e].task => e = th
    <2> SUFFICES ASSUME NEW e \in Executors, t = canc[e].task PROVE e = th
      OBVIOUS
    <2> QED BY <1>2, WhoCancels
  <1>7. canc[th].at = "DEQUEUED" => t \notin ToSet(chrono_q)
    BY <1>1, <1>2 DEF TaskSound, CancelSound
  <1> QED BY <1>1, <1>2, <1>3, <1>4, <1>5, <1>6, <1>7

\* A canceller returns, and somebody else will destroy the task.
CancelMarks(th, t) ==
    /\ canc[th].at \in {"ENQUEUED", "DEQUEUED"} /\ t = canc[th].task
    /\ t \notin ToSet(chrono_q)
    /\ SetBoth(t, "CANCELLED")
    /\ CancelReturns(th)
    /\ Still /\ QueuesStay /\ now' = now /\ start_time' = start_time /\ glock' = glock
    /\ exec' = exec /\ dest' = dest /\ freed' = freed /\ tlock' = tlock
    /\ canceled' = canceled \cup {t}

LEMMA CancelMarksKeeps ==
    ASSUME IInv, OneUser, Orderly, NEW th \in Executors, NEW t \in Tasks, CancelMarks(th, t)
    PROVE  IInv'
  <1>0. canc[th].at \in {"ENQUEUED", "DEQUEUED"} /\ t = canc[th].task /\ t \notin ToSet(chrono_q)
    BY DEF CancelMarks
  <1>1. /\ LayerTypes /\ TaskTypes /\ ThreadSound(th) /\ TaskSound(t) /\ t \notin freed
        /\ task[t] \in Records /\ Nobody \notin Tasks /\ glock \in Executors \cup {Nobody}
        /\ th = Sched /\ Alone /\ spc = "run"
    BY <1>0, CancFacts
  <1>2. /\ \A e \in Executors : t # exec[e].task /\ t # dest[e].task /\ (t = canc[e].task => e = th)
        /\ St(t) \notin {"UNKNOWN", "CREATED"} /\ Handed(t)
    BY <1>0, CancelFacts
  <1>3. /\ Still /\ QueuesStay /\ now' = now /\ start_time' = start_time /\ glock' = glock
        /\ exec' = exec /\ dest' = dest /\ freed' = freed /\ tlock' = tlock
        /\ canceled' = canceled \cup {t}
    BY DEF CancelMarks
  <1>4. PICK r \in Records :
           /\ task' = [task EXCEPT ![t] = r]
           /\ r.m_status = "CANCELLED" /\ r.m_exec_ref_count = task[t].m_exec_ref_count
           /\ r.m_cancel_ref_count = task[t].m_cancel_ref_count
           /\ r.m_is_in_timed_q = task[t].m_is_in_timed_q /\ r.m_next_abstime = task[t].m_next_abstime
    <2> DEFINE r == [task[t] EXCEPT !.m_status = "CANCELLED"]
    <2>1. task' = [task EXCEPT ![t] = r]
      BY DEF CancelMarks, SetBoth
    <2>2. /\ r \in Records /\ r.m_status = "CANCELLED" /\ r.m_exec_ref_count = task[t].m_exec_ref_count
          /\ r.m_cancel_ref_count = task[t].m_cancel_ref_count
          /\ r.m_is_in_timed_q = task[t].m_is_in_timed_q /\ r.m_next_abstime = task[t].m_next_abstime
      BY <1>1, StatusOnly DEF States
    <2> QED BY <2>1, <2>2
  <1>5. /\ task' \in [Tasks -> Records] /\ task'[t] = r
        /\ \A o \in Tasks \ {t} : task'[o] = task[o]
    BY <1>1, <1>4, TaskChanges
  <1>6. /\ table' \in [Tasks -> States] /\ table'[t] = "CANCELLED"
        /\ \A o \in Tasks \ {t} : table'[o] = table[o]
    <2>1. table' = [table EXCEPT ![t] = "CANCELLED"] /\ "CANCELLED" \in States
      BY DEF CancelMarks, SetBoth, States
    <2> QED BY <1>1, <2>1, TableChanges
  <1>n. NoCanc \in CancRecords /\ NoCanc.at = "none" /\ NoCanc.task = Nobody
    BY DEF NoCanc, CancRecords, States
  <1>7. /\ LayerTypes' /\ canc'[th] = NoCanc /\ exec'[th] = exec[th] /\ dest'[th] = dest[th]
        /\ \A e \in Executors \ {th} :
              exec'[e] = exec[e] /\ canc'[e] = canc[e] /\ dest'[e] = dest[e]
    <2>1. canc' = [canc EXCEPT ![th] = NoCanc]
      BY DEF CancelMarks, CancelReturns
    <2> QED BY <1>1, <1>3, <1>n, <2>1, CancChanges
  <1>8. TaskTypes'
    BY <1>1, <1>3, <1>5, <1>6 DEF TaskTypes
  <1>9. ThreadSound(th)'
    BY <1>1, <1>3, <1>7, <1>n DEF ThreadSound, Away, Alone, W, Still, QueuesStay
  <1>10. /\ St(t)' = "CANCELLED" /\ table'[t] = "CANCELLED" /\ InQ(t)' = InQ(t) /\ Ref(t)' = Ref(t)
         /\ task'[t].m_cancel_ref_count = 0 /\ (Alone' <=> Alone)
    BY <1>1, <1>3, <1>4, <1>5, <1>6 DEF St, InQ, Ref, TaskSound, Agreed, Alone, W, Still
  <1>11. TaskSound(t)'
    <2>1. SameHands(t)
      BY <1>3 DEF SameHands, SameQueues, QueuesStay
    <2>2. Apart(t)' /\ Handed(t)'
      BY <1>1, <1>2, <2>1, HandsFrame DEF TaskSound
    <2>3. SoleExec(t)' /\ SoleDest(t)'
      BY <1>2, <1>3 DEF SoleExec, SoleDest
    <2>4. \A S : Both(t, S)' <=> "CANCELLED" \in S
      BY <1>10 DEF Both
    <2>5. Stated(t)'
      BY <1>0, <1>2, <1>3, <2>4 DEF Stated, QueuesStay
    <2>6. Agreed(t)'
      BY <1>1, <1>3, <1>10 DEF Agreed, TaskSound, QueuesStay
    <2>7. FreshSound(t)' /\ FreedSound(t)' /\ CanceledSound(t)' /\ Kept(t)' /\ OneShot(t)'
      BY <1>1, <1>3, <1>10, <2>2, <2>4 DEF FreshSound, FreedSound, CanceledSound, Kept, OneShot
    <2>8. CancelSound(t)'
      BY <1>0, <1>3 DEF CancelSound, QueuesStay
    <2>9. CountSound(t)'
      <3>1. Counted(t)' = Counted(t)
        BY <1>3 DEF Counted
      <3> QED BY <1>1, <1>10, <3>1 DEF CountSound, TaskSound
    <2> QED BY <2>2, <2>3, <2>5, <2>6, <2>7, <2>8, <2>9 DEF TaskSound
  <1>12. \A o \in Tasks \ {t} : SameLayers(o) /\ SameRecord(o)
    BY <1>0, <1>1, <1>3, <1>5, <1>6, <1>7, <1>n, OthersStay
  <1>13. St(t) # "CREATED" /\ \A s \in Tasks : task'[s].m_next_abstime = task[s].m_next_abstime
    BY <1>2, <1>4, <1>5
  <1> QED BY <1>1, <1>3, <1>7, <1>8, <1>9, <1>11, <1>12, <1>13, LayerStep

LEMMA CancelDequeuedKeeps ==
    ASSUME IInv, OneUser, Orderly, NEW th \in Executors, CancelDequeued(th)
    PROVE  IInv'
  <1>1. canc[th].at = "DEQUEUED"
    BY DEF CancelDequeued, CancAt
  <1>2. PICK t \in Tasks : t = canc[th].task
    BY <1>1, CancFacts
  <1>3. t \notin ToSet(chrono_q)
    BY <1>1, <1>2, CancelFacts
  <1>4. CancelMarks(th, t)
    BY <1>1, <1>2, <1>3
       DEF CancelDequeued, CancelMarks, Still, QueuesStay, queues, loop, taken, workers, user
  <1> QED BY <1>4, CancelMarksKeeps

LEMMA CancelEnqueuedKeeps ==
    ASSUME IInv, OneUser, Orderly, NEW th \in Executors, CancelEnqueued(th)
    PROVE  IInv'
  <1>0. canc[th].at = "ENQUEUED"
    BY DEF CancelEnqueued, CancAt
  <1>1. PICK t \in Tasks : t = canc[th].task
    BY <1>0, CancFacts
  <1>2. /\ LayerTypes /\ TaskTypes /\ ThreadSound(th) /\ TaskSound(t) /\ t \notin freed
        /\ Nobody \notin Tasks /\ glock \in Executors \cup {Nobody}
        /\ th = Sched /\ mode.cancels = "procs" /\ Alone /\ spc = "run"
        /\ exec[th].at = "running" /\ dest[th].at = "none"
    BY <1>0, <1>1, CancFacts
  <1>3. /\ \A e \in Executors : t # exec[e].task /\ t # dest[e].task /\ (t = canc[e].task => e = th)
        /\ St(t) \notin {"UNKNOWN", "CREATED"}
    BY <1>0, <1>1, CancelFacts
  <1>4. CASE ~Deletable(t)
    <2>1. t \notin ToSet(chrono_q)
      BY <1>2, <1>4 DEF Deletable, TaskSound, Agreed, InQ
    <2>2. CancelMarks(th, t)
      BY <1>0, <1>1, <1>4, <2>1
         DEF CancelEnqueued, CancelMarks, Still, QueuesStay, queues, loop, taken, workers, user
    <2> QED BY <2>2, CancelMarksKeeps
  <1>5. CASE Deletable(t)
    <2>1. t \in ToSet(chrono_q) /\ Both(t, {"ENQUEUED"}) /\ OnlyIn(t, "timed", Nobody)
      <3>1. t \in ToSet(chrono_q)
        BY <1>2, <1>5 DEF Deletable, TaskSound, Agreed, InQ
      <3>2. InHand(t, "timed", Nobody)
        BY <3>1 DEF InHand
      <3>3. OnlyIn(t, "timed", Nobody)
        BY <1>2, <3>2, OnlyInHand, WhoIsWho DEF Kinds, Places, TaskSound, IInv, TypeOK
      <3> QED BY <1>2, <3>1, <3>3 DEF TaskSound, Stated
    <2>2. /\ Still /\ QueuesStay /\ now' = now /\ start_time' = start_time /\ glock' = glock
          /\ exec' = exec /\ freed' = freed /\ tlock' = tlock /\ task' = task /\ table' = table
          /\ canceled' = canceled \cup {t}
          /\ canc' = [canc EXCEPT ![th] = NoCanc]
          /\ dest' = [dest EXCEPT ![th] = [at |-> "unsched", task |-> t, unlock |-> FALSE]]
      BY <1>1, <1>5 DEF CancelEnqueued, CancelReturns, Destroy, Still, QueuesStay, queues, loop,
                        taken, workers, user
    <2>n. /\ NoCanc \in CancRecords /\ NoCanc.at = "none" /\ NoCanc.task = Nobody
          /\ [at |-> "unsched", task |-> t, unlock |-> FALSE] \in DestRecords
      BY DEF NoCanc, CancRecords, DestRecords, States
    <2>3. /\ LayerTypes' /\ canc'[th] = NoCanc /\ exec'[th] = exec[th]
          /\ dest'[th].at = "unsched" /\ dest'[th].task = t
          /\ \A e \in Executors \ {th} :
                exec'[e] = exec[e] /\ canc'[e] = canc[e] /\ dest'[e] = dest[e]
      BY <1>2, <2>2, <2>n DEF LayerTypes
    <2>4. TaskTypes'
      BY <1>2, <2>2 DEF TaskTypes
    <2>5. ThreadSound(th)'
      BY <1>2, <2>2, <2>3, <2>n, WhoIsWho DEF ThreadSound, Away, Alone, W, Still, QueuesStay
    <2>6. Alone' /\ mode'.cancels = "procs"
      BY <1>2, <2>2 DEF Alone, W, Still
    <2>7. TaskSound(t)'
      <3>1. Apart(t)' /\ Handed(t)'
        <4>1. OnlyIn(t, "timed", Nobody)' /\ t \in ToSet(chrono_q)'
          BY <1>3, <2>1, <2>2, <2>3 DEF OnlyIn, QueuesStay
        <4>2. Apart(t)'
          BY <4>1, ApartAgain DEF Kinds, Places
        <4>3. InHand(t, "timed", Nobody)'
          BY <4>1 DEF InHand
        <4>4. Handed(t)'
          BY <4>3 DEF Handed, Kinds, Places
        <4> QED BY <4>2, <4>4
      <3>2. SoleExec(t)'
        BY <1>3, <2>2 DEF SoleExec
      <3>3. \A e \in Executors : t = dest'[e].task => e = th
        BY <1>3, <2>3
      <3>4. SoleDest(t)'
        BY <1>2, <1>3, <2>2, <2>3, <2>6, <3>3 DEF SoleDest
      <3>5. St(t)' = "ENQUEUED" /\ table'[t] = "ENQUEUED" /\ Both(t, {"ENQUEUED"})'
        BY <2>1, <2>2 DEF Both, St
      <3>6. Stated(t)'
        <4>1. /\ t \notin ToSet(urgent_q)' /\ t \notin ToSet(idle_q)'
              /\ \A w \in AllWorkers : t \notin ToSet(wq[w])'
              /\ \A d \in Executors : t \notin ToSet(todo[d])' /\ t \notin Sent(out[d])'
          BY <2>1, <2>2 DEF OnlyIn, QueuesStay
        <4>2. \A e \in Executors : t # exec'[e].task /\ (t = dest'[e].task => dest'[e].at # "delete")
          BY <1>3, <2>2, <2>3, <3>3
        <4>3. AllWorkers \subseteq Executors /\ AllWorkers' = AllWorkers
          BY DEF Executors, AllWorkers
        <4> QED BY <3>5, <4>1, <4>2, <4>3 DEF Stated
      <3>7. Agreed(t)'
        BY <1>2, <2>2, <2>6, <3>5 DEF Agreed, TaskSound, QueuesStay, InQ, St
      <3>8. FreshSound(t)' /\ FreedSound(t)' /\ CanceledSound(t)' /\ Kept(t)' /\ OneShot(t)'
        BY <1>2, <2>2, <2>3, <3>1, <3>5
           DEF FreshSound, FreedSound, CanceledSound, Kept, OneShot, TaskSound, St
      <3>9. CancelSound(t)'
        <4>1. \A e \in Executors : t # canc'[e].task
          BY <1>2, <1>3, <2>3, <2>n
        <4> QED BY <4>1 DEF CancelSound
      <3>10. CountSound(t)'
        <4>1. Counted(t)' = Counted(t)
          BY <2>2 DEF Counted
        <4> QED BY <1>2, <2>2, <4>1 DEF CountSound, TaskSound, Ref
      <3> QED BY <3>1, <3>2, <3>4, <3>6, <3>7, <3>8, <3>9, <3>10 DEF TaskSound
    <2>8. dest[th].task = Nobody
      BY <1>2 DEF LayerTypes
    <2>9. \A o \in Tasks \ {t} : SameLayers(o) /\ SameRecord(o)
      BY <1>1, <1>2, <2>2, <2>3, <2>8, <2>n, OthersStay
    <2>10. St(t) # "CREATED" /\ \A s \in Tasks : task'[s].m_next_abstime = task[s].m_next_abstime
      BY <1>3, <2>2
    <2> QED BY <1>2, <2>2, <2>3, <2>4, <2>5, <2>7, <2>9, <2>10, LayerStep
  <1> QED BY <1>4, <1>5

-----------------------------------------------------------------------------
(* s_set_cancel_and_destroy_task_no_lock.                                  *)

\* What a thread that destroys a task may assume.
LEMMA DestFacts ==
    ASSUME IInv, OneUser, Orderly, NEW th \in Executors, dest[th].at # "none"
    PROVE  LET t == dest[th].task
           IN  /\ LayerTypes /\ TaskTypes /\ ThreadSound(th) /\ dest[th] \in DestRecords
               /\ t \in Tasks /\ TaskSound(t) /\ t \notin freed /\ task[t] \in Records
               /\ Nobody \notin Tasks /\ Nobody \notin Executors
               /\ glock \in Executors \cup {Nobody} /\ th \in Places
               /\ St(t) \notin {"UNKNOWN", "CREATED", "DELETING"}
               /\ table[t] \in {St(t), "CANCELLED"}
               /\ \A e \in Executors : /\ t # exec[e].task /\ t # canc[e].task
                                       /\ t = dest[e].task => e = th
               /\ t \notin ToSet(chrono_q) => OnlyIn(t, "dest", th)
               /\ t \in ToSet(chrono_q) => dest[th].at = "unsched"
               /\ canc[th].at = "none" /\ canc[th].task = Nobody
  <1>1. PICK t : t = dest[th].task
    OBVIOUS
  <1>2. /\ LayerTypes /\ TaskTypes /\ LoopTypes /\ ThreadSound(th) /\ dest[th] \in DestRecords
        /\ t \in Tasks /\ TaskSound(t) /\ task[t] \in Records
        /\ Nobody \notin Tasks /\ Nobody \notin Executors /\ AllWorkers \subseteq Executors
        /\ glock \in Executors \cup {Nobody}
    <2>1. LayerTypes /\ TaskTypes /\ LoopTypes /\ ThreadSound(th)
      BY DEF IInv, TypeOK
    <2>2. dest[th] \in DestRecords /\ t \in Tasks
      BY <1>1, <2>1 DEF LayerTypes, DestRecords
    <2> QED BY <2>1, <2>2, WhoIsWho DEF IInv, TaskTypes, LoopTypes
  <1>3. t \notin freed /\ St(t) \notin {"UNKNOWN", "CREATED", "DELETING"} /\ table[t] \in {St(t), "CANCELLED"}
    BY <1>1, <1>2 DEF TaskSound, FreedSound, FreshSound, Agreed
  <1>4. \A e \in Executors : canc[e].at = "none" /\ canc[e].task = Nobody
    <2> SUFFICES ASSUME NEW e \in Executors, canc[e].at # "none" \/ canc[e].task # Nobody PROVE FALSE
      OBVIOUS
    <2>1. e = Sched /\ Alone /\ spc = "run" /\ dest[e].at = "none"
      BY WhoCancels
    <2>2. th \in Users /\ upc[th] \in Clearing
      BY <1>2, <2>1 DEF ThreadSound
    <2>3. spc \in Resting
      BY <2>2 DEF IInv, LoopSound
    <2> QED BY <2>1, <2>3 DEF Resting
  <1>5. \A e \in Executors : t # exec[e].task
    BY <1>1, <1>2 DEF TaskSound, SoleDest
  <1>6. t \in ToSet(chrono_q) => dest[th].at = "unsched"
    BY <1>1, <1>2 DEF TaskSound, SoleDest
  <1>7. t \notin ToSet(chrono_q) => OnlyIn(t, "dest", th)
    <2> HAVE t \notin ToSet(chrono_q)
    <2>1. InHand(t, "dest", th)
      BY <1>1 DEF InHand
    <2> QED BY <1>2, <2>1, OnlyInHand DEF TaskSound, Kinds, Places
  <1>8. \A e \in Executors : t = dest[e].task => e = th
    <2>1. CASE t \in ToSet(chrono_q)
      BY <1>1, <1>2, <2>1 DEF TaskSound, SoleDest
    <2>2. CASE t \notin ToSet(chrono_q)
      BY <1>7, <2>2 DEF OnlyIn
    <2> QED BY <2>1, <2>2
  <1> QED BY <1>1, <1>2, <1>3, <1>4, <1>5, <1>6, <1>7, <1>8 DEF Places

\* The task is taken from the timed queue, if it is there.
LEMMA UnschedsQueued ==
    ASSUME IInv, OneUser, Orderly, NEW th \in Executors, DestroyUnscheds(th),
           InQ(dest[th].task)
    PROVE  IInv'
  <1>0. dest[th].at = "unsched"
    BY DEF DestroyUnscheds, DestAt
  <1>1. PICK t \in Tasks : t = dest[th].task
    BY <1>0, DestFacts
  <1>2. /\ LayerTypes /\ TaskTypes /\ ThreadSound(th) /\ TaskSound(t) /\ t \notin freed
        /\ task[t] \in Records /\ Nobody \notin Tasks /\ Nobody \notin Executors
        /\ glock \in Executors \cup {Nobody} /\ th \in Places
        /\ canc[th].at = "none" /\ canc[th].task = Nobody
        /\ \A e \in Executors : /\ t # exec[e].task /\ t # canc[e].task
                                /\ t = dest[e].task => e = th
    BY <1>0, <1>1, DestFacts
  <1>3. t \in ToSet(chrono_q) /\ InQ(t) /\ task[t].m_is_in_timed_q
    BY <1>1, <1>2 DEF TaskSound, Agreed, InQ
  <1>4. InHand(t, "timed", Nobody)
    BY <1>3 DEF InHand
  <1>5. OnlyIn(t, "timed", Nobody) /\ St(t) = "ENQUEUED" /\ table[t] = "ENQUEUED"
    <2>1. Both(t, {"ENQUEUED"})
      BY <1>2, <1>3 DEF TaskSound, Stated
    <2>2. OnlyIn(t, "timed", Nobody)
      BY <1>2, <1>4, OnlyInHand DEF TaskSound, Kinds, Places, Executors
    <2> QED BY <2>1, <2>2 DEF Both
  <1>6. task[t].m_status = "ENQUEUED"
    BY <1>5 DEF St
  <1>7. /\ Still /\ now' = now /\ start_time' = start_time /\ glock' = glock
        /\ canc' = canc /\ exec' = exec /\ freed' = freed /\ canceled' = canceled /\ tlock' = tlock
        /\ UNCHANGED <<urgent_q, idle_q, wq, last_q, todo, out>>
        /\ chrono_q' = Without(chrono_q, t)
        /\ table' = [table EXCEPT ![t] = "DEQUEUED"]
        /\ task' = [task EXCEPT ![t].m_status = "DEQUEUED", ![t].m_is_in_timed_q = FALSE]
        /\ dest' = [dest EXCEPT ![th].at = "mark"]
    BY <1>1, <1>3, <1>6 DEF DestroyUnscheds, Still, loop, taken, workers, user, history
  <1>8. PICK r \in Records :
           /\ task' = [task EXCEPT ![t] = r]
           /\ r.m_status = "DEQUEUED" /\ r.m_is_in_timed_q = FALSE
           /\ r.m_exec_ref_count = task[t].m_exec_ref_count
           /\ r.m_cancel_ref_count = task[t].m_cancel_ref_count
           /\ r.m_do_repeat = task[t].m_do_repeat /\ r.m_is_first = task[t].m_is_first
           /\ r.m_next_abstime = task[t].m_next_abstime
    <2>1. PICK q \in Records : q = task[t]
      BY <1>2
    <2>2. PICK r \in Records :
             /\ r = [q EXCEPT !.m_status = "DEQUEUED", !.m_is_in_timed_q = FALSE]
             /\ r.m_status = "DEQUEUED" /\ r.m_is_in_timed_q = FALSE
             /\ r.m_exec_ref_count = q.m_exec_ref_count
             /\ r.m_cancel_ref_count = q.m_cancel_ref_count
             /\ r.m_do_repeat = q.m_do_repeat /\ r.m_is_first = q.m_is_first
             /\ r.m_next_abstime = q.m_next_abstime
      BY OutRecord
    <2>3. task' = [task EXCEPT ![t] = r]
      BY <1>2, <1>7, <2>1, <2>2 DEF TaskTypes
    <2> QED BY <2>1, <2>2, <2>3
  <1>9. /\ task' \in [Tasks -> Records] /\ task'[t] = r
        /\ \A o \in Tasks \ {t} : task'[o] = task[o]
    BY <1>2, <1>8, TaskChanges
  <1>10. /\ table' \in [Tasks -> States] /\ table'[t] = "DEQUEUED"
         /\ \A o \in Tasks \ {t} : table'[o] = table[o]
    BY <1>2, <1>7, TableChanges DEF States
  <1>11. /\ TypeOK /\ QueueTypes /\ LoopTypes /\ QueuesSound /\ LoopSound /\ StageSound /\ Submits /\ Emptied
         /\ \A e \in Executors : ThreadSound(e)
    BY DEF IInv, TypeOK
  <1>12. /\ chrono_q' \in Seq(Tasks) /\ NoRepeat(chrono_q')
         /\ ToSet(chrono_q') = ToSet(chrono_q) \ {t}
         /\ \A i, j \in DOMAIN chrono_q' :
               i < j => task'[chrono_q'[i]].m_next_abstime <= task'[chrono_q'[j]].m_next_abstime
    <2>1. chrono_q \in Seq(Tasks) /\ NoRepeat(chrono_q) /\ Ordered(chrono_q)
      BY <1>11 DEF QueueTypes, QueuesSound, Ordered
    <2>2. \A i \in DOMAIN chrono_q : task'[chrono_q[i]].m_next_abstime = task[chrono_q[i]].m_next_abstime
      <3>1. \A i \in DOMAIN chrono_q : chrono_q[i] \in Tasks
        BY <2>1
      <3> QED BY <1>8, <1>9, <3>1
    <2>3. /\ chrono_q' \in Seq(Tasks) /\ NoRepeat(chrono_q')
          /\ ToSet(chrono_q') = ToSet(chrono_q) \ {t}
          /\ \A i, j \in DOMAIN chrono_q' :
                i < j => \E m, n \in DOMAIN chrono_q : /\ m < n /\ chrono_q[m] = chrono_q'[i]
                                                       /\ chrono_q[n] = chrono_q'[j]
      BY <1>3, <1>7, <2>1, WithoutSeq
    <2> QED BY <2>1, <2>2, <2>3, StillOrdered
  <1>13. /\ LayerTypes' /\ dest'[th].at = "mark" /\ dest'[th].task = t
         /\ \A e \in Executors \ {th} : dest'[e] = dest[e]
    BY <1>1, <1>2, <1>7 DEF LayerTypes, DestRecords
  <1>14. TypeOK'
    <2>1. LoopTypes' /\ UserTypes'
      BY <1>2, <1>7, <1>11, TypesFrame
    <2>2. TaskTypes' /\ QueueTypes'
      BY <1>2, <1>7, <1>9, <1>10, <1>11, <1>12 DEF TaskTypes, QueueTypes, Still, W
    <2> QED BY <1>13, <2>1, <2>2 DEF TypeOK
  <1>15. LoopSound' /\ StageSound'
    BY <1>7, <1>11, ControlFrame
  <1>16. Emptied'
    <2>1. chrono_q # <<>>
      BY <1>3, NothingIn
    <2> QED BY <1>7, <1>11, <2>1, EmptiedFrame DEF Still
  <1>17. Submits'
    <2>1. \A s \in Tasks : St(s) = "CREATED" => St(s)' = "CREATED"
      BY <1>5, <1>9 DEF St
    <2> QED BY <1>7, <1>11, <2>1, SubmitsFrame DEF Still
  <1>18. QueuesSound'
    BY <1>7, <1>11, <1>12 DEF QueuesSound
  <1>19. ASSUME NEW e \in Executors PROVE ThreadSound(e)'
    <2>1. CASE e = th
      BY <1>0, <1>2, <1>7, <1>13, <2>1 DEF ThreadSound, Away, Alone, W, Still
    <2>2. CASE e # th
      <3>1. SameThread(e)
        BY <1>7, <1>13, <2>2 DEF SameThread
      <3> QED BY <1>7, <1>11, <3>1, ThreadFrame DEF Still
    <2> QED BY <2>1, <2>2
  <1>20. TaskSound(t)'
    <2>1. OnlyIn(t, "dest", th)'
      BY <1>2, <1>5, <1>7, <1>12, <1>13 DEF OnlyIn
    <2>2. CountSound(t)'
      <3>1. Counted(t)' = Counted(t)
        BY <1>7 DEF Counted
      <3> QED BY <1>2, <1>8, <1>9, <3>1 DEF CountSound, TaskSound, Ref
    <2>3. OneShot(t)'
      BY <1>2, <1>5, <1>8, <1>9 DEF OneShot, TaskSound, St
    <2>4. /\ St(t)' = "DEQUEUED" /\ table'[t] = "DEQUEUED" /\ ~InQ(t)' /\ t \notin freed'
          /\ task'[t].m_cancel_ref_count = 0
      BY <1>2, <1>7, <1>8, <1>9, <1>10 DEF St, InQ, TaskSound, Agreed
    <2>5. Doomed(t, th)
      BY <1>2, <1>7, <1>12, <1>13, <2>1, <2>2, <2>3, <2>4 DEF Doomed
    <2> QED BY <1>2, <2>5, DoomedSound
  <1>21. \A o \in Tasks \ {t} : Same(o)
    <2>1. \A o \in Tasks \ {t} : SameLayers(o) /\ SameRecord(o)
      BY <1>1, <1>2, <1>7, <1>9, <1>10, <1>13, OthersStay
    <2>2. \A o \in Tasks \ {t} : SameQueues(o)
      BY <1>7, <1>12 DEF SameQueues
    <2> QED BY <2>1, <2>2 DEF Same
  <1>22. \A o \in Tasks : Same(o) \/ TaskSound(o)'
    BY <1>20, <1>21
  <1>23. mode' = mode
    BY <1>7 DEF Still
  <1> QED BY <1>14, <1>15, <1>16, <1>17, <1>18, <1>19, <1>22, <1>23, Assembled

\* The destroyer goes on, and only the table changes.
GoesOn(th, t, place, s) ==
    /\ dest[th].at # "none" /\ t = dest[th].task /\ t \notin ToSet(chrono_q)
    /\ place \in {"mark", "delete"} /\ s \in {St(t), "CANCELLED"} /\ s \in States
    /\ place = "delete" => s = "CANCELLED"
    /\ dest' = [dest EXCEPT ![th].at = place]
    /\ table' = [table EXCEPT ![t] = s]
    /\ Still /\ QueuesStay /\ now' = now /\ start_time' = start_time /\ glock' = glock
    /\ canc' = canc /\ exec' = exec /\ freed' = freed /\ canceled' = canceled /\ tlock' = tlock
    /\ task' = task

LEMMA GoesOnKeeps ==
    ASSUME IInv, OneUser, Orderly, NEW th \in Executors, NEW t \in Tasks, NEW place, NEW s,
           GoesOn(th, t, place, s)
    PROVE  IInv'
  <1>0. /\ dest[th].at # "none" /\ t = dest[th].task /\ t \notin ToSet(chrono_q)
        /\ place \in {"mark", "delete"} /\ s \in {St(t), "CANCELLED"} /\ s \in States
        /\ place = "delete" => s = "CANCELLED"
        /\ dest' = [dest EXCEPT ![th].at = place]
        /\ table' = [table EXCEPT ![t] = s]
        /\ Still /\ QueuesStay /\ now' = now /\ start_time' = start_time /\ glock' = glock
        /\ canc' = canc /\ exec' = exec /\ freed' = freed /\ canceled' = canceled /\ tlock' = tlock
        /\ task' = task
    BY DEF GoesOn
  <1>1. /\ LayerTypes /\ TaskTypes /\ ThreadSound(th) /\ TaskSound(t) /\ t \notin freed
        /\ Nobody \notin Tasks /\ Nobody \notin Executors
        /\ glock \in Executors \cup {Nobody}
        /\ St(t) \notin {"UNKNOWN", "CREATED", "DELETING"}
        /\ canc[th].at = "none" /\ canc[th].task = Nobody
        /\ OnlyIn(t, "dest", th)
        /\ \A e \in Executors : t # exec[e].task
    BY <1>0, DestFacts
  <1>2. /\ LayerTypes' /\ dest'[th].at = place /\ dest'[th].task = t
        /\ \A e \in Executors \ {th} : dest'[e] = dest[e]
    BY <1>0, <1>1 DEF LayerTypes, DestRecords
  <1>3. /\ table' \in [Tasks -> States] /\ table'[t] = s
        /\ \A o \in Tasks \ {t} : table'[o] = table[o]
    BY <1>0, <1>1, TableChanges
  <1>4. TaskTypes'
    BY <1>0, <1>1, <1>3 DEF TaskTypes
  <1>5. ThreadSound(th)'
    BY <1>0, <1>1, <1>2 DEF ThreadSound, Away, Alone, W, Still, QueuesStay
  <1>6. TaskSound(t)'
    <2>1. OnlyIn(t, "dest", th)'
      BY <1>0, <1>1, <1>2 DEF OnlyIn, QueuesStay
    <2>2. CountSound(t)' /\ OneShot(t)'
      <3>1. Counted(t)' = Counted(t)
        BY <1>0 DEF Counted
      <3> QED BY <1>0, <1>1, <3>1 DEF CountSound, OneShot, TaskSound, Ref, St
    <2>3. /\ St(t)' = St(t) /\ ~InQ(t)' /\ t \notin freed' /\ t \notin ToSet(chrono_q)'
          /\ task'[t].m_cancel_ref_count = 0 /\ (~Alone' => St(t)' # "CANCELLED")
      BY <1>0, <1>1 DEF St, InQ, TaskSound, Agreed, Alone, W, Still, QueuesStay
    <2>4. Doomed(t, th)
      BY <1>0, <1>1, <1>2, <1>3, <2>1, <2>2, <2>3 DEF Doomed
    <2> QED BY <1>1, <2>4, DoomedSound
  <1>7. \A o \in Tasks \ {t} : SameLayers(o) /\ SameRecord(o)
    BY <1>0, <1>1, <1>2, <1>3, OthersStay
  <1>8. \A e \in Executors \ {th} : exec'[e] = exec[e] /\ canc'[e] = canc[e] /\ dest'[e] = dest[e]
    BY <1>0, <1>2
  <1>9. St(t)' = St(t) /\ \A o \in Tasks : task'[o].m_next_abstime = task[o].m_next_abstime
    BY <1>0 DEF St
  <1> QED BY <1>0, <1>1, <1>2, <1>4, <1>5, <1>6, <1>7, <1>8, <1>9, LayerStep

LEMMA DestroyUnschedsKeeps ==
    ASSUME IInv, OneUser, Orderly, NEW th \in Executors, DestroyUnscheds(th)
    PROVE  IInv'
  <1>0. dest[th].at = "unsched"
    BY DEF DestroyUnscheds, DestAt
  <1>1. PICK t \in Tasks : t = dest[th].task
    BY <1>0, DestFacts
  <1>2. CASE InQ(t)
    BY <1>1, <1>2, UnschedsQueued
  <1>3. CASE ~InQ(t)
    <2>1. TaskSound(t) /\ TaskTypes /\ table[t] \in {St(t), "CANCELLED"} /\ table[t] \in States
      BY <1>0, <1>1, DestFacts DEF TaskTypes
    <2>2. t \notin ToSet(chrono_q)
      BY <1>3, <2>1 DEF TaskSound, Agreed
    <2>3. /\ chrono_q' = chrono_q /\ task' = task /\ table' = table
          /\ dest' = [dest EXCEPT ![th].at = "mark"]
      BY <1>1, <1>3 DEF DestroyUnscheds, InQ
    <2>4. table' = [table EXCEPT ![t] = table[t]]
      BY <2>1, <2>3 DEF TaskTypes
    <2>5. GoesOn(th, t, "mark", table[t])
      BY <1>0, <1>1, <2>1, <2>2, <2>3, <2>4
         DEF GoesOn, DestroyUnscheds, Still, QueuesStay, loop, taken, workers, user, history
    <2> QED BY <2>5, GoesOnKeeps
  <1> QED BY <1>2, <1>3

LEMMA DestroyMarksKeeps ==
    ASSUME IInv, OneUser, Orderly, NEW th \in Executors, DestroyMarks(th)
    PROVE  IInv'
  <1>0. dest[th].at = "mark"
    BY DEF DestroyMarks, DestAt
  <1>1. PICK t \in Tasks : t = dest[th].task
    BY <1>0, DestFacts
  <1>2. t \notin ToSet(chrono_q)
    BY <1>0, <1>1, DestFacts
  <1>3. GoesOn(th, t, "delete", "CANCELLED")
    BY <1>0, <1>1, <1>2
       DEF GoesOn, DestroyMarks, Still, QueuesStay, queues, loop, taken, workers, user, history, States
  <1> QED BY <1>3, GoesOnKeeps

\* The task is freed.
LEMMA DestroyDeletesKeeps ==
    ASSUME IInv, OneUser, Orderly, NEW th \in Executors, DestroyDeletes(th)
    PROVE  IInv'
  <1>0. dest[th].at = "delete"
    BY DEF DestroyDeletes, DestAt
  <1>1. PICK t \in Tasks : t = dest[th].task
    BY <1>0, DestFacts
  <1>2. /\ LayerTypes /\ TaskTypes /\ ThreadSound(th) /\ TaskSound(t) /\ t \notin freed
        /\ task[t] \in Records /\ Nobody \notin Tasks /\ Nobody \notin Executors
        /\ glock \in Executors \cup {Nobody}
        /\ St(t) \notin {"UNKNOWN", "CREATED", "DELETING"}
        /\ canc[th].at = "none" /\ canc[th].task = Nobody
        /\ \A e \in Executors : /\ t # exec[e].task /\ t # canc[e].task
                                /\ t = dest[e].task => e = th
    BY <1>0, <1>1, DestFacts
  <1>3. t \notin ToSet(chrono_q) /\ OnlyIn(t, "dest", th)
    BY <1>0, <1>1, DestFacts
  <1>4. table[t] = "CANCELLED"
    BY <1>0, <1>1, <1>2 DEF TaskSound, Stated
  <1>5. /\ table' = [table EXCEPT ![t] = "UNKNOWN"]
        /\ task' = [task EXCEPT ![t].m_status = "DELETING",
                                ![t].m_cancel_ref_count = 0, ![t].m_exec_ref_count = 0]
        /\ freed' = freed \cup {t}
        /\ canc' = Wakeup(t)
    <2>1. task[t].m_status # "DELETING"
      BY <1>2 DEF St
    <2> QED BY <1>1, <1>2, <1>4, <2>1 DEF DestroyDeletes, TaskTypes
  <1>6. canc' = canc
    <2>1. \A e \in Executors : canc[e].at # "asleep"
      BY <1>2 DEF LayerTypes, CancRecords
    <2> QED BY <1>2, <1>5, <2>1 DEF Wakeup, LayerTypes
  <1>7. /\ Still /\ QueuesStay /\ now' = now /\ start_time' = start_time
        /\ glock' \in Executors \cup {Nobody}
        /\ exec' = exec /\ canceled' = canceled /\ tlock' = tlock
        /\ dest' = [dest EXCEPT ![th] = NoDest]
    BY <1>2 DEF DestroyDeletes, Still, QueuesStay, queues, loop, taken, workers, user, history
  <1>8. PICK r \in Records :
           /\ task' = [task EXCEPT ![t] = r]
           /\ r.m_status = "DELETING" /\ r.m_exec_ref_count = 0 /\ r.m_cancel_ref_count = 0
           /\ r.m_is_in_timed_q = task[t].m_is_in_timed_q
           /\ r.m_next_abstime = task[t].m_next_abstime
    <2>1. PICK q \in Records : q = task[t]
      BY <1>2
    <2>2. PICK r \in Records :
             /\ r = [q EXCEPT !.m_status = "DELETING", !.m_cancel_ref_count = 0,
                              !.m_exec_ref_count = 0]
             /\ r.m_status = "DELETING" /\ r.m_exec_ref_count = 0 /\ r.m_cancel_ref_count = 0
             /\ r.m_is_in_timed_q = q.m_is_in_timed_q /\ r.m_next_abstime = q.m_next_abstime
      BY DeletedRecord
    <2>3. task' = [task EXCEPT ![t] = r]
      BY <1>2, <1>5, <2>1, <2>2 DEF TaskTypes
    <2> QED BY <2>1, <2>2, <2>3
  <1>9. /\ task' \in [Tasks -> Records] /\ task'[t] = r
        /\ \A o \in Tasks \ {t} : task'[o] = task[o]
    BY <1>2, <1>8, TaskChanges
  <1>10. /\ table' \in [Tasks -> States] /\ table'[t] = "UNKNOWN"
         /\ \A o \in Tasks \ {t} : table'[o] = table[o]
    BY <1>2, <1>5, TableChanges DEF States
  <1>n. NoDest \in DestRecords /\ NoDest.at = "none" /\ NoDest.task = Nobody
    BY DEF NoDest, DestRecords
  <1>11. /\ LayerTypes' /\ dest'[th] = NoDest /\ exec'[th] = exec[th] /\ canc'[th] = canc[th]
         /\ \A e \in Executors \ {th} :
               exec'[e] = exec[e] /\ canc'[e] = canc[e] /\ dest'[e] = dest[e]
    BY <1>2, <1>6, <1>7, <1>n, DestChanges
  <1>12. TaskTypes'
    BY <1>2, <1>5, <1>7, <1>9, <1>10 DEF TaskTypes
  <1>13. ThreadSound(th)'
    BY <1>2, <1>6, <1>7, <1>11, <1>n DEF ThreadSound, Away, Alone, W, Still, QueuesStay
  <1>14. TaskSound(t)'
    <2>1. \A e \in Executors : t # exec'[e].task /\ t # canc'[e].task /\ t # dest'[e].task
      BY <1>2, <1>11, <1>n
    <2>2. /\ t \notin ToSet(urgent_q)' /\ t \notin ToSet(idle_q)' /\ t \notin ToSet(chrono_q)'
          /\ \A w \in AllWorkers : t \notin ToSet(wq[w])'
          /\ \A e \in Executors : t \notin ToSet(todo[e])' /\ t \notin Sent(out[e])'
      BY <1>3, <1>7 DEF OnlyIn, QueuesStay
    <2>3. \A k \in Kinds, e \in Places : ~InHand(t, k, e)'
      BY <2>1, <2>2 DEF InHand
    <2>4. ~Handed(t)' /\ Apart(t)'
      BY <2>3 DEF Handed, Apart
    <2>5. SoleExec(t)' /\ SoleDest(t)' /\ CancelSound(t)'
      BY <2>1 DEF SoleExec, SoleDest, CancelSound
    <2>6. Stated(t)'
      <3>1. AllWorkers \subseteq Executors /\ AllWorkers' = AllWorkers
        BY DEF Executors, AllWorkers
      <3> QED BY <2>1, <2>2, <3>1 DEF Stated
    <2>7. /\ St(t)' = "DELETING" /\ Ref(t)' = 0 /\ InQ(t)' = InQ(t) /\ table'[t] = "UNKNOWN"
          /\ task'[t].m_cancel_ref_count = 0 /\ t \in freed'
      BY <1>5, <1>8, <1>9, <1>10 DEF St, Ref, InQ
    <2>8. Agreed(t)'
      BY <1>2, <1>3, <2>2, <2>7 DEF Agreed, TaskSound
    <2>9. CountSound(t)'
      <3>1. Counted(t)' = {}
        BY <2>1 DEF Counted
      <3> QED BY <2>7, <3>1, FS_EmptySet DEF CountSound
    <2>10. FreshSound(t)' /\ FreedSound(t)' /\ CanceledSound(t)' /\ Kept(t)' /\ OneShot(t)'
      BY <2>1, <2>4, <2>7 DEF FreshSound, FreedSound, CanceledSound, Kept, OneShot
    <2> QED BY <2>4, <2>5, <2>6, <2>8, <2>9, <2>10 DEF TaskSound
  <1>15. \A o \in Tasks \ {t} : SameLayers(o) /\ SameRecord(o)
    <2>1. \A o \in Tasks \ {t} : o \in freed' <=> o \in freed
      BY <1>5
    <2> QED BY <1>1, <1>2, <1>7, <1>9, <1>10, <1>11, <1>n, <2>1, OthersStay
  <1>16. St(t) # "CREATED" /\ \A o \in Tasks : task'[o].m_next_abstime = task[o].m_next_abstime
    BY <1>2, <1>8, <1>9
  <1> QED BY <1>7, <1>11, <1>12, <1>13, <1>14, <1>15, <1>16, LayerStep

-----------------------------------------------------------------------------
(* Steps of the main loop, the stage and the users that concern no task.   *)

\* A thread that has no task.
LEMMA ThreadAtRest ==
    ASSUME NEW e \in Executors, SameThread(e),
           exec[e].at = "none", canc[e].at = "none", dest[e].at = "none",
           todo[e] = <<>>, out[e] = <<>>
    PROVE  ThreadSound(e)'
  BY DEF ThreadSound, SameThread

\* A thread that may do as much as before.
LEMMA ThreadLoose ==
    ASSUME NEW e \in Executors, ThreadSound(e), SameThread(e), mode' = mode,
           Away(e)' => Away(e),
           e = Sched /\ spc = "timed" => spc' = "timed",
           e \in Users => (upc'[e] \in Clearing <=> upc[e] \in Clearing)
    PROVE  ThreadSound(e)'
  <1>1. Alone' <=> Alone
    BY DEF Alone, W
  <1> QED BY <1>1 DEF ThreadSound, SameThread

\* No task moves or changes, but the main loop, the stage or a user does.
LEMMA QuietStep ==
    ASSUME IInv, QueuesStay, UNCHANGED <<exec, canc, dest, mode>>,
           TaskTypes', \A t \in Tasks : SameRecord(t) /\ task'[t].m_next_abstime = task[t].m_next_abstime,
           LoopTypes', UserTypes', LoopSound', StageSound', Emptied', Submits',
           \A e \in Executors : ThreadSound(e)'
    PROVE  IInv'
  <1>1. TypeOK'
    <2>1. QueueTypes' /\ LayerTypes'
      BY DEF IInv, TypeOK, QueueTypes, LayerTypes, QueuesStay, W
    <2> QED BY <2>1 DEF TypeOK
  <1>2. QueuesSound'
    BY QueuesFrame DEF IInv, TypeOK
  <1>3. \A t \in Tasks : Same(t)
    BY DEF Same, SameQueues, SameLayers, QueuesStay
  <1> QED BY <1>1, <1>2, <1>3, Assembled

\* Nothing changes but what the main loop, the workers and the users are about.
Unconcerned ==
    /\ UNCHANGED <<table, task, freed, exec, canc, dest, mode, canceled>> /\ QueuesStay
    /\ tlock' = tlock /\ glock' \in Executors \cup {Nobody}

\* Such a step keeps the invariant, if the threads and the loop do.
LEMMA UnconcernedStep ==
    ASSUME IInv, Unconcerned, LoopTypes', UserTypes', LoopSound', StageSound', Emptied', Submits',
           \A e \in Executors : ThreadSound(e)'
    PROVE  IInv'
  <1>1. TaskTypes'
    BY DEF IInv, TypeOK, TaskTypes, Unconcerned
  <1>2. \A t \in Tasks : SameRecord(t) /\ task'[t].m_next_abstime = task[t].m_next_abstime
    BY DEF SameRecord, St, InQ, Ref, Unconcerned
  <1>3. QueuesStay /\ UNCHANGED <<exec, canc, dest, mode>>
    BY DEF Unconcerned
  <1> QED BY <1>1, <1>2, <1>3, QuietStep

\* Where the users stay, the queues are as empty as they were.
LEMMA EmptyStill ==
    ASSUME IInv, Unconcerned, gave_up' = gave_up,
           \A u \in Users : upc'[u] = upc[u] \/ {upc[u], upc'[u]} \cap (Clearing \cup {"finalized"}) = {}
    PROVE  Emptied'
  <1>1. \A u \in Users : /\ Past(u, {"timed", "urgent", "queued"})' => Past(u, {"timed", "urgent", "queued"})
                         /\ Past(u, {"urgent", "queued"})' => Past(u, {"urgent", "queued"})
                         /\ Past(u, {"queued"})' => Past(u, {"queued"})
                         /\ Past(u, {})' => Past(u, {})
    BY DEF Past, Clearing
  <1> QED BY <1>1 DEF IInv, Emptied, Unconcerned, QueuesStay, W

LEMMA SubmitsStill ==
    ASSUME IInv, Unconcerned,
           \A u \in Users : upc'[u] \in {"submit", "put"} => upc[u] \in {"submit", "put"} /\ uarg'[u] = uarg[u]
    PROVE  Submits'
  BY DEF IInv, Submits, Unconcerned

\* The main loop takes a step.
LoopStep(s) ==
    /\ Unconcerned /\ spc' = s /\ UNCHANGED <<upc, uarg, stage, wpc, gave_up, now, start_time>>
    /\ s_do_loop' \in BOOLEAN /\ s_is_stopped' \in BOOLEAN

\* The main loop goes on without touching tasks.
LEMMA LoopStepKeeps ==
    ASSUME IInv, OneUser, Orderly, NEW s, LoopStep(s),
           s \in {"failed", "top", "peek", "sleep", "end"}, LoopSound',
           spc # "timed",
           spc = "run" => todo[Sched] = <<>> /\ out[Sched] = <<>> /\ Free(Sched)
    PROVE  IInv'
  <1>0. /\ LoopTypes /\ UserTypes /\ StageSound /\ (\A e \in Executors : ThreadSound(e))
    BY DEF IInv, TypeOK
  <1>1. LoopTypes' /\ UserTypes'
    BY <1>0 DEF LoopTypes, UserTypes, LoopStep, Unconcerned
  <1>2. StageSound'
    BY <1>0 DEF StageSound, LoopStep, Unconcerned, W
  <1>3. Emptied'
    BY EmptyStill DEF LoopStep
  <1>4. Submits'
    BY SubmitsStill DEF LoopStep
  <1>5. ASSUME NEW e \in Executors PROVE ThreadSound(e)'
    <2>0. SameThread(e)
      BY DEF LoopStep, Unconcerned, SameThread, QueuesStay
    <2>1. CASE e = Sched /\ spc = "run"
      BY <2>0, <2>1, ThreadAtRest DEF Free, Busy
    <2>2. CASE ~(e = Sched /\ spc = "run")
      <3>1. Away(e)' => Away(e)
        BY <2>2 DEF Away, LoopStep
      <3> QED BY <1>0, <2>0, <3>1, ThreadLoose DEF LoopStep, Unconcerned
    <2> QED BY <2>1, <2>2
  <1> QED BY <1>1, <1>2, <1>3, <1>4, <1>5, UnconcernedStep DEF LoopStep

LEMMA SchedStepsKeep ==
    ASSUME IInv, OneUser, Orderly,
           \/ GalaFails \/ GalaOpens \/ SchedIdles \/ SchedPeeks
           \/ SchedAwakes \/ SchedTimesOut \/ SpuriousWakeup
    PROVE  IInv'
  <1>0. LoopTypes /\ LoopSound
    BY DEF IInv, TypeOK
  <1> USE DEF Unconcerned, QueuesStay, tasks, queues, loop, taken, workers, user, layers, history, SpcGoes
  <1>1. CASE GalaFails
    <2>1. LoopStep("failed")
      BY <1>0, <1>1 DEF GalaFails, LoopStep, LoopTypes
    <2>2. LoopSound' /\ spc = "gala"
      BY <1>0, <1>1 DEF GalaFails, LoopSound, Resting
    <2> HIDE DEF Unconcerned, QueuesStay
    <2> QED BY <2>1, <2>2, LoopStepKeeps
  <1>2. CASE GalaOpens
    <2>1. LoopStep("top")
      BY <1>0, <1>2 DEF GalaOpens, LoopStep, LoopTypes
    <2>2. LoopSound' /\ spc = "gala"
      BY <1>0, <1>2 DEF GalaOpens, LoopSound, Resting
    <2> HIDE DEF Unconcerned, QueuesStay
    <2> QED BY <2>1, <2>2, LoopStepKeeps
  <1>3. CASE SchedIdles
    <2>1. spc = "run" /\ todo[Sched] = <<>> /\ out[Sched] = <<>> /\ Free(Sched)
      BY <1>3 DEF SchedIdles
    <2>2. CASE spc' = "peek" /\ s_do_loop' = s_do_loop
      <3>1. LoopStep("peek")
        BY <1>0, <1>3, <2>2 DEF SchedIdles, LoopStep, LoopTypes
      <3>2. LoopSound'
        BY <1>0, <1>3, <2>2 DEF SchedIdles, LoopSound, Resting
      <3> HIDE DEF Unconcerned, QueuesStay
      <3> QED BY <2>1, <3>1, <3>2, LoopStepKeeps
    <2>3. CASE spc' = "end" /\ s_do_loop' = FALSE
      <3>1. LoopStep("end")
        BY <1>0, <1>3, <2>3 DEF SchedIdles, LoopStep, LoopTypes
      <3>2. LoopSound'
        BY <1>0, <1>3, <2>3 DEF SchedIdles, LoopSound, Resting
      <3> HIDE DEF Unconcerned, QueuesStay
      <3> QED BY <2>1, <3>1, <3>2, LoopStepKeeps
    <2> QED BY <1>3, <2>2, <2>3 DEF SchedIdles
  <1>4. CASE SchedPeeks
    <2>1. spc = "peek" /\ spc' \in {"sleep", "top"}
      BY <1>4 DEF SchedPeeks
    <2>2. LoopStep(spc')
      BY <1>0, <1>4 DEF SchedPeeks, LoopStep, LoopTypes
    <2>3. LoopSound'
      BY <1>0, <1>4, <2>1 DEF SchedPeeks, LoopSound, Resting
    <2> HIDE DEF Unconcerned, QueuesStay
    <2>4. PICK s : s = spc'
      OBVIOUS
    <2> QED BY <2>1, <2>2, <2>3, <2>4, LoopStepKeeps
  <1>5. CASE SchedAwakes
    <2>1. spc = "sleep" /\ spc' \in {"top", "end"}
      BY <1>5 DEF SchedAwakes
    <2>2. LoopStep(spc')
      BY <1>0, <1>5 DEF SchedAwakes, LoopStep, LoopTypes
    <2>3. LoopSound'
      BY <1>0, <1>5, <2>1 DEF SchedAwakes, LoopSound, Resting
    <2> HIDE DEF Unconcerned, QueuesStay
    <2>4. PICK s : s = spc'
      OBVIOUS
    <2> QED BY <2>1, <2>2, <2>3, <2>4, LoopStepKeeps
  <1>6. CASE SchedTimesOut
    <2>1. LoopStep("top")
      BY <1>0, <1>6 DEF SchedTimesOut, LoopStep, LoopTypes
    <2>2. LoopSound' /\ spc = "sleep"
      BY <1>0, <1>6 DEF SchedTimesOut, LoopSound, Resting
    <2> HIDE DEF Unconcerned, QueuesStay
    <2> QED BY <2>1, <2>2, LoopStepKeeps
  <1>7. CASE SpuriousWakeup
    <2>1. LoopStep("sleep")
      BY <1>0, <1>7 DEF SpuriousWakeup, LoopStep, LoopTypes
    <2>2. LoopSound' /\ spc = "sleep"
      BY <1>0, <1>7 DEF SpuriousWakeup, LoopSound, Resting
    <2> HIDE DEF Unconcerned, QueuesStay
    <2> QED BY <2>1, <2>2, LoopStepKeeps
  <1> QED BY <1>1, <1>2, <1>3, <1>4, <1>5, <1>6, <1>7

LEMMA SchedEndsKeeps ==
    ASSUME IInv, OneUser, Orderly, SchedEnds
    PROVE  IInv'
  <1>0. /\ LoopTypes /\ UserTypes /\ LoopSound /\ StageSound /\ (\A e \in Executors : ThreadSound(e))
        /\ Sched \notin Users
    BY CalloutAssumption DEF IInv, TypeOK
  <1>1. /\ Unconcerned /\ UNCHANGED <<uarg, stage, wpc, gave_up, now, start_time, s_do_loop>>
        /\ s_is_stopped' = TRUE /\ spc' = "over"
        /\ upc' = [u \in Users |-> IF upc[u] = "asleep" THEN "stopping" ELSE upc[u]]
    BY <1>0 DEF SchedEnds, Unconcerned, QueuesStay, tasks, queues, loop, taken, workers, user, layers,
                history, SpcGoes, Stopped, LoopTypes
  <1>2. spc \in {"end", "top"}
    BY DEF SchedEnds
  <1>3. LoopTypes' /\ UserTypes'
    BY <1>0, <1>1 DEF LoopTypes, UserTypes, Unconcerned
  <1>4. \A u \in Users : upc'[u] = upc[u] \/ (upc[u] = "asleep" /\ upc'[u] = "stopping")
    BY <1>1
  <1>5. LoopSound'
    BY <1>0, <1>1, <1>4 DEF LoopSound, Resting, Clearing
  <1>6. StageSound'
    BY <1>0, <1>1, <1>4 DEF StageSound, Unconcerned, W, Clearing
  <1>7. Emptied'
    BY <1>1, <1>4, EmptyStill DEF Clearing
  <1>8. Submits'
    BY <1>1, <1>4, SubmitsStill
  <1>9. ASSUME NEW e \in Executors PROVE ThreadSound(e)'
    <2>1. SameThread(e)
      BY <1>1 DEF Unconcerned, SameThread, QueuesStay
    <2>2. Away(e)' => Away(e)
      BY <1>1, <1>2, <1>4 DEF Away
    <2>3. e \in Users => (upc'[e] \in Clearing <=> upc[e] \in Clearing)
      BY <1>4 DEF Clearing
    <2> QED BY <1>0, <1>1, <1>2, <2>1, <2>2, <2>3, ThreadLoose DEF Unconcerned
  <1> QED BY <1>1, <1>3, <1>5, <1>6, <1>7, <1>8, <1>9, UnconcernedStep

LEMMA TickKeeps ==
    ASSUME IInv, OneUser, Orderly, Tick
    PROVE  IInv'
  <1>0. /\ LoopTypes /\ UserTypes /\ LoopSound /\ StageSound /\ (\A e \in Executors : ThreadSound(e))
    BY DEF IInv, TypeOK
  <1>1. /\ Unconcerned /\ Still /\ start_time' = start_time /\ now' = now + 1
    BY <1>0 DEF Tick, Unconcerned, QueuesStay, Still, tasks, queues, loop, taken, workers, user,
                layers, history, LoopTypes
  <1>2. LoopTypes' /\ UserTypes'
    BY <1>0, <1>1 DEF LoopTypes, UserTypes, Unconcerned, Still
  <1>3. LoopSound' /\ StageSound'
    BY <1>0, <1>1, ControlFrame
  <1>4. Emptied' /\ Submits'
    BY <1>1, EmptyStill, SubmitsStill DEF Still
  <1>5. ASSUME NEW e \in Executors PROVE ThreadSound(e)'
    BY <1>0, <1>1, ThreadFrame DEF SameThread, Still, Unconcerned, QueuesStay
  <1> QED BY <1>1, <1>2, <1>3, <1>4, <1>5, UnconcernedStep

\* The stage starts, and nobody finalizes the callouts.
LEMMA StartLoopKeeps ==
    ASSUME IInv, OneUser, Orderly, StartLoop
    PROVE  IInv'
  <1>0. /\ LoopTypes /\ UserTypes /\ LoopSound /\ StageSound /\ (\A e \in Executors : ThreadSound(e))
        /\ Sched \notin AllWorkers /\ (\A u \in Users : u \notin AllWorkers)
    BY WhoIsWho DEF IInv, TypeOK
  <1>1. /\ Unconcerned /\ UNCHANGED <<upc, uarg, gave_up, now, start_time, s_is_stopped>>
        /\ spc = "off" /\ spc' = "gala" /\ s_do_loop' = TRUE
        /\ stage' = (IF W = {} THEN stage ELSE "started")
        /\ wpc' = [w \in AllWorkers |-> IF w \in W THEN "loop" ELSE wpc[w]]
    BY <1>0 DEF StartLoop, Unconcerned, QueuesStay, tasks, queues, loop, taken, workers, user, layers,
                history, SpcGoes, LoopTypes
  <1>2. \A u \in Users : upc[u] \notin Clearing \cup {"stage", "finalized"}
    BY <1>0 DEF StartLoop, LoopSound
  <1>3. LoopTypes' /\ UserTypes'
    BY <1>0, <1>1 DEF LoopTypes, UserTypes, Unconcerned
  <1>4. LoopSound'
    BY <1>0, <1>1, <1>2 DEF LoopSound
  <1>5. StageSound'
    BY <1>0, <1>1, <1>2 DEF StageSound, Unconcerned, W
  <1>6. Emptied' /\ Submits'
    BY <1>1, EmptyStill, SubmitsStill
  <1>7. ASSUME NEW e \in Executors PROVE ThreadSound(e)'
    <2>1. SameThread(e)
      BY <1>1 DEF Unconcerned, SameThread, QueuesStay
    <2>2. Away(e)' => Away(e)
      BY <1>0, <1>1 DEF Away
    <2> QED BY <1>0, <1>1, <2>1, <2>2, ThreadLoose DEF Unconcerned
  <1> QED BY <1>1, <1>3, <1>4, <1>5, <1>6, <1>7, UnconcernedStep

LEMMA WorkerEndsKeeps ==
    ASSUME IInv, OneUser, Orderly, NEW w \in AllWorkers, WorkerEnds(w)
    PROVE  IInv'
  <1>0. /\ LoopTypes /\ UserTypes /\ LoopSound /\ StageSound /\ (\A e \in Executors : ThreadSound(e))
        /\ Sched \notin AllWorkers /\ (\A u \in Users : u \notin AllWorkers) /\ w \in Executors
    BY WhoIsWho DEF IInv, TypeOK
  <1>1. /\ Unconcerned /\ UNCHANGED <<upc, uarg, gave_up, now, start_time, s_is_stopped, s_do_loop, spc, stage>>
        /\ wpc[w] = "loop" /\ todo[w] = <<>> /\ Free(w)
        /\ wpc' = [wpc EXCEPT ![w] = "over"]
    BY <1>0 DEF WorkerEnds, Unconcerned, QueuesStay, tasks, queues, loop, taken, workers, user, layers,
                history, LoopTypes
  <1>2. LoopTypes' /\ UserTypes'
    BY <1>0, <1>1 DEF LoopTypes, UserTypes, Unconcerned
  <1>3. wpc'[w] = "over" /\ \A x \in AllWorkers \ {w} : wpc'[x] = wpc[x]
    BY <1>0, <1>1 DEF LoopTypes
  <1>4. LoopSound'
    BY <1>0, <1>1 DEF LoopSound
  <1>5. StageSound'
    <2>1. W \subseteq AllWorkers
      BY <1>0 DEF W, AllWorkers, LoopTypes
    <2>2. W' = W /\ AllWorkers' = AllWorkers
      BY <1>1 DEF W, AllWorkers, Unconcerned
    <2> QED BY <1>0, <1>1, <1>3, <2>1, <2>2 DEF StageSound
  <1>6. Emptied' /\ Submits'
    BY <1>1, EmptyStill, SubmitsStill
  <1>7. ASSUME NEW e \in Executors PROVE ThreadSound(e)'
    <2>1. SameThread(e)
      BY <1>1 DEF Unconcerned, SameThread, QueuesStay
    <2>2. CASE e = w
      <3>1. out[w] = <<>>
        BY <1>0 DEF ThreadSound
      <3> QED BY <1>1, <2>1, <2>2, <3>1, ThreadAtRest DEF Free, Busy
    <2>3. CASE e # w
      BY <1>0, <1>1, <1>3, <2>1, <2>3, ThreadFrame DEF Unconcerned
    <2> QED BY <2>2, <2>3
  <1> QED BY <1>1, <1>2, <1>4, <1>5, <1>6, <1>7, UnconcernedStep

\* A user who has no task goes somewhere.
UserMoves(u, place) ==
    /\ Unconcerned /\ UNCHANGED <<spc, now, start_time, s_is_stopped, wpc>>
    /\ s_do_loop' \in BOOLEAN /\ stage' \in {"none", "created", "started", "shutdown"}
    /\ gave_up' \in BOOLEAN
    /\ upc' = [upc EXCEPT ![u] = place]
    /\ todo[u] = <<>> /\ out[u] = <<>> /\ Free(u)

\* A user goes on without touching tasks.
LEMMA UserMovesKeeps ==
    ASSUME IInv, OneUser, Orderly, NEW u \in Users, NEW place, UserMoves(u, place),
           UserTypes', LoopSound', StageSound', Emptied', Submits'
    PROVE  IInv'
  <1>0. /\ LoopTypes /\ UserTypes /\ (\A e \in Executors : ThreadSound(e)) /\ u \in Executors
        /\ \A v \in Users : v = u
    BY WhoIsWho DEF IInv, TypeOK, OneUser
  <1>1. LoopTypes'
    BY <1>0 DEF LoopTypes, UserMoves, Unconcerned
  <1>2. ASSUME NEW e \in Executors PROVE ThreadSound(e)'
    <2>1. SameThread(e)
      BY DEF UserMoves, Unconcerned, SameThread, QueuesStay
    <2>2. CASE e = u
      BY <2>1, <2>2, ThreadAtRest DEF UserMoves, Free, Busy
    <2>3. CASE e # u
      BY <1>0, <2>1, <2>3, ThreadFrame DEF UserMoves, Unconcerned
    <2> QED BY <2>2, <2>3
  <1> QED BY <1>1, <1>2, UnconcernedStep DEF UserMoves

\* There is no other user.
LEMMA OnlyUser ==
    ASSUME IInv, OneUser, Orderly, NEW u \in Users, NEW place
    PROVE  /\ LoopTypes /\ UserTypes /\ LoopSound /\ StageSound /\ Submits /\ Emptied
           /\ u \in Executors /\ (\A v \in Users : v = u)
           /\ upc' = [upc EXCEPT ![u] = place] => upc'[u] = place
  BY WhoIsWho DEF IInv, TypeOK, OneUser, UserTypes

\* A user who is idle has no task, and nobody finalizes the callouts.
LEMMA IdleUser ==
    ASSUME IInv, OneUser, Orderly, NEW u \in Users, Idle(u)
    PROVE  /\ upc[u] = "idle" /\ todo[u] = <<>> /\ out[u] = <<>> /\ Free(u) /\ ~gave_up
           /\ ~s_do_loop => spc \in Resting
  BY OnlyUser DEF Idle, StageSound, LoopSound

\* Nor has one who waits.
LEMMA BusyUser ==
    ASSUME IInv, OneUser, Orderly, NEW u \in Users, upc[u] \notin Clearing \cup {"idle"}
    PROVE  todo[u] = <<>> /\ out[u] = <<>> /\ Free(u) /\ (upc[u] # "finalized" => ~gave_up)
  <1>1. Away(u) /\ u # Sched /\ ThreadSound(u)
    BY OnlyUser, CalloutAssumption DEF Away, IInv
  <1> QED BY <1>1, OnlyUser DEF ThreadSound, Free, Busy, StageSound

LEMMA SubmitKeeps ==
    ASSUME IInv, OneUser, Orderly, NEW u \in Users, NEW t \in Tasks, NEW d \in mode.delays,
           NEW i \in Intervals, Submit(u, t, d, i)
    PROVE  IInv'
  <1>0. /\ LoopTypes /\ UserTypes /\ LoopSound /\ StageSound /\ Submits /\ Emptied
        /\ (\A v \in Users : v = u)
        /\ upc[u] = "idle" /\ todo[u] = <<>> /\ out[u] = <<>> /\ Free(u) /\ ~gave_up
        /\ (~s_do_loop => spc \in Resting) /\ d \in Int /\ i \in Nat
    <2>1. Idle(u)
      BY DEF Submit
    <2>2. mode \in Modes
      BY DEF IInv, TypeOK, LoopTypes
    <2>3. d \in Int /\ i \in Nat
      BY <2>2, CalloutAssumption DEF ModeOK
    <2> QED BY <2>1, <2>3, OnlyUser, IdleUser
  <1>1. /\ Unconcerned /\ UNCHANGED <<spc, now, start_time, s_is_stopped, s_do_loop, wpc, stage, gave_up>>
        /\ upc' = [upc EXCEPT ![u] = "submit"]
        /\ uarg' = [uarg EXCEPT ![u] = [task |-> t, delay |-> d, interval |-> i, fin |-> FALSE]]
    BY <1>0 DEF Submit, Unconcerned, QueuesStay, tasks, queues, loop, taken, workers, layers, history,
                UserGoes, LoopTypes
  <1>2. UserMoves(u, "submit")
    BY <1>0, <1>1 DEF UserMoves, LoopTypes
  <1>3. /\ upc'[u] = "submit" /\ uarg'[u].task = t /\ UserTypes'
    BY <1>0, <1>1 DEF UserTypes
  <1>4. LoopSound' /\ StageSound'
    <2>1. LoopSound'
      BY <1>0, <1>1, <1>3 DEF LoopSound, Clearing
    <2>2. StageSound'
      BY <1>0, <1>1, <1>3 DEF StageSound, Clearing, Unconcerned, W
    <2> QED BY <2>1, <2>2
  <1>5. Emptied'
    BY <1>0, <1>1, <1>3, EmptyStill DEF Clearing
  <1>6. Submits'
    <2>1. table[t] = "CREATED" /\ TaskSound(t)
      BY DEF Submit, IInv
    <2>2. task[t].m_status = "CREATED"
      BY <2>1 DEF TaskSound, Agreed, St
    <2> QED BY <1>0, <1>1, <1>3, <2>2 DEF Submits, Unconcerned
  <1> QED BY <1>2, <1>3, <1>4, <1>5, <1>6, UserMovesKeeps

LEMMA StopKeeps ==
    ASSUME IInv, OneUser, Orderly, NEW u \in Users, NEW fin \in BOOLEAN, Stop(u, fin)
    PROVE  IInv'
  <1>0. /\ LoopTypes /\ UserTypes /\ LoopSound /\ StageSound /\ Submits /\ Emptied
        /\ (\A v \in Users : v = u)
        /\ upc[u] = "idle" /\ todo[u] = <<>> /\ out[u] = <<>> /\ Free(u) /\ ~gave_up
        /\ (~s_do_loop => spc \in Resting)
    <2>1. Idle(u)
      BY DEF Stop
    <2> QED BY <2>1, OnlyUser, IdleUser
  <1>1. /\ Unconcerned /\ UNCHANGED <<spc, now, start_time, s_is_stopped, wpc, stage, gave_up>>
        /\ uarg' = [uarg EXCEPT ![u] = [NoArg EXCEPT !.fin = fin]]
    BY <1>0 DEF Stop, Unconcerned, QueuesStay, tasks, queues, loop, taken, workers, layers, history,
                LoopTypes
  <1>2. UserTypes' /\ uarg'[u].fin = fin
    <2>1. [NoArg EXCEPT !.fin = fin] \in [task : Tasks \cup {Nobody}, delay : Int, interval : Nat, fin : BOOLEAN]
          /\ [NoArg EXCEPT !.fin = fin].fin = fin
      BY DEF NoArg
    <2>2. PICK a \in [task : Tasks \cup {Nobody}, delay : Int, interval : Nat, fin : BOOLEAN] :
             a = [NoArg EXCEPT !.fin = fin] /\ a.fin = fin
      BY <2>1
    <2>3. uarg' = [uarg EXCEPT ![u] = a]
      BY <1>1, <2>2
    <2>4. \E p \in {"wakeup", "stage"} : upc' = [upc EXCEPT ![u] = p]
      BY DEF Stop, UserGoes
    <2> QED BY <1>0, <2>2, <2>3, <2>4 DEF UserTypes
  <1>3. CASE s_do_loop' = FALSE /\ upc' = [upc EXCEPT ![u] = "wakeup"]
    <2>1. UserMoves(u, "wakeup")
      BY <1>0, <1>1, <1>3 DEF UserMoves, LoopTypes
    <2>2. upc'[u] = "wakeup"
      BY <1>0, <1>3 DEF UserTypes
    <2>3. LoopSound'
      BY <1>0, <1>1, <2>2 DEF LoopSound, Clearing
    <2>4. StageSound'
      BY <1>0, <1>1, <2>2 DEF StageSound, Clearing, Unconcerned, W
    <2>5. Emptied' /\ Submits'
      BY <1>0, <1>1, <2>2, EmptyStill, SubmitsStill DEF Clearing
    <2> QED BY <1>2, <2>1, <2>3, <2>4, <2>5, UserMovesKeeps
  <1>4. CASE /\ s_is_stopped \/ ~s_do_loop
             /\ fin /\ upc' = [upc EXCEPT ![u] = "stage"] /\ s_do_loop' = s_do_loop
    <2>1. UserMoves(u, "stage")
      BY <1>0, <1>1, <1>4 DEF UserMoves, LoopTypes
    <2>2. upc'[u] = "stage"
      BY <1>0, <1>4 DEF UserTypes
    <2>3. spc \in Resting
      BY <1>0, <1>4 DEF LoopSound, Resting
    <2>4. LoopSound'
      BY <1>0, <1>1, <1>2, <1>4, <2>2, <2>3 DEF LoopSound
    <2>5. StageSound'
      BY <1>0, <1>1, <2>2 DEF StageSound, Clearing, Unconcerned, W
    <2>6. Emptied' /\ Submits'
      BY <1>0, <1>1, <2>2, EmptyStill, SubmitsStill DEF Clearing
    <2> QED BY <1>2, <2>1, <2>4, <2>5, <2>6, UserMovesKeeps
  <1> QED BY <1>3, <1>4 DEF Stop, UserGoes

LEMMA StopWakesKeeps ==
    ASSUME IInv, OneUser, Orderly, NEW u \in Users, StopWakes(u) \/ StopAnswered(u)
    PROVE  IInv'
  <1>0. /\ LoopTypes /\ UserTypes /\ LoopSound /\ StageSound /\ Submits /\ Emptied
        /\ (\A v \in Users : v = u) /\ upc[u] \in {"wakeup", "waking"}
        /\ todo[u] = <<>> /\ out[u] = <<>> /\ Free(u) /\ ~gave_up
    BY OnlyUser, BusyUser DEF StopWakes, StopAnswered, Clearing
  <1>1. PICK p \in {"waking", "stopping"} : upc' = [upc EXCEPT ![u] = p]
    BY DEF StopWakes, StopAnswered, UserGoes
  <1>2. /\ Unconcerned
        /\ UNCHANGED <<spc, now, start_time, s_is_stopped, s_do_loop, wpc, stage, gave_up, uarg>>
    BY <1>0 DEF StopWakes, StopAnswered, Unconcerned, QueuesStay, tasks, queues, loop, taken, workers,
                layers, history, LoopTypes
  <1>3. UserMoves(u, p)
    BY <1>0, <1>1, <1>2 DEF UserMoves, LoopTypes
  <1>4. upc'[u] = p /\ UserTypes'
    BY <1>0, <1>1, <1>2 DEF UserTypes
  <1>5. LoopSound'
    BY <1>0, <1>1, <1>2, <1>4 DEF LoopSound, Clearing
  <1>6. StageSound'
    BY <1>0, <1>2, <1>4 DEF StageSound, Clearing, Unconcerned, W
  <1>7. Emptied' /\ Submits'
    BY <1>0, <1>2, <1>4, EmptyStill, SubmitsStill DEF Clearing
  <1> QED BY <1>3, <1>4, <1>5, <1>6, <1>7, UserMovesKeeps

LEMMA StopSleepsKeeps ==
    ASSUME IInv, OneUser, Orderly, NEW u \in Users, StopSleeps(u)
    PROVE  IInv'
  <1>0. /\ LoopTypes /\ UserTypes /\ LoopSound /\ StageSound /\ Submits /\ Emptied
        /\ (\A v \in Users : v = u) /\ upc[u] = "stopping"
        /\ todo[u] = <<>> /\ out[u] = <<>> /\ Free(u) /\ ~gave_up
    BY OnlyUser, BusyUser DEF StopSleeps, Clearing
  <1>1. PICK p \in {"asleep", "stage", "idle"} :
           /\ upc' = [upc EXCEPT ![u] = p]
           /\ p = "stage" => s_is_stopped /\ uarg[u].fin
           /\ p = "idle" => s_is_stopped
    BY DEF StopSleeps, UserGoes
  <1>2. /\ Unconcerned
        /\ UNCHANGED <<spc, now, start_time, s_is_stopped, s_do_loop, wpc, stage, gave_up, uarg>>
    BY <1>0 DEF StopSleeps, Unconcerned, QueuesStay, tasks, queues, loop, taken, workers, layers, history,
                LoopTypes
  <1>3. UserMoves(u, p)
    BY <1>0, <1>1, <1>2 DEF UserMoves, LoopTypes
  <1>4. upc'[u] = p /\ UserTypes'
    BY <1>0, <1>1, <1>2 DEF UserTypes
  <1>5. LoopSound'
    BY <1>0, <1>1, <1>2, <1>4 DEF LoopSound, Clearing, Resting
  <1>6. StageSound'
    BY <1>0, <1>2, <1>4 DEF StageSound, Clearing, Unconcerned, W
  <1>7. Emptied' /\ Submits'
    BY <1>0, <1>2, <1>4, EmptyStill, SubmitsStill DEF Clearing
  <1> QED BY <1>3, <1>4, <1>5, <1>6, <1>7, UserMovesKeeps

LEMMA FinishStageKeeps ==
    ASSUME IInv, OneUser, Orderly, NEW u \in Users, FinishStage(u)
    PROVE  IInv'
  <1>0. /\ LoopTypes /\ UserTypes /\ LoopSound /\ StageSound /\ Submits /\ Emptied
        /\ (\A v \in Users : v = u) /\ upc[u] = "stage"
        /\ todo[u] = <<>> /\ out[u] = <<>> /\ Free(u) /\ ~gave_up
    BY OnlyUser, BusyUser DEF FinishStage, Clearing
  <1>1. PICK p \in {"timed", "finalized", "stage", "workers"} :
           /\ upc' = [upc EXCEPT ![u] = p]
           /\ p = "timed" => stage = "none" /\ gave_up' = gave_up
           /\ p = "finalized" => gave_up' = TRUE
           /\ p = "stage" => gave_up' = gave_up
           /\ p = "workers" => gave_up' = gave_up /\ \A w \in W : wpc[w] = "over"
    <2>1. upc = [upc EXCEPT ![u] = "stage"]
      BY <1>0 DEF UserTypes
    <2> QED BY <2>1 DEF FinishStage, UserGoes
  <1>2. /\ Unconcerned
        /\ UNCHANGED <<spc, now, start_time, s_is_stopped, s_do_loop, wpc, uarg>>
        /\ stage' \in {stage, "shutdown"} /\ gave_up' \in BOOLEAN
        /\ stage' = "none" => stage = "none"
    BY <1>0 DEF FinishStage, Unconcerned, QueuesStay, tasks, queues, taken, layers, LoopTypes
  <1>3. UserMoves(u, p)
    BY <1>0, <1>1, <1>2 DEF UserMoves, LoopTypes
  <1>4. upc'[u] = p /\ UserTypes'
    BY <1>0, <1>1, <1>2 DEF UserTypes
  <1>5. LoopSound'
    BY <1>0, <1>1, <1>2, <1>4 DEF LoopSound, Clearing, Resting
  <1>6. StageSound'
    BY <1>0, <1>1, <1>2, <1>4 DEF StageSound, Clearing, Unconcerned, W
  <1>7. Emptied'
    <2>1. p = "timed" => \A w \in AllWorkers : wq[w] = <<>>
      BY <1>0, <1>1 DEF StageSound, Emptied
    <2>2. p = "finalized" => gave_up'
      BY <1>1
    <2> QED BY <1>0, <1>1, <1>2, <1>4, <2>1, <2>2 DEF Emptied, Past, Unconcerned, QueuesStay, W
  <1>8. Submits'
    BY <1>0, <1>2, <1>4, SubmitsStill
  <1> QED BY <1>3, <1>4, <1>5, <1>6, <1>7, <1>8, UserMovesKeeps

LEMMA ClearedKeeps ==
    ASSUME IInv, OneUser, Orderly, NEW u \in Users, Cleared(u)
    PROVE  IInv'
  <1>0. /\ LoopTypes /\ UserTypes /\ LoopSound /\ StageSound /\ Submits /\ Emptied
        /\ (\A v \in Users : v = u) /\ upc[u] \in Clearing /\ Free(u) /\ ~gave_up
    BY OnlyUser DEF Cleared, StageSound, Clearing
  <1>1. todo[u] = <<>> /\ out[u] = <<>>
    <2>1. Past(u, Clearing) /\ u \in Executors
      BY <1>0, OnlyUser DEF Past
    <2> QED BY <2>1, ClearingAlone
  <1>2. PICK p \in {"timed", "urgent", "queued", "finalized"} :
           /\ upc' = [upc EXCEPT ![u] = p]
           /\ p = "timed" => upc[u] = "workers" /\ \A w \in W : wq[w] = <<>>
           /\ p = "urgent" => upc[u] = "timed" /\ chrono_q = <<>>
           /\ p = "queued" => upc[u] = "urgent" /\ urgent_q = <<>>
           /\ p = "finalized" => upc[u] = "queued" /\ idle_q = <<>>
    BY DEF Cleared, UserGoes, Empty
  <1>3. /\ Unconcerned
        /\ UNCHANGED <<spc, now, start_time, s_is_stopped, s_do_loop, wpc, stage, uarg, gave_up>>
    BY <1>0 DEF Cleared, Unconcerned, QueuesStay, tasks, queues, taken, layers, LoopTypes, workers, history
  <1>4. UserMoves(u, p)
    BY <1>0, <1>1, <1>2, <1>3 DEF UserMoves, LoopTypes
  <1>5. upc'[u] = p /\ UserTypes'
    BY <1>0, <1>2, <1>3 DEF UserTypes
  <1>6. LoopSound'
    BY <1>0, <1>2, <1>3, <1>5 DEF LoopSound, Clearing, Resting
  <1>7. StageSound'
    BY <1>0, <1>2, <1>3, <1>5 DEF StageSound, Clearing, Unconcerned, W
  <1>8. Emptied'
    <2>1. \A w \in AllWorkers \ W : wq[w] = <<>>
      BY <1>0 DEF Emptied
    <2>2. /\ p = "timed" => \A w \in AllWorkers : wq[w] = <<>>
          /\ p = "urgent" => chrono_q = <<>> /\ \A w \in AllWorkers : wq[w] = <<>>
          /\ p = "queued" => urgent_q = <<>> /\ chrono_q = <<>> /\ \A w \in AllWorkers : wq[w] = <<>>
          /\ p = "finalized" => /\ idle_q = <<>> /\ urgent_q = <<>> /\ chrono_q = <<>>
                                /\ \A w \in AllWorkers : wq[w] = <<>>
      BY <1>0, <1>2, <2>1 DEF Emptied, Past
    <2> QED BY <1>0, <1>2, <1>3, <1>5, <2>1, <2>2 DEF Emptied, Past, Unconcerned, QueuesStay, W
  <1>9. Submits'
    BY <1>0, <1>2, <1>3, <1>5, SubmitsStill
  <1> QED BY <1>4, <1>5, <1>6, <1>7, <1>8, <1>9, UserMovesKeeps

\* The user takes the locks, and writes what he submits.
LEMMA SubmitLocksKeeps ==
    ASSUME IInv, OneUser, Orderly, NEW u \in Users, SubmitLocks(u)
    PROVE  IInv'
  <1>0. /\ LoopTypes /\ UserTypes /\ LoopSound /\ StageSound /\ Submits /\ Emptied /\ TaskTypes
        /\ (\A v \in Users : v = u) /\ upc[u] = "submit" /\ ~gave_up /\ u \in Executors
        /\ todo[u] = <<>> /\ out[u] = <<>> /\ Free(u)
    <2>1. upc[u] = "submit"
      BY DEF SubmitLocks
    <2> QED BY <2>1, OnlyUser, BusyUser DEF Clearing, IInv, TypeOK
  <1>1. PICK t \in Tasks : t = uarg[u].task
    BY <1>0 DEF Submits
  <1>2. /\ QueuesStay /\ UNCHANGED <<exec, canc, dest, mode, spc, now, start_time, s_is_stopped, s_do_loop,
                                     wpc, stage, gave_up, uarg, table, freed, canceled>>
        /\ upc' = [upc EXCEPT ![u] = "put"]
        /\ glock' = u /\ tlock' = [tlock EXCEPT ![t] = u]
        /\ task' = [task EXCEPT ![t] = Submitted(uarg[u])]
    BY <1>1 DEF SubmitLocks, QueuesStay, queues, loop, taken, workers, layers, history, UserGoes
  <1>3. PICK r \in Records :
           /\ r = Submitted(uarg[u])
           /\ r.m_status = task[t].m_status /\ r.m_exec_ref_count = task[t].m_exec_ref_count
           /\ r.m_cancel_ref_count = task[t].m_cancel_ref_count /\ r.m_is_first = task[t].m_is_first
           /\ r.m_is_in_timed_q = task[t].m_is_in_timed_q
           /\ r.m_next_abstime = task[t].m_next_abstime
           /\ task[t].m_do_repeat => r.m_do_repeat
    BY <1>0, <1>1, SubmittedRecord
  <1>4. task' = [task EXCEPT ![t] = r]
    BY <1>2, <1>3
  <1>5. /\ task' \in [Tasks -> Records] /\ task'[t] = r
        /\ \A o \in Tasks \ {t} : task'[o] = task[o]
    BY <1>0, <1>4, TaskChanges
  <1>6. TaskTypes'
    BY <1>0, <1>2, <1>5 DEF TaskTypes
  <1>7. ASSUME NEW o \in Tasks
        PROVE  SameRecord(o) /\ task'[o].m_next_abstime = task[o].m_next_abstime
    BY <1>2, <1>3, <1>5 DEF SameRecord, St, InQ, Ref
  <1>8. LoopTypes' /\ UserTypes' /\ upc'[u] = "put"
    BY <1>0, <1>2 DEF LoopTypes, UserTypes
  <1>9. LoopSound' /\ StageSound'
    BY <1>0, <1>2, <1>8 DEF LoopSound, StageSound, Clearing, W
  <1>10. Emptied'
    BY <1>0, <1>2, <1>8 DEF Emptied, Past, QueuesStay, W
  <1>11. Submits'
    BY <1>0, <1>1, <1>2, <1>3, <1>5, <1>8 DEF Submits
  <1>12. ASSUME NEW e \in Executors PROVE ThreadSound(e)'
    <2>1. SameThread(e)
      BY <1>2 DEF SameThread, QueuesStay
    <2>2. CASE e = u
      BY <1>0, <2>1, <2>2, ThreadAtRest DEF Free, Busy
    <2>3. CASE e # u
      BY <1>0, <1>2, <2>1, <2>3, ThreadFrame DEF IInv
    <2> QED BY <2>2, <2>3
  <1> QED BY <1>2, <1>6, <1>7, <1>8, <1>9, <1>10, <1>11, <1>12, QuietStep

-----------------------------------------------------------------------------
(* Tasks go from one queue to another.                                     *)

\* A step of the threads, on their queues.
LEMMA StillStep ==
    ASSUME IInv, Still, now' = now, start_time' = start_time, glock' \in Executors \cup {Nobody},
           TaskTypes', QueueTypes', LayerTypes', Emptied', QueuesSound',
           \A t \in Tasks : St(t) = "CREATED" => St(t)' = "CREATED",
           \A e \in Executors : ThreadSound(e)',
           \A t \in Tasks : Same(t) \/ TaskSound(t)'
    PROVE  IInv'
  <1>1. TypeOK'
    BY TypesFrame DEF IInv, TypeOK
  <1>2. LoopSound' /\ StageSound'
    BY ControlFrame DEF IInv
  <1>3. Submits'
    BY SubmitsFrame DEF IInv, Still
  <1> QED BY <1>1, <1>2, <1>3, Assembled DEF Still

\* A task that was in the hand k of e is, otherwise unchanged, in the hand l of d.
Carried(t, k, e, l, d) ==
    /\ InHand(t, k, e) /\ InHand(t, l, d)' /\ OnlyIn(t, l, d)'
    /\ Says(k, e) \subseteq Says(l, d)
    /\ SameRecord(t) /\ mode' = mode /\ dest' = dest
    /\ \A x \in Executors : \/ exec'[x] = exec[x]
                            \/ exec[x].at = "none" /\ exec'[x].at = "begin"
    /\ \A x \in Executors : exec[x].at = "none" => t # exec[x].task

\* A task that is carried from one hand to another is sound.
LEMMA CarriedSound ==
    ASSUME IInv, Orderly, NEW t \in Tasks, NEW k \in Kinds \ {"exec", "dest", "timed"}, NEW e \in Places,
           NEW l \in Kinds \ {"dest", "timed"}, NEW d \in Places, Carried(t, k, e, l, d),
           l \in {"urgent", "idle"} <=> d = Nobody
    PROVE  TaskSound(t)'
  <1> USE DEF Carried
  <1>1. /\ TaskSound(t) /\ t \notin freed /\ St(t) = table[t] /\ St(t) \in Says(k, e) /\ ~InQ(t)
        /\ \A x \in Executors : t = exec[x].task => ~Main(exec[x])
        /\ \A x \in Executors : t # dest[x].task
        /\ t \in canceled => St(t) = "CANCELLED"
    BY InHandFacts
  <1>2. Both(t, Says(l, d))'
    BY <1>1 DEF Both, SameRecord
  <1>3. CountSound(t)'
    <2>1. Counted(t)' = Counted(t)
      BY DEF Counted
    <2> QED BY <1>1, <2>1 DEF CountSound, TaskSound, SameRecord
  <1>4. OneShot(t)' /\ ~InQ(t)' /\ t \notin freed' /\ (t \in canceled' => St(t)' = "CANCELLED")
    BY <1>1 DEF OneShot, TaskSound, SameRecord
  <1>5. task'[t].m_cancel_ref_count = 0 /\ (~Alone' => St(t)' # "CANCELLED")
    BY <1>1 DEF TaskSound, Agreed, SameRecord, Alone, W
  <1>6. \A x \in Executors : /\ t # dest'[x].task
                             /\ t = exec'[x].task => exec'[x].at = "begin" \/ ~Main(exec'[x])
    BY <1>1
  <1>7. Moved(t, l, d)
    BY <1>2, <1>3, <1>4, <1>5, <1>6 DEF Moved
  <1>8. Sched \notin AllWorkers
    BY WhoIsWho DEF IInv, TypeOK
  <1> QED BY <1>7, <1>8, MovedSound

\* What a step leaves of the records.
RecordsStay == UNCHANGED <<table, task, tlock, freed, canceled>>

\* The records stay.
LEMMA RecordsFrame ==
    ASSUME RecordsStay
    PROVE  /\ TaskTypes => TaskTypes'
           /\ \A t \in Tasks : SameRecord(t) /\ (St(t) = "CREATED" => St(t)' = "CREATED")
  BY DEF RecordsStay, TaskTypes, SameRecord, St, InQ, Ref

\* A thread that has tasks in a queue.
LEMMA NotAway ==
    ASSUME IInv, Orderly, NEW e \in Executors, todo[e] # <<>> \/ out[e] # <<>>, ~(e = Sched /\ spc = "timed")
    PROVE  ~Away(e)
  BY DEF IInv, ThreadSound

LEMMA PutKeeps ==
    ASSUME IInv, OneUser, Orderly, NEW th \in Executors, Put(th)
    PROVE  IInv'
  <1>0. /\ LoopTypes /\ QueueTypes /\ LayerTypes /\ TaskTypes /\ QueuesSound /\ Emptied
        /\ (\A e \in Executors : ThreadSound(e)) /\ th \in Places /\ Nobody \notin Executors
        /\ AllWorkers \subseteq Executors /\ glock \in Executors \cup {Nobody}
    BY WhoIsWho DEF IInv, TypeOK, Places, LoopTypes
  <1>1. todo[th] = <<>> /\ out[th] # <<>>
    BY DEF Put
  <1>2. PICK o \in [task : Tasks, worker : W] : o = Head(out[th]) /\ o.task \in Sent(out[th])
    BY <1>0, <1>1, SentTail DEF QueueTypes
  <1>3. PICK t \in Tasks : t = o.task
    BY <1>2
  <1>4. PICK w \in W : w = o.worker
    BY <1>2
  <1>5. /\ Still /\ RecordsStay /\ now' = now /\ start_time' = start_time /\ glock' = glock
        /\ UNCHANGED <<urgent_q, idle_q, chrono_q, last_q, todo, exec, canc, dest>>
        /\ wq' = [wq EXCEPT ![w] = Append(@, t)]
        /\ out' = [out EXCEPT ![th] = Tail(@)]
    BY <1>2, <1>3, <1>4 DEF Put, Still, RecordsStay, tasks, loop, workers, user, layers, history
  <1>6. w \in AllWorkers /\ w \in Executors /\ w \in Places /\ th \notin AllWorkers /\ ~Alone
    <2>1. w \in AllWorkers
      BY <1>0 DEF W, AllWorkers, LoopTypes
    <2> QED BY <1>0, <1>1, <2>1 DEF ThreadSound, Places
  <1>7. InHand(t, "out", th)
    BY <1>2, <1>3 DEF InHand
  <1>8. OnlyIn(t, "out", th) /\ \A d \in Executors : t # dest[d].task
    <2>1. "out" \in Kinds \ {"exec", "dest"}
      BY DEF Kinds
    <2> QED BY <1>0, <1>7, <2>1, InHandFacts
  <1>9. /\ \A x \in AllWorkers \ {w} : wq'[x] = wq[x]
        /\ wq' \in [AllWorkers -> Seq(Tasks)] /\ ToSet(wq'[w]) = ToSet(wq[w]) \cup {t} /\ NoRepeat(wq'[w])
    <2>1. t \notin ToSet(wq[w])
      BY <1>6, <1>8 DEF OnlyIn
    <2>2. wq'[w] = Append(wq[w], t) /\ wq[w] \in Seq(Tasks)
      BY <1>0, <1>5, <1>6 DEF QueueTypes
    <2>3. wq'[w] \in Seq(Tasks) /\ ToSet(wq'[w]) = ToSet(wq[w]) \cup {t} /\ NoRepeat(wq'[w])
      BY <1>0, <1>6, <2>1, <2>2, AppendSeq DEF QueuesSound
    <2> QED BY <1>0, <1>5, <2>3 DEF QueueTypes
  <1>10. /\ \A e \in Executors \ {th} : out'[e] = out[e]
         /\ out' \in [Executors -> Seq([task : Tasks, worker : W])]
         /\ Sent(out'[th]) = Sent(out[th]) \ {t} /\ SentOnce(out'[th])
    <2>1. out'[th] = Tail(out[th]) /\ out[th] \in Seq([task : Tasks, worker : W])
      BY <1>0, <1>5 DEF QueueTypes
    <2>2. /\ out'[th] \in Seq([task : Tasks, worker : W])
          /\ Sent(out'[th]) = Sent(out[th]) \ {t} /\ SentOnce(out'[th])
      <3>1. SentOnce(out[th]) /\ Head(out[th]).task = t
        BY <1>0, <1>2, <1>3 DEF QueuesSound
      <3>2. PICK q \in Seq([task : Tasks, worker : W]) : q = out[th]
        BY <2>1
      <3>3. /\ Tail(q) \in Seq([task : Tasks, worker : W])
            /\ SentOnce(q) => SentOnce(Tail(q)) /\ Sent(Tail(q)) = Sent(q) \ {Head(q).task}
        BY <1>1, <3>2, SentTail
      <3> QED BY <2>1, <3>1, <3>2, <3>3
    <2> QED BY <1>0, <1>5, <2>2 DEF QueueTypes
  <1>11. W' = W /\ AllWorkers' = AllWorkers
    BY <1>5 DEF W, AllWorkers, Still
  <1>12. QueueTypes' /\ LayerTypes' /\ TaskTypes'
    BY <1>0, <1>5, <1>9, <1>10, <1>11, RecordsFrame DEF QueueTypes, LayerTypes
  <1>13. Emptied'
    <2>1. ~Away(th)
      BY <1>0, <1>1, NotAway DEF ThreadSound
    <2>2. \A x \in AllWorkers \ W : wq'[x] = <<>>
      BY <1>0, <1>9 DEF Emptied
    <2> QED BY <1>5, <2>1, <2>2, FilledStep
  <1>14. QueuesSound'
    <2>1. \A i \in DOMAIN chrono_q : task'[chrono_q[i]] = task[chrono_q[i]]
      BY <1>5 DEF RecordsStay
    <2>2. \A x \in AllWorkers : NoRepeat(wq'[x])
      BY <1>0, <1>9 DEF QueuesSound
    <2>3. \A e \in Executors : NoRepeat(todo'[e]) /\ SentOnce(out'[e])
      <3> TAKE e \in Executors
      <3>1. NoRepeat(todo[e]) /\ SentOnce(out[e])
        BY <1>0 DEF QueuesSound
      <3>2. e # th => out'[e] = out[e]
        BY <1>10
      <3> QED BY <1>5, <1>10, <3>1, <3>2
    <2> QED BY <1>0, <1>5, <2>1, <2>2, <2>3 DEF QueuesSound
  <1>15. ASSUME NEW e \in Executors PROVE ThreadSound(e)'
    <2>1. CASE e = th
      <3>1. ~Away(e) /\ (Alone' <=> Alone) /\ (Away(e)' <=> Away(e))
        BY <1>0, <1>1, <1>5, <2>1, NotAway DEF ThreadSound, Alone, W, Away, Still
      <3> QED BY <1>0, <1>5, <1>6, <2>1, <3>1 DEF ThreadSound, Still
    <2>2. CASE e # th
      BY <1>0, <1>5, <1>10, <2>2, ThreadFrame DEF SameThread, Still
    <2> QED BY <2>1, <2>2
  <1>16. TaskSound(t)'
    <2>1. InHand(t, "wq", w)'
      BY <1>6, <1>9, <1>11 DEF InHand
    <2>2. OnlyIn(t, "wq", w)'
      BY <1>5, <1>8, <1>9, <1>10, <1>11 DEF OnlyIn
    <2>3. \A x \in Executors : exec[x].at = "none" => t # exec[x].task
      BY <1>0, WhoIsWho DEF LayerTypes
    <2>4. Carried(t, "out", th, "wq", w)
      BY <1>5, <1>7, <2>1, <2>2, <2>3, RecordsFrame DEF Carried, Says, Still
    <2> QED BY <1>0, <1>6, <2>4, CarriedSound DEF Kinds
  <1>17. \A s \in Tasks \ {t} : Same(s)
    <2>1. \A s \in Tasks \ {t} : SameQueues(s)
      BY <1>5, <1>9, <1>10 DEF SameQueues
    <2>2. \A s \in Tasks : SameLayers(s)
      BY <1>5 DEF SameLayers
    <2> QED BY <1>5, <2>1, <2>2, RecordsFrame DEF Same
  <1>18. \A s \in Tasks : Same(s) \/ TaskSound(s)'
    BY <1>16, <1>17
  <1>19. \A s \in Tasks : St(s) = "CREATED" => St(s)' = "CREATED"
    BY <1>5, RecordsFrame
  <1> QED BY <1>0, <1>5, <1>12, <1>13, <1>14, <1>15, <1>18, <1>19, StillStep

\* A worker takes what is in his queue.
LEMMA WorkerFetchesKeeps ==
    ASSUME IInv, OneUser, Orderly, NEW w \in AllWorkers, WorkerFetches(w)
    PROVE  IInv'
  <1>0. /\ LoopTypes /\ QueueTypes /\ LayerTypes /\ TaskTypes /\ QueuesSound /\ Emptied
        /\ (\A e \in Executors : ThreadSound(e)) /\ w \in Places /\ w \in Executors /\ Nobody \notin Executors
        /\ AllWorkers \subseteq Executors /\ glock \in Executors \cup {Nobody}
        /\ w # Sched /\ w \notin Users
    BY WhoIsWho DEF IInv, TypeOK, Places, LoopTypes
  <1>1. todo[w] = <<>> /\ Free(w) /\ wpc[w] = "loop"
    BY DEF WorkerFetches
  <1>2. /\ Still /\ RecordsStay /\ now' = now /\ start_time' = start_time /\ glock' = glock
        /\ UNCHANGED <<urgent_q, idle_q, chrono_q, last_q, out, exec, canc, dest>>
        /\ todo' = [todo EXCEPT ![w] = wq[w]]
        /\ wq' = [wq EXCEPT ![w] = <<>>]
    BY DEF WorkerFetches, Still, RecordsStay, tasks, loop, user, layers, history
  <1>3. /\ todo'[w] = wq[w] /\ wq'[w] = <<>> /\ ToSet(wq'[w]) = {} /\ ToSet(todo[w]) = {}
        /\ (\A e \in Executors \ {w} : todo'[e] = todo[e])
        /\ \A x \in AllWorkers \ {w} : wq'[x] = wq[x]
    BY <1>0, <1>1, <1>2, NothingIn DEF QueueTypes
  <1>4. W' = W /\ AllWorkers' = AllWorkers
    BY <1>2 DEF W, AllWorkers, Still
  <1>5. QueueTypes' /\ LayerTypes' /\ TaskTypes'
    <2>1. wq' \in [AllWorkers -> Seq(Tasks)] /\ todo' \in [Executors -> Seq(Tasks)]
      BY <1>0, <1>2 DEF QueueTypes
    <2> QED BY <1>0, <1>2, <1>4, <2>1, RecordsFrame DEF QueueTypes, LayerTypes
  <1>6. Emptied'
    BY <1>0, <1>2, <1>3, EmptiedFrame DEF Still
  <1>7. QueuesSound'
    <2>1. \A i \in DOMAIN chrono_q : task'[chrono_q[i]] = task[chrono_q[i]]
      BY <1>2 DEF RecordsStay
    <2>2. \A x \in AllWorkers : NoRepeat(wq'[x])
      <3> TAKE x \in AllWorkers
      <3>1. NoRepeat(wq[x])
        BY <1>0 DEF QueuesSound
      <3> QED BY <1>3, <3>1, NothingIn
    <2>3. \A e \in Executors : NoRepeat(todo'[e]) /\ SentOnce(out'[e])
      <3> TAKE e \in Executors
      <3>1. NoRepeat(todo[e]) /\ SentOnce(out[e]) /\ NoRepeat(wq[w])
        BY <1>0 DEF QueuesSound
      <3> QED BY <1>2, <1>3, <3>1
    <2> QED BY <1>0, <1>2, <2>1, <2>2, <2>3 DEF QueuesSound
  <1>8. ASSUME NEW e \in Executors PROVE ThreadSound(e)'
    <2>1. CASE e = w
      <3>1. ~Away(e)' /\ (Alone' <=> Alone) /\ ~Away(e)
        BY <1>0, <1>1, <1>2, <2>1 DEF Alone, W, Away, Still
      <3>2. Alone => wq[w] = <<>>
        BY <1>0 DEF Alone, Emptied
      <3> QED BY <1>0, <1>1, <1>2, <1>3, <2>1, <3>1, <3>2 DEF ThreadSound, Still, Free, Busy
    <2>2. CASE e # w
      BY <1>0, <1>2, <1>3, <2>2, ThreadFrame DEF SameThread, Still
    <2> QED BY <2>1, <2>2
  <1>9. ASSUME NEW t \in Tasks, t \in ToSet(wq[w])
        PROVE  TaskSound(t)'
    <2>1. InHand(t, "wq", w)
      BY <1>9 DEF InHand
    <2>2. OnlyIn(t, "wq", w) /\ \A d \in Executors : t # dest[d].task
      <3>1. "wq" \in Kinds \ {"exec", "dest"}
        BY DEF Kinds
      <3> QED BY <1>0, <2>1, <3>1, InHandFacts
    <2>3. InHand(t, "todo", w)'
      BY <1>0, <1>3, <1>9 DEF InHand
    <2>4. OnlyIn(t, "todo", w)'
      BY <1>2, <1>3, <1>4, <2>2 DEF OnlyIn
    <2>5. \A x \in Executors : exec[x].at = "none" => t # exec[x].task
      BY <1>0, WhoIsWho DEF LayerTypes
    <2>6. Carried(t, "wq", w, "todo", w)
      BY <1>2, <2>1, <2>3, <2>4, <2>5, RecordsFrame DEF Carried, Says, Still
    <2> QED BY <1>0, <2>6, CarriedSound DEF Kinds
  <1>10. ASSUME NEW s \in Tasks, s \notin ToSet(wq[w])
         PROVE  Same(s)
    <2>1. SameQueues(s)
      BY <1>2, <1>3, <1>10 DEF SameQueues
    <2>2. SameLayers(s)
      BY <1>2 DEF SameLayers
    <2> QED BY <1>2, <2>1, <2>2, RecordsFrame DEF Same
  <1>11. \A s \in Tasks : Same(s) \/ TaskSound(s)'
    BY <1>9, <1>10
  <1>12. \A s \in Tasks : St(s) = "CREATED" => St(s)' = "CREATED"
    BY <1>2, RecordsFrame
  <1> QED BY <1>0, <1>2, <1>5, <1>6, <1>7, <1>8, <1>11, <1>12, StillStep

\* What a thread begins with.
LEMMA BeginsRecord ==
    ASSUME NEW t \in Tasks
    PROVE  \E x \in ExecRecords :
              /\ x = [at |-> "begin", task |-> t, seen |-> "UNKNOWN", del |-> FALSE]
              /\ x.at = "begin" /\ x.task = t /\ ~x.del
  <1> DEFINE b == [at |-> "begin", task |-> t, seen |-> "UNKNOWN", del |-> FALSE]
  <1>1. b \in ExecRecords
    BY DEF ExecRecords, ExecPlaces, States
  <1>2. b.at = "begin" /\ b.task = t /\ ~b.del
    OBVIOUS
  <1> WITNESS b \in ExecRecords
  <1> QED BY <1>2

LEMMA WorkerRunsKeeps ==
    ASSUME IInv, OneUser, Orderly, NEW w \in AllWorkers, WorkerRuns(w)
    PROVE  IInv'
  <1>0. /\ LoopTypes /\ QueueTypes /\ LayerTypes /\ TaskTypes /\ QueuesSound /\ Emptied
        /\ (\A e \in Executors : ThreadSound(e)) /\ w \in Places /\ w \in Executors /\ Nobody \notin Executors
        /\ AllWorkers \subseteq Executors /\ glock \in Executors \cup {Nobody}
        /\ w # Sched /\ w \notin Users /\ Nobody \notin Tasks
    BY WhoIsWho DEF IInv, TypeOK, Places, LoopTypes
  <1>1. todo[w] # <<>> /\ exec[w].at = "none" /\ canc[w].at = "none" /\ dest[w].at = "none"
    BY DEF WorkerRuns, Free, Busy
  <1>2. /\ todo[w] \in Seq(Tasks) /\ NoRepeat(todo[w])
    BY <1>0 DEF QueueTypes, QueuesSound
  <1>3. PICK t \in Tasks : t = Head(todo[w]) /\ t \in ToSet(todo[w])
    BY <1>1, <1>2, TailSeq
  <1>4. PICK x \in ExecRecords :
            /\ x = [at |-> "begin", task |-> t, seen |-> "UNKNOWN", del |-> FALSE]
            /\ x.at = "begin" /\ x.task = t /\ ~x.del
    BY <1>0, BeginsRecord
  <1>5. /\ Still /\ RecordsStay /\ now' = now /\ start_time' = start_time /\ glock' = glock
        /\ UNCHANGED <<urgent_q, idle_q, chrono_q, last_q, wq, out, canc, dest>>
        /\ todo' = [todo EXCEPT ![w] = Tail(todo[w])]
        /\ exec' = [exec EXCEPT ![w] = x]
    BY <1>3, <1>4 DEF WorkerRuns, Begins, Still, RecordsStay, tasks, queues, loop, workers, user, history
  <1>6. /\ todo'[w] = Tail(todo[w]) /\ todo'[w] \in Seq(Tasks)
        /\ ToSet(todo'[w]) = ToSet(todo[w]) \ {t} /\ NoRepeat(todo'[w])
        /\ \A e \in Executors \ {w} : todo'[e] = todo[e]
    <2>1. PICK q \in Seq(Tasks) : q = todo[w] /\ q # <<>> /\ t = Head(q) /\ NoRepeat(q)
      BY <1>1, <1>2, <1>3
    <2>2. Tail(q) \in Seq(Tasks) /\ NoRepeat(Tail(q)) /\ ToSet(Tail(q)) = ToSet(q) \ {Head(q)}
      BY <2>1, TailSeq
    <2>3. todo'[w] = Tail(q) /\ \A e \in Executors \ {w} : todo'[e] = todo[e]
      BY <1>0, <1>5, <2>1 DEF QueueTypes
    <2> QED BY <2>1, <2>2, <2>3
  <1>7. /\ LayerTypes' /\ exec'[w] = x
        /\ \A e \in Executors \ {w} : exec'[e] = exec[e]
    BY <1>0, <1>4, <1>5, ExecChanges
  <1>8. QueueTypes' /\ TaskTypes'
    <2>1. todo' \in [Executors -> Seq(Tasks)]
      BY <1>0, <1>5, <1>6 DEF QueueTypes
    <2>2. W' = W /\ AllWorkers' = AllWorkers
      BY <1>5 DEF W, AllWorkers, Still
    <2> QED BY <1>0, <1>5, <2>1, <2>2, RecordsFrame DEF QueueTypes
  <1>9. Emptied'
    BY <1>0, <1>5, EmptiedFrame DEF Still
  <1>10. QueuesSound'
    <2>1. \A i \in DOMAIN chrono_q : task'[chrono_q[i]] = task[chrono_q[i]]
      BY <1>5 DEF RecordsStay
    <2>2. \A e \in Executors : NoRepeat(todo'[e]) /\ SentOnce(out'[e])
      <3> TAKE e \in Executors
      <3>1. NoRepeat(todo[e]) /\ SentOnce(out[e])
        BY <1>0 DEF QueuesSound
      <3> QED BY <1>5, <1>6, <3>1
    <2> QED BY <1>0, <1>5, <2>1, <2>2 DEF QueuesSound
  <1>11. ASSUME NEW e \in Executors PROVE ThreadSound(e)'
    <2>1. CASE e = w
      <3>1. ~Away(e)' /\ ~Alone' /\ ~Away(e) /\ ~Alone
        BY <1>0, <1>1, <1>5, <2>1, NotAway DEF ThreadSound, Alone, W, Away, Still
      <3> QED BY <1>0, <1>1, <1>4, <1>5, <1>7, <2>1, <3>1 DEF ThreadSound, Still
    <2>2. CASE e # w
      BY <1>0, <1>5, <1>6, <1>7, <2>2, ThreadFrame DEF SameThread, Still
    <2> QED BY <2>1, <2>2
  <1>12. TaskSound(t)'
    <2>1. InHand(t, "todo", w)
      BY <1>0, <1>3 DEF InHand
    <2>2. OnlyIn(t, "todo", w) /\ \A d \in Executors : t # dest[d].task
      <3>1. "todo" \in Kinds \ {"exec", "dest"}
        BY DEF Kinds
      <3> QED BY <1>0, <2>1, <3>1, InHandFacts
    <2>3. InHand(t, "exec", w)'
      BY <1>0, <1>4, <1>7 DEF InHand, Main
    <2>4. OnlyIn(t, "exec", w)'
      <3>1. AllWorkers' = AllWorkers
        BY DEF AllWorkers
      <3> QED BY <1>5, <1>6, <1>7, <2>2, <3>1 DEF OnlyIn
    <2>5. \A e \in Executors : exec[e].at = "none" => t # exec[e].task
      BY <1>0, WhoIsWho DEF LayerTypes
    <2>6. \A e \in Executors : exec'[e] = exec[e] \/ (exec[e].at = "none" /\ exec'[e].at = "begin")
      BY <1>1, <1>4, <1>7
    <2>7. Carried(t, "todo", w, "exec", w)
      BY <1>5, <2>1, <2>3, <2>4, <2>5, <2>6, RecordsFrame DEF Carried, Says, Still
    <2> QED BY <1>0, <2>7, CarriedSound DEF Kinds
  <1>13. \A s \in Tasks \ {t} : Same(s)
    <2>1. \A s \in Tasks \ {t} : SameQueues(s)
      BY <1>5, <1>6 DEF SameQueues
    <2>2. exec[w].task = Nobody
      BY <1>0, <1>1 DEF LayerTypes
    <2>3. \A s \in Tasks \ {t} : SameLayers(s)
      BY <1>0, <1>4, <1>5, <1>7, <2>2 DEF SameLayers
    <2> QED BY <1>5, <2>1, <2>3, RecordsFrame DEF Same
  <1>14. \A s \in Tasks : Same(s) \/ TaskSound(s)'
    BY <1>12, <1>13
  <1>15. \A s \in Tasks : St(s) = "CREATED" => St(s)' = "CREATED"
    BY <1>5, RecordsFrame
  <1> QED BY <1>0, <1>5, <1>7, <1>8, <1>9, <1>10, <1>11, <1>14, <1>15, StillStep

\* The worker that a task goes to.
LEMMA SomeWorker ==
    ASSUME LoopTypes, QueueTypes, Orderly, W # {}, NEW i \in Nat \ {0}, NEW n \in Nat \ {0}
    PROVE  /\ SetToSeq(W)[QueueOf(i, n) + 1] \in W
           /\ (QueueOf(i, n) + 1) % Cardinality(W) \in Nat
  <1>1. IsFiniteSet(W)
    BY WhoIsWho
  <1>2. Cardinality(W) \in Nat \ {0} /\ last_q \in Nat
    BY <1>1, FS_CardinalityType, FS_EmptySet DEF QueueTypes
  <1>3. PICK c \in Nat \ {0} : c = Cardinality(W)
    BY <1>2
  <1>4. PICK s \in Nat \ {0} : s = IF n < c THEN 1 ELSE n \div c
    <2>1. n >= c => n \div c >= 1 /\ n \div c \in Nat
      BY Z3
    <2> QED BY <2>1
  <1>5. QueueOf(i, n) = (last_q + (i - 1) \div s) % c
    BY <1>3, <1>4 DEF QueueOf
  <1>6. last_q + (i - 1) \div s \in Int
    BY <1>2
  <1>7. QueueOf(i, n) \in 0 .. c - 1
    BY <1>5, <1>6
  <1>8. \E f \in [1 .. Cardinality(W) -> W] : IsInjective(f)
    BY <1>1, FS_CardinalityType DEF ExistsBijection, Bijection, Injection
  <1>9. SetToSeq(W) \in [1 .. c -> W]
    BY <1>3, <1>8 DEF SetToSeq
  <1>10. SetToSeq(W)[QueueOf(i, n) + 1] \in W
    BY <1>7, <1>9
  <1> QED BY <1>3, <1>7, <1>10

\* What the marking of a task writes.
LEMMA MarkedRecord ==
    ASSUME NEW q \in Records, NEW n \in Int, NEW s \in States
    PROVE  \E r \in Records :
              /\ r = [q EXCEPT !.m_last_abstime = n, !.m_status = s]
              /\ r.m_exec_ref_count = q.m_exec_ref_count /\ r.m_status = s
              /\ r.m_cancel_ref_count = q.m_cancel_ref_count
              /\ r.m_do_repeat = q.m_do_repeat /\ r.m_is_first = q.m_is_first
              /\ r.m_is_in_timed_q = q.m_is_in_timed_q /\ r.m_next_abstime = q.m_next_abstime
  <1> DEFINE b == [q EXCEPT !.m_last_abstime = n, !.m_status = s]
  <1>1. b \in Records
    BY DEF Records
  <1>2. /\ b.m_exec_ref_count = q.m_exec_ref_count /\ b.m_status = s
        /\ b.m_cancel_ref_count = q.m_cancel_ref_count
        /\ b.m_do_repeat = q.m_do_repeat /\ b.m_is_first = q.m_is_first
        /\ b.m_is_in_timed_q = q.m_is_in_timed_q /\ b.m_next_abstime = q.m_next_abstime
    BY DEF Records
  <1> WITNESS b \in Records
  <1> QED BY <1>2

\* A thread goes from the first task that it took to the next, and the task t, the record of
\* which becomes r, to where k says.
Marks(th, t, r) ==
    /\ todo[th] # <<>> /\ t = Head(todo[th])
    /\ th \notin AllWorkers /\ ~Away(th) /\ Free(th)
    /\ Still /\ now' = now /\ start_time' = start_time /\ glock' = glock
    /\ UNCHANGED <<urgent_q, idle_q, chrono_q, wq, tlock, freed, canceled, canc, dest>>
    /\ todo' = [todo EXCEPT ![th] = Tail(todo[th])]
    /\ task' = [task EXCEPT ![t] = r]
    /\ table' = [table EXCEPT ![t] = r.m_status]
    /\ r.m_status = IF St(t) = "CANCELLED" THEN "CANCELLED" ELSE "DEQUEUED"
    /\ r.m_exec_ref_count = Ref(t)
    /\ r.m_cancel_ref_count = task[t].m_cancel_ref_count
    /\ r.m_do_repeat = task[t].m_do_repeat /\ r.m_is_first = task[t].m_is_first
    /\ r.m_is_in_timed_q = InQ(t) /\ r.m_next_abstime = task[t].m_next_abstime

\* What Mark does to the first task, whatever its state.
LEMMA MarkFacts ==
    ASSUME IInv, OneUser, Orderly, NEW th \in Executors, Mark(th)
    PROVE  \E t \in Tasks : \E r \in Records : Marks(th, t, r)
  <1>0. /\ LoopTypes /\ QueueTypes /\ TaskTypes /\ StageSound /\ ThreadSound(th) /\ th \in Places
    BY WhoIsWho DEF IInv, TypeOK, Places
  <1>1. todo[th] # <<>> /\ Free(th) /\ th \notin W /\ (th = Sched => spc = "run")
    BY DEF Mark
  <1>2. ~Away(th)
    BY <1>1, NotAway
  <1>3. th \notin AllWorkers
    BY <1>0, <1>1, <1>2 DEF StageSound, Away
  <1>4. PICK t \in Tasks : t = Head(todo[th]) /\ t \in ToSet(todo[th])
    BY <1>0, <1>1, TailSeq DEF QueueTypes
  <1>5. InHand(t, "todo", th)
    BY <1>4 DEF InHand
  <1>6. TaskSound(t) /\ St(t) = table[t] /\ St(t) \in {"ENQUEUED", "DEQUEUED", "CANCELLED"}
    <2>1. "todo" \in Kinds \ {"exec", "dest"}
      BY DEF Kinds
    <2> QED BY <1>0, <1>5, <2>1, InHandFacts
  <1>7. PICK q \in Records : q = task[t]
    BY <1>0 DEF TaskTypes
  <1>8. PICK n \in Int : n = IF th = Sched THEN start_time ELSE now
    BY <1>0 DEF LoopTypes
  <1>9. PICK s \in States : s = IF St(t) = "CANCELLED" THEN "CANCELLED" ELSE "DEQUEUED"
    BY DEF States
  <1>10. PICK r \in Records :
            /\ r = [q EXCEPT !.m_last_abstime = n, !.m_status = s]
            /\ r.m_exec_ref_count = q.m_exec_ref_count /\ r.m_status = s
            /\ r.m_cancel_ref_count = q.m_cancel_ref_count
            /\ r.m_do_repeat = q.m_do_repeat /\ r.m_is_first = q.m_is_first
            /\ r.m_is_in_timed_q = q.m_is_in_timed_q /\ r.m_next_abstime = q.m_next_abstime
    BY MarkedRecord, ZenonT(30)
  <1>11. s = IF Executable(t) THEN "DEQUEUED" ELSE q.m_status
    BY <1>6, <1>7, <1>9 DEF Executable, St
  <1>12. task' = [task EXCEPT ![t] = r]
    <2>1. task' = [task EXCEPT ![t].m_last_abstime = n, ![t].m_status = s]
      BY <1>4, <1>7, <1>8, <1>11 DEF Mark
    <2> QED BY <1>0, <1>7, <1>10, <2>1 DEF TaskTypes
  <1>13. table' = [table EXCEPT ![t] = s]
    <2>1. CASE Executable(t)
      BY <1>4, <1>11, <2>1 DEF Mark
    <2>2. CASE ~Executable(t)
      <3>1. table' = table
        BY <1>4, <2>2 DEF Mark
      <3>2. table[t] = s
        BY <1>6, <1>7, <1>11, <2>2 DEF St
      <3> QED BY <1>0, <3>1, <3>2 DEF TaskTypes
    <2> QED BY <2>1, <2>2
  <1>14. /\ Still /\ now' = now /\ start_time' = start_time /\ glock' = glock
         /\ UNCHANGED <<urgent_q, idle_q, chrono_q, wq, tlock, freed, canceled, canc, dest>>
         /\ todo' = [todo EXCEPT ![th] = Tail(todo[th])]
    BY DEF Mark, Still, loop, workers, user, history
  <1>15. Marks(th, t, r)
    BY <1>1, <1>2, <1>3, <1>4, <1>7, <1>9, <1>10, <1>12, <1>13, <1>14 DEF Marks, St, Ref, InQ
  <1> QED BY <1>15

\* A thread goes on with its next task, when the one before has got where it belongs.
LEMMA MarkStep ==
    ASSUME IInv, OneUser, Orderly, NEW th \in Executors, NEW t \in Tasks, NEW r \in Records,
           Marks(th, t, r), NEW k \in {"exec", "out"},
           InHand(t, k, th)', OnlyIn(t, k, th)',
           LayerTypes', last_q' \in Nat, out' \in [Executors -> Seq([task : Tasks, worker : W])],
           \A e \in Executors \ {th} : exec'[e] = exec[e] /\ out'[e] = out[e],
           exec'[th] = exec[th] \/ (exec'[th].at = "begin" /\ exec'[th].task = t /\ ~exec'[th].del),
           Alone \/ W = {} => out' = out,
           SentOnce(out'[th]), \A s \in Tasks \ {t} : s \in Sent(out'[th]) <=> s \in Sent(out[th])
    PROVE  IInv'
  <1>0. /\ LoopTypes /\ QueueTypes /\ LayerTypes /\ TaskTypes /\ QueuesSound /\ Emptied
        /\ (\A e \in Executors : ThreadSound(e)) /\ th \in Places /\ Nobody \notin Executors
        /\ AllWorkers \subseteq Executors /\ glock \in Executors \cup {Nobody}
        /\ Sched \notin AllWorkers /\ Nobody \notin Tasks /\ NoRepeat(todo[th])
    BY WhoIsWho DEF IInv, TypeOK, Places, LoopTypes, QueuesSound
  <1>1. /\ todo[th] # <<>> /\ t = Head(todo[th]) /\ th \notin AllWorkers /\ ~Away(th)
        /\ exec[th].at = "none" /\ canc[th].at = "none" /\ dest[th].at = "none"
    BY DEF Marks, Free, Busy
  <1>2. /\ Still /\ now' = now /\ start_time' = start_time /\ glock' = glock
        /\ UNCHANGED <<urgent_q, idle_q, chrono_q, wq, tlock, freed, canceled, canc, dest>>
        /\ todo' = [todo EXCEPT ![th] = Tail(todo[th])]
        /\ task' = [task EXCEPT ![t] = r]
        /\ table' = [table EXCEPT ![t] = r.m_status]
    BY DEF Marks
  <1>3. /\ r.m_status = IF St(t) = "CANCELLED" THEN "CANCELLED" ELSE "DEQUEUED"
        /\ r.m_exec_ref_count = Ref(t)
        /\ r.m_cancel_ref_count = task[t].m_cancel_ref_count
        /\ r.m_do_repeat = task[t].m_do_repeat /\ r.m_is_first = task[t].m_is_first
        /\ r.m_is_in_timed_q = InQ(t) /\ r.m_next_abstime = task[t].m_next_abstime
    BY DEF Marks
  <1>4. /\ todo'[th] = Tail(todo[th]) /\ todo'[th] \in Seq(Tasks)
        /\ ToSet(todo'[th]) = ToSet(todo[th]) \ {t} /\ NoRepeat(todo'[th])
        /\ t \in ToSet(todo[th]) /\ \A e \in Executors \ {th} : todo'[e] = todo[e]
    <2>1. PICK q \in Seq(Tasks) : q = todo[th] /\ q # <<>> /\ t = Head(q) /\ NoRepeat(q)
      BY <1>0, <1>1 DEF QueueTypes
    <2>2. /\ Tail(q) \in Seq(Tasks) /\ NoRepeat(Tail(q)) /\ ToSet(Tail(q)) = ToSet(q) \ {Head(q)}
          /\ Head(q) \in ToSet(q)
      BY <2>1, TailSeq
    <2>3. todo'[th] = Tail(q) /\ \A e \in Executors \ {th} : todo'[e] = todo[e]
      BY <1>0, <1>2, <2>1 DEF QueueTypes
    <2> QED BY <2>1, <2>2, <2>3
  <1>5. InHand(t, "todo", th)
    BY <1>4 DEF InHand
  <1>6. /\ TaskSound(t) /\ OnlyIn(t, "todo", th) /\ t \notin freed /\ ~InQ(t)
        /\ St(t) \in {"ENQUEUED", "DEQUEUED", "CANCELLED"}
        /\ (\A d \in Executors : t # dest[d].task)
        /\ (\A d \in Executors : t = exec[d].task => ~Main(exec[d]))
        /\ (t \in canceled => St(t) = "CANCELLED")
    <2>1. "todo" \in Kinds \ {"exec", "dest"}
      BY DEF Kinds
    <2>2. /\ TaskSound(t) /\ OnlyIn(t, "todo", th) /\ t \notin freed
          /\ St(t) \in {"ENQUEUED", "DEQUEUED", "CANCELLED"}
          /\ (InQ(t) <=> "todo" = "timed")
          /\ (\A d \in Executors : t = exec[d].task => ~Main(exec[d]))
          /\ (\A d \in Executors : t = dest[d].task => "todo" = "timed")
          /\ (t \in canceled => St(t) = "CANCELLED" \/ \E x \in Executors : t = dest[x].task)
      BY <1>0, <1>5, <2>1, InHandFacts
    <2> QED BY <2>2
  <1>7. /\ task' \in [Tasks -> Records] /\ task'[t] = r
        /\ \A o \in Tasks \ {t} : task'[o] = task[o]
    BY <1>0, <1>2, TaskChanges
  <1>8. r.m_status \in States /\ r.m_status \in {"DEQUEUED", "CANCELLED"}
    BY <1>3 DEF States
  <1>9. /\ table' \in [Tasks -> States] /\ table'[t] = r.m_status
        /\ \A o \in Tasks \ {t} : table'[o] = table[o]
    BY <1>0, <1>2, <1>8, TableChanges
  <1>10. TaskTypes'
    <2>1. Executors' = Executors
      BY DEF Executors, AllWorkers
    <2> QED BY <1>0, <1>2, <1>7, <1>9, <2>1 DEF TaskTypes
  <1>11. W' = W /\ AllWorkers' = AllWorkers /\ (Alone' <=> Alone)
    BY <1>2 DEF W, AllWorkers, Alone, Still
  <1>12. QueueTypes'
    <2>1. todo' \in [Executors -> Seq(Tasks)]
      BY <1>0, <1>2, <1>4 DEF QueueTypes
    <2> QED BY <1>0, <1>2, <1>11, <2>1 DEF QueueTypes
  <1>13. Emptied'
    <2>1. \A w \in AllWorkers \ W : wq'[w] = <<>>
      BY <1>0, <1>2 DEF Emptied
    <2> QED BY <1>1, <1>2, <2>1, FilledStep
  <1>14. QueuesSound'
    <2>1. \A i \in DOMAIN chrono_q : task'[chrono_q[i]].m_next_abstime = task[chrono_q[i]].m_next_abstime
      <3> TAKE i \in DOMAIN chrono_q
      <3>1. chrono_q[i] \in Tasks
        BY <1>0 DEF QueueTypes
      <3> QED BY <1>3, <1>7, <3>1
    <2>2. \A e \in Executors : NoRepeat(todo'[e]) /\ SentOnce(out'[e])
      <3> TAKE e \in Executors
      <3>1. NoRepeat(todo[e]) /\ SentOnce(out[e])
        BY <1>0 DEF QueuesSound
      <3> QED BY <1>4, <3>1
    <2> QED BY <1>0, <1>2, <2>1, <2>2 DEF QueuesSound
  <1>15. ASSUME NEW e \in Executors PROVE ThreadSound(e)'
    <2>1. CASE e = th
      <3>1. ~Away(e)' /\ ThreadSound(e)
        BY <1>0, <1>1, <1>2, <2>1 DEF Away, Still
      <3>2. e = Sched \/ ~Alone
        BY <1>1, <2>1, <3>1 DEF ThreadSound
      <3>3. e \in AllWorkers \/ Alone => out'[e] = <<>>
        BY <1>1, <2>1, <3>1 DEF ThreadSound
      <3>4. /\ exec'[e].at \in {"none", "begin"} /\ (exec'[e].at = "begin" => ~exec'[e].del)
            /\ canc'[e].at = "none" /\ dest'[e].at = "none"
        BY <1>1, <1>2, <2>1
      <3> QED BY <1>11, <3>1, <3>2, <3>3, <3>4 DEF ThreadSound
    <2>2. CASE e # th
      BY <1>0, <1>2, <1>4, <2>2, ThreadFrame DEF SameThread, Still
    <2> QED BY <2>1, <2>2
  <1>16. Moved(t, k, th)
    <2>1. Both(t, Says(k, th))'
      BY <1>7, <1>8, <1>9 DEF Both, Says, St
    <2>2. \A d \in Executors : /\ t # dest'[d].task
                               /\ t = exec'[d].task => exec'[d].at = "begin" \/ ~Main(exec'[d])
      BY <1>2, <1>6
    <2>3. CountSound(t)'
      <3>1. exec[th].task = Nobody
        BY <1>0, <1>1 DEF LayerTypes
      <3>2. th \notin Counted(t)' /\ th \notin Counted(t)
        BY <1>1, <3>1 DEF Counted
      <3>3. IsFiniteSet(Counted(t)') /\ Cardinality(Counted(t)') = Ref(t)
        BY <1>6, <3>2, CountChanges DEF TaskSound
      <3> QED BY <1>3, <1>7, <3>3 DEF CountSound, Ref
    <2>4. OneShot(t)'
      <3>1. task[t].m_is_first \/ task[t].m_do_repeat \/ St(t) = "CANCELLED"
        BY <1>6 DEF TaskSound, OneShot
      <3> QED BY <1>3, <1>7, <3>1 DEF OneShot, St
    <2>5. /\ t \notin freed' /\ ~InQ(t)' /\ task'[t].m_cancel_ref_count = 0
          /\ (t \in canceled' => St(t)' = "CANCELLED") /\ (~Alone' => St(t)' # "CANCELLED")
      BY <1>2, <1>3, <1>6, <1>7, <1>11 DEF TaskSound, Agreed, InQ, St
    <2> QED BY <2>1, <2>2, <2>3, <2>4, <2>5 DEF Moved
  <1>17. TaskSound(t)'
    BY <1>0, <1>16, MovedSound DEF Kinds
  <1>18. \A o \in Tasks \ {t} : Same(o)
    <2>1. exec[th].task = Nobody /\ canc'[th] = canc[th] /\ dest'[th] = dest[th]
      BY <1>0, <1>1, <1>2 DEF LayerTypes
    <2>2. \A o \in Tasks \ {t} : SameLayers(o) /\ SameRecord(o)
      <3>1. (exec[th].task \in {t, Nobody} /\ exec'[th].task \in {t, Nobody}) \/ exec'[th] = exec[th]
        BY <2>1
      <3> QED BY <1>0, <1>2, <1>7, <1>9, <2>1, <3>1, OthersStay
    <2>3. \A o \in Tasks \ {t} : SameQueues(o)
      BY <1>2, <1>4 DEF SameQueues
    <2> QED BY <2>2, <2>3 DEF Same
  <1>19. \A s \in Tasks : Same(s) \/ TaskSound(s)'
    BY <1>17, <1>18
  <1>20. \A s \in Tasks : St(s) = "CREATED" => St(s)' = "CREATED"
    BY <1>6, <1>7 DEF St
  <1> QED BY <1>0, <1>2, <1>10, <1>12, <1>13, <1>14, <1>15, <1>19, <1>20, StillStep

LEMMA MarkKeeps ==
    ASSUME IInv, OneUser, Orderly, NEW th \in Executors, Mark(th)
    PROVE  IInv'
  <1>1. PICK t \in Tasks, r \in Records : Marks(th, t, r)
    BY MarkFacts
  <1>2. /\ todo[th] # <<>> /\ t = Head(todo[th]) /\ th \notin AllWorkers /\ ~Away(th)
        /\ exec[th].at = "none" /\ canc[th].at = "none" /\ dest[th].at = "none"
        /\ Still /\ wq' = wq /\ canc' = canc /\ dest' = dest
        /\ UNCHANGED <<urgent_q, idle_q, chrono_q>>
        /\ todo' = [todo EXCEPT ![th] = Tail(todo[th])]
    BY <1>1 DEF Marks, Free, Busy
  <1>3. /\ LoopTypes /\ QueueTypes /\ LayerTypes /\ QueuesSound /\ NoRepeat(todo[th]) /\ ThreadSound(th)
        /\ th \in Places /\ Nobody \notin Tasks /\ AllWorkers' = AllWorkers
    BY WhoIsWho DEF IInv, TypeOK, Places, QueuesSound, AllWorkers
  <1>4. /\ todo'[th] = Tail(todo[th]) /\ ToSet(todo'[th]) = ToSet(todo[th]) \ {t}
        /\ t \in ToSet(todo[th]) /\ \A e \in Executors \ {th} : todo'[e] = todo[e]
    <2>1. PICK q \in Seq(Tasks) : q = todo[th] /\ q # <<>> /\ t = Head(q) /\ NoRepeat(q)
      BY <1>2, <1>3 DEF QueueTypes
    <2>2. ToSet(Tail(q)) = ToSet(q) \ {Head(q)} /\ Head(q) \in ToSet(q)
      BY <2>1, TailSeq
    <2>3. todo'[th] = Tail(q) /\ \A e \in Executors \ {th} : todo'[e] = todo[e]
      BY <1>2, <1>3, <2>1 DEF QueueTypes
    <2> QED BY <2>1, <2>2, <2>3
  <1>5. OnlyIn(t, "todo", th)
    <2>1. InHand(t, "todo", th)
      BY <1>4 DEF InHand
    <2>2. "todo" \in Kinds \ {"exec", "dest"}
      BY DEF Kinds
    <2> QED BY <1>3, <2>1, <2>2, InHandFacts
  <1>6. CASE W = {}
    <2>1. PICK x \in ExecRecords :
             /\ x = [at |-> "begin", task |-> t, seen |-> "UNKNOWN", del |-> FALSE]
             /\ x.at = "begin" /\ x.task = t /\ ~x.del
      BY BeginsRecord
    <2>2. exec' = [exec EXCEPT ![th] = x] /\ out' = out /\ last_q' = last_q
      BY <1>2, <1>6, <2>1 DEF Mark, Begins
    <2>3. /\ LayerTypes' /\ exec'[th] = x
          /\ \A e \in Executors \ {th} : exec'[e] = exec[e]
      BY <1>2, <1>3, <2>1, <2>2, ExecChanges
    <2>4. InHand(t, "exec", th)'
      BY <1>2, <2>1, <2>3 DEF InHand, Main
    <2>5. OnlyIn(t, "exec", th)'
      BY <1>2, <1>3, <1>4, <1>5, <2>2, <2>3 DEF OnlyIn
    <2>6. /\ last_q' \in Nat /\ out' \in [Executors -> Seq([task : Tasks, worker : W])]
          /\ SentOnce(out'[th]) /\ \A s \in Tasks \ {t} : s \in Sent(out'[th]) <=> s \in Sent(out[th])
      BY <1>3, <2>2 DEF QueueTypes, QueuesSound
    <2>7. \A e \in Executors \ {th} : exec'[e] = exec[e] /\ out'[e] = out[e]
      BY <2>2, <2>3
    <2>8. exec'[th].at = "begin" /\ exec'[th].task = t /\ ~exec'[th].del
      BY <2>1, <2>3
    <2>9. "exec" \in {"exec", "out"}
      OBVIOUS
    <2>10. exec'[th] = exec[th] \/ (exec'[th].at = "begin" /\ exec'[th].task = t /\ ~exec'[th].del)
      BY <2>8
    <2>11. Alone \/ W = {} => out' = out
      BY <2>2
    <2> QED BY <1>1, <2>3, <2>4, <2>5, <2>6, <2>7, <2>9, <2>10, <2>11, MarkStep
  <1>7. CASE W # {}
    <2>1. PICK n \in Nat \ {0} : n = Len(out[th]) + Len(todo[th])
      <3>1. PICK a \in Nat : a = Len(out[th])
        BY <1>3 DEF QueueTypes
      <3>2. PICK b \in Nat \ {0} : b = Len(todo[th])
        BY <1>2, <1>3 DEF QueueTypes
      <3>3. a + b \in Nat \ {0}
        OBVIOUS
      <3> QED BY <3>1, <3>2, <3>3
    <2>2. PICK i \in Nat \ {0} : i = Len(out[th]) + 1
      BY <1>3 DEF QueueTypes
    <2>3. PICK w \in W : w = SetToSeq(W)[QueueOf(i, n) + 1]
      BY <1>3, <1>7, SomeWorker
    <2>4. /\ out' = [out EXCEPT ![th] = Append(out[th], [task |-> t, worker |-> w])]
          /\ last_q' = IF Len(todo[th]) > 1 THEN last_q ELSE (QueueOf(n, n) + 1) % Cardinality(W)
          /\ exec' = exec
      BY <1>2, <1>7, <2>1, <2>2, <2>3 DEF Mark
    <2>5. last_q' \in Nat
      BY <1>3, <1>7, <2>1, <2>4, SomeWorker DEF QueueTypes
    <2>6. PICK q \in Seq([task : Tasks, worker : W]) : q = out[th] /\ SentOnce(q) /\ t \notin Sent(q)
      BY <1>3, <1>5 DEF QueueTypes, QueuesSound, OnlyIn
    <2>7. PICK p \in Seq([task : Tasks, worker : W]) :
             p = Append(q, [task |-> t, worker |-> w]) /\ Sent(p) = Sent(q) \cup {t} /\ SentOnce(p)
      BY <2>6, SentAppend
    <2>8. /\ out' \in [Executors -> Seq([task : Tasks, worker : W])] /\ out'[th] = p
          /\ \A e \in Executors \ {th} : out'[e] = out[e]
      BY <1>3, <2>4, <2>6, <2>7 DEF QueueTypes
    <2>9. InHand(t, "out", th)'
      BY <2>7, <2>8 DEF InHand
    <2>10. OnlyIn(t, "out", th)'
      BY <1>2, <1>3, <1>4, <1>5, <2>4, <2>7, <2>8 DEF OnlyIn
    <2>11. LayerTypes'
      BY <1>2, <1>3, <2>4 DEF LayerTypes
    <2>12. ~Alone
      BY <1>7 DEF Alone
    <2>13. SentOnce(out'[th]) /\ \A s \in Tasks \ {t} : s \in Sent(out'[th]) <=> s \in Sent(out[th])
      BY <2>6, <2>7, <2>8
    <2>14. exec'[th] = exec[th] /\ \A e \in Executors \ {th} : exec'[e] = exec[e] /\ out'[e] = out[e]
      BY <2>4, <2>8
    <2> QED BY <1>1, <1>7, <2>5, <2>8, <2>9, <2>10, <2>11, <2>12, <2>13, <2>14, MarkStep
  <1> QED BY <1>6, <1>7

\* The main loop takes the urgent and the idle tasks.
LEMMA SchedFetchesKeeps ==
    ASSUME IInv, OneUser, Orderly, SchedFetches
    PROVE  IInv'
  <1>0. /\ LoopTypes /\ UserTypes /\ QueueTypes /\ LayerTypes /\ TaskTypes /\ QueuesSound /\ Emptied
        /\ LoopSound /\ StageSound /\ Submits
        /\ (\A e \in Executors : ThreadSound(e)) /\ Sched \in Places /\ Sched \in Executors
        /\ Nobody \notin Executors /\ Nobody \in Places /\ AllWorkers \subseteq Executors
        /\ Sched \notin AllWorkers /\ Sched \notin Users
    BY WhoIsWho DEF IInv, TypeOK, Places
  <1>1. spc = "top" /\ spc' = "timed" /\ start_time' = now
    BY DEF SchedFetches, SpcGoes
  <1>2. /\ exec[Sched].at = "none" /\ canc[Sched].at = "none" /\ dest[Sched].at = "none"
        /\ todo[Sched] = <<>> /\ out[Sched] = <<>>
    <2>1. Away(Sched)
      BY <1>1 DEF Away
    <2> QED BY <1>0, <1>1, <2>1 DEF ThreadSound
  <1>3. /\ RecordsStay /\ now' = now /\ glock' = glock
        /\ UNCHANGED <<mode, s_is_stopped, s_do_loop, upc, uarg, stage, gave_up, wpc>>
        /\ UNCHANGED <<chrono_q, last_q, wq, exec, canc, dest>>
        /\ urgent_q' = <<>> /\ idle_q' = <<>>
        /\ todo' = [todo EXCEPT ![Sched] = urgent_q \o idle_q]
    BY DEF SchedFetches, RecordsStay, tasks, workers, user, layers, history
  <1>4. out' = out
    BY <1>0, <1>2 DEF SchedFetches, QueueTypes
  <1>5. ToSet(urgent_q) \cap ToSet(idle_q) = {}
    <2> SUFFICES ASSUME NEW t \in Tasks, t \in ToSet(urgent_q), t \in ToSet(idle_q) PROVE FALSE
      <3>1. ToSet(urgent_q) \subseteq Tasks
        BY <1>0 DEF QueueTypes, ToSet
      <3> QED BY <3>1
    <2>1. InHand(t, "urgent", Nobody)
      BY DEF InHand
    <2>2. "urgent" \in Kinds \ {"exec", "dest"}
      BY DEF Kinds
    <2>3. OnlyIn(t, "urgent", Nobody)
      BY <1>0, <2>1, <2>2, InHandFacts
    <2> QED BY <2>3 DEF OnlyIn
  <1>6. /\ todo'[Sched] \in Seq(Tasks) /\ ToSet(todo'[Sched]) = ToSet(urgent_q) \cup ToSet(idle_q)
        /\ NoRepeat(todo'[Sched]) /\ ToSet(todo[Sched]) = {}
        /\ ToSet(urgent_q') = {} /\ ToSet(idle_q') = {} /\ NoRepeat(urgent_q') /\ NoRepeat(idle_q')
        /\ \A e \in Executors \ {Sched} : todo'[e] = todo[e]
    <2>1. PICK p \in Seq(Tasks) : p = urgent_q /\ NoRepeat(p)
      BY <1>0 DEF QueueTypes, QueuesSound
    <2>2. PICK q \in Seq(Tasks) : q = idle_q /\ NoRepeat(q)
      BY <1>0 DEF QueueTypes, QueuesSound
    <2>3. p \o q \in Seq(Tasks) /\ ToSet(p \o q) = ToSet(p) \cup ToSet(q) /\ NoRepeat(p \o q)
      BY <1>5, <2>1, <2>2, ConcatSeq
    <2>4. todo'[Sched] = p \o q /\ \A e \in Executors \ {Sched} : todo'[e] = todo[e]
      BY <1>0, <1>3, <2>1, <2>2 DEF QueueTypes
    <2> QED BY <1>2, <1>3, <2>1, <2>2, <2>3, <2>4, NothingIn
  <1>7. W' = W /\ AllWorkers' = AllWorkers /\ (Alone' <=> Alone)
    BY <1>3 DEF W, AllWorkers, Alone
  <1>8. TypeOK'
    <2>1. todo' \in [Executors -> Seq(Tasks)]
      BY <1>0, <1>3, <1>6 DEF QueueTypes
    <2>2. QueueTypes'
      <3>1. <<>> \in Seq(Tasks)
        OBVIOUS
      <3> QED BY <1>0, <1>3, <1>4, <1>7, <2>1, <3>1 DEF QueueTypes
    <2>3. TaskTypes' /\ LayerTypes'
      BY <1>0, <1>3, RecordsFrame DEF LayerTypes
    <2>4. LoopTypes' /\ UserTypes'
      BY <1>0, <1>1, <1>3 DEF LoopTypes, UserTypes
    <2> QED BY <2>2, <2>3, <2>4 DEF TypeOK
  <1>9. LoopSound' /\ StageSound'
    <2>1. LoopSound'
      BY <1>0, <1>1, <1>3 DEF LoopSound, Resting
    <2>2. StageSound'
      BY <1>0, <1>3, <1>7 DEF StageSound
    <2> QED BY <2>1, <2>2
  <1>10. Emptied'
    BY <1>0, <1>3, EmptiedFrame
  <1>11. Submits'
    <2>1. \A t \in Tasks : St(t) = "CREATED" => St(t)' = "CREATED"
      BY <1>3, RecordsFrame
    <2> QED BY <1>0, <1>3, <2>1, SubmitsFrame
  <1>12. QueuesSound'
    <2>1. \A i \in DOMAIN chrono_q : task'[chrono_q[i]] = task[chrono_q[i]]
      BY <1>3 DEF RecordsStay
    <2>2. \A e \in Executors : NoRepeat(todo'[e]) /\ SentOnce(out'[e])
      <3> TAKE e \in Executors
      <3>1. NoRepeat(todo[e]) /\ SentOnce(out[e])
        BY <1>0 DEF QueuesSound
      <3> QED BY <1>4, <1>6, <3>1
    <2> QED BY <1>0, <1>3, <1>6, <2>1, <2>2 DEF QueuesSound
  <1>13. ASSUME NEW e \in Executors PROVE ThreadSound(e)'
    <2>1. CASE e = Sched
      <3>1. Away(e)' /\ e \notin Users /\ e \notin AllWorkers /\ spc' = "timed"
        BY <1>0, <1>1, <2>1 DEF Away
      <3>2. /\ exec'[e].at = "none" /\ canc'[e].at = "none" /\ dest'[e].at = "none" /\ out'[e] = <<>>
        BY <1>2, <1>3, <1>4, <2>1
      <3> QED BY <2>1, <3>1, <3>2 DEF ThreadSound
    <2>2. CASE e # Sched
      BY <1>0, <1>3, <1>4, <1>6, <2>2, ThreadFrame DEF SameThread
    <2> QED BY <2>1, <2>2
  <1>14. ASSUME NEW t \in Tasks, NEW k \in {"urgent", "idle"}, InHand(t, k, Nobody)
         PROVE  TaskSound(t)'
    <2>1. k \in Kinds \ {"exec", "dest"} /\ k \in Kinds \ {"exec", "dest", "timed"}
      BY DEF Kinds
    <2>2. OnlyIn(t, k, Nobody)
      BY <1>0, <1>14, <2>1, InHandFacts
    <2>3. InHand(t, "todo", Sched)'
      BY <1>0, <1>6, <1>14 DEF InHand
    <2>4. OnlyIn(t, "todo", Sched)'
      BY <1>0, <1>3, <1>4, <1>6, <1>7, <2>2 DEF OnlyIn
    <2>5. \A x \in Executors : exec[x].at = "none" => t # exec[x].task
      BY <1>0, WhoIsWho DEF LayerTypes
    <2>6. Says(k, Nobody) \subseteq Says("todo", Sched)
      BY <1>0 DEF Says
    <2>7. Carried(t, k, Nobody, "todo", Sched)
      BY <1>3, <1>14, <2>3, <2>4, <2>5, <2>6, RecordsFrame DEF Carried
    <2>8. "todo" \in Kinds \ {"dest", "timed"}
      BY DEF Kinds
    <2> QED BY <1>0, <2>1, <2>7, <2>8, CarriedSound
  <1>15. ASSUME NEW t \in Tasks, t \notin ToSet(urgent_q), t \notin ToSet(idle_q)
         PROVE  Same(t)
    <2>1. SameQueues(t)
      BY <1>3, <1>4, <1>6, <1>15 DEF SameQueues
    <2>2. SameLayers(t)
      BY <1>3 DEF SameLayers
    <2> QED BY <1>3, <2>1, <2>2, RecordsFrame DEF Same
  <1>16. \A t \in Tasks : Same(t) \/ TaskSound(t)'
    <2> TAKE t \in Tasks
    <2>1. t \in ToSet(urgent_q) => InHand(t, "urgent", Nobody)
      BY DEF InHand
    <2>2. t \in ToSet(idle_q) => InHand(t, "idle", Nobody)
      BY DEF InHand
    <2> QED BY <1>14, <1>15, <2>1, <2>2
  <1> QED BY <1>3, <1>8, <1>9, <1>10, <1>11, <1>12, <1>13, <1>16, Assembled

\* How many tasks the main loop finds to be due.
LEMMA DueNumber ==
    ASSUME NEW q \in Seq(Tasks), NEW P, P \subseteq DOMAIN q
    PROVE  Cardinality(P) \in 0 .. Len(q)
  <1>1. IsFiniteSet(1 .. Len(q)) /\ Cardinality(1 .. Len(q)) = Len(q)
    <2>1. \A n \in Nat : IsFiniteSet(1 .. n) /\ Cardinality(1 .. n) = n
      BY FS_Interval
    <2>2. Len(q) \in Nat
      OBVIOUS
    <2> QED BY <2>1, <2>2, Zenon
  <1>2. P \subseteq 1 .. Len(q)
    OBVIOUS
  <1>3. IsFiniteSet(P) /\ Cardinality(P) <= Cardinality(1 .. Len(q))
    BY <1>1, <1>2, FS_Subset
  <1>4. Cardinality(P) \in Nat
    BY <1>3, FS_CardinalityType
  <1>5. Len(q) \in Nat
    OBVIOUS
  <1> QED BY <1>1, <1>3, <1>4, <1>5

\* The main loop takes the due tasks of the timed queue, a is what it takes, b what it leaves.
Takes(a, b) ==
    /\ a \in Seq(Tasks) /\ b \in Seq(Tasks)
    /\ ToSet(chrono_q) = ToSet(a) \cup ToSet(b) /\ ToSet(a) \cap ToSet(b) = {}
    /\ NoRepeat(a) /\ NoRepeat(b) /\ (chrono_q = <<>> => b = <<>>)
    /\ \A i, j \in DOMAIN b : i < j => \E m, n \in DOMAIN chrono_q :
                                          m < n /\ chrono_q[m] = b[i] /\ chrono_q[n] = b[j]
    /\ spc = "timed" /\ spc' = "run" /\ chrono_q' = b
    /\ todo' = [todo EXCEPT ![Sched] = a \o todo[Sched]]
    /\ table' = [t \in Tasks |-> IF t \in ToSet(a) THEN "DEQUEUED" ELSE table[t]]
    /\ task' = [t \in Tasks |-> IF t \in ToSet(a)
                                THEN Dequeued(task[t]) ELSE task[t]]
    /\ UNCHANGED <<mode, s_is_stopped, s_do_loop, upc, uarg, stage, gave_up, wpc>>
    /\ UNCHANGED <<tlock, freed, canceled, urgent_q, idle_q, wq, last_q, out, exec, canc, dest>>
    /\ now' = now /\ start_time' = start_time /\ glock' = glock

\* SchedTakesTimed splits the timed queue.
LEMMA TakesFacts ==
    ASSUME IInv, SchedTakesTimed
    PROVE  \E a, b \in Seq(Tasks) : Takes(a, b)
  <1>1. chrono_q \in Seq(Tasks) /\ NoRepeat(chrono_q)
    BY DEF IInv, TypeOK, QueueTypes, QueuesSound
  <1>2. PICK n \in 0 .. Len(chrono_q) : DueTasks = SubSeq(chrono_q, 1, n)
    <2> DEFINE P == {i \in DOMAIN chrono_q :
                       \A j \in 1..i : task[chrono_q[j]].m_next_abstime <= start_time}
    <2>1. P \subseteq DOMAIN chrono_q
      OBVIOUS
    <2>2. DueTasks = SubSeq(chrono_q, 1, Cardinality(P))
      BY DEF DueTasks
    <2> HIDE DEF P
    <2>3. Cardinality(P) \in 0 .. Len(chrono_q)
      BY <1>1, <2>1, DueNumber
    <2> QED BY <2>2, <2>3
  <1>5. PICK a : a = SubSeq(chrono_q, 1, n) /\ a = DueTasks
    BY <1>2
  <1>6. PICK b : b = SubSeq(chrono_q, n + 1, Len(chrono_q))
    OBVIOUS
  <1>7. /\ a \in Seq(Tasks) /\ b \in Seq(Tasks)
        /\ Len(b) = Len(chrono_q) - n /\ Len(a) = n
        /\ \A i \in 1 .. Len(chrono_q) - n : b[i] = chrono_q[n + i]
        /\ ToSet(chrono_q) = ToSet(a) \cup ToSet(b)
        /\ NoRepeat(a) /\ NoRepeat(b) /\ ToSet(a) \cap ToSet(b) = {}
    BY <1>1, <1>5, <1>6, SplitSeq
  <1>8. \A i, j \in DOMAIN b : i < j => \E m, k \in DOMAIN chrono_q :
                                          m < k /\ chrono_q[m] = b[i] /\ chrono_q[k] = b[j]
    <2> TAKE i, j \in DOMAIN b
    <2> HAVE i < j
    <2>1. i \in 1 .. Len(chrono_q) - n /\ j \in 1 .. Len(chrono_q) - n /\ Len(chrono_q) \in Nat
      BY <1>1, <1>7
    <2>2. n + i \in DOMAIN chrono_q /\ n + j \in DOMAIN chrono_q /\ n + i < n + j
      BY <1>1, <2>1
    <2>3. chrono_q[n + i] = b[i] /\ chrono_q[n + j] = b[j]
      BY <1>7, <2>1
    <2> QED BY <2>2, <2>3
  <1>9. chrono_q = <<>> => b = <<>>
    BY <1>1, <1>7
  <1>10. /\ spc = "timed" /\ spc' = "run"
         /\ UNCHANGED <<mode, s_is_stopped, s_do_loop, upc, uarg, stage, gave_up, wpc>>
         /\ UNCHANGED <<tlock, freed, canceled, urgent_q, idle_q, wq, last_q, out, exec, canc, dest>>
         /\ now' = now /\ start_time' = start_time /\ glock' = glock
    BY DEF SchedTakesTimed, SpcGoes, workers, user, layers, history
  <1>11. /\ chrono_q' = SubSeq(chrono_q, Len(a) + 1, Len(chrono_q))
         /\ todo' = [todo EXCEPT ![Sched] = a \o @]
         /\ table' = [t \in Tasks |-> IF t \in ToSet(a) THEN "DEQUEUED" ELSE table[t]]
         /\ task' = [t \in Tasks |-> IF t \in ToSet(a) THEN Dequeued(task[t]) ELSE task[t]]
    BY <1>5 DEF SchedTakesTimed
  <1>12. Takes(a, b)
    <2>1. chrono_q' = b
      BY <1>6, <1>7, <1>11
    <2> QED BY <1>7, <1>8, <1>9, <1>10, <1>11, <2>1 DEF Takes
  <1> QED BY <1>7, <1>12

\* The record of a timed task that was taken.
LEMMA DequeuedRecord ==
    ASSUME NEW q \in Records
    PROVE  /\ Dequeued(q) \in Records
           /\ Dequeued(q).m_status = "DEQUEUED" /\ Dequeued(q).m_is_in_timed_q = FALSE
           /\ Dequeued(q).m_exec_ref_count = q.m_exec_ref_count
           /\ Dequeued(q).m_cancel_ref_count = q.m_cancel_ref_count
           /\ Dequeued(q).m_do_repeat = q.m_do_repeat /\ Dequeued(q).m_is_first = q.m_is_first
           /\ Dequeued(q).m_next_abstime = q.m_next_abstime
  BY OutRecord DEF Dequeued

LEMMA SchedTakesTimedKeeps ==
    ASSUME IInv, OneUser, Orderly, SchedTakesTimed
    PROVE  IInv'
  <1>0. /\ LoopTypes /\ UserTypes /\ QueueTypes /\ LayerTypes /\ TaskTypes /\ QueuesSound /\ Emptied
        /\ LoopSound /\ StageSound /\ Submits
        /\ (\A e \in Executors : ThreadSound(e)) /\ Sched \in Places /\ Sched \in Executors
        /\ Nobody \notin Executors /\ Nobody \in Places /\ AllWorkers \subseteq Executors
        /\ Sched \notin AllWorkers /\ Sched \notin Users
        /\ NoRepeat(todo[Sched]) /\ Ordered(chrono_q)
    BY WhoIsWho DEF IInv, TypeOK, Places, QueuesSound, Ordered
  <1>1. PICK a, b \in Seq(Tasks) : Takes(a, b)
    BY TakesFacts
  <1>2. /\ ToSet(chrono_q) = ToSet(a) \cup ToSet(b) /\ ToSet(a) \cap ToSet(b) = {}
        /\ NoRepeat(a) /\ NoRepeat(b) /\ (chrono_q = <<>> => b = <<>>)
        /\ spc = "timed" /\ spc' = "run" /\ chrono_q' = b
        /\ UNCHANGED <<mode, s_is_stopped, s_do_loop, upc, uarg, stage, gave_up, wpc>>
        /\ UNCHANGED <<tlock, freed, canceled, urgent_q, idle_q, wq, last_q, out, exec, canc, dest>>
        /\ now' = now /\ start_time' = start_time /\ glock' = glock
        /\ todo' = [todo EXCEPT ![Sched] = a \o todo[Sched]]
    BY <1>1 DEF Takes
  <1>3. /\ exec[Sched].at = "none" /\ canc[Sched].at = "none" /\ dest[Sched].at = "none"
        /\ out[Sched] = <<>>
    <2>1. Away(Sched)
      BY <1>2 DEF Away
    <2> QED BY <1>0, <2>1 DEF ThreadSound
  <1>4. ASSUME NEW t \in Tasks, t \in ToSet(a)
        PROVE  /\ TaskSound(t) /\ OnlyIn(t, "timed", Nobody) /\ t \notin freed /\ t \notin canceled
               /\ St(t) = "ENQUEUED" /\ InHand(t, "timed", Nobody)
               /\ (\A d \in Executors : t # dest[d].task)
               /\ (\A d \in Executors : t = exec[d].task => ~Main(exec[d]))
    <2>1. InHand(t, "timed", Nobody)
      BY <1>2, <1>4 DEF InHand
    <2>2. "timed" \in Kinds \ {"exec", "dest"}
      BY DEF Kinds
    <2>3. /\ TaskSound(t) /\ OnlyIn(t, "timed", Nobody) /\ t \notin freed
          /\ St(t) \in Says("timed", Nobody)
          /\ (\A d \in Executors : t = dest[d].task => spc = "run")
          /\ (\A d \in Executors : t = exec[d].task => ~Main(exec[d]))
          /\ (t \in canceled => St(t) = "CANCELLED" \/ \E x \in Executors : t = dest[x].task)
      BY <1>0, <2>1, <2>2, InHandFacts
    <2>4. St(t) = "ENQUEUED"
      BY <2>3 DEF Says
    <2> QED BY <1>2, <2>1, <2>3, <2>4
  <1>5. ASSUME NEW t \in Tasks
        PROVE  /\ t \in ToSet(a) => table'[t] = "DEQUEUED" /\ task'[t] = Dequeued(task[t])
               /\ t \notin ToSet(a) => table'[t] = table[t] /\ task'[t] = task[t]
    BY <1>1 DEF Takes
  <1>6. ASSUME NEW t \in Tasks
        PROVE  /\ task[t] \in Records /\ table[t] \in States
               /\ Dequeued(task[t]) \in Records
               /\ Dequeued(task[t]).m_status = "DEQUEUED" /\ Dequeued(task[t]).m_is_in_timed_q = FALSE
               /\ Dequeued(task[t]).m_exec_ref_count = Ref(t)
               /\ Dequeued(task[t]).m_cancel_ref_count = task[t].m_cancel_ref_count
               /\ Dequeued(task[t]).m_do_repeat = task[t].m_do_repeat
               /\ Dequeued(task[t]).m_is_first = task[t].m_is_first
               /\ Dequeued(task[t]).m_next_abstime = task[t].m_next_abstime
    <2>1. task[t] \in Records /\ table[t] \in States
      BY <1>0 DEF TaskTypes
    <2> QED BY <2>1, DequeuedRecord DEF Ref
  <1>7. W' = W /\ AllWorkers' = AllWorkers /\ (Alone' <=> Alone)
    BY <1>2 DEF W, AllWorkers, Alone
  <1>8. TaskTypes'
    <2>1. task' = [t \in Tasks |-> IF t \in ToSet(a) THEN Dequeued(task[t]) ELSE task[t]]
      BY <1>1 DEF Takes
    <2>2. task' \in [Tasks -> Records]
      BY <1>6, <2>1
    <2>3. table' \in [Tasks -> States]
      <3>1. table' = [t \in Tasks |-> IF t \in ToSet(a) THEN "DEQUEUED" ELSE table[t]]
        BY <1>1 DEF Takes
      <3>2. "DEQUEUED" \in States
        BY DEF States
      <3> QED BY <1>6, <3>1, <3>2
    <2>4. Executors' = Executors
      BY DEF Executors, AllWorkers
    <2> QED BY <1>0, <1>2, <2>2, <2>3, <2>4 DEF TaskTypes
  <1>9. ToSet(a) \subseteq Tasks /\ ToSet(a) \cap ToSet(todo[Sched]) = {}
    <2>1. ToSet(a) \subseteq Tasks
      BY DEF ToSet
    <2> QED BY <1>0, <1>4, <2>1 DEF OnlyIn
  <1>10. /\ todo'[Sched] \in Seq(Tasks) /\ ToSet(todo'[Sched]) = ToSet(a) \cup ToSet(todo[Sched])
         /\ NoRepeat(todo'[Sched]) /\ \A e \in Executors \ {Sched} : todo'[e] = todo[e]
    <2>1. PICK q \in Seq(Tasks) : q = todo[Sched] /\ NoRepeat(q)
      BY <1>0 DEF QueueTypes
    <2>2. a \o q \in Seq(Tasks) /\ ToSet(a \o q) = ToSet(a) \cup ToSet(q) /\ NoRepeat(a \o q)
      BY <1>2, <1>9, <2>1, ConcatSeq
    <2>3. todo'[Sched] = a \o q /\ \A e \in Executors \ {Sched} : todo'[e] = todo[e]
      BY <1>0, <1>2, <2>1 DEF QueueTypes
    <2> QED BY <2>1, <2>2, <2>3
  <1>11. TypeOK'
    <2>1. todo' \in [Executors -> Seq(Tasks)]
      BY <1>0, <1>2, <1>10 DEF QueueTypes
    <2>2. QueueTypes'
      BY <1>0, <1>2, <1>7, <2>1 DEF QueueTypes
    <2>3. LayerTypes'
      BY <1>0, <1>2 DEF LayerTypes
    <2>4. LoopTypes' /\ UserTypes'
      BY <1>0, <1>2 DEF LoopTypes, UserTypes
    <2> QED BY <1>8, <2>2, <2>3, <2>4 DEF TypeOK
  <1>12. LoopSound' /\ StageSound'
    <2>1. LoopSound'
      BY <1>0, <1>2 DEF LoopSound, Resting
    <2>2. StageSound'
      BY <1>0, <1>2, <1>7 DEF StageSound
    <2> QED BY <2>1, <2>2
  <1>13. Emptied'
    BY <1>0, <1>2, EmptiedFrame
  <1>14. Submits'
    <2>1. \A t \in Tasks : St(t) = "CREATED" => St(t)' = "CREATED"
      BY <1>4, <1>5 DEF St
    <2> QED BY <1>0, <1>2, <2>1, SubmitsFrame
  <1>15. QueuesSound'
    <2>1. \A i \in DOMAIN chrono_q : task'[chrono_q[i]].m_next_abstime = task[chrono_q[i]].m_next_abstime
      <3> TAKE i \in DOMAIN chrono_q
      <3>1. chrono_q[i] \in Tasks
        BY <1>0 DEF QueueTypes
      <3> QED BY <1>5, <1>6, <3>1
    <2>2. \A i, j \in DOMAIN b : i < j => \E m, n \in DOMAIN chrono_q :
                                          m < n /\ chrono_q[m] = b[i] /\ chrono_q[n] = b[j]
      BY <1>1 DEF Takes
    <2>3. \A i, j \in DOMAIN b : i < j => task'[b[i]].m_next_abstime <= task'[b[j]].m_next_abstime
      BY <1>0, <2>1, <2>2, StillOrdered
    <2>4. \A e \in Executors : NoRepeat(todo'[e]) /\ SentOnce(out'[e])
      <3> TAKE e \in Executors
      <3>1. NoRepeat(todo[e]) /\ SentOnce(out[e])
        BY <1>0 DEF QueuesSound
      <3> QED BY <1>2, <1>10, <3>1
    <2> QED BY <1>0, <1>2, <2>3, <2>4 DEF QueuesSound
  <1>16. ASSUME NEW e \in Executors PROVE ThreadSound(e)'
    <2>1. CASE e = Sched
      <3>1. ~Away(e)'
        BY <1>0, <1>2, <2>1 DEF Away
      <3>2. /\ exec'[e].at = "none" /\ canc'[e].at = "none" /\ dest'[e].at = "none" /\ out'[e] = <<>>
        BY <1>2, <1>3, <2>1
      <3> QED BY <2>1, <3>1, <3>2 DEF ThreadSound
    <2>2. CASE e # Sched
      BY <1>0, <1>2, <1>10, <2>2, ThreadFrame DEF SameThread
    <2> QED BY <2>1, <2>2
  <1>17. ASSUME NEW t \in Tasks, t \in ToSet(a)
         PROVE  TaskSound(t)'
    <2>1. InHand(t, "todo", Sched)'
      BY <1>0, <1>10, <1>17 DEF InHand
    <2>2. OnlyIn(t, "todo", Sched)'
      BY <1>2, <1>4, <1>7, <1>10, <1>17 DEF OnlyIn
    <2>3. Both(t, Says("todo", Sched))'
      BY <1>0, <1>5, <1>6, <1>17 DEF Both, Says, St
    <2>4. \A d \in Executors : /\ t # dest'[d].task
                               /\ t = exec'[d].task => exec'[d].at = "begin" \/ ~Main(exec'[d])
      BY <1>2, <1>4, <1>17
    <2>5. CountSound(t)'
      <3>1. Counted(t)' = Counted(t)
        BY <1>2 DEF Counted
      <3>2. CountSound(t) /\ Ref(t)' = Ref(t)
        BY <1>4, <1>5, <1>6, <1>17 DEF TaskSound, Ref
      <3> QED BY <3>1, <3>2 DEF CountSound
    <2>6. OneShot(t)'
      <3>1. task[t].m_is_first \/ task[t].m_do_repeat
        BY <1>4, <1>17 DEF TaskSound, OneShot
      <3> QED BY <1>5, <1>6, <1>17, <3>1 DEF OneShot
    <2>7. task[t].m_cancel_ref_count = 0 /\ t \notin freed /\ t \notin canceled
      BY <1>4, <1>17 DEF TaskSound, Agreed
    <2>8. /\ t \notin freed' /\ ~InQ(t)' /\ task'[t].m_cancel_ref_count = 0
          /\ t \notin canceled' /\ St(t)' = "DEQUEUED"
      BY <1>2, <1>5, <1>6, <1>17, <2>7 DEF InQ, St
    <2>9. Moved(t, "todo", Sched)
      BY <2>1, <2>2, <2>3, <2>4, <2>5, <2>6, <2>8 DEF Moved
    <2>10. "todo" \in Kinds \ {"dest"}
      BY DEF Kinds
    <2> QED BY <1>0, <2>9, <2>10, MovedSound
  <1>18. ASSUME NEW t \in Tasks, t \notin ToSet(a)
         PROVE  Same(t)
    <2>1. SameQueues(t)
      BY <1>2, <1>10, <1>18 DEF SameQueues
    <2>2. SameLayers(t)
      BY <1>2 DEF SameLayers
    <2>3. SameRecord(t)
      BY <1>2, <1>5, <1>18, SameFields
    <2> QED BY <2>1, <2>2, <2>3 DEF Same
  <1>19. \A t \in Tasks : Same(t) \/ TaskSound(t)'
    BY <1>17, <1>18
  <1> QED BY <1>2, <1>11, <1>12, <1>13, <1>14, <1>15, <1>16, <1>19, Assembled

\* A task that is not submitted, and that nobody has.
LEMMA FreshTask ==
    ASSUME NEW t \in Tasks, Nobody \notin Executors, AllWorkers \subseteq Executors,
           ~Handed(t), SameQueues(t), UNCHANGED <<exec, dest>>,
           St(t)' = "CREATED", table'[t] = "CREATED", Ref(t)' = 0, task'[t].m_is_first,
           ~InQ(t)', task'[t].m_cancel_ref_count = 0, t \notin freed', t \notin canceled',
           \A e \in Executors : /\ t # exec[e].task /\ t # dest[e].task
                                /\ t = canc'[e].task => canc'[e].at = "count" /\ canc'[e].seen = "CREATED"
    PROVE  TaskSound(t)'
  <1>1. /\ t \notin ToSet(urgent_q)' /\ t \notin ToSet(idle_q)' /\ t \notin ToSet(chrono_q)'
        /\ \A w \in AllWorkers : t \notin ToSet(wq[w])'
        /\ \A e \in Executors : t \notin ToSet(todo[e])' /\ t \notin Sent(out[e])'
    BY NoHand DEF SameQueues
  <1>2. ~Handed(t)'
    <2>1. SameHands(t)
      BY DEF SameHands
    <2> QED BY <2>1, HandsFrame
  <1>3. Apart(t)'
    BY <1>2 DEF Apart, Handed
  <1>4. SoleExec(t)' /\ SoleDest(t)'
    BY DEF SoleExec, SoleDest
  <1>5. Stated(t)'
    BY <1>1 DEF Stated
  <1>6. Agreed(t)'
    BY <1>1 DEF Agreed
  <1>7. FreshSound(t)' /\ CancelSound(t)'
    BY <1>1, <1>2 DEF FreshSound, CancelSound
  <1>8. CountSound(t)'
    <2>1. Counted(t)' = {}
      BY DEF Counted
    <2> QED BY <2>1, FS_EmptySet DEF CountSound
  <1>9. FreedSound(t)' /\ CanceledSound(t)' /\ Kept(t)' /\ OneShot(t)'
    BY DEF FreedSound, CanceledSound, Kept, OneShot
  <1> QED BY <1>3, <1>4, <1>5, <1>6, <1>7, <1>8, <1>9 DEF TaskSound

\* The record of a new task.
LEMMA NewRecord == /\ NewTask \in Records /\ NewTask.m_status = "CREATED" /\ NewTask.m_exec_ref_count = 0
                   /\ NewTask.m_cancel_ref_count = 0 /\ NewTask.m_is_first
                   /\ NewTask.m_is_in_timed_q = FALSE
  BY DEF NewTask, Records, States

LEMMA CreateKeeps ==
    ASSUME IInv, OneUser, Orderly, NEW u \in Users, NEW t \in Tasks, Create(u, t)
    PROVE  IInv'
  <1>0. /\ LoopTypes /\ QueueTypes /\ LayerTypes /\ TaskTypes /\ QueuesSound /\ Emptied
        /\ (\A e \in Executors : ThreadSound(e)) /\ TaskSound(t)
        /\ Nobody \notin Executors /\ AllWorkers \subseteq Executors /\ glock \in Executors \cup {Nobody}
    BY WhoIsWho DEF IInv, TypeOK, LoopTypes
  <1>1. /\ Still /\ QueuesStay /\ now' = now /\ start_time' = start_time /\ glock' = glock
        /\ UNCHANGED <<tlock, freed, canceled, exec, canc, dest>>
        /\ table' = [table EXCEPT ![t] = "CREATED"]
        /\ task' = [task EXCEPT ![t] = NewTask]
        /\ table[t] = "UNKNOWN" /\ St(t) = "UNKNOWN"
    BY DEF Create, Still, QueuesStay, queues, loop, taken, workers, user, layers, history, St
  <1>2. /\ task' \in [Tasks -> Records] /\ task'[t] = NewTask
        /\ \A o \in Tasks \ {t} : task'[o] = task[o]
    BY <1>0, <1>1, NewRecord, TaskChanges
  <1>3. /\ table' \in [Tasks -> States] /\ table'[t] = "CREATED"
        /\ \A o \in Tasks \ {t} : table'[o] = table[o]
    BY <1>0, <1>1, TableChanges DEF States
  <1>4. /\ ~Handed(t) /\ t \notin freed /\ t \notin canceled
        /\ \A e \in Executors : /\ t # exec[e].task /\ t # dest[e].task
                                /\ t = canc[e].task => canc[e].at = "count" /\ canc[e].seen = "CREATED"
    <2>1. FreshSound(t) /\ Agreed(t) /\ CanceledSound(t)
      BY <1>0 DEF TaskSound
    <2>2. /\ ~Handed(t)
          /\ \A e \in Executors : /\ t # exec[e].task /\ t # dest[e].task
                                  /\ t = canc[e].task => canc[e].at = "count" /\ canc[e].seen = "CREATED"
      BY <1>1, <2>1 DEF FreshSound
    <2>3. t \notin freed
      BY <1>1, <2>1 DEF Agreed
    <2>4. t \notin canceled
      BY <1>1, <2>1, <2>2, <2>3 DEF CanceledSound, Both
    <2> QED BY <2>2, <2>3, <2>4
  <1>5. Executors' = Executors /\ AllWorkers' = AllWorkers /\ W' = W
    BY <1>1 DEF Executors, AllWorkers, W, Still
  <1>6. TaskTypes'
    BY <1>0, <1>1, <1>2, <1>3, <1>5 DEF TaskTypes
  <1>7. QueueTypes' /\ LayerTypes' /\ Emptied'
    <2>1. Emptied'
      BY <1>0, <1>1, EmptiedFrame DEF Still, QueuesStay
    <2>2. QueueTypes'
      BY <1>0, <1>1, <1>5 DEF QueueTypes, QueuesStay
    <2>3. LayerTypes'
      BY <1>0, <1>1, <1>5 DEF LayerTypes
    <2> QED BY <2>1, <2>2, <2>3
  <1>8. QueuesSound'
    <2>1. t \notin ToSet(chrono_q)
      BY <1>0, <1>4, NoHand
    <2>2. \A i \in DOMAIN chrono_q : task'[chrono_q[i]] = task[chrono_q[i]]
      <3> TAKE i \in DOMAIN chrono_q
      <3>1. chrono_q[i] \in Tasks
        BY <1>0 DEF QueueTypes
      <3>2. chrono_q[i] # t
        BY <2>1 DEF ToSet
      <3> QED BY <1>2, <3>1, <3>2
    <2> QED BY <1>0, <1>1, <1>5, <2>2 DEF QueuesSound, QueuesStay
  <1>9. ASSUME NEW e \in Executors PROVE ThreadSound(e)'
    BY <1>0, <1>1, ThreadFrame DEF SameThread, Still, QueuesStay
  <1>10. TaskSound(t)'
    <2>1. SameQueues(t)
      BY <1>1 DEF SameQueues, QueuesStay
    <2>2. /\ St(t)' = "CREATED" /\ table'[t] = "CREATED" /\ Ref(t)' = 0 /\ task'[t].m_is_first
          /\ ~InQ(t)' /\ task'[t].m_cancel_ref_count = 0
      BY <1>2, <1>3, NewRecord DEF St, Ref, InQ
    <2>3. /\ t \notin freed' /\ t \notin canceled' /\ UNCHANGED <<exec, dest>>
          /\ \A e \in Executors : /\ t # exec[e].task /\ t # dest[e].task
                                  /\ t = canc'[e].task => canc'[e].at = "count" /\ canc'[e].seen = "CREATED"
      BY <1>1, <1>4
    <2> QED BY <1>0, <1>4, <2>1, <2>2, <2>3, FreshTask
  <1>11. \A o \in Tasks \ {t} : Same(o)
    <2> TAKE o \in Tasks \ {t}
    <2>1. SameQueues(o) /\ SameLayers(o)
      BY <1>1 DEF SameQueues, SameLayers, QueuesStay
    <2>2. SameRecord(o)
      BY <1>1, <1>2, <1>3, SameFields
    <2> QED BY <2>1, <2>2 DEF Same
  <1>12. \A o \in Tasks : Same(o) \/ TaskSound(o)'
    BY <1>10, <1>11
  <1>13. \A o \in Tasks : St(o) = "CREATED" => St(o)' = "CREATED"
    BY <1>2, NewRecord DEF St
  <1> QED BY <1>0, <1>1, <1>6, <1>7, <1>8, <1>9, <1>12, <1>13, StillStep

\* What is known of a task that was not submitted.
LEMMA FreshFacts ==
    ASSUME IInv, Orderly, NEW t \in Tasks, St(t) \in {"UNKNOWN", "CREATED"}
    PROVE  /\ TaskSound(t) /\ table[t] = St(t) /\ Ref(t) = 0 /\ task[t].m_is_first
           /\ ~InQ(t) /\ task[t].m_cancel_ref_count = 0 /\ t \notin freed /\ t \notin canceled
           /\ t \notin ToSet(urgent_q) /\ t \notin ToSet(idle_q) /\ t \notin ToSet(chrono_q)
           /\ (\A w \in AllWorkers : t \notin ToSet(wq[w]))
           /\ \A e \in Executors :
                 /\ t \notin ToSet(todo[e]) /\ t \notin Sent(out[e])
                 /\ t # exec[e].task /\ t # dest[e].task
                 /\ t = canc[e].task => canc[e].at = "count" /\ canc[e].seen = "CREATED"
  <1>0. TaskSound(t) /\ Nobody \notin Executors /\ AllWorkers \subseteq Executors
    BY WhoIsWho DEF IInv, TypeOK
  <1>1. FreshSound(t) /\ Agreed(t) /\ CanceledSound(t)
    BY <1>0 DEF TaskSound
  <1>2. /\ ~Handed(t) /\ table[t] = St(t) /\ Ref(t) = 0 /\ task[t].m_is_first
        /\ \A e \in Executors : /\ t # exec[e].task /\ t # dest[e].task
                                /\ t = canc[e].task => canc[e].at = "count" /\ canc[e].seen = "CREATED"
    BY <1>1 DEF FreshSound
  <1>3. /\ t \notin ToSet(urgent_q) /\ t \notin ToSet(idle_q) /\ t \notin ToSet(chrono_q)
        /\ (\A w \in AllWorkers : t \notin ToSet(wq[w]))
        /\ \A e \in Executors : t \notin ToSet(todo[e]) /\ t \notin Sent(out[e])
    BY <1>0, <1>2, NoHand
  <1>4. ~InQ(t) /\ t \notin freed /\ task[t].m_cancel_ref_count = 0
    BY <1>1, <1>3 DEF Agreed
  <1>5. t \notin canceled
    BY <1>1, <1>2, <1>4 DEF CanceledSound, Both
  <1> QED BY <1>0, <1>2, <1>3, <1>4, <1>5

\* The user's task gets into the queue k, and its locks are free.
Enters(u, t, k) ==
    /\ upc[u] \in {"submit", "put"} /\ t = uarg[u].task
    /\ UNCHANGED <<mode, spc, s_do_loop, s_is_stopped, stage, wpc, gave_up, now, start_time>>
    /\ UNCHANGED <<wq, last_q, todo, out, exec, canc, dest, freed, canceled>>
    /\ upc' = [upc EXCEPT ![u] = "idle"] /\ uarg' = [uarg EXCEPT ![u] = NoArg]
    /\ glock' \in Executors \cup {Nobody} /\ tlock' \in [Tasks -> Executors \cup {Nobody}]
    /\ task' \in [Tasks -> Records] /\ (\A s \in Tasks \ {t} : task'[s] = task[s])
    /\ table' \in [Tasks -> States] /\ (\A s \in Tasks \ {t} : table'[s] = table[s])
    /\ St(t)' = "ENQUEUED" /\ table'[t] = "ENQUEUED" /\ Ref(t)' = Ref(t) /\ (InQ(t)' <=> k = "timed")
    /\ task'[t].m_cancel_ref_count = task[t].m_cancel_ref_count
    /\ task'[t].m_is_first = task[t].m_is_first
    /\ urgent_q' \in Seq(Tasks) /\ idle_q' \in Seq(Tasks) /\ chrono_q' \in Seq(Tasks)
    /\ NoRepeat(urgent_q') /\ NoRepeat(idle_q') /\ NoRepeat(chrono_q')
    /\ ToSet(urgent_q') = ToSet(urgent_q) \cup (IF k = "urgent" THEN {t} ELSE {})
    /\ ToSet(idle_q') = ToSet(idle_q) \cup (IF k = "idle" THEN {t} ELSE {})
    /\ ToSet(chrono_q') = ToSet(chrono_q) \cup (IF k = "timed" THEN {t} ELSE {})
    /\ \A i, j \in DOMAIN chrono_q' :
          i < j => task'[chrono_q'[i]].m_next_abstime <= task'[chrono_q'[j]].m_next_abstime

\* A task that enters its queue is sound, and so is the rest.
LEMMA EntersKeeps ==
    ASSUME IInv, OneUser, Orderly, NEW u \in Users, NEW t \in Tasks, NEW k \in {"urgent", "idle", "timed"},
           Enters(u, t, k)
    PROVE  IInv'
  <1>0. /\ LoopTypes /\ UserTypes /\ QueueTypes /\ LayerTypes /\ TaskTypes /\ QueuesSound /\ Emptied
        /\ LoopSound /\ StageSound /\ Submits
        /\ (\A e \in Executors : ThreadSound(e)) /\ u \in Executors
        /\ Nobody \notin Executors /\ Nobody \in Places /\ AllWorkers \subseteq Executors
        /\ Sched \notin AllWorkers /\ (\A v \in Users : v = u)
    BY WhoIsWho DEF IInv, TypeOK, Places, OneUser
  <1>1. /\ upc[u] \in {"submit", "put"} /\ t = uarg[u].task
        /\ UNCHANGED <<mode, spc, s_do_loop, s_is_stopped, stage, wpc, gave_up, now, start_time>>
        /\ UNCHANGED <<wq, last_q, todo, out, exec, canc, dest, freed, canceled>>
        /\ upc' = [upc EXCEPT ![u] = "idle"] /\ uarg' = [uarg EXCEPT ![u] = NoArg]
        /\ glock' \in Executors \cup {Nobody} /\ tlock' \in [Tasks -> Executors \cup {Nobody}]
    BY DEF Enters
  <1>2. /\ task' \in [Tasks -> Records] /\ (\A s \in Tasks \ {t} : task'[s] = task[s])
        /\ table' \in [Tasks -> States] /\ (\A s \in Tasks \ {t} : table'[s] = table[s])
        /\ St(t)' = "ENQUEUED" /\ table'[t] = "ENQUEUED" /\ Ref(t)' = Ref(t) /\ (InQ(t)' <=> k = "timed")
        /\ task'[t].m_cancel_ref_count = task[t].m_cancel_ref_count
        /\ task'[t].m_is_first = task[t].m_is_first
    BY DEF Enters
  <1>3. /\ urgent_q' \in Seq(Tasks) /\ idle_q' \in Seq(Tasks) /\ chrono_q' \in Seq(Tasks)
        /\ NoRepeat(urgent_q') /\ NoRepeat(idle_q') /\ NoRepeat(chrono_q')
        /\ ToSet(urgent_q') = ToSet(urgent_q) \cup (IF k = "urgent" THEN {t} ELSE {})
        /\ ToSet(idle_q') = ToSet(idle_q) \cup (IF k = "idle" THEN {t} ELSE {})
        /\ ToSet(chrono_q') = ToSet(chrono_q) \cup (IF k = "timed" THEN {t} ELSE {})
        /\ \A i, j \in DOMAIN chrono_q' :
              i < j => task'[chrono_q'[i]].m_next_abstime <= task'[chrono_q'[j]].m_next_abstime
    BY DEF Enters
  <1>4. /\ todo[u] = <<>> /\ out[u] = <<>> /\ Free(u) /\ ~gave_up
    BY <1>0, <1>1, BusyUser DEF Clearing
  <1>5. St(t) = "CREATED"
    BY <1>0, <1>1 DEF Submits, St
  <1>6. /\ TaskSound(t) /\ Ref(t) = 0 /\ task[t].m_is_first
        /\ task[t].m_cancel_ref_count = 0 /\ t \notin freed /\ t \notin canceled
        /\ t \notin ToSet(urgent_q) /\ t \notin ToSet(idle_q) /\ t \notin ToSet(chrono_q)
        /\ (\A w \in AllWorkers : t \notin ToSet(wq[w]))
        /\ \A e \in Executors :
              /\ t \notin ToSet(todo[e]) /\ t \notin Sent(out[e])
              /\ t # exec[e].task /\ t # dest[e].task
              /\ t = canc[e].task => canc[e].at = "count" /\ canc[e].seen = "CREATED"
    BY <1>5, FreshFacts
  <1>7. Executors' = Executors /\ AllWorkers' = AllWorkers /\ W' = W /\ (Alone' <=> Alone)
    BY <1>1 DEF Executors, AllWorkers, W, Alone
  <1>8. upc'[u] = "idle"
    BY <1>0, <1>1 DEF UserTypes
  <1>9. TypeOK'
    <2>1. TaskTypes'
      BY <1>0, <1>1, <1>2, <1>7 DEF TaskTypes
    <2>2. QueueTypes'
      BY <1>0, <1>1, <1>3, <1>7 DEF QueueTypes
    <2>3. LayerTypes'
      BY <1>0, <1>1, <1>7 DEF LayerTypes
    <2>4. LoopTypes'
      BY <1>0, <1>1, <1>7 DEF LoopTypes
    <2>5. UserTypes'
      <3>1. NoArg \in [task : Tasks \cup {Nobody}, delay : Int, interval : Nat, fin : BOOLEAN]
        BY DEF NoArg
      <3> QED BY <1>0, <1>1, <3>1 DEF UserTypes
    <2> QED BY <2>1, <2>2, <2>3, <2>4, <2>5 DEF TypeOK
  <1>10. LoopSound'
    BY <1>0, <1>1, <1>8 DEF LoopSound, Clearing
  <1>11. StageSound'
    BY <1>0, <1>1, <1>4, <1>7, <1>8 DEF StageSound, Clearing
  <1>12. Emptied'
    <2>1. \A v \in Users : ~Past(v, Clearing)'
      BY <1>0, <1>8 DEF Past, Clearing
    <2>2. \A w \in AllWorkers \ W : wq[w] = <<>> /\ wq'[w] = <<>>
      BY <1>0, <1>1 DEF Emptied
    <2> QED BY <1>1, <2>1, <2>2, FilledFrame
  <1>13. Submits'
    BY <1>0, <1>8 DEF Submits
  <1>14. QueuesSound'
    BY <1>0, <1>1, <1>3, <1>7 DEF QueuesSound
  <1>15. ASSUME NEW e \in Executors PROVE ThreadSound(e)'
    <2>1. SameThread(e)
      BY <1>1 DEF SameThread
    <2>2. CASE e = u
      BY <1>4, <2>1, <2>2, ThreadAtRest DEF Free, Busy
    <2>3. CASE e # u
      BY <1>0, <1>1, <2>1, <2>3, ThreadFrame
    <2> QED BY <2>2, <2>3
  <1>16. TaskSound(t)'
    <2>1. InHand(t, k, Nobody)'
      BY <1>3 DEF InHand
    <2>2. OnlyIn(t, k, Nobody)'
      BY <1>1, <1>3, <1>6, <1>7 DEF OnlyIn
    <2>3. Both(t, Says(k, Nobody))'
      BY <1>2 DEF Both, Says
    <2>4. CancelSound(t)'
      BY <1>1, <1>6 DEF CancelSound
    <2>5. CountSound(t)'
      <3>1. Counted(t)' = Counted(t)
        BY <1>1 DEF Counted
      <3> QED BY <1>2, <1>6, <3>1 DEF TaskSound, CountSound
    <2>6. OneShot(t)'
      BY <1>2, <1>6 DEF OneShot
    <2>7. /\ \A d \in Executors : t # dest'[d].task /\ t # exec'[d].task
          /\ t \notin freed' /\ t \notin canceled' /\ task'[t].m_cancel_ref_count = 0
      BY <1>1, <1>2, <1>6
    <2>8. Moved(t, k, Nobody)
      BY <1>2, <2>1, <2>2, <2>3, <2>4, <2>5, <2>6, <2>7 DEF Moved
    <2>9. k \in Kinds \ {"dest"} /\ Nobody \in Places
      BY DEF Kinds, Places
    <2> QED BY <1>0, <2>8, <2>9, MovedSound
  <1>17. \A o \in Tasks \ {t} : Same(o)
    <2> TAKE o \in Tasks \ {t}
    <2>1. SameQueues(o)
      BY <1>1, <1>3 DEF SameQueues
    <2>2. SameLayers(o)
      BY <1>1 DEF SameLayers
    <2>3. SameRecord(o)
      BY <1>1, <1>2, SameFields
    <2> QED BY <2>1, <2>2, <2>3 DEF Same
  <1>18. \A o \in Tasks : Same(o) \/ TaskSound(o)'
    BY <1>16, <1>17
  <1> QED BY <1>1, <1>9, <1>10, <1>11, <1>12, <1>13, <1>14, <1>15, <1>18, Assembled
\* A timed submission.
LEMMA SubmitTimedKeeps ==
    ASSUME IInv, OneUser, Orderly, NEW u \in Users, SubmitTimed(u)
    PROVE  IInv'
  <1> DEFINE r == Submitted(uarg[u])
  <1>0. /\ TaskTypes /\ QueueTypes /\ LoopTypes /\ UserTypes /\ QueuesSound /\ Submits
        /\ Nobody \notin Executors /\ u \in Executors
    BY WhoIsWho DEF IInv, TypeOK
  <1>t. PICK t \in Tasks : t = uarg[u].task
    BY <1>0 DEF SubmitTimed, Submits
  <1>1. St(t) = "CREATED" /\ upc[u] = "submit" /\ glock = Nobody
    BY <1>0, <1>t DEF SubmitTimed, Submits, St
  <1>2. /\ t \notin ToSet(chrono_q) /\ t \notin ToSet(urgent_q) /\ t \notin ToSet(idle_q) /\ ~InQ(t)
    BY <1>1, FreshFacts
  <1>3. /\ DoSched(t, r)
        /\ upc' = [upc EXCEPT ![u] = "idle"] /\ uarg' = [uarg EXCEPT ![u] = NoArg]
        /\ UNCHANGED <<mode, spc, s_do_loop, s_is_stopped, stage, wpc, gave_up, now, start_time>>
        /\ UNCHANGED <<wq, last_q, todo, out, exec, canc, dest, freed, canceled, tlock, glock>>
        /\ UNCHANGED <<urgent_q, idle_q>>
    BY <1>t, <1>2 DEF SubmitTimed, InQ, UserGoes, workers, layers, history, taken
  <1>4. /\ r \in Records /\ r.m_exec_ref_count = Ref(t)
        /\ r.m_cancel_ref_count = task[t].m_cancel_ref_count /\ r.m_is_first = task[t].m_is_first
    BY <1>0, <1>t, SubmittedRecord DEF Ref
  <1>5. PICK q \in Records : q = r
    BY <1>4
  <1>6. DoSched(t, q) /\ Ordered(chrono_q) /\ NoRepeat(chrono_q)
    BY <1>0, <1>3, <1>5 DEF QueuesSound, Ordered
  <1>7. /\ chrono_q' \in Seq(Tasks) /\ NoRepeat(chrono_q')
        /\ ToSet(chrono_q') = ToSet(chrono_q) \cup {t}
        /\ \A i, j \in DOMAIN chrono_q' :
              i < j => task'[chrono_q'[i]].m_next_abstime <= task'[chrono_q'[j]].m_next_abstime
        /\ table' = [table EXCEPT ![t] = "ENQUEUED"]
        /\ task' \in [Tasks -> Records] /\ (\A s \in Tasks \ {t} : task'[s] = task[s])
        /\ task'[t].m_status = "ENQUEUED" /\ task'[t].m_is_in_timed_q
        /\ task'[t].m_exec_ref_count = q.m_exec_ref_count
        /\ task'[t].m_cancel_ref_count = q.m_cancel_ref_count
        /\ task'[t].m_is_first = q.m_is_first
    BY <1>0, <1>1, <1>2, <1>6, DoSchedDoes
  <1>8. table' \in [Tasks -> States] /\ table'[t] = "ENQUEUED" /\ \A s \in Tasks \ {t} : table'[s] = table[s]
    BY <1>0, <1>1, <1>7, TableChanges DEF States
  <1>9. /\ urgent_q' \in Seq(Tasks) /\ idle_q' \in Seq(Tasks) /\ NoRepeat(urgent_q') /\ NoRepeat(idle_q')
        /\ tlock' \in [Tasks -> Executors \cup {Nobody}] /\ glock' \in Executors \cup {Nobody}
    BY <1>0, <1>1, <1>3 DEF QueueTypes, QueuesSound, TaskTypes
  <1>10. St(t)' = "ENQUEUED" /\ Ref(t)' = Ref(t) /\ InQ(t)'
         /\ task'[t].m_cancel_ref_count = task[t].m_cancel_ref_count
         /\ task'[t].m_is_first = task[t].m_is_first
    BY <1>4, <1>5, <1>7 DEF St, Ref, InQ
  <1>11. Enters(u, t, "timed")
    <2> HIDE DEF r
    <2> QED BY <1>t, <1>1, <1>3, <1>7, <1>8, <1>9, <1>10 DEF Enters
  <1> QED BY <1>1, <1>11, EntersKeeps

\* An urgent or an idle submission gets its room.
LEMMA SubmitPutsKeeps ==
    ASSUME IInv, OneUser, Orderly, NEW u \in Users, SubmitPuts(u)
    PROVE  IInv'
  <1>0. /\ TaskTypes /\ QueueTypes /\ LoopTypes /\ UserTypes /\ QueuesSound /\ Submits
        /\ Nobody \notin Executors /\ u \in Executors
    BY WhoIsWho DEF IInv, TypeOK
  <1>t. PICK t \in Tasks : t = uarg[u].task
    BY <1>0 DEF SubmitPuts, Submits
  <1>1. St(t) = "CREATED" /\ upc[u] = "put"
    BY <1>0, <1>t DEF SubmitPuts, Submits, St
  <1>2. t \notin ToSet(chrono_q) /\ t \notin ToSet(urgent_q) /\ t \notin ToSet(idle_q) /\ ~InQ(t)
    BY <1>1, FreshFacts
  <1>3. /\ SetBoth(t, "ENQUEUED")
        /\ upc' = [upc EXCEPT ![u] = "idle"] /\ uarg' = [uarg EXCEPT ![u] = NoArg]
        /\ tlock' = [tlock EXCEPT ![t] = Nobody] /\ glock' = Nobody
        /\ UNCHANGED <<mode, spc, s_do_loop, s_is_stopped, stage, wpc, gave_up, now, start_time>>
        /\ UNCHANGED <<wq, last_q, todo, out, exec, canc, dest, freed, canceled, chrono_q>>
    BY <1>t, <1>2 DEF SubmitPuts, InQ, UserGoes, workers, layers, history, taken
  <1>4. table' = [table EXCEPT ![t] = "ENQUEUED"] /\ task' = [task EXCEPT ![t].m_status = "ENQUEUED"]
    BY <1>3 DEF SetBoth
  <1>5. table' \in [Tasks -> States] /\ table'[t] = "ENQUEUED" /\ \A s \in Tasks \ {t} : table'[s] = table[s]
    BY <1>0, <1>1, <1>4, TableChanges DEF States
  <1>6. /\ task' \in [Tasks -> Records] /\ (\A s \in Tasks \ {t} : task'[s] = task[s])
        /\ St(t)' = "ENQUEUED" /\ Ref(t)' = Ref(t) /\ ~InQ(t)'
        /\ task'[t].m_cancel_ref_count = task[t].m_cancel_ref_count
        /\ task'[t].m_is_first = task[t].m_is_first
        /\ task'[t].m_next_abstime = task[t].m_next_abstime
    <2>1. PICK q \in Records : q = task[t]
      BY <1>0, <1>1 DEF TaskTypes
    <2>2. PICK a \in Records : /\ a = [q EXCEPT !.m_status = "ENQUEUED"]
                               /\ a.m_status = "ENQUEUED" /\ a.m_exec_ref_count = q.m_exec_ref_count
                               /\ a.m_cancel_ref_count = q.m_cancel_ref_count
                               /\ a.m_is_in_timed_q = q.m_is_in_timed_q
                               /\ a.m_is_first = q.m_is_first /\ a.m_next_abstime = q.m_next_abstime
      BY StatusOnly DEF States
    <2>3. task' = [task EXCEPT ![t] = a] /\ task \in [Tasks -> Records]
      BY <1>0, <1>4, <2>1, <2>2 DEF TaskTypes
    <2>4. task' \in [Tasks -> Records] /\ task'[t] = a /\ \A s \in Tasks \ {t} : task'[s] = task[s]
      BY <1>1, <2>3
    <2> QED BY <1>2, <2>1, <2>2, <2>4 DEF St, Ref, InQ
  <1>7. tlock' \in [Tasks -> Executors \cup {Nobody}] /\ glock' \in Executors \cup {Nobody}
    BY <1>0, <1>3 DEF TaskTypes
  <1>8. \A s \in ToSet(chrono_q) : s \in Tasks \ {t}
    BY <1>0, <1>2 DEF QueueTypes, ToSet
  <1>9. /\ chrono_q' \in Seq(Tasks) /\ NoRepeat(chrono_q') /\ ToSet(chrono_q') = ToSet(chrono_q)
        /\ \A i, j \in DOMAIN chrono_q' :
              i < j => task'[chrono_q'[i]].m_next_abstime <= task'[chrono_q'[j]].m_next_abstime
    <2>1. \A i \in DOMAIN chrono_q : chrono_q[i] \in Tasks \ {t}
      BY <1>8 DEF ToSet
    <2>2. \A i \in DOMAIN chrono_q : task'[chrono_q[i]] = task[chrono_q[i]]
      BY <1>6, <2>1
    <2> QED BY <1>0, <1>3, <2>2 DEF QueueTypes, QueuesSound
  <1>11. \E k \in {"urgent", "idle"} : Enters(u, t, k)
    <2>0. \E k \in {"urgent", "idle"} :
          /\ urgent_q' = IF k = "urgent" THEN Append(urgent_q, t) ELSE urgent_q
          /\ idle_q' = IF k = "idle" THEN Append(idle_q, t) ELSE idle_q
      BY <1>t DEF SubmitPuts
    <2>1. PICK k \in {"urgent", "idle"} :
          /\ urgent_q' = IF k = "urgent" THEN Append(urgent_q, t) ELSE urgent_q
          /\ idle_q' = IF k = "idle" THEN Append(idle_q, t) ELSE idle_q
      BY <2>0
    <2>2. /\ urgent_q \in Seq(Tasks) /\ idle_q \in Seq(Tasks) /\ NoRepeat(urgent_q) /\ NoRepeat(idle_q)
      BY <1>0 DEF QueueTypes, QueuesSound
    <2>3. /\ Append(urgent_q, t) \in Seq(Tasks) /\ ToSet(Append(urgent_q, t)) = ToSet(urgent_q) \cup {t}
          /\ NoRepeat(Append(urgent_q, t))
      BY <1>1, <1>2, <2>2, AppendSeq
    <2>4. /\ Append(idle_q, t) \in Seq(Tasks) /\ ToSet(Append(idle_q, t)) = ToSet(idle_q) \cup {t}
          /\ NoRepeat(Append(idle_q, t))
      BY <1>1, <1>2, <2>2, AppendSeq
    <2>5. /\ urgent_q' \in Seq(Tasks) /\ idle_q' \in Seq(Tasks)
          /\ NoRepeat(urgent_q') /\ NoRepeat(idle_q')
          /\ ToSet(urgent_q') = ToSet(urgent_q) \cup (IF k = "urgent" THEN {t} ELSE {})
          /\ ToSet(idle_q') = ToSet(idle_q) \cup (IF k = "idle" THEN {t} ELSE {})
      BY <2>1, <2>2, <2>3, <2>4
    <2>6. /\ ToSet(chrono_q') = ToSet(chrono_q) \cup (IF k = "timed" THEN {t} ELSE {})
          /\ InQ(t)' <=> k = "timed"
      BY <1>6, <1>9
    <2>7. Enters(u, t, k)
      BY <1>1, <1>3, <1>5, <1>6, <1>7, <1>9, <1>t, <2>5, <2>6 DEF Enters
    <2> QED BY <2>7
  <1> QED BY <1>1, <1>11, EntersKeeps

\* The user u takes the task t out of its queue, to destroy it.
Clears(u, t, k, w) ==
    /\ upc[u] \in Clearing /\ Free(u) /\ InHand(t, k, w)
    /\ Still /\ now' = now /\ start_time' = start_time /\ glock' = u
    /\ UNCHANGED <<last_q, todo, out, exec, canc, freed, canceled, tlock>>
    /\ \E b \in BOOLEAN : dest' = [dest EXCEPT ![u] = [at |-> "unsched", task |-> t, unlock |-> b]]
    /\ urgent_q' \in Seq(Tasks) /\ idle_q' \in Seq(Tasks) /\ chrono_q' \in Seq(Tasks)
    /\ wq' \in [AllWorkers -> Seq(Tasks)]
    /\ NoRepeat(urgent_q') /\ NoRepeat(idle_q') /\ NoRepeat(chrono_q')
    /\ ToSet(urgent_q') = ToSet(urgent_q) \ {t} /\ ToSet(idle_q') = ToSet(idle_q) \ {t}
    /\ ToSet(chrono_q') = ToSet(chrono_q) \ {t}
    /\ urgent_q = <<>> => urgent_q' = <<>>
    /\ idle_q = <<>> => idle_q' = <<>>
    /\ chrono_q = <<>> => chrono_q' = <<>>
    /\ \A x \in AllWorkers : /\ ToSet(wq'[x]) = ToSet(wq[x]) \ {t} /\ NoRepeat(wq'[x])
                             /\ wq[x] = <<>> => wq'[x] = <<>>
    /\ \A i, j \in DOMAIN chrono_q' :
          i < j => \E m, n \in DOMAIN chrono_q : m < n /\ chrono_q[m] = chrono_q'[i] /\ chrono_q[n] = chrono_q'[j]
    /\ task' \in [Tasks -> Records] /\ (\A s \in Tasks \ {t} : task'[s] = task[s])
    /\ table' \in [Tasks -> States] /\ (\A s \in Tasks \ {t} : table'[s] = table[s])
    /\ table'[t] = St(t)' /\ ~InQ(t)' /\ Ref(t)' = Ref(t)
    /\ St(t)' = St(t) \/ (St(t) = "ENQUEUED" /\ St(t)' = "DEQUEUED")
    /\ task'[t].m_cancel_ref_count = task[t].m_cancel_ref_count
    /\ task'[t].m_do_repeat = task[t].m_do_repeat /\ task'[t].m_is_first = task[t].m_is_first
    /\ task'[t].m_next_abstime = task[t].m_next_abstime

\* A task that is cleared is sound, and so is the rest.
LEMMA ClearsKeeps ==
    ASSUME IInv, OneUser, Orderly, NEW u \in Users, NEW t \in Tasks,
           NEW k \in {"urgent", "idle", "timed", "wq"}, NEW w \in Places, Clears(u, t, k, w)
    PROVE  IInv'
  <1>0. /\ LoopTypes /\ UserTypes /\ QueueTypes /\ LayerTypes /\ TaskTypes /\ QueuesSound /\ Emptied
        /\ LoopSound /\ StageSound /\ Submits /\ TypeOK
        /\ (\A e \in Executors : ThreadSound(e)) /\ Ordered(chrono_q)
        /\ Nobody \notin Executors /\ Nobody \notin Tasks /\ AllWorkers \subseteq Executors
        /\ u \in Executors /\ u \notin AllWorkers /\ u # Sched
    BY WhoIsWho DEF IInv, TypeOK, QueuesSound, Ordered
  <1>1. /\ upc[u] \in Clearing /\ exec[u].at = "none" /\ canc[u].at = "none" /\ dest[u].at = "none"
        /\ InHand(t, k, w)
        /\ Still /\ now' = now /\ start_time' = start_time /\ glock' = u
        /\ UNCHANGED <<last_q, todo, out, exec, canc, freed, canceled, tlock>>
    BY DEF Clears, Free, Busy
  <1>2. /\ urgent_q' \in Seq(Tasks) /\ idle_q' \in Seq(Tasks) /\ chrono_q' \in Seq(Tasks)
        /\ wq' \in [AllWorkers -> Seq(Tasks)]
        /\ NoRepeat(urgent_q') /\ NoRepeat(idle_q') /\ NoRepeat(chrono_q')
        /\ ToSet(urgent_q') = ToSet(urgent_q) \ {t} /\ ToSet(idle_q') = ToSet(idle_q) \ {t}
        /\ ToSet(chrono_q') = ToSet(chrono_q) \ {t}
        /\ \A x \in AllWorkers : /\ ToSet(wq'[x]) = ToSet(wq[x]) \ {t} /\ NoRepeat(wq'[x])
                                 /\ wq[x] = <<>> => wq'[x] = <<>>
    BY DEF Clears
  <1>3. /\ task' \in [Tasks -> Records] /\ (\A s \in Tasks \ {t} : task'[s] = task[s])
        /\ table' \in [Tasks -> States] /\ (\A s \in Tasks \ {t} : table'[s] = table[s])
        /\ table'[t] = St(t)' /\ ~InQ(t)' /\ Ref(t)' = Ref(t)
        /\ St(t)' = St(t) \/ (St(t) = "ENQUEUED" /\ St(t)' = "DEQUEUED")
        /\ task'[t].m_cancel_ref_count = task[t].m_cancel_ref_count
        /\ task'[t].m_do_repeat = task[t].m_do_repeat /\ task'[t].m_is_first = task[t].m_is_first
        /\ task'[t].m_next_abstime = task[t].m_next_abstime
    BY DEF Clears
  <1>4. /\ spc \in Resting
        /\ \A e \in Executors :
              /\ exec[e].at = "none" /\ exec[e].task = Nobody
              /\ canc[e].at = "none" /\ canc[e].task = Nobody
              /\ todo[e] = <<>> /\ out[e] = <<>>
              /\ e # u => dest[e].at = "none" /\ dest[e].task = Nobody
    BY <1>1, ClearingAlone DEF Past
  <1>5. /\ TaskSound(t) /\ t \notin freed /\ St(t) \in {"ENQUEUED", "DEQUEUED", "CANCELLED"}
    <2>1. k \in Kinds \ {"exec", "dest"}
      BY DEF Kinds
    <2> QED BY <1>1, <2>1, InHandFacts
  <1>6. PICK x \in DestRecords : /\ dest' = [dest EXCEPT ![u] = x] /\ x.at = "unsched" /\ x.task = t
    <2>1. PICK b \in BOOLEAN : dest' = [dest EXCEPT ![u] = [at |-> "unsched", task |-> t, unlock |-> b]]
      BY DEF Clears
    <2>2. [at |-> "unsched", task |-> t, unlock |-> b] \in DestRecords
      BY DEF DestRecords
    <2> QED BY <2>1, <2>2
  <1>7. /\ LayerTypes' /\ dest'[u] = x /\ dest'[u].at = "unsched" /\ dest'[u].task = t
        /\ \A e \in Executors \ {u} : dest'[e] = dest[e]
    BY <1>0, <1>1, <1>6, DestChanges
  <1>8. TaskTypes' /\ QueueTypes' /\ AllWorkers' = AllWorkers /\ W' = W /\ (Alone' <=> Alone)
    <2>1. AllWorkers' = AllWorkers /\ W' = W /\ (Alone' <=> Alone) /\ Executors' = Executors
      BY <1>1 DEF AllWorkers, W, Alone, Executors, Still
    <2>2. TaskTypes'
      BY <1>0, <1>1, <1>3, <2>1 DEF TaskTypes
    <2>3. QueueTypes'
      BY <1>0, <1>1, <1>2, <2>1 DEF QueueTypes
    <2> QED BY <2>1, <2>2, <2>3
  <1>9. Emptied'
    BY <1>0, <1>1, <1>2, EmptiedFrame DEF Still, Clears
  <1>10. QueuesSound'
    <2>1. \A i \in DOMAIN chrono_q : task'[chrono_q[i]].m_next_abstime = task[chrono_q[i]].m_next_abstime
      <3> TAKE i \in DOMAIN chrono_q
      <3>1. chrono_q[i] \in Tasks
        BY <1>0 DEF QueueTypes
      <3> QED BY <1>3, <3>1
    <2>2. \A i, j \in DOMAIN chrono_q' :
             i < j => \E m, n \in DOMAIN chrono_q : m < n /\ chrono_q[m] = chrono_q'[i] /\ chrono_q[n] = chrono_q'[j]
      BY DEF Clears
    <2>3. \A i, j \in DOMAIN chrono_q' :
             i < j => task'[chrono_q'[i]].m_next_abstime <= task'[chrono_q'[j]].m_next_abstime
      BY <1>0, <2>1, <2>2, StillOrdered
    <2> QED BY <1>0, <1>1, <1>2, <1>8, <2>3 DEF QueuesSound
  <1>11. ASSUME NEW e \in Executors PROVE ThreadSound(e)'
    <2>1. CASE e = u
      <3>1. /\ exec'[e].at = "none" /\ canc'[e].at = "none" /\ todo'[e] = <<>> /\ out'[e] = <<>>
        BY <1>1, <1>4
      <3>2. e \in Users /\ upc'[e] \in Clearing
        BY <1>1, <2>1 DEF Still
      <3> QED BY <3>1, <3>2 DEF ThreadSound
    <2>2. CASE e # u
      <3>1. SameThread(e)
        BY <1>1, <1>7, <2>2 DEF SameThread
      <3> QED BY <1>4, <2>2, <3>1, ThreadAtRest
    <2> QED BY <2>1, <2>2
  <1>12. TaskSound(t)'
    <2>1. OnlyIn(t, "dest", u)'
      <3>1. \A d \in Executors : /\ t \notin ToSet(todo'[d]) /\ t \notin Sent(out'[d])
                                 /\ t # exec'[d].task
        BY <1>0, <1>1, <1>4, NothingIn
      <3>2. \A d \in Executors : t = dest'[d].task => d = u
        BY <1>0, <1>4, <1>7
      <3> QED BY <1>2, <1>8, <3>1, <3>2 DEF OnlyIn
    <2>2. CountSound(t)'
      <3>1. Counted(t)' = Counted(t)
        BY <1>1 DEF Counted
      <3> QED BY <1>3, <1>5, <3>1 DEF TaskSound, CountSound
    <2>3. OneShot(t)'
      <3>1. OneShot(t)
        BY <1>5 DEF TaskSound
      <3> QED BY <1>3, <3>1 DEF OneShot
    <2>4. task'[t].m_cancel_ref_count = 0 /\ (~Alone' => St(t)' # "CANCELLED")
      BY <1>3, <1>5, <1>8 DEF TaskSound, Agreed
    <2>5. \A d \in Executors : t # exec'[d].task
      BY <1>0, <1>1, <1>4
    <2>6. /\ St(t)' \notin {"UNKNOWN", "CREATED", "DELETING"} /\ t \notin ToSet(chrono_q)' /\ t \notin freed'
      BY <1>1, <1>2, <1>3, <1>5
    <2>7. Doomed(t, u)
      BY <1>3, <1>7, <2>1, <2>2, <2>3, <2>4, <2>5, <2>6 DEF Doomed
    <2> QED BY <1>0, <2>7, DoomedSound
  <1>13. \A o \in Tasks \ {t} : Same(o)
    <2>1. dest[u].task = Nobody
      BY <1>0, <1>1 DEF LayerTypes
    <2>2. \A o \in Tasks \ {t} : SameLayers(o) /\ SameRecord(o)
      BY <1>0, <1>1, <1>3, <1>7, <2>1, OthersStay
    <2>3. \A o \in Tasks \ {t} : SameQueues(o)
      BY <1>1, <1>2 DEF SameQueues
    <2> QED BY <2>2, <2>3 DEF Same
  <1>14. \A o \in Tasks : Same(o) \/ TaskSound(o)'
    BY <1>12, <1>13
  <1>15. \A o \in Tasks : St(o) = "CREATED" => St(o)' = "CREATED"
    BY <1>3, <1>5 DEF St
  <1>16. glock' \in Executors \cup {Nobody}
    BY <1>0, <1>1
  <1> QED BY <1>1, <1>7, <1>8, <1>9, <1>10, <1>11, <1>14, <1>15, <1>16, StillStep

LEMMA ClearWorkersKeeps ==
    ASSUME IInv, OneUser, Orderly, NEW u \in Users, ClearWorkers(u)
    PROVE  IInv'
  <1>0. /\ LoopTypes /\ QueueTypes /\ TaskTypes /\ QueuesSound /\ W \subseteq AllWorkers
        /\ u \in Executors /\ AllWorkers \subseteq Executors
    BY WhoIsWho DEF IInv, TypeOK
  <1>1. PICK w \in W : /\ wq[w] # <<>>
                       /\ Destroy(u, Head(wq[w]), TRUE) /\ wq' = [wq EXCEPT ![w] = Tail(wq[w])]
    <2> DEFINE c == CHOOSE y \in W : wq[y] # <<>>
    <2>1. \E y \in W : wq[y] # <<>>
      BY DEF ClearWorkers
    <2>2. c \in W /\ wq[c] # <<>>
      BY <2>1
    <2>3. Destroy(u, Head(wq[c]), TRUE) /\ wq' = [wq EXCEPT ![c] = Tail(wq[c])]
      BY DEF ClearWorkers
    <2> HIDE DEF c
    <2> QED BY <2>2, <2>3
  <1>2. w \in AllWorkers /\ w \in Places
    BY <1>0 DEF Places
  <1>3. PICK q \in Seq(Tasks) : q = wq[w] /\ q # <<>> /\ NoRepeat(q)
    BY <1>0, <1>1, <1>2 DEF QueueTypes, QueuesSound
  <1>4. PICK t \in Tasks : t = Head(q)
    BY <1>3, TailSeq
  <1>5. t \in ToSet(q) /\ Tail(q) \in Seq(Tasks) /\ NoRepeat(Tail(q)) /\ ToSet(Tail(q)) = ToSet(q) \ {t}
    BY <1>3, <1>4, TailSeq
  <1>6. InHand(t, "wq", w)
    BY <1>2, <1>3, <1>5 DEF InHand
  <1>7. /\ OnlyIn(t, "wq", w) /\ TaskSound(t) /\ St(t) = table[t] /\ ~InQ(t)
    <2>1. "wq" \in Kinds \ {"exec", "dest"}
      BY DEF Kinds
    <2> QED BY <1>2, <1>6, <2>1, InHandFacts
  <1>8. /\ wq'[w] = Tail(q) /\ wq' \in [AllWorkers -> Seq(Tasks)]
        /\ \A x \in AllWorkers \ {w} : wq'[x] = wq[x]
    BY <1>0, <1>1, <1>2, <1>3, <1>5 DEF QueueTypes
  <1>9. /\ upc[u] \in Clearing /\ Free(u) /\ Still /\ now' = now /\ start_time' = start_time /\ glock' = u
        /\ UNCHANGED <<last_q, todo, out, exec, canc, freed, canceled, tlock, urgent_q, idle_q, chrono_q>>
        /\ task' = task /\ table' = table
        /\ dest' = [dest EXCEPT ![u] = [at |-> "unsched", task |-> t, unlock |-> TRUE]]
    BY <1>1, <1>3, <1>4 DEF ClearWorkers, Destroy, Clearing, Still, tasks, loop, taken, workers, user, history
  <1>10. /\ urgent_q' \in Seq(Tasks) /\ idle_q' \in Seq(Tasks) /\ chrono_q' \in Seq(Tasks)
         /\ NoRepeat(urgent_q') /\ NoRepeat(idle_q') /\ NoRepeat(chrono_q')
         /\ ToSet(urgent_q') = ToSet(urgent_q) \ {t} /\ ToSet(idle_q') = ToSet(idle_q) \ {t}
         /\ ToSet(chrono_q') = ToSet(chrono_q) \ {t}
    BY <1>0, <1>7, <1>9 DEF QueueTypes, QueuesSound, OnlyIn
  <1>11. \A x \in AllWorkers : /\ ToSet(wq'[x]) = ToSet(wq[x]) \ {t} /\ NoRepeat(wq'[x])
                               /\ wq[x] = <<>> => wq'[x] = <<>>
    <2> TAKE x \in AllWorkers
    <2>1. NoRepeat(wq[x])
      BY <1>0 DEF QueuesSound
    <2>2. CASE x = w
      BY <1>3, <1>5, <1>8, <2>2
    <2>3. CASE x # w
      <3>1. t \notin ToSet(wq[x])
        BY <1>7, <2>3 DEF OnlyIn
      <3> QED BY <1>8, <2>1, <2>3, <3>1
    <2> QED BY <2>2, <2>3
  <1>12. Clears(u, t, "wq", w)
    <2>1. \A i, j \in DOMAIN chrono_q' :
             i < j => \E m, n \in DOMAIN chrono_q : m < n /\ chrono_q[m] = chrono_q'[i] /\ chrono_q[n] = chrono_q'[j]
      BY <1>9
    <2>2. /\ task' \in [Tasks -> Records] /\ (\A s \in Tasks \ {t} : task'[s] = task[s])
          /\ table' \in [Tasks -> States] /\ (\A s \in Tasks \ {t} : table'[s] = table[s])
      BY <1>0, <1>9 DEF TaskTypes
    <2>3. /\ table'[t] = St(t)' /\ St(t)' = St(t) /\ ~InQ(t)' /\ Ref(t)' = Ref(t)
      BY <1>7, <1>9 DEF St, InQ, Ref
    <2> QED BY <1>6, <1>8, <1>9, <1>10, <1>11, <2>1, <2>2, <2>3 DEF Clears
  <1> QED BY <1>2, <1>12, ClearsKeeps

LEMMA ClearQueueKeeps ==
    ASSUME IInv, OneUser, Orderly, NEW u \in Users, ClearQueue(u)
    PROVE  IInv'
  <1>0. /\ LoopTypes /\ QueueTypes /\ TaskTypes /\ QueuesSound /\ Nobody \in Places
        /\ urgent_q \in Seq(Tasks) /\ idle_q \in Seq(Tasks) /\ NoRepeat(urgent_q) /\ NoRepeat(idle_q)
    BY WhoIsWho DEF IInv, TypeOK, Places, QueueTypes, QueuesSound
  <1>1. \E k \in {"urgent", "idle"} : \E q \in {urgent_q, idle_q} :
           /\ upc[u] \in Clearing /\ q # <<>> /\ Destroy(u, Head(q), TRUE)
           /\ k = "urgent" => q = urgent_q
           /\ k = "idle" => q = idle_q
           /\ urgent_q' = IF k = "urgent" THEN Tail(q) ELSE urgent_q
           /\ idle_q' = IF k = "idle" THEN Tail(q) ELSE idle_q
    BY DEF ClearQueue, Clearing
  <1>2. PICK k \in {"urgent", "idle"}, q \in {urgent_q, idle_q} :
           /\ upc[u] \in Clearing /\ q # <<>> /\ Destroy(u, Head(q), TRUE)
           /\ k = "urgent" => q = urgent_q
           /\ k = "idle" => q = idle_q
           /\ urgent_q' = IF k = "urgent" THEN Tail(q) ELSE urgent_q
           /\ idle_q' = IF k = "idle" THEN Tail(q) ELSE idle_q
    BY <1>1
  <1>3. q \in Seq(Tasks) /\ NoRepeat(q)
    BY <1>0, <1>2
  <1>4. PICK t \in Tasks : t = Head(q)
    BY <1>2, <1>3, TailSeq
  <1>5. t \in ToSet(q) /\ Tail(q) \in Seq(Tasks) /\ NoRepeat(Tail(q)) /\ ToSet(Tail(q)) = ToSet(q) \ {t}
    BY <1>2, <1>3, <1>4, TailSeq
  <1>6. InHand(t, k, Nobody)
    BY <1>2, <1>5 DEF InHand
  <1>7. /\ OnlyIn(t, k, Nobody) /\ TaskSound(t) /\ St(t) = table[t] /\ ~InQ(t)
    <2>1. k \in Kinds \ {"exec", "dest"}
      BY DEF Kinds
    <2> QED BY <1>0, <1>2, <1>6, <2>1, InHandFacts
  <1>8. /\ Free(u) /\ Still /\ now' = now /\ start_time' = start_time /\ glock' = u
        /\ UNCHANGED <<last_q, todo, out, exec, canc, freed, canceled, tlock, chrono_q, wq>>
        /\ task' = task /\ table' = table
        /\ dest' = [dest EXCEPT ![u] = [at |-> "unsched", task |-> t, unlock |-> TRUE]]
    BY <1>2, <1>4 DEF ClearQueue, Destroy, Still, tasks, loop, taken, workers, user, history
  <1>9. /\ urgent_q' \in Seq(Tasks) /\ idle_q' \in Seq(Tasks) /\ chrono_q' \in Seq(Tasks)
        /\ NoRepeat(urgent_q') /\ NoRepeat(idle_q') /\ NoRepeat(chrono_q')
    BY <1>0, <1>2, <1>5, <1>8 DEF QueueTypes, QueuesSound
  <1>10. /\ ToSet(urgent_q') = ToSet(urgent_q) \ {t} /\ ToSet(idle_q') = ToSet(idle_q) \ {t}
         /\ ToSet(chrono_q') = ToSet(chrono_q) \ {t}
    <2>1. t \in ToSet(urgent_q) => k = "urgent"
      BY <1>7 DEF OnlyIn
    <2>2. t \in ToSet(idle_q) => k = "idle"
      BY <1>7 DEF OnlyIn
    <2>3. t \notin ToSet(chrono_q)
      BY <1>7 DEF OnlyIn
    <2> QED BY <1>2, <1>5, <1>8, <2>1, <2>2, <2>3
  <1>11. (urgent_q = <<>> => urgent_q' = <<>>) /\ (idle_q = <<>> => idle_q' = <<>>)
    BY <1>2
  <1>12. \A x \in AllWorkers : /\ ToSet(wq'[x]) = ToSet(wq[x]) \ {t} /\ NoRepeat(wq'[x])
                               /\ wq[x] = <<>> => wq'[x] = <<>>
    BY <1>0, <1>7, <1>8 DEF QueuesSound, OnlyIn
  <1>13. Clears(u, t, k, Nobody)
    <2>1. \A i, j \in DOMAIN chrono_q' :
             i < j => \E m, n \in DOMAIN chrono_q : m < n /\ chrono_q[m] = chrono_q'[i] /\ chrono_q[n] = chrono_q'[j]
      BY <1>8
    <2>2. /\ task' \in [Tasks -> Records] /\ (\A s \in Tasks \ {t} : task'[s] = task[s])
          /\ table' \in [Tasks -> States] /\ (\A s \in Tasks \ {t} : table'[s] = table[s])
          /\ wq' \in [AllWorkers -> Seq(Tasks)]
      BY <1>0, <1>8 DEF TaskTypes, QueueTypes
    <2>3. /\ table'[t] = St(t)' /\ St(t)' = St(t) /\ ~InQ(t)' /\ Ref(t)' = Ref(t)
      BY <1>7, <1>8 DEF St, InQ, Ref
    <2> QED BY <1>2, <1>6, <1>8, <1>9, <1>10, <1>11, <1>12, <2>1, <2>2, <2>3 DEF Clears
  <1> QED BY <1>0, <1>13, ClearsKeeps

LEMMA ClearTimedKeeps ==
    ASSUME IInv, OneUser, Orderly, NEW u \in Users, ClearTimed(u)
    PROVE  IInv'
  <1>0. /\ LoopTypes /\ QueueTypes /\ TaskTypes /\ QueuesSound /\ Nobody \in Places
        /\ chrono_q \in Seq(Tasks) /\ NoRepeat(chrono_q) /\ chrono_q # <<>>
    BY WhoIsWho DEF IInv, TypeOK, Places, QueueTypes, QueuesSound, ClearTimed
  <1>1. PICK t \in Tasks : t = Head(chrono_q)
    BY <1>0, TailSeq
  <1>2. /\ t \in ToSet(chrono_q) /\ Tail(chrono_q) \in Seq(Tasks) /\ NoRepeat(Tail(chrono_q))
        /\ ToSet(Tail(chrono_q)) = ToSet(chrono_q) \ {t}
    BY <1>0, <1>1, TailSeq
  <1>3. InHand(t, "timed", Nobody)
    BY <1>2 DEF InHand
  <1>4. /\ OnlyIn(t, "timed", Nobody) /\ TaskSound(t) /\ St(t) = "ENQUEUED"
    <2>1. "timed" \in Kinds \ {"exec", "dest"}
      BY DEF Kinds
    <2>2. OnlyIn(t, "timed", Nobody) /\ TaskSound(t) /\ St(t) \in Says("timed", Nobody)
      BY <1>0, <1>3, <2>1, InHandFacts
    <2> QED BY <2>2 DEF Says
  <1>5. /\ upc[u] \in Clearing /\ Free(u) /\ Still /\ now' = now /\ start_time' = start_time /\ glock' = u
        /\ UNCHANGED <<last_q, todo, out, exec, canc, freed, canceled, tlock, urgent_q, idle_q, wq>>
        /\ chrono_q' = Tail(chrono_q)
        /\ table' = [table EXCEPT ![t] = "DEQUEUED"]
        /\ task' = [task EXCEPT ![t] = Dequeued(task[t])]
        /\ dest' = [dest EXCEPT ![u] = [at |-> "unsched", task |-> t, unlock |-> FALSE]]
    BY <1>1 DEF ClearTimed, Clearing, Destroy, Still, loop, taken, workers, user, history
  <1>6. PICK q \in Records : q = task[t]
    BY <1>0 DEF TaskTypes
  <1>7. PICK r \in Records : r = Dequeued(q)
    BY DequeuedRecord
  <1>8. /\ r.m_status = "DEQUEUED" /\ r.m_is_in_timed_q = FALSE
        /\ r.m_exec_ref_count = q.m_exec_ref_count /\ r.m_cancel_ref_count = q.m_cancel_ref_count
        /\ r.m_do_repeat = q.m_do_repeat /\ r.m_is_first = q.m_is_first
        /\ r.m_next_abstime = q.m_next_abstime
    BY <1>7, DequeuedRecord
  <1>9. task' \in [Tasks -> Records] /\ task'[t] = r /\ \A s \in Tasks \ {t} : task'[s] = task[s]
    <2>1. task' = [task EXCEPT ![t] = r] /\ task \in [Tasks -> Records]
      BY <1>0, <1>5, <1>6, <1>7 DEF TaskTypes
    <2> QED BY <2>1
  <1>10. table' \in [Tasks -> States] /\ table'[t] = "DEQUEUED" /\ \A s \in Tasks \ {t} : table'[s] = table[s]
    BY <1>0, <1>5, TableChanges DEF States
  <1>11. Clears(u, t, "timed", Nobody)
    <2>1. \A i, j \in DOMAIN chrono_q' :
             i < j => \E m, n \in DOMAIN chrono_q : m < n /\ chrono_q[m] = chrono_q'[i] /\ chrono_q[n] = chrono_q'[j]
      <3>1. PICK c \in Seq(Tasks) : c = chrono_q /\ c # <<>> /\ chrono_q' = Tail(c)
        BY <1>0, <1>5
      <3>2. SUFFICES ASSUME NEW i \in DOMAIN Tail(c), NEW j \in DOMAIN Tail(c), i < j
                     PROVE  \E m, n \in DOMAIN c : m < n /\ c[m] = Tail(c)[i] /\ c[n] = Tail(c)[j]
        BY <3>1
      <3>3. /\ i + 1 \in DOMAIN c /\ j + 1 \in DOMAIN c /\ i + 1 < j + 1
            /\ c[i + 1] = Tail(c)[i] /\ c[j + 1] = Tail(c)[j]
        BY <3>1, <3>2
      <3> QED BY <3>3
    <2>2. /\ table'[t] = St(t)' /\ St(t)' = "DEQUEUED" /\ ~InQ(t)' /\ Ref(t)' = Ref(t)
          /\ task'[t].m_cancel_ref_count = task[t].m_cancel_ref_count
          /\ task'[t].m_do_repeat = task[t].m_do_repeat /\ task'[t].m_is_first = task[t].m_is_first
          /\ task'[t].m_next_abstime = task[t].m_next_abstime
      BY <1>6, <1>8, <1>9, <1>10 DEF St, InQ, Ref
    <2>3. /\ urgent_q' \in Seq(Tasks) /\ idle_q' \in Seq(Tasks) /\ NoRepeat(urgent_q') /\ NoRepeat(idle_q')
          /\ wq' \in [AllWorkers -> Seq(Tasks)]
          /\ ToSet(urgent_q') = ToSet(urgent_q) \ {t} /\ ToSet(idle_q') = ToSet(idle_q) \ {t}
      BY <1>0, <1>4, <1>5 DEF QueueTypes, QueuesSound, OnlyIn
    <2>4. \A x \in AllWorkers : /\ ToSet(wq'[x]) = ToSet(wq[x]) \ {t} /\ NoRepeat(wq'[x])
                                /\ wq[x] = <<>> => wq'[x] = <<>>
      BY <1>0, <1>4, <1>5 DEF QueuesSound, OnlyIn
    <2>5. /\ chrono_q' \in Seq(Tasks) /\ NoRepeat(chrono_q') /\ ToSet(chrono_q') = ToSet(chrono_q) \ {t}
          /\ chrono_q = <<>> => chrono_q' = <<>>
      BY <1>0, <1>2, <1>5
    <2>6. \E b \in BOOLEAN : dest' = [dest EXCEPT ![u] = [at |-> "unsched", task |-> t, unlock |-> b]]
      BY <1>5
    <2> QED BY <1>3, <1>4, <1>5, <1>9, <1>10, <2>1, <2>2, <2>3, <2>4, <2>5, <2>6 DEF Clears
  <1> QED BY <1>0, <1>11, ClearsKeeps

\* The user takes a timed task, to run it himself.
LEMMA ForceKeeps ==
    ASSUME IInv, OneUser, Orderly, NEW u \in Users, NEW t \in Tasks, ForceSchedule(u, t)
    PROVE  IInv'
  <1>0. /\ LoopTypes /\ UserTypes /\ QueueTypes /\ LayerTypes /\ TaskTypes /\ QueuesSound /\ Emptied
        /\ (\A e \in Executors : ThreadSound(e)) /\ TaskSound(t)
        /\ Nobody \notin Executors /\ Nobody \notin Tasks /\ AllWorkers \subseteq Executors
        /\ u \in Executors /\ u \in Places /\ u \notin AllWorkers /\ u # Sched /\ Nobody \in Places
        /\ Sched \notin AllWorkers
        /\ chrono_q \in Seq(Tasks) /\ NoRepeat(chrono_q) /\ Ordered(chrono_q)
    BY WhoIsWho DEF IInv, TypeOK, Places, QueueTypes, QueuesSound, Ordered
  <1>1. /\ upc[u] = "idle" /\ todo[u] = <<>> /\ out[u] = <<>>
        /\ exec[u].at = "none" /\ canc[u].at = "none" /\ dest[u].at = "none"
        /\ glock = Nobody /\ mode.forces /\ task[t].m_is_in_timed_q
    BY DEF ForceSchedule, Idle, Free, Busy
  <1>2. ~Alone /\ t \in ToSet(chrono_q)
    BY <1>0, <1>1 DEF Alone, TaskSound, Agreed, InQ
  <1>3. InHand(t, "timed", Nobody)
    BY <1>2 DEF InHand
  <1>4. /\ OnlyIn(t, "timed", Nobody) /\ t \notin freed /\ t \notin canceled /\ St(t) = "ENQUEUED"
        /\ (\A d \in Executors : t # dest[d].task)
        /\ (\A d \in Executors : t = exec[d].task => ~Main(exec[d]))
    <2>1. "timed" \in Kinds \ {"exec", "dest"}
      BY DEF Kinds
    <2>2. /\ OnlyIn(t, "timed", Nobody) /\ t \notin freed /\ St(t) \in Says("timed", Nobody)
          /\ (\A d \in Executors : t = dest[d].task => Alone)
          /\ (\A d \in Executors : t = exec[d].task => ~Main(exec[d]))
          /\ (t \in canceled => St(t) = "CANCELLED" \/ \E x \in Executors : t = dest[x].task)
      BY <1>0, <1>3, <2>1, InHandFacts
    <2>3. St(t) = "ENQUEUED"
      BY <2>2 DEF Says
    <2> QED BY <1>2, <2>2, <2>3
  <1>5. /\ Still /\ now' = now /\ start_time' = start_time /\ glock' = glock
        /\ UNCHANGED <<tlock, freed, canceled, urgent_q, idle_q, wq, last_q, out, exec, canc, dest>>
        /\ chrono_q' = Without(chrono_q, t)
        /\ table' = [table EXCEPT ![t] = "DEQUEUED"]
        /\ task' = [task EXCEPT ![t] = Dequeued(task[t])]
        /\ todo' = [todo EXCEPT ![u] = <<t>>]
    BY DEF ForceSchedule, Still, loop, workers, user, layers, history
  <1>6. PICK q \in Records : q = task[t]
    BY <1>0 DEF TaskTypes
  <1>7. PICK r \in Records : r = Dequeued(q)
    BY DequeuedRecord
  <1>8. /\ r.m_status = "DEQUEUED" /\ r.m_is_in_timed_q = FALSE
        /\ r.m_exec_ref_count = q.m_exec_ref_count /\ r.m_cancel_ref_count = q.m_cancel_ref_count
        /\ r.m_do_repeat = q.m_do_repeat /\ r.m_is_first = q.m_is_first
        /\ r.m_next_abstime = q.m_next_abstime
    BY <1>7, DequeuedRecord
  <1>9. task' \in [Tasks -> Records] /\ task'[t] = r /\ \A s \in Tasks \ {t} : task'[s] = task[s]
    <2>1. task' = [task EXCEPT ![t] = r] /\ task \in [Tasks -> Records]
      BY <1>0, <1>5, <1>6, <1>7 DEF TaskTypes
    <2> QED BY <2>1
  <1>10. table' \in [Tasks -> States] /\ table'[t] = "DEQUEUED" /\ \A s \in Tasks \ {t} : table'[s] = table[s]
    BY <1>0, <1>5, TableChanges DEF States
  <1>11. /\ chrono_q' \in Seq(Tasks) /\ NoRepeat(chrono_q')
         /\ ToSet(chrono_q') = ToSet(chrono_q) \ {t}
         /\ \A i, j \in DOMAIN chrono_q' :
               i < j => task'[chrono_q'[i]].m_next_abstime <= task'[chrono_q'[j]].m_next_abstime
    <2>1. \A i \in DOMAIN chrono_q : task'[chrono_q[i]].m_next_abstime = task[chrono_q[i]].m_next_abstime
      <3> TAKE i \in DOMAIN chrono_q
      <3>1. chrono_q[i] \in Tasks
        BY <1>0
      <3> QED BY <1>6, <1>8, <1>9, <3>1
    <2>2. /\ chrono_q' \in Seq(Tasks) /\ NoRepeat(chrono_q')
          /\ ToSet(chrono_q') = ToSet(chrono_q) \ {t}
          /\ \A i, j \in DOMAIN chrono_q' :
                i < j => \E m, n \in DOMAIN chrono_q : /\ m < n /\ chrono_q[m] = chrono_q'[i]
                                                       /\ chrono_q[n] = chrono_q'[j]
      BY <1>0, <1>2, <1>5, WithoutSeq
    <2> QED BY <1>0, <2>1, <2>2, StillOrdered
  <1>12. /\ todo'[u] = <<t>> /\ ToSet(todo'[u]) = {t} /\ NoRepeat(todo'[u])
         /\ todo' \in [Executors -> Seq(Tasks)]
         /\ \A e \in Executors \ {u} : todo'[e] = todo[e]
    <2>1. Append(<<>>, t) = <<t>> /\ <<>> \in Seq(Tasks) /\ <<t>> \in Seq(Tasks)
      OBVIOUS
    <2>2. ToSet(<<t>>) = {t} /\ NoRepeat(<<t>>)
      BY DEF ToSet, NoRepeat
    <2>3. todo'[u] = <<t>> /\ \A e \in Executors \ {u} : todo'[e] = todo[e]
      BY <1>0, <1>5 DEF QueueTypes
    <2> QED BY <1>0, <1>5, <2>1, <2>2, <2>3 DEF QueueTypes
  <1>13. W' = W /\ AllWorkers' = AllWorkers /\ (Alone' <=> Alone) /\ Executors' = Executors
    BY <1>5 DEF W, AllWorkers, Alone, Executors, Still
  <1>14. TaskTypes' /\ QueueTypes' /\ LayerTypes'
    <2>1. TaskTypes'
      BY <1>0, <1>5, <1>9, <1>10, <1>13 DEF TaskTypes
    <2>2. QueueTypes'
      BY <1>0, <1>5, <1>11, <1>12, <1>13 DEF QueueTypes
    <2>3. LayerTypes'
      BY <1>0, <1>5 DEF LayerTypes
    <2> QED BY <2>1, <2>2, <2>3
  <1>15. Emptied'
    <2>1. chrono_q # <<>>
      BY <1>2, NothingIn
    <2> QED BY <1>0, <1>5, <2>1, EmptiedFrame DEF Still
  <1>16. QueuesSound'
    <2>1. \A e \in Executors : NoRepeat(todo'[e]) /\ SentOnce(out'[e])
      <3> TAKE e \in Executors
      <3>1. NoRepeat(todo[e]) /\ SentOnce(out[e])
        BY <1>0 DEF QueuesSound
      <3> QED BY <1>5, <1>12, <3>1
    <2> QED BY <1>0, <1>5, <1>11, <1>13, <2>1 DEF QueuesSound
  <1>17. ASSUME NEW e \in Executors PROVE ThreadSound(e)'
    <2>1. CASE e = u
      <3>1. ~Away(e)'
        BY <1>0, <1>1, <1>5, <2>1 DEF Away, Still
      <3>2. /\ exec'[e].at = "none" /\ canc'[e].at = "none" /\ dest'[e].at = "none" /\ out'[e] = <<>>
        BY <1>1, <1>5, <2>1
      <3> QED BY <1>2, <1>13, <3>1, <3>2 DEF ThreadSound
    <2>2. CASE e # u
      BY <1>0, <1>5, <1>12, <2>2, ThreadFrame DEF SameThread, Still
    <2> QED BY <2>1, <2>2
  <1>18. TaskSound(t)'
    <2>1. InHand(t, "todo", u)'
      BY <1>0, <1>12 DEF InHand
    <2>2. OnlyIn(t, "todo", u)'
      BY <1>4, <1>5, <1>11, <1>12, <1>13 DEF OnlyIn
    <2>3. Both(t, Says("todo", u))'
      BY <1>0, <1>8, <1>9, <1>10, <1>13 DEF Both, Says, St
    <2>4. \A d \in Executors : /\ t # dest'[d].task
                               /\ t = exec'[d].task => exec'[d].at = "begin" \/ ~Main(exec'[d])
      BY <1>4, <1>5
    <2>5. CountSound(t)'
      <3>1. Counted(t)' = Counted(t)
        BY <1>5 DEF Counted
      <3> QED BY <1>0, <1>6, <1>8, <1>9, <3>1 DEF TaskSound, CountSound, Ref
    <2>6. OneShot(t)'
      <3>1. task[t].m_is_first \/ task[t].m_do_repeat
        BY <1>0, <1>4 DEF TaskSound, OneShot
      <3> QED BY <1>6, <1>8, <1>9, <3>1 DEF OneShot
    <2>7. /\ t \notin freed' /\ ~InQ(t)' /\ task'[t].m_cancel_ref_count = 0
          /\ t \notin canceled' /\ St(t)' = "DEQUEUED"
      BY <1>0, <1>4, <1>5, <1>6, <1>8, <1>9 DEF InQ, St, TaskSound, Agreed
    <2>8. Moved(t, "todo", u)
      BY <2>1, <2>2, <2>3, <2>4, <2>5, <2>6, <2>7 DEF Moved
    <2>9. "todo" \in Kinds \ {"dest"}
      BY DEF Kinds
    <2> QED BY <1>0, <2>8, <2>9, MovedSound
  <1>19. \A o \in Tasks \ {t} : Same(o)
    <2> TAKE o \in Tasks \ {t}
    <2>1. SameQueues(o)
      <3>1. o \in ToSet(todo'[u]) <=> o \in ToSet(todo[u])
        BY <1>1, <1>12, NothingIn
      <3> QED BY <1>5, <1>11, <1>12, <3>1 DEF SameQueues
    <2>2. SameLayers(o)
      BY <1>5 DEF SameLayers
    <2>3. SameRecord(o)
      BY <1>5, <1>9, <1>10, SameFields
    <2> QED BY <2>1, <2>2, <2>3 DEF Same
  <1>20. \A o \in Tasks : Same(o) \/ TaskSound(o)'
    BY <1>18, <1>19
  <1>21. \A o \in Tasks : St(o) = "CREATED" => St(o)' = "CREATED"
    BY <1>4, <1>9 DEF St
  <1>22. glock' \in Executors \cup {Nobody}
    BY <1>1, <1>5
  <1> QED BY <1>5, <1>14, <1>15, <1>16, <1>17, <1>20, <1>21, <1>22, StillStep

-----------------------------------------------------------------------------
(* Together.                                                               *)

LEMMA InitInv ==
    ASSUME Init, Orderly
    PROVE  IInv
  <1>0. /\ mode \in Modes /\ Nobody \notin Executors /\ Sched \notin AllWorkers /\ Nobody \notin Tasks
    <2>1. mode \in Modes
      BY DEF Init
    <2>2. \A m \in Modes : Nobody \notin m.workers /\ Sched \notin m.workers
      BY CalloutAssumption DEF ModeOK
    <2> QED BY <2>1, <2>2, CalloutAssumption DEF Executors, AllWorkers
  <1>1. /\ table = [t \in Tasks |-> "UNKNOWN"] /\ task = [t \in Tasks |-> [NewTask EXCEPT !.m_status = "UNKNOWN"]]
        /\ tlock = [t \in Tasks |-> Nobody] /\ freed = {} /\ canceled = {}
        /\ urgent_q = <<>> /\ idle_q = <<>> /\ chrono_q = <<>> /\ glock = Nobody
        /\ wq = [w \in AllWorkers |-> <<>>] /\ last_q = 0 /\ now = 0 /\ start_time = 0
        /\ s_do_loop = FALSE /\ s_is_stopped = FALSE /\ spc = "off" /\ gave_up = FALSE
        /\ todo = [e \in Executors |-> <<>>] /\ out = [e \in Executors |-> <<>>]
        /\ wpc = [w \in AllWorkers |-> "off"]
        /\ upc = [u \in Users |-> "idle"] /\ uarg = [u \in Users |-> NoArg]
        /\ exec = [e \in Executors |-> NoExec] /\ canc = [e \in Executors |-> NoCanc]
        /\ dest = [e \in Executors |-> NoDest]
        /\ stage = IF W = {} THEN "none" ELSE "created"
    BY DEF Init, Once, CreateStage
  <1>2. PICK n \in Records : /\ n = [NewTask EXCEPT !.m_status = "UNKNOWN"]
                             /\ n.m_status = "UNKNOWN" /\ n.m_exec_ref_count = 0
                             /\ n.m_cancel_ref_count = 0 /\ n.m_is_first /\ n.m_is_in_timed_q = FALSE
    <2>1. PICK q \in Records : q = NewTask
      BY NewRecord
    <2>2. "UNKNOWN" \in States \cup {"DELETING"}
      BY DEF States
    <2>3. PICK a \in Records : /\ a = [q EXCEPT !.m_status = "UNKNOWN"] /\ a.m_status = "UNKNOWN"
                               /\ a.m_exec_ref_count = q.m_exec_ref_count
                               /\ a.m_cancel_ref_count = q.m_cancel_ref_count
                               /\ a.m_is_first = q.m_is_first /\ a.m_is_in_timed_q = q.m_is_in_timed_q
      BY <2>2, StatusOnly
    <2> QED BY <2>1, <2>3, NewRecord
  <1>3. \A t \in Tasks : task[t] = n /\ table[t] = "UNKNOWN"
    BY <1>1, <1>2
  <1>4. /\ \A e \in Executors : /\ exec[e].at = "none" /\ exec[e].task = Nobody
                                /\ canc[e].at = "none" /\ canc[e].task = Nobody
                                /\ dest[e].at = "none" /\ dest[e].task = Nobody
                                /\ todo[e] = <<>> /\ out[e] = <<>>
        /\ \A w \in AllWorkers : wq[w] = <<>> /\ wpc[w] = "off"
        /\ \A u \in Users : upc[u] = "idle" /\ uarg[u] = NoArg
    BY <1>1 DEF NoExec, NoCanc, NoDest
  <1>5. TypeOK
    <2>1. TaskTypes
      <3>1. "UNKNOWN" \in States
        BY DEF States
      <3> QED BY <1>1, <1>2, <3>1 DEF TaskTypes
    <2>2. QueueTypes
      BY <1>1 DEF QueueTypes
    <2>3. LayerTypes
      <3>1. NoExec \in ExecRecords
        BY DEF NoExec, ExecRecords, ExecPlaces, States
      <3>2. NoCanc \in CancRecords
        BY DEF NoCanc, CancRecords, States
      <3>3. NoDest \in DestRecords
        BY DEF NoDest, DestRecords
      <3> QED BY <1>1, <1>4, <3>1, <3>2, <3>3 DEF LayerTypes
    <2>4. LoopTypes
      BY <1>0, <1>1 DEF LoopTypes
    <2>5. UserTypes
      <3>1. NoArg \in [task : Tasks \cup {Nobody}, delay : Int, interval : Nat, fin : BOOLEAN]
        BY DEF NoArg
      <3> QED BY <1>1, <3>1 DEF UserTypes
    <2> QED BY <2>1, <2>2, <2>3, <2>4, <2>5 DEF TypeOK
  <1>6. LoopSound
    BY <1>1, <1>4 DEF LoopSound, Clearing, Resting
  <1>7. StageSound
    BY <1>1, <1>4 DEF StageSound, Clearing
  <1>8. Emptied
    BY <1>4 DEF Emptied, Past
  <1>9. Submits
    BY <1>4 DEF Submits
  <1>10. QueuesSound
    BY <1>1, <1>4, NothingIn DEF QueuesSound
  <1>11. ASSUME NEW e \in Executors PROVE ThreadSound(e)
    BY <1>4 DEF ThreadSound
  <1>12. ASSUME NEW t \in Tasks PROVE TaskSound(t)
    <2>1. ~Handed(t)
      <3>1. \A k \in Kinds, e \in Places : ~InHand(t, k, e)
        BY <1>0, <1>1, <1>4, NothingIn DEF InHand, Main
      <3> QED BY <3>1 DEF Handed
    <2>2. \A e \in Executors : t # exec[e].task /\ t # canc[e].task /\ t # dest[e].task
      BY <1>0, <1>4
    <2>3. Apart(t)
      BY <2>1 DEF Apart, Handed
    <2>4. SoleExec(t) /\ SoleDest(t) /\ CancelSound(t)
      BY <2>2 DEF SoleExec, SoleDest, CancelSound
    <2>5. Stated(t)
      BY <1>0, <1>1, <1>4, <2>2, NothingIn DEF Stated, Executors
    <2>6. Agreed(t)
      BY <1>1, <1>2, <1>3, NothingIn DEF Agreed, InQ, St
    <2>7. FreshSound(t)
      BY <1>2, <1>3, <2>1, <2>2 DEF FreshSound, St, Ref
    <2>8. CountSound(t)
      <3>1. Counted(t) = {}
        BY <2>2 DEF Counted
      <3> QED BY <1>2, <1>3, <3>1, FS_EmptySet DEF CountSound, Ref
    <2>9. FreedSound(t) /\ CanceledSound(t)
      BY <1>1 DEF FreedSound, CanceledSound
    <2>10. Kept(t) /\ OneShot(t)
      BY <1>2, <1>3 DEF Kept, OneShot
    <2> QED BY <2>3, <2>4, <2>5, <2>6, <2>7, <2>8, <2>9, <2>10 DEF TaskSound
  <1> QED BY <1>5, <1>6, <1>7, <1>8, <1>9, <1>10, <1>11, <1>12 DEF IInv

\* Nothing happens.
LEMMA StutterKeeps ==
    ASSUME IInv, OneUser, Orderly, UNCHANGED vars
    PROVE  IInv'
  <1>1. /\ UNCHANGED <<table, task, tlock, freed, canceled, exec, canc, dest>>
        /\ Unconcerned /\ Still /\ QueuesStay /\ now' = now /\ start_time' = start_time /\ gave_up' = gave_up
    <2>1. /\ UNCHANGED <<table, task, tlock, freed, canceled, exec, canc, dest, glock, mode>>
          /\ Still /\ QueuesStay /\ now' = now /\ start_time' = start_time /\ gave_up' = gave_up
      BY DEF vars, tasks, queues, loop, taken, workers, user, layers, history, Still, QueuesStay
    <2>2. glock \in Executors \cup {Nobody}
      BY DEF IInv, TypeOK, LoopTypes
    <2> QED BY <2>1, <2>2 DEF Unconcerned
  <1>2. /\ TypeOK /\ LoopSound /\ StageSound /\ \A e \in Executors : ThreadSound(e)
    BY DEF IInv
  <1>3. LoopTypes' /\ UserTypes'
    BY <1>1, <1>2, TypesFrame DEF Unconcerned
  <1>4. LoopSound' /\ StageSound'
    BY <1>1, <1>2, ControlFrame
  <1>5. Emptied' /\ Submits'
    BY <1>1, EmptyStill, SubmitsStill DEF Still
  <1>6. \A e \in Executors : ThreadSound(e)'
    BY <1>1, <1>2, ThreadFrame DEF SameThread, Still, QueuesStay
  <1> QED BY <1>1, <1>3, <1>4, <1>5, <1>6, UnconcernedStep

\* Every step keeps the invariant.
LEMMA NextInv ==
    ASSUME IInv, OneUser, Orderly, [Next]_vars
    PROVE  IInv'
  <1>0. AllWorkers \subseteq Executors /\ Users \subseteq Executors /\ Sched \in Executors
    BY DEF Executors
  <1>1. ASSUME NEW th \in Executors, ThreadStep(th) PROVE IInv'
    <2>1. CASE DestroyUnscheds(th) \/ DestroyMarks(th) \/ DestroyDeletes(th)
      BY <2>1, DestroyUnschedsKeeps, DestroyMarksKeeps, DestroyDeletesKeeps
    <2>2. CASE \/ CancelCounts(th) \/ CancelJoins(th) \/ CancelWaits(th) \/ CancelLast(th)
               \/ CancelEnqueued(th) \/ CancelDequeued(th)
      BY <2>2, CancelCountsKeeps, NoJoining, CancelEnqueuedKeeps, CancelDequeuedKeeps
    <2>3. CASE ExecLooks(th) \/ ExecCounts(th) \/ ExecLocks(th) \/ Reschedules(th)
      BY <2>3, ExecLooksKeeps, ExecCountsKeeps, ExecLocksKeeps, ReschedulesKeeps
    <2>4. CASE \E ok \in BOOLEAN : ProcReturns(th, ok)
      BY <2>4, ProcReturnsKeeps
    <2>5. CASE ExecLeaves(th) \/ ExecDestroys(th) \/ ExecTells(th)
      BY <2>5, ExecLeavesKeeps, ExecDestroysKeeps, NoTelling
    <2>6. CASE ExecRefuses(th) \/ ExecLocksGlobal(th)
      BY <2>6, ExecRefusesKeeps, ExecLocksGlobalKeeps
    <2>7. CASE Mark(th) \/ Put(th)
      BY <2>7, MarkKeeps, PutKeeps
    <2> QED BY <1>1, <2>1, <2>2, <2>3, <2>4, <2>5, <2>6, <2>7 DEF ThreadStep
  <1>2. CASE \E th \in Executors, t \in Tasks : CancelLooks(th, t)
    BY <1>2, CancelLooksKeeps
  <1>3. CASE \E th \in Executors, i \in Intervals : ResetInterval(th, i)
    BY <1>3, ResetIntervalKeeps
  <1>4. CASE \E w \in AllWorkers : WorkerStep(w)
    BY <1>4, WorkerFetchesKeeps, WorkerRunsKeeps, WorkerEndsKeeps DEF WorkerStep
  <1>5. CASE SchedStep
    BY <1>5, SchedStepsKeep, SchedFetchesKeeps, SchedTakesTimedKeeps, SchedEndsKeeps DEF SchedStep
  <1>6. CASE StartLoop \/ Tick \/ SpuriousWakeup
    BY <1>6, StartLoopKeeps, TickKeeps, SchedStepsKeep
  <1>7. ASSUME NEW u \in Users, UserStep(u) PROVE IInv'
    <2>1. CASE SubmitTimed(u) \/ SubmitLocks(u) \/ SubmitPuts(u)
      BY <2>1, SubmitTimedKeeps, SubmitLocksKeeps, SubmitPutsKeeps
    <2>2. CASE StopWakes(u) \/ StopAnswered(u) \/ StopSleeps(u) \/ FinishStage(u)
      BY <2>2, StopWakesKeeps, StopSleepsKeeps, FinishStageKeeps
    <2>3. CASE ClearWorkers(u) \/ ClearQueue(u) \/ ClearTimed(u) \/ Cleared(u)
      BY <2>3, ClearWorkersKeeps, ClearQueueKeeps, ClearTimedKeeps, ClearedKeeps
    <2> QED BY <1>7, <2>1, <2>2, <2>3 DEF UserStep
  <1>8. CASE \E u \in Users, t \in Tasks : Create(u, t) \/ ForceSchedule(u, t)
    BY <1>8, CreateKeeps, ForceKeeps
  <1>9. CASE \E u \in Users, t \in Tasks, d \in mode.delays, i \in Intervals : Submit(u, t, d, i)
    BY <1>9, SubmitKeeps
  <1>10. CASE \E u \in Users, fin \in BOOLEAN : Stop(u, fin)
    BY <1>10, StopKeeps
  <1>11. CASE UNCHANGED vars
    BY <1>11, StutterKeeps
  <1> QED BY <1>1, <1>2, <1>3, <1>4, <1>5, <1>6, <1>7, <1>8, <1>9, <1>10, <1>11 DEF Next

\* The invariant holds always.
LEMMA InvAlways == OneUser /\ Orderly => (Spec => []IInv)
  <1> SUFFICES ASSUME OneUser, Orderly PROVE Spec => []IInv
    OBVIOUS
  <1>1. Init => IInv
    BY InitInv
  <1>2. IInv /\ [Next]_vars => IInv'
    BY NextInv
  <1> QED BY <1>1, <1>2, PTL DEF Spec

-----------------------------------------------------------------------------
(* What the invariant says of the tasks.                                   *)

\* Who has a pointer to a task has it in his hands, or executes, cancels or destroys it.
LEMMA PointedFacts ==
    ASSUME IInv, Orderly, NEW t \in Tasks
    PROVE  /\ Handed(t) => t \in Pointed
           /\ t \in freed => t \notin Pointed
  <1>0. Nobody \notin Executors /\ AllWorkers \subseteq Executors
    BY WhoIsWho DEF IInv, TypeOK
  <1>1. ASSUME NEW k \in Kinds, NEW e \in Places, InHand(t, k, e) PROVE t \in Pointed
    BY <1>0, <1>1 DEF InHand, Pointed
  <1>2. t \in freed => t \notin Pointed
    <2> SUFFICES ASSUME t \in freed PROVE t \notin Pointed
      OBVIOUS
    <2>1. ~Handed(t) /\ \A e \in Executors : t # exec[e].task /\ t # canc[e].task /\ t # dest[e].task
      BY DEF IInv, TaskSound, FreedSound
    <2>2. /\ t \notin ToSet(urgent_q) /\ t \notin ToSet(idle_q) /\ t \notin ToSet(chrono_q)
          /\ (\A w \in AllWorkers : t \notin ToSet(wq[w]))
          /\ \A e \in Executors : t \notin ToSet(todo[e]) /\ t \notin Sent(out[e])
      BY <1>0, <2>1, NoHand
    <2> QED BY <2>1, <2>2 DEF Pointed
  <1> QED BY <1>1, <1>2 DEF Handed

\* No task is used after it was freed, the timed queue is right, none is forgotten.
LEMMA TasksSoundly ==
    ASSUME IInv, Orderly
    PROVE  TasksSound
  <1>0. /\ freed \subseteq Tasks /\ QueuesSound /\ chrono_q \in Seq(Tasks)
        /\ \A t \in Tasks : TaskSound(t)
    BY DEF IInv, TypeOK, TaskTypes, QueueTypes
  <1>1. NoUseAfterFreeUncanceled
    BY <1>0, PointedFacts DEF NoUseAfterFreeUncanceled, NoUseAfterFree, Defined
  <1>2. TimedQueueSound
    <2>1. \A i, j \in DOMAIN chrono_q : i < j => chrono_q[i] # chrono_q[j]
      BY <1>0 DEF QueuesSound, NoRepeat
    <2>2. \A t \in Tasks : t \in ToSet(chrono_q) <=> task[t].m_is_in_timed_q
      BY <1>0 DEF TaskSound, Agreed, InQ
    <2>3. \A t \in ToSet(chrono_q) : table[t] = "ENQUEUED" /\ task[t].m_status = "ENQUEUED"
      <3> TAKE t \in ToSet(chrono_q)
      <3>1. t \in Tasks
        BY <1>0 DEF ToSet
      <3> QED BY <1>0, <3>1 DEF TaskSound, Stated, Both, St
    <2> QED BY <1>0, <2>1, <2>2, <2>3 DEF TimedQueueSound, QueuesSound
  <1>3. NotForgottenBySelf
    <2> SUFFICES ASSUME Alone, NEW t \in Tasks, table[t] = "DEQUEUED" PROVE t \in Pointed
      BY DEF NotForgottenBySelf, NotForgotten, Forgotten, Alone
    <2>1. Kept(t)
      BY <1>0 DEF TaskSound
    <2> QED BY <2>1, PointedFacts DEF Kept
  <1> QED BY <1>1, <1>2, <1>3 DEF TasksSound

\* Whoever has finalized has emptied the queues, and nobody executes tasks.
LEMMA FinalizedClean ==
    ASSUME IInv, OneUser, Orderly
    PROVE  FinalizeCleans
  <1> SUFFICES ASSUME NEW u \in Users, upc[u] = "finalized", ~gave_up, NEW t \in Tasks
               PROVE  table[t] \in {"UNKNOWN", "CREATED"} \/ Forgotten(t)
    BY DEF FinalizeCleans
  <1>0. /\ Nobody \notin Executors /\ Nobody \notin Tasks /\ AllWorkers \subseteq Executors
        /\ Emptied /\ LayerTypes /\ u \in Executors /\ u # Sched /\ ThreadSound(u) /\ TaskSound(t)
    BY WhoIsWho DEF IInv, TypeOK
  <1>1. \A e \in Executors :
           /\ exec[e].task = Nobody /\ canc[e].task = Nobody /\ todo[e] = <<>> /\ out[e] = <<>>
           /\ e # u => dest[e].task = Nobody
    BY ClearingAlone DEF Past
  <1>2. dest[u].task = Nobody
    <2>1. dest[u].at = "none"
      BY <1>0 DEF ThreadSound, Away, Clearing
    <2> QED BY <1>0, <2>1 DEF LayerTypes
  <1>3. urgent_q = <<>> /\ idle_q = <<>> /\ chrono_q = <<>> /\ \A w \in AllWorkers : wq[w] = <<>>
    BY <1>0 DEF Emptied, Past
  <1>4. t \notin Pointed
    BY <1>0, <1>1, <1>2, <1>3, NothingIn DEF Pointed
  <1>5. Kept(t) /\ ~Handed(t)
    BY <1>0, <1>4, PointedFacts DEF TaskSound
  <1> QED BY <1>4, <1>5 DEF Kept, Forgotten

\* A procedure is called by a thread that has just got the task's lock.
LEMMA RunningLocks ==
    ASSUME IInv, Orderly, [Next]_vars, NEW e \in Executors, StartsRunning(e)
    PROVE  ExecLocks(e)
  <1>0. exec \in [Executors -> ExecRecords] /\ AllWorkers \subseteq Executors
    BY WhoIsWho DEF IInv, TypeOK, LayerTypes
  <1>1. exec' # exec
    BY DEF StartsRunning
  <1>2. ASSUME NEW th \in Executors, NEW x, exec' = [exec EXCEPT ![th] = x], x.at # "running" \/ x.at = exec[th].at
        PROVE  FALSE
    BY <1>0, <1>2 DEF StartsRunning
  <1>b. ASSUME NEW th \in Executors, NEW x, x # "running", NEW b,
               exec' = [exec EXCEPT ![th].at = x, ![th].del = b]
        PROVE  FALSE
    <2>1. exec[th] \in ExecRecords
      BY <1>0
    <2>2. exec'[th] = [exec[th] EXCEPT !.at = x, !.del = b]
      BY <1>0, <1>b
    <2>3. exec'[th].at = x
      BY <2>1, <2>2 DEF ExecRecords
    <2>4. \A d \in Executors \ {th} : exec'[d] = exec[d]
      BY <1>0, <1>b
    <2> QED BY <1>b, <2>3, <2>4 DEF StartsRunning
  <1>3. ASSUME NEW th \in Executors, ThreadStep(th) PROVE ExecLocks(e)
    <2>1. CASE ExecLooks(th)
      BY <1>0, <2>1 DEF ExecLooks, StartsRunning
    <2>2. CASE ExecCounts(th)
      BY <1>0, <2>2 DEF ExecCounts, ExecGoes, StartsRunning
    <2>3. CASE ExecLocks(th)
      <3>1. exec' = [exec EXCEPT ![th] = exec'[th]] \/ exec' = exec
        BY <1>0, <2>3 DEF ExecLocks, ExecGoes
      <3>2. e = th
        BY <1>0, <3>1 DEF StartsRunning
      <3> QED BY <2>3, <3>2
    <2>4. CASE \E ok \in BOOLEAN : ProcReturns(th, ok)
      <3>1. PICK x \in {"resched", "leave"}, b \in BOOLEAN :
               exec' = [exec EXCEPT ![th].at = x, ![th].del = b]
        BY <2>4 DEF ProcReturns
      <3>2. x # "running"
        BY <3>1
      <3> QED BY <1>b, <3>1, <3>2
    <2>5. CASE Reschedules(th) \/ ExecDestroys(th)
      <3>1. CASE Reschedules(th)
        <4>1. \E b : exec' = [exec EXCEPT ![th].at = "leave", ![th].del = b]
          BY <3>1 DEF Reschedules
        <4> QED BY <1>b, <4>1
      <3>2. CASE ExecDestroys(th)
        BY <1>0, <3>2 DEF ExecDestroys, ExecGoes, StartsRunning
      <3> QED BY <2>5, <3>1, <3>2
    <2>6. CASE ExecLeaves(th) \/ ExecTells(th) \/ ExecLocksGlobal(th)
      <3>1. exec' = [exec EXCEPT ![th] = NoExec] /\ NoExec.at = "none"
        BY <2>6 DEF ExecLeaves, ExecTells, ExecLocksGlobal, NoExec
      <3> QED BY <1>2, <3>1
    <2>7. CASE ExecRefuses(th)
      BY <1>0, <2>7 DEF ExecRefuses, NoExec, StartsRunning
    <2>8. CASE Mark(th)
      <3>1. exec' = exec \/ Begins(th, Head(todo[th]))
        BY <2>8 DEF Mark
      <3> QED BY <1>0, <1>1, <3>1 DEF Begins, StartsRunning
    <2>9. CASE \/ DestroyUnscheds(th) \/ DestroyMarks(th) \/ DestroyDeletes(th) \/ CancelCounts(th)
               \/ CancelJoins(th) \/ CancelWaits(th) \/ CancelLast(th) \/ CancelEnqueued(th)
               \/ CancelDequeued(th) \/ Put(th)
      BY <1>1, <2>9 DEF DestroyUnscheds, DestroyMarks, DestroyDeletes, CancelCounts, CancelJoins,
                        CancelWaits, CancelLast, CancelEnqueued, CancelDequeued, Put, layers
    <2> QED BY <1>3, <2>1, <2>2, <2>3, <2>4, <2>5, <2>6, <2>7, <2>8, <2>9 DEF ThreadStep
  <1>4. ASSUME NEW w \in AllWorkers, WorkerStep(w) PROVE FALSE
    <2>1. exec' = exec \/ Begins(w, Head(todo[w]))
      BY <1>4 DEF WorkerStep, WorkerFetches, WorkerRuns, WorkerEnds, layers
    <2> QED BY <1>0, <1>1, <2>1 DEF Begins, StartsRunning
  <1>5. ~SchedStep /\ ~SpuriousWakeup /\ ~StartLoop /\ ~Tick
    BY <1>1 DEF SchedStep, GalaFails, GalaOpens, SchedFetches, SchedTakesTimed, SchedIdles, SchedPeeks,
                SchedAwakes, SchedTimesOut, SchedEnds, SpuriousWakeup, StartLoop, Tick, layers
  <1>6. \A u \in Users : ~UserStep(u)
    BY <1>1 DEF UserStep, SubmitTimed, SubmitLocks, SubmitPuts, StopWakes, StopAnswered, StopSleeps,
                FinishStage, ClearWorkers, ClearQueue, ClearTimed, Cleared, layers
  <1>7. \A u \in Users, t \in Tasks : ~Create(u, t) /\ ~ForceSchedule(u, t)
    BY <1>1 DEF Create, ForceSchedule, layers
  <1>8. \A u \in Users, t \in Tasks, d \in mode.delays, i \in Intervals : ~Submit(u, t, d, i)
    BY <1>1 DEF Submit, layers
  <1>9. \A u \in Users, fin \in BOOLEAN : ~Stop(u, fin)
    BY <1>1 DEF Stop, layers
  <1>10. \A th \in Executors : (\A t \in Tasks : ~CancelLooks(th, t)) /\ \A i \in Intervals : ~ResetInterval(th, i)
    BY <1>1 DEF CancelLooks, ResetInterval, layers
  <1> QED BY <1>1, <1>3, <1>4, <1>5, <1>6, <1>7, <1>8, <1>9, <1>10 DEF Next, vars, layers

\* Who is about to call a procedure finds a task that may be executed.
LEMMA RunsSound ==
    ASSUME IInv, Orderly, NEW e \in Executors, ExecLocks(e)
    PROVE  /\ task[exec[e].task].m_do_repeat \/ task[exec[e].task].m_is_first
           /\ exec[e].task \notin canceled
  <1>0. exec[e].at = "lock"
    BY DEF ExecLocks, At
  <1>1. PICK t \in Tasks : t = exec[e].task
    BY <1>0, WhoExecutes
  <1>2. /\ TaskSound(t) /\ t \notin freed /\ \A d \in Executors : t # dest[d].task
    BY <1>0, <1>1, WhoExecutes
  <1>3. St(t) = "DEQUEUED"
    BY <1>0, <1>1, <1>2 DEF TaskSound, Stated, Both
  <1>4. task[t].m_do_repeat \/ task[t].m_is_first
    BY <1>2, <1>3 DEF TaskSound, OneShot
  <1>5. t \notin canceled
    BY <1>2, <1>3 DEF TaskSound, CanceledSound, Both
  <1> QED BY <1>1, <1>4, <1>5

-----------------------------------------------------------------------------
(* The theorems.                                                           *)

\* No queue, thread or canceller has a task that s_delete has freed; the timed queue is in
\* the order of the times, has each task once, and m_is_in_timed_q and the states agree with it;
\* and where one thread runs the tasks, one that is DEQUEUED is in somebody's hands.
THEOREM TasksSoundAlways == OneUser /\ Orderly => (Spec => []TasksSound)
  <1> SUFFICES ASSUME OneUser, Orderly PROVE Spec => []TasksSound
    OBVIOUS
  <1>1. IInv => TasksSound
    BY TasksSoundly
  <1>2. Spec => []IInv
    BY InvAlways
  <1> QED BY <1>1, <1>2, PTL

\* gallus_callout_finalize_handler leaves no task enqueued, but those that the second of two
\* executors has forgotten.
THEOREM FinalizeCleansAlways == OneUser /\ Orderly => (Spec => []FinalizeCleans)
  <1> SUFFICES ASSUME OneUser, Orderly PROVE Spec => []FinalizeCleans
    OBVIOUS
  <1>1. IInv => FinalizeCleans
    BY FinalizedClean
  <1>2. Spec => []IInv
    BY InvAlways
  <1> QED BY <1>1, <1>2, PTL

\* s_exec_task calls the procedure of a task without interval once at most, and never that of a
\* task that a procedure has cancelled.
THEOREM RunsAllowedAlways == OneUser /\ Orderly => (Spec => RunsAllowed)
  <1> SUFFICES ASSUME OneUser, Orderly PROVE Spec => RunsAllowed
    OBVIOUS
  <1> DEFINE A == \A e \in Executors : StartsRunning(e) =>
                     task[exec[e].task].m_do_repeat \/ task[exec[e].task].m_is_first
             B == \A e \in Executors :
                     mode.cancels = "procs" /\ StartsRunning(e) => exec[e].task \notin canceled
  <1>1. IInv /\ [Next]_vars => A /\ B
    BY RunningLocks, RunsSound
  <1>2. Spec => []IInv
    BY InvAlways
  <1>3. Spec => [][A]_vars /\ [][B]_vars
    <2> HIDE DEF A, B
    <2> QED BY <1>1, <1>2, PTL DEF Spec
  <1> QED BY <1>3 DEF RunsAllowed, OneShotOnce, CanceledNeverRuns

=============================================================================
