------------------------------ MODULE CBuffer ------------------------------
(***************************************************************************)
(* The circular buffer of src/framework/lib/cbuffer.c, which is also the   *)
(* library's bounded blocking queue (gallus_bbq_* are macros over it).     *)
(*                                                                         *)
(* Every operation runs under m_lock, so one step of the model is one      *)
(* critical section: from taking the lock, or from being handed it back by *)
(* gallus_cond_wait, to the unlock or to the next gallus_cond_wait.  In    *)
(* between a thread is asleep on one of the three condition variables.     *)
(***************************************************************************)
EXTENDS Results, Sequences, FiniteSets

CONSTANTS
    Threads,     \* the calling threads
    MaxElems,    \* m_n_max_elements
    IdxMax,      \* largest value of the type of m_r_idx and m_w_idx
    MaxVals,     \* bound: values ever put are 1 .. MaxVals
    MaxReq,      \* bound: elements a single call asks for
    PeekReq,     \* bound: elements a single peek asks for
    FreeValues,  \* the free_values arguments used: m_del_proc runs or not
    Ops,         \* the calls each thread makes
    Modes,       \* timeouts callers use: nsec = 0, < 0, > 0
    Cancelable,  \* threads that may be cancelled while they sleep
    Spurious     \* threads that may wake up although nobody notified

ASSUME CBufferAssumption ==
    /\ MaxElems \in Nat \ {0}
    /\ IdxMax \in Nat
    /\ MaxVals \in Nat
    /\ MaxReq \in Nat \ {0}
    /\ PeekReq \in Nat
    /\ DOMAIN Ops = Threads
    /\ Modes \subseteq {"zero", "inf", "timed"}
    /\ FreeValues \subseteq BOOLEAN
    /\ Cancelable \subseteq Threads
    /\ Spurious \subseteq Threads
    /\ IsFiniteSet(Threads)

VARIABLES
    m_r_idx, m_w_idx, m_n_elements, m_data,        \* the ring
    m_n_waiters, m_is_operational, m_is_awakened,
    pc,       \* "idle", the condition variable t sleeps on, "done" or "gone"
    woken,    \* why t's gallus_cond_wait is about to return: "no", "ok", "timedout"
    call,     \* arguments of t's current call
    n_copied, \* n_copyin or n_copyout of t's call
    got,      \* what the call has copied to the caller
    ret,      \* result of t's call
    made,     \* values handed to put calls so far
    freed     \* values m_del_proc was called with

ring == <<m_r_idx, m_w_idx, m_n_elements, m_data>>
flags == <<m_n_waiters, m_is_operational, m_is_awakened>>
vars == <<ring, flags, pc, woken, call, n_copied, got, ret, made, freed>>

N_EMPTY_ROOM == 1
Allocd == MaxElems + N_EMPTY_ROOM
Slots == 0 .. Allocd - 1

Conds == {"cond_put", "cond_get", "cond_awakened"}
PlainCall(op, mode) == [op |-> op, mode |-> mode, n |-> 0, least |-> 0, vals |-> <<>>]
NoCall == PlainCall("none", "zero")

Lesser(a, b) == IF a < b THEN a ELSE b

\* What a sum of two indices is once stored in the index type.
Wrap(i) == IF i > IdxMax THEN i - 2 * (IdxMax + 1) ELSE i

Init ==
    /\ m_r_idx = 0
    /\ m_w_idx = 0
    /\ m_n_elements = 0
    /\ m_data = [s \in Slots |-> 0]
    /\ m_n_waiters = 0
    /\ m_is_operational = TRUE
    /\ m_is_awakened = FALSE
    /\ pc = [t \in Threads |-> "idle"]
    /\ woken = [t \in Threads |-> "no"]
    /\ call = [t \in Threads |-> NoCall]
    /\ n_copied = [t \in Threads |-> 0]
    /\ got = [t \in Threads |-> <<>>]
    /\ ret = [t \in Threads |-> NoResult]
    /\ made = 0
    /\ freed = {}

-----------------------------------------------------------------------------
(* Helpers of the ring.                                                    *)

\* s_adjust_indices: the write and the read index after the adjustment.
s_adjust_w == IF m_w_idx >= 0 THEN m_w_idx ELSE Allocd
s_adjust_r == IF m_w_idx >= 0 THEN m_r_idx ELSE m_r_idx % Allocd

\* s_data_addr: the slot of an index.
s_data_addr(i) == i % Allocd

\* How many elements s_copyin, s_copyout move when n are wanted.
CopyinCount(n) == Lesser(MaxElems - m_n_elements, n)
CopyoutCount(n) == Lesser(n, m_n_elements)

\* Mutant: a later pass starts over at the first value of the call.
CopyinData_StartOver(vals, d, k) ==
    [s \in Slots |-> LET i == ((s - s_adjust_w) % Allocd) + 1
                     IN  IF i <= k THEN vals[i] ELSE m_data[s]]

\* The two memcpy of s_copyin: k values from vals[d + 1] on, wrapping around.
CopyinData(vals, d, k) ==
    [s \in Slots |-> LET i == ((s - s_adjust_w) % Allocd) + 1
                     IN  IF i <= k THEN vals[d + i] ELSE m_data[s]]

\* The two memcpy of s_copyout.
CopyoutData(k) == [i \in 1 .. k |-> m_data[s_data_addr(s_adjust_r + i - 1)]]

\* Stores of s_copyin when it moves k values.
s_copyin(vals, d, k) ==
    /\ m_data' = IF k > 0 THEN CopyinData(vals, d, k) ELSE m_data
    /\ m_n_elements' = m_n_elements + k
    /\ m_w_idx' = Wrap(s_adjust_w + k)
    /\ m_r_idx' = s_adjust_r

\* Stores of s_copyout when it moves k values.
s_copyout(k, do_incr) ==
    /\ m_n_elements' = IF do_incr THEN m_n_elements - k ELSE m_n_elements
    /\ m_r_idx' = IF do_incr THEN Wrap(s_adjust_r + k) ELSE s_adjust_r
    /\ m_w_idx' = s_adjust_w
    /\ UNCHANGED m_data

\* s_freeup_all_values: what m_del_proc is called with.
FreedValues == {m_data[s_data_addr(i)] : i \in s_adjust_r .. s_adjust_w - 1}

\* Mutant: the element count survives the cleaning.
s_clean_KeepCount(free_values) ==
    /\ freed' = IF free_values THEN freed \cup FreedValues ELSE freed
    /\ m_r_idx' = 0
    /\ m_w_idx' = 0
    /\ m_data' = [s \in Slots |-> 0]
    /\ UNCHANGED m_n_elements

s_clean(free_values) ==
    /\ freed' = IF free_values THEN freed \cup FreedValues ELSE freed
    /\ m_r_idx' = 0
    /\ m_w_idx' = 0
    /\ m_data' = [s \in Slots |-> 0]
    /\ m_n_elements' = 0

-----------------------------------------------------------------------------
(* Condition variables.                                                    *)

Asleep(t) == pc[t] \in Conds /\ woken[t] = "no"

\* gallus_cond_notify(c, true) for every c in conds: all sleepers get up.
Notify(conds) ==
    [u \in Threads |-> IF pc[u] \in conds /\ woken[u] = "no" THEN "ok" ELSE woken[u]]

\* The same while t itself runs, hence does not sleep.
NotifyFrom(t, conds) == [Notify(conds) EXCEPT ![t] = "no"]

\* t's call ends with result r.
Finish(t, r) ==
    /\ pc' = [pc EXCEPT ![t] = "done"]
    /\ ret' = [ret EXCEPT ![t] = r]

\* t goes to sleep on the condition variable c.
Sleep(t, c) ==
    /\ pc' = [pc EXCEPT ![t] = c]
    /\ UNCHANGED ret

\* m_n_waiters once t, which came out of s_wait_io_ready or not, has left it.
WaitersLeft(t) == IF pc[t] \in {"cond_put", "cond_get"} THEN m_n_waiters - 1 ELSE m_n_waiters

\* t sleeps in s_wait_io_ready: one more waiter.
WaitIO(t, c) ==
    /\ Sleep(t, c)
    /\ m_n_waiters' = WaitersLeft(t) + 1

\* t leaves the call with result r.
Leave(t, r) ==
    /\ Finish(t, r)
    /\ m_n_waiters' = WaitersLeft(t)

-----------------------------------------------------------------------------
(* Putting and getting.                                                    *)

\* One pass of s_put_n over the label check_inf / check_to, or its only pass
\* when nsec is zero.
PutPass(t, c, d) ==
    /\ call' = [call EXCEPT ![t] = c]
    /\ UNCHANGED <<got, freed, m_is_operational, m_is_awakened>>
    /\ \/ /\ ~m_is_operational
          /\ Leave(t, NOT_OPERATIONAL)
          /\ n_copied' = [n_copied EXCEPT ![t] = d]
          /\ woken' = NotifyFrom(t, {})
          /\ UNCHANGED ring
       \/ /\ m_is_operational
          /\ LET k == CopyinCount(c.n - d) IN
             /\ s_copyin(c.vals, d, k)
             /\ n_copied' = [n_copied EXCEPT ![t] = d + k]
             /\ woken' = NotifyFrom(t, IF k > 0 THEN {"cond_get"} ELSE {})
             /\ IF c.mode = "zero" \/ d + k >= c.n
                THEN Leave(t, d + k)
                ELSE IF m_n_elements + k >= MaxElems
                THEN WaitIO(t, "cond_put")
                ELSE Leave(t, ANY_FAILURES)

\* How many elements satisfy a get or a peek that may wait.
Enough(c) == IF c.mode = "timed" THEN c.least ELSE c.n

\* One pass of s_get_n, do_incr being false for a peek.
GetPass(t, c, d) ==
    /\ call' = [call EXCEPT ![t] = c]
    /\ UNCHANGED <<freed, m_is_operational, m_is_awakened>>
    /\ \/ /\ ~m_is_operational
          /\ Leave(t, NOT_OPERATIONAL)
          /\ n_copied' = [n_copied EXCEPT ![t] = d]
          /\ woken' = NotifyFrom(t, {})
          /\ UNCHANGED <<ring, got>>
       \/ /\ m_is_operational
          /\ LET k == CopyoutCount(c.n - d)
                 do_incr == c.op = "get"
             IN
             /\ s_copyout(k, do_incr)
             /\ n_copied' = [n_copied EXCEPT ![t] = d + k]
             /\ got' = [got EXCEPT ![t] = @ \o CopyoutData(k)]
             /\ woken' = NotifyFrom(t, IF k > 0 /\ do_incr THEN {"cond_put"} ELSE {})
             /\ IF c.mode = "zero" \/ d + k >= Enough(c)
                THEN Leave(t, d + k)
                ELSE IF m_n_elements' < 1
                THEN WaitIO(t, "cond_get")
                ELSE Leave(t, ANY_FAILURES)

\* gallus_cbuffer_put_n (and put, which is put_n of one element) of n new values.
Put(t, mode, n) ==
    /\ pc[t] = "idle"
    /\ made + n <= MaxVals
    /\ made' = made + n
    /\ PutPass(t, [op |-> "put", mode |-> mode, n |-> n, least |-> 0,
                   vals |-> [i \in 1 .. n |-> made + i]], 0)

\* gallus_cbuffer_get_n, peek_n and their one-element forms.
Get(t, op, mode, n, least) ==
    /\ pc[t] = "idle"
    /\ GetPass(t, [op |-> op, mode |-> mode, n |-> n, least |-> least, vals |-> <<>>], 0)
    /\ UNCHANGED made

-----------------------------------------------------------------------------
(* Waiting without moving elements.                                        *)

\* gallus_cbuffer_wait_gettable and gallus_cbuffer_wait_puttable, which
\* return avail when it is positive and sleep on c otherwise.
WaitReady(t, op, mode, c, avail) ==
    /\ pc[t] = "idle"
    /\ call' = [call EXCEPT ![t] = PlainCall(op, mode)]
    /\ IF avail > 0 \/ mode = "zero" THEN Leave(t, avail) ELSE WaitIO(t, c)
    /\ woken' = NotifyFrom(t, {})
    /\ UNCHANGED <<ring, m_is_operational, m_is_awakened, n_copied, got, made, freed>>

WaitGettable(t, mode) == WaitReady(t, "wait_gettable", mode, "cond_get", m_n_elements)
WaitPuttable(t, mode) ==
    WaitReady(t, "wait_puttable", mode, "cond_put", MaxElems - m_n_elements)

-----------------------------------------------------------------------------
(* Coming back from s_wait_io_ready.                                       *)

WaitsIO(t) == pc[t] \in {"cond_put", "cond_get"}

\* The wait ended by a wakeup request: the last waiter out, or any waiter of
\* a shut down buffer, clears the request and releases the waker.
AwakenedExit(t) ==
    /\ WaitsIO(t)
    /\ woken[t] = "ok"
    /\ m_is_awakened
    /\ LET clears == ~m_is_operational \/ WaitersLeft(t) = 0 IN
       /\ m_is_awakened' = ~clears
       /\ woken' = NotifyFrom(t, IF clears THEN {"cond_awakened"} ELSE {})
    /\ Leave(t, IF m_is_operational THEN WAKEUP_REQUESTED ELSE NOT_OPERATIONAL)
    /\ UNCHANGED <<ring, m_is_operational, call, n_copied, got, made, freed>>

\* The wait returned TIMEDOUT, or it returned OK and the remaining time to of
\* a put or a get is used up.
TimedOutExit(t) ==
    /\ WaitsIO(t)
    /\ \/ woken[t] = "timedout"
       \/ /\ woken[t] = "ok"
          /\ ~m_is_awakened
          /\ call[t].mode = "timed"
          /\ call[t].op \in {"put", "get", "peek"}
    /\ woken' = NotifyFrom(t, {})
    /\ Leave(t, TIMEDOUT)
    /\ UNCHANGED <<ring, m_is_operational, m_is_awakened, call, n_copied, got, made, freed>>

\* The wait returned OK: a put or a get makes another pass, a plain wait
\* reports what it sees now.
Recheck(t) ==
    /\ WaitsIO(t)
    /\ woken[t] = "ok"
    /\ ~m_is_awakened
    /\ UNCHANGED made
    /\ \/ call[t].op = "put" /\ PutPass(t, call[t], n_copied[t])
       \/ call[t].op \in {"get", "peek"} /\ GetPass(t, call[t], n_copied[t])
       \/ /\ call[t].op \in {"wait_gettable", "wait_puttable"}
          /\ Leave(t, IF call[t].op = "wait_gettable" THEN m_n_elements
                                                      ELSE MaxElems - m_n_elements)
          /\ woken' = NotifyFrom(t, {})
          /\ UNCHANGED <<ring, m_is_operational, m_is_awakened, call, n_copied, got, freed>>

-----------------------------------------------------------------------------
(* gallus_cbuffer_wakeup.                                                  *)

Wakeup(t, mode) ==
    /\ pc[t] = "idle"
    /\ call' = [call EXCEPT ![t] = PlainCall("wakeup", mode)]
    /\ UNCHANGED <<ring, m_n_waiters, m_is_operational, n_copied, got, made, freed>>
    /\ IF m_n_waiters > 0 /\ m_is_operational /\ ~m_is_awakened
       THEN /\ m_is_awakened' = TRUE
            /\ woken' = NotifyFrom(t, {"cond_get", "cond_put"})
            /\ IF mode = "zero" THEN Finish(t, OK) ELSE Sleep(t, "cond_awakened")
       ELSE /\ Finish(t, IF m_n_waiters = 0 \/ m_is_operational THEN OK ELSE NOT_OPERATIONAL)
            /\ woken' = NotifyFrom(t, {})
            /\ UNCHANGED m_is_awakened

\* The waker comes back from its wait: the label recheck.
WakerRecheck(t) ==
    /\ pc[t] = "cond_awakened"
    /\ woken[t] # "no"
    /\ woken' = NotifyFrom(t, {})
    /\ IF woken[t] = "timedout" THEN Finish(t, TIMEDOUT)
       ELSE IF ~m_is_operational THEN Finish(t, NOT_OPERATIONAL)
       ELSE IF m_is_awakened THEN Sleep(t, "cond_awakened")
       ELSE Finish(t, OK)
    /\ UNCHANGED <<ring, flags, call, n_copied, got, made, freed>>

-----------------------------------------------------------------------------
(* Emptying and closing.                                                   *)

\* Mutant: the putters are not told about the room.
Clear_Silent(free_values) ==
    /\ s_clean(free_values)
    /\ UNCHANGED <<flags, pc, woken, call, n_copied, got, ret, made>>

\* gallus_cbuffer_clear.
Clear(free_values) ==
    /\ s_clean(free_values)
    /\ woken' = Notify({"cond_put"})
    /\ UNCHANGED <<flags, pc, call, n_copied, got, ret, made>>

\* Mutant: the putters are forgotten.
Shutdown_GettersOnly(free_values) ==
    /\ m_is_operational
    /\ m_is_operational' = FALSE
    /\ s_clean(free_values)
    /\ woken' = Notify({"cond_get", "cond_awakened"})
    /\ UNCHANGED <<m_n_waiters, m_is_awakened, pc, call, n_copied, got, ret, made>>

\* gallus_cbuffer_shutdown; on a buffer that is down it does nothing.
Shutdown(free_values) ==
    /\ m_is_operational
    /\ m_is_operational' = FALSE
    /\ s_clean(free_values)
    /\ woken' = Notify(Conds)
    /\ UNCHANGED <<m_n_waiters, m_is_awakened, pc, call, n_copied, got, ret, made>>

-----------------------------------------------------------------------------
(* The environment.                                                        *)

\* The caller takes the result and may call again.
Return(t) ==
    /\ pc[t] = "done"
    /\ pc' = [pc EXCEPT ![t] = "idle"]
    /\ call' = [call EXCEPT ![t] = NoCall]
    /\ n_copied' = [n_copied EXCEPT ![t] = 0]
    /\ got' = [got EXCEPT ![t] = <<>>]
    /\ ret' = [ret EXCEPT ![t] = NoResult]
    /\ UNCHANGED <<ring, flags, woken, made, freed>>

\* The timer of pthread_cond_timedwait expires.
Expire(t) ==
    /\ Asleep(t)
    /\ call[t].mode = "timed"
    /\ woken' = [woken EXCEPT ![t] = "timedout"]
    /\ UNCHANGED <<ring, flags, pc, call, n_copied, got, ret, made, freed>>

\* pthread_cond_wait may return although nobody notified.
SpuriousWakeup(t) ==
    /\ t \in Spurious
    /\ Asleep(t)
    /\ woken' = [woken EXCEPT ![t] = "ok"]
    /\ UNCHANGED <<ring, flags, pc, call, n_copied, got, ret, made, freed>>

\* The sleeper is cancelled: gallus_cbuffer_cancel_janitor unlocks, and the
\* code of s_wait_io_ready that follows gallus_cond_wait never runs.
Cancel(t) ==
    /\ t \in Cancelable
    /\ pc[t] \in Conds
    /\ pc' = [pc EXCEPT ![t] = "gone"]
    /\ woken' = [woken EXCEPT ![t] = "no"]
    /\ call' = [call EXCEPT ![t] = NoCall]
    /\ n_copied' = [n_copied EXCEPT ![t] = 0]
    /\ got' = [got EXCEPT ![t] = <<>>]
    /\ UNCHANGED <<ring, flags, ret, made, freed>>

-----------------------------------------------------------------------------
Resume(t) == AwakenedExit(t) \/ TimedOutExit(t) \/ Recheck(t) \/ WakerRecheck(t)

CallStep(t) ==
    \/ \E mode \in Modes :
          \/ "put" \in Ops[t] /\ \E n \in 1 .. MaxReq : Put(t, mode, n)
          \/ /\ "get" \in Ops[t]
             /\ \E n \in 1 .. MaxReq, least \in 0 .. MaxReq :
                   least <= n /\ (mode # "timed" => least = 0) /\ Get(t, "get", mode, n, least)
          \/ /\ "peek" \in Ops[t]
             /\ \E n \in 1 .. PeekReq, least \in 0 .. PeekReq :
                   least <= n /\ (mode # "timed" => least = 0) /\ Get(t, "peek", mode, n, least)
          \/ "wait_gettable" \in Ops[t] /\ WaitGettable(t, mode)
          \/ "wait_puttable" \in Ops[t] /\ WaitPuttable(t, mode)
          \/ "wakeup" \in Ops[t] /\ Wakeup(t, mode)

Next ==
    \/ \E t \in Threads : \/ CallStep(t)
                          \/ Resume(t)
                          \/ Return(t)
                          \/ Expire(t)
                          \/ SpuriousWakeup(t)
                          \/ Cancel(t)
    \/ \E free_values \in FreeValues : Clear(free_values) \/ Shutdown(free_values)

Spec == Init /\ [][Next]_vars

\* The lock is granted to a thread that got up, a timer set does expire, and a
\* call that has its result returns; no caller is obliged to call.
Fairness ==
    \A t \in Threads : WF_vars(Resume(t)) /\ WF_vars(Return(t)) /\ WF_vars(Expire(t))

FairSpec == Spec /\ Fairness

-----------------------------------------------------------------------------
(* Properties.                                                             *)

Callers == {"put", "get", "peek", "wait_gettable", "wait_puttable", "wakeup"}

\* The state has its type; m_n_elements stays within the capacity although
\* one more slot than the capacity is allocated.
TypeOK ==
    /\ m_r_idx \in Int
    /\ m_w_idx \in Int
    /\ m_n_elements \in 0 .. MaxElems
    /\ m_data \in [Slots -> 0 .. MaxVals]
    /\ m_n_waiters \in Int
    /\ m_is_operational \in BOOLEAN
    /\ m_is_awakened \in BOOLEAN
    /\ pc \in [Threads -> {"idle", "done", "gone"} \cup Conds]
    /\ woken \in [Threads -> {"no", "ok", "timedout"}]
    /\ call \in [Threads -> [op : Callers \cup {"none"}, mode : {"zero", "inf", "timed"},
                             n : Nat, least : Nat, vals : Seq(1 .. MaxVals)]]
    /\ n_copied \in [Threads -> Nat]
    /\ got \in [Threads -> Seq(0 .. MaxVals)]
    /\ ret \in [Threads -> Int]
    /\ made \in 0 .. MaxVals
    /\ freed \subseteq 0 .. MaxVals

\* The element count s_copyin and s_copyout decide by and the two indices they
\* copy by never disagree, whatever puts, gets, clears and shutdowns do.
RingConsistent ==
    m_w_idx >= 0 => /\ m_r_idx >= 0
                    /\ m_w_idx - m_r_idx = m_n_elements

\* No lost wakeup: a thread left asleep in a put sleeps because the buffer is
\* full, one left asleep in a get or a peek because it is empty, and neither
\* sleeps on a buffer that was shut down.
SleepersHaveReason ==
    \A t \in Threads :
        Asleep(t) =>
            /\ pc[t] = "cond_put" => m_is_operational /\ m_n_elements = MaxElems
            /\ pc[t] = "cond_get" => m_n_elements = 0
            /\ call[t].op \in {"get", "peek", "wakeup"} => m_is_operational

\* m_n_waiters, by which the last waiter out decides to release the waker, is
\* the number of threads inside s_wait_io_ready.
WaitersCounted == m_n_waiters = Cardinality({t \in Threads : WaitsIO(t)})

\* The abstract queue: the elements from m_r_idx on, the values a call still
\* has to put, and what a call has got.
Queue == INSTANCE BoundedQueue WITH
    q <- [i \in 1 .. m_n_elements |-> m_data[s_data_addr(s_adjust_r + i - 1)]],
    in <- [t \in Threads |-> SubSeq(call[t].vals, n_copied[t] + 1, Len(call[t].vals))],
    out <- got,
    submitted <- made,
    open <- m_is_operational

\* The ring, its locks and its waiting implement the abstract queue: values come
\* out once, in the order they went in, and are freed only while queued.
ImplementsQueue == Queue!Spec

\* Shutting down releases every thread blocked in a put, a get, a peek or a wakeup.
ShutdownReleases ==
    \A t \in Threads :
        (pc[t] \in Conds /\ call[t].op \in {"put", "get", "peek", "wakeup"} /\ ~m_is_operational)
            ~> (pc[t] \notin Conds)

\* A waker without a time limit learns that the waiters have left.  False of the code,
\* and in no run.
WakerReleased ==
    \A t \in Threads : (pc[t] = "cond_awakened") ~> (pc[t] # "cond_awakened")

=============================================================================
