--------------------------- MODULE CBufferProofs ---------------------------
(***************************************************************************)
(* Proofs about the circular buffer for any number of threads, any         *)
(* capacity and any number of values.                                      *)
(***************************************************************************)
EXTENDS CBuffer, FiniteSetTheorems, SequenceTheorems, TLAPS

CallType == [op : Callers \cup {"none"}, mode : {"zero", "inf", "timed"},
             n : Nat, least : Nat, vals : Seq(1 .. MaxVals)]

\* What the calls in progress satisfy: no call has copied more than it was
\* asked for, and a put brings exactly the values it was asked to put.
CallFits(c) == c.op = "put" => Len(c.vals) = c.n

CallsFit ==
    \A t \in Threads : /\ n_copied[t] <= call[t].n
                       /\ CallFits(call[t])
                       /\ pc[t] = "idle" => n_copied[t] = 0

TypeInv == TypeOK /\ CallsFit

-----------------------------------------------------------------------------
(* Lemmas about the operators.                                             *)

\* A remainder is a slot number.
LEMMA ModRange ==
    ASSUME NEW a \in Int, NEW b \in Nat \ {0}
    PROVE  a % b \in 0 .. b - 1
BY SMT

LEMMA AllocdNat == Allocd \in Nat \ {0} /\ MaxElems \in Nat \ {0} /\ Allocd = MaxElems + 1
BY CBufferAssumption DEF Allocd, N_EMPTY_ROOM

\* An element of a sequence.
LEMMA SeqElement ==
    ASSUME NEW S, NEW seq \in Seq(S), NEW j \in 1 .. Len(seq)
    PROVE  seq[j] \in S
OBVIOUS

\* s_adjust_indices yields integers.
LEMMA AdjustType ==
    ASSUME TypeOK
    PROVE  s_adjust_w \in Int /\ s_adjust_r \in Int
<1>1. m_r_idx \in Int /\ m_w_idx \in Int
  BY DEF TypeOK
<1>2. m_r_idx % Allocd \in 0 .. Allocd - 1
  BY <1>1, AllocdNat, ModRange
<1> QED
  BY <1>1, <1>2, AllocdNat DEF s_adjust_w, s_adjust_r

\* s_copyin moves at most what is asked and what there is room for, and never a
\* negative amount.
LEMMA CopyinCountRange ==
    ASSUME TypeOK, NEW n \in Nat
    PROVE  /\ CopyinCount(n) \in 0 .. n
           /\ m_n_elements + CopyinCount(n) \in 0 .. MaxElems
           /\ CopyinCount(n) < n => m_n_elements + CopyinCount(n) = MaxElems
BY AllocdNat DEF TypeOK, CopyinCount, Lesser

\* s_copyout moves at most what is asked and what there is.
LEMMA CopyoutCountRange ==
    ASSUME TypeOK, NEW n \in Nat
    PROVE  /\ CopyoutCount(n) \in 0 .. n
           /\ m_n_elements - CopyoutCount(n) \in 0 .. MaxElems
           /\ CopyoutCount(n) < n => m_n_elements - CopyoutCount(n) = 0
BY AllocdNat DEF TypeOK, CopyoutCount, Lesser

\* The slots hold values after the memcpy of s_copyin.
LEMMA CopyinDataType ==
    ASSUME TypeOK, NEW vals \in Seq(1 .. MaxVals), NEW d \in Nat, NEW k \in Nat,
           d + k <= Len(vals)
    PROVE  CopyinData(vals, d, k) \in [Slots -> 0 .. MaxVals]
<1> SUFFICES ASSUME NEW s \in Slots
             PROVE  LET i == ((s - s_adjust_w) % Allocd) + 1
                    IN  (IF i <= k THEN vals[d + i] ELSE m_data[s]) \in 0 .. MaxVals
  BY DEF CopyinData
<1> DEFINE i == ((s - s_adjust_w) % Allocd) + 1
<1>1. s - s_adjust_w \in Int
  BY AdjustType, AllocdNat DEF Slots
<1>2. (s - s_adjust_w) % Allocd \in 0 .. Allocd - 1
  BY <1>1, AllocdNat, ModRange
<1>3. i \in Nat \ {0}
  BY <1>2, AllocdNat
<1>4. CASE i <= k
  <2>1. d + i \in 1 .. Len(vals)
    BY <1>3, <1>4
  <2>2. vals[d + i] \in 1 .. MaxVals
    BY <2>1, SeqElement
  <2> QED
    BY <2>2, <1>4, CBufferAssumption
<1>5. CASE ~(i <= k)
  BY <1>5 DEF TypeOK
<1> QED
  BY <1>4, <1>5

\* What s_copyout hands out are values.
LEMMA CopyoutDataType ==
    ASSUME TypeOK, NEW k \in Nat
    PROVE  CopyoutData(k) \in Seq(0 .. MaxVals)
<1>1. ASSUME NEW i \in 1 .. k
      PROVE  m_data[s_data_addr(s_adjust_r + i - 1)] \in 0 .. MaxVals
  <2>1. s_adjust_r + i - 1 \in Int
    BY AdjustType
  <2>2. s_data_addr(s_adjust_r + i - 1) \in Slots
    BY <2>1, AllocdNat, ModRange DEF s_data_addr, Slots
  <2> QED
    BY <2>2 DEF TypeOK
<1> QED
  BY <1>1 DEF CopyoutData

\* Notifying keeps the type.
LEMMA NotifyType ==
    ASSUME TypeOK, NEW conds
    PROVE  Notify(conds) \in [Threads -> {"no", "ok", "timedout"}]
BY DEF TypeOK, Notify

LEMMA NotifyFromType ==
    ASSUME TypeOK, NEW t \in Threads, NEW conds
    PROVE  NotifyFrom(t, conds) \in [Threads -> {"no", "ok", "timedout"}]
BY NotifyType DEF NotifyFrom

\* What leaving a call or going to sleep in it does to the control state.
MovesTo(t, to) ==
    /\ pc' \in [Threads -> {"idle", "done", "gone"} \cup Conds]
    /\ ret' \in [Threads -> Int]
    /\ pc'[t] = to
    /\ \A u \in Threads \ {t} : pc'[u] = pc[u]

LEMMA FinishType ==
    ASSUME TypeOK, NEW t \in Threads, NEW r \in Int, Finish(t, r)
    PROVE  MovesTo(t, "done")
BY DEF TypeOK, Finish, MovesTo

LEMMA SleepType ==
    ASSUME TypeOK, NEW t \in Threads, NEW c \in Conds, Sleep(t, c)
    PROVE  MovesTo(t, c)
<1>1. pc' = [pc EXCEPT ![t] = c] /\ ret' = ret
  BY DEF Sleep
<1>2. pc' \in [Threads -> {"idle", "done", "gone"} \cup Conds]
  BY <1>1 DEF TypeOK
<1>3. pc'[t] = c /\ \A u \in Threads \ {t} : pc'[u] = pc[u]
  BY <1>1 DEF TypeOK
<1> QED
  BY <1>1, <1>2, <1>3 DEF TypeOK, MovesTo

LEMMA LeaveType ==
    ASSUME TypeOK, NEW t \in Threads, NEW r \in Int, Leave(t, r)
    PROVE  MovesTo(t, "done") /\ m_n_waiters' \in Int
<1>1. MovesTo(t, "done")
  BY FinishType DEF Leave
<1>2. m_n_waiters' \in Int
  BY DEF TypeOK, Leave, WaitersLeft
<1> QED
  BY <1>1, <1>2

LEMMA WaitIOType ==
    ASSUME TypeOK, NEW t \in Threads, NEW c \in Conds, WaitIO(t, c)
    PROVE  MovesTo(t, c) /\ m_n_waiters' \in Int
<1>1. MovesTo(t, c)
  BY SleepType DEF WaitIO
<1>2. m_n_waiters' \in Int
  BY DEF TypeOK, WaitIO, WaitersLeft
<1> QED
  BY <1>1, <1>2

LEMMA ResultsAreInts ==
    /\ OK \in Int /\ ANY_FAILURES \in Int /\ TIMEDOUT \in Int
    /\ NOT_OPERATIONAL \in Int /\ WAKEUP_REQUESTED \in Int /\ NoResult \in Int
BY DEF OK, ANY_FAILURES, TIMEDOUT, NOT_OPERATIONAL, WAKEUP_REQUESTED, NoResult

\* A pass that leaves t's call c with m elements copied keeps CallsFit.
LEMMA CallsFitStep ==
    ASSUME TypeInv, NEW t \in Threads, NEW to, to # "idle", MovesTo(t, to),
           NEW c \in CallType, CallFits(c), NEW m \in Nat, m <= c.n,
           call' = [call EXCEPT ![t] = c],
           n_copied' = [n_copied EXCEPT ![t] = m]
    PROVE  CallsFit' /\ call' \in [Threads -> CallType] /\ n_copied' \in [Threads -> Nat]
<1>1. call \in [Threads -> CallType] /\ n_copied \in [Threads -> Nat]
  BY DEF TypeInv, TypeOK, CallType
<1>2. call' \in [Threads -> CallType] /\ n_copied' \in [Threads -> Nat]
  BY <1>1
<1>3. ASSUME NEW u \in Threads
      PROVE  /\ n_copied'[u] <= call'[u].n
             /\ CallFits(call'[u])
             /\ pc'[u] = "idle" => n_copied'[u] = 0
  <2>1. CASE u = t
    <3>1. call'[u] = c /\ n_copied'[u] = m /\ pc'[u] = to
      BY <2>1, <1>1 DEF MovesTo
    <3> QED
      BY <3>1
  <2>2. CASE u # t
    <3>1. call'[u] = call[u] /\ n_copied'[u] = n_copied[u] /\ pc'[u] = pc[u]
      BY <2>2, <1>1 DEF MovesTo
    <3> QED
      BY <3>1 DEF TypeInv, CallsFit
  <2> QED
    BY <2>1, <2>2
<1> QED
  BY <1>2, <1>3 DEF CallsFit, CallFits

\* One pass of s_put_n keeps the type invariant.
LEMMA PutPassType ==
    ASSUME TypeInv, NEW t \in Threads, NEW c \in CallType, NEW d \in Nat,
           c.op = "put", CallFits(c), d <= c.n,
           made' \in 0 .. MaxVals, PutPass(t, c, d)
    PROVE  TypeInv'
<1>c. c.n \in Nat /\ c.vals \in Seq(1 .. MaxVals) /\ Len(c.vals) = c.n /\ c.n - d \in Nat
  BY DEF CallType, CallFits
<1>t. TypeOK
  BY DEF TypeInv
<1>1. call' = [call EXCEPT ![t] = c] /\ got' = got /\ freed' = freed
      /\ m_is_operational' = m_is_operational /\ m_is_awakened' = m_is_awakened
  BY DEF PutPass
<1>3. CASE ~m_is_operational
  <2>1. /\ Leave(t, NOT_OPERATIONAL)
        /\ n_copied' = [n_copied EXCEPT ![t] = d]
        /\ woken' = NotifyFrom(t, {})
        /\ UNCHANGED ring
    BY <1>3 DEF PutPass
  <2>2. MovesTo(t, "done") /\ m_n_waiters' \in Int
    BY <2>1, <1>t, LeaveType, ResultsAreInts
  <2>3. woken' \in [Threads -> {"no", "ok", "timedout"}]
    BY <2>1, <1>t, NotifyFromType
  <2>4. CallsFit' /\ call' \in [Threads -> CallType] /\ n_copied' \in [Threads -> Nat]
    BY <2>1, <2>2, <1>1, CallsFitStep
  <2> QED
    BY <2>1, <2>2, <2>3, <2>4, <1>1, <1>t DEF TypeInv, TypeOK, CallType, ring, MovesTo
<1>4. CASE m_is_operational
  <2> DEFINE k == CopyinCount(c.n - d)
  <2>1. /\ s_copyin(c.vals, d, k)
        /\ n_copied' = [n_copied EXCEPT ![t] = d + k]
        /\ woken' = NotifyFrom(t, IF k > 0 THEN {"cond_get"} ELSE {})
        /\ Leave(t, d + k) \/ WaitIO(t, "cond_put") \/ Leave(t, ANY_FAILURES)
    BY <1>4 DEF PutPass
  <2>2. k \in 0 .. c.n - d /\ m_n_elements + k \in 0 .. MaxElems
    BY <1>c, <1>t, CopyinCountRange
  <2> HIDE DEF k
  <2>3. k \in Nat /\ d + k \in Nat /\ d + k <= c.n
    BY <2>2, <1>c
  <2>4. m_data' \in [Slots -> 0 .. MaxVals]
    <3>1. CopyinData(c.vals, d, k) \in [Slots -> 0 .. MaxVals]
      BY <2>3, <1>c, <1>t, CopyinDataType
    <3> QED
      BY <2>1, <1>t, <3>1 DEF s_copyin, TypeOK
  <2>5. m_n_elements' \in 0 .. MaxElems /\ m_w_idx' \in Int /\ m_r_idx' \in Int
    BY <2>1, <2>2, <2>3, <1>t, AdjustType, CBufferAssumption DEF s_copyin, Wrap
  <2>6. /\ MovesTo(t, "done") \/ MovesTo(t, "cond_put")
        /\ m_n_waiters' \in Int
    BY <2>1, <2>3, <1>t, LeaveType, WaitIOType, ResultsAreInts DEF Conds
  <2>7. woken' \in [Threads -> {"no", "ok", "timedout"}]
    BY <2>1, <1>t, NotifyFromType
  <2>8. CallsFit' /\ call' \in [Threads -> CallType] /\ n_copied' \in [Threads -> Nat]
    BY <2>1, <2>3, <2>6, <1>1, CallsFitStep
  <2> QED
    BY <2>4, <2>5, <2>6, <2>7, <2>8, <1>1, <1>t DEF TypeInv, TypeOK, CallType, MovesTo
<1> QED
  BY <1>3, <1>4

\* Concatenation keeps the type of what a call has got.
LEMMA ConcatType ==
    ASSUME NEW S, NEW a \in Seq(S), NEW b \in Seq(S)
    PROVE  a \o b \in Seq(S)
OBVIOUS

\* One pass of s_get_n keeps the type invariant.
LEMMA GetPassType ==
    ASSUME TypeInv, NEW t \in Threads, NEW c \in CallType, NEW d \in Nat,
           c.op \in {"get", "peek"}, d <= c.n,
           made' \in 0 .. MaxVals, GetPass(t, c, d)
    PROVE  TypeInv'
<1>c. c.n \in Nat /\ CallFits(c) /\ c.n - d \in Nat
  BY DEF CallType, CallFits
<1>t. TypeOK
  BY DEF TypeInv
<1>1. call' = [call EXCEPT ![t] = c] /\ freed' = freed
      /\ m_is_operational' = m_is_operational /\ m_is_awakened' = m_is_awakened
  BY DEF GetPass
<1>3. CASE ~m_is_operational
  <2>1. /\ Leave(t, NOT_OPERATIONAL)
        /\ n_copied' = [n_copied EXCEPT ![t] = d]
        /\ woken' = NotifyFrom(t, {})
        /\ UNCHANGED <<ring, got>>
    BY <1>3 DEF GetPass
  <2>2. MovesTo(t, "done") /\ m_n_waiters' \in Int
    BY <2>1, <1>t, LeaveType, ResultsAreInts
  <2>3. woken' \in [Threads -> {"no", "ok", "timedout"}]
    BY <2>1, <1>t, NotifyFromType
  <2>4. CallsFit' /\ call' \in [Threads -> CallType] /\ n_copied' \in [Threads -> Nat]
    BY <2>1, <2>2, <1>1, <1>c, CallsFitStep
  <2> QED
    BY <2>1, <2>2, <2>3, <2>4, <1>1, <1>t DEF TypeInv, TypeOK, CallType, ring, MovesTo
<1>4. CASE m_is_operational
  <2> DEFINE k == CopyoutCount(c.n - d)
             do_incr == c.op = "get"
  <2>1. /\ s_copyout(k, do_incr)
        /\ n_copied' = [n_copied EXCEPT ![t] = d + k]
        /\ got' = [got EXCEPT ![t] = @ \o CopyoutData(k)]
        /\ woken' = NotifyFrom(t, IF k > 0 /\ do_incr THEN {"cond_put"} ELSE {})
        /\ Leave(t, d + k) \/ WaitIO(t, "cond_get") \/ Leave(t, ANY_FAILURES)
    BY <1>4 DEF GetPass
  <2>2. k \in 0 .. c.n - d /\ m_n_elements - k \in 0 .. MaxElems
    BY <1>c, <1>t, CopyoutCountRange
  <2> HIDE DEF k, do_incr
  <2>3. k \in Nat /\ d + k \in Nat /\ d + k <= c.n
    BY <2>2, <1>c
  <2>4. got' \in [Threads -> Seq(0 .. MaxVals)]
    <3>1. CopyoutData(k) \in Seq(0 .. MaxVals) /\ got[t] \in Seq(0 .. MaxVals)
      BY <2>3, <1>t, CopyoutDataType DEF TypeOK
    <3>2. got[t] \o CopyoutData(k) \in Seq(0 .. MaxVals)
      BY <3>1, ConcatType
    <3> QED
      BY <2>1, <1>t, <3>2 DEF TypeOK
  <2>5. /\ m_n_elements' \in 0 .. MaxElems /\ m_w_idx' \in Int /\ m_r_idx' \in Int
        /\ m_data' = m_data
    <3>1. s_adjust_r + k \in Int /\ Wrap(s_adjust_r + k) \in Int
      BY <2>3, <1>t, AdjustType, CBufferAssumption DEF Wrap
    <3>2. CASE do_incr
      BY <3>1, <3>2, <2>1, <2>2, <1>t, AdjustType DEF s_copyout
    <3>3. CASE ~do_incr
      BY <3>1, <3>3, <2>1, <1>t, AdjustType DEF s_copyout, TypeOK
    <3> QED
      BY <3>2, <3>3
  <2>6. /\ MovesTo(t, "done") \/ MovesTo(t, "cond_get")
        /\ m_n_waiters' \in Int
    BY <2>1, <2>3, <1>t, LeaveType, WaitIOType, ResultsAreInts DEF Conds
  <2>7. woken' \in [Threads -> {"no", "ok", "timedout"}]
    BY <2>1, <1>t, NotifyFromType
  <2>8. CallsFit' /\ call' \in [Threads -> CallType] /\ n_copied' \in [Threads -> Nat]
    BY <2>1, <2>3, <2>6, <1>1, <1>c, CallsFitStep
  <2> QED
    BY <2>4, <2>5, <2>6, <2>7, <2>8, <1>1, <1>t DEF TypeInv, TypeOK, CallType, MovesTo
<1> QED
  BY <1>3, <1>4

\* What s_freeup_all_values disposes of are values.
LEMMA FreedValuesType ==
    ASSUME TypeOK
    PROVE  FreedValues \subseteq 0 .. MaxVals
<1> SUFFICES ASSUME NEW i \in s_adjust_r .. s_adjust_w - 1
             PROVE  m_data[s_data_addr(i)] \in 0 .. MaxVals
  BY DEF FreedValues
<1>1. i \in Int
  BY AdjustType
<1>2. s_data_addr(i) \in Slots
  BY <1>1, AllocdNat, ModRange DEF s_data_addr, Slots
<1> QED
  BY <1>2 DEF TypeOK

\* Cleaning keeps the type of the ring.
LEMMA CleanType ==
    ASSUME TypeOK, NEW free_values, s_clean(free_values)
    PROVE  /\ m_r_idx' = 0 /\ m_w_idx' = 0 /\ m_n_elements' = 0
           /\ m_n_elements' \in 0 .. MaxElems
           /\ m_data' \in [Slots -> 0 .. MaxVals]
           /\ freed' \subseteq 0 .. MaxVals
<1>1. m_r_idx' = 0 /\ m_w_idx' = 0 /\ m_n_elements' = 0 /\ m_n_elements' \in 0 .. MaxElems
  BY CBufferAssumption DEF s_clean
<1>2. m_data' \in [Slots -> 0 .. MaxVals]
  BY CBufferAssumption DEF s_clean
<1>3. freed' \subseteq 0 .. MaxVals
  <2>1. freed \subseteq 0 .. MaxVals /\ freed \cup FreedValues \subseteq 0 .. MaxVals
    BY FreedValuesType DEF TypeOK
  <2> QED
    BY <2>1 DEF s_clean
<1> QED
  BY <1>1, <1>2, <1>3

-----------------------------------------------------------------------------
(* The type invariant.                                                     *)

\* A call that asks for no elements.
LEMMA PlainCallType ==
    ASSUME NEW op \in (Callers \cup {"none"}) \ {"put"}, NEW mode \in {"zero", "inf", "timed"}
    PROVE  LET c == PlainCall(op, mode)
           IN  c \in CallType /\ c.n = 0 /\ CallFits(c) /\ c.op = op /\ c.mode = mode
BY DEF PlainCall, CallType, CallFits

LEMMA TypeInit == Init => TypeInv
<1> SUFFICES ASSUME Init PROVE TypeInv
  OBVIOUS
<1>1. NoCall \in CallType /\ NoCall.n = 0 /\ CallFits(NoCall)
  BY PlainCallType DEF NoCall, Callers
<1>2. TypeOK
  <2>1. /\ <<>> \in Seq(0 .. MaxVals)
        /\ 0 \in 0 .. MaxVals /\ 0 \in 0 .. MaxElems
    BY CBufferAssumption
  <2>2. /\ m_data \in [Slots -> 0 .. MaxVals]
        /\ call \in [Threads -> CallType]
        /\ got \in [Threads -> Seq(0 .. MaxVals)]
        /\ ret \in [Threads -> Int]
        /\ n_copied \in [Threads -> Nat]
    BY <2>1, <1>1, ResultsAreInts DEF Init
  <2>3. /\ pc \in [Threads -> {"idle", "done", "gone"} \cup Conds]
        /\ woken \in [Threads -> {"no", "ok", "timedout"}]
    BY DEF Init
  <2>4. m_is_operational \in BOOLEAN /\ m_is_awakened \in BOOLEAN /\ freed \subseteq 0 .. MaxVals
    BY DEF Init
  <2>5. /\ m_r_idx \in Int /\ m_w_idx \in Int /\ m_n_elements \in 0 .. MaxElems
        /\ m_n_waiters \in Int /\ made \in 0 .. MaxVals
    BY <2>1 DEF Init
  <2> QED
    BY <2>2, <2>3, <2>4, <2>5 DEF TypeOK, CallType
<1>3. CallsFit
  BY <1>1 DEF Init, CallsFit
<1> QED
  BY <1>2, <1>3 DEF TypeInv

\* Every step keeps the type invariant.
LEMMA TypeStep == TypeInv /\ [Next]_vars => TypeInv'
<1> SUFFICES ASSUME TypeInv, [Next]_vars PROVE TypeInv'
  OBVIOUS
<1>t. /\ TypeOK
      /\ call \in [Threads -> CallType] /\ n_copied \in [Threads -> Nat]
  BY DEF TypeInv, TypeOK, CallType
<1>1. CASE UNCHANGED vars
  BY <1>1 DEF vars, ring, flags, TypeInv, TypeOK, CallsFit, CallFits
<1>2. ASSUME NEW t \in Threads, NEW mode \in Modes, NEW n \in 1 .. MaxReq, Put(t, mode, n)
      PROVE  TypeInv'
  <2> DEFINE c == [op |-> "put", mode |-> mode, n |-> n, least |-> 0,
                   vals |-> [i \in 1 .. n |-> made + i]]
  <2>1. n \in Nat /\ made' \in 0 .. MaxVals /\ made + n <= MaxVals
    BY <1>2, <1>t, CBufferAssumption DEF Put, TypeOK
  <2>2. c.vals \in Seq(1 .. MaxVals) /\ Len(c.vals) = n
    <3>1. \A i \in 1 .. n : made + i \in 1 .. MaxVals
      BY <2>1, <1>t, CBufferAssumption DEF TypeOK
    <3>2. [i \in 1 .. n |-> made + i] \in Seq(1 .. MaxVals)
      BY <2>1, <3>1
    <3> QED
      BY <2>1, <3>2
  <2>3. c \in CallType /\ CallFits(c) /\ c.op = "put" /\ c.n = n
    BY <2>1, <2>2, CBufferAssumption DEF CallType, CallFits, Callers
  <2>4. PutPass(t, c, 0)
    BY <1>2 DEF Put
  <2> HIDE DEF c
  <2> QED
    BY <2>1, <2>3, <2>4, PutPassType
<1>3. ASSUME NEW t \in Threads, NEW op \in {"get", "peek"}, NEW mode \in Modes,
             NEW n \in Nat, NEW least \in Nat, Get(t, op, mode, n, least)
      PROVE  TypeInv'
  <2> DEFINE c == [op |-> op, mode |-> mode, n |-> n, least |-> least, vals |-> <<>>]
  <2>1. c \in CallType /\ c.op \in {"get", "peek"} /\ c.n = n
    BY CBufferAssumption DEF CallType, Callers
  <2>2. GetPass(t, c, 0) /\ made' \in 0 .. MaxVals
    BY <1>3, <1>t DEF Get, TypeOK
  <2> HIDE DEF c
  <2> QED
    BY <2>1, <2>2, GetPassType
<1>4. ASSUME NEW t \in Threads, NEW op \in {"wait_gettable", "wait_puttable"},
             NEW mode \in Modes, NEW cnd \in Conds, NEW avail \in Int,
             WaitReady(t, op, mode, cnd, avail)
      PROVE  TypeInv'
  <2> DEFINE c == PlainCall(op, mode)
  <2>1. c \in CallType /\ c.n = 0 /\ CallFits(c)
    BY PlainCallType, CBufferAssumption DEF Callers
  <2>2. /\ pc[t] = "idle" /\ call' = [call EXCEPT ![t] = c]
        /\ Leave(t, avail) \/ WaitIO(t, cnd)
        /\ woken' = NotifyFrom(t, {})
        /\ UNCHANGED <<ring, m_is_operational, m_is_awakened, n_copied, got, made, freed>>
    BY <1>4 DEF WaitReady
  <2> HIDE DEF c
  <2>3. n_copied' = [n_copied EXCEPT ![t] = 0]
    BY <2>2, <1>t DEF TypeInv, CallsFit
  <2>4. (MovesTo(t, "done") \/ MovesTo(t, cnd)) /\ m_n_waiters' \in Int
    BY <2>2, <1>t, LeaveType, WaitIOType
  <2>5. CallsFit' /\ call' \in [Threads -> CallType] /\ n_copied' \in [Threads -> Nat]
    <3>1. cnd # "idle"
      BY DEF Conds
    <3> QED
      BY <2>1, <2>2, <2>3, <2>4, <3>1, 0 <= c.n, 0 \in Nat, CallsFitStep
  <2>6. woken' \in [Threads -> {"no", "ok", "timedout"}]
    BY <2>2, <1>t, NotifyFromType
  <2> QED
    BY <2>2, <2>4, <2>5, <2>6, <1>t DEF TypeInv, TypeOK, CallType, MovesTo, ring
<1>5. ASSUME NEW t \in Threads, NEW mode \in Modes, Wakeup(t, mode)
      PROVE  TypeInv'
  <2> DEFINE c == PlainCall("wakeup", mode)
  <2>1. c \in CallType /\ c.n = 0 /\ CallFits(c)
    BY PlainCallType, CBufferAssumption DEF Callers
  <2>2. /\ pc[t] = "idle" /\ call' = [call EXCEPT ![t] = c]
        /\ Finish(t, OK) \/ Finish(t, NOT_OPERATIONAL) \/ Sleep(t, "cond_awakened")
        /\ woken' = NotifyFrom(t, {"cond_get", "cond_put"}) \/ woken' = NotifyFrom(t, {})
        /\ m_is_awakened' \in {TRUE, m_is_awakened}
        /\ UNCHANGED <<ring, m_n_waiters, m_is_operational, n_copied, got, made, freed>>
    BY <1>5 DEF Wakeup
  <2> HIDE DEF c
  <2>3. n_copied' = [n_copied EXCEPT ![t] = 0]
    BY <2>2, <1>t DEF TypeInv, CallsFit
  <2>4. MovesTo(t, "done") \/ MovesTo(t, "cond_awakened")
    BY <2>2, <1>t, FinishType, SleepType, ResultsAreInts DEF Conds
  <2>5. CallsFit' /\ call' \in [Threads -> CallType] /\ n_copied' \in [Threads -> Nat]
    BY <2>1, <2>2, <2>3, <2>4, 0 <= c.n, 0 \in Nat, CallsFitStep
  <2>6. woken' \in [Threads -> {"no", "ok", "timedout"}]
    BY <2>2, <1>t, NotifyFromType
  <2> QED
    BY <2>2, <2>4, <2>5, <2>6, <1>t DEF TypeInv, TypeOK, CallType, MovesTo, ring
<1>6. ASSUME NEW t \in Threads, NEW r \in Int, MovesTo(t, "done") \/ MovesTo(t, "cond_awakened"),
             m_n_waiters' \in Int, m_is_awakened' \in BOOLEAN,
             woken' \in [Threads -> {"no", "ok", "timedout"}],
             UNCHANGED <<ring, m_is_operational, call, n_copied, got, made, freed>>
      PROVE  TypeInv'
  <2>1. /\ call[t] \in CallType /\ CallFits(call[t])
        /\ n_copied[t] \in Nat /\ n_copied[t] <= call[t].n
    BY <1>t DEF TypeInv, CallsFit
  <2>2. call' = [call EXCEPT ![t] = call[t]] /\ n_copied' = [n_copied EXCEPT ![t] = n_copied[t]]
    BY <1>6, <1>t
  <2>3. CallsFit' /\ call' \in [Threads -> CallType] /\ n_copied' \in [Threads -> Nat]
    BY <2>1, <2>2, <1>6, CallsFitStep
  <2> QED
    BY <2>3, <1>6, <1>t DEF TypeInv, TypeOK, CallType, MovesTo, ring
<1>7. ASSUME NEW t \in Threads, AwakenedExit(t)
      PROVE  TypeInv'
  <2>1. MovesTo(t, "done") /\ m_n_waiters' \in Int
    BY <1>7, <1>t, LeaveType, ResultsAreInts DEF AwakenedExit
  <2>2. woken' \in [Threads -> {"no", "ok", "timedout"}] /\ m_is_awakened' \in BOOLEAN
    BY <1>7, <1>t, NotifyFromType DEF AwakenedExit
  <2> QED
    BY <1>6, <1>7, <2>1, <2>2 DEF AwakenedExit
<1>8. ASSUME NEW t \in Threads, TimedOutExit(t)
      PROVE  TypeInv'
  <2>1. MovesTo(t, "done") /\ m_n_waiters' \in Int
    BY <1>8, <1>t, LeaveType, ResultsAreInts DEF TimedOutExit
  <2>2. woken' \in [Threads -> {"no", "ok", "timedout"}] /\ m_is_awakened' \in BOOLEAN
    BY <1>8, <1>t, NotifyFromType DEF TimedOutExit, TypeOK
  <2> QED
    BY <1>6, <1>8, <2>1, <2>2 DEF TimedOutExit
<1>9. ASSUME NEW t \in Threads, Recheck(t)
      PROVE  TypeInv'
  <2>1. /\ call[t] \in CallType /\ CallFits(call[t]) /\ made' \in 0 .. MaxVals
        /\ n_copied[t] \in Nat /\ n_copied[t] <= call[t].n
    BY <1>9, <1>t DEF TypeInv, TypeOK, CallsFit, Recheck
  <2>2. CASE call[t].op = "put" /\ PutPass(t, call[t], n_copied[t])
    BY <2>1, <2>2, PutPassType
  <2>3. CASE call[t].op \in {"get", "peek"} /\ GetPass(t, call[t], n_copied[t])
    BY <2>1, <2>3, GetPassType
  <2>4. CASE /\ call[t].op \in {"wait_gettable", "wait_puttable"}
             /\ Leave(t, IF call[t].op = "wait_gettable" THEN m_n_elements
                                                         ELSE MaxElems - m_n_elements)
             /\ woken' = NotifyFrom(t, {})
             /\ UNCHANGED <<ring, m_is_operational, m_is_awakened, call, n_copied, got, freed>>
    <3>1. MovesTo(t, "done") /\ m_n_waiters' \in Int
      <4>1. m_n_elements \in Int /\ MaxElems - m_n_elements \in Int
        BY <1>t, CBufferAssumption DEF TypeOK
      <4> QED
        BY <4>1, <2>4, <1>t, LeaveType
    <3>2. woken' \in [Threads -> {"no", "ok", "timedout"}] /\ m_is_awakened' \in BOOLEAN
      BY <2>4, <1>t, NotifyFromType DEF TypeOK
    <3> QED
      BY <1>6, <1>9, <2>4, <3>1, <3>2 DEF Recheck
  <2> QED
    BY <1>9, <2>2, <2>3, <2>4 DEF Recheck
<1>10. ASSUME NEW t \in Threads, WakerRecheck(t)
       PROVE  TypeInv'
  <2>1. MovesTo(t, "done") \/ MovesTo(t, "cond_awakened")
    BY <1>10, <1>t, FinishType, SleepType, ResultsAreInts DEF WakerRecheck, Conds
  <2>2. /\ woken' \in [Threads -> {"no", "ok", "timedout"}] /\ m_is_awakened' \in BOOLEAN
        /\ m_n_waiters' \in Int
    BY <1>10, <1>t, NotifyFromType DEF WakerRecheck, TypeOK, flags
  <2> QED
    BY <1>6, <1>10, <2>1, <2>2 DEF WakerRecheck, flags
<1>11. ASSUME NEW t \in Threads, NEW to \in {"idle", "gone"},
              pc' = [pc EXCEPT ![t] = to],
              call' = [call EXCEPT ![t] = NoCall],
              n_copied' = [n_copied EXCEPT ![t] = 0],
              got' = [got EXCEPT ![t] = <<>>],
              ret' \in [Threads -> Int], woken' \in [Threads -> {"no", "ok", "timedout"}],
              UNCHANGED <<ring, flags, made, freed>>
       PROVE  TypeInv'
  <2>1. NoCall \in CallType /\ NoCall.n = 0 /\ CallFits(NoCall)
    BY PlainCallType DEF NoCall, Callers
  <2>2. call' \in [Threads -> CallType] /\ n_copied' \in [Threads -> Nat]
    BY <2>1, <1>11, <1>t
  <2>3. ASSUME NEW u \in Threads
        PROVE  /\ n_copied'[u] <= call'[u].n
               /\ CallFits(call'[u])
               /\ pc'[u] = "idle" => n_copied'[u] = 0
    <3>1. CASE u = t
      <4>1. call'[u] = NoCall /\ n_copied'[u] = 0
        BY <3>1, <1>11, <1>t
      <4> QED
        BY <4>1, <2>1
    <3>2. CASE u # t
      <4>1. call'[u] = call[u] /\ n_copied'[u] = n_copied[u] /\ pc'[u] = pc[u]
        BY <3>2, <1>11, <1>t DEF TypeOK
      <4> QED
        BY <4>1 DEF TypeInv, CallsFit
    <3> QED
      BY <3>1, <3>2
  <2>4. CallsFit'
    BY <2>3 DEF CallsFit, CallFits
  <2>5. pc' \in [Threads -> {"idle", "done", "gone"} \cup Conds]
        /\ got' \in [Threads -> Seq(0 .. MaxVals)]
    BY <1>11, <1>t DEF TypeOK
  <2> QED
    BY <2>2, <2>4, <2>5, <1>11, <1>t DEF TypeInv, TypeOK, CallType, ring, flags
<1>12. ASSUME NEW t \in Threads, Return(t)
       PROVE  TypeInv'
  <2>1. ret' \in [Threads -> Int] /\ woken' \in [Threads -> {"no", "ok", "timedout"}]
    BY <1>12, <1>t, ResultsAreInts DEF Return, TypeOK
  <2> QED
    BY <1>11, <1>12, <2>1 DEF Return
<1>13. ASSUME NEW t \in Threads, Cancel(t)
       PROVE  TypeInv'
  <2>1. ret' \in [Threads -> Int] /\ woken' \in [Threads -> {"no", "ok", "timedout"}]
    BY <1>13, <1>t DEF Cancel, TypeOK
  <2> QED
    BY <1>11, <1>13, <2>1 DEF Cancel
<1>14. ASSUME NEW t \in Threads, Expire(t) \/ SpuriousWakeup(t)
       PROVE  TypeInv'
  <2>1. /\ woken' \in [Threads -> {"no", "ok", "timedout"}]
        /\ UNCHANGED <<ring, flags, pc, call, n_copied, got, ret, made, freed>>
    BY <1>14, <1>t DEF Expire, SpuriousWakeup, TypeOK
  <2> QED
    BY <2>1 DEF TypeInv, TypeOK, CallsFit, CallFits, ring, flags
<1>15. ASSUME NEW free_values \in BOOLEAN, Clear(free_values) \/ Shutdown(free_values)
       PROVE  TypeInv'
  <2>1. /\ s_clean(free_values)
        /\ woken' = Notify({"cond_put"}) \/ woken' = Notify(Conds)
        /\ m_is_operational' \in {FALSE, m_is_operational}
        /\ UNCHANGED <<m_n_waiters, m_is_awakened, pc, call, n_copied, got, ret, made>>
    BY <1>15 DEF Clear, Shutdown, flags
  <2>2. woken' \in [Threads -> {"no", "ok", "timedout"}]
    BY <2>1, <1>t, NotifyType
  <2>3. /\ m_r_idx' = 0 /\ m_w_idx' = 0
        /\ m_n_elements' \in 0 .. MaxElems
        /\ m_data' \in [Slots -> 0 .. MaxVals]
        /\ freed' \subseteq 0 .. MaxVals
    BY <2>1, <1>t, CleanType
  <2>6. m_is_operational' \in BOOLEAN
    BY <2>1, <1>t DEF TypeOK
  <2>5. TypeOK'
    BY <2>1, <2>2, <2>3, <2>6, <1>t DEF TypeOK
  <2>4. CallsFit'
    BY <2>1 DEF TypeInv, CallsFit, CallFits
  <2> QED
    BY <2>4, <2>5 DEF TypeInv
<1>16. ASSUME NEW t \in Threads, CallStep(t)
       PROVE  TypeInv'
  <2>1. PICK mode \in Modes :
          \/ \E n \in 1 .. MaxReq : Put(t, mode, n)
          \/ \E n \in Nat, least \in Nat, op \in {"get", "peek"} : Get(t, op, mode, n, least)
          \/ WaitGettable(t, mode)
          \/ WaitPuttable(t, mode)
          \/ Wakeup(t, mode)
    BY <1>16, CBufferAssumption DEF CallStep
  <2>2. m_n_elements \in Int /\ MaxElems - m_n_elements \in Int
    BY <1>t, CBufferAssumption DEF TypeOK
  <2> QED
    BY <2>1, <2>2, <1>2, <1>3, <1>4, <1>5 DEF WaitGettable, WaitPuttable, Conds
<1>17. CASE Next
  BY <1>17, <1>16, <1>7, <1>8, <1>9, <1>10, <1>12, <1>13, <1>14, <1>15, CBufferAssumption
     DEF Next, Resume
<1> QED
  BY <1>1, <1>17

\* Type correctness of the circular buffer: in particular the element count never
\* leaves 0 .. MaxElems and only values that were put are ever handed out or freed.
THEOREM TypeCorrect == Spec => []TypeOK
<1>1. TypeInv => TypeOK
  BY DEF TypeInv
<1> QED
  BY <1>1, TypeInit, TypeStep, PTL DEF Spec

-----------------------------------------------------------------------------
(* No lost wakeup.                                                         *)

\* Which calls sleep on which condition variable.
SleeperKind(t) ==
    /\ pc[t] = "cond_put" => call[t].op \in {"put", "wait_puttable"}
    /\ pc[t] = "cond_get" => call[t].op \in {"get", "peek", "wait_gettable"}
    /\ pc[t] = "cond_awakened" => call[t].op = "wakeup"

\* Why t sleeps.
Reason(t) ==
    /\ pc[t] = "cond_put" => m_is_operational /\ m_n_elements = MaxElems
    /\ pc[t] = "cond_get" => m_n_elements = 0
    /\ call[t].op \in {"get", "peek", "wakeup"} => m_is_operational

SleeperOK(t) == SleeperKind(t) /\ (Asleep(t) => Reason(t))

\* A buffer that is down holds nothing.
ClosedIsEmpty == ~m_is_operational => m_n_elements = 0

SleepInv == TypeInv /\ ClosedIsEmpty /\ \A t \in Threads : SleeperOK(t)

\* After a notification of conds by t, whoever still sleeps slept before, and not
\* on one of conds.
LEMMA StillAsleep ==
    ASSUME TypeOK, NEW t \in Threads, NEW u \in Threads, u # t, NEW conds,
           woken' = NotifyFrom(t, conds), pc'[u] = pc[u], Asleep(u)'
    PROVE  Asleep(u) /\ pc[u] \notin conds
BY DEF TypeOK, NotifyFrom, Notify, Asleep

LEMMA StillAsleepAll ==
    ASSUME TypeOK, NEW u \in Threads, NEW conds,
           woken' = Notify(conds), pc' = pc, Asleep(u)'
    PROVE  Asleep(u) /\ pc[u] \notin conds
BY DEF TypeOK, Notify, Asleep

\* A thread that t's step leaves alone keeps its reason if what the reason speaks
\* of is left alone.
LEMMA OtherSleeper ==
    ASSUME TypeOK, NEW t \in Threads, NEW u \in Threads, u # t, SleeperOK(u), NEW conds,
           woken' = NotifyFrom(t, conds), pc'[u] = pc[u], call'[u] = call[u],
           m_is_operational' = m_is_operational,
           pc[u] = "cond_put" /\ pc[u] \notin conds /\ m_n_elements = MaxElems
               => m_n_elements' = MaxElems,
           pc[u] = "cond_get" /\ pc[u] \notin conds /\ m_n_elements = 0
               => m_n_elements' = 0
    PROVE  SleeperOK(u)'
<1>1. SleeperKind(u)'
  BY DEF SleeperOK, SleeperKind
<1>2. ASSUME Asleep(u)' PROVE Reason(u)'
  <2>1. Asleep(u) /\ pc[u] \notin conds
    BY <1>2, StillAsleep
  <2>2. Reason(u)
    BY <2>1 DEF SleeperOK
  <2> QED
    BY <2>1, <2>2 DEF Reason
<1> QED
  BY <1>1, <1>2 DEF SleeperOK

\* A thread whose call ended does not sleep.
LEMMA DoneIsOK ==
    ASSUME NEW t \in Threads, pc'[t] \notin Conds
    PROVE  SleeperOK(t)'
BY DEF SleeperOK, SleeperKind, Asleep, Conds

\* One pass of s_put_n.
LEMMA PutPassSleep ==
    ASSUME SleepInv, NEW t \in Threads, NEW c \in CallType, NEW d \in Nat,
           c.op = "put", CallFits(c), d <= c.n, PutPass(t, c, d), TypeInv'
    PROVE  SleepInv'
<1>t. TypeInv /\ TypeOK /\ ClosedIsEmpty /\ \A u \in Threads : SleeperOK(u)
  BY DEF SleepInv, TypeInv
<1>c. c.n \in Nat /\ c.n - d \in Nat
  BY DEF CallType
<1>1. call' = [call EXCEPT ![t] = c] /\ m_is_operational' = m_is_operational
  BY DEF PutPass
<1>2. /\ call'[t] = c
      /\ \A u \in Threads \ {t} : call'[u] = call[u]
  BY <1>1, <1>t DEF TypeOK
<1>3. CASE ~m_is_operational
  <2>1. /\ Leave(t, NOT_OPERATIONAL)
        /\ woken' = NotifyFrom(t, {})
        /\ m_n_elements' = m_n_elements
    BY <1>3 DEF PutPass, ring
  <2>2. MovesTo(t, "done")
    BY <2>1, <1>t, LeaveType, ResultsAreInts
  <2>3. SleeperOK(t)'
    BY <2>2, DoneIsOK DEF MovesTo, Conds
  <2>4. ASSUME NEW u \in Threads, u # t PROVE SleeperOK(u)'
    BY <2>4, <2>1, <2>2, <1>1, <1>2, <1>t, OtherSleeper DEF MovesTo
  <2>5. ClosedIsEmpty'
    BY <2>1, <1>1, <1>t DEF ClosedIsEmpty
  <2> QED
    BY <2>3, <2>4, <2>5 DEF SleepInv
<1>4. CASE m_is_operational
  <2> DEFINE k == CopyinCount(c.n - d)
             conds == IF k > 0 THEN {"cond_get"} ELSE {}
  <2>1. /\ m_n_elements' = m_n_elements + k
        /\ woken' = NotifyFrom(t, conds)
        /\ \/ Leave(t, d + k)
           \/ WaitIO(t, "cond_put") /\ m_n_elements + k >= MaxElems
           \/ Leave(t, ANY_FAILURES)
    BY <1>4 DEF PutPass, s_copyin
  <2>2. k \in 0 .. c.n - d /\ m_n_elements + k \in 0 .. MaxElems
    BY <1>c, <1>t, CopyinCountRange
  <2> HIDE DEF k
  <2>3. /\ k \in Nat /\ d + k \in Int /\ m_n_elements \in 0 .. MaxElems
        /\ MaxElems \in Nat
    BY <2>2, <1>c, <1>t, CBufferAssumption DEF TypeOK
  <2>4. \/ MovesTo(t, "done")
        \/ MovesTo(t, "cond_put") /\ m_n_elements' = MaxElems
    BY <2>1, <2>2, <2>3, <1>t, LeaveType, WaitIOType, ResultsAreInts DEF Conds
  <2>5. SleeperOK(t)'
    <3>1. CASE MovesTo(t, "done")
      BY <3>1, DoneIsOK DEF MovesTo, Conds
    <3>2. CASE MovesTo(t, "cond_put") /\ m_n_elements' = MaxElems
      BY <3>2, <1>1, <1>2, <1>4 DEF SleeperOK, SleeperKind, Reason, MovesTo
    <3> QED
      BY <2>4, <3>1, <3>2
  <2>6. ASSUME NEW u \in Threads, u # t PROVE SleeperOK(u)'
    <3>1. pc'[u] = pc[u] /\ call'[u] = call[u]
      BY <2>4, <2>6, <1>2 DEF MovesTo
    <3>2. m_n_elements = MaxElems => m_n_elements' = MaxElems
      BY <2>1, <2>2, <2>3
    <3>3. "cond_get" \notin conds /\ m_n_elements = 0 => m_n_elements' = 0
      BY <2>1, <2>3
    <3> HIDE DEF conds
    <3> QED
      BY <3>1, <3>2, <3>3, <2>1, <2>6, <1>1, <1>t, OtherSleeper
  <2>7. ClosedIsEmpty'
    BY <1>1, <1>4 DEF ClosedIsEmpty
  <2> QED
    BY <2>5, <2>6, <2>7 DEF SleepInv
<1> QED
  BY <1>3, <1>4

\* One pass of s_get_n.
LEMMA GetPassSleep ==
    ASSUME SleepInv, NEW t \in Threads, NEW c \in CallType, NEW d \in Nat,
           c.op \in {"get", "peek"}, d <= c.n, GetPass(t, c, d), TypeInv'
    PROVE  SleepInv'
<1>t. TypeInv /\ TypeOK /\ ClosedIsEmpty /\ \A u \in Threads : SleeperOK(u)
  BY DEF SleepInv, TypeInv
<1>c. c.n \in Nat /\ c.n - d \in Nat
  BY DEF CallType
<1>1. call' = [call EXCEPT ![t] = c] /\ m_is_operational' = m_is_operational
  BY DEF GetPass
<1>2. /\ call'[t] = c
      /\ \A u \in Threads \ {t} : call'[u] = call[u]
  BY <1>1, <1>t DEF TypeOK
<1>3. CASE ~m_is_operational
  <2>1. /\ Leave(t, NOT_OPERATIONAL)
        /\ woken' = NotifyFrom(t, {})
        /\ m_n_elements' = m_n_elements
    BY <1>3 DEF GetPass, ring
  <2>2. MovesTo(t, "done")
    BY <2>1, <1>t, LeaveType, ResultsAreInts
  <2>3. SleeperOK(t)'
    BY <2>2, DoneIsOK DEF MovesTo, Conds
  <2>4. ASSUME NEW u \in Threads, u # t PROVE SleeperOK(u)'
    BY <2>4, <2>1, <2>2, <1>1, <1>2, <1>t, OtherSleeper DEF MovesTo
  <2>5. ClosedIsEmpty'
    BY <2>1, <1>1, <1>t DEF ClosedIsEmpty
  <2> QED
    BY <2>3, <2>4, <2>5 DEF SleepInv
<1>4. CASE m_is_operational
  <2> DEFINE k == CopyoutCount(c.n - d)
             do_incr == c.op = "get"
             conds == IF k > 0 /\ do_incr THEN {"cond_put"} ELSE {}
  <2>1. /\ m_n_elements' = IF do_incr THEN m_n_elements - k ELSE m_n_elements
        /\ woken' = NotifyFrom(t, conds)
        /\ \/ Leave(t, d + k)
           \/ WaitIO(t, "cond_get") /\ m_n_elements' < 1
           \/ Leave(t, ANY_FAILURES)
    BY <1>4 DEF GetPass, s_copyout
  <2>2. k \in 0 .. c.n - d /\ m_n_elements - k \in 0 .. MaxElems
    BY <1>c, <1>t, CopyoutCountRange
  <2> HIDE DEF k
  <2>3. /\ k \in Nat /\ d + k \in Int /\ m_n_elements \in 0 .. MaxElems
        /\ MaxElems \in Nat /\ m_n_elements' \in 0 .. MaxElems
    BY <2>2, <1>c, <1>t, CBufferAssumption DEF TypeOK, TypeInv
  <2>4. \/ MovesTo(t, "done")
        \/ MovesTo(t, "cond_get") /\ m_n_elements' = 0
    BY <2>1, <2>3, <1>t, LeaveType, WaitIOType, ResultsAreInts DEF Conds
  <2>5. SleeperOK(t)'
    <3>1. CASE MovesTo(t, "done")
      BY <3>1, DoneIsOK DEF MovesTo, Conds
    <3>2. CASE MovesTo(t, "cond_get") /\ m_n_elements' = 0
      BY <3>2, <1>1, <1>2, <1>4 DEF SleeperOK, SleeperKind, Reason, MovesTo
    <3> QED
      BY <2>4, <3>1, <3>2
  <2>6. ASSUME NEW u \in Threads, u # t PROVE SleeperOK(u)'
    <3>1. pc'[u] = pc[u] /\ call'[u] = call[u]
      BY <2>4, <2>6, <1>2 DEF MovesTo
    <3>2. "cond_put" \notin conds /\ m_n_elements = MaxElems => m_n_elements' = MaxElems
      BY <2>1, <2>3
    <3>3. m_n_elements = 0 => m_n_elements' = 0
      BY <2>1, <2>2, <2>3
    <3> HIDE DEF conds
    <3> QED
      BY <3>1, <3>2, <3>3, <2>1, <2>6, <1>1, <1>t, OtherSleeper
  <2>7. ClosedIsEmpty'
    BY <1>1, <1>4 DEF ClosedIsEmpty
  <2> QED
    BY <2>5, <2>6, <2>7 DEF SleepInv
<1> QED
  BY <1>3, <1>4

\* A step of t that leaves the ring and the state of the buffer alone.
LEMMA QuietStepSleep ==
    ASSUME SleepInv, NEW t \in Threads, NEW to, MovesTo(t, to), NEW conds,
           woken' = NotifyFrom(t, conds),
           \A u \in Threads \ {t} : call'[u] = call[u],
           m_n_elements' = m_n_elements, m_is_operational' = m_is_operational,
           SleeperOK(t)', TypeInv'
    PROVE  SleepInv'
<1>t. TypeOK /\ ClosedIsEmpty /\ \A u \in Threads : SleeperOK(u)
  BY DEF SleepInv, TypeInv
<1>1. ASSUME NEW u \in Threads, u # t PROVE SleeperOK(u)'
  <2>1. pc'[u] = pc[u] /\ call'[u] = call[u]
    BY <1>1 DEF MovesTo
  <2> QED
    BY <2>1, <1>1, <1>t, OtherSleeper
<1>2. ClosedIsEmpty'
  BY <1>t DEF ClosedIsEmpty
<1> QED
  BY <1>1, <1>2 DEF SleepInv

\* Every step keeps the reasons.
LEMMA SleepStep == SleepInv /\ [Next]_vars => SleepInv'
<1> SUFFICES ASSUME SleepInv, [Next]_vars PROVE SleepInv'
  OBVIOUS
<1>t. /\ TypeInv /\ TypeOK /\ ClosedIsEmpty /\ (\A u \in Threads : SleeperOK(u))
      /\ call \in [Threads -> CallType] /\ n_copied \in [Threads -> Nat]
  BY DEF SleepInv, TypeInv, TypeOK, CallType
<1>p. TypeInv'
  BY <1>t, TypeStep
<1>1. CASE UNCHANGED vars
  BY <1>1, <1>p, <1>t DEF vars, ring, flags, SleepInv, ClosedIsEmpty, SleeperOK, SleeperKind,
     Reason, Asleep
<1>2. ASSUME NEW t \in Threads, NEW mode \in Modes, NEW n \in 1 .. MaxReq, Put(t, mode, n)
      PROVE  SleepInv'
  <2> DEFINE c == [op |-> "put", mode |-> mode, n |-> n, least |-> 0,
                   vals |-> [i \in 1 .. n |-> made + i]]
  <2>1. n \in Nat /\ made \in Nat /\ made + n <= MaxVals
    BY <1>2, <1>t, CBufferAssumption DEF Put, TypeOK
  <2>2. c.vals \in Seq(1 .. MaxVals) /\ Len(c.vals) = n
    <3>1. \A i \in 1 .. n : made + i \in 1 .. MaxVals
      BY <2>1, CBufferAssumption
    <3>2. [i \in 1 .. n |-> made + i] \in Seq(1 .. MaxVals)
      BY <2>1, <3>1
    <3> QED
      BY <2>1, <3>2
  <2>3. c \in CallType /\ CallFits(c) /\ c.op = "put" /\ c.n = n
    BY <2>1, <2>2, CBufferAssumption DEF CallType, CallFits, Callers
  <2>4. PutPass(t, c, 0)
    BY <1>2 DEF Put
  <2> HIDE DEF c
  <2> QED
    BY <2>1, <2>3, <2>4, <1>p, PutPassSleep
<1>3. ASSUME NEW t \in Threads, NEW op \in {"get", "peek"}, NEW mode \in Modes,
             NEW n \in Nat, NEW least \in Nat, Get(t, op, mode, n, least)
      PROVE  SleepInv'
  <2> DEFINE c == [op |-> op, mode |-> mode, n |-> n, least |-> least, vals |-> <<>>]
  <2>1. c \in CallType /\ c.op \in {"get", "peek"} /\ c.n = n
    BY CBufferAssumption DEF CallType, Callers
  <2>2. GetPass(t, c, 0)
    BY <1>3 DEF Get
  <2> HIDE DEF c
  <2> QED
    BY <2>1, <2>2, <1>p, GetPassSleep
<1>4. ASSUME NEW t \in Threads, NEW mode \in Modes,
             WaitGettable(t, mode) \/ WaitPuttable(t, mode)
      PROVE  SleepInv'
  <2>0. m_n_elements \in 0 .. MaxElems /\ MaxElems \in Nat \ {0}
    BY <1>t, CBufferAssumption DEF TypeOK
  <2>1. \E op \in {"wait_gettable", "wait_puttable"} : call' = [call EXCEPT ![t] = PlainCall(op, mode)]
    BY <1>4 DEF WaitGettable, WaitPuttable, WaitReady
  <2>2. /\ woken' = NotifyFrom(t, {})
        /\ m_n_elements' = m_n_elements /\ m_is_operational' = m_is_operational
    BY <1>4 DEF WaitGettable, WaitPuttable, WaitReady, ring
  <2>3. \A u \in Threads \ {t} : call'[u] = call[u]
    BY <2>1, <1>t
  <2>4. \/ MovesTo(t, "done")
        \/ MovesTo(t, "cond_get") /\ m_n_elements = 0 /\ call'[t] = PlainCall("wait_gettable", mode)
        \/ MovesTo(t, "cond_put") /\ m_n_elements = MaxElems
              /\ call'[t] = PlainCall("wait_puttable", mode)
    BY <1>4, <2>0, <1>t, LeaveType, WaitIOType DEF WaitGettable, WaitPuttable, WaitReady, Conds
  <2>5. SleeperOK(t)'
    <3>1. CASE MovesTo(t, "done")
      BY <3>1, DoneIsOK DEF MovesTo, Conds
    <3>2. CASE MovesTo(t, "cond_get") /\ m_n_elements = 0
               /\ call'[t] = PlainCall("wait_gettable", mode)
      BY <3>2, <2>2 DEF SleeperOK, SleeperKind, Reason, MovesTo, PlainCall
    <3>3. CASE MovesTo(t, "cond_put") /\ m_n_elements = MaxElems
               /\ call'[t] = PlainCall("wait_puttable", mode)
      BY <3>3, <2>0, <2>2, <1>t
         DEF SleeperOK, SleeperKind, Reason, MovesTo, PlainCall, ClosedIsEmpty
    <3> QED
      BY <2>4, <3>1, <3>2, <3>3
  <2> QED
    BY <2>2, <2>3, <2>4, <2>5, <1>p, QuietStepSleep
<1>5. ASSUME NEW t \in Threads, NEW mode \in Modes, Wakeup(t, mode)
      PROVE  SleepInv'
  <2>1. /\ call' = [call EXCEPT ![t] = PlainCall("wakeup", mode)]
        /\ \/ Finish(t, OK) \/ Finish(t, NOT_OPERATIONAL)
           \/ Sleep(t, "cond_awakened") /\ m_is_operational
        /\ m_n_elements' = m_n_elements /\ m_is_operational' = m_is_operational
        /\ woken' = NotifyFrom(t, {"cond_get", "cond_put"}) \/ woken' = NotifyFrom(t, {})
    BY <1>5 DEF Wakeup, ring
  <2>2. call'[t] = PlainCall("wakeup", mode) /\ \A u \in Threads \ {t} : call'[u] = call[u]
    BY <2>1, <1>t
  <2>3. \/ MovesTo(t, "done")
        \/ MovesTo(t, "cond_awakened") /\ m_is_operational
    BY <2>1, <1>t, FinishType, SleepType, ResultsAreInts DEF Conds
  <2>4. SleeperOK(t)'
    <3>1. CASE MovesTo(t, "done")
      BY <3>1, DoneIsOK DEF MovesTo, Conds
    <3>2. CASE MovesTo(t, "cond_awakened") /\ m_is_operational
      BY <3>2, <2>1, <2>2 DEF SleeperOK, SleeperKind, Reason, MovesTo, PlainCall
    <3> QED
      BY <2>3, <3>1, <3>2
  <2> QED
    BY <2>1, <2>2, <2>3, <2>4, <1>p, QuietStepSleep
<1>7. ASSUME NEW t \in Threads, AwakenedExit(t) \/ TimedOutExit(t)
      PROVE  SleepInv'
  <2>1. MovesTo(t, "done")
    BY <1>7, <1>t, LeaveType, ResultsAreInts DEF AwakenedExit, TimedOutExit
  <2>2. /\ call' = call /\ m_n_elements' = m_n_elements /\ m_is_operational' = m_is_operational
        /\ woken' = NotifyFrom(t, {}) \/ woken' = NotifyFrom(t, {"cond_awakened"})
    BY <1>7 DEF AwakenedExit, TimedOutExit, ring
  <2>3. SleeperOK(t)'
    BY <2>1, DoneIsOK DEF MovesTo, Conds
  <2> QED
    BY <2>1, <2>2, <2>3, <1>p, QuietStepSleep
<1>9. ASSUME NEW t \in Threads, Recheck(t)
      PROVE  SleepInv'
  <2>1. /\ call[t] \in CallType /\ CallFits(call[t])
        /\ n_copied[t] \in Nat /\ n_copied[t] <= call[t].n
    BY <1>t DEF TypeInv, CallsFit
  <2>2. CASE call[t].op = "put" /\ PutPass(t, call[t], n_copied[t])
    BY <2>1, <2>2, <1>p, PutPassSleep
  <2>3. CASE call[t].op \in {"get", "peek"} /\ GetPass(t, call[t], n_copied[t])
    BY <2>1, <2>3, <1>p, GetPassSleep
  <2>4. CASE /\ call[t].op \in {"wait_gettable", "wait_puttable"}
             /\ Leave(t, IF call[t].op = "wait_gettable" THEN m_n_elements
                                                         ELSE MaxElems - m_n_elements)
             /\ woken' = NotifyFrom(t, {})
             /\ UNCHANGED <<ring, m_is_operational, m_is_awakened, call, n_copied, got, freed>>
    <3>1. MovesTo(t, "done")
      <4>1. m_n_elements \in Int /\ MaxElems - m_n_elements \in Int
        BY <1>t, CBufferAssumption DEF TypeOK
      <4> QED
        BY <4>1, <2>4, <1>t, LeaveType
    <3>2. SleeperOK(t)'
      BY <3>1, DoneIsOK DEF MovesTo, Conds
    <3> QED
      BY <2>4, <3>1, <3>2, <1>p, QuietStepSleep DEF ring
  <2> QED
    BY <1>9, <2>2, <2>3, <2>4 DEF Recheck
<1>10. ASSUME NEW t \in Threads, WakerRecheck(t)
       PROVE  SleepInv'
  <2>1. /\ pc[t] = "cond_awakened" /\ woken' = NotifyFrom(t, {})
        /\ \/ Finish(t, TIMEDOUT) \/ Finish(t, NOT_OPERATIONAL) \/ Finish(t, OK)
           \/ Sleep(t, "cond_awakened") /\ m_is_operational
        /\ call' = call /\ m_n_elements' = m_n_elements /\ m_is_operational' = m_is_operational
    BY <1>10 DEF WakerRecheck, ring, flags
  <2>2. MovesTo(t, "done") \/ (MovesTo(t, "cond_awakened") /\ m_is_operational)
    BY <2>1, <1>t, FinishType, SleepType, ResultsAreInts DEF Conds
  <2>3. SleeperOK(t)'
    <3>1. CASE MovesTo(t, "done")
      BY <3>1, DoneIsOK DEF MovesTo, Conds
    <3>2. CASE MovesTo(t, "cond_awakened") /\ m_is_operational
      BY <3>2, <2>1, <1>t DEF SleeperOK, SleeperKind, Reason, MovesTo
    <3> QED
      BY <2>2, <3>1, <3>2
  <2> QED
    BY <2>1, <2>2, <2>3, <1>p, QuietStepSleep
<1>11. ASSUME NEW t \in Threads, Return(t) \/ Cancel(t)
       PROVE  SleepInv'
  <2>1. /\ m_n_elements' = m_n_elements /\ m_is_operational' = m_is_operational
        /\ pc'[t] \in {"idle", "gone"}
        /\ \A u \in Threads \ {t} : pc'[u] = pc[u] /\ call'[u] = call[u] /\ woken'[u] = woken[u]
    BY <1>11, <1>t DEF Return, Cancel, ring, flags, TypeOK
  <2>2. SleeperOK(t)'
    BY <2>1, DoneIsOK DEF Conds
  <2>3. ASSUME NEW u \in Threads, u # t PROVE SleeperOK(u)'
    BY <2>1, <2>3, <1>t DEF SleeperOK, SleeperKind, Reason, Asleep
  <2>4. ClosedIsEmpty'
    BY <2>1, <1>t DEF ClosedIsEmpty
  <2> QED
    BY <2>2, <2>3, <2>4, <1>p DEF SleepInv
<1>12. ASSUME NEW t \in Threads, Expire(t) \/ SpuriousWakeup(t)
       PROVE  SleepInv'
  <2>1. /\ m_n_elements' = m_n_elements /\ m_is_operational' = m_is_operational
        /\ pc' = pc /\ call' = call
        /\ woken'[t] # "no"
        /\ \A u \in Threads \ {t} : woken'[u] = woken[u]
    BY <1>12, <1>t DEF Expire, SpuriousWakeup, ring, flags, TypeOK
  <2>2. ASSUME NEW u \in Threads PROVE SleeperOK(u)'
    BY <2>1, <1>t DEF SleeperOK, SleeperKind, Reason, Asleep
  <2>3. ClosedIsEmpty'
    BY <2>1, <1>t DEF ClosedIsEmpty
  <2> QED
    BY <2>2, <2>3, <1>p DEF SleepInv
<1>13. ASSUME NEW free_values \in BOOLEAN, Clear(free_values)
       PROVE  SleepInv'
  <2>1. /\ m_n_elements' = 0 /\ m_is_operational' = m_is_operational
        /\ pc' = pc /\ call' = call /\ woken' = Notify({"cond_put"})
    BY <1>13 DEF Clear, s_clean, flags
  <2>2. ASSUME NEW u \in Threads PROVE SleeperOK(u)'
    <3>1. SleeperKind(u)'
      BY <2>1, <1>t DEF SleeperOK, SleeperKind
    <3>2. ASSUME Asleep(u)' PROVE Reason(u)'
      <4>1. Asleep(u) /\ pc[u] \notin {"cond_put"}
        BY <3>2, <2>1, <1>t, StillAsleepAll
      <4>2. Reason(u)
        BY <4>1, <1>t DEF SleeperOK
      <4> QED
        BY <4>1, <4>2, <2>1 DEF Reason
    <3> QED
      BY <3>1, <3>2 DEF SleeperOK
  <2> QED
    BY <2>1, <2>2, <1>p DEF SleepInv, ClosedIsEmpty
<1>14. ASSUME NEW free_values \in BOOLEAN, Shutdown(free_values)
       PROVE  SleepInv'
  <2>1. m_n_elements' = 0 /\ pc' = pc /\ call' = call /\ woken' = Notify(Conds)
    BY <1>14 DEF Shutdown, s_clean
  <2>2. ASSUME NEW u \in Threads PROVE SleeperOK(u)'
    <3>1. SleeperKind(u)'
      BY <2>1, <1>t DEF SleeperOK, SleeperKind
    <3>2. ~Asleep(u)'
      <4>1. Asleep(u)' => Asleep(u) /\ pc[u] \notin Conds
        BY <2>1, <1>t, StillAsleepAll
      <4> QED
        BY <4>1 DEF Asleep
    <3> QED
      BY <3>1, <3>2 DEF SleeperOK
  <2> QED
    BY <2>1, <2>2, <1>p DEF SleepInv, ClosedIsEmpty
<1>16. ASSUME NEW t \in Threads, CallStep(t)
       PROVE  SleepInv'
  <2>1. PICK mode \in Modes :
          \/ \E n \in 1 .. MaxReq : Put(t, mode, n)
          \/ \E n \in Nat, least \in Nat, op \in {"get", "peek"} : Get(t, op, mode, n, least)
          \/ WaitGettable(t, mode)
          \/ WaitPuttable(t, mode)
          \/ Wakeup(t, mode)
    BY <1>16, CBufferAssumption DEF CallStep
  <2> QED
    BY <2>1, <1>2, <1>3, <1>4, <1>5
<1>17. CASE Next
  BY <1>17, <1>16, <1>7, <1>9, <1>10, <1>11, <1>12, <1>13, <1>14, CBufferAssumption
     DEF Next, Resume
<1> QED
  BY <1>1, <1>17

LEMMA SleepInit == Init => SleepInv
<1> SUFFICES ASSUME Init PROVE SleepInv
  OBVIOUS
<1>1. TypeInv /\ ClosedIsEmpty
  BY TypeInit DEF Init, ClosedIsEmpty
<1>2. ASSUME NEW t \in Threads PROVE SleeperOK(t)
  BY DEF Init, SleeperOK, SleeperKind, Asleep, Conds
<1> QED
  BY <1>1, <1>2 DEF SleepInv

\* No wakeup is lost: a thread left asleep in a put finds the buffer full, one left
\* asleep in a get finds it empty, and none of them sleeps on a closed buffer, for
\* any number of threads and any capacity.
THEOREM NoLostWakeup == Spec => []SleepersHaveReason
<1>1. SleepInv => SleepersHaveReason
  BY DEF SleepInv, SleeperOK, Reason, SleepersHaveReason
<1> QED
  BY <1>1, SleepInit, SleepStep, PTL DEF Spec

-----------------------------------------------------------------------------
(* The ring.                                                               *)

\* The write index is far enough from the end of its type that no put overflows it.
IndexHasRoom == m_w_idx + MaxElems <= IdxMax

RingInv == /\ TypeInv
           /\ m_r_idx >= 0
           /\ m_w_idx = m_r_idx + m_n_elements

\* What a step can do to the indices and the count.
RingMove ==
    \/ UNCHANGED <<m_r_idx, m_w_idx, m_n_elements>>
    \/ m_r_idx' = 0 /\ m_w_idx' = 0 /\ m_n_elements' = 0
    \/ \E k \in 0 .. MaxElems : /\ m_n_elements' = m_n_elements + k
                                /\ m_w_idx' = Wrap(s_adjust_w + k)
                                /\ m_r_idx' = s_adjust_r
    \/ \E k \in 0 .. m_n_elements : /\ m_n_elements' = m_n_elements - k
                                    /\ m_w_idx' = s_adjust_w
                                    /\ m_r_idx' = Wrap(s_adjust_r + k)
    \/ m_n_elements' = m_n_elements /\ m_w_idx' = s_adjust_w /\ m_r_idx' = s_adjust_r

LEMMA PutPassRing ==
    ASSUME TypeOK, NEW t, NEW c, NEW d \in Nat, c.n \in Nat, d <= c.n, PutPass(t, c, d)
    PROVE  RingMove
<1>1. CASE ~m_is_operational
  BY <1>1 DEF PutPass, ring, RingMove
<1>2. CASE m_is_operational
  <2> DEFINE k == CopyinCount(c.n - d)
  <2>1. s_copyin(c.vals, d, k)
    BY <1>2 DEF PutPass
  <2>2. k \in 0 .. c.n - d /\ m_n_elements + k \in 0 .. MaxElems
    BY CopyinCountRange
  <2> HIDE DEF k
  <2>3. k \in 0 .. MaxElems
    BY <2>2, CBufferAssumption DEF TypeOK
  <2> QED
    BY <2>1, <2>3 DEF s_copyin, RingMove
<1> QED
  BY <1>1, <1>2

LEMMA GetPassRing ==
    ASSUME TypeOK, NEW t, NEW c, NEW d \in Nat, c.n \in Nat, d <= c.n, GetPass(t, c, d)
    PROVE  RingMove
<1>1. CASE ~m_is_operational
  BY <1>1 DEF GetPass, ring, RingMove
<1>2. CASE m_is_operational
  <2> DEFINE k == CopyoutCount(c.n - d)
  <2>1. s_copyout(k, c.op = "get")
    BY <1>2 DEF GetPass
  <2>2. k \in 0 .. c.n - d /\ m_n_elements - k \in 0 .. MaxElems
    BY CopyoutCountRange
  <2> HIDE DEF k
  <2>3. k \in 0 .. m_n_elements
    BY <2>2, CBufferAssumption DEF TypeOK
  <2>4. CASE c.op = "get"
    BY <2>1, <2>3, <2>4 DEF s_copyout, RingMove
  <2>5. CASE c.op # "get"
    BY <2>1, <2>5 DEF s_copyout, RingMove
  <2> QED
    BY <2>4, <2>5
<1> QED
  BY <1>1, <1>2

\* Every step moves the ring in one of these ways.
LEMMA NextRing == ASSUME TypeInv, [Next]_vars PROVE RingMove
<1>t. /\ TypeOK /\ call \in [Threads -> CallType] /\ n_copied \in [Threads -> Nat]
  BY DEF TypeInv, TypeOK, CallType
<1>1. ASSUME NEW t \in Threads, NEW mode, NEW n \in 1 .. MaxReq, Put(t, mode, n)
      PROVE  RingMove
  <2> DEFINE c == [op |-> "put", mode |-> mode, n |-> n, least |-> 0,
                   vals |-> [i \in 1 .. n |-> made + i]]
  <2>1. PutPass(t, c, 0)
    BY <1>1 DEF Put
  <2>2. c.n = n /\ n \in Nat /\ 0 <= n
    OBVIOUS
  <2> HIDE DEF c
  <2> QED
    BY <2>1, <2>2, <1>t, PutPassRing
<1>2. ASSUME NEW t \in Threads, NEW op, NEW mode, NEW n \in Nat, NEW least,
             Get(t, op, mode, n, least)
      PROVE  RingMove
  <2> DEFINE c == [op |-> op, mode |-> mode, n |-> n, least |-> least, vals |-> <<>>]
  <2>1. GetPass(t, c, 0)
    BY <1>2 DEF Get
  <2>2. c.n = n /\ 0 <= n
    OBVIOUS
  <2> HIDE DEF c
  <2> QED
    BY <2>1, <2>2, <1>t, GetPassRing
<1>3. ASSUME NEW t \in Threads, NEW mode,
             WaitGettable(t, mode) \/ WaitPuttable(t, mode) \/ Wakeup(t, mode)
      PROVE  RingMove
  BY <1>3 DEF WaitGettable, WaitPuttable, WaitReady, Wakeup, ring, RingMove
<1>4. ASSUME NEW t \in Threads, CallStep(t) PROVE RingMove
  <2>1. PICK mode \in Modes :
          \/ \E n \in 1 .. MaxReq : Put(t, mode, n)
          \/ \E n \in Nat, least \in Nat, op \in {"get", "peek"} : Get(t, op, mode, n, least)
          \/ WaitGettable(t, mode) \/ WaitPuttable(t, mode) \/ Wakeup(t, mode)
    BY <1>4, CBufferAssumption DEF CallStep
  <2> QED
    BY <2>1, <1>1, <1>2, <1>3
<1>5. ASSUME NEW t \in Threads, Recheck(t) PROVE RingMove
  <2>1. call[t].n \in Nat /\ n_copied[t] \in Nat /\ n_copied[t] <= call[t].n
    BY <1>t DEF TypeInv, CallsFit, CallType
  <2> QED
    BY <1>5, <2>1, <1>t, PutPassRing, GetPassRing DEF Recheck, ring, RingMove
<1>6. ASSUME NEW t \in Threads,
             \/ AwakenedExit(t) \/ TimedOutExit(t) \/ WakerRecheck(t)
             \/ Return(t) \/ Expire(t) \/ SpuriousWakeup(t) \/ Cancel(t)
      PROVE  RingMove
  BY <1>6 DEF AwakenedExit, TimedOutExit, WakerRecheck, Return, Expire, SpuriousWakeup,
     Cancel, ring, RingMove
<1>7. ASSUME NEW free_values, Clear(free_values) \/ Shutdown(free_values) PROVE RingMove
  BY <1>7 DEF Clear, Shutdown, s_clean, RingMove
<1>8. CASE UNCHANGED vars
  BY <1>8 DEF vars, ring, RingMove
<1> QED
  BY <1>4, <1>5, <1>6, <1>7, <1>8 DEF Next, Resume

\* A ring move keeps the count and the indices together.
LEMMA RingStep == RingInv /\ IndexHasRoom /\ [Next]_vars => RingInv'
<1> SUFFICES ASSUME RingInv, IndexHasRoom, [Next]_vars PROVE RingInv'
  OBVIOUS
<1>1. TypeInv' /\ RingMove
  BY TypeStep, NextRing DEF RingInv
<1>2. /\ m_r_idx \in Int /\ m_w_idx \in Int /\ m_n_elements \in 0 .. MaxElems
      /\ MaxElems \in Nat /\ IdxMax \in Nat
  BY CBufferAssumption DEF RingInv, TypeInv, TypeOK
<1>3. s_adjust_w = m_w_idx /\ s_adjust_r = m_r_idx
  <2>1. m_w_idx >= 0
    BY <1>2 DEF RingInv
  <2> QED
    BY <2>1 DEF s_adjust_w, s_adjust_r
<1>4. \A k \in 0 .. MaxElems : Wrap(m_w_idx + k) = m_w_idx + k
  BY <1>2 DEF Wrap, IndexHasRoom
<1>5. \A k \in 0 .. m_n_elements : Wrap(m_r_idx + k) = m_r_idx + k
  BY <1>2 DEF Wrap, IndexHasRoom, RingInv
<1> QED
  BY <1>1, <1>2, <1>3, <1>4, <1>5 DEF RingMove, RingInv

\* As long as the 64-bit write index does not come within one buffer length of its
\* end, the element count and the two indices never disagree.
THEOREM RingCorrect == Spec /\ []IndexHasRoom => []RingConsistent
<1>1. Init => RingInv
  BY TypeInit DEF Init, RingInv
<1>2. RingInv => RingConsistent
  BY DEF RingInv, RingConsistent, TypeInv, TypeOK
<1> QED
  BY <1>1, <1>2, RingStep, PTL DEF Spec

-----------------------------------------------------------------------------
(* The count of waiters.                                                   *)

IOWaiters == {t \in Threads : WaitsIO(t)}

WaitInv == TypeInv /\ m_n_waiters = Cardinality(IOWaiters)

\* What a step of t can do to the count and to t.
WaitMove(t) ==
    \/ /\ m_n_waiters' = WaitersLeft(t)
       /\ pc'[t] \notin {"cond_put", "cond_get"}
    \/ /\ m_n_waiters' = WaitersLeft(t) + 1
       /\ pc'[t] \in {"cond_put", "cond_get"}

\* Such a step keeps the count right.
LEMMA WaitMoveCounts ==
    ASSUME WaitInv, TypeInv', NEW t \in Threads, WaitMove(t),
           \A u \in Threads \ {t} : pc'[u] = pc[u]
    PROVE  WaitInv'
<1> DEFINE W == IOWaiters
           Rest == W \ {t}
<1>1. IsFiniteSet(W) /\ IsFiniteSet(Rest) /\ IsFiniteSet(IOWaiters')
  <2>1. W \subseteq Threads /\ Rest \subseteq Threads /\ IOWaiters' \subseteq Threads
    BY DEF IOWaiters
  <2> QED
    BY <2>1, CBufferAssumption, FS_Subset
<1>2. WaitersLeft(t) = Cardinality(Rest) /\ Cardinality(Rest) \in Nat
  <2>1. Cardinality(Rest) \in Nat /\ Cardinality(W) \in Nat
    BY <1>1, FS_CardinalityType
  <2>2. CASE t \in W
    <3>1. Cardinality(Rest) = Cardinality(W) - 1
      BY <1>1, <2>2, FS_RemoveElement
    <3> QED
      BY <3>1, <2>1, <2>2 DEF WaitersLeft, WaitInv, IOWaiters, WaitsIO
  <2>3. CASE t \notin W
    <3>1. Rest = W
      BY <2>3
    <3> QED
      BY <3>1, <2>1, <2>3 DEF WaitersLeft, WaitInv, IOWaiters, WaitsIO
  <2> QED
    BY <2>2, <2>3
<1>3. \A u \in Threads \ {t} : u \in IOWaiters' <=> u \in Rest
  BY DEF IOWaiters, WaitsIO
<1>4. CASE m_n_waiters' = WaitersLeft(t) /\ pc'[t] \notin {"cond_put", "cond_get"}
  <2>1. IOWaiters' = Rest
    BY <1>3, <1>4 DEF IOWaiters, WaitsIO
  <2> QED
    BY <2>1, <1>2, <1>4 DEF WaitInv
<1>5. CASE m_n_waiters' = WaitersLeft(t) + 1 /\ pc'[t] \in {"cond_put", "cond_get"}
  <2>1. IOWaiters' = Rest \cup {t}
    BY <1>3, <1>5 DEF IOWaiters, WaitsIO
  <2>2. Cardinality(Rest \cup {t}) = Cardinality(Rest) + 1
    BY <1>1, FS_AddElement
  <2> QED
    BY <2>1, <2>2, <1>2, <1>5 DEF WaitInv
<1> QED
  BY <1>4, <1>5 DEF WaitMove

\* Leaving a call or sleeping in s_wait_io_ready is such a step.
LEMMA LeaveCounts ==
    ASSUME TypeOK, NEW t \in Threads, NEW r, NEW c \in {"cond_put", "cond_get"},
           Leave(t, r) \/ WaitIO(t, c)
    PROVE  WaitMove(t) /\ \A u \in Threads \ {t} : pc'[u] = pc[u]
BY DEF TypeOK, Leave, Finish, WaitIO, Sleep, WaitMove, Conds

LEMMA PassCounts ==
    ASSUME TypeOK, NEW t \in Threads, NEW c, NEW d, PutPass(t, c, d) \/ GetPass(t, c, d)
    PROVE  WaitMove(t) /\ \A u \in Threads \ {t} : pc'[u] = pc[u]
<1>1. \/ \E r : Leave(t, r)
      \/ WaitIO(t, "cond_put")
      \/ WaitIO(t, "cond_get")
  BY DEF PutPass, GetPass
<1> QED
  BY <1>1, LeaveCounts

\* Without cancellation every step keeps the count right.
LEMMA WaitStep == ASSUME Cancelable = {} PROVE WaitInv /\ [Next]_vars => WaitInv'
<1> SUFFICES ASSUME WaitInv, [Next]_vars PROVE WaitInv'
  OBVIOUS
<1>t. TypeInv /\ TypeOK /\ TypeInv'
  BY TypeStep DEF WaitInv, TypeInv
<1>1. ASSUME NEW t \in Threads,
             CallStep(t) \/ AwakenedExit(t) \/ TimedOutExit(t) \/ Recheck(t)
                \/ WakerRecheck(t) \/ Return(t)
      PROVE  WaitMove(t) /\ \A u \in Threads \ {t} : pc'[u] = pc[u]
  <2>1. ASSUME NEW mode, NEW n, NEW op, NEW least,
               Put(t, mode, n) \/ Get(t, op, mode, n, least)
        PROVE  WaitMove(t) /\ \A u \in Threads \ {t} : pc'[u] = pc[u]
    BY <2>1, <1>t, PassCounts DEF Put, Get
  <2>2. ASSUME NEW mode, WaitGettable(t, mode) \/ WaitPuttable(t, mode)
        PROVE  WaitMove(t) /\ \A u \in Threads \ {t} : pc'[u] = pc[u]
    BY <2>2, <1>t, LeaveCounts DEF WaitGettable, WaitPuttable, WaitReady
  <2>3. ASSUME NEW mode, Wakeup(t, mode)
        PROVE  WaitMove(t) /\ \A u \in Threads \ {t} : pc'[u] = pc[u]
    BY <2>3, <1>t DEF Wakeup, Finish, Sleep, WaitMove, WaitersLeft, TypeOK, Conds
  <2>4. CASE AwakenedExit(t) \/ TimedOutExit(t)
    BY <2>4, <1>t, LeaveCounts DEF AwakenedExit, TimedOutExit
  <2>5. CASE Recheck(t)
    BY <2>5, <1>t, LeaveCounts, PassCounts DEF Recheck
  <2>6. CASE WakerRecheck(t)
    BY <2>6, <1>t DEF WakerRecheck, Finish, Sleep, WaitMove, WaitersLeft, TypeOK, flags
  <2>7. CASE Return(t)
    BY <2>7, <1>t DEF Return, WaitMove, WaitersLeft, TypeOK, flags
  <2>8. CASE CallStep(t)
    BY <2>8, <2>1, <2>2, <2>3 DEF CallStep
  <2> QED
    BY <1>1, <2>4, <2>5, <2>6, <2>7, <2>8
<1>2. ASSUME pc' = pc, m_n_waiters' = m_n_waiters PROVE WaitInv'
  <2>1. IOWaiters' = IOWaiters
    BY <1>2 DEF IOWaiters, WaitsIO
  <2> QED
    BY <2>1, <1>2, <1>t DEF WaitInv
<1>3. ASSUME NEW t \in Threads, Expire(t) \/ SpuriousWakeup(t) PROVE WaitInv'
  BY <1>2, <1>3 DEF Expire, SpuriousWakeup, flags
<1>4. ASSUME NEW free_values, Clear(free_values) \/ Shutdown(free_values) PROVE WaitInv'
  BY <1>2, <1>4 DEF Clear, Shutdown, flags
<1>5. CASE UNCHANGED vars
  BY <1>2, <1>5 DEF vars, flags
<1>6. ASSUME NEW t \in Threads, Cancel(t) PROVE WaitInv'
  BY <1>6 DEF Cancel
<1>7. ASSUME NEW t \in Threads, CallStep(t) \/ Resume(t) \/ Return(t) PROVE WaitInv'
  BY <1>1, <1>7, <1>t, WaitMoveCounts DEF Resume
<1> QED
  BY <1>3, <1>4, <1>5, <1>6, <1>7 DEF Next

\* When no sleeper is ever cancelled, m_n_waiters is exactly the number of threads
\* inside s_wait_io_ready.
THEOREM WaitersCorrect == Cancelable = {} => (Spec => []WaitersCounted)
<1> SUFFICES ASSUME Cancelable = {} PROVE Spec => []WaitersCounted
  OBVIOUS
<1>1. Init => WaitInv
  <2> SUFFICES ASSUME Init PROVE WaitInv
    OBVIOUS
  <2>1. IOWaiters = {}
    BY DEF Init, IOWaiters, WaitsIO
  <2> QED
    BY <2>1, TypeInit, FS_EmptySet DEF Init, WaitInv
<1>2. WaitInv => WaitersCounted
  BY DEF WaitInv, WaitersCounted, IOWaiters
<1>3. WaitInv /\ [Next]_vars => WaitInv'
  BY WaitStep
<1> QED
  BY <1>1, <1>2, <1>3, PTL DEF Spec

-----------------------------------------------------------------------------
(* The remainders.                                                         *)

\* A remainder is determined by what it leaves.
LEMMA DivMod ==
    ASSUME NEW a \in Int, NEW b \in Nat \ {0}
    PROVE  a \div b \in Int /\ a % b \in 0 .. b - 1 /\ a = b * (a \div b) + (a % b)
BY SMT

LEMMA ModUnique ==
    ASSUME NEW a \in Int, NEW b \in Nat \ {0}, NEW q \in Int, NEW r \in 0 .. b - 1, a = b * q + r
    PROVE  a % b = r
<1> DEFINE p == a \div b
           s == a % b
<1>1. p \in Int /\ s \in 0 .. b - 1 /\ a = b * p + s
  BY DivMod
<1> HIDE DEF p, s
<1>2. b * (q - p) = s - r
  BY <1>1
<1>3. CASE q - p >= 1
  <2>1. b * (q - p) >= b
    BY <1>1, <1>3
  <2> QED
    BY <1>1, <1>2, <2>1
<1>4. CASE q - p <= -1
  <2>1. b * (q - p) <= -b
    BY <1>1, <1>4
  <2> QED
    BY <1>1, <1>2, <2>1
<1>5. CASE q = p
  <2>1. s = r
    BY <1>1, <1>5
  <2> QED
    BY <2>1 DEF s
<1> QED
  BY <1>1, <1>3, <1>4, <1>5

\* To subtract from a remainder is to subtract and take the remainder.
LEMMA ModShift ==
    ASSUME NEW a \in Int, NEW c \in Int, NEW b \in Nat \ {0}
    PROVE  ((a % b) - c) % b = (a - c) % b
<1> DEFINE p == a \div b
           s == a % b
           u == (s - c) \div b
           v == (s - c) % b
<1>1. p \in Int /\ s \in 0 .. b - 1 /\ a = b * p + s
  BY DivMod
<1>2. s - c \in Int
  BY <1>1
<1>3. u \in Int /\ v \in 0 .. b - 1 /\ s - c = b * u + v
  BY <1>2, DivMod
<1> HIDE DEF p, s, u, v
<1>4. a - c = b * (p + u) + v
  BY <1>1, <1>3
<1>5. (a - c) % b = v
  BY <1>1, <1>3, <1>4, ModUnique
<1> QED
  BY <1>5 DEF v, s

LEMMA ModSmall ==
    ASSUME NEW b \in Nat \ {0}, NEW a \in -b .. b - 1
    PROVE  a % b = IF a < 0 THEN a + b ELSE a
<1>1. CASE a < 0
  <2>1. a = b * (-1) + (a + b)
    OBVIOUS
  <2> QED
    BY <1>1, <2>1, ModUnique
<1>2. CASE a >= 0
  <2>1. a = b * 0 + a
    OBVIOUS
  <2> QED
    BY <1>2, <2>1, ModUnique
<1> QED
  BY <1>1, <1>2

-----------------------------------------------------------------------------
(* Portions of sequences.                                                  *)

LEMMA Portion ==
    ASSUME NEW S, NEW s \in Seq(S), NEW d \in Nat, NEW e \in Nat, d <= e, e <= Len(s)
    PROVE  /\ SubSeq(s, d + 1, e) \in Seq(S) /\ Len(SubSeq(s, d + 1, e)) = e - d
           /\ \A i \in 1 .. e - d : SubSeq(s, d + 1, e)[i] = s[d + i]
<1>1. Len(s) \in Nat
  OBVIOUS
<1>2. \A i \in d + 1 .. e : s[i] \in S
  BY <1>1, ElementOfSeq
<1>3. /\ SubSeq(s, d + 1, e) \in Seq(S)
      /\ Len(SubSeq(s, d + 1, e)) = IF d + 1 <= e THEN e - (d + 1) + 1 ELSE 0
      /\ \A i \in 1 .. e - (d + 1) + 1 : SubSeq(s, d + 1, e)[i] = s[d + 1 + i - 1]
  BY <1>2, SubSeqProperties
<1>4. \A i \in 1 .. e - d : i \in 1 .. e - (d + 1) + 1 /\ d + 1 + i - 1 = d + i
  OBVIOUS
<1> QED
  BY <1>3, <1>4

\* What is left of a batch after d values, and of that after k more.
LEMMA RestOfRest ==
    ASSUME NEW S, NEW s \in Seq(S), NEW d \in Nat, NEW k \in Nat, d + k <= Len(s)
    PROVE  LET rest == SubSeq(s, d + 1, Len(s)) IN
           /\ Len(rest) = Len(s) - d
           /\ SubSeq(rest, 1, k) = SubSeq(s, d + 1, d + k)
           /\ SubSeq(rest, k + 1, Len(rest)) = SubSeq(s, d + k + 1, Len(s))
<1> DEFINE rest == SubSeq(s, d + 1, Len(s))
<1>1. Len(s) \in Nat
  OBVIOUS
<1>2. /\ rest \in Seq(S) /\ Len(rest) = Len(s) - d
      /\ \A i \in 1 .. Len(s) - d : rest[i] = s[d + i]
  BY <1>1, Portion
<1> HIDE DEF rest
<1>3. SubSeq(rest, 1, k) = SubSeq(s, d + 1, d + k)
  <2> DEFINE a == SubSeq(rest, 0 + 1, k)
             b == SubSeq(s, d + 1, d + k)
  <2>1. a \in Seq(S) /\ Len(a) = k - 0 /\ \A i \in 1 .. k - 0 : a[i] = rest[0 + i]
    BY <1>1, <1>2, Portion
  <2>2. b \in Seq(S) /\ Len(b) = d + k - d /\ \A i \in 1 .. d + k - d : b[i] = s[d + i]
    BY <1>1, Portion
  <2> HIDE DEF a, b
  <2>3. ASSUME NEW i \in 1 .. k
        PROVE  a[i] = b[i]
    <3>1. i \in 1 .. Len(s) - d /\ a[i] = rest[i] /\ b[i] = s[d + i]
      BY <1>1, <2>1, <2>2
    <3> QED
      BY <1>2, <3>1
  <2>4. a = b
    BY <2>1, <2>2, <2>3, SeqEqual
  <2> QED
    BY <2>4 DEF a, b
<1>4. SubSeq(rest, k + 1, Len(rest)) = SubSeq(s, d + k + 1, Len(s))
  <2> DEFINE m == Len(s) - d - k
             a == SubSeq(rest, k + 1, Len(rest))
             b == SubSeq(s, (d + k) + 1, Len(s))
  <2>1. a \in Seq(S) /\ Len(a) = Len(rest) - k /\ \A i \in 1 .. Len(rest) - k : a[i] = rest[k + i]
    BY <1>1, <1>2, Portion
  <2>2. b \in Seq(S) /\ Len(b) = Len(s) - (d + k) /\ \A i \in 1 .. Len(s) - (d + k) : b[i] = s[(d + k) + i]
    BY <1>1, Portion
  <2> HIDE DEF a, b
  <2>3. Len(a) = m /\ Len(b) = m /\ m \in Nat
    BY <1>1, <1>2, <2>1, <2>2
  <2>4. ASSUME NEW i \in 1 .. m
        PROVE  a[i] = b[i]
    <3>1. k + i \in 1 .. Len(s) - d /\ d + (k + i) = (d + k) + i
      BY <1>1
    <3>2. a[i] = rest[k + i] /\ b[i] = s[(d + k) + i]
      BY <1>1, <1>2, <2>1, <2>2
    <3> QED
      BY <1>2, <3>1, <3>2
  <2> HIDE DEF m
  <2>5. a = b
    BY <2>1, <2>2, <2>3, <2>4, SeqEqual
  <2> QED
    BY <2>5 DEF a, b
<1> QED
  BY <1>2, <1>3, <1>4 DEF rest

-----------------------------------------------------------------------------
(* The queue in the ring.                                                  *)

\* The queued values, and of each thread those that its put has still to bring.
Element(j) == m_data[s_data_addr(s_adjust_r + j - 1)]
Queued == [i \in 1 .. m_n_elements |-> m_data[s_data_addr(s_adjust_r + i - 1)]]
ToPut == [t \in Threads |-> SubSeq(call[t].vals, n_copied[t] + 1, Len(call[t].vals))]

\* Only a put brings values, and who is not in a call has nothing in hand.
CallsSound ==
    \A t \in Threads : /\ call[t].op # "put" => call[t].vals = <<>>
                       /\ pc[t] = "idle" => call[t].op = "none" /\ got[t] = <<>>

QueueInv == RingInv /\ CallsSound

\* The abstract queue is a sequence of values.
QueuedSound == /\ Queued \in Seq(0 .. MaxVals) /\ Len(Queued) = m_n_elements
               /\ \A j \in 1 .. m_n_elements : Queued[j] = Element(j)

LEMMA QueuedType == TypeOK => QueuedSound
<1> SUFFICES ASSUME TypeOK PROVE QueuedSound
  OBVIOUS
<1>1. m_n_elements \in Nat
  BY CBufferAssumption DEF TypeOK
<1>2. ASSUME NEW i \in 1 .. m_n_elements
      PROVE  Element(i) \in 0 .. MaxVals
  <2>1. s_adjust_r + i - 1 \in Int
    BY AdjustType
  <2>2. s_data_addr(s_adjust_r + i - 1) \in Slots
    BY <2>1, AllocdNat, ModRange DEF s_data_addr, Slots
  <2> QED
    BY <2>2 DEF TypeOK, Element
<1>3. Queued = [i \in 1 .. m_n_elements |-> Element(i)]
  BY DEF Queued, Element
<1> HIDE DEF Element
<1> QED
  BY <1>1, <1>2, <1>3 DEF QueuedSound

LEMMA QueuedTypes == ASSUME TypeOK, TypeOK' PROVE QueuedSound /\ QueuedSound'
<1>1. TypeOK' => QueuedSound'
  BY QueuedType, PTL
<1> QED
  BY <1>1, QueuedType

\* Which of the values of a put a slot gets: the slot of the j-th place of the queue.
LEMMA PlaceOfSlot ==
    ASSUME RingInv, NEW j \in 1 .. Allocd
    PROVE  /\ s_data_addr(m_r_idx + j - 1) \in Slots
           /\ ((s_data_addr(m_r_idx + j - 1) - m_w_idx) % Allocd) + 1
                  = IF j <= m_n_elements THEN j + Allocd - m_n_elements ELSE j - m_n_elements
<1>1. /\ m_r_idx \in Int /\ m_w_idx \in Int /\ m_n_elements \in 0 .. MaxElems
      /\ m_w_idx = m_r_idx + m_n_elements /\ MaxElems \in Nat
  BY CBufferAssumption DEF RingInv, TypeInv, TypeOK
<1> DEFINE a == m_r_idx + j - 1
<1>2. a \in Int /\ a - m_w_idx = j - 1 - m_n_elements /\ a - m_w_idx \in -Allocd .. Allocd - 1
  BY <1>1, AllocdNat
<1>3. s_data_addr(a) \in Slots
  BY <1>2, AllocdNat, ModRange DEF s_data_addr, Slots
<1>4. (s_data_addr(a) - m_w_idx) % Allocd = (a - m_w_idx) % Allocd
  BY <1>1, <1>2, AllocdNat, ModShift DEF s_data_addr
<1>5. (a - m_w_idx) % Allocd = IF a - m_w_idx < 0 THEN (a - m_w_idx) + Allocd ELSE a - m_w_idx
  BY <1>2, AllocdNat, ModSmall
<1> HIDE DEF a
<1>6. (s_data_addr(a) - m_w_idx) % Allocd
          = IF j <= m_n_elements THEN j - 1 - m_n_elements + Allocd ELSE j - 1 - m_n_elements
  BY <1>1, <1>2, <1>4, <1>5
<1>7. ((s_data_addr(a) - m_w_idx) % Allocd) + 1
          = IF j <= m_n_elements THEN j + Allocd - m_n_elements ELSE j - m_n_elements
  BY <1>1, <1>6, AllocdNat
<1> QED
  BY <1>3, <1>7 DEF a

\* While the indices have room the adjustment leaves them.
Unadjusted == /\ s_adjust_w = m_w_idx /\ s_adjust_r = m_r_idx
              /\ \A j \in Int : Element(j) = m_data[s_data_addr(m_r_idx + j - 1)]

LEMMA NoAdjustment == RingInv => Unadjusted
<1> SUFFICES ASSUME RingInv PROVE Unadjusted
  OBVIOUS
<1>1. m_w_idx >= 0
  BY CBufferAssumption DEF RingInv, TypeInv, TypeOK
<1>2. s_adjust_w = m_w_idx /\ s_adjust_r = m_r_idx
  BY <1>1 DEF s_adjust_w, s_adjust_r
<1> QED
  BY <1>2 DEF Element, Unadjusted

\* The numbers of the ring before and after a step.
LEMMA RingNumbers ==
    ASSUME RingInv, RingInv'
    PROVE  /\ TypeOK /\ TypeOK' /\ MaxElems \in Nat /\ Allocd = MaxElems + 1
           /\ m_r_idx \in Nat /\ m_n_elements \in Nat /\ m_n_elements <= MaxElems
           /\ m_w_idx = m_r_idx + m_n_elements
           /\ m_r_idx' \in Nat /\ m_n_elements' \in Nat
           /\ QueuedSound /\ QueuedSound' /\ Unadjusted /\ Unadjusted'
<1>1. TypeOK /\ TypeOK'
  BY DEF RingInv, TypeInv
<1>2. MaxElems \in Nat /\ Allocd = MaxElems + 1
  BY AllocdNat
<1>3. /\ m_r_idx \in Nat /\ m_n_elements \in Nat /\ m_n_elements <= MaxElems
      /\ m_w_idx = m_r_idx + m_n_elements
  BY <1>2 DEF RingInv, TypeInv, TypeOK
<1>4. m_r_idx' \in Nat /\ m_n_elements' \in Nat
  <2>1. m_r_idx' \in Int /\ m_n_elements' \in 0 .. MaxElems
    BY <1>1 DEF TypeOK
  <2> QED
    BY <1>2, <2>1 DEF RingInv
<1>5. RingInv' => Unadjusted'
  BY NoAdjustment, PTL
<1> QED
  BY <1>1, <1>2, <1>3, <1>4, <1>5, NoAdjustment, QueuedTypes

\* s_copyin appends its values to the queue, wherever the ring ends.
LEMMA CopyinQueues ==
    ASSUME RingInv, RingInv', IndexHasRoom, NEW vals \in Seq(1 .. MaxVals), NEW d \in Nat, NEW k \in Nat,
           d + k <= Len(vals), m_n_elements + k <= MaxElems, s_copyin(vals, d, k)
    PROVE  Queued' = Queued \o SubSeq(vals, d + 1, d + k)
<1> DEFINE n == m_n_elements
           new == SubSeq(vals, d + 1, d + k)
           old == Queued
           after == Queued'
<1>0. n \in Nat /\ n <= MaxElems /\ MaxElems \in Nat /\ Allocd = MaxElems + 1
  BY RingNumbers
<1>1. /\ s_adjust_w = m_w_idx /\ s_adjust_r = m_r_idx
      /\ m_n_elements' = n + k /\ m_r_idx' = m_r_idx
      /\ m_data' = IF k > 0 THEN CopyinData(vals, d, k) ELSE m_data
  BY RingNumbers DEF s_copyin, Unadjusted
<1>2. \A j \in Int : /\ Element(j)' = m_data'[s_data_addr(m_r_idx + j - 1)]
                     /\ Element(j) = m_data[s_data_addr(m_r_idx + j - 1)]
  BY <1>1, RingNumbers DEF Unadjusted, s_data_addr
<1>3. ASSUME NEW j \in 1 .. n + k
      PROVE  Element(j)' = IF j <= n THEN Element(j) ELSE vals[d + (j - n)]
  <2> DEFINE slot == s_data_addr(m_r_idx + j - 1)
             i == ((slot - m_w_idx) % Allocd) + 1
  <2>1. Element(j)' = m_data'[slot] /\ Element(j) = m_data[slot]
    BY <1>2
  <2>2. slot \in Slots /\ i = IF j <= n THEN j + Allocd - n ELSE j - n
    BY <1>0, PlaceOfSlot
  <2>3. CopyinData(vals, d, k)[slot] = IF i <= k THEN vals[d + i] ELSE m_data[slot]
    BY <1>1, <2>2 DEF CopyinData
  <2> HIDE DEF slot, i
  <2>4. CASE k > 0
    <3>1. m_data'[slot] = IF i <= k THEN vals[d + i] ELSE m_data[slot]
      BY <1>1, <2>3, <2>4
    <3>2. j <= n => ~(i <= k)
      BY <1>0, <2>2
    <3>3. ~(j <= n) => i = j - n /\ i <= k
      BY <1>0, <2>2
    <3> QED
      BY <2>1, <3>1, <3>2, <3>3
  <2>5. CASE k = 0
    BY <1>0, <1>1, <2>1, <2>5
  <2> QED
    BY <2>4, <2>5
<1>4. /\ old \in Seq(0 .. MaxVals) /\ Len(old) = n /\ \A j \in 1 .. n : old[j] = Element(j)
      /\ after \in Seq(0 .. MaxVals) /\ Len(after) = n + k /\ \A j \in 1 .. n + k : after[j] = Element(j)'
  BY <1>1, RingNumbers DEF QueuedSound
<1>5. /\ new \in Seq(1 .. MaxVals) /\ Len(new) = k
      /\ \A j \in 1 .. k : new[j] = vals[d + j]
  <2> DEFINE e == d + k
             Values == 1 .. MaxVals
  <2>1. e \in Nat /\ d <= e /\ e <= Len(vals) /\ e - d = k /\ vals \in Seq(Values)
    OBVIOUS
  <2> HIDE DEF e, Values
  <2>2. /\ SubSeq(vals, d + 1, e) \in Seq(Values) /\ Len(SubSeq(vals, d + 1, e)) = e - d
        /\ \A j \in 1 .. e - d : SubSeq(vals, d + 1, e)[j] = vals[d + j]
    BY <2>1, Portion
  <2>3. new = SubSeq(vals, d + 1, e)
    BY DEF e
  <2> HIDE DEF new
  <2> QED
    BY <2>1, <2>2, <2>3 DEF Values
<1> HIDE DEF old, after, new
<1>6. new \in Seq(0 .. MaxVals)
  BY <1>5, CBufferAssumption, SeqMonotonic
<1>7. /\ old \o new \in Seq(0 .. MaxVals) /\ Len(old \o new) = n + k
      /\ \A j \in 1 .. n + k : (old \o new)[j] = IF j <= n THEN old[j] ELSE new[j - n]
  <2>1. /\ old \o new \in Seq(0 .. MaxVals) /\ Len(old \o new) = Len(old) + Len(new)
        /\ \A j \in 1 .. Len(old) + Len(new) :
               (old \o new)[j] = IF j <= Len(old) THEN old[j] ELSE new[j - Len(old)]
    <3> DEFINE Values == 0 .. MaxVals
    <3>1. old \in Seq(Values) /\ new \in Seq(Values)
      BY <1>4, <1>6
    <3> HIDE DEF Values
    <3>2. /\ old \o new \in Seq(Values) /\ Len(old \o new) = Len(old) + Len(new)
          /\ \A j \in 1 .. Len(old) + Len(new) :
                 (old \o new)[j] = IF j <= Len(old) THEN old[j] ELSE new[j - Len(old)]
      BY <3>1, ConcatProperties
    <3> QED
      BY <3>2 DEF Values
  <2> QED
    BY <1>4, <1>5, <2>1
<1>8. ASSUME NEW j \in 1 .. n + k
      PROVE  after[j] = (old \o new)[j]
  <2>1. CASE j <= n
    BY <1>0, <1>3, <1>4, <1>7, <2>1
  <2>2. CASE ~(j <= n)
    <3>1. j - n \in 1 .. k
      BY <1>0, <2>2
    <3> QED
      BY <1>3, <1>4, <1>5, <1>7, <2>2, <3>1
  <2> QED
    BY <2>1, <2>2
<1>9. after = old \o new
  BY <1>4, <1>7, <1>8, SeqEqual
<1> QED
  BY <1>9 DEF after, old, new

\* s_copyout hands out the oldest values, and takes them away or not.
LEMMA CopyoutQueues ==
    ASSUME RingInv, RingInv', IndexHasRoom, NEW k \in 0 .. m_n_elements, NEW do_incr \in BOOLEAN,
           s_copyout(k, do_incr)
    PROVE  /\ CopyoutData(k) = SubSeq(Queued, 1, k)
           /\ Queued' = IF do_incr THEN SubSeq(Queued, k + 1, Len(Queued)) ELSE Queued
<1> DEFINE n == m_n_elements
           old == Queued
           after == Queued'
           V == 0 .. MaxVals
<1>0. n \in Nat /\ k \in Nat /\ k <= n /\ TypeOK
  BY RingNumbers
<1>1. old \in Seq(V) /\ Len(old) = n /\ \A j \in 1 .. n : old[j] = Element(j)
  BY RingNumbers DEF QueuedSound
<1>2. CopyoutData(k) = SubSeq(old, 1, k)
  <2> DEFINE a == CopyoutData(k)
             b == SubSeq(old, 0 + 1, k)
  <2>1. a \in Seq(V) /\ Len(a) = k /\ \A j \in 1 .. k : a[j] = Element(j)
    <3>1. a \in Seq(V)
      BY <1>0, CopyoutDataType
    <3>2. a = [j \in 1 .. k |-> Element(j)]
      BY DEF CopyoutData, Element
    <3> HIDE DEF a, Element
    <3> QED
      BY <1>0, <3>1, <3>2
  <2>2. b \in Seq(V) /\ Len(b) = k - 0 /\ \A j \in 1 .. k - 0 : b[j] = old[0 + j]
    <3> HIDE DEF old, V
    <3> QED
      BY <1>0, <1>1, Portion
  <2> HIDE DEF a, b, old, V
  <2>3. ASSUME NEW j \in 1 .. k
        PROVE  a[j] = b[j]
    <3>1. j \in 1 .. n /\ b[j] = old[j]
      BY <1>0, <2>2
    <3> QED
      BY <1>1, <2>1, <3>1
  <2>4. a = b
    BY <1>0, <2>1, <2>2, <2>3, SeqEqual
  <2> QED
    BY <2>4 DEF a, b, old
<1>3. \A j \in Int : /\ Element(j)' = m_data[s_data_addr(m_r_idx' + j - 1)]
                     /\ Element(j) = m_data[s_data_addr(m_r_idx + j - 1)]
  BY RingNumbers DEF s_copyout, Unadjusted, s_data_addr
<1>4. after \in Seq(V) /\ Len(after) = m_n_elements' /\ \A j \in 1 .. m_n_elements' : after[j] = Element(j)'
  BY RingNumbers DEF QueuedSound
<1>5. CASE do_incr
  <2>1. m_n_elements' = n - k /\ m_r_idx' = m_r_idx + k
    <3>1. s_adjust_r = m_r_idx /\ m_r_idx + k <= IdxMax
      BY <1>0, RingNumbers, CBufferAssumption DEF Unadjusted, IndexHasRoom
    <3> QED
      BY <1>0, <1>5, <3>1, RingNumbers, CBufferAssumption DEF s_copyout, Wrap
  <2> DEFINE b == SubSeq(old, k + 1, n)
  <2>2. b \in Seq(V) /\ Len(b) = n - k /\ \A j \in 1 .. n - k : b[j] = old[k + j]
    <3> HIDE DEF old, V
    <3> QED
      BY <1>0, <1>1, Portion
  <2> HIDE DEF b, old, V, after
  <2>3. ASSUME NEW j \in 1 .. n - k
        PROVE  after[j] = b[j]
    <3>1. k + j \in 1 .. n /\ m_r_idx' + j - 1 = m_r_idx + (k + j) - 1
      BY <1>0, <2>1, RingNumbers
    <3>2. b[j] = Element(k + j)
      BY <1>1, <2>2, <3>1
    <3>3. Element(k + j) = m_data[s_data_addr(m_r_idx + (k + j) - 1)]
      BY <1>3, <3>1
    <3>4. after[j] = m_data[s_data_addr(m_r_idx' + j - 1)]
      <4>1. j \in 1 .. m_n_elements' /\ j \in Int
        BY <2>1
      <4> QED
        BY <1>3, <1>4, <4>1
    <3> QED
      BY <3>1, <3>2, <3>3, <3>4
  <2>4. after = b
    BY <1>0, <1>4, <2>1, <2>2, <2>3, SeqEqual
  <2>5. Queued' = SubSeq(Queued, k + 1, Len(Queued))
    BY <1>1, <2>4 DEF after, b, old
  <2> QED
    BY <1>2, <1>5, <2>5 DEF old
<1>6. CASE ~do_incr
  <2>1. m_n_elements' = n /\ m_r_idx' = m_r_idx
    BY <1>6, RingNumbers DEF s_copyout, Unadjusted
  <2> HIDE DEF old, V, after
  <2>2. ASSUME NEW j \in 1 .. n
        PROVE  after[j] = old[j]
    <3>1. j \in Int /\ j \in 1 .. m_n_elements'
      BY <2>1
    <3>2. after[j] = m_data[s_data_addr(m_r_idx' + j - 1)]
      BY <1>3, <1>4, <3>1
    <3>3. old[j] = m_data[s_data_addr(m_r_idx + j - 1)]
      BY <1>1, <1>3, <3>1
    <3> QED
      BY <2>1, <3>2, <3>3
  <2>3. after = old
    BY <1>0, <1>1, <1>4, <2>1, <2>2, SeqEqual
  <2> QED
    BY <1>2, <1>6, <2>3 DEF after, old
<1> QED
  BY <1>5, <1>6

\* s_freeup_all_values finds what is queued, and nothing else.
LEMMA FreesQueued ==
    ASSUME RingInv
    PROVE  FreedValues = {Queued[j] : j \in DOMAIN Queued}
<1>1. /\ m_r_idx \in Int /\ m_n_elements \in Nat /\ m_w_idx = m_r_idx + m_n_elements
      /\ s_adjust_w = m_w_idx /\ s_adjust_r = m_r_idx
  BY NoAdjustment, CBufferAssumption DEF RingInv, TypeInv, TypeOK, Unadjusted
<1>2. FreedValues = {m_data[s_data_addr(i)] : i \in m_r_idx .. m_w_idx - 1}
  BY <1>1 DEF FreedValues
<1>3. DOMAIN Queued = 1 .. m_n_elements /\ \A j \in 1 .. m_n_elements : Queued[j] = Element(j)
  BY QueuedType DEF Queued, QueuedSound, RingInv, TypeInv
<1>4. \A j \in 1 .. m_n_elements : Queued[j] = m_data[s_data_addr(m_r_idx + j - 1)]
  <2> TAKE j \in 1 .. m_n_elements
  <2>1. Queued[j] = Element(j) /\ j \in Int
    BY <1>3
  <2> QED
    BY <2>1, NoAdjustment DEF Unadjusted
<1> HIDE DEF Queued
<1>5. ASSUME NEW j \in DOMAIN Queued
      PROVE  Queued[j] \in FreedValues
  <2>1. m_r_idx + j - 1 \in m_r_idx .. m_w_idx - 1
    BY <1>1, <1>3
  <2> QED
    BY <1>2, <1>3, <1>4, <2>1
<1>6. ASSUME NEW i \in m_r_idx .. m_w_idx - 1
      PROVE  m_data[s_data_addr(i)] \in {Queued[j] : j \in DOMAIN Queued}
  <2>1. i - m_r_idx + 1 \in 1 .. m_n_elements /\ m_r_idx + (i - m_r_idx + 1) - 1 = i
    BY <1>1
  <2>2. Queued[i - m_r_idx + 1] = m_data[s_data_addr(i)]
    BY <1>4, <2>1
  <2> QED
    BY <1>3, <2>1, <2>2
<1> QED
  BY <1>2, <1>5, <1>6

-----------------------------------------------------------------------------
(* The steps of the queue, told of the ring.                               *)

LEMMA AcceptMaps ==
    ASSUME NEW t \in Threads, NEW batch, NEW k,
           m_is_operational \/ k = 0, k <= Len(batch), Len(Queued) + k <= MaxElems,
           Queued' = Queued \o SubSeq(batch, 1, k),
           ToPut' = [ToPut EXCEPT ![t] = SubSeq(batch, k + 1, Len(batch))],
           UNCHANGED <<got, freed, m_is_operational>>
    PROVE  Queue!Accept(t, batch, k)
BY DEF Queue!Accept, Queued, ToPut

LEMMA SubmitMaps ==
    ASSUME NEW t \in Threads, NEW n \in 1 .. MaxVals - made, NEW k \in 0 .. n, ToPut[t] = <<>>,
           made' = made + n, Queue!Accept(t, [i \in 1 .. n |-> made + i], k)
    PROVE  Queue!Next
<1>1. ToPut[t] = SubSeq(call[t].vals, n_copied[t] + 1, Len(call[t].vals))
  BY DEF ToPut
<1>2. Queue!Accept(t, Queue!Fresh(n), k)
  BY DEF Queue!Fresh
<1>3. Queue!Submit(t)
  BY <1>1, <1>2 DEF Queue!Submit, ToPut
<1> QED
  BY <1>3 DEF Queue!Next

LEMMA ContinueMaps ==
    ASSUME NEW t \in Threads, NEW k \in 1 .. Len(ToPut[t]), made' = made, Queue!Accept(t, ToPut[t], k)
    PROVE  Queue!Next
<1>1. Queue!Continue(t)
  BY DEF Queue!Continue, ToPut
<1> QED
  BY <1>1 DEF Queue!Next

LEMMA HandMaps ==
    ASSUME NEW t \in Threads, NEW remove \in BOOLEAN, NEW k \in 1 .. Len(Queued), m_is_operational,
           got' = [got EXCEPT ![t] = @ \o SubSeq(Queued, 1, k)],
           Queued' = IF remove THEN SubSeq(Queued, k + 1, Len(Queued)) ELSE Queued,
           ToPut' = ToPut, UNCHANGED <<made, freed, m_is_operational>>
    PROVE  Queue!Next
<1>1. Queue!Hand(t, remove)
  BY DEF Queue!Hand, ToPut, Queued
<1> QED
  BY <1>1 DEF Queue!Next

LEMMA ReturnMaps ==
    ASSUME NEW t \in Threads, got' = [got EXCEPT ![t] = <<>>], ToPut' = [ToPut EXCEPT ![t] = <<>>],
           Queued' = Queued, UNCHANGED <<made, freed, m_is_operational>>
    PROVE  Queue!Next
<1>1. Queue!Return(t)
  BY DEF Queue!Return, ToPut, Queued
<1> QED
  BY <1>1 DEF Queue!Next

LEMMA EmptyMaps ==
    ASSUME NEW free \in BOOLEAN,
           m_is_operational' = m_is_operational \/ (m_is_operational /\ m_is_operational' = FALSE),
           freed' = IF free THEN freed \cup {Queued[j] : j \in DOMAIN Queued} ELSE freed,
           ToPut' = ToPut, Queued' = <<>>, UNCHANGED <<got, made>>
    PROVE  Queue!Next
<1>1. Queue!Empty(free)
  BY DEF Queue!Empty, Queue!Items, ToPut, Queued
<1>2. Queue!Clear(free) \/ Queue!Close(free)
  BY <1>1 DEF Queue!Clear, Queue!Close
<1> QED
  BY <1>2 DEF Queue!Next

LEMMA StutterMaps ==
    ASSUME ToPut' = ToPut, Queued' = Queued, UNCHANGED <<got, made, freed, m_is_operational>>
    PROVE  UNCHANGED Queue!qvars
BY DEF Queue!qvars, ToPut, Queued

-----------------------------------------------------------------------------
(* The steps of the buffer.                                                *)

Simulates == CallsSound' /\ (Queue!Next \/ UNCHANGED Queue!qvars)

\* The state of the calls that all the steps need.
LEMMA CallTypes ==
    ASSUME TypeInv
    PROVE  /\ call \in [Threads -> CallType] /\ n_copied \in [Threads -> Nat]
           /\ got \in [Threads -> Seq(0 .. MaxVals)] /\ made \in 0 .. MaxVals
           /\ \A t \in Threads : n_copied[t] <= call[t].n /\ CallFits(call[t])
BY DEF TypeInv, TypeOK, CallsFit, CallType

\* The calls of the others go on undisturbed.
LEMMA OneCallSound ==
    ASSUME CallsSound, NEW t \in Threads,
           \A u \in Threads \ {t} : call'[u] = call[u] /\ got'[u] = got[u] /\ (pc'[u] = "idle" => pc[u] = "idle"),
           call'[t].op # "put" => call'[t].vals = <<>>,
           pc'[t] = "idle" => call'[t].op = "none" /\ got'[t] = <<>>
    PROVE  CallsSound'
<1> SUFFICES ASSUME NEW u \in Threads
             PROVE  /\ call'[u].op # "put" => call'[u].vals = <<>>
                    /\ pc'[u] = "idle" => call'[u].op = "none" /\ got'[u] = <<>>
  BY DEF CallsSound
<1>1. CASE u = t
  BY <1>1
<1>2. CASE u # t
  BY <1>2 DEF CallsSound
<1> QED
  BY <1>1, <1>2

\* What a step of t's call has still to put.
LEMMA ToPutOf ==
    ASSUME TypeInv, NEW t \in Threads, NEW c, NEW m,
           call' = [call EXCEPT ![t] = c], n_copied' = [n_copied EXCEPT ![t] = m]
    PROVE  ToPut' = [ToPut EXCEPT ![t] = SubSeq(c.vals, m + 1, Len(c.vals))]
<1>1. ToPut' = [u \in Threads |-> SubSeq(call'[u].vals, n_copied'[u] + 1, Len(call'[u].vals))]
  BY DEF ToPut
<1>2. call'[t] = c /\ n_copied'[t] = m
  BY CallTypes
<1>3. \A u \in Threads \ {t} : call'[u] = call[u] /\ n_copied'[u] = n_copied[u]
  BY CallTypes
<1>4. \A u \in Threads : ToPut[u] = SubSeq(call[u].vals, n_copied[u] + 1, Len(call[u].vals))
  BY DEF ToPut
<1>5. ToPut = [u \in Threads |-> ToPut[u]]
  BY DEF ToPut
<1>6. ToPut' = [u \in Threads |-> IF u = t THEN SubSeq(c.vals, m + 1, Len(c.vals)) ELSE ToPut[u]]
  <2>1. ASSUME NEW u \in Threads
        PROVE  SubSeq(call'[u].vals, n_copied'[u] + 1, Len(call'[u].vals))
                   = IF u = t THEN SubSeq(c.vals, m + 1, Len(c.vals)) ELSE ToPut[u]
    <3>1. CASE u = t
      <4>1. call'[u] = c /\ n_copied'[u] = m
        BY <1>2, <3>1
      <4>2. SubSeq(call'[u].vals, n_copied'[u] + 1, Len(call'[u].vals)) = SubSeq(c.vals, m + 1, Len(c.vals))
        BY <4>1, Zenon
      <4> QED
        BY <3>1, <4>2, Zenon
    <3>2. CASE u # t
      <4>1. call'[u] = call[u] /\ n_copied'[u] = n_copied[u]
        BY <1>3, <3>2
      <4> QED
        BY <1>4, <3>2, <4>1
    <3> QED
      BY <3>1, <3>2
  <2> HIDE DEF ToPut
  <2> QED
    BY <1>1, <2>1
<1> HIDE DEF ToPut
<1> QED
  BY <1>5, <1>6

\* Without values there is nothing to put.
LEMMA NothingToPut ==
    ASSUME NEW m \in Nat
    PROVE  SubSeq(<<>>, m + 1, Len(<<>>)) = <<>>
<1>1. Len(<<>>) = 0 /\ Len(<<>>) < m + 1
  BY EmptySeq
<1> QED
  BY <1>1, SubSeqEmpty

LEMMA NoPutNoValues ==
    ASSUME TypeInv, CallsSound, NEW t \in Threads, call[t].op # "put"
    PROVE  call[t].vals = <<>> /\ ToPut[t] = <<>>
<1>1. call[t].vals = <<>> /\ n_copied[t] \in Nat
  BY CallTypes DEF CallsSound
<1>2. ToPut[t] = SubSeq(call[t].vals, n_copied[t] + 1, Len(call[t].vals))
  BY DEF ToPut
<1> QED
  BY <1>1, <1>2, NothingToPut

\* What the passes leave is not the end of the call.
LEMMA PassGoes ==
    ASSUME TypeInv, NEW t \in Threads, NEW c, NEW d, PutPass(t, c, d) \/ GetPass(t, c, d)
    PROVE  /\ pc'[t] # "idle" /\ \A u \in Threads \ {t} : pc'[u] = pc[u]
           /\ call' = [call EXCEPT ![t] = c] /\ UNCHANGED <<freed, m_is_operational>>
<1>1. \/ \E r : Leave(t, r)
      \/ \E condition \in {"cond_put", "cond_get"} : WaitIO(t, condition)
  BY DEF PutPass, GetPass
<1>2. \E place \in {"done", "cond_put", "cond_get"} : pc' = [pc EXCEPT ![t] = place]
  BY <1>1 DEF Leave, Finish, WaitIO, Sleep
<1>3. pc'[t] # "idle" /\ \A u \in Threads \ {t} : pc'[u] = pc[u]
  BY <1>2 DEF TypeInv, TypeOK
<1> QED
  BY <1>3 DEF PutPass, GetPass

\* One pass of s_put_n brings the next values of the call into the queue.
Brings(t, c, d, k) ==
    /\ m_is_operational \/ k = 0
    /\ Len(Queued) + k <= MaxElems
    /\ Queued' = Queued \o SubSeq(c.vals, d + 1, d + k)
    /\ ToPut' = [ToPut EXCEPT ![t] = SubSeq(c.vals, d + k + 1, Len(c.vals))]
    /\ UNCHANGED <<got, freed, m_is_operational>>

LEMMA PutPassMaps ==
    ASSUME RingInv, RingInv', IndexHasRoom, NEW t \in Threads, NEW c \in CallType, c.op = "put",
           CallFits(c), NEW d \in Nat, d <= c.n, PutPass(t, c, d)
    PROVE  \E k \in 0 .. c.n - d : Brings(t, c, d, k)
<1>1. /\ TypeInv /\ c.n \in Nat /\ c.vals \in Seq(1 .. MaxVals) /\ Len(c.vals) = c.n
      /\ call' = [call EXCEPT ![t] = c] /\ UNCHANGED <<got, freed, m_is_operational>>
  BY DEF RingInv, CallType, CallFits, PutPass
<1>2. QueuedSound /\ TypeOK /\ m_n_elements \in Nat /\ m_n_elements <= MaxElems
  BY RingNumbers
<1>3. CASE ~m_is_operational
  <2>1. n_copied' = [n_copied EXCEPT ![t] = d] /\ UNCHANGED ring
    BY <1>3 DEF PutPass
  <2>2. Queued' = Queued
    BY <2>1 DEF Queued, ring, s_adjust_r, s_data_addr
  <2>3. SubSeq(c.vals, d + 1, d + 0) = <<>>
    BY SubSeqEmpty
  <2>4. Queued \o <<>> = Queued
    BY <1>2, ConcatEmptySeq DEF QueuedSound
  <2>5. ToPut' = [ToPut EXCEPT ![t] = SubSeq(c.vals, d + 0 + 1, Len(c.vals))]
    <3>1. d + 0 + 1 = d + 1
      OBVIOUS
    <3>2. ToPut' = [ToPut EXCEPT ![t] = SubSeq(c.vals, d + 1, Len(c.vals))]
      BY <1>1, <2>1, ToPutOf
    <3> QED
      BY <3>1, <3>2
  <2>6. 0 \in 0 .. c.n - d /\ Len(Queued) + 0 <= MaxElems
    BY <1>1, <1>2 DEF QueuedSound
  <2> QED
    BY <1>1, <2>2, <2>3, <2>4, <2>5, <2>6 DEF Brings
<1>4. CASE m_is_operational
  <2> DEFINE k == CopyinCount(c.n - d)
  <2>1. s_copyin(c.vals, d, k) /\ n_copied' = [n_copied EXCEPT ![t] = d + k]
    BY <1>4 DEF PutPass
  <2>2. k \in 0 .. c.n - d /\ m_n_elements + k \in 0 .. MaxElems
    <3>1. c.n - d \in Nat
      BY <1>1
    <3> QED
      BY <1>2, <3>1, CopyinCountRange
  <2> HIDE DEF k
  <2>5. k \in Nat /\ d + k <= Len(c.vals) /\ m_n_elements + k <= MaxElems
    BY <1>1, <1>2, <2>2
  <2>3. Queued' = Queued \o SubSeq(c.vals, d + 1, d + k)
    BY <1>1, <2>1, <2>5, CopyinQueues
  <2>4. ToPut' = [ToPut EXCEPT ![t] = SubSeq(c.vals, d + k + 1, Len(c.vals))]
    BY <1>1, <2>1, ToPutOf
  <2> QED
    BY <1>1, <1>2, <1>4, <2>2, <2>3, <2>4, <2>5 DEF QueuedSound, Brings
<1> QED
  BY <1>3, <1>4

LEMMA PutMaps ==
    ASSUME QueueInv, RingInv', IndexHasRoom, NEW t \in Threads, NEW mode \in Modes,
           NEW n \in 1 .. MaxReq, Put(t, mode, n)
    PROVE  Simulates
<1> DEFINE vals == [i \in 1 .. n |-> made + i]
           c == [op |-> "put", mode |-> mode, n |-> n, least |-> 0, vals |-> vals]
<1>1. /\ TypeInv /\ RingInv /\ CallsSound /\ pc[t] = "idle" /\ made + n <= MaxVals /\ made' = made + n
      /\ PutPass(t, c, 0)
  BY DEF QueueInv, RingInv, Put
<1>2. made \in 0 .. MaxVals /\ MaxVals \in Nat /\ n \in Nat
  BY <1>1, CallTypes, CBufferAssumption
<1>3. vals \in Seq(1 .. MaxVals) /\ Len(vals) = n
  BY <1>1, <1>2
<1> HIDE DEF vals
<1>4. c \in CallType /\ c.op = "put" /\ c.n = n /\ c.vals = vals /\ CallFits(c)
  BY <1>2, <1>3, CBufferAssumption DEF CallType, CallFits, Callers
<1>5. CallsSound'
  <2>1. call' = [call EXCEPT ![t] = c] /\ got' = got
    BY <1>1 DEF PutPass
  <2>2. call'[t] = c /\ \A u \in Threads \ {t} : call'[u] = call[u]
    BY <1>1, <2>1, CallTypes
  <2> HIDE DEF c
  <2> QED
    BY <1>1, <1>4, <2>1, <2>2, PassGoes, OneCallSound
<1>6. PICK k \in 0 .. n : Brings(t, c, 0, k)
  <2> HIDE DEF c
  <2>1. \E k \in 0 .. c.n - 0 : Brings(t, c, 0, k)
    BY <1>1, <1>2, <1>4, PutPassMaps
  <2> QED
    BY <1>2, <1>4, <2>1
<1>7. Queue!Accept(t, vals, k)
  <2>1. 0 + 1 = 1 /\ 0 + k = k /\ 0 + k + 1 = k + 1 /\ k <= Len(vals)
    BY <1>2, <1>3
  <2> QED
    BY <1>4, <1>6, <2>1, AcceptMaps DEF Brings
<1>8. ToPut[t] = <<>>
  BY <1>1, NoPutNoValues DEF CallsSound
<1>9. n \in 1 .. MaxVals - made
  BY <1>1, <1>2
<1>10. Queue!Next
  BY <1>1, <1>7, <1>8, <1>9, SubmitMaps DEF vals
<1> QED
  BY <1>5, <1>10 DEF Simulates

LEMMA PutAgainMaps ==
    ASSUME QueueInv, RingInv', IndexHasRoom, NEW t \in Threads, call[t].op = "put", pc[t] # "idle",
           made' = made, PutPass(t, call[t], n_copied[t])
    PROVE  Simulates
<1> DEFINE c == call[t]
           d == n_copied[t]
<1>1. /\ TypeInv /\ RingInv /\ CallsSound /\ c \in CallType /\ CallFits(c) /\ d \in Nat /\ d <= c.n
      /\ c.n \in Nat /\ c.vals \in Seq(1 .. MaxVals) /\ Len(c.vals) = c.n
  BY CallTypes DEF QueueInv, RingInv, CallType, CallFits
<1>2. CallsSound'
  <2>1. call' = [call EXCEPT ![t] = c] /\ got' = got
    BY DEF PutPass
  <2>2. call' = call
    BY <1>1, <2>1, CallTypes
  <2> QED
    BY <1>1, <2>1, <2>2, PassGoes, OneCallSound
<1>3. ToPut[t] = SubSeq(c.vals, d + 1, Len(c.vals))
  BY DEF ToPut
<1> HIDE DEF c, d
<1>4. PICK k \in 0 .. c.n - d : Brings(t, c, d, k)
  <2>1. c.op = "put" /\ PutPass(t, c, d)
    BY DEF c, d
  <2> QED
    BY <1>1, <2>1, PutPassMaps
<1>5. k \in Nat /\ d + k <= Len(c.vals)
  BY <1>1
<1>6. /\ Len(ToPut[t]) = Len(c.vals) - d /\ SubSeq(ToPut[t], 1, k) = SubSeq(c.vals, d + 1, d + k)
      /\ SubSeq(ToPut[t], k + 1, Len(ToPut[t])) = SubSeq(c.vals, d + k + 1, Len(c.vals))
  <2> DEFINE Values == 1 .. MaxVals
             rest == SubSeq(c.vals, d + 1, Len(c.vals))
  <2>1. c.vals \in Seq(Values)
    BY <1>1
  <2> HIDE DEF Values
  <2>2. /\ Len(rest) = Len(c.vals) - d /\ SubSeq(rest, 1, k) = SubSeq(c.vals, d + 1, d + k)
        /\ SubSeq(rest, k + 1, Len(rest)) = SubSeq(c.vals, d + k + 1, Len(c.vals))
    BY <1>1, <1>5, <2>1, RestOfRest
  <2>3. ToPut[t] = rest
    BY <1>3
  <2> HIDE DEF rest
  <2> QED
    BY <2>2, <2>3
<1>7. k <= Len(ToPut[t])
  BY <1>1, <1>6
<1>10. made' = made
  OBVIOUS
<1>8. CASE k = 0
  <2>1. SubSeq(c.vals, d + 1, d + k) = <<>>
    BY <1>1, <1>8, SubSeqEmpty
  <2>2. Queued \o <<>> = Queued
    BY <1>1, RingNumbers, ConcatEmptySeq DEF QueuedSound
  <2>3. d + k + 1 = d + 1
    BY <1>1, <1>8
  <2>4. ToPut' = ToPut
    BY <1>3, <1>4, <2>3 DEF ToPut, Brings
  <2>5. UNCHANGED Queue!qvars
    BY <1>4, <1>10, <2>1, <2>2, <2>4, StutterMaps DEF Brings
  <2> QED
    BY <1>2, <2>5 DEF Simulates
<1>9. CASE k # 0
  <2>1. Queue!Accept(t, ToPut[t], k)
    BY <1>4, <1>6, <1>7, AcceptMaps DEF Brings
  <2>2. k \in 1 .. Len(ToPut[t])
    BY <1>5, <1>6, <1>7, <1>9
  <2>3. Queue!Next
    BY <2>1, <2>2, ContinueMaps
  <2> QED
    BY <1>2, <2>3 DEF Simulates
<1> QED
  BY <1>8, <1>9

\* One pass of s_get_n hands out the oldest values, and a peek leaves them.
LEMMA GetPassMaps ==
    ASSUME QueueInv, RingInv', IndexHasRoom, NEW t \in Threads, NEW c \in CallType,
           c.op \in {"get", "peek"}, c.vals = <<>>, NEW d \in Nat, d <= c.n, ToPut[t] = <<>>,
           made' = made, GetPass(t, c, d)
    PROVE  Simulates
<1>1. /\ TypeInv /\ RingInv /\ CallsSound /\ c.n \in Nat
      /\ call' = [call EXCEPT ![t] = c] /\ UNCHANGED <<freed, m_is_operational>>
      /\ \A u \in Threads \ {t} : got'[u] = got[u]
  BY CallTypes DEF QueueInv, RingInv, CallType, GetPass
<1>2. CallsSound'
  <2>1. call'[t] = c /\ \A u \in Threads \ {t} : call'[u] = call[u]
    BY <1>1, CallTypes
  <2> QED
    BY <1>1, <2>1, PassGoes, OneCallSound
<1>3. QueuedSound /\ TypeOK /\ m_n_elements \in Nat
  BY <1>1, RingNumbers
<1>4. ASSUME NEW m \in Nat, n_copied' = [n_copied EXCEPT ![t] = m]
      PROVE  ToPut' = ToPut
  <2>1. ToPut' = [ToPut EXCEPT ![t] = SubSeq(c.vals, m + 1, Len(c.vals))]
    BY <1>1, <1>4, ToPutOf
  <2>2. SubSeq(c.vals, m + 1, Len(c.vals)) = ToPut[t]
    BY NothingToPut
  <2> QED
    BY <2>1, <2>2 DEF ToPut
<1>5. CASE ~m_is_operational
  <2>1. n_copied' = [n_copied EXCEPT ![t] = d] /\ UNCHANGED ring /\ got' = got
    BY <1>5 DEF GetPass
  <2>2. Queued' = Queued
    BY <2>1 DEF Queued, ring, s_adjust_r, s_data_addr
  <2>3. UNCHANGED Queue!qvars
    BY <1>1, <1>4, <2>1, <2>2, StutterMaps
  <2> QED
    BY <1>2, <2>3 DEF Simulates
<1>6. CASE m_is_operational
  <2> DEFINE k == CopyoutCount(c.n - d)
             do_incr == c.op = "get"
  <2>1. /\ s_copyout(k, do_incr) /\ n_copied' = [n_copied EXCEPT ![t] = d + k]
        /\ got' = [got EXCEPT ![t] = @ \o CopyoutData(k)]
    BY <1>6 DEF GetPass
  <2>2. k \in 0 .. c.n - d /\ m_n_elements - k \in 0 .. MaxElems
    <3>1. c.n - d \in Nat
      BY <1>1
    <3> QED
      BY <1>3, <3>1, CopyoutCountRange
  <2> HIDE DEF k
  <2>3. k \in Nat /\ d + k \in Nat /\ k \in 0 .. m_n_elements /\ do_incr \in BOOLEAN
    BY <1>3, <2>2, AllocdNat
  <2> HIDE DEF do_incr
  <2>4. /\ CopyoutData(k) = SubSeq(Queued, 1, k)
        /\ Queued' = IF do_incr THEN SubSeq(Queued, k + 1, Len(Queued)) ELSE Queued
    BY <1>1, <2>1, <2>3, CopyoutQueues
  <2>5. ToPut' = ToPut
    BY <1>4, <2>1, <2>3
  <2>6. CASE k = 0
    <3>1. SubSeq(Queued, k + 1, Len(Queued)) = Queued
      BY <1>3, <2>6, SubSeqFull DEF QueuedSound
    <3>2. Queued' = Queued
      BY <2>4, <3>1
    <3>3. CopyoutData(k) = <<>>
      BY <2>4, <2>6, SubSeqEmpty
    <3>4. got[t] \o <<>> = got[t]
      BY <1>1, CallTypes, ConcatEmptySeq
    <3>5. got' = got
      BY <1>1, <2>1, <3>3, <3>4, CallTypes
    <3>6. UNCHANGED Queue!qvars
      BY <1>1, <2>5, <3>2, <3>5, StutterMaps
    <3> QED
      BY <1>2, <3>6 DEF Simulates
  <2>7. CASE k # 0
    <3>1. k \in 1 .. Len(Queued)
      BY <1>3, <2>3, <2>7 DEF QueuedSound
    <3>2. got' = [got EXCEPT ![t] = @ \o SubSeq(Queued, 1, k)]
      BY <2>1, <2>4
    <3>3. Queue!Next
      BY <1>1, <1>6, <2>3, <2>4, <2>5, <3>1, <3>2, HandMaps
    <3> QED
      BY <1>2, <3>3 DEF Simulates
  <2> QED
    BY <2>6, <2>7
<1> QED
  BY <1>5, <1>6

LEMMA GetMaps ==
    ASSUME QueueInv, RingInv', IndexHasRoom, NEW t \in Threads, NEW mode \in Modes,
           NEW op \in {"get", "peek"}, NEW n \in Nat, NEW least \in Nat, Get(t, op, mode, n, least)
    PROVE  Simulates
<1> DEFINE c == [op |-> op, mode |-> mode, n |-> n, least |-> least, vals |-> <<>>]
<1>1. TypeInv /\ CallsSound /\ pc[t] = "idle" /\ made' = made /\ GetPass(t, c, 0)
  BY DEF QueueInv, RingInv, Get
<1>2. c \in CallType /\ c.op = op /\ c.n = n /\ c.vals = <<>> /\ 0 <= n
  BY CBufferAssumption, EmptySeq DEF CallType, Callers
<1>3. ToPut[t] = <<>>
  BY <1>1, NoPutNoValues DEF CallsSound
<1> HIDE DEF c
<1> QED
  BY <1>1, <1>2, <1>3, GetPassMaps

\* The waits that came to their end: what they do to the queue is what their passes do.
LEMMA RecheckMaps ==
    ASSUME QueueInv, RingInv', IndexHasRoom, NEW t \in Threads, Recheck(t)
    PROVE  Simulates
<1>1. TypeInv /\ CallsSound /\ WaitsIO(t) /\ pc[t] # "idle" /\ made' = made
  BY DEF QueueInv, RingInv, Recheck, WaitsIO
<1>2. CASE call[t].op = "put" /\ PutPass(t, call[t], n_copied[t])
  BY <1>1, <1>2, PutAgainMaps
<1>3. CASE call[t].op \in {"get", "peek"} /\ GetPass(t, call[t], n_copied[t])
  <2>1. call[t] \in CallType /\ n_copied[t] \in Nat /\ n_copied[t] <= call[t].n
    BY <1>1, CallTypes
  <2>2. call[t].vals = <<>> /\ ToPut[t] = <<>>
    BY <1>1, <1>3, NoPutNoValues
  <2> QED
    BY <1>1, <1>3, <2>1, <2>2, GetPassMaps
<1>4. CASE /\ \E r : Leave(t, r)
           /\ UNCHANGED <<ring, m_is_operational, call, n_copied, got, freed>>
  <2>1. pc' = [pc EXCEPT ![t] = "done"]
    BY <1>4 DEF Leave, Finish
  <2>2. UNCHANGED <<call, n_copied, got, freed, m_is_operational, made>> /\ UNCHANGED ring
    BY <1>1, <1>4
  <2>3. pc'[t] # "idle" /\ \A u \in Threads \ {t} : pc'[u] = pc[u]
    BY <1>1, <2>1 DEF TypeInv, TypeOK
  <2>4. CallsSound'
    BY <1>1, <2>2, <2>3 DEF CallsSound
  <2>5. ToPut' = ToPut /\ Queued' = Queued
    BY <2>2 DEF ToPut, Queued, ring, s_adjust_r, s_data_addr
  <2> QED
    BY <2>2, <2>4, <2>5, StutterMaps DEF Simulates
<1> QED
  BY <1>2, <1>3, <1>4 DEF Recheck

\* The calls that move no element have nothing to put, and the buffer does not notice them.
LEMMA WaitMaps ==
    ASSUME QueueInv, NEW t \in Threads, NEW mode,
           WaitGettable(t, mode) \/ WaitPuttable(t, mode) \/ Wakeup(t, mode)
    PROVE  Simulates
<1>1. TypeInv /\ CallsSound
  BY DEF QueueInv, RingInv
<1>2. /\ pc[t] = "idle"
      /\ \E op \in {"wait_gettable", "wait_puttable", "wakeup"} : call' = [call EXCEPT ![t] = PlainCall(op, mode)]
      /\ \E place \in {"done", "cond_get", "cond_put", "cond_awakened"} : pc' = [pc EXCEPT ![t] = place]
      /\ UNCHANGED <<ring, m_is_operational, n_copied, got, made, freed>>
  BY DEF WaitGettable, WaitPuttable, WaitReady, Wakeup, Leave, Finish, WaitIO, Sleep
<1>3. PICK op \in {"wait_gettable", "wait_puttable", "wakeup"} : call' = [call EXCEPT ![t] = PlainCall(op, mode)]
  BY <1>2
<1>4. PlainCall(op, mode).vals = <<>>
  BY DEF PlainCall
<1>5. pc'[t] # "idle" /\ \A u \in Threads \ {t} : pc'[u] = pc[u]
  BY <1>1, <1>2 DEF TypeInv, TypeOK
<1>6. CallsSound'
  <2>1. call'[t] = PlainCall(op, mode) /\ \A u \in Threads \ {t} : call'[u] = call[u]
    BY <1>1, <1>3, CallTypes
  <2> QED
    BY <1>1, <1>2, <1>4, <1>5, <2>1, OneCallSound
<1>7. ToPut' = ToPut
  <2>1. n_copied[t] \in Nat /\ n_copied' = [n_copied EXCEPT ![t] = n_copied[t]]
    BY <1>1, <1>2, CallTypes
  <2>2. ToPut' = [ToPut EXCEPT ![t] = SubSeq(<<>>, n_copied[t] + 1, Len(<<>>))]
    BY <1>1, <1>3, <1>4, <2>1, ToPutOf
  <2>3. SubSeq(<<>>, n_copied[t] + 1, Len(<<>>)) = ToPut[t]
    BY <1>1, <1>2, <2>1, NothingToPut, NoPutNoValues DEF CallsSound
  <2> QED
    BY <2>2, <2>3 DEF ToPut
<1>8. Queued' = Queued
  BY <1>2 DEF Queued, ring, s_adjust_r, s_data_addr
<1> QED
  BY <1>2, <1>6, <1>7, <1>8, StutterMaps DEF Simulates

\* Nor does it notice who wakes up, by itself or from a wait, and leaves.
LEMMA WakesMaps ==
    ASSUME QueueInv, NEW t \in Threads,
           \/ AwakenedExit(t) \/ TimedOutExit(t) \/ WakerRecheck(t)
           \/ Expire(t) \/ SpuriousWakeup(t)
    PROVE  Simulates
<1>1. TypeInv /\ CallsSound
  BY DEF QueueInv, RingInv
<1>2. UNCHANGED <<ring, m_is_operational, call, n_copied, got, made, freed>>
  BY DEF AwakenedExit, TimedOutExit, WakerRecheck, Expire, SpuriousWakeup, flags
<1>3. pc' = pc \/ \E place \in {"done", "cond_awakened"} : pc' = [pc EXCEPT ![t] = place]
  BY DEF AwakenedExit, TimedOutExit, WakerRecheck, Expire, SpuriousWakeup, Leave, Finish, Sleep
<1>4. \A u \in Threads : pc'[u] = "idle" => pc[u] = "idle"
  BY <1>1, <1>3 DEF TypeInv, TypeOK
<1>5. CallsSound'
  BY <1>1, <1>2, <1>4 DEF CallsSound
<1>6. ToPut' = ToPut /\ Queued' = Queued
  BY <1>2 DEF ToPut, Queued, ring, s_adjust_r, s_data_addr
<1> QED
  BY <1>2, <1>5, <1>6, StutterMaps DEF Simulates

\* A call that ends, or is cancelled, drops what it has not put.
LEMMA ReturnsMaps ==
    ASSUME QueueInv, NEW t \in Threads, Return(t) \/ Cancel(t)
    PROVE  Simulates
<1>1. TypeInv /\ CallsSound
  BY DEF QueueInv, RingInv
<1>2. /\ \E place \in {"idle", "gone"} : pc' = [pc EXCEPT ![t] = place]
      /\ call' = [call EXCEPT ![t] = NoCall] /\ n_copied' = [n_copied EXCEPT ![t] = 0]
      /\ got' = [got EXCEPT ![t] = <<>>] /\ UNCHANGED <<ring, made, freed, m_is_operational>>
  BY DEF Return, Cancel, flags
<1>3. NoCall.vals = <<>> /\ NoCall.op = "none"
  BY DEF NoCall, PlainCall
<1>4. CallsSound'
  <2>1. /\ call'[t] = NoCall /\ got'[t] = <<>>
        /\ \A u \in Threads \ {t} : call'[u] = call[u] /\ got'[u] = got[u]
    BY <1>1, <1>2, CallTypes
  <2>2. \A u \in Threads \ {t} : pc'[u] = pc[u]
    BY <1>1, <1>2 DEF TypeInv, TypeOK
  <2> QED
    BY <1>1, <1>3, <2>1, <2>2, OneCallSound
<1>5. ToPut' = [ToPut EXCEPT ![t] = <<>>]
  <2>1. ToPut' = [ToPut EXCEPT ![t] = SubSeq(NoCall.vals, 0 + 1, Len(NoCall.vals))]
    BY <1>1, <1>2, ToPutOf
  <2>2. SubSeq(<<>>, 0 + 1, Len(<<>>)) = <<>>
    BY NothingToPut
  <2> QED
    BY <1>3, <2>1, <2>2
<1>6. Queued' = Queued
  BY <1>2 DEF Queued, ring, s_adjust_r, s_data_addr
<1>7. Queue!Next
  BY <1>2, <1>5, <1>6, ReturnMaps
<1> QED
  BY <1>4, <1>7 DEF Simulates

\* s_clean empties the queue, and frees what was in it.
LEMMA CleanMaps ==
    ASSUME QueueInv, NEW free_values \in FreeValues, Clear(free_values) \/ Shutdown(free_values)
    PROVE  Simulates
<1>1. TypeInv /\ RingInv /\ CallsSound /\ free_values \in BOOLEAN
  BY CBufferAssumption DEF QueueInv, RingInv
<1>2. /\ s_clean(free_values) /\ UNCHANGED <<pc, call, n_copied, got, made>>
      /\ m_is_operational' = m_is_operational \/ (m_is_operational /\ m_is_operational' = FALSE)
  BY DEF Clear, Shutdown, flags
<1>3. freed' = IF free_values THEN freed \cup {Queued[j] : j \in DOMAIN Queued} ELSE freed
  BY <1>1, <1>2, FreesQueued DEF s_clean
<1>4. Queued' = <<>>
  <2>1. m_n_elements' = 0
    BY <1>2 DEF s_clean
  <2>2. 1 .. m_n_elements' = {}
    BY <2>1
  <2>3. Queued' = [i \in 1 .. m_n_elements' |-> Queued'[i]]
    BY DEF Queued
  <2> HIDE DEF Queued
  <2> QED
    BY <2>1, <2>2, <2>3
<1>5. ToPut' = ToPut /\ CallsSound'
  BY <1>1, <1>2 DEF ToPut, CallsSound
<1>6. Queue!Next
  BY <1>1, <1>2, <1>3, <1>4, <1>5, EmptyMaps
<1> QED
  BY <1>5, <1>6 DEF Simulates

LEMMA QueueStep ==
    ASSUME QueueInv, RingInv', IndexHasRoom, [Next]_vars
    PROVE  Simulates
<1>1. ASSUME NEW t \in Threads, CallStep(t)
      PROVE  Simulates
  <2>1. PICK mode \in Modes :
          \/ \E n \in 1 .. MaxReq : Put(t, mode, n)
          \/ \E n \in Nat, least \in Nat, op \in {"get", "peek"} : Get(t, op, mode, n, least)
          \/ WaitGettable(t, mode) \/ WaitPuttable(t, mode) \/ Wakeup(t, mode)
    BY <1>1, CBufferAssumption DEF CallStep
  <2> QED
    BY <2>1, PutMaps, GetMaps, WaitMaps
<1>2. ASSUME NEW t \in Threads, Resume(t)
      PROVE  Simulates
  BY <1>2, RecheckMaps, WakesMaps DEF Resume
<1>3. ASSUME NEW t \in Threads, Return(t) \/ Cancel(t)
      PROVE  Simulates
  BY <1>3, ReturnsMaps
<1>4. ASSUME NEW t \in Threads, Expire(t) \/ SpuriousWakeup(t)
      PROVE  Simulates
  BY <1>4, WakesMaps
<1>5. ASSUME NEW free_values \in FreeValues, Clear(free_values) \/ Shutdown(free_values)
      PROVE  Simulates
  BY <1>5, CleanMaps
<1>6. CASE UNCHANGED vars
  <2>1. UNCHANGED <<ring, m_is_operational, pc, call, n_copied, got, made, freed>>
    BY <1>6 DEF vars, flags
  <2>2. ToPut' = ToPut /\ Queued' = Queued /\ CallsSound'
    BY <2>1 DEF ToPut, Queued, ring, s_adjust_r, s_data_addr, QueueInv, CallsSound
  <2> QED
    BY <2>1, <2>2, StutterMaps DEF Simulates
<1> QED
  BY <1>1, <1>2, <1>3, <1>4, <1>5, <1>6 DEF Next

LEMMA QueueInit == Init => QueueInv /\ Queue!Init
<1> SUFFICES ASSUME Init PROVE QueueInv /\ Queue!Init
  OBVIOUS
<1>1. RingInv
  BY TypeInit DEF Init, RingInv
<1>2. CallsSound
  BY DEF Init, CallsSound, NoCall, PlainCall
<1>3. \A t \in Threads : SubSeq(call[t].vals, n_copied[t] + 1, Len(call[t].vals)) = <<>>
  <2>1. \A t \in Threads : call[t].vals = <<>> /\ n_copied[t] = 0
    BY DEF Init, NoCall, PlainCall
  <2>2. SubSeq(<<>>, 0 + 1, Len(<<>>)) = <<>>
    BY NothingToPut
  <2> QED
    BY <2>1, <2>2
<1>4. Queued = <<>>
  <2>1. Queued \in Seq(0 .. MaxVals) /\ Len(Queued) = 0
    BY <1>1, QueuedType DEF Init, QueuedSound, RingInv, TypeInv
  <2> QED
    BY <2>1, EmptySeq
<1>5. Queue!Init
  BY <1>3, <1>4 DEF Init, Queue!Init, Queued
<1> QED
  BY <1>1, <1>2, <1>5 DEF QueueInv

\* As long as the 64-bit write index has room the ring is a first-in first-out queue: whatever puts,
\* gets and peeks do, in how many passes and with what interruptions, each value enters the queue
\* after those before it in its batch and leaves it in that order, to one caller, to a clear or to
\* the shutdown (s_copyin, s_copyout, s_clean), for any capacity, callers and values.
THEOREM QueueImplemented == Spec /\ []IndexHasRoom => ImplementsQueue
<1>1. Init => QueueInv /\ Queue!Init
  BY QueueInit
<1>2. QueueInv /\ IndexHasRoom /\ [Next]_vars => QueueInv' /\ [Queue!Next]_(Queue!qvars)
  <2> SUFFICES ASSUME QueueInv, IndexHasRoom, [Next]_vars
               PROVE  QueueInv' /\ [Queue!Next]_(Queue!qvars)
    OBVIOUS
  <2>1. RingInv'
    BY RingStep DEF QueueInv
  <2>2. Simulates
    BY <2>1, QueueStep
  <2> QED
    BY <2>1, <2>2 DEF Simulates, QueueInv
<1> QED
  BY <1>1, <1>2, PTL DEF Spec, ImplementsQueue, Queue!Spec

=============================================================================
