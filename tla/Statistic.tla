----------------------------- MODULE Statistic ------------------------------
(***************************************************************************)
(* One name of src/framework/lib/statistic.c: a statistic is created under *)
(* the name, found, fed, read, reset and destroyed by several threads.     *)
(*                                                                         *)
(* The table is a hash map, whose calls are atomic (module HashMap).  The  *)
(* five counters have no lock: every atomic operation, and every store of  *)
(* a reset, is a step.  They have the width of int64_t scaled down, and    *)
(* wrap around.                                                            *)
(***************************************************************************)
EXTENDS Results, SequencesExt

CONSTANTS
    Users,
    Values,      \* what is recorded
    Half,        \* 2^63: the counters are in -Half .. Half - 1
    MaxSamples   \* bound: the values recorded since the last reset

LLONG_MAX == Half - 1
LLONG_MIN == -Half

ASSUME StatisticAssumption ==
    /\ Half \in Nat \ {0}
    /\ Values \subseteq LLONG_MIN .. LLONG_MAX
    /\ MaxSamples \in Nat

VARIABLES
    registered,   \* s_stat_tbl has the name
    s,            \* the counters of the statistic
    holds,        \* the users that have a pointer to it
    call,         \* of each user the call that he is in, and how far
    samples,      \* history: how often each value was recorded since the last reset
    mixed,        \* history: a reset and a record, or another reset, have overlapped
    alone,        \* history: the users that have begun to read since the last of these began
    answer        \* history: what their readings were computed from

history == <<samples, mixed, alone, answer>>
vars == <<registered, s, holds, call, history>>

Fields == <<"m_n", "m_min", "m_max", "m_sum", "m_sum2">>
Idle == [op |-> "none"]
Nothing == [n |-> 0, sum |-> 0, sum2 |-> 0]
None == [v \in Values |-> 0]
Freed == [f \in Range(Fields) |-> 0]

In(op) == {u \in Users : call[u].op = op}
Free(u) == call[u] = Idle
Goes(u, c) == call' = [call EXCEPT ![u] = c]

Size(bag) == MapThenSumSet(LAMBDA v : bag[v], Values)

\* Two's complement.
Wrap(x) == ((x + Half) % (2 * Half)) - Half

Init ==
    /\ registered = FALSE
    /\ s = Freed
    /\ holds = {}
    /\ call = [u \in Users |-> Idle]
    /\ samples = None /\ mixed = FALSE
    /\ alone = {} /\ answer = [u \in Users |-> Nothing]

-----------------------------------------------------------------------------
(* s_reset_stat: five plain stores.                                        *)

\* From now on nobody reads alone.
Disturbs == alone' = {} /\ answer' = [u \in Users |-> Nothing]

Cleared == [m_n |-> 0, m_min |-> LLONG_MAX, m_max |-> LLONG_MIN, m_sum |-> 0, m_sum2 |-> 0]

BeginsReset(u) ==
    /\ Goes(u, [op |-> "reset", at |-> 1])
    /\ mixed' = (In("record") \cup In("reset") # {})
    /\ Disturbs

Reset(u) ==
    /\ Free(u) /\ u \in holds
    /\ BeginsReset(u)
    /\ UNCHANGED <<registered, s, holds, samples>>

Store(f) == s' = [s EXCEPT ![f] = Cleared[f]]

ResetStores(u) ==
    LET i == call[u].at IN
    /\ call[u].op = "reset"
    /\ Store(Fields[i])
    /\ IF i < Len(Fields)
       THEN Goes(u, [op |-> "reset", at |-> i + 1]) /\ UNCHANGED <<samples, holds>>
       ELSE Goes(u, Idle) /\ samples' = None /\ holds' = holds \cup {u}
    /\ UNCHANGED <<registered, mixed, alone, answer>>

-----------------------------------------------------------------------------
(* The table.                                                              *)

\* gallus_statistic_create adds the statistic, whose memory nobody has set, to the
\* table, and then resets it.
Create(u) ==
    /\ Free(u) /\ ~registered
    /\ registered' = TRUE
    /\ \E junk \in {0, LLONG_MIN} : s' = [f \in Range(Fields) |-> junk]
    /\ BeginsReset(u)
    /\ UNCHANGED <<holds, samples>>

\* gallus_statistic_find.
Find(u) ==
    /\ Free(u) /\ registered
    /\ holds' = holds \cup {u}
    /\ UNCHANGED <<registered, s, call, history>>

\* s_destroy_stat.  What the callers owe: nobody is in a call for the statistic, and
\* nobody uses his pointer any more.
Destroys ==
    /\ registered /\ \A v \in Users : Free(v)
    /\ registered' = FALSE
    /\ holds' = {}
    /\ s' = Freed /\ samples' = None /\ mixed' = FALSE
    /\ Disturbs
    /\ UNCHANGED call

Destroy(u) == u \in holds /\ Destroys

\* It is found by its name first.
DestroyByName == Destroys

-----------------------------------------------------------------------------
(* s_record_stat.                                                          *)

Record(u, val) ==
    /\ Free(u) /\ u \in holds
    /\ Size(samples) + Cardinality(In("record")) < MaxSamples
    /\ Goes(u, [op |-> "record", val |-> val, at |-> "m_n"])
    /\ mixed' = (mixed \/ In("reset") # {})
    /\ Disturbs
    /\ UNCHANGED <<registered, s, holds, samples>>

\* The three __sync_add_and_fetch.
Increment(u) == [m_n |-> 1, m_sum |-> call[u].val, m_sum2 |-> call[u].val * call[u].val]
NextField == [m_n |-> "m_sum", m_sum |-> "m_sum2", m_sum2 |-> "m_min"]

RecordAdds(u) ==
    LET f == call[u].at IN
    /\ call[u].op = "record" /\ f \in DOMAIN NextField
    /\ s' = [s EXCEPT ![f] = Wrap(@ + Wrap(Increment(u)[f]))]
    /\ Goes(u, [call[u] EXCEPT !.at = NextField[f]])
    /\ UNCHANGED <<registered, holds, history>>

\* gallus_atomic_update_min and _max read the counter ...
RecordLoads(u) ==
    LET f == call[u].at IN
    /\ call[u].op = "record" /\ f \in {"m_min", "m_max"}
    /\ Goes(u, [op |-> "record", val |-> call[u].val, at |-> "update", field |-> f, tmp |-> s[f]])
    /\ UNCHANGED <<registered, s, holds, history>>

\* The value belongs into the counter that has been read.
Replaces(c) ==
    \/ c.tmp = Cleared[c.field]
    \/ IF c.field = "m_min" THEN c.tmp > c.val ELSE c.tmp < c.val

\* The update of the least value is followed by that of the greatest, which ends the call.
Updated(u) ==
    IF call[u].field = "m_min"
    THEN Goes(u, [op |-> "record", val |-> call[u].val, at |-> "m_max"]) /\ UNCHANGED samples
    ELSE Goes(u, Idle) /\ samples' = [samples EXCEPT ![call[u].val] = @ + 1]

\* Mutant: a failed exchange is not tried again.
Exchange_Once(u) ==
    LET c == call[u] IN
    /\ s' = IF s[c.field] = c.tmp THEN [s EXCEPT ![c.field] = c.val] ELSE s
    /\ Updated(u)

\* __sync_val_compare_and_swap; when another one was faster, once more with his value.
Exchange(u) ==
    LET c == call[u] IN
    IF s[c.field] = c.tmp
    THEN s' = [s EXCEPT ![c.field] = c.val] /\ Updated(u)
    ELSE Goes(u, [c EXCEPT !.tmp = s[c.field]]) /\ UNCHANGED <<s, samples>>

\* ... and replace it, as long as the value belongs there.
RecordUpdates(u) ==
    /\ call[u].op = "record" /\ call[u].at = "update"
    /\ IF Replaces(call[u]) THEN Exchange(u) ELSE Updated(u) /\ UNCHANGED s
    /\ UNCHANGED <<registered, holds, mixed, alone, answer>>

-----------------------------------------------------------------------------
(* gallus_statistic_average and _sd.                                       *)

\* m_n is read first.
Read(u) ==
    /\ Free(u) /\ u \in holds
    /\ Goes(u, [op |-> "read", n |-> s.m_n])
    /\ alone' = IF In("record") \cup In("reset") = {} THEN alone \cup {u} ELSE alone
    /\ UNCHANGED <<registered, s, holds, answer, samples, mixed>>

HasSum(n) == n > 0

\* The reading is over; what it was computed from is noted if nothing has disturbed it.
Answers(u, a) ==
    /\ Goes(u, Idle)
    /\ answer' = [answer EXCEPT ![u] = IF u \in alone THEN a ELSE Nothing]

\* Then the sum, unless there is nothing to divide by ...
ReadSum(u) ==
    /\ call[u].op = "read"
    /\ IF HasSum(call[u].n)
       THEN Goes(u, [op |-> "read2", n |-> call[u].n, sum |-> s.m_sum]) /\ UNCHANGED answer
       ELSE Answers(u, Nothing)
    /\ UNCHANGED <<registered, s, holds, samples, mixed, alone>>

\* ... and for the deviation the sum of the squares.
ReadSum2(u) ==
    /\ call[u].op = "read2"
    /\ Answers(u, [n |-> call[u].n, sum |-> call[u].sum, sum2 |-> s.m_sum2])
    /\ UNCHANGED <<registered, s, holds, samples, mixed, alone>>

-----------------------------------------------------------------------------
Records(u) == RecordAdds(u) \/ RecordLoads(u) \/ RecordUpdates(u)
Steps(u) == ResetStores(u) \/ Records(u) \/ ReadSum(u) \/ ReadSum2(u)

Next == \E u \in Users :
    \/ Create(u) \/ Find(u) \/ Destroy(u) \/ DestroyByName \/ Reset(u) \/ Read(u)
    \/ \E val \in Values : Record(u, val)
    \/ Steps(u)

Spec == Init /\ [][Next]_vars

-----------------------------------------------------------------------------
Total(bag) == MapThenSumSet(LAMBDA v : bag[v] * v, Values)
Squares(bag) == MapThenSumSet(LAMBDA v : bag[v] * v * v, Values)
Recorded == {v \in Values : samples[v] > 0}

\* Once everybody is through, the counters are those of the values recorded since the
\* last reset, whatever the order of the steps of their calls: no addition, no minimum
\* and no maximum is lost.  (A reset that overlaps a record leaves half of it behind.)
Settled ==
    registered /\ In("record") \cup In("reset") = {} /\ ~mixed =>
        /\ s.m_n = Size(samples)
        /\ s.m_sum = Wrap(Total(samples)) /\ s.m_sum2 = Wrap(Squares(samples))
        /\ s.m_min = Min(Recorded \cup {LLONG_MAX})
        /\ s.m_max = Max(Recorded \cup {LLONG_MIN})

\* An average or a deviation is that of the values recorded, when nothing was recorded or
\* reset while it was read.
ReadsExact ==
    \A u \in alone : Free(u) /\ registered /\ ~mixed =>
        answer[u] = [n |-> Size(samples), sum |-> Wrap(Total(samples)),
                     sum2 |-> Wrap(Squares(samples))]

\* The counters and what is read of them are exact whenever they can be.
CountersExact == Settled /\ ReadsExact
=============================================================================
