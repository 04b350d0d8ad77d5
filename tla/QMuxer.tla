------------------------------- MODULE QMuxer -------------------------------
(***************************************************************************)
(* The queue multiplexer: src/framework/lib/qmuxer.c, qpoll.c and the part *)
(* of cbuffer.c that serves them.                                          *)
(*                                                                         *)
(* Pollers wait for events on several queues at once.  A queue has one     *)
(* place for the multiplexer to notify, filled in by the look before the   *)
(* wait and emptied by the look after it; the looks take the lock of one   *)
(* queue after the other.  Of a queue only the number of elements is kept: *)
(* module CBuffer has the rest.                                            *)
(***************************************************************************)
EXTENDS Integers, Sequences, FiniteSets

CONSTANTS
    Pollers,
    Queues,
    NoQueue,    \* NULL, for a queue
    NoOne,      \* NULL, for a multiplexer
    Cap,        \* m_n_max_elements
    Polls,      \* of each poller the sequence of its polls: [m_bbq, m_type]
    Changers,   \* the pollers that change their polls between the calls
    Types       \* what they set the types to

ASSUME QMuxerAssumption ==
    /\ NoQueue \notin Queues /\ NoOne \notin Pollers
    /\ Cap \in Nat \ {0}
    /\ Changers \subseteq Pollers
    /\ Types \subseteq (SUBSET {"READABLE", "WRITABLE"}) \ {{}}
    /\ Polls \in [Pollers -> Seq([m_bbq : Queues, m_type : Types]) \ {<<>>}]

VARIABLES
    n,          \* m_n_elements of the queues
    up,         \* the queues that are operational
    m_qmuxer,   \* of the queues: the poller whose multiplexer is notified
    m_type,     \* of the queues: what its poller waits for
    polls,
    pc,         \* where a poller is
    idx, nev,   \* the poll that he looks at next, and the events so far
    result,     \* what the last poll has returned
    missed      \* history: polls of a sleeper with an event that nobody tells him of

queues == <<n, up>>
places == <<m_qmuxer, m_type>>
pollers == <<polls, pc, idx, nev, result>>
vars == <<queues, places, pollers, missed>>

\* gallus_qmuxer_poll_create.
InitPolls == polls = Polls /\ result = [p \in Pollers |-> "NONE"]

\* s_qmx_initialize: nobody waits in a multiplexer, and nobody has told it anything.
InitMuxers == pc = [p \in Pollers |-> "idle"] /\ missed = [p \in Pollers |-> {}]

\* gallus_qmuxer_create: each poller has his multiplexer.
Init ==
    /\ InitPolls
    /\ InitMuxers
    /\ n = [q \in Queues |-> 0]
    /\ up = Queues
    /\ m_qmuxer = [q \in Queues |-> NoOne]
    /\ m_type = [q \in Queues |-> "NONE"]
    /\ idx = [p \in Pollers |-> 1]
    /\ nev = [p \in Pollers |-> 0]

-----------------------------------------------------------------------------
(* The polls between the calls: gallus_qmuxer_poll_set_queue and _type.    *)

SetQueue(p, i, q) ==
    /\ pc[p] = "idle" /\ i \in DOMAIN polls[p]
    /\ q \in {NoQueue, Polls[p][i].m_bbq} \ {polls[p][i].m_bbq}
    /\ polls' = [polls EXCEPT ![p][i].m_bbq = q]
    /\ UNCHANGED <<queues, places, pc, idx, nev, result, missed>>

\* A poll without a queue has no type.
SetType(p, i, type) ==
    /\ pc[p] = "idle" /\ i \in DOMAIN polls[p]
    /\ polls[p][i].m_type # type
    /\ polls' = [polls EXCEPT ![p][i].m_type = IF polls[p][i].m_bbq = NoQueue THEN {} ELSE type]
    /\ UNCHANGED <<queues, places, pc, idx, nev, result, missed>>

-----------------------------------------------------------------------------
(* gallus_qmuxer_poll.                                                     *)

\* Mutant: a queue with one element does not count as readable.
Awaited_Two(poll) ==
    IF "READABLE" \in poll.m_type /\ n[poll.m_bbq] <= 1 THEN "READABLE"
    ELSE IF "WRITABLE" \in poll.m_type /\ n[poll.m_bbq] = Cap THEN "WRITABLE"
    ELSE "NONE"

\* What cbuffer_setup_for_qmuxer finds that the poll has to wait for.
Awaited(poll) ==
    IF "READABLE" \in poll.m_type /\ n[poll.m_bbq] = 0 THEN "READABLE"
    ELSE IF "WRITABLE" \in poll.m_type /\ n[poll.m_bbq] = Cap THEN "WRITABLE"
    ELSE "NONE"

\* The multiplexer that it leaves in the queue.
Placed(p, poll, isPre) == IF isPre /\ Awaited(poll) # "NONE" THEN p ELSE NoOne

Goes(p, place) == pc' = [pc EXCEPT ![p] = place]

Returns(p, r) ==
    /\ Goes(p, "idle")
    /\ result' = [result EXCEPT ![p] = r]
    /\ idx' = [idx EXCEPT ![p] = 1] /\ nev' = [nev EXCEPT ![p] = 0]

Poll(p) ==
    /\ pc[p] = "idle"
    /\ Goes(p, "pre")
    /\ result' = [result EXCEPT ![p] = "NONE"]
    /\ UNCHANGED <<queues, places, polls, idx, nev, missed>>

\* One queue after the other in s_qmx_setup_for_poll.
Look(p) ==
    LET poll == polls[p][idx[p]]
        q == poll.m_bbq
        isPre == pc[p] = "pre"
    IN
    /\ pc[p] \in {"pre", "post"}
    /\ idx[p] <= Len(polls[p])
    /\ IF q \in up
       THEN /\ m_qmuxer' = [m_qmuxer EXCEPT ![q] = Placed(p, poll, isPre)]
            /\ m_type' = [m_type EXCEPT ![q] = IF isPre THEN Awaited(poll) ELSE "NONE"]
       ELSE UNCHANGED places
    /\ IF q \in Queues \ up /\ isPre
       THEN Returns(p, "NOT_OPERATIONAL")
       ELSE /\ idx' = [idx EXCEPT ![p] = @ + 1]
            /\ nev' = [nev EXCEPT ![p] = IF q \in up /\ Awaited(poll) = "NONE" THEN @ + 1 ELSE @]
            /\ UNCHANGED <<pc, result>>
    /\ UNCHANGED <<queues, polls, missed>>

\* With an event, or only NULL queues, the poll is over; without, it sleeps, or begins again.
LookEnds(p) ==
    /\ pc[p] \in {"pre", "post"}
    /\ idx[p] > Len(polls[p])
    /\ IF \A i \in DOMAIN polls[p] : polls[p][i].m_bbq = NoQueue THEN Returns(p, "INVALID_ARGS")
       ELSE IF nev[p] > 0 THEN Returns(p, "EVENTS")
       ELSE /\ Goes(p, IF pc[p] = "pre" THEN "wait" ELSE "pre")
            /\ idx' = [idx EXCEPT ![p] = 1] /\ UNCHANGED <<nev, result>>
    /\ UNCHANGED <<queues, places, polls, missed>>

\* The queue is no longer as the look has found it.
Overtaken(poll) == /\ poll.m_bbq # NoQueue
                   /\ poll.m_bbq \in up => Awaited(poll) # m_type[poll.m_bbq]

\* Nobody looks again between the looks and the sleep: what came meanwhile is missed.
Sleeps(p) ==
    /\ pc[p] = "wait"
    /\ Goes(p, "asleep")
    /\ missed' = [missed EXCEPT ![p] = {i \in DOMAIN polls[p] : Overtaken(polls[p][i])}]
    /\ UNCHANGED <<queues, places, polls, idx, nev, result>>

Wakes(p) == missed' = [missed EXCEPT ![p] = {}]

TimesOut(p) ==
    /\ pc[p] = "asleep"
    /\ Returns(p, "TIMEDOUT")
    /\ Wakes(p)
    /\ UNCHANGED <<queues, places, polls>>

SpuriousWakeup(p) ==
    /\ pc[p] = "asleep"
    /\ Goes(p, "post")
    /\ Wakes(p)
    /\ UNCHANGED <<queues, places, polls, idx, nev, result>>

-----------------------------------------------------------------------------
(* The users of a queue, who notify the multiplexer under its lock.        *)

\* qmuxer_notify.
Notify(told) ==
    /\ pc' = [p \in Pollers |-> IF p \in told /\ pc[p] = "asleep" THEN "post" ELSE pc[p]]
    /\ missed' = [p \in Pollers |-> IF p \in told THEN {} ELSE missed[p]]
    /\ UNCHANGED <<places, polls, idx, nev, result>>

At(q) == {m_qmuxer[q]} \ {NoOne}
For(q, type) == {p \in At(q) : m_type[q] = type}

\* Mutant: the wrong side is told.
PutTells_Writable(q) == For(q, "WRITABLE")

PutTells(q) == For(q, "READABLE")

Put(q) ==
    /\ q \in up /\ n[q] < Cap
    /\ n' = [n EXCEPT ![q] = @ + 1]
    /\ Notify(PutTells(q))
    /\ UNCHANGED up

Get(q) ==
    /\ q \in up /\ n[q] > 0
    /\ n' = [n EXCEPT ![q] = @ - 1]
    /\ Notify(For(q, "WRITABLE"))
    /\ UNCHANGED up

\* gallus_cbuffer_clear: those who wait for room are not told of it.
Clear(q) ==
    /\ q \in up /\ n[q] > 0
    /\ n' = [n EXCEPT ![q] = 0]
    /\ pc' = [p \in Pollers |-> IF p \in For(q, "READABLE") /\ pc[p] = "asleep" THEN "post" ELSE pc[p]]
    /\ missed' = [p \in Pollers |->
                     IF p \in For(q, "READABLE") \/ pc[p] # "asleep" THEN {}
                     ELSE missed[p] \cup {i \in DOMAIN polls[p] : polls[p][i].m_bbq = q}]
    /\ UNCHANGED <<up, places, polls, idx, nev, result>>

Shutdown(q) ==
    /\ q \in up
    /\ up' = up \ {q}
    /\ n' = [n EXCEPT ![q] = 0]
    /\ Notify(At(q))

-----------------------------------------------------------------------------

PollerStep(p) == Look(p) \/ LookEnds(p) \/ Sleeps(p)

Next ==
    \/ \E p \in Pollers : Poll(p) \/ PollerStep(p) \/ TimesOut(p) \/ SpuriousWakeup(p)
    \/ \E p \in Changers, i \in 1..2, q \in Queues \cup {NoQueue} : SetQueue(p, i, q)
    \/ \E p \in Changers, i \in 1..2, type \in Types : SetType(p, i, type)
    \/ \E q \in Queues : Put(q) \/ Get(q) \/ Clear(q) \/ Shutdown(q)

Spec == Init /\ [][Next]_vars

\* Polls go on, those with a time limit end, and their callers poll again.
FairSpec ==
    /\ Spec
    /\ \A p \in Pollers : WF_vars(Poll(p)) /\ WF_vars(PollerStep(p)) /\ WF_vars(TimesOut(p))

-----------------------------------------------------------------------------
(* Properties.                                                             *)

\* The types of the variables of the queues and their pollers.
TypeOK ==
    /\ n \in [Queues -> 0 .. Cap]
    /\ up \subseteq Queues
    /\ m_qmuxer \in [Queues -> Pollers \cup {NoOne}]
    /\ m_type \in [Queues -> {"READABLE", "WRITABLE", "NONE"}]
    /\ polls \in [Pollers -> Seq([m_bbq : Queues \cup {NoQueue}, m_type : Types \cup {{}}])]
    /\ pc \in [Pollers -> {"idle", "pre", "wait", "asleep", "post"}]
    /\ idx \in [Pollers -> Nat \ {0}] /\ nev \in [Pollers -> Nat]
    /\ result \in [Pollers -> {"NONE", "EVENTS", "TIMEDOUT", "NOT_OPERATIONAL", "INVALID_ARGS"}]
    /\ missed \in [Pollers -> SUBSET Nat]

\* What the poll waits for has happened, or never will.
HasEvent(poll) ==
    /\ poll.m_bbq # NoQueue
    /\ poll.m_bbq \in up => /\ "READABLE" \in poll.m_type => n[poll.m_bbq] > 0
                            /\ "WRITABLE" \in poll.m_type => n[poll.m_bbq] < Cap

\* Nobody but p polls the queue q, so that nobody takes p's place in it.
Alone(p, q) == \A o \in Pollers \ {p} : \A i \in DOMAIN Polls[o] : Polls[o][i].m_bbq # q

Once(p, q) == Cardinality({i \in DOMAIN polls[p] : polls[p][i].m_bbq = q}) = 1

\* A sleeper is told of every event on a queue that he polls alone, a shutdown
\* included, but for those between his look and his sleep, which gallus_qmuxer.h
\* admits, and for room made by a clear (qmuxer_notify in s_copyin, s_copyout).
SleeperTold ==
    \A p \in Pollers : pc[p] = "asleep" =>
        \A i \in DOMAIN polls[p] :
            LET poll == polls[p][i] IN
            HasEvent(poll) /\ Alone(p, poll.m_bbq) /\ Once(p, poll.m_bbq) => i \in missed[p]

\* The same, of a clear too: a poll returns when there is an event on a queue.
\* False of the code, and in no run.
SleeperToldOfClear ==
    \A p \in Pollers : pc[p] = "asleep" =>
        \A i \in DOMAIN polls[p] :
            LET poll == polls[p][i] IN
            HasEvent(poll) /\ Alone(p, poll.m_bbq) /\ Once(p, poll.m_bbq)
            => i \in missed[p] /\ m_type[poll.m_bbq] # "WRITABLE"

\* A multiplexer is in a queue only while its poller polls (cbuffer_setup_for_qmuxer:
\* "the qmx could be not available when the next event occurs").  False of the code, and in
\* no run.
PlacedWhilePolling == \A q \in Queues : \A p \in At(q) : pc[p] # "idle"

\* Whoever polls again and again with a time limit sees an event that stays, also one
\* that he has missed at first, and when others take his place in the queue.
EventsSeen ==
    \A p \in Pollers : \A i \in DOMAIN Polls[p] :
        <>[]HasEvent(polls[p][i])
            => []<>(result[p] \in {"EVENTS", "NOT_OPERATIONAL"})

=============================================================================
