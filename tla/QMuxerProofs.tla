---------------------------- MODULE QMuxerProofs ----------------------------
(***************************************************************************)
(* What QMuxer promises for any number of pollers and queues: who sleeps   *)
(* is told of the events that come after his look.                         *)
(***************************************************************************)
EXTENDS QMuxer, FiniteSetTheorems, SequenceTheorems, TLAPS

-----------------------------------------------------------------------------
(* The inductive invariant.                                                *)

\* A poll loses its queue and gets it back, and never gets another one.
SameQueues ==
    \A p \in Pollers :
        /\ DOMAIN polls[p] = DOMAIN Polls[p]
        /\ \A i \in DOMAIN polls[p] : polls[p][i].m_bbq \in {Polls[p][i].m_bbq, NoQueue}

\* The queue of the poll is no other poller's, and no other poll's.
Own(p, i) ==
    LET q == polls[p][i].m_bbq IN q \in Queues /\ Alone(p, q) /\ Once(p, q)

\* The look has left the multiplexer in the queue.
InPlace(p, i) ==
    LET q == polls[p][i].m_bbq IN m_qmuxer[q] = p /\ m_type[q] # "NONE"

\* The queue is still as the look has found it.
Awake(p, i) ==
    LET q == polls[p][i].m_bbq IN q \in up /\ m_type[q] = Awaited(polls[p][i])

Sound(p) ==
    /\ pc[p] = "idle" => idx[p] = 1
    /\ pc[p] = "pre" /\ nev[p] = 0 =>
           \A i \in DOMAIN polls[p] : i < idx[p] /\ Own(p, i) => InPlace(p, i)
    /\ pc[p] = "wait" => \A i \in DOMAIN polls[p] : Own(p, i) => InPlace(p, i)
    /\ pc[p] = "asleep" =>
           \A i \in DOMAIN polls[p] : Own(p, i) /\ i \notin missed[p] => InPlace(p, i) /\ Awake(p, i)

Inv == TypeOK /\ SameQueues /\ \A p \in Pollers : Sound(p)

-----------------------------------------------------------------------------
(* Facts that the steps share.                                             *)

LEMMA Constants ==
    /\ NoQueue \notin Queues /\ NoOne \notin Pollers /\ Cap \in Nat /\ Cap # 0
    /\ Changers \subseteq Pollers
    /\ \A p \in Pollers : /\ Polls[p] \in Seq([m_bbq : Queues, m_type : Types])
                          /\ Len(Polls[p]) # 0
                          /\ \A i \in DOMAIN Polls[p] : Polls[p][i].m_bbq \in Queues
  <1>1. /\ NoQueue \notin Queues /\ NoOne \notin Pollers /\ Cap \in Nat /\ Cap # 0
        /\ Changers \subseteq Pollers
    BY QMuxerAssumption
  <1>2. ASSUME NEW p \in Pollers
        PROVE  /\ Polls[p] \in Seq([m_bbq : Queues, m_type : Types])
               /\ Len(Polls[p]) # 0
               /\ \A i \in DOMAIN Polls[p] : Polls[p][i].m_bbq \in Queues
    <2>1. Polls[p] \in Seq([m_bbq : Queues, m_type : Types]) /\ Polls[p] # <<>>
      BY QMuxerAssumption
    <2>2. Len(Polls[p]) # 0
      BY <2>1, EmptySeq
    <2> DEFINE FullType == [m_bbq : Queues, m_type : Types]
    <2>3. \A i \in DOMAIN Polls[p] : Polls[p][i] \in FullType
      <3>1. Polls[p] \in Seq(FullType)
        BY <2>1
      <3> HIDE DEF FullType
      <3> QED BY <3>1
    <2> QED BY <2>1, <2>2, <2>3
  <1> QED BY <1>1, <1>2

PollType == [m_bbq : Queues \cup {NoQueue}, m_type : Types \cup {{}}]

LEMMA PollTyped ==
    ASSUME TypeOK, NEW p \in Pollers
    PROVE  /\ polls[p] \in Seq(PollType) /\ Len(polls[p]) \in Nat
           /\ DOMAIN polls[p] = 1 .. Len(polls[p]) /\ DOMAIN polls[p] \subseteq Nat
           /\ \A i \in DOMAIN polls[p] : polls[p][i] \in PollType
           /\ \A i \in DOMAIN polls[p] : polls[p][i].m_bbq \in Queues \cup {NoQueue}
  <1>1. polls[p] \in Seq(PollType)
    BY DEF TypeOK, PollType
  <1>2. /\ Len(polls[p]) \in Nat /\ DOMAIN polls[p] = 1 .. Len(polls[p])
        /\ \A i \in DOMAIN polls[p] : polls[p][i] \in PollType
    BY <1>1
  <1>3. DOMAIN polls[p] \subseteq Nat
    BY <1>2
  <1> QED BY <1>1, <1>2, <1>3 DEF PollType

\* The queue of such a poll is that of no other one.
LEMMA OnceIsOne ==
    ASSUME TypeOK, NEW p \in Pollers, NEW i \in DOMAIN polls[p], NEW j \in DOMAIN polls[p],
           Own(p, i), polls[p][j].m_bbq = polls[p][i].m_bbq
    PROVE  j = i
  <1> DEFINE q == polls[p][i].m_bbq
             S == {k \in DOMAIN polls[p] : polls[p][k].m_bbq = q}
  <1>1. Cardinality(S) = 1
    BY DEF Own, Once
  <1>2. IsFiniteSet(DOMAIN polls[p])
    <2>1. Len(polls[p]) \in Int /\ 1 \in Int /\ DOMAIN polls[p] = 1 .. Len(polls[p])
      BY PollTyped
    <2> QED BY <2>1, FS_Interval
  <1>3. IsFiniteSet(S)
    BY <1>2, FS_Subset
  <1>4. PICK x : S = {x}
    BY <1>1, <1>3, FS_Singleton
  <1> QED BY <1>4

\* A queue that somebody else polls is not p's own.
LEMMA OthersQueue ==
    ASSUME TypeOK, SameQueues, NEW p \in Pollers, NEW o \in Pollers \ {p},
           NEW i \in DOMAIN polls[p], NEW j \in DOMAIN polls[o], Own(p, i)
    PROVE  polls[o][j].m_bbq # polls[p][i].m_bbq
  BY Constants DEF Own, Alone, SameQueues

\* A poller to whom nothing happens, and whose own queues and places stay, is as he was.
LEMMA Stays ==
    ASSUME TypeOK, NEW p \in Pollers, Sound(p), polls'[p] = polls[p], pc'[p] = pc[p], idx'[p] = idx[p],
           nev'[p] = nev[p], pc[p] = "asleep" => missed[p] \subseteq missed'[p],
           \A i \in DOMAIN polls[p] : Own(p, i) =>
               LET q == polls[p][i].m_bbq IN
               /\ m_qmuxer'[q] = m_qmuxer[q] /\ m_type'[q] = m_type[q]
               /\ pc[p] = "asleep" /\ i \notin missed'[p] => n'[q] = n[q] /\ (q \in up => q \in up')
    PROVE  Sound(p)'
  <1>1. \A i \in DOMAIN polls[p] : Own(p, i)' <=> Own(p, i)
    BY DEF Own, Once
  <1>2. \A i \in DOMAIN polls[p] : Own(p, i) => (InPlace(p, i)' <=> InPlace(p, i))
    BY DEF InPlace
  <1>3. \A i \in DOMAIN polls[p] :
           Own(p, i) /\ pc[p] = "asleep" /\ i \notin missed'[p] => (Awake(p, i) => Awake(p, i)')
    BY DEF Awake, Awaited
  <1> QED BY <1>1, <1>2, <1>3 DEF Sound

-----------------------------------------------------------------------------
(* The pollers.                                                            *)

LEMMA PollerTypes ==
    ASSUME TypeOK, NEW p \in Pollers, Poll(p) \/ PollerStep(p) \/ TimesOut(p) \/ SpuriousWakeup(p)
    PROVE  TypeOK'
  <1> USE DEF queues, places, Goes
  <1>0. idx \in [Pollers -> Nat \ {0}] /\ nev \in [Pollers -> Nat]
    BY DEF TypeOK
  <1>1. CASE Poll(p) \/ TimesOut(p) \/ SpuriousWakeup(p)
    <2>1. UNCHANGED <<n, up, m_qmuxer, m_type, polls>>
      BY <1>1 DEF Poll, TimesOut, SpuriousWakeup
    <2>2. pc' \in [Pollers -> {"idle", "pre", "wait", "asleep", "post"}]
      BY <1>1 DEF Poll, TimesOut, SpuriousWakeup, Returns, TypeOK
    <2>3. idx' \in [Pollers -> Nat \ {0}] /\ nev' \in [Pollers -> Nat]
      <3>1. \/ UNCHANGED <<idx, nev>>
            \/ idx' = [idx EXCEPT ![p] = 1] /\ nev' = [nev EXCEPT ![p] = 0]
        BY <1>1 DEF Poll, TimesOut, SpuriousWakeup, Returns
      <3> QED BY <1>0, <3>1
    <2>4. result' \in [Pollers -> {"NONE", "EVENTS", "TIMEDOUT", "NOT_OPERATIONAL", "INVALID_ARGS"}]
      BY <1>1 DEF Poll, TimesOut, SpuriousWakeup, Returns, TypeOK
    <2>5. missed' \in [Pollers -> SUBSET Nat]
      BY <1>1 DEF Poll, TimesOut, SpuriousWakeup, Wakes, TypeOK
    <2> QED BY <2>1, <2>2, <2>3, <2>4, <2>5 DEF TypeOK
  <1>2. CASE Look(p)
    <2>1. UNCHANGED <<n, up, polls, missed>>
      BY <1>2 DEF Look
    <2>2. /\ m_qmuxer' \in [Queues -> Pollers \cup {NoOne}]
          /\ m_type' \in [Queues -> {"READABLE", "WRITABLE", "NONE"}]
      <3>1. \A poll : Awaited(poll) \in {"READABLE", "WRITABLE", "NONE"}
        BY DEF Awaited
      <3>2. \A poll : \A isPre \in BOOLEAN : Placed(p, poll, isPre) \in Pollers \cup {NoOne}
        BY DEF Placed
      <3>3. /\ m_qmuxer \in [Queues -> Pollers \cup {NoOne}]
            /\ m_type \in [Queues -> {"READABLE", "WRITABLE", "NONE"}]
        BY DEF TypeOK
      <3>4. \/ UNCHANGED <<m_qmuxer, m_type>>
            \/ \E poll, q : \E isPre \in BOOLEAN :
                  /\ m_qmuxer' = [m_qmuxer EXCEPT ![q] = Placed(p, poll, isPre)]
                  /\ m_type' = [m_type EXCEPT ![q] = IF isPre THEN Awaited(poll) ELSE "NONE"]
        <4> DEFINE was == polls[p][idx[p]]
                   first == pc[p] = "pre"
        <4>1. \/ UNCHANGED <<m_qmuxer, m_type>>
              \/ /\ m_qmuxer' = [m_qmuxer EXCEPT ![was.m_bbq] = Placed(p, was, first)]
                 /\ m_type' = [m_type EXCEPT ![was.m_bbq] = IF first THEN Awaited(was) ELSE "NONE"]
          BY <1>2 DEF Look
        <4>2. first \in BOOLEAN
          OBVIOUS
        <4> HIDE DEF was, first
        <4> QED BY <4>1, <4>2
      <3>5. CASE UNCHANGED <<m_qmuxer, m_type>>
        BY <3>3, <3>5
      <3>6. ASSUME NEW poll, NEW q, NEW isPre \in BOOLEAN,
                   m_qmuxer' = [m_qmuxer EXCEPT ![q] = Placed(p, poll, isPre)],
                   m_type' = [m_type EXCEPT ![q] = IF isPre THEN Awaited(poll) ELSE "NONE"]
            PROVE  /\ m_qmuxer' \in [Queues -> Pollers \cup {NoOne}]
                   /\ m_type' \in [Queues -> {"READABLE", "WRITABLE", "NONE"}]
        <4>1. m_qmuxer' \in [Queues -> Pollers \cup {NoOne}]
          BY <3>2, <3>3, <3>6
        <4>2. (IF isPre THEN Awaited(poll) ELSE "NONE") \in {"READABLE", "WRITABLE", "NONE"}
          BY <3>1
        <4>3. m_type' \in [Queues -> {"READABLE", "WRITABLE", "NONE"}]
          BY <3>3, <3>6, <4>2
        <4> QED BY <4>1, <4>3
      <3> QED BY <3>4, <3>5, <3>6
    <2>3. /\ pc' \in [Pollers -> {"idle", "pre", "wait", "asleep", "post"}]
          /\ result' \in [Pollers -> {"NONE", "EVENTS", "TIMEDOUT", "NOT_OPERATIONAL", "INVALID_ARGS"}]
      BY <1>2 DEF Look, Returns, TypeOK
    <2>4. idx' \in [Pollers -> Nat \ {0}] /\ nev' \in [Pollers -> Nat]
      <3>1. /\ idx' = [idx EXCEPT ![p] = 1] \/ idx' = [idx EXCEPT ![p] = @ + 1]
            /\ \/ nev' = nev
               \/ nev' = [nev EXCEPT ![p] = 0]
               \/ nev' = [nev EXCEPT ![p] = nev[p] + 1]
        BY <1>2 DEF Look, Returns, TypeOK
      <3>2. idx[p] + 1 \in Nat \ {0} /\ nev[p] + 1 \in Nat
        BY <1>0
      <3>3. idx' \in [Pollers -> Nat \ {0}]
        BY <1>0, <3>1, <3>2
      <3>4. nev' \in [Pollers -> Nat]
        BY <1>0, <3>1, <3>2
      <3> QED BY <3>3, <3>4
    <2> QED BY <2>1, <2>2, <2>3, <2>4 DEF TypeOK
  <1>3. CASE LookEnds(p)
    <2>1. UNCHANGED <<n, up, m_qmuxer, m_type, polls, missed>>
      BY <1>3 DEF LookEnds
    <2>2. pc' \in [Pollers -> {"idle", "pre", "wait", "asleep", "post"}]
      <3>1. \E place \in {"idle", "pre", "wait"} : pc' = [pc EXCEPT ![p] = place]
        BY <1>3 DEF LookEnds, Returns
      <3> QED BY <3>1 DEF TypeOK
    <2>3. idx' \in [Pollers -> Nat \ {0}] /\ nev' \in [Pollers -> Nat]
      <3>1. idx' = [idx EXCEPT ![p] = 1] /\ (nev' = nev \/ nev' = [nev EXCEPT ![p] = 0])
        BY <1>3 DEF LookEnds, Returns
      <3> QED BY <1>0, <3>1
    <2>4. result' \in [Pollers -> {"NONE", "EVENTS", "TIMEDOUT", "NOT_OPERATIONAL", "INVALID_ARGS"}]
      BY <1>3 DEF LookEnds, Returns, TypeOK
    <2> QED BY <2>1, <2>2, <2>3, <2>4 DEF TypeOK
  <1>4. CASE Sleeps(p)
    <2>1. UNCHANGED <<n, up, m_qmuxer, m_type, polls, idx, nev, result>>
      BY <1>4 DEF Sleeps
    <2>2. {i \in DOMAIN polls[p] : Overtaken(polls[p][i])} \in SUBSET Nat
      BY PollTyped
    <2>3. missed' \in [Pollers -> SUBSET Nat]
      BY <1>4, <2>2 DEF Sleeps, TypeOK
    <2>4. pc' \in [Pollers -> {"idle", "pre", "wait", "asleep", "post"}]
      BY <1>4 DEF Sleeps, TypeOK
    <2> QED BY <2>1, <2>3, <2>4 DEF TypeOK
  <1> QED BY <1>1, <1>2, <1>3, <1>4 DEF PollerStep

\* A look leaves the other queues alone.
LEMMA LookElsewhere ==
    ASSUME TypeOK, NEW p \in Pollers, Look(p), NEW r \in Queues, r # polls[p][idx[p]].m_bbq
    PROVE  m_qmuxer'[r] = m_qmuxer[r] /\ m_type'[r] = m_type[r]
  <1> DEFINE q == polls[p][idx[p]].m_bbq
  <1>1. \/ \E a, b : m_qmuxer' = [m_qmuxer EXCEPT ![q] = a] /\ m_type' = [m_type EXCEPT ![q] = b]
        \/ m_qmuxer' = m_qmuxer /\ m_type' = m_type
    BY DEF Look, places
  <1>2. r # q
    OBVIOUS
  <1> HIDE DEF q
  <1> QED BY <1>1, <1>2 DEF TypeOK

\* The others do not notice a poller: he looks at queues that are not theirs.
LEMMA PollerOthers ==
    ASSUME Inv, NEW p \in Pollers, NEW o \in Pollers \ {p},
           Poll(p) \/ PollerStep(p) \/ TimesOut(p) \/ SpuriousWakeup(p)
    PROVE  Sound(o)'
  <1> USE DEF queues, places, Goes
  <1>1. /\ UNCHANGED <<n, up, polls>>
        /\ pc'[o] = pc[o] /\ idx'[o] = idx[o] /\ nev'[o] = nev[o] /\ missed'[o] = missed[o]
    <2>1. UNCHANGED <<n, up, polls>>
      BY DEF Poll, PollerStep, Look, LookEnds, Sleeps, TimesOut, SpuriousWakeup
    <2>2. pc'[o] = pc[o] /\ missed'[o] = missed[o]
      BY DEF Poll, PollerStep, Look, LookEnds, Sleeps, TimesOut, SpuriousWakeup, Returns, Wakes, Inv, TypeOK
    <2>3. idx'[o] = idx[o] /\ nev'[o] = nev[o]
      BY DEF Poll, PollerStep, Look, LookEnds, Sleeps, TimesOut, SpuriousWakeup, Returns, Inv, TypeOK
    <2> QED BY <2>1, <2>2, <2>3
  <1>2. ASSUME NEW i \in DOMAIN polls[o], Own(o, i)
        PROVE  LET q == polls[o][i].m_bbq IN m_qmuxer'[q] = m_qmuxer[q] /\ m_type'[q] = m_type[q]
    <2> DEFINE q == polls[o][i].m_bbq
               k == idx[p]
    <2>1. CASE Look(p)
      <3>1. k \in DOMAIN polls[p]
        BY <2>1, PollTyped DEF Look, Inv, TypeOK
      <3>2. polls[p][k].m_bbq # q
        BY <1>2, <3>1, OthersQueue DEF Inv
      <3>3. q \in Queues
        BY <1>2 DEF Own
      <3> QED BY <2>1, <3>2, <3>3, LookElsewhere DEF Inv
    <2>2. CASE ~Look(p)
      BY <2>2 DEF Poll, PollerStep, LookEnds, Sleeps, TimesOut, SpuriousWakeup
    <2> QED BY <2>1, <2>2
  <1>3. Sound(o) /\ TypeOK
    BY DEF Inv
  <1> QED BY <1>1, <1>2, <1>3, Stays

LEMMA LookSound ==
    ASSUME Inv, NEW p \in Pollers, Look(p)
    PROVE  Sound(p)'
  <1> DEFINE k == idx[p]
             q == polls[p][k].m_bbq
  <1>1. /\ pc[p] \in {"pre", "post"} /\ polls' = polls /\ k \in DOMAIN polls[p]
        /\ DOMAIN polls[p] \subseteq Nat
    BY PollTyped DEF Look, Inv, TypeOK
  <1>2. \A i \in DOMAIN polls[p] : Own(p, i)' <=> Own(p, i)
    BY <1>1 DEF Own, Once
  <1>3. CASE q \in Queues \ up /\ pc[p] = "pre"
    BY <1>3 DEF Look, Returns, Goes, Sound, Inv, TypeOK
  <1>4. CASE ~(q \in Queues \ up /\ pc[p] = "pre")
    <2>1. /\ pc' = pc /\ idx'[p] = k + 1
          /\ nev'[p] = IF q \in up /\ Awaited(polls[p][k]) = "NONE" THEN nev[p] + 1 ELSE nev[p]
      BY <1>4 DEF Look, Inv, TypeOK
    <2>2. CASE pc[p] = "post"
      BY <2>1, <2>2 DEF Sound
    <2>3. CASE pc[p] = "pre"
      <3> SUFFICES ASSUME nev'[p] = 0, NEW i \in DOMAIN polls[p], i < k + 1, Own(p, i)
                   PROVE  InPlace(p, i)'
        BY <1>1, <1>2, <2>1, <2>3 DEF Sound
      <3>1. nev[p] = 0 /\ (q \in up => Awaited(polls[p][k]) # "NONE")
        BY <2>1 DEF Inv, TypeOK
      <3>2. CASE i = k
        <4>1. q \in up
          BY <1>4, <2>3, <3>2 DEF Own
        <4>2. m_qmuxer'[q] = p /\ m_type'[q] = Awaited(polls[p][k])
          BY <2>3, <3>1, <4>1 DEF Look, Placed, Inv, TypeOK
        <4> QED BY <1>1, <3>1, <3>2, <4>1, <4>2 DEF InPlace
      <3>3. CASE i # k
        <4>1. i < k
          BY <1>1, <3>3 DEF Inv, TypeOK
        <4>2. InPlace(p, i)
          BY <2>3, <3>1, <4>1 DEF Inv, Sound
        <4>3. polls[p][i].m_bbq # q
          BY <1>1, <3>3, OnceIsOne DEF Inv
        <4>4. LET r == polls[p][i].m_bbq IN m_qmuxer'[r] = m_qmuxer[r] /\ m_type'[r] = m_type[r]
          BY <4>3, LookElsewhere DEF Own, Inv
        <4> QED BY <1>1, <4>2, <4>4 DEF InPlace
      <3> QED BY <3>2, <3>3
    <2> QED BY <1>1, <2>2, <2>3
  <1> QED BY <1>3, <1>4

LEMMA PollerSound ==
    ASSUME Inv, NEW p \in Pollers, Poll(p) \/ PollerStep(p) \/ TimesOut(p) \/ SpuriousWakeup(p)
    PROVE  Sound(p)'
  <1> USE DEF queues, places, Goes
  <1>1. CASE Poll(p)
    <2>1. pc[p] = "idle" /\ pc'[p] = "pre" /\ idx'[p] = idx[p] /\ polls' = polls
      BY <1>1 DEF Poll, Inv, TypeOK
    <2>2. idx'[p] = 1
      BY <2>1 DEF Inv, Sound
    <2>3. \A i \in DOMAIN polls[p] : ~(i < 1)
      BY PollTyped DEF Inv
    <2> QED BY <2>1, <2>2, <2>3 DEF Sound
  <1>2. CASE Look(p)
    BY <1>2, LookSound
  <1>3. CASE LookEnds(p)
    <2>1. polls' = polls /\ m_qmuxer' = m_qmuxer /\ m_type' = m_type
      BY <1>3 DEF LookEnds
    <2>2. \/ pc'[p] = "idle" /\ idx'[p] = 1
          \/ pc[p] = "pre" /\ pc'[p] = "wait" /\ nev[p] = 0 /\ Len(polls[p]) < idx[p]
          \/ pc'[p] = "pre" /\ idx'[p] = 1
      BY <1>3 DEF LookEnds, Returns, Inv, TypeOK
    <2>3. CASE pc'[p] = "wait"
      <3>1. \A i \in DOMAIN polls[p] : i < idx[p]
        BY <2>2, <2>3, PollTyped DEF Inv, TypeOK
      <3>2. \A i \in DOMAIN polls[p] : Own(p, i) => InPlace(p, i)
        BY <2>2, <2>3, <3>1 DEF Inv, Sound
      <3> QED BY <2>1, <2>3, <3>2 DEF Sound, Own, Once, InPlace
    <2>4. CASE pc'[p] # "wait"
      <3>1. \A i \in DOMAIN polls[p] : ~(i < 1)
        BY PollTyped DEF Inv
      <3> QED BY <2>1, <2>2, <2>4, <3>1 DEF Sound
    <2> QED BY <2>3, <2>4
  <1>4. CASE Sleeps(p)
    <2>1. /\ pc[p] = "wait" /\ pc'[p] = "asleep"
          /\ UNCHANGED <<n, up, m_qmuxer, m_type, polls>>
          /\ missed'[p] = {i \in DOMAIN polls[p] : Overtaken(polls[p][i])}
      BY <1>4 DEF Sleeps, Inv, TypeOK
    <2>2. \A i \in DOMAIN polls[p] : Own(p, i) => InPlace(p, i)
      BY <2>1 DEF Inv, Sound
    <2>3. \A i \in DOMAIN polls[p] : Own(p, i) /\ ~Overtaken(polls[p][i]) => Awake(p, i)
      BY Constants DEF Own, Overtaken, Awake
    <2>4. \A i \in DOMAIN polls[p] : /\ Own(p, i)' <=> Own(p, i)
                                     /\ InPlace(p, i)' <=> InPlace(p, i)
                                     /\ Awake(p, i)' <=> Awake(p, i)
      BY <2>1 DEF Own, Once, InPlace, Awake, Awaited
    <2> QED BY <2>1, <2>2, <2>3, <2>4 DEF Sound
  <1>5. CASE TimesOut(p) \/ SpuriousWakeup(p)
    <2>1. (pc'[p] = "idle" /\ idx'[p] = 1) \/ pc'[p] = "post"
      BY <1>5 DEF TimesOut, SpuriousWakeup, Returns, Inv, TypeOK
    <2> QED BY <2>1 DEF Sound
  <1> QED BY <1>1, <1>2, <1>3, <1>4, <1>5 DEF PollerStep

LEMMA PollerKeeps ==
    ASSUME Inv, NEW p \in Pollers, Poll(p) \/ PollerStep(p) \/ TimesOut(p) \/ SpuriousWakeup(p)
    PROVE  Inv'
  <1>1. TypeOK'
    BY PollerTypes DEF Inv
  <1>2. SameQueues'
    <2>1. polls' = polls
      BY DEF Poll, PollerStep, Look, LookEnds, Sleeps, TimesOut, SpuriousWakeup
    <2> QED BY <2>1 DEF Inv, SameQueues
  <1>3. ASSUME NEW o \in Pollers
        PROVE  Sound(o)'
    BY PollerOthers, PollerSound
  <1> QED BY <1>1, <1>2, <1>3 DEF Inv

-----------------------------------------------------------------------------
(* The changes of the polls.                                               *)

\* What the two have in common: one poll of an idle poller changes, and has its own queue or none.
LEMMA ChangeKeeps ==
    ASSUME Inv, NEW p \in Pollers, NEW i \in DOMAIN polls[p], NEW poll \in PollType,
           poll.m_bbq \in {Polls[p][i].m_bbq, NoQueue}, pc[p] = "idle",
           polls' = [polls EXCEPT ![p] = [polls[p] EXCEPT ![i] = poll]],
           UNCHANGED <<queues, places, pc, idx, nev, result, missed>>
    PROVE  Inv'
  <1> DEFINE changed == [polls[p] EXCEPT ![i] = poll]
  <1>1. /\ changed \in Seq(PollType) /\ DOMAIN changed = DOMAIN polls[p]
        /\ \A j \in DOMAIN polls[p] : changed[j] = IF j = i THEN poll ELSE polls[p][j]
    <2>1. polls[p] \in Seq(PollType)
      BY PollTyped DEF Inv
    <2> HIDE DEF PollType
    <2> QED BY <2>1, ExceptSeq
  <1>2. /\ polls \in [Pollers -> Seq(PollType)] /\ polls' = [polls EXCEPT ![p] = changed]
        /\ UNCHANGED <<n, up, m_qmuxer, m_type, pc, idx, nev, result, missed>>
    BY DEF Inv, TypeOK, PollType, queues, places
  <1> HIDE DEF changed
  <1>3. polls' \in [Pollers -> Seq(PollType)]
    BY <1>1, <1>2
  <1>4. TypeOK'
    BY <1>2, <1>3 DEF Inv, TypeOK, PollType
  <1>5. polls'[p] = changed /\ \A o \in Pollers \ {p} : polls'[o] = polls[o]
    BY <1>2
  <1>6. SameQueues'
    BY <1>1, <1>5 DEF Inv, SameQueues
  <1>7. Sound(p)'
    BY <1>2 DEF Inv, Sound
  <1>8. ASSUME NEW o \in Pollers \ {p}
        PROVE  Sound(o)'
    BY <1>2, <1>5, Stays DEF Inv
  <1> QED BY <1>4, <1>6, <1>7, <1>8 DEF Inv

LEMMA ChangesKeep ==
    ASSUME Inv, NEW p \in Changers, NEW i \in 1 .. 2,
           \/ \E q \in Queues \cup {NoQueue} : SetQueue(p, i, q)
           \/ \E type \in Types : SetType(p, i, type)
    PROVE  Inv'
  <1>0. p \in Pollers
    BY Constants
  <1>1. CASE \E q \in Queues \cup {NoQueue} : SetQueue(p, i, q)
    <2>1. PICK q \in Queues \cup {NoQueue} : SetQueue(p, i, q)
      BY <1>1
    <2> DEFINE poll == [polls[p][i] EXCEPT !.m_bbq = q]
    <2>2. i \in DOMAIN polls[p] /\ polls[p][i] \in PollType
      BY <1>0, <2>1, PollTyped DEF SetQueue, Inv
    <2>3. poll \in PollType /\ poll.m_bbq = q
      BY <2>2 DEF PollType
    <2>4. poll.m_bbq \in {Polls[p][i].m_bbq, NoQueue}
      BY <2>1, <2>3 DEF SetQueue
    <2>5. polls' = [polls EXCEPT ![p] = [polls[p] EXCEPT ![i] = poll]]
      BY <2>1 DEF SetQueue
    <2>6. pc[p] = "idle" /\ UNCHANGED <<queues, places, pc, idx, nev, result, missed>>
      BY <2>1 DEF SetQueue
    <2> HIDE DEF poll
    <2> QED BY <1>0, <2>2, <2>3, <2>4, <2>5, <2>6, ChangeKeeps
  <1>2. CASE \E type \in Types : SetType(p, i, type)
    <2>1. PICK type \in Types : SetType(p, i, type)
      BY <1>2
    <2> DEFINE new == IF polls[p][i].m_bbq = NoQueue THEN {} ELSE type
               poll == [polls[p][i] EXCEPT !.m_type = new]
    <2>2. i \in DOMAIN polls[p] /\ polls[p][i] \in PollType
      BY <1>0, <2>1, PollTyped DEF SetType, Inv
    <2>3. poll \in PollType /\ poll.m_bbq = polls[p][i].m_bbq
      BY <2>2 DEF PollType
    <2>4. poll.m_bbq \in {Polls[p][i].m_bbq, NoQueue}
      BY <1>0, <2>2, <2>3 DEF Inv, SameQueues
    <2>5. polls' = [polls EXCEPT ![p] = [polls[p] EXCEPT ![i] = poll]]
      BY <2>1 DEF SetType
    <2>6. pc[p] = "idle" /\ UNCHANGED <<queues, places, pc, idx, nev, result, missed>>
      BY <2>1 DEF SetType
    <2> HIDE DEF poll
    <2> QED BY <1>0, <2>2, <2>3, <2>4, <2>5, <2>6, ChangeKeeps
  <1> QED BY <1>1, <1>2

-----------------------------------------------------------------------------
(* The users of the queues.                                                *)

UserStep(q) == Put(q) \/ Get(q) \/ Clear(q) \/ Shutdown(q)

LEMMA UserTypes ==
    ASSUME Inv, NEW q \in Queues, UserStep(q)
    PROVE  TypeOK'
  <1> USE DEF UserStep
  <1>1. UNCHANGED <<m_qmuxer, m_type, polls, idx, nev, result>> /\ up' \subseteq up
    BY DEF Put, Get, Clear, Shutdown, Notify, places
  <1>2. n' \in [Queues -> 0 .. Cap]
    <2>1. n \in [Queues -> 0 .. Cap]
      BY DEF Inv, TypeOK
    <2>2. PICK k \in 0 .. Cap : n' = [n EXCEPT ![q] = k]
      BY <2>1, Constants DEF Put, Get, Clear, Shutdown
    <2> QED BY <2>1, <2>2
  <1>3. pc' \in [Pollers -> {"idle", "pre", "wait", "asleep", "post"}]
    BY DEF Put, Get, Clear, Shutdown, Notify, Inv, TypeOK
  <1>4. missed' \in [Pollers -> SUBSET Nat]
    <2>1. missed \in [Pollers -> SUBSET Nat]
      BY DEF Inv, TypeOK
    <2>2. CASE Clear(q)
      <3>1. \A p \in Pollers : {i \in DOMAIN polls[p] : polls[p][i].m_bbq = q} \subseteq Nat
        BY PollTyped DEF Inv
      <3> QED BY <2>1, <2>2, <3>1 DEF Clear
    <2>3. CASE Put(q) \/ Get(q) \/ Shutdown(q)
      BY <2>1, <2>3 DEF Put, Get, Shutdown, Notify
    <2> QED BY <2>2, <2>3
  <1> QED BY <1>1, <1>2, <1>3, <1>4 DEF Inv, TypeOK

\* Who sleeps on for another reason than a missed event sees no change of his own queues: he
\* waits for elements when there are none, and for room when there is none.
LEMMA UserSound ==
    ASSUME Inv, NEW q \in Queues, UserStep(q), NEW p \in Pollers
    PROVE  Sound(p)'
  <1> USE DEF UserStep
  <1>1. /\ UNCHANGED <<m_qmuxer, m_type, polls, idx, nev>>
        /\ \A r \in Queues \ {q} : n'[r] = n[r] /\ (r \in up => r \in up')
    <2>1. UNCHANGED <<m_qmuxer, m_type, polls, idx, nev>>
      BY DEF Put, Get, Clear, Shutdown, Notify, places
    <2>2. \A r \in Queues \ {q} : n'[r] = n[r] /\ (r \in up => r \in up')
      BY DEF Put, Get, Clear, Shutdown, Inv, TypeOK
    <2> QED BY <2>1, <2>2
  <1>2. CASE pc'[p] # pc[p]
    <2>1. pc'[p] = "post"
      BY <1>2 DEF Put, Get, Clear, Shutdown, Notify
    <2> QED BY <2>1 DEF Sound
  <1>3. CASE pc'[p] = pc[p]
    <2>1. pc[p] = "asleep" => missed[p] \subseteq missed'[p] /\ ~(Shutdown(q) /\ p \in At(q))
                              /\ ~(Put(q) /\ p \in For(q, "READABLE"))
                              /\ ~(Get(q) /\ p \in For(q, "WRITABLE"))
                              /\ ~(Clear(q) /\ p \in For(q, "READABLE"))
      BY <1>3 DEF Put, Get, Clear, Shutdown, Notify, PutTells
    <2>2. ASSUME NEW i \in DOMAIN polls[p], Own(p, i), pc[p] = "asleep", i \notin missed'[p],
                 polls[p][i].m_bbq = q
          PROVE  FALSE
      <3>1. /\ m_qmuxer[q] = p /\ m_type[q] # "NONE" /\ q \in up
            /\ m_type[q] = Awaited(polls[p][i])
        BY <2>1, <2>2 DEF Inv, Sound, InPlace, Awake
      <3>2. p \in At(q) /\ p \in For(q, m_type[q])
        BY <3>1, Constants DEF At, For
      <3>3. \/ m_type[q] = "READABLE" /\ n[q] = 0
            \/ m_type[q] = "WRITABLE" /\ n[q] = Cap
        BY <2>2, <3>1 DEF Awaited
      <3>4. CASE Put(q)
        BY <2>1, <2>2, <3>2, <3>3, <3>4, Constants DEF Put
      <3>5. CASE Get(q)
        BY <2>1, <2>2, <3>2, <3>3, <3>5 DEF Get
      <3>6. CASE Clear(q)
        BY <2>1, <2>2, <3>2, <3>3, <3>6 DEF Clear
      <3>7. CASE Shutdown(q)
        BY <2>1, <2>2, <3>2, <3>7
      <3> QED BY <3>4, <3>5, <3>6, <3>7
    <2>3. \A i \in DOMAIN polls[p] : Own(p, i) =>
              LET r == polls[p][i].m_bbq IN
              /\ m_qmuxer'[r] = m_qmuxer[r] /\ m_type'[r] = m_type[r]
              /\ pc[p] = "asleep" /\ i \notin missed'[p] => n'[r] = n[r] /\ (r \in up => r \in up')
      BY <1>1, <2>2 DEF Own
    <2> QED BY <1>1, <1>3, <2>1, <2>3, Stays DEF Inv
  <1> QED BY <1>2, <1>3

-----------------------------------------------------------------------------
(* The theorem.                                                            *)

LEMMA InitInv == Init => Inv
  <1> SUFFICES ASSUME Init
               PROVE  Inv
    OBVIOUS
  <1>1. TypeOK
    <2>1. polls \in [Pollers -> Seq(PollType)]
      <3>1. Polls \in [Pollers -> Seq([m_bbq : Queues, m_type : Types])]
        BY QMuxerAssumption
      <3> DEFINE FullType == [m_bbq : Queues, m_type : Types]
      <3>2. FullType \subseteq PollType
        BY DEF PollType
      <3> HIDE DEF FullType
      <3>3. ASSUME NEW s \in Seq(FullType)
            PROVE  s \in Seq(PollType)
        BY <3>2, SeqMonotonic
      <3>4. Polls \in [Pollers -> Seq(FullType)]
        BY <3>1 DEF FullType
      <3> QED BY <3>3, <3>4 DEF Init, InitPolls
    <2>2. /\ n \in [Queues -> 0 .. Cap] /\ up \subseteq Queues
          /\ m_qmuxer \in [Queues -> Pollers \cup {NoOne}]
          /\ m_type \in [Queues -> {"READABLE", "WRITABLE", "NONE"}]
      BY Constants DEF Init
    <2>3. /\ pc \in [Pollers -> {"idle", "pre", "wait", "asleep", "post"}]
          /\ result \in [Pollers -> {"NONE", "EVENTS", "TIMEDOUT", "NOT_OPERATIONAL", "INVALID_ARGS"}]
          /\ missed \in [Pollers -> SUBSET Nat]
      BY DEF Init, InitPolls, InitMuxers
    <2>4. idx \in [Pollers -> Nat \ {0}] /\ nev \in [Pollers -> Nat]
      BY DEF Init
    <2> QED BY <2>1, <2>2, <2>3, <2>4 DEF TypeOK, PollType
  <1>2. SameQueues
    BY DEF Init, InitPolls, SameQueues
  <1>3. \A p \in Pollers : Sound(p)
    BY DEF Init, InitMuxers, Sound
  <1> QED BY <1>1, <1>2, <1>3 DEF Inv

LEMMA NextInv == Inv /\ [Next]_vars => Inv'
  <1> SUFFICES ASSUME Inv, [Next]_vars
               PROVE  Inv'
    OBVIOUS
  <1>1. ASSUME NEW p \in Pollers, Poll(p) \/ PollerStep(p) \/ TimesOut(p) \/ SpuriousWakeup(p)
        PROVE  Inv'
    BY <1>1, PollerKeeps
  <1>2. ASSUME NEW p \in Changers, NEW i \in 1 .. 2, NEW q \in Queues \cup {NoQueue}, SetQueue(p, i, q)
        PROVE  Inv'
    BY <1>2, ChangesKeep
  <1>3. ASSUME NEW p \in Changers, NEW i \in 1 .. 2, NEW type \in Types, SetType(p, i, type)
        PROVE  Inv'
    BY <1>3, ChangesKeep
  <1>4. ASSUME NEW q \in Queues, Put(q) \/ Get(q) \/ Clear(q) \/ Shutdown(q)
        PROVE  Inv'
    <2>1. UserStep(q)
      BY <1>4 DEF UserStep
    <2>2. SameQueues'
      <3>1. polls' = polls
        BY <1>4 DEF Put, Get, Clear, Shutdown, Notify
      <3> QED BY <3>1 DEF Inv, SameQueues
    <2> QED BY <2>1, <2>2, UserTypes, UserSound DEF Inv
  <1>5. CASE UNCHANGED vars
    <2>1. /\ UNCHANGED <<n, up, m_qmuxer, m_type, polls>>
          /\ UNCHANGED <<pc, idx, nev, result, missed>>
      BY <1>5 DEF vars, queues, places, pollers
    <2>2. TypeOK'
      BY <2>1 DEF Inv, TypeOK
    <2>3. SameQueues'
      BY <2>1 DEF Inv, SameQueues
    <2>4. ASSUME NEW p \in Pollers
          PROVE  Sound(p)'
      BY <2>1, Stays DEF Inv
    <2> QED BY <2>2, <2>3, <2>4 DEF Inv
  <1> QED BY <1>1, <1>2, <1>3, <1>4, <1>5 DEF Next

\* The invariant is what the property says, told of the queues and the places in them.
LEMMA InvTold == Inv => SleeperTold
  <1> SUFFICES ASSUME Inv, NEW p \in Pollers, pc[p] = "asleep", NEW i \in DOMAIN polls[p],
                      HasEvent(polls[p][i]), Alone(p, polls[p][i].m_bbq),
                      Once(p, polls[p][i].m_bbq), i \notin missed[p]
               PROVE  FALSE
    BY DEF SleeperTold
  <1> DEFINE q == polls[p][i].m_bbq
  <1>1. Own(p, i)
    BY PollTyped DEF Own, HasEvent, Inv
  <1>2. q \in up /\ m_type[q] = Awaited(polls[p][i]) /\ m_type[q] # "NONE"
    BY <1>1 DEF Inv, Sound, InPlace, Awake
  <1>3. n[q] \in 0 .. Cap
    BY <1>1 DEF Own, Inv, TypeOK
  <1> QED BY <1>2, <1>3, Constants DEF Awaited, HasEvent

\* A poller who sleeps in gallus_qmuxer_poll is told of every element, of all room and of the
\* shutdown that comes after his look at a queue that he polls alone, whoever puts and gets at
\* the time (qmuxer_notify in s_copyin, s_copyout and s_shutdown), for any number of pollers
\* and queues and any polls; only what came between his look and his sleep, and room made by
\* gallus_cbuffer_clear, he may miss.
THEOREM ToldCorrect == Spec => [](TypeOK /\ SleeperTold)
  <1>1. Inv => TypeOK /\ SleeperTold
    BY InvTold DEF Inv
  <1> QED BY <1>1, InitInv, NextInv, PTL DEF Spec

=============================================================================
