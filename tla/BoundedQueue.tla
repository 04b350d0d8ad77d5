--------------------------- MODULE BoundedQueue ---------------------------
(***************************************************************************)
(* What gallus_cbuffer promises to its callers, without indices, locks or  *)
(* condition variables: a first-in first-out queue of at most MaxElems     *)
(* values.  A producer submits a batch of new values and the queue accepts *)
(* them from the front of the batch, possibly in several portions and      *)
(* interleaved with other producers; a consumer is handed values from the  *)
(* front of the queue; the queue can be emptied, and closed for good.      *)
(***************************************************************************)
EXTENDS Integers, Sequences

CONSTANTS Threads,   \* the callers
          MaxElems,  \* capacity
          MaxVals    \* values ever submitted are 1 .. MaxVals

VARIABLES q,          \* the queued values, oldest first
          in,         \* in[t]: values of t's batch not accepted yet
          out,        \* out[t]: values handed to t by its current call
          submitted,  \* how many values were ever submitted
          freed,      \* values the queue itself disposed of
          open        \* the queue accepts and hands out values

qvars == <<q, in, out, submitted, freed, open>>

Items(s) == {s[i] : i \in DOMAIN s}

Init ==
    /\ q = <<>>
    /\ in = [t \in Threads |-> <<>>]
    /\ out = [t \in Threads |-> <<>>]
    /\ submitted = 0
    /\ freed = {}
    /\ open = TRUE

\* The batch of n values that have never been seen before.
Fresh(n) == [i \in 1 .. n |-> submitted + i]

\* The first k values of t's batch enter the queue.
Accept(t, batch, k) ==
    /\ open \/ k = 0
    /\ k <= Len(batch)
    /\ Len(q) + k <= MaxElems
    /\ q' = q \o SubSeq(batch, 1, k)
    /\ in' = [in EXCEPT ![t] = SubSeq(batch, k + 1, Len(batch))]
    /\ UNCHANGED <<out, freed, open>>

Submit(t) ==
    /\ in[t] = <<>>
    /\ \E n \in 1 .. MaxVals - submitted :
          /\ submitted' = submitted + n
          /\ \E k \in 0 .. n : Accept(t, Fresh(n), k)

Continue(t) ==
    /\ \E k \in 1 .. Len(in[t]) : Accept(t, in[t], k)
    /\ UNCHANGED submitted

\* t is handed the k oldest values, which leave the queue when remove holds.
Hand(t, remove) ==
    /\ open
    /\ \E k \in 1 .. Len(q) :
          /\ out' = [out EXCEPT ![t] = @ \o SubSeq(q, 1, k)]
          /\ q' = IF remove THEN SubSeq(q, k + 1, Len(q)) ELSE q
    /\ UNCHANGED <<in, submitted, freed, open>>

\* t's call is over: it keeps what it got and what was not accepted.
Return(t) ==
    /\ in' = [in EXCEPT ![t] = <<>>]
    /\ out' = [out EXCEPT ![t] = <<>>]
    /\ UNCHANGED <<q, submitted, freed, open>>

\* Every queued value is dropped; with free it is disposed of exactly once.
Empty(free) ==
    /\ q' = <<>>
    /\ freed' = IF free THEN freed \cup Items(q) ELSE freed
    /\ UNCHANGED <<in, out, submitted>>

Clear(free) == Empty(free) /\ UNCHANGED open

Close(free) == open /\ Empty(free) /\ open' = FALSE

Next ==
    \/ \E t \in Threads : \/ Submit(t)
                          \/ Continue(t)
                          \/ \E remove \in BOOLEAN : Hand(t, remove)
                          \/ Return(t)
    \/ \E free \in BOOLEAN : Clear(free) \/ Close(free)

Spec == Init /\ [][Next]_qvars

=============================================================================
