------------------------------ MODULE MCQMuxer ------------------------------
(* Small instances of QMuxer for TLC. *)
EXTENDS QMuxer, TLC

CONSTANTS p1, p2, q1, q2
TwoPollers == {p1, p2}
TwoQueues == {q1, q2}
Readable == {"READABLE"}
Both == {"READABLE", "WRITABLE"}
\* The queue q2 is polled by both.
SharedPolls ==
    (p1 :> <<[m_bbq |-> q1, m_type |-> Readable], [m_bbq |-> q2, m_type |-> Readable]>>) @@
    (p2 :> <<[m_bbq |-> q2, m_type |-> Both]>>)
ThePollerOfOne == {p2}
TwoTypes == {Readable, Both}
=============================================================================
