---------------------------- MODULE MCStatistic -----------------------------
(* Small instances of Statistic for TLC. *)
EXTENDS Statistic

CONSTANTS u1, u2
TwoUsers == {u1, u2}

\* The width of the counters is four bits; the ends of the range, and two values
\* whose sum and squares leave it.
FourBits == 8
EdgeValues == {-8, 3, 7}
=============================================================================
