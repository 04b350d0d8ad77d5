------------------------------ MODULE MCThread ------------------------------
(* Small instances of Thread for TLC. *)
EXTENDS Thread

CONSTANTS t1, t2, c1, c2
TwoCallers == {t1, t2}
OneStarter == {t1}
TwoChildren == {c1, c2}
PlainFails == {FALSE}
TwoCpus == {0, 1}
LastCpu == {1}
OneNode == {TwoCpus}
=============================================================================
