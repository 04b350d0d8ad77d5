------------------------------ MODULE MCModule ------------------------------
(* Small instances of Module for TLC. *)
EXTENDS Module

CONSTANTS t1, t2, mod_a
TwoThreads == {t1, t2}
OneName == {mod_a}
AllKinds == SUBSET {"thread", "stop_proc"}
AnyFails == {"initialize", "start", "shutdown", "stop"}
BothModes == {"inf", "timed"}
=============================================================================
