------------------------------ MODULE MCGState ------------------------------
(* Small instances of GState for TLC. *)
EXTENDS GState

CONSTANTS t1, t2
TwoThreads == {t1, t2}
FirstThread == {t1}
BothLevels == {SHUTDOWN_RIGHT_NOW, SHUTDOWN_GRACEFULLY}

\* States on both sides of every threshold the code compares with.
SomeStates == {STARTED, REQUEST_SHUTDOWN, ACCEPT_SHUTDOWN, SHUTTINGDOWN}
Targets == {STARTED, REQUEST_SHUTDOWN, SHUTDOWN}
=============================================================================
