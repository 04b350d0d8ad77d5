---------------------------- MODULE MCThreadPool ----------------------------
(* Small instances of ThreadPool for TLC. *)
EXTENDS ThreadPool

CONSTANTS c1, c2, a, b
TwoClients == {c1, c2}
TwoTasks == {a, b}
AllFlags == {{}, {"release"}, {"release", "delete"}}
BothLevels == {"RIGHT_NOW", "GRACEFULLY"}
=============================================================================
