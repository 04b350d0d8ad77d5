----------------------------- MODULE MCPipeline -----------------------------
(* Small instances of Pipeline for TLC. *)
EXTENDS Pipeline

CONSTANT t1
OneCaller == {t1}
PauseStyles == {{"pause", "pause_timed", "cancel_caller"}, {"pause", "maintenance"}}
BothLimits == {"inf", "timed"}
=============================================================================
