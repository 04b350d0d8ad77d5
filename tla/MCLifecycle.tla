---------------------------- MODULE MCLifecycle ----------------------------
(* Small instances of Lifecycle for TLC. *)
EXTENDS Lifecycle

\* A module with a thread and a stop procedure, and one with a thread that can
\* only be cancelled.
TwoModules == <<[name |-> "a", kind |-> {"thread", "stop_proc"}],
                [name |-> "b", kind |-> {"thread"}]>>
ComingUpFails == {"initialize", "start"}
AnyHook == {"pre", "post", "handler", "stage", "wait"}
BothLoops == {"default", "callout"}

Either == BOOLEAN

ExitOrWait == {"exit", "wait_thread"}
=============================================================================
