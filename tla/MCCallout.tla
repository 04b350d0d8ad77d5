----------------------------- MODULE MCCallout -----------------------------
(* Small instances of Callout for TLC. *)
EXTENDS Callout

CONSTANTS ta, tb, u1, w1, w2
TwoTasks == {ta, tb}
OneUser == {u1}
Use(some, delays, threads, cancels, forces) ==
    [tasks |-> some, delays |-> delays, workers |-> threads, cancels |-> cancels, forces |-> forces]
AllUses == {
    Use({ta, tb}, {0, 1}, {}, "procs", FALSE),
    Use({ta, tb}, {-1}, {}, "procs", FALSE),
    Use({ta}, {-1, 0, 1}, {}, "none", TRUE),
    Use({ta}, {-1, 0, 1}, {w1, w2}, "none", FALSE),
    Use({ta}, {1}, {w1}, "none", TRUE),
    Use({ta}, {-1, 0, 1}, {}, "users", FALSE)}
=============================================================================
