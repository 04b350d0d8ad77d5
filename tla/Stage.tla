-------------------------------- MODULE Stage --------------------------------
(***************************************************************************)
(* What a pipeline stage promises its users, without locks, barriers and   *)
(* conditions: workers work only while the stage runs, a pause takes effect*)
(* when nobody works, and the stage is over when everybody has left.       *)
(***************************************************************************)
CONSTANT Workers

VARIABLES
    phase,   \* "stopped", "running", "paused", "closing" or "over"
    busy     \* the workers that handle events

vars == <<phase, busy>>

Init ==
    /\ phase = "stopped"
    /\ busy = {}

Start == phase = "stopped" /\ phase' = "running" /\ UNCHANGED busy

\* Workers of a stage that is not yet all up, or not yet all down, may work.
Enter(w) ==
    /\ phase \in {"stopped", "running", "closing"}
    /\ w \notin busy
    /\ busy' = busy \cup {w}
    /\ UNCHANGED phase
Leave(w) == w \in busy /\ busy' = busy \ {w} /\ UNCHANGED phase

Pause == phase = "running" /\ busy = {} /\ phase' = "paused" /\ UNCHANGED busy
Resume == phase = "paused" /\ phase' = "running" /\ UNCHANGED busy

Close == phase # "over" /\ phase' = "closing" /\ UNCHANGED busy

\* The stage is shut down, cancelled or destroyed: nobody works any more.
End == phase # "over" /\ busy = {} /\ phase' = "over" /\ UNCHANGED busy

Next ==
    \/ Start \/ Pause \/ Resume \/ Close \/ End
    \/ \E w \in Workers : Enter(w) \/ Leave(w)

Spec == Init /\ [][Next]_vars
=============================================================================
