---------------------------- MODULE MCCBuffer ----------------------------
(* The circular buffer on small instances. *)
EXTENDS CBuffer, TLC

CONSTANTS t1, t2

TwoThreads == {t1, t2}
\* One thread puts, the other gets; each can wake the other up.
Roles == t1 :> {"put", "wait_puttable", "wakeup"}
         @@ t2 :> {"get", "peek", "wait_gettable", "wakeup"}
Getter == {t2}
AllModes == {"zero", "inf", "timed"}
FreeOnly == {TRUE}
=============================================================================
