------------------------------- MODULE GState -------------------------------
(***************************************************************************)
(* The global state tracker of src/framework/lib/gstate.c: one process-wide*)
(* state that only moves forward, threads that wait for it, and the        *)
(* handshake of a shutdown request with whoever accepts it.                *)
(*                                                                         *)
(* Everything happens under s_lck, so one step is one critical section: up *)
(* to the unlock, or up to gallus_cond_wait.  A thread inside a call sleeps*)
(* on the one condition variable s_cond.                                   *)
(***************************************************************************)
EXTENDS Results

CONSTANTS
    Callers,     \* the calling threads
    Settable,    \* the states callers pass to global_state_set
    Awaited,     \* the states callers wait for
    Levels,      \* the grace levels requested
    Resettable,  \* TRUE iff global_state_reset, for unit tests, is called
    Cancelable,  \* threads that may be cancelled while they sleep
    Spurious     \* threads that may wake up although nobody notified

UNKNOWN == 0
INITIALIZING == 1
INITIALIZED == 2
STARTING == 3
STARTED == 4
REQUEST_SHUTDOWN == 5
ACCEPT_SHUTDOWN == 6
SHUTTINGDOWN == 7
SHUTDOWN == 8
FINALIZING == 9
FINALIZED == 10
GlobalStates == UNKNOWN .. FINALIZED
IS_GLOBAL_STATE_SHUTDOWN(s) == s >= ACCEPT_SHUTDOWN

SHUTDOWN_UNKNOWN == 0
SHUTDOWN_RIGHT_NOW == 1
SHUTDOWN_GRACEFULLY == 2

\* Arguments are valid ones: the others are refused before the lock is taken.
ASSUME GStateAssumption ==
    /\ Settable \subseteq INITIALIZING .. FINALIZED
    /\ Awaited \subseteq INITIALIZING .. FINALIZED
    /\ Levels \subseteq {SHUTDOWN_RIGHT_NOW, SHUTDOWN_GRACEFULLY}
    /\ Resettable \in BOOLEAN
    /\ Cancelable \subseteq Callers
    /\ Spurious \subseteq Callers

VARIABLES
    s_gs, s_gl,
    at,      \* the call t sleeps in: "none", "wait_for" or "request"
    woken,   \* why t's gallus_cond_wait is about to return: "no", "ok", "timedout"
    want,    \* s_wait_for of t's call, or the state t last waited for
    timed,   \* t's wait has a time limit
    out      \* what t's last call returned: result, *cur_sptr and *cur_gptr

gsvars == <<s_gs, s_gl, at, woken, want, timed, out>>

NoOutput(r) == [ret |-> r, gs |-> UNKNOWN, gl |-> SHUTDOWN_UNKNOWN]

GSInit ==
    /\ s_gs = UNKNOWN
    /\ s_gl = SHUTDOWN_UNKNOWN
    /\ at = [t \in Callers |-> "none"]
    /\ woken = [t \in Callers |-> "no"]
    /\ want = [t \in Callers |-> UNKNOWN]
    /\ timed = [t \in Callers |-> FALSE]
    /\ out = [t \in Callers |-> NoOutput(NoResult)]

Asleep(t) == at[t] # "none" /\ woken[t] = "no"

\* gallus_cond_notify(&s_cond, true), called by t.
NotifyFrom(t) ==
    [u \in Callers |-> IF u # t /\ Asleep(u) THEN "ok" ELSE IF u = t THEN "no" ELSE woken[u]]

\* t goes to sleep in call c, or is done with it.
SleepIn(t, c) ==
    /\ at' = [at EXCEPT ![t] = c]
    /\ UNCHANGED out
Done(t, o) ==
    /\ at' = [at EXCEPT ![t] = "none"]
    /\ out' = [out EXCEPT ![t] = o]

\* s_is_valid_state: one way only.
s_is_valid_state(s) == s >= s_gs

\* Mutant: a waiter of a state before the shutdown is not told.
Set_Silent(t, s) ==
    /\ at[t] = "none"
    /\ IF s_is_valid_state(s)
       THEN s_gs' = s /\ woken' = woken /\ Done(t, NoOutput(OK))
       ELSE Done(t, NoOutput(INVALID_STATE)) /\ UNCHANGED <<s_gs, woken>>
    /\ UNCHANGED <<s_gl, want, timed>>

\* global_state_set.
Set(t, s) ==
    /\ at[t] = "none"
    /\ IF s_is_valid_state(s)
       THEN s_gs' = s /\ woken' = NotifyFrom(t) /\ Done(t, NoOutput(OK))
       ELSE Done(t, NoOutput(INVALID_STATE)) /\ UNCHANGED <<s_gs, woken>>
    /\ UNCHANGED <<s_gl, want, timed>>

\* global_state_get.
Get(t) ==
    /\ at[t] = "none"
    /\ Done(t, [ret |-> OK, gs |-> s_gs, gl |-> SHUTDOWN_UNKNOWN])
    /\ UNCHANGED <<s_gs, s_gl, woken, want, timed>>

\* Mutant: the wait goes on in the state waited for.
MustWait_Late(s) == s_gs <= s /\ ~IS_GLOBAL_STATE_SHUTDOWN(s_gs)

\* global_state_wait_for: the condition of the label recheck to sleep on.
MustWait(s) == s_gs < s /\ ~IS_GLOBAL_STATE_SHUTDOWN(s_gs)

\* The result once there is nothing to wait for.
WaitResult(s) ==
    IF s_gs < s /\ IS_GLOBAL_STATE_SHUTDOWN(s_gs) /\ ~IS_GLOBAL_STATE_SHUTDOWN(s)
    THEN NOT_OPERATIONAL
    ELSE OK

\* One pass over the label recheck of global_state_wait_for.
WaitPass(t, s) ==
    /\ woken' = [woken EXCEPT ![t] = "no"]
    /\ IF MustWait(s) THEN SleepIn(t, "wait_for")
                      ELSE Done(t, [ret |-> WaitResult(s), gs |-> s_gs, gl |-> s_gl])
    /\ UNCHANGED <<s_gs, s_gl>>

\* global_state_wait_for; global_state_wait_for_shutdown_request is the wait
\* for REQUEST_SHUTDOWN.
WaitFor(t, s, is_timed) ==
    /\ at[t] = "none"
    /\ want' = [want EXCEPT ![t] = s]
    /\ timed' = [timed EXCEPT ![t] = is_timed]
    /\ WaitPass(t, s)

\* Its gallus_cond_wait returns: another pass, with the whole time limit anew,
\* or the end of the call with whatever is in *cur_sptr.
WaitForReturns(t) ==
    /\ at[t] = "wait_for"
    /\ UNCHANGED <<want, timed>>
    /\ \/ woken[t] = "ok" /\ WaitPass(t, want[t])
       \/ /\ woken[t] = "timedout"
          /\ woken' = [woken EXCEPT ![t] = "no"]
          /\ Done(t, NoOutput(TIMEDOUT))
          /\ UNCHANGED <<s_gs, s_gl>>

\* Mutant: a later request takes over the grace level.
RequestShutdown_Again(t, l) ==
    /\ at[t] = "none"
    /\ timed' = [timed EXCEPT ![t] = FALSE]
    /\ IF ~IS_GLOBAL_STATE_SHUTDOWN(s_gs)
       THEN /\ s_gs' = REQUEST_SHUTDOWN
            /\ s_gl' = l
            /\ woken' = NotifyFrom(t)
            /\ SleepIn(t, "request")
       ELSE /\ Done(t, NoOutput(ANY_FAILURES))
            /\ UNCHANGED <<s_gs, s_gl, woken>>
    /\ UNCHANGED want

\* global_state_request_shutdown.  The INVALID_STATE_TRANSITION branch is
\* dead: before the shutdown states REQUEST_SHUTDOWN lies ahead.
RequestShutdown(t, l) ==
    /\ at[t] = "none"
    /\ timed' = [timed EXCEPT ![t] = FALSE]
    /\ IF ~IS_GLOBAL_STATE_SHUTDOWN(s_gs) /\ s_gs # REQUEST_SHUTDOWN
       THEN /\ s_gs' = REQUEST_SHUTDOWN
            /\ s_gl' = l
            /\ woken' = NotifyFrom(t)
            /\ SleepIn(t, "request")
       ELSE /\ Done(t, NoOutput(ANY_FAILURES))
            /\ UNCHANGED <<s_gs, s_gl, woken>>
    /\ UNCHANGED want

\* Mutant: the requester does not take ACCEPT_SHUTDOWN for an answer.
RequestReturns_Late(t) ==
    /\ at[t] = "request"
    /\ woken[t] = "ok"
    /\ woken' = [woken EXCEPT ![t] = "no"]
    /\ IF s_gs > ACCEPT_SHUTDOWN THEN Done(t, NoOutput(OK)) ELSE SleepIn(t, "request")
    /\ UNCHANGED <<s_gs, s_gl, want, timed>>

\* The requester's gallus_cond_wait returns: the label recheck.
RequestReturns(t) ==
    /\ at[t] = "request"
    /\ woken[t] = "ok"
    /\ woken' = [woken EXCEPT ![t] = "no"]
    /\ IF IS_GLOBAL_STATE_SHUTDOWN(s_gs) THEN Done(t, NoOutput(OK)) ELSE SleepIn(t, "request")
    /\ UNCHANGED <<s_gs, s_gl, want, timed>>

\* global_state_reset, which tells nobody and keeps the grace level.
Reset ==
    /\ Resettable
    /\ s_gs' = UNKNOWN
    /\ UNCHANGED <<s_gl, at, woken, want, timed, out>>

\* The timer of pthread_cond_timedwait expires.
Expire(t) ==
    /\ Asleep(t)
    /\ timed[t]
    /\ woken' = [woken EXCEPT ![t] = "timedout"]
    /\ UNCHANGED <<s_gs, s_gl, at, want, timed, out>>

\* pthread_cond_wait may return although nobody notified.
SpuriousWakeup(t) ==
    /\ t \in Spurious
    /\ Asleep(t)
    /\ woken' = [woken EXCEPT ![t] = "ok"]
    /\ UNCHANGED <<s_gs, s_gl, at, want, timed, out>>

\* The sleeper is cancelled and global_state_cancel_janitor gives the lock back.
Cancel(t) ==
    /\ t \in Cancelable
    /\ at[t] # "none"
    /\ at' = [at EXCEPT ![t] = "none"]
    /\ woken' = [woken EXCEPT ![t] = "no"]
    /\ out' = [out EXCEPT ![t] = NoOutput(INTERRUPTED)]
    /\ UNCHANGED <<s_gs, s_gl, want, timed>>

Resume(t) == WaitForReturns(t) \/ RequestReturns(t)

GSNext ==
    \/ \E t \in Callers :
          \/ \E s \in Settable : Set(t, s)
          \/ Get(t)
          \/ \E s \in Awaited, is_timed \in BOOLEAN : WaitFor(t, s, is_timed)
          \/ \E l \in Levels : RequestShutdown(t, l)
          \/ Resume(t)
          \/ Expire(t)
          \/ SpuriousWakeup(t)
          \/ Cancel(t)
    \/ Reset

GSSpec == GSInit /\ [][GSNext]_gsvars

\* A thread that got up is given the lock; nobody is obliged to set a state.
GSFairSpec == GSSpec /\ \A t \in Callers : WF_gsvars(Resume(t))

-----------------------------------------------------------------------------
\* The state has its type; a wakeup is pending only inside a call, and an expired
\* timer only where there is one.
GSTypeOK ==
    /\ s_gs \in GlobalStates
    /\ s_gl \in {SHUTDOWN_UNKNOWN} \cup Levels
    /\ at \in [Callers -> {"none", "wait_for", "request"}]
    /\ woken \in [Callers -> {"no", "ok", "timedout"}]
    /\ want \in [Callers -> GlobalStates]
    /\ timed \in [Callers -> BOOLEAN]
    /\ out \in [Callers -> [ret : Int, gs : GlobalStates,
                            gl : {SHUTDOWN_UNKNOWN} \cup Levels]]
    /\ \A t \in Callers : /\ woken[t] # "no" => at[t] # "none"
                          /\ woken[t] = "timedout" => timed[t]

\* No lost wakeup: a thread left asleep in global_state_wait_for waits for a
\* state still ahead of one that is not a shutdown state, and a requester left
\* asleep waits because nobody has accepted.
SleepersHaveReason ==
    \A t \in Callers :
        Asleep(t) => /\ ~IS_GLOBAL_STATE_SHUTDOWN(s_gs)
                     /\ at[t] = "wait_for" => s_gs < want[t]

\* Except for the test-only reset the state moves one way, and from the request
\* on the grace level stays that of the request that was granted: no later
\* request replaces it.
OneWay ==
    [][ \/ Reset
        \/ /\ s_gs' >= s_gs
           /\ s_gs >= REQUEST_SHUTDOWN => s_gl' = s_gl ]_gsvars

\* Without a reset a request is granted to one thread: nobody else is inside the request, and
\* the state tells it from REQUEST_SHUTDOWN on.
OneRequester ==
    /\ \A t, u \in Callers : at[t] = "request" /\ at[u] = "request" => t = u
    /\ \A t \in Callers : at[t] = "request" => s_gs >= REQUEST_SHUTDOWN

\* Once a shutdown state is set, and unless it is reset, every requester and
\* every waiter, whatever it waited for, comes back.
ShutdownReleases ==
    \A t \in Callers :
        (at[t] # "none" /\ IS_GLOBAL_STATE_SHUTDOWN(s_gs))
            ~> (at[t] = "none" \/ ~IS_GLOBAL_STATE_SHUTDOWN(s_gs))

=============================================================================
