------------------------------ MODULE Signals ------------------------------
(***************************************************************************)
(* The signal thread of src/framework/lib/signal.c: every other thread     *)
(* blocks the signals, one thread takes them out of sigwait and calls the  *)
(* handler the application has set with gallus_signal.  m_lock is held for *)
(* the whole of gallus_signal and of the update of the thread's mask, so   *)
(* that each is one step; sigwait and the call of the handler are outside. *)
(***************************************************************************)
CONSTANTS
    Sigs,      \* the signals of the application, all in the set of s_sigfillset
    Handlers   \* the functions it sets as their handlers

VARIABLES
    m_sigset, m_sigprocs,
    mask,      \* the signals the signal thread blocks, as every other thread does
    pending,   \* the signals pending for the process: each is there at most once
    waits,     \* the set the sigwait in progress was called with
    sig,       \* the signal it returned
    sigpc      \* where the signal thread is

SIG_DFL == "SIG_DFL"
SIG_IGN == "SIG_IGN"
NULL == "NULL"
SIGUSR2 == "SIGUSR2"

SignalsAssumption ==
    /\ SIGUSR2 \notin Sigs
    /\ Handlers \cap {SIG_DFL, SIG_IGN, NULL} = {}

\* s_once_init_proc: the thread inherits the mask of the constructor, which
\* blocks everything.
Init ==
    /\ m_sigset = {}
    /\ m_sigprocs = [s \in Sigs \cup {SIGUSR2} |-> NULL]
    /\ mask = Sigs \cup {SIGUSR2}
    /\ pending = {}
    /\ waits = {}
    /\ sig = NULL
    /\ sigpc = "loop"

-----------------------------------------------------------------------------
(* gallus_signal.                                                          *)

\* What it stores in *oldptr.
OldHandler(s) ==
    IF s \notin m_sigset THEN SIG_DFL ELSE IF m_sigprocs[s] = NULL THEN SIG_IGN ELSE m_sigprocs[s]

\* Mutant: the signal thread is not notified.
gallus_signal_Quiet(s, new) ==
    /\ m_sigset' = IF new = SIG_DFL THEN m_sigset \ {s} ELSE m_sigset \cup {s}
    /\ m_sigprocs' = [m_sigprocs EXCEPT ![s] = IF new \in Handlers THEN new ELSE NULL]
    /\ UNCHANGED <<mask, pending, waits, sig, sigpc>>

\* With a new handler: the set and the handlers change, and SIGUSR2 tells the
\* signal thread, which may be in sigwait with the old set.
gallus_signal(s, new) ==
    /\ m_sigset' = IF new = SIG_DFL THEN m_sigset \ {s} ELSE m_sigset \cup {s}
    /\ m_sigprocs' = [m_sigprocs EXCEPT ![s] = IF new \in Handlers THEN new ELSE NULL]
    /\ pending' = pending \cup {SIGUSR2}
    /\ UNCHANGED <<mask, waits, sig, sigpc>>

-----------------------------------------------------------------------------
(* The kernel: a signal that some thread does not block, and for which no  *)
(* handler of the system is set, ends the process.                         *)

Arrives(s) ==
    /\ s \in mask
    /\ pending' = pending \cup {s}
    /\ UNCHANGED <<m_sigset, m_sigprocs, mask, waits, sig, sigpc>>

\* The update of the mask lets a signal through that was pending.
Unblocks == sigpc = "loop" /\ pending \ (m_sigset \cup {SIGUSR2}) # {}

-----------------------------------------------------------------------------
(* s_main, the signal thread.                                              *)

\* The critical section at the top of the loop.
Refresh ==
    /\ sigpc = "loop"
    /\ ~Unblocks
    /\ m_sigset' = m_sigset \cup {SIGUSR2}
    /\ mask' = m_sigset'
    /\ sigpc' = "ready"
    /\ UNCHANGED <<m_sigprocs, pending, waits, sig>>

\* sigwait is called, without the lock, with the set as it is now ...
CallSigwait ==
    /\ sigpc = "ready"
    /\ waits' = m_sigset
    /\ sigpc' = "waiting"
    /\ UNCHANGED <<m_sigset, m_sigprocs, mask, pending, sig>>

\* ... and returns a pending signal of that set.
SigwaitReturns ==
    /\ sigpc = "waiting"
    /\ \E s \in pending \cap waits :
          /\ sig' = s
          /\ pending' = pending \ {s}
    /\ sigpc' = "got"
    /\ waits' = {}
    /\ UNCHANGED <<m_sigset, m_sigprocs, mask>>

\* The handler is looked up; a signal without one is ignored.
Handler == IF sigpc = "got" THEN m_sigprocs[sig] ELSE NULL

\* The thread is through with the signal, or with a handler that is not modelled.
NextSignal ==
    /\ sigpc' = "loop"
    /\ sig' = NULL
    /\ UNCHANGED <<m_sigset, m_sigprocs, mask, pending, waits>>

Steps == Refresh \/ CallSigwait \/ SigwaitReturns
=============================================================================
