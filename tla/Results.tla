------------------------------ MODULE Results ------------------------------
(***************************************************************************)
(* The result codes of the library that the models tell apart.  A call     *)
(* that counts something returns the count, and every failure is negative, *)
(* as gallus_result_t does; the particular negative numbers are immaterial.*)
(***************************************************************************)
EXTENDS Integers

OK               == 0
ANY_FAILURES     == -1
TIMEDOUT         == -2
NOT_OPERATIONAL  == -3
WAKEUP_REQUESTED == -4
INTERRUPTED      == -5
INVALID_STATE    == -6
NOT_STARTED      == -7
NOT_FOUND        == -8
NO_MEMORY        == -9
ALREADY_EXISTS   == -10
POSIX_API_ERROR  == -11
ALREADY_HALTED   == -12
NOT_DEFINED      == -13
INVALID_ARGS     == -14

\* No call has returned yet.
NoResult         == -99

=============================================================================
