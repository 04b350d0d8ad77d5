------------------------------- MODULE KeyMap -------------------------------
(***************************************************************************)
(* What the hash map promises to its users: a function from keys to        *)
(* values, whose operations happen at once, but for iterations, which      *)
(* visit every key just once and let nobody else in until they end.        *)
(***************************************************************************)
EXTENDS Integers, FiniteSets

CONSTANTS Users, Keys, Values, NoValue, NoUser, Frees

VARIABLES
    map,        \* from the present keys to their values
    open,       \* not yet shut down
    walker,     \* the user that iterates
    seen,       \* the keys that the iteration has visited
    answer,     \* of each user: what his last operation has returned
    freed       \* the keys whose values the last operation has freed

vars == <<map, open, walker, seen, answer, freed>>

Empty == [k \in {} |-> NoValue]
At(k) == IF k \in DOMAIN map THEN map[k] ELSE NoValue
Without(k) == [x \in DOMAIN map \ {k} |-> map[x]]
With(k, v) == [x \in DOMAIN map \cup {k} |-> IF x = k THEN v ELSE map[x]]

Init ==
    /\ map = Empty /\ open = TRUE /\ walker = NoUser /\ seen = {} /\ freed = {}
    /\ answer = [u \in Users |-> <<"NONE", NoValue>>]

Answer(u, r, v) == answer' = [answer EXCEPT ![u] = <<r, v>>]
Freeing(keys) == freed' = IF Frees THEN keys ELSE {}

Atomic(u) == walker = NoUser /\ UNCHANGED <<walker, seen>>

Refused(u) ==
    /\ Atomic(u) /\ ~open
    /\ Answer(u, "NOT_OPERATIONAL", NoValue) /\ freed' = {} /\ UNCHANGED <<map, open>>

Find(u, k) ==
    /\ Atomic(u) /\ open
    /\ Answer(u, IF k \in DOMAIN map THEN "OK" ELSE "NOT_FOUND", At(k))
    /\ freed' = {} /\ UNCHANGED <<map, open>>

Size(u) ==
    /\ Atomic(u) /\ open
    /\ Answer(u, "SIZE", Cardinality(DOMAIN map))
    /\ freed' = {} /\ UNCHANGED <<map, open>>

Add(u, k, v, overwrite) ==
    /\ Atomic(u) /\ open
    /\ \/ /\ k \notin DOMAIN map \/ overwrite
          /\ map' = With(k, v) /\ Answer(u, "OK", At(k))
       \/ /\ k \in DOMAIN map /\ ~overwrite
          /\ Answer(u, "ALREADY_EXISTS", At(k)) /\ UNCHANGED map
       \/ /\ k \notin DOMAIN map
          /\ Answer(u, "NO_MEMORY", NoValue) /\ UNCHANGED map
    /\ freed' = {} /\ UNCHANGED open

Delete(u, k, free) ==
    /\ Atomic(u) /\ open
    /\ map' = Without(k) /\ Answer(u, "OK", At(k))
    /\ Freeing(IF free THEN {k} \cap DOMAIN map ELSE {})
    /\ UNCHANGED open

Clear(u, free) ==
    /\ Atomic(u) /\ open
    /\ map' = Empty /\ Answer(u, "OK", NoValue)
    /\ Freeing(IF free THEN DOMAIN map ELSE {})
    /\ UNCHANGED open

\* The second of two shutdowns finds nothing.
Shutdown(u, free) ==
    /\ Atomic(u)
    /\ open' = FALSE /\ map' = Empty /\ Answer(u, "NONE", NoValue)
    /\ Freeing(IF free THEN DOMAIN map ELSE {})

Begin(u) ==
    /\ walker = NoUser /\ open
    /\ walker' = u /\ seen' = {} /\ freed' = {} /\ UNCHANGED <<map, open, answer>>

\* The visitor may give the key another value, or stop the iteration.
Visit(u, k, v) ==
    /\ walker = u /\ k \in DOMAIN map \ seen
    /\ map' = With(k, v)
    /\ \/ seen' = seen \cup {k} /\ UNCHANGED <<walker, answer>>
       \/ seen' = {} /\ walker' = NoUser /\ Answer(u, "ITERATION_HALTED", NoValue)
    /\ UNCHANGED <<open, freed>>

\* An iteration that has visited nobody counts as halted.
End(u) ==
    /\ walker = u /\ seen = DOMAIN map
    /\ seen' = {} /\ walker' = NoUser
    /\ Answer(u, IF seen = {} THEN "ITERATION_HALTED" ELSE "OK", NoValue)
    /\ UNCHANGED <<map, open, freed>>

Next == \E u \in Users :
    \/ Refused(u) \/ Size(u) \/ Begin(u) \/ End(u)
    \/ \E k \in Keys : Find(u, k)
    \/ \E k \in Keys, v \in Values : Visit(u, k, v)
    \/ \E k \in Keys, v \in Values, overwrite \in BOOLEAN : Add(u, k, v, overwrite)
    \/ \E k \in Keys, free \in BOOLEAN : Delete(u, k, free)
    \/ \E free \in BOOLEAN : Clear(u, free) \/ Shutdown(u, free)

Spec == Init /\ [][Next]_vars

=============================================================================
