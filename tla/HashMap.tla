------------------------------ MODULE HashMap -------------------------------
(***************************************************************************)
(* The hash map: src/framework/lib/hashmap.c, the hash table hash.c under  *)
(* it and the read/write lock of lock.c around it.                         *)
(*                                                                         *)
(* An entry of the table is named by its key; its value is clientData, and *)
(* bucketPtr is the bucket that it believes to be in.  A call takes the    *)
(* lock, does its work in one step, or one per entry if it iterates, and   *)
(* gives the lock back.                                                    *)
(***************************************************************************)
EXTENDS Integers, SequencesExt

CONSTANTS
    Users,
    Keys,
    Values,
    NoValue,    \* NULL, for a value
    NoUser,
    Types,      \* the types of keys: STRING, ONE_WORD or ARRAY
    Hash,       \* of each key the hash of the string, or the word
    Ints,       \* of each key the integers that an array consists of
    Spread,     \* what RANDOM_INDEX multiplies with: 1103515245, or its last bits
    Slots,      \* HASH_SMALL_HASH_TABLE
    DownShift,  \* the downShift of a new table
    Multiplier, \* REBUILD_MULTIPLIER
    Frees       \* there is a m_del_proc

ASSUME HashMapAssumption ==
    /\ NoValue \notin Values /\ NoUser \notin Users
    /\ Types \subseteq {"STRING", "ONE_WORD", "ARRAY"} /\ Types # {}
    /\ Hash \in [Keys -> Nat] /\ Ints \in [Keys -> Seq(Nat)]
    /\ {Spread, Slots} \subseteq Nat \ {0} /\ Multiplier \in Nat \ {0} /\ DownShift \in Nat
    /\ Frees \in BOOLEAN

VARIABLES
    m_type,
    buckets, numBuckets, rebuildSize, downShift, numEntries,
    bucketPtr,          \* of each entry
    clientData,         \* of each entry
    m_n_entries,
    m_is_operational,
    aborted,            \* DeleteHashEntry has not found the entry in its bucket
    readers, writer,    \* who has m_lock
    call,               \* of each user the operation that he is in
    search,             \* of the iteration: [nextIndex, nextEntryPtr, seen]
    answer,             \* of each user: what the last operation has returned
    freed               \* history: the entries whose values the last operation has freed

table == <<buckets, numBuckets, rebuildSize, downShift, numEntries, bucketPtr>>
lock == <<readers, writer>>
vars == <<m_type, table, clientData, m_n_entries, m_is_operational, aborted, lock, call,
          search, answer, freed>>

Idle == [op |-> "none"]
NoSearch == [nextIndex |-> 0, nextEntryPtr |-> <<>>, seen |-> <<>>]
NoBuckets(size) == [i \in 0..(size - 1) |-> <<>>]

-----------------------------------------------------------------------------
(* The hash table.                                                         *)

HashString(k) == Hash[k]

\* The sum of the integers.
HashArray(k) == FoldLeft(+, 0, Ints[k])

\* RANDOM_INDEX, for a table of the given size.
RandomIndex(i, size, shift) == ((i * Spread) \div 2^shift) % size

\* The bucket of a key in a table of the given size.
Index(k, size, shift) ==
    CASE m_type = "STRING"   -> HashString(k) % size
      [] m_type = "ONE_WORD" -> RandomIndex(Hash[k], size, shift)
      [] m_type = "ARRAY"    -> RandomIndex(HashArray(k), size, shift)

Idx(k) == Index(k, numBuckets, downShift)

\* Is there an entry?
StringFind(k) == Contains(buckets[HashString(k) % numBuckets], k)
OneWordFind(k) == Contains(buckets[RandomIndex(Hash[k], numBuckets, downShift)], k)
ArrayFind(k) == Contains(buckets[RandomIndex(HashArray(k), numBuckets, downShift)], k)

Found(k) ==
    \/ m_type = "STRING" /\ StringFind(k)
    \/ m_type = "ONE_WORD" /\ OneWordFind(k)
    \/ m_type = "ARRAY" /\ ArrayFind(k)

\* InitHashTable.
InitHashTable ==
    /\ buckets' = NoBuckets(Slots) /\ numBuckets' = Slots
    /\ rebuildSize' = Slots * Multiplier /\ downShift' = DownShift /\ numEntries' = 0
    /\ bucketPtr' = [k \in Keys |-> 0]

\* The chains of a table: the entry becomes the head of its new chain.
Pushed(chains, k, size, shift) ==
    LET i == Index(k, size, shift) IN [chains EXCEPT ![i] = <<k>> \o @]

\* The entries in the order of an enumeration.
InOrder(chains, size) == FlattenSeq([i \in 1..size |-> chains[i - 1]])

\* Mutant: the entries do not learn of their new buckets.
Rebuild_Stale(chains, ptrs) ==
    LET size == numBuckets * 4 IN
    /\ buckets' = FoldLeft(LAMBDA cs, k : Pushed(cs, k, size, downShift - 2),
                           NoBuckets(size), InOrder(chains, numBuckets))
    /\ numBuckets' = size /\ rebuildSize' = rebuildSize * 4 /\ downShift' = downShift - 2
    /\ bucketPtr' = ptrs

\* RebuildTable: one entry after the other moves to the head of its new chain.
Rebuild(chains, ptrs) ==
    LET size == numBuckets * 4
        moved == Range(InOrder(chains, numBuckets))
    IN
    /\ buckets' = FoldLeft(LAMBDA cs, k : Pushed(cs, k, size, downShift - 2),
                           NoBuckets(size), InOrder(chains, numBuckets))
    /\ numBuckets' = size /\ rebuildSize' = rebuildSize * 4 /\ downShift' = downShift - 2
    /\ bucketPtr' = [k \in Keys |-> IF k \in moved THEN Index(k, size, downShift - 2) ELSE ptrs[k]]

\* A new entry, at the head of chain i.
Create(k, i) ==
    LET chains == [buckets EXCEPT ![i] = <<k>> \o @]
        ptrs == [bucketPtr EXCEPT ![k] = i]
    IN
    /\ numEntries' = numEntries + 1
    /\ IF numEntries + 1 >= rebuildSize
       THEN Rebuild(chains, ptrs)
       ELSE buckets' = chains /\ bucketPtr' = ptrs /\ UNCHANGED <<numBuckets, rebuildSize, downShift>>

\* Of a key that has not been found.
StringCreate(k) == Create(k, HashString(k) % numBuckets)
OneWordCreate(k) == Create(k, RandomIndex(Hash[k], numBuckets, downShift))
ArrayCreate(k) == Create(k, RandomIndex(HashArray(k), numBuckets, downShift))

CreateHashEntry(k) ==
    \/ m_type = "STRING" /\ StringCreate(k)
    \/ m_type = "ONE_WORD" /\ OneWordCreate(k)
    \/ m_type = "ARRAY" /\ ArrayCreate(k)

\* DeleteHashEntry.
DeleteHashEntry(k) ==
    LET chain == buckets[bucketPtr[k]] IN
    /\ aborted' = (aborted \/ ~Contains(chain, k))
    /\ buckets' = [buckets EXCEPT ![bucketPtr[k]] = RemoveFirst(@, k)]
    /\ numEntries' = numEntries - 1
    /\ bucketPtr' = [bucketPtr EXCEPT ![k] = 0]
    /\ UNCHANGED <<numBuckets, rebuildSize, downShift>>

\* DeleteHashTable, and the memory set to zero after it.
DeleteHashTable ==
    /\ buckets' = NoBuckets(0) /\ numBuckets' = 0 /\ rebuildSize' = 0 /\ downShift' = 0
    /\ numEntries' = 0 /\ bucketPtr' = [k \in Keys |-> 0]

\* NextHashEntry: in the present chain, or in the next one that is not empty.
NextChain(s) ==
    LET more == {i \in s.nextIndex..(numBuckets - 1) : buckets[i] # <<>>} IN
    IF s.nextEntryPtr # <<>> \/ more = {} THEN s
    ELSE [s EXCEPT !.nextIndex = Min(more) + 1, !.nextEntryPtr = buckets[Min(more)]]

-----------------------------------------------------------------------------

Init ==
    /\ m_type \in Types
    /\ buckets = NoBuckets(Slots) /\ numBuckets = Slots
    /\ rebuildSize = Slots * Multiplier /\ downShift = DownShift /\ numEntries = 0
    /\ bucketPtr = [k \in Keys |-> 0] /\ clientData = [k \in Keys |-> NoValue]
    /\ m_n_entries = 0 /\ m_is_operational = TRUE /\ aborted = FALSE
    /\ readers = {} /\ writer = NoUser
    /\ call = [u \in Users |-> Idle]
    /\ search = NoSearch
    /\ answer = [u \in Users |-> <<"NONE", NoValue>>]
    /\ freed = {}

-----------------------------------------------------------------------------
(* m_lock: gallus_rwlock_reader_ and _writer_enter_critical, with the      *)
(* cancellation disabled, and _leave_critical.                             *)

CanWrite == writer = NoUser /\ readers = {}

EntersForReading(u, c) ==
    /\ call[u] = Idle /\ writer = NoUser
    /\ readers' = readers \cup {u} /\ UNCHANGED writer
    /\ call' = [call EXCEPT ![u] = c]
    /\ UNCHANGED <<m_type, table, clientData, m_n_entries, m_is_operational, aborted,
                   search, answer, freed>>

EntersForWriting(u, c) ==
    /\ call[u] = Idle /\ CanWrite
    /\ writer' = u /\ UNCHANGED readers
    /\ call' = [call EXCEPT ![u] = c]
    /\ UNCHANGED <<m_type, table, clientData, m_n_entries, m_is_operational, aborted,
                   search, answer, freed>>

\* The work is done; the lock is still held.
Done(u) == call' = [call EXCEPT ![u] = [op |-> "leave"]] /\ UNCHANGED <<m_type, lock>>
Returns(u, r, v) == answer' = [answer EXCEPT ![u] = <<r, v>>] /\ Done(u)

Leave(u) ==
    /\ call[u].op = "leave"
    /\ readers' = readers \ {u}
    /\ writer' = IF writer = u THEN NoUser ELSE writer
    /\ call' = [call EXCEPT ![u] = Idle]
    /\ UNCHANGED <<m_type, table, clientData, m_n_entries, m_is_operational, aborted,
                   search, answer, freed>>

-----------------------------------------------------------------------------
(* The calls.                                                              *)

CallFind(u, k) == EntersForReading(u, [op |-> "find", key |-> k])
CallSize(u) == EntersForReading(u, [op |-> "size"])
CallAdd(u, k, v, overwrite) ==
    EntersForWriting(u, [op |-> "add", key |-> k, val |-> v, allow_overwrite |-> overwrite])
CallDelete(u, k, free) == EntersForWriting(u, [op |-> "delete", key |-> k, free_value |-> free])
CallClear(u, free) == EntersForWriting(u, [op |-> "clear", free_values |-> free])
CallShutdown(u, free) == EntersForWriting(u, [op |-> "shutdown", free_values |-> free])

\* The visitor may set values, so that the lock is for writing.
CallIterate(u) == EntersForWriting(u, [op |-> "iterate"])

Refused(u) ==
    /\ call[u].op \in {"find", "size", "add", "delete", "clear", "iterate"}
    /\ ~m_is_operational
    /\ Returns(u, "NOT_OPERATIONAL", NoValue)
    /\ freed' = {}
    /\ UNCHANGED <<table, clientData, m_n_entries, m_is_operational, aborted, search>>

Works(u, op) == call[u].op = op /\ m_is_operational

Find(u) ==
    LET k == call[u].key IN
    /\ Works(u, "find")
    /\ IF Found(k) THEN Returns(u, "OK", clientData[k]) ELSE Returns(u, "NOT_FOUND", NoValue)
    /\ freed' = {}
    /\ UNCHANGED <<table, clientData, m_n_entries, m_is_operational, aborted, search>>

Size(u) ==
    /\ Works(u, "size")
    /\ Returns(u, "SIZE", m_n_entries)
    /\ freed' = {}
    /\ UNCHANGED <<table, clientData, m_n_entries, m_is_operational, aborted, search>>

\* A new entry, or none because there is no memory.
AddNew(u) ==
    LET k == call[u].key IN
    /\ Works(u, "add") /\ ~Found(k)
    /\ \/ /\ CreateHashEntry(k)
          /\ clientData' = [clientData EXCEPT ![k] = call[u].val]
          /\ m_n_entries' = m_n_entries + 1
          /\ Returns(u, "OK", NoValue)
       \/ /\ Returns(u, "NO_MEMORY", NoValue)
          /\ UNCHANGED <<table, clientData, m_n_entries>>
    /\ freed' = {}
    /\ UNCHANGED <<m_is_operational, aborted, search>>

AddAgain(u) ==
    LET k == call[u].key IN
    /\ Works(u, "add") /\ Found(k)
    /\ IF call[u].allow_overwrite
       THEN clientData' = [clientData EXCEPT ![k] = call[u].val] /\ Returns(u, "OK", clientData[k])
       ELSE UNCHANGED clientData /\ Returns(u, "ALREADY_EXISTS", clientData[k])
    /\ freed' = {}
    /\ UNCHANGED <<table, m_n_entries, m_is_operational, aborted, search>>

\* The value is returned, even if it is freed.
Delete(u) ==
    LET k == call[u].key IN
    /\ Works(u, "delete")
    /\ IF Found(k)
       THEN /\ freed' = IF call[u].free_value /\ Frees THEN {k} ELSE {}
            /\ DeleteHashEntry(k)
            /\ clientData' = [clientData EXCEPT ![k] = NoValue]
            /\ m_n_entries' = m_n_entries - 1
            /\ Returns(u, "OK", clientData[k])
       ELSE /\ freed' = {}
            /\ Returns(u, "OK", NoValue)
            /\ UNCHANGED <<table, clientData, m_n_entries, aborted>>
    /\ UNCHANGED <<m_is_operational, search>>

\* s_clean, but for the table: an enumeration frees the values, if there is a m_del_proc.
Clean(free) ==
    /\ freed' = IF free /\ Frees THEN Range(InOrder(buckets, numBuckets)) ELSE {}
    /\ clientData' = [k \in Keys |-> NoValue]
    /\ m_n_entries' = 0

Clear(u) ==
    /\ Works(u, "clear")
    /\ Clean(call[u].free_values) /\ InitHashTable
    /\ Returns(u, "OK", NoValue)
    /\ UNCHANGED <<m_is_operational, aborted, search>>

\* The second of two shutdowns does nothing.
Shutdown(u) ==
    /\ call[u].op = "shutdown"
    /\ m_is_operational' = FALSE
    /\ IF m_is_operational
       THEN Clean(call[u].free_values) /\ DeleteHashTable
       ELSE freed' = {} /\ UNCHANGED <<table, clientData, m_n_entries>>
    /\ Returns(u, "NONE", NoValue)
    /\ UNCHANGED <<aborted, search>>

\* s_do_iterate begins: FirstHashEntry.
Iterate(u) ==
    /\ Works(u, "iterate")
    /\ call' = [call EXCEPT ![u] = [op |-> "walk"]]
    /\ search' = NoSearch
    /\ freed' = {}
    /\ UNCHANGED <<m_type, table, clientData, m_n_entries, m_is_operational, aborted, lock, answer>>

\* The visitor gives the entry the value v, perhaps its old one, and goes on or stops.
Visit(u, v) ==
    LET s == NextChain(search)
        k == Head(s.nextEntryPtr)
    IN
    /\ call[u].op = "walk" /\ s.nextEntryPtr # <<>>
    /\ clientData' = [clientData EXCEPT ![k] = v]
    /\ \/ /\ search' = [s EXCEPT !.nextEntryPtr = Tail(@), !.seen = Append(@, k)]
          /\ UNCHANGED <<m_type, lock, call, answer>>
       \/ search' = NoSearch /\ Returns(u, "ITERATION_HALTED", NoValue)
    /\ UNCHANGED <<table, m_n_entries, m_is_operational, aborted, freed>>

\* No entry is left; the result is that of the last visit, false if there was none.
IterateEnds(u) ==
    /\ call[u].op = "walk" /\ NextChain(search).nextEntryPtr = <<>>
    /\ search' = NoSearch
    /\ Returns(u, IF search.seen = <<>> THEN "ITERATION_HALTED" ELSE "OK", NoValue)
    /\ UNCHANGED <<table, clientData, m_n_entries, m_is_operational, aborted, freed>>

-----------------------------------------------------------------------------

Calls(u) ==
    \/ CallSize(u) \/ CallIterate(u)
    \/ \E k \in Keys : CallFind(u, k)
    \/ \E k \in Keys, v \in Values, overwrite \in BOOLEAN : CallAdd(u, k, v, overwrite)
    \/ \E k \in Keys, free \in BOOLEAN : CallDelete(u, k, free)
    \/ \E free \in BOOLEAN : CallClear(u, free) \/ CallShutdown(u, free)

Step(u) ==
    \/ Refused(u) \/ Find(u) \/ Size(u) \/ AddNew(u) \/ AddAgain(u) \/ Delete(u)
    \/ Clear(u) \/ Shutdown(u) \/ Iterate(u) \/ IterateEnds(u) \/ Leave(u)
    \/ \E v \in Values : Visit(u, v)

Next == \E u \in Users : Calls(u) \/ Step(u)

Spec == Init /\ [][Next]_vars

-----------------------------------------------------------------------------
(* Properties.                                                             *)

\* The types of the variables that the calls compute.
TypeOK ==
    /\ m_type \in Types /\ m_is_operational \in BOOLEAN
    /\ readers \subseteq Users /\ writer \in Users \cup {NoUser}
    /\ buckets \in [0..(numBuckets - 1) -> Seq(Keys)]
    /\ clientData \in [Keys -> Values \cup {NoValue}]

Entries == {k \in Keys : \E i \in DOMAIN buckets : Contains(buckets[i], k)}

\* The iteration that goes on, if any.
Walker == IF \E u \in Users : call[u].op = "walk" THEN CHOOSE u \in Users : call[u].op = "walk" ELSE NoUser

Map == INSTANCE KeyMap WITH
    map <- [k \in Entries |-> clientData[k]],
    open <- m_is_operational /\ ~aborted,
    walker <- Walker,
    seen <- Range(search.seen)

\* With its chains, rebuilds and its lock the map is a function from keys to values,
\* whose operations are atomic and whose iterations visit every entry once, alone; and
\* an entry is always found in the bucket it names, through all rebuilds: the abort of
\* DeleteHashEntry would close the map before its time.
ImplementsMap == Map!Spec

=============================================================================
