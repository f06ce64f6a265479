---------------------------- MODULE SegmentTable ----------------------------
(***************************************************************************)
(* The two arrays indexed by the segment number of a pointer, segments and *)
(* segment_status, and their growth: tm_alloc and tm_free (358982/tm.cpp), *)
(* realloc_segments and get_versioned_lock (TransactionalMemory.cpp).  The *)
(* members point to buffers of MAX_SEGMENTS entries which realloc extends  *)
(* in place or moves; the calls that index one load the member first and   *)
(* use what they loaded.                                                   *)
(***************************************************************************)
EXTENDS Integers, FiniteSets

CONSTANTS
    Threads,
    Nobody,          \* no thread
    InitialSegments, \* MAX_SEGMENTS of a new region
    IndexRange,      \* the values of n_segments: 2^16
    MaxAllocations   \* bound: calls of tm_alloc

Arrays == {"segments", "segment_status"}

VARIABLES
    n_segments, MAX_SEGMENTS, allocating_lock,   \* the members
    member,      \* the buffer each of the members segments and segment_status points to
    buffers,     \* the heap: for each array, every buffer realloc has returned
    pc,
    array,       \* the array a call is at
    new_index,   \* the entry tm_alloc fills, or the one another call is at
    base,        \* the value of the member a call has loaded, or realloc returned
    name,        \* the segment tm_alloc creates: the number of the call
    calls,       \* calls of tm_alloc so far
    returned,    \* <<index, segment>> for every tm_alloc that has returned
    freed,       \* the indexes tm_free has been called with
    disturbed    \* the arrays have grown beside another call

table == <<n_segments, MAX_SEGMENTS, member, allocating_lock, buffers>>
local == <<pc, array, new_index, base, name>>
past  == <<calls, returned, freed>>
vars  == <<table, local, past, disturbed>>

Garbage == -1   \* an entry nobody has written: nullptr, or what the heap had there
NoBuffer == 0

\* SegmentStatus
ABSENT == 0
IN_USE == 1
TO_BE_DELETED == 2

Size(m) == 0..(m - 1)

\* What realloc has moved: its entries are gone.
Released == [live |-> FALSE, entry |-> <<>>]

\* Entry i of buffer b of array a, where that is defined.
Entry(a, b, i) ==
    IF i \in DOMAIN buffers[a][b].entry THEN buffers[a][b].entry[i] ELSE Garbage

-----------------------------------------------------------------------------
\* The constructor: entry 0 is the start segment, the others are nullptr, ABSENT.
Init ==
    /\ n_segments = 1
    /\ MAX_SEGMENTS = InitialSegments
    /\ allocating_lock = Nobody
    /\ member = [a \in Arrays |-> 1]
    /\ buffers = [a \in Arrays |-> [b \in {1} |->
          [live |-> TRUE, entry |-> [i \in Size(InitialSegments) |->
              CASE a = "segments" -> IF i = 0 THEN 0 ELSE Garbage
                [] OTHER          -> IF i = 0 THEN IN_USE ELSE ABSENT]]]]
    /\ pc = [t \in Threads |-> "out"]
    /\ array = [t \in Threads |-> "segments"]
    /\ new_index = [t \in Threads |-> 0]
    /\ base = [t \in Threads |-> NoBuffer]
    /\ name = [t \in Threads |-> 0]
    /\ calls = 0
    /\ returned = {<<0, 0>>}
    /\ freed = {}
    /\ disturbed = FALSE

Go(t, to) == pc' = [pc EXCEPT ![t] = to]
Turn(t, a) == array' = [array EXCEPT ![t] = a]

Alone(t) == \A u \in Threads \ {t} : pc[u] = "out"

\* Nobody is inside a call that may grow the arrays.
NoGrowth == \A u \in Threads : pc[u] \in {"out", "fetched", "new", "store", "lookup", "mark"}

\* What the steps under the lock leave alone.
Still == UNCHANGED <<n_segments, new_index, name, past, disturbed>>

-----------------------------------------------------------------------------
(* tm_alloc *)

FetchIndex(t) ==
    /\ pc[t] = "out"
    /\ calls < MaxAllocations
    /\ new_index' = [new_index EXCEPT ![t] = n_segments]
    /\ n_segments' = (n_segments + 1) % IndexRange
    /\ calls' = calls + 1
    /\ name' = [name EXCEPT ![t] = calls + 1]
    /\ Go(t, "fetched")
    /\ disturbed' = (disturbed \/ ~NoGrowth)
    /\ UNCHANGED <<MAX_SEGMENTS, member, allocating_lock, buffers, array, base, returned, freed>>

\* An index beyond the table makes it grow; others may have fetched theirs, or have
\* made it grow, since.
CompareMaximum(t) ==
    /\ pc[t] = "fetched"
    /\ \/ /\ new_index[t] >= MAX_SEGMENTS
          /\ Go(t, "wait")
          /\ disturbed' = (disturbed \/ ~Alone(t))
       \/ /\ new_index[t] < MAX_SEGMENTS
          /\ Go(t, "new")
          /\ UNCHANGED disturbed
    /\ UNCHANGED <<table, array, new_index, base, name, past>>

\* Fault: the result of try_lock is not looked at.
TryLockIgnored(t) ==
    /\ pc[t] = "wait"
    /\ allocating_lock' = t
    /\ Go(t, "grow")
    /\ Still /\ UNCHANGED <<MAX_SEGMENTS, member, buffers, array, base>>

TryLock(t) ==
    /\ pc[t] = "wait"
    /\ allocating_lock = Nobody
    /\ allocating_lock' = t
    /\ Go(t, "grow")
    /\ Still /\ UNCHANGED <<MAX_SEGMENTS, member, buffers, array, base>>

\* The wait ends early for an entry beyond the table, as the comparison is
\* written, and goes on for one that fits.
GiveUpWaiting(t) ==
    /\ pc[t] = "wait"
    /\ allocating_lock # Nobody
    /\ MAX_SEGMENTS < new_index[t]
    /\ Go(t, "new")
    /\ UNCHANGED <<table, array, new_index, base, name, past, disturbed>>

\* Fault: a plain allocation, whose contents nobody copies.
grown_empty(a, b) == [live |-> TRUE, entry |-> [i \in Size(2 * MAX_SEGMENTS) |-> Garbage]]

\* What realloc returns: the old entries, then what the heap has after them.
grown(a, b) == [live |-> TRUE, entry |-> [i \in Size(2 * MAX_SEGMENTS) |-> Entry(a, b, i)]]

\* realloc, first of segments, then of segment_status; its result not assigned yet.
Realloc(t, in_place) ==
    /\ pc[t] = "grow"
    /\ LET a   == array[t]
           old == member[a]
           new == IF in_place THEN old ELSE Cardinality(DOMAIN buffers[a]) + 1
       IN  /\ buffers' = [buffers EXCEPT ![a] =
                             [b \in DOMAIN @ \cup {new} |->
                                 IF b = new THEN grown(a, old)
                                 ELSE IF b = old THEN Released ELSE @[b]]]
           /\ base' = [base EXCEPT ![t] = new]
    /\ Go(t, "assign")
    /\ Still /\ UNCHANGED <<MAX_SEGMENTS, member, allocating_lock, array>>

\* After the result of the first realloc comes the second, then the doubling.
Assigned(t) ==
    IF array[t] = "segments" THEN Go(t, "grow") /\ Turn(t, "segment_status")
                             ELSE Go(t, "double") /\ Turn(t, "segments")

\* Fault: the result of realloc is not assigned.
AssignNothing(t) ==
    /\ pc[t] = "assign"
    /\ Assigned(t)
    /\ Still /\ UNCHANGED <<MAX_SEGMENTS, member, allocating_lock, buffers, base>>

Assign(t) ==
    /\ pc[t] = "assign"
    /\ member' = [member EXCEPT ![array[t]] = base[t]]
    /\ Assigned(t)
    /\ Still /\ UNCHANGED <<MAX_SEGMENTS, allocating_lock, buffers, base>>

DoubleMaximum(t) ==
    /\ pc[t] = "double"
    /\ MAX_SEGMENTS' = MAX_SEGMENTS * 2
    /\ Go(t, "unlock")
    /\ Still /\ UNCHANGED <<member, allocating_lock, buffers, array, base>>

Unlock(t) ==
    /\ pc[t] = "unlock"
    /\ allocating_lock' = Nobody
    /\ Go(t, "new")
    /\ Still /\ UNCHANGED <<MAX_SEGMENTS, member, buffers, array, base>>

\* segments[new_index] = segment, segment_status[new_index] = IN_USE: the member is
\* loaded ...
LoadTable(t) ==
    /\ pc[t] = "new"
    /\ base' = [base EXCEPT ![t] = member[array[t]]]
    /\ Go(t, "store")
    /\ UNCHANGED <<table, array, new_index, name, past, disturbed>>

\* The buffer t indexes is still there and has the entry.
Indexable(t) ==
    LET b == buffers[array[t]][base[t]] IN b.live /\ new_index[t] \in DOMAIN b.entry

\* ... and the entry stored, or something else that now lives at that address.
Put(t, value) ==
    buffers' = IF Indexable(t)
                 THEN [buffers EXCEPT ![array[t]][base[t]].entry[new_index[t]] = value]
                 ELSE buffers

Done(t) ==
    /\ Go(t, "out")
    /\ Turn(t, "segments")
    /\ new_index' = [new_index EXCEPT ![t] = 0]
    /\ base' = [base EXCEPT ![t] = NoBuffer]
    /\ name' = [name EXCEPT ![t] = 0]

StoreEntry(t) ==
    /\ pc[t] = "store"
    /\ \/ /\ array[t] = "segments"
          /\ Put(t, name[t])
          /\ Go(t, "new") /\ Turn(t, "segment_status")
          /\ UNCHANGED <<new_index, base, name, returned>>
       \/ /\ array[t] = "segment_status"
          /\ Put(t, IN_USE)
          /\ Done(t)
          /\ returned' = returned \cup {<<new_index[t], name[t]>>}
    /\ UNCHANGED <<n_segments, MAX_SEGMENTS, member, allocating_lock, calls, freed, disturbed>>

-----------------------------------------------------------------------------
(* tm_free, and get_versioned_lock from tm_read and tm_end, with an index    *)
(* tm_alloc has returned: the member, then the entry.                        *)

Index(t, i, a, to) ==
    /\ pc[t] = "out"
    /\ \E s \in 0..calls : <<i, s>> \in returned
    /\ disturbed' = (disturbed \/ ~NoGrowth)
    /\ new_index' = [new_index EXCEPT ![t] = i]
    /\ base' = [base EXCEPT ![t] = member[a]]
    /\ Turn(t, a) /\ Go(t, to)
    /\ UNCHANGED <<table, name, past>>

LookupTable(t, i) == Index(t, i, "segments", "lookup")

LookupEntry(t) ==
    /\ pc[t] = "lookup"
    /\ Done(t)
    /\ UNCHANGED <<table, past, disturbed>>

\* The start segment is not freed, nor any segment twice.
FreeLookup(t, i) == i \notin freed \cup {0} /\ Index(t, i, "segment_status", "mark")

Mark(t) ==
    /\ pc[t] = "mark"
    /\ Put(t, TO_BE_DELETED)
    /\ Done(t)
    /\ freed' = freed \cup {new_index[t]}
    /\ UNCHANGED <<n_segments, MAX_SEGMENTS, member, allocating_lock, calls, returned, disturbed>>

Next == \E t \in Threads :
    \/ FetchIndex(t)
    \/ CompareMaximum(t)
    \/ TryLock(t)
    \/ GiveUpWaiting(t)
    \/ \E in_place \in BOOLEAN : Realloc(t, in_place)
    \/ Assign(t)
    \/ DoubleMaximum(t)
    \/ Unlock(t)
    \/ LoadTable(t)
    \/ StoreEntry(t)
    \/ \E i \in 0..MaxAllocations : LookupTable(t, i) \/ FreeLookup(t, i)
    \/ LookupEntry(t)
    \/ Mark(t)

Spec == Init /\ [][Next]_vars

-----------------------------------------------------------------------------
TypeOK ==
    /\ n_segments \in Size(IndexRange)
    /\ MAX_SEGMENTS \in Nat
    /\ allocating_lock \in Threads \cup {Nobody}
    /\ DOMAIN member = Arrays /\ DOMAIN buffers = Arrays
    /\ \A a \in Arrays :
          /\ member[a] \in DOMAIN buffers[a]
          /\ \A b \in DOMAIN buffers[a] : buffers[a][b].live \in BOOLEAN
    /\ \A b \in DOMAIN buffers["segments"] : LET entry == buffers["segments"][b].entry IN
          \A i \in DOMAIN entry : entry[i] \in 0..calls \cup {Garbage}
    /\ \A b \in DOMAIN buffers["segment_status"] : LET entry == buffers["segment_status"][b].entry IN
          \A i \in DOMAIN entry : entry[i] \in {Garbage, ABSENT, IN_USE, TO_BE_DELETED}
    /\ pc \in [Threads -> {"out", "fetched", "wait", "grow", "assign", "double", "unlock",
                           "new", "store", "lookup", "mark"}]
    /\ array \in [Threads -> Arrays]
    /\ new_index \in [Threads -> Size(IndexRange)]
    /\ \A t \in Threads : base[t] \in DOMAIN buffers[array[t]] \cup {NoBuffer}
                             \/ pc[t] \in {"grow", "new", "double", "unlock"}
    /\ name \in [Threads -> 0..calls]
    /\ calls \in 0..MaxAllocations
    /\ returned \subseteq Size(IndexRange) \X (0..calls)
    /\ freed \subseteq Size(IndexRange)
    /\ disturbed \in BOOLEAN

\* Every index tm_alloc has returned leads to the segment it created.
IndexesLead == \A s \in returned : Entry("segments", member["segments"], s[1]) = s[2]

\* And to its status, which the sweep goes by: in use until it is freed.
StatusesKept == \A s \in returned :
    Entry("segment_status", member["segment_status"], s[1]) =
        IF s[1] \in freed THEN TO_BE_DELETED ELSE IN_USE

\* As get_versioned_lock and the sweep rely on, through every growth of the arrays,
\* as long as they grow beside no other call and there are indexes left.
TableHoldsSegment ==
    ~disturbed /\ calls < IndexRange /\ allocating_lock = Nobody => IndexesLead /\ StatusesKept

\* What a call indexes is there: no buffer that realloc has given back, no entry
\* beyond the array.
IndexingSafe ==
    ~disturbed => \A t \in Threads : pc[t] \in {"store", "lookup", "mark"} => Indexable(t)

\* "[thread-safe] Memory allocation in the given transaction": an allocated
\* segment is found whatever the other threads allocate.
AllocationThreadSafe == allocating_lock = Nobody => IndexesLead

\* Whoever grows them at the same time, MAX_SEGMENTS, the bound of the sweep and
\* of tm_destroy, is the size of the one buffer of each array that is alive.
CapacityMatches ==
    allocating_lock = Nobody => \A a \in Arrays :
        /\ DOMAIN buffers[a][member[a]].entry = Size(MAX_SEGMENTS)
        /\ \A b \in DOMAIN buffers[a] : buffers[a][b].live <=> b = member[a]

=============================================================================
