------------------------- MODULE TransactionalMemory -------------------------
(***************************************************************************)
(* The segments of a region (358982/TransactionalMemory.cpp, tm.cpp):      *)
(* tm_alloc publishes one, tm_free only marks it, and a sweep frees the    *)
(* marked ones at the tm_begin that finds CLEANING_PERIOD transactions     *)
(* ended since the last sweep.  freeing_lock keeps the sweep away from     *)
(* running transactions: they hold it shared, the sweep exclusively.       *)
(*                                                                         *)
(* The client is the one of grading/workload.hpp: segments linked in the   *)
(* shared memory, a transaction that allocates links what it got, one that *)
(* frees unlinks first, and a transaction follows any link that was there  *)
(* at some moment since it began.  Only a commit changes the links.        *)
(***************************************************************************)
EXTENDS Integers, FiniteSets

CONSTANTS
    Threads,
    Nobody,           \* no thread
    CLEANING_PERIOD,
    MAX_SEGMENTS      \* entries of the segment table, never exceeded here

ASSUME PeriodAssumption == CLEANING_PERIOD \in Nat \ {0}
ASSUME TableAssumption  == MAX_SEGMENTS \in Nat \ {0}
ASSUME ThreadsAssumption == IsFiniteSet(Threads) /\ Nobody \notin Threads

VARIABLES
    \* TransactionalMemory
    segment_status,                       \* per entry of the table
    n_segments,
    transactions_committed_since_last_free,
    readers, writer,                      \* who holds freeing_lock shared, exclusively
    \* the threads
    pc,
    new_index,                            \* tm_alloc's entry, or the sweep's position
    \* the heap and the client
    memory,                               \* what malloc thinks of each segment
    linked,                               \* segments the shared memory points to
    reach,                                \* segments a running transaction may point to
    allocated, removed,                   \* what it has allocated, unlinked and freed
    undone,                               \* segments a transaction freed and did not commit
    destroyed

region == <<segment_status, n_segments, transactions_committed_since_last_free>>
lock   == <<readers, writer>>
client == <<linked, reach, allocated, removed, undone, destroyed>>
vars   == <<region, lock, pc, new_index, memory, client>>

Indices == 0..(MAX_SEGMENTS - 1)

counter == transactions_committed_since_last_free

-----------------------------------------------------------------------------
\* Entry 0 of the table is the start segment's.
first_free == 1

\* The constructor: the start segment, which is never freed.
Init ==
    /\ segment_status = [i \in Indices |-> IF i = 0 THEN "IN_USE" ELSE "ABSENT"]
    /\ n_segments = first_free
    /\ transactions_committed_since_last_free = 0
    /\ readers = {} /\ writer = Nobody
    /\ pc = [t \in Threads |-> "out"]
    /\ new_index = [t \in Threads |-> 0]
    /\ memory = [i \in Indices |-> IF i = 0 THEN "live" ELSE "none"]
    /\ linked = {0}
    /\ reach = [t \in Threads |-> {}]
    /\ allocated = [t \in Threads |-> {}]
    /\ removed = [t \in Threads |-> {}]
    /\ undone = {}
    /\ destroyed = FALSE

Go(t, to) == pc' = [pc EXCEPT ![t] = to]

\* Fault: the sweep comes one transaction late.
sweep_due_late == counter > CLEANING_PERIOD

\* The early return of free_marked_segments_if_time.
sweep_due == counter >= CLEANING_PERIOD

-----------------------------------------------------------------------------
(* tm_begin *)

CheckCounter(t) ==
    /\ pc[t] = "out" /\ ~destroyed
    /\ Go(t, IF sweep_due THEN "sweep_wait" ELSE "shared_wait")
    /\ UNCHANGED <<region, lock, new_index, memory, client>>

\* Fault: the sweep takes the lock in the mode of a transaction.
SweepLockShared(t) ==
    /\ pc[t] = "sweep_wait"
    /\ writer = Nobody
    /\ writer' = t
    /\ new_index' = [new_index EXCEPT ![t] = 0]
    /\ Go(t, "sweep")
    /\ UNCHANGED <<region, readers, memory, client>>

\* The try_lock that succeeds; one that fails changes nothing and is repeated.
\* Whether the sweep is still due is not looked at again.
SweepLock(t) ==
    /\ pc[t] = "sweep_wait"
    /\ readers = {} /\ writer = Nobody
    /\ writer' = t
    /\ new_index' = [new_index EXCEPT ![t] = 0]
    /\ Go(t, "sweep")
    /\ UNCHANGED <<region, readers, memory, client>>

\* Fault: the status of a freed segment is left as it was.
SweepKeepsStatus(t) ==
    /\ pc[t] = "sweep" /\ new_index[t] < MAX_SEGMENTS
    /\ memory' = IF segment_status[new_index[t]] = "TO_BE_DELETED"
                   THEN [memory EXCEPT ![new_index[t]] = "freed"] ELSE memory
    /\ new_index' = [new_index EXCEPT ![t] = @ + 1]
    /\ UNCHANGED <<region, lock, pc, client>>

SweepSegment(t) ==
    /\ pc[t] = "sweep" /\ new_index[t] < MAX_SEGMENTS
    /\ LET i == new_index[t] IN
         IF segment_status[i] = "TO_BE_DELETED"
           THEN /\ memory' = [memory EXCEPT ![i] = "freed"]
                /\ segment_status' = [segment_status EXCEPT ![i] = "DELETED"]
           ELSE UNCHANGED <<memory, segment_status>>
    /\ new_index' = [new_index EXCEPT ![t] = @ + 1]
    /\ UNCHANGED <<n_segments, transactions_committed_since_last_free, lock, pc, client>>

ResetCounter(t) ==
    /\ pc[t] = "sweep" /\ new_index[t] = MAX_SEGMENTS
    /\ transactions_committed_since_last_free' = 0
    /\ new_index' = [new_index EXCEPT ![t] = 0]
    /\ Go(t, "swept")
    /\ UNCHANGED <<segment_status, n_segments, lock, memory, client>>

SweepUnlock(t) ==
    /\ pc[t] = "swept"
    /\ writer' = Nobody
    /\ Go(t, "shared_wait")
    /\ UNCHANGED <<region, readers, new_index, memory, client>>

\* The try_lock_shared that succeeds: the transaction exists from here on.
Begin(t) ==
    /\ pc[t] = "shared_wait"
    /\ writer = Nobody
    /\ readers' = readers \cup {t}
    /\ reach' = [reach EXCEPT ![t] = linked]
    /\ Go(t, "running")
    /\ UNCHANGED <<region, writer, new_index, memory, linked, allocated, removed, undone,
                   destroyed>>

-----------------------------------------------------------------------------
(* tm_alloc and tm_free *)

\* The fetch_add of n_segments ...
ReserveIndex(t) ==
    /\ pc[t] = "running"
    /\ n_segments < MAX_SEGMENTS
    /\ new_index' = [new_index EXCEPT ![t] = n_segments]
    /\ n_segments' = n_segments + 1
    /\ Go(t, "alloc")
    /\ UNCHANGED <<segment_status, transactions_committed_since_last_free, lock, memory, client>>

\* ... then the segment and its entry: nobody has its address before tm_alloc
\* returns, so the two stores are one step.
PublishSegment(t) ==
    /\ pc[t] = "alloc"
    /\ memory' = [memory EXCEPT ![new_index[t]] = "live"]
    /\ segment_status' = [segment_status EXCEPT ![new_index[t]] = "IN_USE"]
    /\ allocated' = [allocated EXCEPT ![t] = @ \cup {new_index[t]}]
    /\ new_index' = [new_index EXCEPT ![t] = 0]
    /\ Go(t, "running")
    /\ UNCHANGED <<n_segments, transactions_committed_since_last_free, lock,
                   linked, reach, removed, undone, destroyed>>

\* The client unlinks a segment and frees it.
Free(t, s) ==
    /\ pc[t] = "running"
    /\ s \in reach[t] \ ({0} \cup removed[t])
    /\ segment_status' = [segment_status EXCEPT ![s] = "TO_BE_DELETED"]
    /\ removed' = [removed EXCEPT ![t] = @ \cup {s}]
    /\ UNCHANGED <<n_segments, transactions_committed_since_last_free, lock, pc,
                   new_index, memory, linked, reach, allocated, undone, destroyed>>

-----------------------------------------------------------------------------
(* The end of a transaction *)

\* clean_up releases the lock; the links a commit makes are there for the others.
\* A segment is linked again by nobody, so a free that was undone stays undone.
Leave(t, links) ==
    /\ pc[t] = "running"
    /\ readers' = readers \ {t}
    /\ linked' = links
    /\ reach' = [u \in Threads |-> IF u = t THEN {}
                                   ELSE IF u \in readers THEN reach[u] \cup links ELSE {}]
    /\ allocated' = [allocated EXCEPT ![t] = {}]
    /\ removed' = [removed EXCEPT ![t] = {}]
    /\ undone' = undone \cup (removed[t] \cap links)
    /\ UNCHANGED <<region, writer, new_index, memory, destroyed>>

\* Conflicting transactions do not both commit: what it unlinks is still linked.
EndCommit(t) ==
    /\ removed[t] \subseteq linked
    /\ Leave(t, (linked \cup allocated[t]) \ removed[t])
    /\ Go(t, "count")

\* tm_end that fails: nothing undoes the allocations and the marks.
EndFail(t) ==
    /\ Leave(t, linked)
    /\ Go(t, "count")

\* Fault: tm_read deletes the transaction without its clean_up.
ReadAbortUnclean(t) ==
    /\ pc[t] = "running"
    /\ removed' = [removed EXCEPT ![t] = {}]
    /\ allocated' = [allocated EXCEPT ![t] = {}]
    /\ Go(t, "out")
    /\ UNCHANGED <<region, lock, new_index, memory, linked, reach, undone, destroyed>>

\* tm_read that fails, which does not count the transaction.
ReadAbort(t) ==
    /\ Leave(t, linked)
    /\ Go(t, "out")

\* The fetch_add of tm_end, after the lock is gone.
Count(t) ==
    /\ pc[t] = "count"
    /\ transactions_committed_since_last_free' = counter + 1
    /\ Go(t, "out")
    /\ UNCHANGED <<segment_status, n_segments, lock, new_index, memory, client>>

-----------------------------------------------------------------------------
\* tm_destroy, "with no running transaction": it frees what is in use.
Destroy ==
    /\ \A t \in Threads : pc[t] = "out"
    /\ ~destroyed
    /\ destroyed' = TRUE
    /\ memory' = [i \in Indices |-> IF segment_status[i] = "IN_USE" THEN "freed" ELSE memory[i]]
    /\ UNCHANGED <<region, lock, pc, new_index, linked, reach, allocated, removed, undone>>

Library(t) ==
    \/ SweepLock(t) \/ SweepSegment(t) \/ ResetCounter(t) \/ SweepUnlock(t)
    \/ Begin(t) \/ PublishSegment(t) \/ Count(t)

End(t) == EndCommit(t) \/ EndFail(t) \/ ReadAbort(t)

Next ==
    \/ \E t \in Threads :
          \/ CheckCounter(t)
          \/ Library(t)
          \/ ReserveIndex(t)
          \/ \E s \in Indices : Free(t, s)
          \/ End(t)
    \/ Destroy

Spec == Init /\ [][Next]_vars

\* A thread inside a call is scheduled, and the client ends its transactions.
FairSpec == Spec /\ \A t \in Threads : WF_vars(Library(t)) /\ WF_vars(End(t))

-----------------------------------------------------------------------------
Statuses == {"ABSENT", "IN_USE", "TO_BE_DELETED", "DELETED"}

\* The counter passes the period by the transactions under way at most: nobody
\* begins another one while the sweep is due.
TypeOK ==
    /\ segment_status \in [Indices -> Statuses]
    /\ n_segments \in 1..MAX_SEGMENTS
    /\ counter \in 0..(CLEANING_PERIOD + Cardinality(Threads) - 1)
    /\ readers \subseteq Threads /\ writer \in Threads \cup {Nobody}
    /\ pc \in [Threads -> {"out", "sweep_wait", "sweep", "swept", "shared_wait", "running",
                           "alloc", "count"}]
    /\ new_index \in [Threads -> 0..MAX_SEGMENTS]
    /\ memory \in [Indices -> {"none", "live", "freed"}]
    /\ linked \subseteq Indices
    /\ reach \in [Threads -> SUBSET Indices]
    /\ allocated \in [Threads -> SUBSET Indices]
    /\ removed \in [Threads -> SUBSET Indices]
    /\ undone \subseteq Indices
    /\ destroyed \in BOOLEAN

Running(t) == t \in readers

\* A segment is freed only after every transaction that may hold a pointer to
\* it has ended, unless a transaction that freed it was aborted.
GracePeriod ==
    \A t \in Threads : Running(t) =>
        \A s \in (reach[t] \cup allocated[t]) \ undone : memory[s] = "live"

\* The table calls a segment in use or marked exactly as long as its memory has
\* not been given back, so that no sweep and no tm_destroy frees it twice; again
\* unless a transaction that freed it was aborted.
NothingFreedTwice ==
    ~destroyed => \A i \in Indices \ undone :
        segment_status[i] \in {"IN_USE", "TO_BE_DELETED"} <=> memory[i] = "live"

\* A sweep leaves no marked segment behind: no tm_free runs beside it, whatever
\* the calls that wait for the lock.
SweepComplete ==
    \A t \in Threads : pc[t] = "swept" =>
        \A i \in Indices : segment_status[i] # "TO_BE_DELETED"

\* When a sweep is due and a tm_begin waits for it, it comes, although the wait
\* is a try_lock in a loop and readers are not held back: once the period is
\* over no transaction begins, so the readers drain.
SweepComes ==
    (sweep_due /\ \E t \in Threads : pc[t] = "sweep_wait") ~> ~sweep_due

\* What the client of tm_free is told, "Memory freeing in the given transaction":
\* a segment that is still linked, as the free was aborted, still exists.
LinkedSegmentsLive == ~destroyed => \A s \in linked : memory[s] = "live"

=============================================================================
