----------------------------- MODULE ReferenceTM -----------------------------
(***************************************************************************)
(* The reference library, reference/tm.c: a transaction holds a global     *)
(* reader-writer lock from tm_begin to tm_end, reads and writes in place,  *)
(* and keeps what it allocates in a doubly linked list that tm_destroy     *)
(* frees.  The caller is a program that follows include/tm.h: a read-only  *)
(* transaction does not write, allocate or free, a segment is freed once,  *)
(* and the region is destroyed when no transaction runs.                   *)
(***************************************************************************)
EXTENDS Integers, FiniteSets

CONSTANTS
    Threads,
    Words, Values, InitValue,    \* words of the first segment
    Segments,                    \* addresses malloc gives to segments of tm_alloc
    NULL,
    MaxUpdates,                  \* bound: update transactions begun
    MaxReads, MaxWrites          \* bounds: of one transaction

ASSUME ValuesAssumption == InitValue \in Values
ASSUME NullAssumption   == NULL \notin Segments
ASSUME SegmentsAssumption == IsFiniteSet(Segments)

VARIABLES
    \* the region
    readers, writer,      \* lock: who holds it, shared or exclusive
    memory,               \* the words of the first segment
    allocs,               \* the first node of the list
    prev, next,           \* of the nodes
    allocated,            \* the nodes malloc has given and free has not taken back
    region,               \* "open", "closing" inside tm_destroy, "closed"
    \* its callers
    tx,                   \* where each thread is in its transaction
    reads, writes,        \* what the transaction has read before it wrote there, and its writes
    \* history
    serial,               \* serial[k]: the words after k update transactions
    committed_reads,      \* <<k, w, v>>: a committed transaction behind k updates read v in w
    view                  \* the updates begun when the transaction began, or took the lock

lists == <<allocs, prev, next, allocated>>
history == <<serial, committed_reads, view>>
vars == <<readers, writer, memory, lists, region, tx, reads, writes, history>>

Nobody == {}

updates == Cardinality(DOMAIN serial) - 1

Init ==
    /\ readers = {} /\ writer = Nobody
    /\ memory = [w \in Words |-> InitValue]
    /\ allocs = NULL
    /\ prev = [s \in Segments |-> NULL] /\ next = [s \in Segments |-> NULL]
    /\ allocated = {}
    /\ region = "open"
    /\ tx = [t \in Threads |-> "none"]
    /\ reads = [t \in Threads |-> {}] /\ writes = [t \in Threads |-> [w \in {} |-> InitValue]]
    /\ serial = [k \in 0..0 |-> memory]
    /\ committed_reads = {}
    /\ view = [t \in Threads |-> -1]

Go(t, to) == tx' = [tx EXCEPT ![t] = to]

-----------------------------------------------------------------------------
(* tm_begin: a call, and the lock. *)

Begin(t, kind) ==
    /\ region = "open"
    /\ tx[t] = "none"
    /\ Go(t, kind)
    /\ view' = [view EXCEPT ![t] = updates]
    /\ UNCHANGED <<readers, writer, memory, lists, region, reads, writes, serial, committed_reads>>

\* Fault: the lock is shared with a writer.
AcquireSharedAnyway(t) ==
    /\ tx[t] = "wait_ro"
    /\ readers' = readers \cup {t}
    /\ Go(t, "read_only_tx")
    /\ view' = [view EXCEPT ![t] = updates]
    /\ UNCHANGED <<writer, memory, lists, region, reads, writes, serial, committed_reads>>

AcquireShared(t) ==
    /\ tx[t] = "wait_ro"
    /\ writer = Nobody
    /\ readers' = readers \cup {t}
    /\ Go(t, "read_only_tx")
    /\ view' = [view EXCEPT ![t] = updates]
    /\ UNCHANGED <<writer, memory, lists, region, reads, writes, serial, committed_reads>>

Acquire(t) ==
    /\ tx[t] = "wait_rw"
    /\ writer = Nobody /\ readers = {}
    /\ updates < MaxUpdates
    /\ writer' = {t}
    /\ Go(t, "read_write_tx")
    /\ serial' = [k \in 0..(updates + 1) |-> IF k <= updates THEN serial[k] ELSE memory]
    /\ UNCHANGED <<readers, memory, lists, region, reads, writes, committed_reads, view>>

\* The lock is refused, invalid_tx.
Refuse(t) ==
    /\ tx[t] \in {"wait_ro", "wait_rw"}
    /\ Go(t, "none")
    /\ view' = [view EXCEPT ![t] = -1]
    /\ UNCHANGED <<readers, writer, memory, lists, region, reads, writes, serial, committed_reads>>

-----------------------------------------------------------------------------
Runs(t) == tx[t] \in {"read_only_tx", "read_write_tx"}

tm_read(t, w) ==
    /\ Runs(t)
    /\ Cardinality(reads[t]) < MaxReads
    /\ reads' = [reads EXCEPT ![t] = IF w \in DOMAIN writes[t] THEN @ ELSE @ \cup {<<w, memory[w]>>}]
    /\ UNCHANGED <<readers, writer, memory, lists, region, tx, writes, history>>

tm_write(t, w, v) ==
    /\ tx[t] = "read_write_tx"
    /\ Cardinality(DOMAIN writes[t] \cup {w}) <= MaxWrites
    /\ memory' = [memory EXCEPT ![w] = v]
    /\ writes' = [writes EXCEPT ![t] = [u \in DOMAIN @ \cup {w} |-> IF u = w THEN v ELSE @[u]]]
    /\ UNCHANGED <<readers, writer, lists, region, tx, reads, history>>

\* The node becomes the first of the list.
tm_alloc(t, s) ==
    /\ tx[t] = "read_write_tx"
    /\ s \notin allocated
    /\ allocated' = allocated \cup {s}
    /\ next' = [next EXCEPT ![s] = allocs]
    /\ prev' = [n \in Segments |-> IF n = s THEN NULL ELSE IF n = allocs THEN s ELSE prev[n]]
    /\ allocs' = s
    /\ UNCHANGED <<readers, writer, memory, region, tx, reads, writes, history>>

\* Fault: the node behind it keeps its prev.
FreeForward(t, s) ==
    /\ tx[t] = "read_write_tx"
    /\ s \in allocated
    /\ next' = [n \in Segments |-> IF n = s THEN NULL ELSE IF n = prev[s] THEN next[s] ELSE next[n]]
    /\ prev' = [prev EXCEPT ![s] = NULL]
    /\ allocs' = IF prev[s] = NULL THEN next[s] ELSE allocs
    /\ allocated' = allocated \ {s}
    /\ UNCHANGED <<readers, writer, memory, region, tx, reads, writes, history>>

\* The nodes around it are linked; what is in freed memory is nobody's, and NULL here.
tm_free(t, s) ==
    /\ tx[t] = "read_write_tx"
    /\ s \in allocated
    /\ next' = [n \in Segments |-> IF n = s THEN NULL ELSE IF n = prev[s] THEN next[s] ELSE next[n]]
    /\ prev' = [n \in Segments |-> IF n = s THEN NULL ELSE IF n = next[s] THEN prev[s] ELSE prev[n]]
    /\ allocs' = IF prev[s] = NULL THEN next[s] ELSE allocs
    /\ allocated' = allocated \ {s}
    /\ UNCHANGED <<readers, writer, memory, region, tx, reads, writes, history>>

-----------------------------------------------------------------------------
(* tm_end *)

Over(t) ==
    /\ Go(t, "none")
    /\ reads' = [reads EXCEPT ![t] = {}]
    /\ writes' = [writes EXCEPT ![t] = [w \in {} |-> InitValue]]
    /\ view' = [view EXCEPT ![t] = -1]

CommitReads(t, k) == committed_reads' = committed_reads \cup {<<k, r[1], r[2]>> : r \in reads[t]}

EndReadOnly(t) ==
    /\ tx[t] = "read_only_tx"
    /\ readers' = readers \ {t}
    /\ CommitReads(t, view[t])
    /\ Over(t)
    /\ UNCHANGED <<writer, memory, lists, region, serial>>

EndUpdate(t) ==
    /\ tx[t] = "read_write_tx"
    /\ writer' = Nobody
    /\ serial' = [serial EXCEPT ![updates] = memory]
    /\ CommitReads(t, updates - 1)
    /\ Over(t)
    /\ UNCHANGED <<readers, memory, lists, region>>

-----------------------------------------------------------------------------
(* tm_destroy *)

Destroy ==
    /\ region = "open"
    /\ \A t \in Threads : tx[t] = "none"
    /\ region' = "closing"
    /\ UNCHANGED <<readers, writer, memory, lists, tx, reads, writes, history>>

DestroyNode ==
    /\ region = "closing"
    /\ allocs # NULL
    /\ allocs' = next[allocs]
    /\ allocated' = allocated \ {allocs}
    /\ prev' = [prev EXCEPT ![allocs] = NULL]
    /\ next' = [next EXCEPT ![allocs] = NULL]
    /\ UNCHANGED <<readers, writer, memory, region, tx, reads, writes, history>>

Destroyed ==
    /\ region = "closing"
    /\ allocs = NULL
    /\ region' = "closed"
    /\ UNCHANGED <<readers, writer, memory, lists, tx, reads, writes, history>>

-----------------------------------------------------------------------------
Transaction(t) ==
    \/ \E kind \in {"wait_ro", "wait_rw"} : Begin(t, kind)
    \/ AcquireShared(t) \/ Acquire(t) \/ Refuse(t)
    \/ \E w \in Words : tm_read(t, w) \/ \E v \in Values : tm_write(t, w, v)
    \/ \E s \in Segments : tm_alloc(t, s) \/ tm_free(t, s)
    \/ EndReadOnly(t) \/ EndUpdate(t)

Next == (\E t \in Threads : Transaction(t)) \/ Destroy \/ DestroyNode \/ Destroyed

Spec == Init /\ [][Next]_vars

-----------------------------------------------------------------------------
TypeOK ==
    /\ readers \subseteq Threads /\ writer \in {Nobody} \cup {{t} : t \in Threads}
    /\ Nobody \in {readers, writer}    \* shared, or exclusive
    /\ memory \in [Words -> Values]
    /\ allocs \in Segments \cup {NULL} /\ allocated \subseteq Segments
    /\ prev \in [Segments -> Segments \cup {NULL}] /\ next \in [Segments -> Segments \cup {NULL}]
    /\ region \in {"open", "closing", "closed"}
    /\ tx \in [Threads -> {"none", "wait_ro", "wait_rw", "read_only_tx", "read_write_tx"}]
    /\ reads \in [Threads -> SUBSET (Words \X Values)]
    /\ \A t \in Threads : DOMAIN writes[t] \subseteq Words
    /\ serial \in [0..updates -> [Words -> Values]]
    /\ committed_reads \subseteq (0..updates) \X Words \X Values
    /\ view \in [Threads -> -1..updates]

\* The nodes of the list, from the first on.
Walk ==
    LET node[k \in 0..Cardinality(Segments)] ==
            IF k = 0 THEN allocs ELSE IF node[k - 1] = NULL THEN NULL ELSE next[node[k - 1]]
    IN node

\* The list holds the segments that are allocated, all of them and no other, and
\* can be walked back as long as tm_free may be called, which finds a node's
\* neighbours there; tm_destroy only goes forward, and leaves nothing behind.
ListIntact ==
    /\ {Walk[k] : k \in DOMAIN Walk} \ {NULL} = allocated
    /\ region = "open" => \A s \in allocated :
          IF s = allocs THEN prev[s] = NULL
                        ELSE prev[s] # NULL /\ next[prev[s]] = s
    /\ region = "closed" => allocated = {} /\ readers = {} /\ writer = Nobody

\* The promise of SerialTM: an update takes its slot when it takes the lock.
Promise == INSTANCE SerialTM WITH
    clock <- updates,
    slot <- [t \in Threads |-> IF t \in writer THEN updates ELSE -1]

\* The reference keeps the same promise as Transaction: what include/tm.h asks.
KeepsPromise == Promise!Spec

=============================================================================
