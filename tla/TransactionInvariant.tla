------------------------ MODULE TransactionInvariant ------------------------
(***************************************************************************)
(* Why the transactions of Transaction.tla are serializable: an inductive  *)
(* invariant in four layers.  Shape and Locks say where a transaction is   *)
(* and what it holds there; Memory relates the words, their versions and   *)
(* the serial history; CoveredReads how far the reads of a transaction are *)
(* still covered by the history, and which writers could disturb them.     *)
(***************************************************************************)
EXTENDS Transaction

\* It has its write version and has not validated yet.
Pending(t) == pc[t] = "validate" /\ ~is_ro[t]

\* It has validated; its writes are in the history, not all in memory.
Decided(t) == pc[t] \in {"write", "stamp", "release"}

Slotted(t) == Pending(t) \/ Decided(t)

\* An update transaction whose reads can still be refused.
Updating(t) == ~is_ro[t] /\ pc[t] \in {"active", "rw_copy", "lock", "cas", "validate"}

Holds(t, w) == w \in locked_set[t]

Reads(t, w) == \E i \in 1..Len(read_set[t]) : read_set[t][i] = w

-----------------------------------------------------------------------------
(* Where a transaction is *)

ShapeOf(t) ==
    /\ pc[t] \in {"ro_check", "ro_clock"} => is_ro[t]
    /\ is_ro[t] => pc[t] \in {"active", "ro_check", "ro_clock", "validate"}
    /\ pc[t] \in {"ro_check", "ro_clock", "rw_copy"} => word[t] \in Words
    /\ is_ro[t] /\ pc[t] = "validate" => word[t] \in Words
    /\ pc[t] \in {"idle", "active", "ro_check", "ro_clock", "rw_copy"} => index[t] = 1
    /\ pc[t] \in {"cas", "stamp"} => index[t] <= Len(write_set[t])
    /\ pc[t] \in {"idle", "active", "ro_check", "ro_clock", "rw_copy", "lock", "cas"}
          => write_version[t] = -1
    /\ is_ro[t] => write_version[t] = -1
    /\ Slotted(t) => write_version[t] \in 1..global_clock /\ read_version[t] < write_version[t]
    /\ read_version[t] <= global_clock
    /\ is_ro[t] /\ pc[t] = "validate" => loaded[t] \in read_version[t]..global_clock

Shape == \A t \in Threads : ShapeOf(t)

\* A transaction starts with no reads: clean_up has emptied the sets of the last.
Fresh == \A t \in Threads : pc[t] = "idle" => read_set[t] = <<>> /\ observed[t] = {}

\* The lock being taken is not held already, and reads are looked at only when
\* another transaction may have committed since this one began.
LookedAt(t) ==
    /\ pc[t] = "cas" => CurrentWrite(t).word \notin locked_set[t]
    /\ Pending(t) /\ index[t] <= Len(read_set[t]) => write_version[t] # read_version[t] + 1

Needed == \A t \in Threads : LookedAt(t)

\* The increment of the clock is atomic: no two transactions share a slot.
SlotsDiffer ==
    \A t, u \in Threads :
        t # u /\ Slotted(t) /\ Slotted(u) => write_version[t] # write_version[u]

\* The last write of a word exists: LastWrite chooses among actual writes.
WritesHaveLast ==
    \A t \in Threads : \A w \in Written(t) :
        \E i \in DOMAIN write_set[t] : write_set[t][i].word = w /\ IsLastWrite(t, i)

-----------------------------------------------------------------------------
(* What a transaction holds *)

\* The loops over the write set have done their part of it.
LockProgress(t) ==
    /\ locked_set[t] \subseteq Written(t)
    /\ pc[t] \in {"idle", "active", "ro_check", "ro_clock", "rw_copy"} => locked_set[t] = {}
    /\ is_ro[t] => locked_set[t] = {}
    /\ pc[t] \in {"lock", "cas"} =>
          \A i \in DOMAIN write_set[t] : i < index[t] => Holds(t, write_set[t][i].word)
    /\ Pending(t) \/ pc[t] \in {"write", "stamp"} => Written(t) \subseteq locked_set[t]
    /\ pc[t] \in {"release", "rollback"} =>
          \A i \in DOMAIN write_set[t] : i < index[t] => ~Holds(t, write_set[t][i].word)

Locks == LockOwnership /\ \A t \in Threads : LockProgress(t)

-----------------------------------------------------------------------------
(* What a word, its version and the history say together *)

\* Nobody is writing w back.
Settled(w) == \A t \in Threads : Holds(t, w) => ~Decided(t)

SettledWord(w) ==
    Settled(w) => \A k \in version[w]..global_clock : serial[k][w] = data[w]

VersionBound ==
    /\ \A w \in Words : version[w] <= global_clock
    /\ \A t \in Threads : Slotted(t) =>
          \A w \in locked_set[t] : version[w] <= write_version[t]

\* The write-back of w by t: the history has the value from the slot on, and the
\* word has it with its version once the loop has passed the last write of w.
WriteBack(t, w) ==
    /\ \A k \in write_version[t]..global_clock : serial[k][w] = LastWrite(t, w)
    /\ pc[t] = "release" => data[w] = LastWrite(t, w) /\ version[w] = write_version[t]
    /\ \A i \in DOMAIN write_set[t] :
          write_set[t][i].word = w /\ i < index[t] /\ pc[t] \in {"write", "stamp"} =>
              /\ version[w] = write_version[t]
              /\ IsLastWrite(t, i) => data[w] = LastWrite(t, w)
    /\ pc[t] = "stamp" /\ write_set[t][index[t]].word = w /\ IsLastWrite(t, index[t])
          => data[w] = LastWrite(t, w)

Memory ==
    /\ VersionBound
    /\ \A w \in Words : SettledWord(w)
    /\ \A t \in Threads : Decided(t) => \A w \in locked_set[t] : WriteBack(t, w)

-----------------------------------------------------------------------------
(* How far a read is covered *)

\* Every transaction that holds w and has a slot has it after k.
SlotsAfter(u, w, k) ==
    \A t \in Threads : t # u /\ Holds(t, w) /\ Slotted(t) => write_version[t] > k

\* A read of an update transaction, until it has been validated: whoever writes
\* the word will give it a version the validation refuses, and as long as the
\* version would pass the word still has the value read.
ReadsGuarded(u) ==
    Updating(u) =>
        /\ \A w \in Words : Reads(u, w) => SlotsAfter(u, w, read_version[u])
        /\ \A r \in observed[u] :
              /\ Reads(u, r[1])
              /\ version[r[1]] <= read_version[u]
                 /\ (\A t \in Threads : t # u /\ Holds(t, r[1]) => ~Decided(t))
                     => data[r[1]] = r[2]
        /\ pc[u] = "rw_copy" => Reads(u, word[u])

\* ... and after that.
ReadsValidated(u) ==
    Pending(u) =>
        \A i \in 1..Len(read_set[u]) : i < index[u] =>
            /\ SlotsAfter(u, read_set[u][i], write_version[u])
            /\ \A r \in observed[u] :
                  r[1] = read_set[u][i] => serial[write_version[u] - 1][r[1]] = r[2]

PendingAfter(w, k) ==
    \A t \in Threads : Holds(t, w) /\ Pending(t) => write_version[t] > k

\* A committed read: no transaction that may still commit is before it.
CommittedReads ==
    \A r \in committed_reads :
        /\ r[1] \in 0..global_clock
        /\ serial[r[1]][r[2]] = r[3]
        /\ PendingAfter(r[2], r[1])

\* The reads of a read-only transaction at its read version, and of those that
\* the validation under way has passed, at the version it moves to.
Snapshot(u) ==
    is_ro[u] =>
        \A r \in observed[u] \ stale[u] :
            /\ Reads(u, r[1])
            /\ serial[read_version[u]][r[1]] = r[2]
            /\ PendingAfter(r[1], read_version[u])
            /\ pc[u] = "validate" =>
                  \A i \in 1..Len(read_set[u]) : i < index[u] /\ read_set[u][i] = r[1] =>
                      /\ serial[loaded[u]][r[1]] = r[2]
                      /\ PendingAfter(r[1], loaded[u])

CoveredReads ==
    /\ \A u \in Threads : ReadsGuarded(u) /\ ReadsValidated(u) /\ Snapshot(u)
    /\ CommittedReads

\* The inductive invariant behind Serializable, VersionDescribesData and
\* ExtensionKeepsSnapshot, and behind what VersionsOnlyGrow,
\* RefusalNeedsConflict and KeepsPromise say of a step: it holds initially,
\* every step keeps it, and it implies each of them.
IInv ==
    /\ TypeOK
    /\ Shape
    /\ Fresh
    /\ Needed
    /\ SlotsDiffer
    /\ WritesHaveLast
    /\ Locks
    /\ Memory
    /\ CoveredReads

=============================================================================
