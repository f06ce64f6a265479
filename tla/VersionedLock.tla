---------------------------- MODULE VersionedLock ----------------------------
(***************************************************************************)
(* The lock of one word (358982/versioned_lock.cpp): a version and a lock  *)
(* bit packed in one atomic int, v.  Each method is the atomic loads,      *)
(* stores and compare-and-swaps it performs; unlock and set_version load   *)
(* and store separately.  Threads use it as a transaction does: anyone may *)
(* try to lock it or look at it, the holder alone stamps and unlocks it.   *)
(***************************************************************************)
EXTENDS Integers

CONSTANTS
    Threads,
    Quarter,     \* a quarter of the values of an int: 2^30 for 32 bits
    Nobody,      \* no thread
    MaxVersion   \* bound: the largest version a client stamps

VARIABLES
    v,        \* the atomic int
    pc,       \* where each thread is
    cur,      \* the version and the lock bit it has loaded
    target    \* the version set_version is called with

vars == <<v, pc, cur, target>>

-----------------------------------------------------------------------------
\* What an int holds after a computation whose exact result is x.
Wrap(x) == IF x % (4 * Quarter) < 2 * Quarter
           THEN x % (4 * Quarter) ELSE (x % (4 * Quarter)) - 4 * Quarter

\* Fault: the version is shifted by the width of two flags.
form_version_flags(version, lock) == Wrap(4 * version) + (IF lock THEN 1 ELSE 0)

\* The shifts and masks of form_version_locked and get_version_locked, on a
\* two's complement int: a right shift of a negative int rounds down.
form_version_locked(version, lock) == Wrap(2 * version) + (IF lock THEN 1 ELSE 0)
version_of(x) == x \div 2
lock_of(x)    == x % 2 = 1
get_version_locked(x) == [version |-> version_of(x), locked |-> lock_of(x)]

unlocked_and_old(x, version) == ~lock_of(x) /\ version_of(x) <= version

-----------------------------------------------------------------------------
Unloaded == [version |-> 0, locked |-> FALSE]

Init ==
    /\ v = form_version_locked(0, FALSE)
    /\ pc = [t \in Threads |-> "out"]
    /\ cur = [t \in Threads |-> Unloaded]
    /\ target = [t \in Threads |-> 0]

Load(t, from, to) ==
    /\ pc[t] = from
    /\ pc' = [pc EXCEPT ![t] = to]
    /\ cur' = [cur EXCEPT ![t] = get_version_locked(v)]
    /\ UNCHANGED v

Return(t, to) ==
    /\ pc' = [pc EXCEPT ![t] = to]
    /\ cur' = [cur EXCEPT ![t] = Unloaded]
    /\ target' = [target EXCEPT ![t] = 0]

TryLockLoad(t) == Load(t, "out", "cas") /\ UNCHANGED target

TryLockCas(t) ==
    /\ pc[t] = "cas"
    /\ v = form_version_locked(cur[t].version, FALSE)
    /\ v' = form_version_locked(cur[t].version, TRUE)
    /\ Return(t, "holder")

TryLockFail(t) ==
    /\ pc[t] = "cas"
    /\ v # form_version_locked(cur[t].version, FALSE)
    /\ Return(t, "out")
    /\ UNCHANGED v

UnlockLoad(t) == Load(t, "holder", "unlock") /\ UNCHANGED target

\* Fault: the store of unlock writes the value of a fresh lock.
UnlockStoreInit(t) ==
    /\ pc[t] = "unlock"
    /\ v' = form_version_locked(0, FALSE)
    /\ Return(t, "out")

UnlockStore(t) ==
    /\ pc[t] = "unlock"
    /\ v' = form_version_locked(cur[t].version, FALSE)
    /\ Return(t, "out")

SetVersionLoad(t, version) ==
    /\ Load(t, "holder", "stamp")
    /\ target' = [target EXCEPT ![t] = version]

SetVersionStore(t) ==
    /\ pc[t] = "stamp"
    /\ v' = form_version_locked(target[t], cur[t].locked)
    /\ Return(t, "holder")

Next == \E t \in Threads :
    \/ TryLockLoad(t) \/ TryLockCas(t) \/ TryLockFail(t)
    \/ UnlockLoad(t) \/ UnlockStore(t)
    \/ \E version \in 0..MaxVersion : SetVersionLoad(t, version)
    \/ SetVersionStore(t)

Spec == Init /\ [][Next]_vars

-----------------------------------------------------------------------------
Holding(t) == pc[t] \in {"holder", "unlock", "stamp"}

\* The int is a version a client has stamped and a lock bit.
TypeOK ==
    /\ v \in {form_version_locked(n, b) : n \in 0..MaxVersion, b \in BOOLEAN}
    /\ pc \in [Threads -> {"out", "cas", "holder", "unlock", "stamp"}]
    /\ cur \in [Threads -> [version : 0..MaxVersion, locked : BOOLEAN]]
    /\ target \in [Threads -> 0..MaxVersion]

\* The bit is set exactly while one thread is between a successful try_lock and
\* the store of its unlock, the load and the store of a stamp included; and what
\* it is about to store is computed from a value that is still there.
MutualExclusion ==
    /\ lock_of(v) <=> \E t \in Threads : Holding(t)
    /\ \A t, u \in Threads : Holding(t) /\ Holding(u) => t = u
    /\ \A t \in Threads : pc[t] \in {"unlock", "stamp"} => cur[t] = get_version_locked(v)

\* The lock of Transaction.tla: each method one step, the version kept apart.
Atomic == INSTANCE AtomicVersionedLock WITH
    version <- version_of(v),
    holder  <- IF \E t \in Threads : Holding(t) THEN CHOOSE t \in Threads : Holding(t)
               ELSE Nobody

\* Seen from outside each method takes effect at once: try_lock and unlock leave
\* the version alone, and set_version leaves the lock to its holder.
ImplementsAtomicLock == Atomic!Spec

=============================================================================
