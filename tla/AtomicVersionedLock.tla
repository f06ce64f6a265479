------------------------ MODULE AtomicVersionedLock ------------------------
(* A lock with a version: what a transaction relies on for each word. *)
EXTENDS Integers

CONSTANTS Threads, Nobody, MaxVersion

VARIABLES version, holder

vars == <<version, holder>>

Init == version = 0 /\ holder = Nobody

try_lock(t) == holder = Nobody /\ holder' = t /\ UNCHANGED version

unlock(t) == holder = t /\ holder' = Nobody /\ UNCHANGED version

set_version(t) == holder = t /\ version' \in 0..MaxVersion /\ UNCHANGED holder

Next == \E t \in Threads : try_lock(t) \/ unlock(t) \/ set_version(t)

Spec == Init /\ [][Next]_vars

=============================================================================
