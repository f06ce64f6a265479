------------------------------ MODULE Program ------------------------------
(***************************************************************************)
(* What the example programs share (sync-examples/, playground/): main     *)
(* starts the threads, each goes through RUNS rounds, and main joins them  *)
(* and judges what they left.  The lock is that of sync-examples/lock.c, a *)
(* mutex and a condition variable.                                         *)
(***************************************************************************)
EXTENDS Integers, FiniteSets

CONSTANTS
    THREADS,   \* threads of the programs whose threads are alike
    RUNS,      \* rounds of each thread
    Nobody     \* no thread

Threads == 0..(THREADS - 1)

ASSUME ProgramAssumption == THREADS \in Nat \ {0} /\ RUNS \in Nat \ {0}
ASSUME NobodyAssumption  == Nobody \notin Threads

VARIABLES
    program,   \* the program that runs
    pc, r,     \* where each thread is, and its round
    verdict,   \* what main prints
    holder,    \* who has the mutex
    sleepers   \* who is blocked on the condition variable

lock  == <<holder, sleepers>>
steps == <<pc, r>>

-----------------------------------------------------------------------------
(* lock.c *)

lock_init == holder = Nobody /\ sleepers = {}

lock_acquire(t) == holder = Nobody /\ holder' = t /\ UNCHANGED sleepers

lock_release(t) == holder = t /\ holder' = Nobody /\ UNCHANGED sleepers

\* It returns once the thread is woken and has the mutex back (lock_acquire).
lock_wait(t) == holder = t /\ holder' = Nobody /\ sleepers' = sleepers \cup {t}

\* Fault: nobody is woken.
lock_wake_nobody == UNCHANGED lock

lock_wake_up == sleepers' = {} /\ UNCHANGED holder

-----------------------------------------------------------------------------
(* The threads and main *)

\* Threads of set T start their first round at from.
Start(T, from) ==
    /\ pc = [t \in T |-> from]
    /\ r = [t \in T |-> 0]
    /\ verdict = "none"

Go(t, from, to) ==
    /\ pc[t] = from
    /\ pc' = [pc EXCEPT ![t] = to]
    /\ UNCHANGED r

\* Thread t has done k rounds, and goes to first for the next one.
NextRound(t, from, first, k) ==
    /\ pc[t] = from
    /\ r' = [r EXCEPT ![t] = @ + k]
    /\ pc' = [pc EXCEPT ![t] = IF r[t] + k < RUNS THEN first ELSE "joined"]

Verdict(correct) ==
    /\ verdict = "none"
    /\ \A t \in DOMAIN pc : pc[t] = "joined"
    /\ verdict' = IF correct THEN "correct" ELSE "wrong"
    /\ UNCHANGED <<steps, lock>>

=============================================================================
