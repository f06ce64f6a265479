------------------------------ MODULE Counter ------------------------------
(***************************************************************************)
(* Programs whose threads all increment one counter: counter1 to counter4  *)
(* of sync-examples/, playground/ with its Lock, and a client of           *)
(* 358982/spinlock.cpp.  ++counter is a load and a store.  counter1 races: *)
(* its compiler may keep the counter in a register for several rounds.     *)
(***************************************************************************)
EXTENDS Program

CONSTANT
    n_attempts     \* looks at a taken spinlock between two exchanges

ASSUME AttemptsAssumption == n_attempts \in Nat

CounterPrograms ==
    {"counter1", "counter2", "counter3", "counter4", "playground", "spinlock"}

VARIABLES
    counter,
    check_counter, \* the increments made: the playground's own, elsewhere a history
    copy,          \* the value a thread has loaded
    flag,          \* the atomic bool of Lock, of spinlock
    expected,      \* lock's local, in the playground
    attempts       \* lock's local, in the spinlock

counters == <<counter, check_counter>>
locals   == <<copy, expected, attempts>>
counterVars == <<program, steps, verdict, lock, counters, locals, flag>>

first == CASE program = "counter2"   -> "acquire"
           [] program = "counter4"   -> "add"
           [] program = "playground" -> "cas"
           [] program = "spinlock"   -> "call"
           [] OTHER                  -> "load"

CounterData ==
    /\ counter = 0 /\ check_counter = 0 /\ flag = FALSE
    /\ copy = [t \in Threads |-> 0]
    /\ expected = [t \in Threads |-> FALSE]
    /\ attempts = [t \in Threads |-> 0]

CounterInit ==
    /\ program \in CounterPrograms
    /\ Start(Threads, first)
    /\ lock_init
    /\ CounterData

-----------------------------------------------------------------------------
\* counter++ : the load, and the store of k increments.
Load(t) ==
    /\ Go(t, "load", "store")
    /\ copy' = [copy EXCEPT ![t] = counter]
    /\ UNCHANGED <<counters, flag, expected, attempts>>

Store(t, k) ==
    /\ counter' = copy[t] + k
    /\ copy' = [copy EXCEPT ![t] = 0]
    /\ UNCHANGED <<flag, expected, attempts>>

Tally(k) == check_counter' = check_counter + k

OnlySteps == UNCHANGED <<counters, locals, flag>>

-----------------------------------------------------------------------------
(* sync-examples/counter1.c to counter4.c: count and main *)

Joined == Verdict(counter = RUNS * THREADS) /\ OnlySteps

\* Each is one step of main or of thread t.
counter1(t) ==
    \/ Joined
    \/ /\ UNCHANGED <<verdict, lock>>
       /\ \/ Load(t)
          \/ \E k \in 1..(RUNS - r[t]) :
               NextRound(t, "store", first, k) /\ Store(t, k) /\ Tally(k)

\* Fault: lock_acquire does not wait.
Acquire_unlocked(t) == Go(t, "acquire", "load") /\ holder' = t /\ UNCHANGED sleepers

Acquire(t) == Go(t, "acquire", "load") /\ lock_acquire(t)

counter2(t) ==
    \/ Joined
    \/ /\ UNCHANGED verdict
       /\ \/ Acquire(t) /\ OnlySteps
          \/ Load(t) /\ UNCHANGED lock
          \/ Go(t, "store", "release") /\ Store(t, 1) /\ Tally(1) /\ UNCHANGED lock
          \/ NextRound(t, "release", first, 1) /\ lock_release(t) /\ OnlySteps

counter3(t) ==
    \/ Joined
    \/ /\ UNCHANGED <<verdict, lock>>
       /\ \/ Load(t)
          \/ NextRound(t, "store", first, 1) /\ Store(t, 1) /\ Tally(1)

counter4(t) ==
    \/ Joined
    \/ /\ UNCHANGED <<verdict, lock, locals, flag>>
       /\ NextRound(t, "add", first, 1)
       /\ counter' = counter + 1
       /\ Tally(1)

-----------------------------------------------------------------------------
(* playground/entrypoint.cpp and runner.cpp *)

\* Fault: expected keeps the value the failed compare_exchange has put there.
Lock_lock_keep(t) ==
    IF flag = expected[t]
    THEN Go(t, "cas", "load") /\ flag' = TRUE /\ UNCHANGED <<counters, locals>>
    ELSE /\ Go(t, "cas", "cas")
         /\ expected' = [expected EXCEPT ![t] = flag]
         /\ UNCHANGED <<counters, flag, copy, attempts>>

Lock_lock(t) ==
    \/ /\ Go(t, "cas", "load")
       /\ flag = expected[t]
       /\ flag' = TRUE
       /\ UNCHANGED <<counters, locals>>
    \/ /\ Go(t, "cas", "reset")
       /\ flag # expected[t]
       /\ expected' = [expected EXCEPT ![t] = flag]
       /\ UNCHANGED <<counters, flag, copy, attempts>>
    \/ /\ Go(t, "reset", "cas")
       /\ expected' = [expected EXCEPT ![t] = FALSE]
       /\ UNCHANGED <<counters, flag, copy, attempts>>

shared_access(t) ==
    \/ Load(t)
    \/ Go(t, "store", "tally") /\ Store(t, 1) /\ UNCHANGED check_counter
    \/ Go(t, "tally", "unlock") /\ Tally(1) /\ UNCHANGED <<counter, locals, flag>>

Lock_unlock(t) ==
    /\ NextRound(t, "unlock", first, 1)
    /\ flag' = FALSE
    /\ UNCHANGED <<counters, locals>>

entry_point(t) == Lock_lock(t) \/ shared_access(t) \/ Lock_unlock(t)

shared_check == Verdict(counter = check_counter) /\ OnlySteps

playground(t) ==
    \/ shared_check
    \/ UNCHANGED <<verdict, lock>> /\ entry_point(t)

-----------------------------------------------------------------------------
(* 358982/spinlock.cpp, under threads that call lock or try_lock, increment *)
(* the counter if they got it, and unlock.                                  *)

Exchange(t, from, otherwise) ==
    /\ Go(t, from, IF flag THEN otherwise ELSE "load")
    /\ flag' = TRUE
    /\ UNCHANGED <<counters, copy, expected>>

spinlock_lock(t) ==
    \/ /\ Exchange(t, "exchange", "spin")
       /\ attempts' = [attempts EXCEPT ![t] = 0]
    \/ /\ flag /\ attempts[t] < n_attempts
       /\ Go(t, "spin", "spin")
       /\ attempts' = [attempts EXCEPT ![t] = @ + 1]
       /\ UNCHANGED <<counters, flag, copy, expected>>
    \/ ~(flag /\ attempts[t] < n_attempts) /\ Go(t, "spin", "exchange") /\ OnlySteps

spinlock_try_lock(t) ==
    \/ ~flag /\ Go(t, "look", "take") /\ OnlySteps
    \/ flag /\ NextRound(t, "look", first, 1) /\ OnlySteps
    \/ ~flag /\ Exchange(t, "take", "load") /\ UNCHANGED attempts
    \/ flag /\ NextRound(t, "take", first, 1) /\ OnlySteps

spinlock_unlock(t) == Lock_unlock(t)

spinlock(t) ==
    \/ shared_check
    \/ /\ UNCHANGED <<verdict, lock>>
       /\ \/ (Go(t, "call", "exchange") \/ Go(t, "call", "look")) /\ OnlySteps
          \/ spinlock_lock(t) \/ spinlock_try_lock(t)
          \/ Load(t)
          \/ Go(t, "store", "unlock") /\ Store(t, 1) /\ Tally(1)
          \/ spinlock_unlock(t)

-----------------------------------------------------------------------------
CounterStep(t) ==
    /\ UNCHANGED program
    /\ \/ program = "counter1" /\ counter1(t)
       \/ program = "counter2" /\ counter2(t)
       \/ program = "counter3" /\ counter3(t)
       \/ program = "counter4" /\ counter4(t)
       \/ program = "playground" /\ playground(t)
       \/ program = "spinlock" /\ spinlock(t)

CounterNext == \E t \in Threads : CounterStep(t)

CounterSpec == CounterInit /\ [][CounterNext]_counterVars

-----------------------------------------------------------------------------
Inside(t) == pc[t] \in {"load", "store", "tally", "release", "unlock"}

Locked == {"counter2", "playground", "spinlock"}
Correct == Locked \cup {"counter4"}

CounterTypeOK ==
    /\ program \in CounterPrograms
    /\ pc \in [Threads -> {"acquire", "load", "store", "release", "add", "cas", "reset",
                           "tally", "unlock", "call", "exchange", "spin", "look", "take",
                           "joined"}]
    /\ r \in [Threads -> 0..RUNS]
    /\ verdict \in {"none", "correct", "wrong"}
    /\ holder \in Threads \cup {Nobody} /\ sleepers = {}
    /\ counter \in Nat /\ check_counter \in Nat
    /\ copy \in [Threads -> Nat]
    /\ flag \in BOOLEAN
    /\ expected \in [Threads -> BOOLEAN]
    /\ attempts \in [Threads -> 0..n_attempts]

\* One thread at a time between a lock and its unlock, whichever way the lock is
\* taken: and the mutex, or the flag, is taken exactly when one is.
CounterExclusion ==
    program \in Locked =>
        /\ \A t, u \in Threads : Inside(t) /\ Inside(u) => t = u
        /\ IF program = "counter2"
           THEN \A t \in Threads : Inside(t) <=> holder = t
           ELSE flag <=> \E t \in Threads : Inside(t)

\* In the programs the source calls correct no increment is lost: the counter is
\* the number of increments made (the playground counts one just after it).
NoLostUpdate ==
    program \in Correct =>
        counter = check_counter + IF \E t \in Threads : pc[t] = "tally" THEN 1 ELSE 0

=============================================================================
