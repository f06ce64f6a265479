----------------------------- MODULE PartsProofs -----------------------------
(***************************************************************************)
(* Proofs about the parts that Parts runs side by side, for any number of  *)
(* threads, rounds, versions and libraries: first each part alone, then    *)
(* Parts itself.  The producer and the consumer have a module of their     *)
(* own.                                                                    *)
(***************************************************************************)
EXTENDS Parts, ProducerConsumerProofs, FiniteSetTheorems

-----------------------------------------------------------------------------
(* Counter: the locks exclude, and no increment is lost *)

CounterRounds == \A t \in Threads : pc[t] # "joined" => r[t] < RUNS

\* lock's local is TRUE only between a failed exchange and its reset.
Expecting == \A t \in Threads : expected[t] => pc[t] = "reset"

\* Behind a lock, what was loaded is still the counter when it is stored.
CopyFresh == program \in Locked => \A t \in Threads : pc[t] = "store" => copy[t] = counter

Tallying == \A t \in Threads : pc[t] = "tally" => program = "playground"

CounterInv ==
    /\ CounterTypeOK /\ CounterRounds /\ Expecting /\ CopyFresh /\ Tallying
    /\ CounterExclusion /\ NoLostUpdate

-----------------------------------------------------------------------------
\* The first state: nobody has a lock, nothing is counted.
LEMMA CounterFirst == CounterInit => CounterInv
<1> SUFFICES ASSUME CounterInit PROVE CounterInv
  OBVIOUS
<1> USE ProgramAssumption DEF CounterInit, Start, lock_init, CounterData
<1>1. \A t \in Threads : pc[t] = first BY DEF first
<1>2. first \in {"acquire", "add", "cas", "call", "load"} /\ (program \in Locked => first # "load")
  BY DEF first, CounterPrograms, Locked
<1>3. CounterTypeOK
  <2>1. pc \in [Threads -> {first}] /\ r \in [Threads -> 0..RUNS] OBVIOUS
  <2>2. copy \in [Threads -> Nat] /\ expected \in [Threads -> BOOLEAN] OBVIOUS
  <2>3. attempts \in [Threads -> 0..n_attempts] BY AttemptsAssumption
  <2> QED BY <1>2, <2>1, <2>2, <2>3 DEF CounterTypeOK
<1>4. CounterRounds /\ Expecting /\ Tallying BY <1>1, <1>2 DEF CounterRounds, Expecting, Tallying
<1>5. CopyFresh /\ CounterExclusion
  BY <1>1, <1>2, NobodyAssumption DEF CopyFresh, CounterExclusion, Inside
<1>6. NoLostUpdate BY <1>1, <1>2 DEF NoLostUpdate
<1> QED BY <1>3, <1>4, <1>5, <1>6 DEF CounterInv

\* main's verdict, and a stuttering step, change nothing the invariant reads.
LEMMA CounterVerdict ==
    ASSUME CounterInv, UNCHANGED <<program, steps, lock, counters, locals, flag>>,
           verdict' \in {"none", "correct", "wrong"}
    PROVE  CounterInv'
<1> USE DEF CounterInv, steps, lock, counters, locals
<1>1. CounterTypeOK' BY DEF CounterTypeOK
<1>2. CounterRounds' /\ Expecting' /\ CopyFresh' /\ Tallying' BY DEF CounterRounds, Expecting, CopyFresh, Tallying
<1>3. CounterExclusion' /\ NoLostUpdate' BY DEF CounterExclusion, Inside, NoLostUpdate
<1> QED BY <1>1, <1>2, <1>3

\* counter1: whatever it loses, the counter stays a number.
LEMMA StepCounter1 ==
    ASSUME CounterInv, program = "counter1", UNCHANGED program, NEW t \in Threads, counter1(t)
    PROVE  CounterInv'
<1> USE ProgramAssumption DEF CounterInv
<1>1. CASE Joined
  BY <1>1, CounterVerdict DEF Joined, Verdict, OnlySteps, CounterTypeOK
<1>2. CASE UNCHANGED <<verdict, lock>> /\ Load(t)
  <2> USE <1>2 DEF Load, Go, lock, counters
  <2>1. CounterTypeOK' BY DEF CounterTypeOK
  <2>2. CounterRounds' /\ Expecting' /\ Tallying' BY DEF CounterRounds, Expecting, Tallying, CounterTypeOK
  <2> QED BY <2>1, <2>2 DEF CopyFresh, Locked, Correct, CounterExclusion, NoLostUpdate
<1>3. CASE UNCHANGED <<verdict, lock>>
           /\ \E k \in 1..(RUNS - r[t]) : NextRound(t, "store", first, k) /\ Store(t, k) /\ Tally(k)
  <2>1. PICK k \in 1..(RUNS - r[t]) : NextRound(t, "store", first, k) /\ Store(t, k) /\ Tally(k)
    BY <1>3
  <2> USE <1>3, <2>1 DEF NextRound, Store, Tally, first, lock
  <2>2. r[t] + k \in 0..RUNS BY DEF CounterTypeOK
  <2>3. CounterTypeOK' BY <2>2 DEF CounterTypeOK
  <2>4. CounterRounds' /\ Expecting' /\ Tallying'
    BY <2>2 DEF CounterRounds, Expecting, Tallying, CounterTypeOK
  <2> QED BY <2>3, <2>4 DEF CopyFresh, Locked, Correct, CounterExclusion, NoLostUpdate
<1> QED BY <1>1, <1>2, <1>3 DEF counter1


\* counter2: the mutex is held from the load to the store.
LEMMA StepCounter2 ==
    ASSUME CounterInv, program = "counter2", UNCHANGED program, NEW t \in Threads, counter2(t)
    PROVE  CounterInv'
<1> USE ProgramAssumption, NobodyAssumption DEF CounterInv
<1>0. program \in Locked BY DEF Locked
<1>1. CASE Joined
  BY <1>1, CounterVerdict DEF Joined, Verdict, OnlySteps, CounterTypeOK
<1>2. CASE UNCHANGED verdict /\ Acquire(t) /\ OnlySteps
  <2> USE <1>2 DEF Acquire, lock_acquire, Go, OnlySteps, counters, locals
  <2>1. CounterTypeOK' BY DEF CounterTypeOK
  <2>2. CounterRounds' /\ Expecting' /\ Tallying' BY DEF CounterRounds, Expecting, Tallying, CounterTypeOK
  <2>3. CopyFresh' BY DEF CopyFresh, CounterTypeOK
  <2>4. CounterExclusion' BY <1>0 DEF CounterExclusion, Inside, CounterTypeOK
  <2>5. NoLostUpdate' BY DEF NoLostUpdate, Tallying, CounterTypeOK
  <2> QED BY <2>1, <2>2, <2>3, <2>4, <2>5
<1>3. CASE UNCHANGED verdict /\ Load(t) /\ UNCHANGED lock
  <2> USE <1>3 DEF Load, Go, lock, counters
  <2>1. CounterTypeOK' BY DEF CounterTypeOK
  <2>2. CounterRounds' /\ Expecting' /\ Tallying' BY DEF CounterRounds, Expecting, Tallying, CounterTypeOK
  <2>3. CopyFresh' BY DEF CopyFresh, CounterTypeOK
  <2>4. CounterExclusion' BY <1>0 DEF CounterExclusion, Inside, CounterTypeOK
  <2>5. NoLostUpdate' BY DEF NoLostUpdate, Tallying, CounterTypeOK
  <2> QED BY <2>1, <2>2, <2>3, <2>4, <2>5
<1>4. CASE UNCHANGED verdict /\ Go(t, "store", "release") /\ Store(t, 1) /\ Tally(1)
           /\ UNCHANGED lock
  <2> USE <1>4 DEF Go, Store, Tally, lock
  <2>1. CounterTypeOK' BY DEF CounterTypeOK
  <2>2. CounterRounds' /\ Expecting' /\ Tallying' BY DEF CounterRounds, Expecting, Tallying, CounterTypeOK
  <2>3. \A u \in Threads \ {t} : pc[u] # "store"
    BY <1>0 DEF CounterExclusion, Inside
  <2>4. CopyFresh' BY <2>3 DEF CopyFresh, CounterTypeOK
  <2>5. CounterExclusion' BY <1>0 DEF CounterExclusion, Inside, CounterTypeOK
  <2>6. NoLostUpdate' BY <1>0 DEF NoLostUpdate, Correct, CopyFresh, Tallying, CounterTypeOK
  <2> QED BY <2>1, <2>2, <2>4, <2>5, <2>6
<1>5. CASE UNCHANGED verdict /\ NextRound(t, "release", first, 1) /\ lock_release(t)
           /\ OnlySteps
  <2> USE <1>5 DEF NextRound, first, lock_release, OnlySteps, counters, locals
  <2>1. r[t] + 1 \in 0..RUNS BY DEF CounterRounds, CounterTypeOK
  <2>2. CounterTypeOK' BY <2>1 DEF CounterTypeOK
  <2>3. CounterRounds' /\ Expecting' /\ Tallying' BY DEF CounterRounds, Expecting, Tallying, CounterTypeOK
  <2>4. CopyFresh' BY DEF CopyFresh, CounterTypeOK
  <2>5. CounterExclusion' BY <1>0 DEF CounterExclusion, Inside, CounterTypeOK
  <2>6. NoLostUpdate' BY DEF NoLostUpdate, Tallying, CounterTypeOK
  <2> QED BY <2>2, <2>3, <2>4, <2>5, <2>6
<1> QED BY <1>1, <1>2, <1>3, <1>4, <1>5 DEF counter2

\* counter3: its load and its store are two steps, and only types remain.
LEMMA StepCounter3 ==
    ASSUME CounterInv, program = "counter3", UNCHANGED program, NEW t \in Threads, counter3(t)
    PROVE  CounterInv'
<1> USE ProgramAssumption DEF CounterInv
<1>1. CASE Joined
  BY <1>1, CounterVerdict DEF Joined, Verdict, OnlySteps, CounterTypeOK
<1>2. CASE UNCHANGED <<verdict, lock>> /\ Load(t)
  <2> USE <1>2 DEF Load, Go, lock, counters
  <2>1. CounterTypeOK' BY DEF CounterTypeOK
  <2>2. CounterRounds' /\ Expecting' /\ Tallying' BY DEF CounterRounds, Expecting, Tallying, CounterTypeOK
  <2> QED BY <2>1, <2>2 DEF CopyFresh, Locked, Correct, CounterExclusion, NoLostUpdate
<1>3. CASE UNCHANGED <<verdict, lock>> /\ NextRound(t, "store", first, 1) /\ Store(t, 1)
           /\ Tally(1)
  <2> USE <1>3 DEF NextRound, Store, Tally, first, lock
  <2>1. r[t] + 1 \in 0..RUNS BY DEF CounterRounds, CounterTypeOK
  <2>2. CounterTypeOK' BY <2>1 DEF CounterTypeOK
  <2>3. CounterRounds' /\ Expecting' /\ Tallying' BY DEF CounterRounds, Expecting, Tallying, CounterTypeOK
  <2> QED BY <2>2, <2>3 DEF CopyFresh, Locked, Correct, CounterExclusion, NoLostUpdate
<1> QED BY <1>1, <1>2, <1>3 DEF counter3

\* counter4: one atomic increment per round.
LEMMA StepCounter4 ==
    ASSUME CounterInv, program = "counter4", UNCHANGED program, NEW t \in Threads, counter4(t)
    PROVE  CounterInv'
<1> USE ProgramAssumption DEF CounterInv
<1>1. CASE Joined
  BY <1>1, CounterVerdict DEF Joined, Verdict, OnlySteps, CounterTypeOK
<1>2. CASE /\ UNCHANGED <<verdict, lock, locals, flag>>
           /\ NextRound(t, "add", first, 1) /\ counter' = counter + 1 /\ Tally(1)
  <2> USE <1>2 DEF NextRound, Tally, first, lock, locals
  <2>1. r[t] + 1 \in 0..RUNS BY DEF CounterRounds, CounterTypeOK
  <2>2. CounterTypeOK' BY <2>1 DEF CounterTypeOK
  <2>3. CounterRounds' /\ Expecting' /\ Tallying' BY DEF CounterRounds, Expecting, Tallying, CounterTypeOK
  <2>4. NoLostUpdate' BY DEF NoLostUpdate, Correct, Tallying, CounterTypeOK
  <2> QED BY <2>2, <2>3, <2>4 DEF CopyFresh, Locked, CounterExclusion
<1> QED BY <1>1, <1>2 DEF counter4


\* Steps of a thread that touch neither counter nor lock and stay outside it.
LEMMA StepOutside ==
    ASSUME CounterInv, program \in {"playground", "spinlock"}, UNCHANGED <<program, verdict, lock>>,
           NEW t \in Threads, NEW to, Go(t, pc[t], to) \/ NextRound(t, pc[t], first, 1),
           to \in {"cas", "reset", "exchange", "spin", "look", "take"},
           pc[t] \in {"cas", "reset", "call", "exchange", "spin", "look", "take"},
           UNCHANGED <<counters, flag, copy>>,
           attempts' \in [Threads -> 0..n_attempts],
           expected' \in [Threads -> BOOLEAN], Expecting'
    PROVE  CounterInv'
<1> USE ProgramAssumption DEF CounterInv, Go, NextRound, counters, lock
<1>0. /\ first \in {"cas", "call"}
      /\ pc'[t] \in {to, first, "joined"}
      /\ \A u \in Threads \ {t} : pc'[u] = pc[u]
      /\ pc' \in [Threads -> {to, first, "joined"} \cup {pc[u] : u \in Threads}]
  BY DEF CounterTypeOK, first
<1>1. CounterTypeOK'
  <2>1. r' \in [Threads -> 0..RUNS] BY DEF CounterRounds, CounterTypeOK
  <2> QED BY <1>0, <2>1 DEF CounterTypeOK
<1>2. CounterRounds' BY <1>0 DEF CounterRounds, CounterTypeOK
<1>3. CopyFresh' /\ Tallying' BY <1>0 DEF CopyFresh, Tallying
<1>4. \A u \in Threads : Inside(u)' <=> Inside(u) BY <1>0 DEF Inside
<1>5. CounterExclusion' BY <1>4 DEF CounterExclusion
<1>6. NoLostUpdate' BY <1>0 DEF NoLostUpdate
<1> QED BY <1>1, <1>2, <1>3, <1>5, <1>6

\* The flag is taken by a thread that found it free.
LEMMA StepTake ==
    ASSUME CounterInv, program \in {"playground", "spinlock"}, UNCHANGED <<program, verdict, lock>>,
           NEW t \in Threads, NEW from, Go(t, from, "load"),
           from \in {"cas", "exchange", "take"}, ~flag, flag' = TRUE,
           UNCHANGED <<counters, copy, expected>>,
           attempts' \in [Threads -> 0..n_attempts]
    PROVE  CounterInv'
<1> USE DEF CounterInv, Go, counters, lock
<1>1. CounterTypeOK' BY DEF CounterTypeOK
<1>2. CounterRounds' /\ Expecting' /\ Tallying' BY DEF CounterRounds, Expecting, Tallying, CounterTypeOK
<1>3. CopyFresh' BY DEF CopyFresh, CounterTypeOK
<1>4. CounterExclusion' BY DEF CounterExclusion, Locked, Inside, CounterTypeOK
<1>5. NoLostUpdate' BY DEF NoLostUpdate, CounterTypeOK
<1> QED BY <1>1, <1>2, <1>3, <1>4, <1>5

\* The load, behind the flag.
LEMMA StepLoad ==
    ASSUME CounterInv, program \in {"playground", "spinlock"}, UNCHANGED <<program, verdict, lock>>,
           NEW t \in Threads, Load(t)
    PROVE  CounterInv'
<1> USE DEF CounterInv, Load, Go, counters, lock
<1>1. CounterTypeOK' BY DEF CounterTypeOK
<1>2. CounterRounds' /\ Expecting' /\ Tallying' BY DEF CounterRounds, Expecting, Tallying, CounterTypeOK
<1>3. CopyFresh' BY DEF CopyFresh, CounterTypeOK
<1>4. CounterExclusion' BY DEF CounterExclusion, Locked, Inside, CounterTypeOK
<1>5. NoLostUpdate' BY DEF NoLostUpdate, CounterTypeOK
<1> QED BY <1>1, <1>2, <1>3, <1>4, <1>5

\* The flag is given back, by the one thread inside.
LEMMA StepUnlock ==
    ASSUME CounterInv, program \in {"playground", "spinlock"}, UNCHANGED <<program, verdict, lock>>,
           NEW t \in Threads, Lock_unlock(t)
    PROVE  CounterInv'
<1> USE ProgramAssumption DEF CounterInv, Lock_unlock, NextRound, counters, locals, lock
<1>0. first \in {"cas", "call"} BY DEF first
<1>1. CounterTypeOK'
  <2>1. r[t] + 1 \in 0..RUNS BY DEF CounterRounds, CounterTypeOK
  <2> QED BY <1>0, <2>1 DEF CounterTypeOK
<1>2. CounterRounds' /\ Expecting' /\ Tallying'
  BY <1>0 DEF CounterRounds, Expecting, Tallying, CounterTypeOK
<1>3. CopyFresh' BY <1>0 DEF CopyFresh, CounterTypeOK
<1>4. CounterExclusion' BY <1>0 DEF CounterExclusion, Locked, Inside, CounterTypeOK
<1>5. NoLostUpdate' BY <1>0 DEF NoLostUpdate, CounterTypeOK
<1> QED BY <1>1, <1>2, <1>3, <1>4, <1>5


\* playground: the counter is stored, and then counted, behind Lock.
LEMMA StepPlayground ==
    ASSUME CounterInv, program = "playground", UNCHANGED program, NEW t \in Threads, playground(t)
    PROVE  CounterInv'
<1> USE DEF CounterInv
<1>0. program \in Locked BY DEF Locked
<1>1. CASE shared_check
  BY <1>1, CounterVerdict DEF shared_check, Verdict, OnlySteps, CounterTypeOK
<1>2. CASE UNCHANGED <<verdict, lock>> /\ Lock_lock(t)
  <2>1. CASE Go(t, "cas", "load") /\ flag = expected[t] /\ flag' = TRUE
             /\ UNCHANGED <<counters, locals>>
    <3>1. ~flag BY <2>1 DEF Go, Expecting
    <3>2. attempts' \in [Threads -> 0..n_attempts] BY <2>1 DEF locals, CounterTypeOK
    <3> QED BY <1>2, <2>1, <3>1, <3>2, StepTake DEF locals
  <2>2. CASE Go(t, "cas", "reset") /\ flag # expected[t]
             /\ expected' = [expected EXCEPT ![t] = flag]
             /\ UNCHANGED <<counters, flag, copy, attempts>>
    <3>1. Expecting' /\ expected' \in [Threads -> BOOLEAN]
      BY <2>2 DEF Expecting, Go, CounterTypeOK
    <3>2. attempts' \in [Threads -> 0..n_attempts] BY <2>2 DEF CounterTypeOK
    <3> QED BY <1>2, <2>2, <3>1, <3>2, StepOutside DEF Go
  <2>3. CASE Go(t, "reset", "cas") /\ expected' = [expected EXCEPT ![t] = FALSE]
             /\ UNCHANGED <<counters, flag, copy, attempts>>
    <3>1. Expecting' /\ expected' \in [Threads -> BOOLEAN]
      BY <2>3 DEF Expecting, Go, CounterTypeOK
    <3>2. attempts' \in [Threads -> 0..n_attempts] BY <2>3 DEF CounterTypeOK
    <3> QED BY <1>2, <2>3, <3>1, <3>2, StepOutside DEF Go
  <2> QED BY <1>2, <2>1, <2>2, <2>3 DEF Lock_lock
<1>3. CASE UNCHANGED <<verdict, lock>> /\ Load(t)
  BY <1>3, StepLoad
<1>4. CASE UNCHANGED <<verdict, lock>> /\ Go(t, "store", "tally") /\ Store(t, 1)
           /\ UNCHANGED check_counter
  <2> USE <1>4 DEF Go, Store, lock
  <2>0. \A u \in Threads \ {t} : pc[u] \notin {"store", "tally"}
    BY <1>0 DEF CounterExclusion, Inside
  <2>1. CounterTypeOK' BY DEF CounterTypeOK
  <2>2. CounterRounds' /\ Expecting' /\ Tallying' BY DEF CounterRounds, Expecting, Tallying, CounterTypeOK
  <2>3. CopyFresh' BY <2>0 DEF CopyFresh, CounterTypeOK
  <2>4. CounterExclusion' BY <1>0 DEF CounterExclusion, Inside, CounterTypeOK
  <2>5. NoLostUpdate'
    <3>1. counter = check_counter BY <1>0, <2>0 DEF NoLostUpdate, Correct, CounterTypeOK
    <3>2. counter' = check_counter' + 1 BY <1>0, <3>1 DEF CopyFresh
    <3>3. pc'[t] = "tally" BY DEF CounterTypeOK
    <3> QED BY <3>2, <3>3 DEF NoLostUpdate
  <2> QED BY <2>1, <2>2, <2>3, <2>4, <2>5
<1>5. CASE UNCHANGED <<verdict, lock>> /\ Go(t, "tally", "unlock") /\ Tally(1)
           /\ UNCHANGED <<counter, locals, flag>>
  <2> USE <1>5 DEF Go, Tally, locals, lock
  <2>0. \A u \in Threads \ {t} : pc[u] # "tally"
    BY <1>0 DEF CounterExclusion, Inside
  <2>1. CounterTypeOK' BY DEF CounterTypeOK
  <2>2. CounterRounds' /\ Expecting' /\ Tallying' BY DEF CounterRounds, Expecting, Tallying, CounterTypeOK
  <2>3. CopyFresh' BY DEF CopyFresh, CounterTypeOK
  <2>4. CounterExclusion' BY <1>0 DEF CounterExclusion, Inside, CounterTypeOK
  <2>5. NoLostUpdate'
    <3>1. counter = check_counter + 1 BY <1>0 DEF NoLostUpdate, Correct
    <3>2. \A u \in Threads : pc'[u] # "tally" BY <2>0 DEF CounterTypeOK
    <3> QED BY <3>1, <3>2 DEF NoLostUpdate, CounterTypeOK
  <2> QED BY <2>1, <2>2, <2>3, <2>4, <2>5
<1>6. CASE UNCHANGED <<verdict, lock>> /\ Lock_unlock(t)
  BY <1>6, StepUnlock
<1> QED BY <1>1, <1>2, <1>3, <1>4, <1>5, <1>6 DEF playground, entry_point, shared_access

\* spinlock: the exchange of lock, which finds the flag free or keeps it set.
LEMMA StepExchange ==
    ASSUME CounterInv, program = "spinlock", UNCHANGED <<program, verdict, lock>>,
           NEW t \in Threads,
           Exchange(t, "exchange", "spin"), attempts' \in [Threads -> 0..n_attempts]
    PROVE  CounterInv'
<1> USE DEF Exchange
<1>1. CASE flag
  <2>1. Expecting' /\ expected' \in [Threads -> BOOLEAN]
    BY DEF CounterInv, Expecting, Go, CounterTypeOK
  <2> QED BY <1>1, <2>1, StepOutside DEF Go, counters
<1>2. CASE ~flag
  BY <1>2, StepTake
<1> QED BY <1>1, <1>2 DEF CounterInv, CounterTypeOK

\* spinlock, the whole of it.
LEMMA StepSpinlock ==
    ASSUME CounterInv, program = "spinlock", UNCHANGED program, NEW t \in Threads, spinlock(t)
    PROVE  CounterInv'
<1> USE DEF CounterInv
<1>0. program \in Locked BY DEF Locked
<1>1. CASE shared_check
  BY <1>1, CounterVerdict DEF shared_check, Verdict, OnlySteps, CounterTypeOK
<1>2. ASSUME UNCHANGED <<verdict, lock>>, NEW to \in {"cas", "reset", "exchange", "spin", "look", "take"},
             Go(t, pc[t], to) \/ NextRound(t, pc[t], first, 1),
             pc[t] \in {"call", "exchange", "spin", "look", "take"},
             UNCHANGED <<counters, flag, copy, expected>>,
             attempts' \in [Threads -> 0..n_attempts]
      PROVE  CounterInv'
  <2>1. Expecting' /\ expected' \in [Threads -> BOOLEAN]
    BY <1>2 DEF Expecting, Go, NextRound, CounterTypeOK
  <2> QED BY <1>2, <2>1, StepOutside
<1>3. CASE UNCHANGED <<verdict, lock>> /\ (Go(t, "call", "exchange") \/ Go(t, "call", "look"))
           /\ OnlySteps
  <2>1. attempts' \in [Threads -> 0..n_attempts] BY <1>3 DEF OnlySteps, locals, CounterTypeOK
  <2> QED BY <1>2, <1>3, <2>1 DEF Go, OnlySteps, locals
<1>4. CASE UNCHANGED <<verdict, lock>> /\ spinlock_lock(t)
  <2>1. CASE Exchange(t, "exchange", "spin") /\ attempts' = [attempts EXCEPT ![t] = 0]
    <3>1. attempts' \in [Threads -> 0..n_attempts] BY <2>1, AttemptsAssumption DEF CounterTypeOK
    <3> QED BY <1>4, <2>1, <3>1, StepExchange
  <2>2. CASE /\ flag /\ attempts[t] < n_attempts /\ Go(t, "spin", "spin")
             /\ attempts' = [attempts EXCEPT ![t] = @ + 1]
             /\ UNCHANGED <<counters, flag, copy, expected>>
    <3>1. attempts' \in [Threads -> 0..n_attempts] BY <2>2, AttemptsAssumption DEF CounterTypeOK
    <3> QED BY <1>2, <1>4, <2>2, <3>1 DEF Go
  <2>3. CASE Go(t, "spin", "exchange") /\ OnlySteps
    <3>1. attempts' \in [Threads -> 0..n_attempts] BY <2>3 DEF OnlySteps, locals, CounterTypeOK
    <3> QED BY <1>2, <1>4, <2>3, <3>1 DEF Go, OnlySteps, locals
  <2> QED BY <1>4, <2>1, <2>2, <2>3 DEF spinlock_lock
<1>5. CASE UNCHANGED <<verdict, lock>> /\ spinlock_try_lock(t)
  <2>1. CASE Go(t, "look", "take") /\ OnlySteps
    <3>1. attempts' \in [Threads -> 0..n_attempts] BY <2>1 DEF OnlySteps, locals, CounterTypeOK
    <3> QED BY <1>2, <1>5, <2>1, <3>1 DEF Go, OnlySteps, locals
  <2>2. CASE (NextRound(t, "look", first, 1) \/ NextRound(t, "take", first, 1)) /\ OnlySteps
    <3>1. attempts' \in [Threads -> 0..n_attempts] BY <2>2 DEF OnlySteps, locals, CounterTypeOK
    <3> QED BY <1>2, <1>5, <2>2, <3>1 DEF NextRound, OnlySteps, locals
  <2>3. CASE ~flag /\ Exchange(t, "take", "load") /\ UNCHANGED attempts
    <3>1. attempts' \in [Threads -> 0..n_attempts] BY <2>3 DEF CounterTypeOK
    <3> QED BY <1>5, <2>3, <3>1, StepTake DEF Exchange
  <2> QED BY <1>5, <2>1, <2>2, <2>3 DEF spinlock_try_lock
<1>6. CASE UNCHANGED <<verdict, lock>> /\ Load(t)
  BY <1>6, StepLoad
<1>7. CASE UNCHANGED <<verdict, lock>> /\ Go(t, "store", "unlock") /\ Store(t, 1) /\ Tally(1)
  <2> USE <1>7 DEF Go, Store, Tally, lock
  <2>0. \A u \in Threads \ {t} : pc[u] # "store" BY <1>0 DEF CounterExclusion, Inside
  <2>1. CounterTypeOK' BY DEF CounterTypeOK
  <2>2. CounterRounds' /\ Expecting' /\ Tallying' BY DEF CounterRounds, Expecting, Tallying, CounterTypeOK
  <2>3. CopyFresh' BY <2>0 DEF CopyFresh, CounterTypeOK
  <2>4. CounterExclusion' BY <1>0 DEF CounterExclusion, Inside, CounterTypeOK
  <2>5. NoLostUpdate' BY <1>0 DEF NoLostUpdate, Correct, CopyFresh, Tallying, CounterTypeOK
  <2> QED BY <2>1, <2>2, <2>3, <2>4, <2>5
<1>8. CASE UNCHANGED <<verdict, lock>> /\ spinlock_unlock(t)
  BY <1>8, StepUnlock DEF spinlock_unlock
<1> QED BY <1>1, <1>3, <1>4, <1>5, <1>6, <1>7, <1>8 DEF spinlock

-----------------------------------------------------------------------------
\* Every step of every program.
LEMMA CounterNextInv ==
    ASSUME CounterInv, [CounterNext]_counterVars
    PROVE  CounterInv'
<1>1. CASE UNCHANGED counterVars
  BY <1>1, CounterVerdict DEF counterVars, CounterInv, CounterTypeOK
<1>2. CASE CounterNext
  <2>1. PICK t \in Threads : CounterStep(t) BY <1>2 DEF CounterNext
  <2> QED BY <2>1, StepCounter1, StepCounter2, StepCounter3, StepCounter4,
             StepPlayground, StepSpinlock DEF CounterStep
<1> QED BY <1>1, <1>2

\* The invariant always holds.
THEOREM CounterInvariant == CounterSpec => []CounterInv
BY CounterFirst, CounterNextInv, PTL DEF CounterSpec

\* Every increment of counter2, counter4, the playground and the spinlock's
\* clients is in the counter: what main's assertion at the end rests on.
THEOREM CounterLosesNothing == CounterSpec => []NoLostUpdate
<1>1. CounterInv => NoLostUpdate BY DEF CounterInv
<1> QED BY <1>1, CounterInvariant, PTL

\* The mutex of counter2, Lock and the spinlock let one thread in at a time.
THEOREM CounterExcludes == CounterSpec => []CounterExclusion
<1>1. CounterInv => CounterExclusion BY DEF CounterInv
<1> QED BY <1>1, CounterInvariant, PTL

\* The variables keep their types, the counters among them unbounded.
THEOREM CounterTypes == CounterSpec => []CounterTypeOK
<1>1. CounterInv => CounterTypeOK BY DEF CounterInv
<1> QED BY <1>1, CounterInvariant, PTL

-----------------------------------------------------------------------------
(* Driver: the notification is not lost, the library stays loaded *)

\* While main is outside bounded_run, so is everything of it.
Quiet ==
    stage \notin {"creating", "destroying", "unwind", "over"} =>
        runner = "none" /\ guard = "none" /\ ~waiting /\ woken = "no"

\* The threads of measure are there while main is in it.  A creation that was late
\* is the only one to leave its thread behind.
Outside ==
    /\ workers => stage = "measuring"
    /\ stage = "unwind" => woken = "late"
    /\ stage = "over" /\ woken # "late" => runner = "none" /\ woken = "no"
    /\ stage \in {"unwind", "over"} => ~waiting

\* Until something wakes it, main has the mutex or is blocked without, and its
\* thread cannot have notified it in between.
Handing ==
    /\ waiting => guard = "none" /\ woken = "no"
    /\ InBounded /\ woken = "no" => runner # "done" /\ (waiting \/ guard = "main")

LibraryLoaded == stage \notin {"load", "over"} => module = "open"

DriverInv == DriverTypeOK /\ Quiet /\ Outside /\ Handing /\ LibraryLoaded

-----------------------------------------------------------------------------
\* The first library, nothing begun.
LEMMA DriverFirst == DriverInit => DriverInv
<1> SUFFICES ASSUME DriverInit PROVE DriverInv
  OBVIOUS
<1> USE DEF DriverInit
<1>1. 1 \in 1..LIBRARIES BY LibrariesAssumption
<1>2. DriverTypeOK BY <1>1 DEF DriverTypeOK
<1>3. Quiet /\ Outside /\ Handing /\ LibraryLoaded
  BY DEF Quiet, Outside, Handing, InBounded, LibraryLoaded
<1> QED BY <1>2, <1>3 DEF DriverInv

\* The steps of bounded_run, of either thread.
LEMMA StepBounded ==
    ASSUME DriverInv,
           \/ Spawn("create", "creating") \/ Join("creating", "measure")
           \/ Spawn("destroy", "destroying") \/ Join("destroying", "unload")
           \/ Wait \/ WakeUp("early") \/ WakeUp("late") \/ Resume
           \/ Func \/ Notify \/ Overrun
    PROVE  DriverInv'
<1> USE DEF DriverInv, DriverTypeOK, Quiet, Outside, Handing, LibraryLoaded, InBounded
<1>1. CASE Spawn("create", "creating") BY <1>1 DEF Spawn, At
<1>2. CASE Spawn("destroy", "destroying") BY <1>2 DEF Spawn, At
<1>3. CASE Join("creating", "measure") BY <1>3 DEF Join, At
<1>4. CASE Join("destroying", "unload") BY <1>4 DEF Join, At
<1>5. CASE Wait BY <1>5 DEF Wait
<1>6. ASSUME NEW why \in {"early", "late"}, WakeUp(why)
      PROVE  DriverInv'
  <2>1. stage \in {"creating", "destroying"} /\ guard = "none" BY <1>6 DEF WakeUp
  <2>2. woken' \in {"early", "late"} /\ ~waiting' BY <1>6 DEF WakeUp
  <2>3. DriverTypeOK' BY <1>6, <2>2 DEF WakeUp
  <2>4. Quiet' /\ Outside' /\ Handing' /\ LibraryLoaded' BY <1>6, <2>1, <2>2 DEF WakeUp
  <2> QED BY <2>3, <2>4
<1>7. CASE Resume BY <1>7 DEF Resume
<1>8. CASE Func BY <1>8 DEF Func
<1>9. CASE Notify BY <1>9 DEF Notify
<1>10. CASE Overrun BY <1>10 DEF Overrun
<1> QED BY <1>1, <1>2, <1>3, <1>4, <1>5, <1>6, <1>7, <1>8, <1>9, <1>10

\* The steps of main outside it.
LEMMA StepMain ==
    ASSUME DriverInv,
           \/ LoadLibrary \/ UnloadLibrary \/ Exit
           \/ StartMeasure \/ MeasureReturns \/ MeasureThrows
    PROVE  DriverInv'
<1> USE DEF DriverInv, DriverTypeOK, Quiet, Outside, Handing, LibraryLoaded, InBounded, bounded
<1>1. CASE LoadLibrary BY <1>1 DEF LoadLibrary, At
<1>2. CASE UnloadLibrary
  <2>1. stage' = "load" => lib + 1 \in 1..LIBRARIES
    BY <1>2, LibrariesAssumption DEF UnloadLibrary
  <2>2. stage' \in {"load", "over"} /\ lib' \in 1..LIBRARIES BY <1>2, <2>1 DEF UnloadLibrary
  <2>3. stage = "unload" \/ (stage = "unwind" /\ woken = "late" /\ stage' = "over")
    BY <1>2 DEF UnloadLibrary
  <2> QED BY <1>2, <2>2, <2>3 DEF UnloadLibrary
<1>3. CASE Exit BY <1>3 DEF Exit
<1>4. CASE StartMeasure BY <1>4 DEF StartMeasure, At
<1>5. CASE MeasureReturns BY <1>5 DEF MeasureReturns, At
<1>6. CASE MeasureThrows BY <1>6 DEF MeasureThrows
<1> QED BY <1>1, <1>2, <1>3, <1>4, <1>5, <1>6

-----------------------------------------------------------------------------
\* Every step.
LEMMA DriverNextInv ==
    ASSUME DriverInv, [DriverNext]_driverVars
    PROVE  DriverInv'
<1>1. CASE UNCHANGED driverVars
  BY <1>1 DEF driverVars, bounded, DriverInv, DriverTypeOK, Quiet, Outside, Handing, LibraryLoaded, InBounded
<1>2. CASE DriverNext
  BY <1>2, StepBounded, StepMain DEF DriverNext, Main
<1> QED BY <1>1, <1>2

\* The invariant always holds.
THEOREM DriverInvariant == DriverSpec => []DriverInv
BY DriverFirst, DriverNextInv, PTL DEF DriverSpec

\* main never waits for a thread of bounded_run that is through with it: the
\* mutex taken before the thread is started sees to it.
THEOREM DriverIsNotified == DriverSpec => []NotificationNotLost
<1>1. DriverInv => NotificationNotLost
  BY DEF DriverInv, DriverTypeOK, NotificationNotLost, Quiet, Outside, Handing, InBounded
<1> QED BY <1>1, DriverInvariant, PTL

\* dlclose finds no thread in the library, but for one whose creation was late.
THEOREM DriverKeepsLibrary == DriverSpec => []LibraryStaysLoaded
<1>1. DriverInv => LibraryStaysLoaded
  BY DEF DriverInv, DriverTypeOK, LibraryStaysLoaded, Quiet, Outside, LibraryLoaded, InBounded
<1> QED BY <1>1, DriverInvariant, PTL

-----------------------------------------------------------------------------
(* Counter: main's verdict *)

\* How many increments thread u has made, in counter2 and counter4: those of the
\* rounds it has done, and one if it has not yet given the lock back.
Increments(u) == IF pc[u] = "release" THEN r[u] + 1 ELSE r[u]

Done == {p \in Threads \X (0..(RUNS - 1)) : p[2] < Increments(p[1])}

Made ==
    program \in {"counter2", "counter4"} =>
        /\ \A t \in Threads : pc[t] = "joined" => r[t] = RUNS
        /\ check_counter = Cardinality(Done)

CounterCorrect == program \in Correct => verdict # "wrong"

\* Threads and rounds are finitely many, RUNS * THREADS in all.
LEMMA AllDone ==
    /\ IsFiniteSet(Done)
    /\ Done = Threads \X (0..(RUNS - 1)) => Cardinality(Done) = RUNS * THREADS
<1>1. IsFiniteSet(Threads) /\ Cardinality(Threads) = THREADS
  BY ProgramAssumption, FS_Interval DEF Threads
<1>2. IsFiniteSet(0..(RUNS - 1)) /\ Cardinality(0..(RUNS - 1)) = RUNS
  BY ProgramAssumption, FS_Interval
<1>3. /\ IsFiniteSet(Threads \X (0..(RUNS - 1)))
      /\ Cardinality(Threads \X (0..(RUNS - 1))) = THREADS * RUNS
  BY <1>1, <1>2, FS_Product
<1>4. Done \in SUBSET (Threads \X (0..(RUNS - 1))) BY DEF Done
<1>5. THREADS * RUNS = RUNS * THREADS BY ProgramAssumption
<1> QED BY <1>3, <1>4, <1>5, FS_Subset

\* A thread's increment is one more.
LEMMA OneMore ==
    ASSUME NEW t \in Threads, Increments(t) \in 0..(RUNS - 1), Increments(t)' = Increments(t) + 1,
           \A u \in Threads : u # t => Increments(u)' = Increments(u)
    PROVE  Cardinality(Done') = Cardinality(Done) + 1
<1>1. <<t, Increments(t)>> \notin Done BY DEF Done
<1>2. Done' = Done \cup {<<t, Increments(t)>>}
  <2>1. ASSUME NEW u \in Threads, NEW n \in 0..(RUNS - 1)
        PROVE  <<u, n>> \in Done' <=> <<u, n>> \in Done \cup {<<t, Increments(t)>>}
    BY <2>1 DEF Done
  <2> QED BY <2>1 DEF Done
<1> QED BY <1>1, <1>2, AllDone, FS_AddElement

\* When main has joined all threads, all increments are made.
LEMMA JoinedMade ==
    ASSUME CounterInv, Made, program \in {"counter2", "counter4"}, Joined
    PROVE  verdict' = "correct" /\ Made'
<1>1. \A t \in Threads : pc[t] = "joined" BY DEF Joined, Verdict, CounterInv, CounterTypeOK
<1>2. \A t \in Threads : Increments(t) = RUNS BY <1>1 DEF Increments, Made
<1>3. Done = Threads \X (0..(RUNS - 1)) BY <1>2, ProgramAssumption DEF Done
<1>4. counter = check_counter BY <1>1 DEF CounterInv, CounterTypeOK, NoLostUpdate, Correct, Locked
<1>5. verdict' = "correct" BY <1>3, <1>4, AllDone DEF Joined, Verdict, Made
<1>6. Made' BY DEF Joined, Verdict, OnlySteps, steps, counters, Made, Done, Increments, Threads
<1> QED BY <1>5, <1>6

LEMMA MadeCounter2 ==
    ASSUME CounterInv, Made, program = "counter2", UNCHANGED program, NEW t \in Threads, counter2(t)
    PROVE  Made' /\ (UNCHANGED verdict \/ verdict' = "correct")
<1> USE ProgramAssumption
<1>1. CASE Joined BY <1>1, JoinedMade
<1>2. CASE UNCHANGED verdict /\ (Acquire(t) \/ Load(t)) /\ UNCHANGED check_counter
  <2>1. /\ pc[t] # "release" /\ pc'[t] \notin {"release", "joined"}
        /\ r' = r /\ \A u \in Threads : u # t => pc'[u] = pc[u]
    BY <1>2 DEF Acquire, Load, Go, CounterInv, CounterTypeOK
  <2>2. \A u \in Threads : Increments(u)' = Increments(u) BY <2>1 DEF Increments
  <2>3. Done' = Done BY <2>2 DEF Done
  <2>4. Made' BY <1>2, <2>1, <2>3 DEF Made
  <2> QED BY <1>2, <2>4
<1>3. CASE UNCHANGED verdict /\ Go(t, "store", "release") /\ Store(t, 1) /\ Tally(1)
  <2>1. /\ pc[t] = "store" /\ pc'[t] = "release" /\ r' = r
        /\ \A u \in Threads : u # t => pc'[u] = pc[u]
    BY <1>3 DEF Go, CounterInv, CounterTypeOK
  <2>2. r[t] \in 0..(RUNS - 1) BY <2>1 DEF CounterInv, CounterRounds, CounterTypeOK
  <2>3. Cardinality(Done') = Cardinality(Done) + 1 BY <2>1, <2>2, OneMore DEF Increments
  <2>4. Made' BY <1>3, <2>1, <2>3 DEF Made, Tally
  <2> QED BY <1>3, <2>4
<1>4. CASE UNCHANGED verdict /\ NextRound(t, "release", first, 1) /\ OnlySteps
  <2>1. /\ pc[t] = "release" /\ r'[t] = r[t] + 1 /\ r[t] \in 0..(RUNS - 1)
        /\ pc'[t] \in {first, "joined"} /\ (pc'[t] = "joined" => r[t] + 1 = RUNS)
        /\ \A u \in Threads : u # t => pc'[u] = pc[u] /\ r'[u] = r[u]
    BY <1>4 DEF NextRound, CounterInv, CounterRounds, CounterTypeOK, first
  <2>2. \A u \in Threads : Increments(u)' = Increments(u) BY <2>1 DEF Increments, first
  <2>3. Done' = Done BY <2>2 DEF Done
  <2>4. Made' BY <1>4, <2>1, <2>3 DEF Made, OnlySteps, counters
  <2> QED BY <1>4, <2>4
<1> QED BY <1>1, <1>2, <1>3, <1>4 DEF counter2, Acquire, Load, OnlySteps, counters

LEMMA MadeCounter4 ==
    ASSUME CounterInv, Made, program = "counter4", UNCHANGED program, NEW t \in Threads, counter4(t)
    PROVE  Made' /\ (UNCHANGED verdict \/ verdict' = "correct")
<1> USE ProgramAssumption
<1>1. CASE Joined BY <1>1, JoinedMade
<1>2. CASE UNCHANGED verdict /\ NextRound(t, "add", first, 1) /\ Tally(1)
  <2>1. /\ pc[t] = "add" /\ r'[t] = r[t] + 1 /\ r[t] \in 0..(RUNS - 1)
        /\ pc'[t] \in {"add", "joined"} /\ (pc'[t] = "joined" => r[t] + 1 = RUNS)
        /\ \A u \in Threads : u # t => pc'[u] = pc[u] /\ r'[u] = r[u]
    BY <1>2 DEF NextRound, CounterInv, CounterRounds, CounterTypeOK, first
  <2>2. Cardinality(Done') = Cardinality(Done) + 1 BY <2>1, OneMore DEF Increments
  <2>3. Made' BY <1>2, <2>1, <2>2 DEF Made, Tally
  <2> QED BY <1>2, <2>3
<1> QED BY <1>1, <1>2 DEF counter4

\* No program the source calls correct is judged wrong.
LEMMA MadeStep ==
    ASSUME CounterInv, Made, CounterCorrect, NEW t \in Threads, CounterStep(t)
    PROVE  Made' /\ CounterCorrect'
<1>0. UNCHANGED program BY DEF CounterStep
<1>1. CASE program \in {"counter2", "counter4"}
  BY <1>0, <1>1, MadeCounter2, MadeCounter4 DEF CounterStep, CounterCorrect
<1>2. CASE program \in {"playground", "spinlock"}
  <2>1. UNCHANGED verdict \/ shared_check
    BY <1>2 DEF CounterStep, playground, spinlock
  <2>2. ASSUME shared_check PROVE verdict' # "wrong"
    <3>1. \A u \in Threads : pc[u] = "joined"
      BY <2>2 DEF shared_check, Verdict, CounterInv, CounterTypeOK
    <3>2. counter = check_counter BY <1>2, <3>1 DEF CounterInv, CounterTypeOK, NoLostUpdate, Correct, Locked
    <3> QED BY <2>2, <3>2 DEF shared_check, Verdict
  <2> QED BY <1>0, <1>2, <2>1, <2>2 DEF Made, CounterCorrect
<1>3. CASE program \in {"counter1", "counter3"}
  BY <1>0, <1>3 DEF Made, CounterCorrect, Correct, Locked
<1> QED BY <1>1, <1>2, <1>3 DEF CounterInv, CounterTypeOK, CounterPrograms

\* The first state: nothing is done.
LEMMA MadeFirst ==
    ASSUME CounterInit
    PROVE  Made /\ CounterCorrect
<1> USE ProgramAssumption DEF CounterInit, Start, CounterData
<1>1. \A t \in Threads : pc[t] = first /\ r[t] = 0 OBVIOUS
<1>2. first \notin {"release", "joined"} BY DEF first
<1>3. Done = {} BY <1>1, <1>2 DEF Done, Increments
<1>4. Made BY <1>1, <1>2, <1>3, FS_EmptySet DEF Made
<1> QED BY <1>4 DEF CounterCorrect

-----------------------------------------------------------------------------
(* Election: one leader in each round *)

ElectionTypes ==
    /\ pc \in [Threads -> {"acquire", "test", "set", "announce", "release", "cas", "joined"}]
    /\ r \in [Threads -> 0..RUNS]
    /\ leader \in [0..(RUNS - 1) -> Nat] /\ nb_leaders \in [0..(RUNS - 1) -> Nat]

ElectionRounds == \A i \in Threads : pc[i] = "joined" <=> r[i] = RUNS

Announcing(n) == {i \in Threads : pc[i] = "announce" /\ r[i] = n}

\* A round has no leader yet; or one thread has just made itself its leader; or
\* it has been announced, and nobody else comes forward.
LeaderOf(n) ==
    \/ leader[n] = 0 /\ nb_leaders[n] = 0 /\ Announcing(n) = {}
    \/ /\ leader[n] # 0 /\ nb_leaders[n] = 0
       /\ \E i \in Threads : Announcing(n) = {i} /\ leader[n] = tid(i)
    \/ leader[n] # 0 /\ nb_leaders[n] = 1 /\ Announcing(n) = {}

\* Behind the lock, what a thread has tested is still true when it acts on it.
Election2 ==
    program = "election2" => \A i \in Threads :
        /\ pc[i] \in {"test", "set", "announce", "release"} <=> holder = i
        /\ pc[i] \in {"acquire", "test", "set", "announce", "release", "joined"}
        /\ pc[i] = "set" => leader[r[i]] = 0

Election4 == program = "election4" => \A i \in Threads : pc[i] \in {"cas", "announce", "joined"}

\* A round that a thread is through with has its leader.
Through ==
    \A i \in Threads : \A n \in 0..(RUNS - 1) :
        n < r[i] \/ (n = r[i] /\ pc[i] = "release") => leader[n] # 0

Leaders ==
    /\ ElectionTypes /\ ElectionRounds /\ Through
    /\ \A n \in 0..(RUNS - 1) : LeaderOf(n)

ElectionInv ==
    program \in {"election2", "election4"} =>
        Leaders /\ Election2 /\ Election4 /\ verdict # "wrong"

\* A thread that does not announce itself goes on, past no round without leader.
LEMMA LeadersGoOn ==
    ASSUME Leaders, NEW i \in Threads, NEW k \in 0..RUNS, UNCHANGED <<leader, nb_leaders>>,
           NEW to \in {"acquire", "test", "set", "release", "cas", "joined"},
           pc[i] # "announce", pc' = [pc EXCEPT ![i] = to], r' = [r EXCEPT ![i] = k],
           to = "joined" <=> k = RUNS,
           \A n \in 0..(RUNS - 1) : n < k \/ (n = k /\ to = "release") => leader[n] # 0
    PROVE  Leaders'
<1> USE DEF Leaders
<1>1. ElectionTypes' BY DEF ElectionTypes
<1>2. pc'[i] = to /\ r'[i] = k /\ \A j \in Threads : j # i => pc'[j] = pc[j] /\ r'[j] = r[j]
  BY DEF ElectionTypes
<1>3. ElectionRounds' /\ Through' BY <1>2 DEF ElectionRounds, Through
<1>4. \A n \in 0..(RUNS - 1) : Announcing(n)' = Announcing(n) BY <1>2 DEF Announcing
<1>5. \A n \in 0..(RUNS - 1) : LeaderOf(n)' BY <1>4 DEF LeaderOf
<1> QED BY <1>1, <1>3, <1>5

\* A thread makes itself the leader of a round without one.
LEMMA LeadersLead ==
    ASSUME Leaders, NEW i \in Threads, r[i] \in 0..(RUNS - 1), leader[r[i]] = 0,
           pc[i] # "announce", pc' = [pc EXCEPT ![i] = "announce"],
           leader' = [leader EXCEPT ![r[i]] = tid(i)], UNCHANGED <<r, nb_leaders>>
    PROVE  Leaders'
<1> USE DEF Leaders
<1>1. tid(i) \in Nat \ {0} BY DEF tid, Threads
<1>2. ElectionTypes' BY <1>1 DEF ElectionTypes
<1>3. pc'[i] = "announce" /\ \A j \in Threads : j # i => pc'[j] = pc[j] BY DEF ElectionTypes
<1>4. leader'[r[i]] = tid(i) /\ \A n \in 0..(RUNS - 1) : n # r[i] => leader'[n] = leader[n]
  BY DEF ElectionTypes
<1>5. ElectionRounds' BY <1>3 DEF ElectionRounds, ElectionTypes
<1>6. Through' BY <1>1, <1>3, <1>4 DEF Through
<1>7. ASSUME NEW n \in 0..(RUNS - 1) PROVE LeaderOf(n)'
  <2>1. CASE n = r[i]
    <3>1. Announcing(n) = {} /\ nb_leaders[n] = 0 BY <2>1 DEF LeaderOf
    <3>2. Announcing(n)' = {i} BY <1>3, <2>1, <3>1 DEF Announcing
    <3>3. tid(i)' = tid(i) BY DEF tid
    <3> QED BY <1>1, <1>4, <2>1, <3>1, <3>2, <3>3 DEF LeaderOf
  <2>2. CASE n # r[i]
    <3>1. Announcing(n)' = Announcing(n) BY <1>3, <2>2 DEF Announcing
    <3> QED BY <1>4, <2>2, <3>1 DEF LeaderOf, tid
  <2> QED BY <2>1, <2>2
<1> QED BY <1>2, <1>5, <1>6, <1>7

\* It announces itself, and is the only one.
LEMMA LeadersAnnounce ==
    ASSUME Leaders, NEW i \in Threads, pc[i] = "announce", Announce(i), NEW k \in 0..RUNS,
           NEW to \in {"release", "cas", "joined"},
           pc' = [pc EXCEPT ![i] = to], r' = [r EXCEPT ![i] = k],
           to = "joined" <=> k = RUNS,
           (to = "release" /\ k = r[i]) \/ (to # "release" /\ k = r[i] + 1)
    PROVE  Leaders'
<1> USE DEF Leaders, Announce
<1>0. r[i] \in 0..(RUNS - 1) BY ProgramAssumption DEF ElectionTypes, ElectionRounds
<1>1. i \in Announcing(r[i]) BY DEF Announcing
<1>2. leader[r[i]] # 0 /\ nb_leaders[r[i]] = 0 /\ Announcing(r[i]) = {i}
  BY <1>0, <1>1 DEF LeaderOf
<1>3. ElectionTypes' BY <1>0 DEF ElectionTypes
<1>4. pc'[i] = to /\ r'[i] = k /\ \A j \in Threads : j # i => pc'[j] = pc[j] /\ r'[j] = r[j]
  BY DEF ElectionTypes
<1>5. nb_leaders'[r[i]] = 1 /\ \A n \in 0..(RUNS - 1) : n # r[i] => nb_leaders'[n] = nb_leaders[n]
  BY <1>0, <1>2 DEF ElectionTypes
<1>6. ElectionRounds' BY <1>4 DEF ElectionRounds
<1>7. Through'
  <2>1. \A n \in 0..(RUNS - 1) : n < k \/ (n = k /\ to = "release") => n < r[i] \/ n = r[i]
    BY <1>0
  <2> QED BY <1>2, <1>4, <2>1 DEF Through
<1>8. ASSUME NEW n \in 0..(RUNS - 1) PROVE LeaderOf(n)'
  <2>1. CASE n = r[i]
    <3>1. Announcing(n)' = {} BY <1>2, <1>4, <2>1 DEF Announcing
    <3> QED BY <1>2, <1>5, <2>1, <3>1 DEF LeaderOf
  <2>2. CASE n # r[i]
    <3>1. Announcing(n)' = Announcing(n) BY <1>4, <2>2 DEF Announcing
    <3> QED BY <1>5, <2>2, <3>1 DEF LeaderOf, tid
  <2> QED BY <2>1, <2>2
<1> QED BY <1>3, <1>6, <1>7, <1>8

\* When main has joined all threads, each round has been announced once.
LEMMA ElectedOnce ==
    ASSUME Leaders, Elected
    PROVE  verdict' # "wrong" /\ UNCHANGED <<pc, r, holder, leader, nb_leaders>>
<1>1. \A i \in Threads : pc[i] = "joined" BY DEF Elected, Verdict, Leaders, ElectionTypes
<1>2. 0 \in Threads /\ r[0] = RUNS
  BY <1>1, ProgramAssumption DEF Threads, Leaders, ElectionRounds
<1>3. ASSUME NEW n \in 0..(RUNS - 1) PROVE nb_leaders[n] = 1
  <2>1. leader[n] # 0 BY <1>2, ProgramAssumption DEF Leaders, Through
  <2>2. Announcing(n) = {} BY <1>1 DEF Announcing
  <2> QED BY <2>1, <2>2 DEF Leaders, LeaderOf
<1>4. DOMAIN nb_leaders = 0..(RUNS - 1) BY DEF Leaders, ElectionTypes
<1> QED BY <1>3, <1>4 DEF Elected, Verdict, OnlyRounds, steps, lock

\* A step that changes nothing but, perhaps, who is judged how.
LEMMA ElectionStill ==
    ASSUME ElectionInv, UNCHANGED <<program, pc, r, holder, leader, nb_leaders>>,
           verdict' # "wrong" \/ verdict' = verdict
    PROVE  ElectionInv'
BY DEF ElectionInv, Leaders, ElectionTypes, ElectionRounds, Through, LeaderOf, Announcing,
       Election2, Election4

LEMMA StepElection2 ==
    ASSUME ElectionInv, program = "election2", UNCHANGED program, NEW i \in Threads, election2(i)
    PROVE  ElectionInv'
<1> USE ProgramAssumption, NobodyAssumption DEF ElectionInv
<1>0. /\ pc \in [Threads -> {"acquire", "test", "set", "announce", "release", "cas", "joined"}]
      /\ r \in [Threads -> 0..RUNS] /\ leader \in [0..(RUNS - 1) -> Nat]
  BY DEF Leaders, ElectionTypes
<1>1. CASE Elected BY <1>1, ElectedOnce, ElectionStill
<1>2. CASE UNCHANGED verdict /\ Go(i, "acquire", "test") /\ lock_acquire(i) /\ OnlyRounds
  <2> USE <1>2 DEF Go, lock_acquire, OnlyRounds
  <2>1. r' = [r EXCEPT ![i] = r[i]] /\ r[i] \in 0..RUNS BY <1>0
  <2>2. Leaders' BY <2>1, LeadersGoOn DEF Leaders, ElectionRounds, Through
  <2>3. Election2' BY <1>0 DEF Election2
  <2> QED BY <2>2, <2>3 DEF Election4
<1>3. CASE UNCHANGED <<verdict, lock>> /\ Go(i, "test", "set") /\ leader[r[i]] = 0 /\ OnlyRounds
  <2> USE <1>3 DEF Go, lock, OnlyRounds
  <2>1. r' = [r EXCEPT ![i] = r[i]] /\ r[i] \in 0..RUNS BY <1>0
  <2>2. \A n \in 0..(RUNS - 1) : n < r[i] => leader[n] # 0 BY DEF Leaders, Through
  <2>3. r[i] # RUNS BY DEF Leaders, ElectionRounds
  <2>4. Leaders' BY <2>1, <2>2, <2>3, LeadersGoOn
  <2>5. Election2' BY <1>0 DEF Election2
  <2> QED BY <2>4, <2>5 DEF Election4
<1>4. CASE UNCHANGED <<verdict, lock>> /\ Go(i, "test", "release") /\ leader[r[i]] # 0 /\ OnlyRounds
  <2> USE <1>4 DEF Go, lock, OnlyRounds
  <2>1. r' = [r EXCEPT ![i] = r[i]] /\ r[i] \in 0..RUNS BY <1>0
  <2>2. \A n \in 0..(RUNS - 1) : n < r[i] \/ n = r[i] => leader[n] # 0 BY DEF Leaders, Through
  <2>3. r[i] # RUNS BY DEF Leaders, ElectionRounds
  <2>4. Leaders' BY <2>1, <2>2, <2>3, LeadersGoOn
  <2>5. Election2' BY <1>0 DEF Election2
  <2> QED BY <2>4, <2>5 DEF Election4
<1>5. CASE UNCHANGED <<verdict, lock>> /\ Set(i)
  <2> USE <1>5 DEF Go, lock, Set
  <2>1. r[i] \in 0..(RUNS - 1) BY <1>0 DEF Leaders, ElectionRounds
  <2>2. leader[r[i]] = 0 BY DEF Election2
  <2>3. Leaders' BY <2>1, <2>2, LeadersLead
  <2>4. Election2' BY <1>0 DEF Election2
  <2> QED BY <2>3, <2>4 DEF Election4
<1>6. CASE UNCHANGED <<verdict, lock>> /\ Go(i, "announce", "release") /\ Announce(i)
  <2> USE <1>6 DEF Go, lock
  <2>1. r' = [r EXCEPT ![i] = r[i]] /\ r[i] \in 0..RUNS /\ r[i] # RUNS
    BY <1>0 DEF Leaders, ElectionRounds
  <2>2. Leaders' BY <2>1, LeadersAnnounce
  <2>3. Election2' BY <1>0 DEF Election2, Announce
  <2> QED BY <2>2, <2>3 DEF Election4
<1>7. CASE UNCHANGED verdict /\ NextRound(i, "release", Fst, 1) /\ lock_release(i) /\ OnlyRounds
  <2> USE <1>7 DEF NextRound, lock_release, OnlyRounds
  <2>0. Fst = "acquire" BY DEF Fst
  <2>1. r[i] \in 0..(RUNS - 1) BY <1>0 DEF Leaders, ElectionRounds
  <2>2. PICK to \in {"acquire", "joined"} : /\ pc' = [pc EXCEPT ![i] = to]
                                            /\ to = "joined" <=> r[i] + 1 = RUNS
    <3> DEFINE place == IF r[i] + 1 < RUNS THEN "acquire" ELSE "joined"
    <3>1. pc' = [pc EXCEPT ![i] = place] BY <2>0
    <3>2. place \in {"acquire", "joined"} /\ (place = "joined" <=> r[i] + 1 = RUNS) BY <2>1
    <3> HIDE DEF place
    <3> QED BY <3>1, <3>2
  <2>3. r' = [r EXCEPT ![i] = r[i] + 1] /\ r[i] + 1 \in 0..RUNS BY <1>0, <2>1
  <2>4. \A n \in 0..(RUNS - 1) : n < r[i] + 1 => leader[n] # 0 BY <2>1 DEF Leaders, Through
  <2>5. Leaders' BY <2>2, <2>3, <2>4, LeadersGoOn
  <2>6. Election2' BY <1>0, <2>2 DEF Election2
  <2> QED BY <2>5, <2>6 DEF Election4
<1> QED BY <1>1, <1>2, <1>3, <1>4, <1>5, <1>6, <1>7 DEF election2, Test, lock

LEMMA StepElection4 ==
    ASSUME ElectionInv, program = "election4", UNCHANGED program, NEW i \in Threads, election4(i)
    PROVE  ElectionInv'
<1> USE ProgramAssumption DEF ElectionInv
<1>0. /\ pc \in [Threads -> {"acquire", "test", "set", "announce", "release", "cas", "joined"}]
      /\ r \in [Threads -> 0..RUNS] /\ leader \in [0..(RUNS - 1) -> Nat]
  BY DEF Leaders, ElectionTypes
<1>1. CASE Elected BY <1>1, ElectedOnce, ElectionStill
<1>2. ASSUME NEW from, NextRound(i, from, Fst, 1), from # "joined"
      PROVE  /\ r[i] \in 0..(RUNS - 1) /\ r' = [r EXCEPT ![i] = r[i] + 1] /\ r[i] + 1 \in 0..RUNS
             /\ \E to \in {"cas", "joined"} : /\ pc' = [pc EXCEPT ![i] = to]
                                              /\ to = "joined" <=> r[i] + 1 = RUNS
  <2>0. Fst = "cas" BY DEF Fst
  <2>1. r[i] \in 0..(RUNS - 1) BY <1>0, <1>2 DEF NextRound, Leaders, ElectionRounds
  <2>2. r' = [r EXCEPT ![i] = r[i] + 1] BY <1>0, <1>2 DEF NextRound
  <2> DEFINE place == IF r[i] + 1 < RUNS THEN "cas" ELSE "joined"
  <2>3. pc' = [pc EXCEPT ![i] = place] BY <1>2, <2>0 DEF NextRound
  <2>4. place \in {"cas", "joined"} /\ (place = "joined" <=> r[i] + 1 = RUNS) BY <2>1
  <2> HIDE DEF place
  <2>5. \E to \in {"cas", "joined"} : pc' = [pc EXCEPT ![i] = to] /\ (to = "joined" <=> r[i] + 1 = RUNS)
    BY <2>3, <2>4
  <2>6. r[i] + 1 \in 0..RUNS BY <2>1
  <2> QED BY <2>1, <2>2, <2>5, <2>6
<1>3. CASE UNCHANGED verdict /\ NextRound(i, "cas", Fst, 1) /\ leader[r[i]] # 0 /\ OnlyRounds
  <2>1. PICK to \in {"cas", "joined"} : /\ pc' = [pc EXCEPT ![i] = to]
                                        /\ to = "joined" <=> r[i] + 1 = RUNS
    BY <1>2, <1>3
  <2>2. r[i] \in 0..(RUNS - 1) /\ r' = [r EXCEPT ![i] = r[i] + 1] /\ r[i] + 1 \in 0..RUNS
    BY <1>2, <1>3
  <2>3. \A n \in 0..(RUNS - 1) : n < r[i] + 1 => leader[n] # 0
    BY <1>3, <2>2 DEF Leaders, Through
  <2>4. pc[i] # "announce" BY <1>3 DEF NextRound
  <2>5. Leaders' BY <1>3, <2>1, <2>2, <2>3, <2>4, LeadersGoOn DEF OnlyRounds
  <2> QED BY <1>0, <1>3, <2>1, <2>5 DEF Election2, Election4
<1>4. CASE /\ UNCHANGED verdict /\ Go(i, "cas", "announce") /\ leader[r[i]] = 0
           /\ leader' = [leader EXCEPT ![r[i]] = tid(i)] /\ UNCHANGED nb_leaders
  <2>1. r[i] \in 0..(RUNS - 1) BY <1>0, <1>4 DEF Go, Leaders, ElectionRounds
  <2>2. Leaders' BY <1>4, <2>1, LeadersLead DEF Go
  <2> QED BY <1>0, <1>4, <2>2 DEF Go, Election2, Election4
<1>5. CASE UNCHANGED verdict /\ NextRound(i, "announce", Fst, 1) /\ Announce(i)
  <2>1. PICK to \in {"cas", "joined"} : /\ pc' = [pc EXCEPT ![i] = to]
                                        /\ to = "joined" <=> r[i] + 1 = RUNS
    BY <1>2, <1>5
  <2>2. r' = [r EXCEPT ![i] = r[i] + 1] /\ r[i] + 1 \in 0..RUNS BY <1>2, <1>5
  <2>3. pc[i] = "announce" BY <1>5 DEF NextRound
  <2>4. Leaders' BY <1>5, <2>1, <2>2, <2>3, LeadersAnnounce
  <2> QED BY <1>0, <1>5, <2>1, <2>4 DEF Election2, Election4
<1> QED BY <1>1, <1>3, <1>4, <1>5 DEF election4

LEMMA ElectionNextInv ==
    ASSUME ElectionInv, NEW i \in Threads, ElectionStep(i)
    PROVE  ElectionInv'
<1>1. CASE program \in {"election2", "election4"}
  BY <1>1, StepElection2, StepElection4 DEF ElectionStep
<1>2. CASE program \notin {"election2", "election4"}
  BY <1>2 DEF ElectionStep, ElectionInv
<1> QED BY <1>1, <1>2

\* The first state: no round has a leader.
LEMMA ElectionFirst == ElectionInit => ElectionInv
<1> SUFFICES ASSUME ElectionInit, program \in {"election2", "election4"}
             PROVE  Leaders /\ Election2 /\ Election4 /\ verdict # "wrong"
  BY DEF ElectionInv
<1> USE ProgramAssumption, NobodyAssumption DEF ElectionInit, Start, ElectionData, lock_init
<1>1. /\ Fst \in {"acquire", "cas"}
      /\ program = "election2" => Fst = "acquire"
      /\ program = "election4" => Fst = "cas"
  BY DEF Fst
<1>2. \A i \in Threads : pc[i] = Fst /\ r[i] = 0 OBVIOUS
<1>3. ElectionTypes
  <2>1. pc \in [Threads -> {Fst}] /\ r \in [Threads -> 0..RUNS] OBVIOUS
  <2> QED BY <1>1, <2>1 DEF ElectionTypes
<1>4. ElectionRounds /\ Through BY <1>1, <1>2 DEF ElectionRounds, Through
<1>5. \A n \in 0..(RUNS - 1) : LeaderOf(n) BY <1>1, <1>2 DEF LeaderOf, Announcing
<1>6. Election2 /\ Election4 BY <1>1, <1>2 DEF Election2, Election4
<1> QED BY <1>3, <1>4, <1>5, <1>6 DEF Leaders

\* What the invariant says in the words of the property.
LEMMA OneLeaderHolds == ElectionInv => OneLeader
<1> SUFFICES ASSUME ElectionInv, program \in {"election2", "election4"}, NEW n \in 0..(RUNS - 1)
             PROVE  /\ nb_leaders[n] + Cardinality(Announcing(n)) <= 1
                    /\ \A i \in Announcing(n) : leader[n] = tid(i)
  BY DEF OneLeader, Announcing
<1>1. LeaderOf(n) BY DEF ElectionInv, Leaders
<1>2. CASE Announcing(n) = {} /\ nb_leaders[n] \in {0, 1}
  BY <1>2, FS_EmptySet
<1>3. ASSUME NEW i \in Threads, Announcing(n) = {i}, leader[n] = tid(i), nb_leaders[n] = 0
      PROVE  nb_leaders[n] + Cardinality(Announcing(n)) <= 1
             /\ \A j \in Announcing(n) : leader[n] = tid(j)
  <2>1. Cardinality(Announcing(n)) = 1 BY <1>3, FS_Singleton
  <2> QED BY <1>3, <2>1
<1> QED BY <1>1, <1>2, <1>3 DEF LeaderOf

-----------------------------------------------------------------------------
(* VersionedLock: the lock of a word is atomic for its users *)

LockInv == VLock!TypeOK /\ VLock!MutualExclusion

\* The int gives back the version and the lock bit it was made of: no version
\* below a quarter of its values reaches the sign.
LEMMA Packed ==
    ASSUME NEW n \in 0..MaxVersion, NEW b \in BOOLEAN
    PROVE  /\ VLock!version_of(VLock!form_version_locked(n, b)) = n
           /\ VLock!lock_of(VLock!form_version_locked(n, b)) = b
<1> DEFINE x == 2 * n + (IF b THEN 1 ELSE 0)
<1>1. n \in Nat /\ 2 * n < 2 * Quarter /\ 4 * Quarter \in Nat \ {0}
  BY QuarterAssumption, VersionAssumption
<1>2. (2 * n) % (4 * Quarter) = 2 * n
  <2> DEFINE m == 4 * Quarter
             k == 2 * n
  <2>1. m \in Nat \ {0} /\ k \in Nat /\ k < m BY <1>1, QuarterAssumption
  <2> HIDE DEF m, k
  <2>2. k % m = k BY <2>1
  <2> QED BY <2>2 DEF m, k
<1>3. VLock!Wrap(2 * n) = 2 * n BY <1>1, <1>2 DEF VLock!Wrap
<1>4. VLock!form_version_locked(n, b) = x BY <1>3 DEF VLock!form_version_locked
<1>5. x \div 2 = n /\ (x % 2 = 1 <=> b) BY <1>1
<1> QED BY <1>4, <1>5 DEF VLock!version_of, VLock!lock_of

LEMMA IsPacked ==
    ASSUME NEW n \in 0..MaxVersion, NEW b \in BOOLEAN
    PROVE  VLock!form_version_locked(n, b) \in
              {VLock!form_version_locked(m, c) : m \in 0..MaxVersion, c \in BOOLEAN}
BY SMT

\* The int is such a one, and what is loaded from it has the types of its parts.
LEMMA Unpacked ==
    ASSUME LockInv
    PROVE  /\ v = VLock!form_version_locked(VLock!version_of(v), VLock!lock_of(v))
           /\ VLock!version_of(v) \in 0..MaxVersion /\ VLock!lock_of(v) \in BOOLEAN
<1>1. PICK n \in 0..MaxVersion, b \in BOOLEAN : v = VLock!form_version_locked(n, b)
  BY DEF LockInv, VLock!TypeOK
<1> QED BY <1>1, Packed

\* Where a thread holds the lock.
LockPlaces == {"out", "cas", "holder", "unlock", "stamp"}
HolderPlaces == {"holder", "unlock", "stamp"}

\* The steps of a thread that leave the int alone.
LEMMA LockLooks ==
    ASSUME LockInv, UNCHANGED v, NEW t \in Threads, NEW to \in LockPlaces,
           lock_pc' = [lock_pc EXCEPT ![t] = to],
           lock_pc[t] \in HolderPlaces <=> to \in HolderPlaces,
           \E c \in [version : 0..MaxVersion, locked : BOOLEAN] :
              /\ cur' = [cur EXCEPT ![t] = c]
              /\ to \in {"unlock", "stamp"} => c = VLock!get_version_locked(v),
           \E n \in 0..MaxVersion : target' = [target EXCEPT ![t] = n]
    PROVE  LockInv'
<1> USE DEF LockInv, LockPlaces, HolderPlaces
<1>1. VLock!TypeOK' BY DEF VLock!TypeOK
<1>2. lock_pc'[t] = to /\ \A u \in Threads : u # t => lock_pc'[u] = lock_pc[u] BY DEF VLock!TypeOK
<1>3. \A u \in Threads : VLock!Holding(u)' <=> VLock!Holding(u) BY <1>2 DEF VLock!Holding
<1>4. \A u \in Threads : u # t => cur'[u] = cur[u] BY DEF VLock!TypeOK
<1>5. to \in {"unlock", "stamp"} => cur'[t] = VLock!get_version_locked(v) BY DEF VLock!TypeOK
<1>6. VLock!get_version_locked(v)' = VLock!get_version_locked(v)
  BY DEF VLock!get_version_locked, VLock!version_of, VLock!lock_of
<1>7. VLock!lock_of(v)' = VLock!lock_of(v) BY DEF VLock!lock_of
<1>8. (\A u \in Threads : lock_pc[u] \in {"unlock", "stamp"} => cur[u] = VLock!get_version_locked(v))'
  BY <1>2, <1>4, <1>5, <1>6 DEF VLock!MutualExclusion
<1> QED BY <1>1, <1>3, <1>7, <1>8 DEF VLock!MutualExclusion

\* The stores: what thread t writes, when it has the lock or takes it.
LEMMA LockStores ==
    ASSUME LockInv, NEW t \in Threads, NEW n \in 0..MaxVersion, NEW to \in {"out", "holder"},
           v' = VLock!form_version_locked(n, to = "holder"),
           \A u \in Threads : u # t => ~VLock!Holding(u),
           VLock!Return(t, to)
    PROVE  /\ LockInv'
           /\ VLock!version_of(v)' = n
           /\ \A u \in Threads : VLock!Holding(u)' <=> u = t /\ to = "holder"
<1> USE DEF LockInv, VLock!Return
<1>1. (to = "holder") \in BOOLEAN OBVIOUS
<1>2. VLock!version_of(v') = n /\ (VLock!lock_of(v') <=> to = "holder")
  BY <1>1, Packed
<1>3. lock_pc'[t] = to /\ \A u \in Threads : u # t => lock_pc'[u] = lock_pc[u] BY DEF VLock!TypeOK
<1>4. \A u \in Threads : VLock!Holding(u)' <=> u = t /\ to = "holder" BY <1>3 DEF VLock!Holding
<1>5. VLock!TypeOK'
  <2>1. v' \in {VLock!form_version_locked(m, b) : m \in 0..MaxVersion, b \in BOOLEAN}
    <3>1. PICK b \in BOOLEAN : v' = VLock!form_version_locked(n, b) BY <1>1, Zenon
    <3> QED BY <3>1, IsPacked
  <2>2. v' \in {VLock!form_version_locked(m, b)' : m \in 0..MaxVersion, b \in BOOLEAN}
    BY <2>1 DEF VLock!form_version_locked, VLock!Wrap
  <2>3. VLock!Unloaded \in [version : 0..MaxVersion, locked : BOOLEAN] /\ 0 \in 0..MaxVersion
    BY VersionAssumption DEF VLock!Unloaded
  <2> QED BY <2>2, <2>3 DEF VLock!TypeOK
<1>6. VLock!lock_of(v)' <=> to = "holder" BY <1>2 DEF VLock!lock_of
<1>7. VLock!version_of(v)' = n BY <1>2 DEF VLock!version_of
<1>8. \A u \in Threads : lock_pc'[u] \notin {"unlock", "stamp"} BY <1>3 DEF VLock!Holding
<1>9. VLock!MutualExclusion' BY <1>4, <1>6, <1>8 DEF VLock!MutualExclusion
<1> QED BY <1>4, <1>5, <1>7, <1>9

\* The holder, as AtomicVersionedLock names it.
Owner == IF \E t \in Threads : VLock!Holding(t) THEN CHOOSE t \in Threads : VLock!Holding(t)
         ELSE Nobody

LEMMA OneIsChosen ==
    ASSUME NEW p, NEW t \in Threads, p[t] \in HolderPlaces,
           \A u \in Threads : p[u] \in HolderPlaces => u = t
    PROVE  (CHOOSE u \in Threads : p[u] \in HolderPlaces) = t
OBVIOUS

LEMMA OwnerIs ==
    /\ \A t \in Threads : VLock!Holding(t) /\ (\A u \in Threads : VLock!Holding(u) => u = t)
                             => Owner = t
    /\ (\A u \in Threads : ~VLock!Holding(u)) => Owner = Nobody
BY OneIsChosen, Zenon DEF Owner, VLock!Holding, HolderPlaces

LEMMA OwnerWillBe ==
    /\ \A t \in Threads : VLock!Holding(t)' /\ (\A u \in Threads : VLock!Holding(u)' => u = t)
                             => Owner' = t
    /\ (\A u \in Threads : ~VLock!Holding(u)') => Owner' = Nobody
BY OneIsChosen, Zenon DEF Owner, VLock!Holding, HolderPlaces

\* Every step keeps the invariant, and is one of the atomic lock or none.
LEMMA LockStep ==
    ASSUME LockInv, VLock!Next
    PROVE  LockInv' /\ [VLock!Atomic!Next]_<<VLock!version_of(v), Owner>>
<1>0. PICK t \in Threads :
         \/ VLock!TryLockLoad(t) \/ VLock!TryLockCas(t) \/ VLock!TryLockFail(t)
         \/ VLock!UnlockLoad(t) \/ VLock!UnlockStore(t)
         \/ \E version \in 0..MaxVersion : VLock!SetVersionLoad(t, version)
         \/ VLock!SetVersionStore(t)
  BY DEF VLock!Next
<1> DEFINE loaded == VLock!get_version_locked(v)
<1>1. loaded \in [version : 0..MaxVersion, locked : BOOLEAN]
  BY Unpacked DEF VLock!get_version_locked
<1>2. VLock!Unloaded \in [version : 0..MaxVersion, locked : BOOLEAN] /\ 0 \in 0..MaxVersion
  BY VersionAssumption DEF VLock!Unloaded
<1>3. /\ lock_pc \in [Threads -> LockPlaces] /\ target \in [Threads -> 0..MaxVersion]
      /\ cur \in [Threads -> [version : 0..MaxVersion, locked : BOOLEAN]]
  BY DEF LockInv, VLock!TypeOK, LockPlaces
<1>4. ASSUME UNCHANGED v, \A u \in Threads : VLock!Holding(u)' <=> VLock!Holding(u)
      PROVE  UNCHANGED <<VLock!version_of(v), Owner>>
  <2>1. VLock!version_of(v)' = VLock!version_of(v) BY <1>4 DEF VLock!version_of
  <2>2. Owner' = Owner
    <3>1. CASE \E u \in Threads : VLock!Holding(u)
      <4>1. PICK u \in Threads : VLock!Holding(u) BY <3>1
      <4>2. \A w \in Threads : VLock!Holding(w) => w = u BY <4>1 DEF LockInv, VLock!MutualExclusion
      <4>3. Owner = u BY <4>1, <4>2, OwnerIs
      <4>4. Owner' = u BY <1>4, <4>1, <4>2, OwnerWillBe
      <4> QED BY <4>3, <4>4
    <3>2. CASE \A u \in Threads : ~VLock!Holding(u)
      BY <1>4, <3>2, OwnerIs, OwnerWillBe
    <3> QED BY <3>1, <3>2
  <2> QED BY <2>1, <2>2
<1>5. ASSUME NEW to \in LockPlaces, UNCHANGED v, lock_pc' = [lock_pc EXCEPT ![t] = to],
             lock_pc[t] \in HolderPlaces <=> to \in HolderPlaces
      PROVE  UNCHANGED <<VLock!version_of(v), Owner>>
  <2>1. \A u \in Threads : VLock!Holding(u)' <=> VLock!Holding(u)
    BY <1>3, <1>5 DEF VLock!Holding, HolderPlaces
  <2> QED BY <1>4, <1>5, <2>1
<1>6. CASE VLock!TryLockLoad(t) \/ VLock!UnlockLoad(t)
  <2>1. PICK to \in {"cas", "unlock"} :
           /\ lock_pc' = [lock_pc EXCEPT ![t] = to] /\ cur' = [cur EXCEPT ![t] = loaded]
           /\ (to = "cas" /\ lock_pc[t] = "out") \/ (to = "unlock" /\ lock_pc[t] = "holder")
    BY <1>6 DEF VLock!TryLockLoad, VLock!UnlockLoad, VLock!Load
  <2>2. UNCHANGED <<v, target>> BY <1>6 DEF VLock!TryLockLoad, VLock!UnlockLoad, VLock!Load
  <2>3. target' = [target EXCEPT ![t] = target[t]] /\ target[t] \in 0..MaxVersion BY <1>3, <2>2
  <2>4. to \in LockPlaces /\ (lock_pc[t] \in HolderPlaces <=> to \in HolderPlaces)
    BY <2>1 DEF LockPlaces, HolderPlaces
  <2>5. LockInv' BY <1>1, <2>1, <2>2, <2>3, <2>4, LockLooks
  <2> QED BY <1>5, <2>1, <2>2, <2>4, <2>5
<1>7. ASSUME NEW version \in 0..MaxVersion, VLock!SetVersionLoad(t, version)
      PROVE  LockInv' /\ UNCHANGED <<VLock!version_of(v), Owner>>
  <2>1. /\ lock_pc' = [lock_pc EXCEPT ![t] = "stamp"] /\ cur' = [cur EXCEPT ![t] = loaded]
        /\ lock_pc[t] = "holder" /\ UNCHANGED v /\ target' = [target EXCEPT ![t] = version]
    BY <1>7 DEF VLock!SetVersionLoad, VLock!Load
  <2>2. "stamp" \in LockPlaces /\ (lock_pc[t] \in HolderPlaces <=> "stamp" \in HolderPlaces)
    BY <2>1 DEF LockPlaces, HolderPlaces
  <2>3. LockInv' BY <1>1, <2>1, <2>2, LockLooks
  <2> QED BY <1>5, <2>1, <2>2, <2>3
<1>8. CASE VLock!TryLockFail(t)
  <2>1. /\ lock_pc' = [lock_pc EXCEPT ![t] = "out"] /\ cur' = [cur EXCEPT ![t] = VLock!Unloaded]
        /\ lock_pc[t] = "cas" /\ UNCHANGED v /\ target' = [target EXCEPT ![t] = 0]
    BY <1>8 DEF VLock!TryLockFail, VLock!Return
  <2>2. /\ "out" \in LockPlaces /\ "out" \notin {"unlock", "stamp"}
        /\ (lock_pc[t] \in HolderPlaces <=> "out" \in HolderPlaces)
    BY <2>1 DEF LockPlaces, HolderPlaces
  <2>3. LockInv' BY <1>2, <2>1, <2>2, LockLooks
  <2> QED BY <1>5, <2>1, <2>2, <2>3
<1>9. CASE VLock!TryLockCas(t)
  <2> DEFINE n == cur[t].version
  <2>1. /\ v = VLock!form_version_locked(n, FALSE) /\ v' = VLock!form_version_locked(n, TRUE)
        /\ VLock!Return(t, "holder")
    BY <1>9 DEF VLock!TryLockCas
  <2>2. n \in 0..MaxVersion BY <1>3
  <2>3. VLock!version_of(v) = n /\ ~VLock!lock_of(v) BY <2>1, <2>2, Packed
  <2>4. \A u \in Threads : ~VLock!Holding(u) BY <2>3 DEF LockInv, VLock!MutualExclusion
  <2>5. v' = VLock!form_version_locked(n, "holder" = "holder") BY <2>1
  <2> HIDE DEF n
  <2>6. /\ LockInv' /\ VLock!version_of(v)' = n
        /\ \A u \in Threads : VLock!Holding(u)' <=> u = t /\ "holder" = "holder"
    BY <2>1, <2>2, <2>4, <2>5, LockStores
  <2>7. Owner = Nobody /\ Owner' = t BY <2>4, <2>6, OwnerIs, OwnerWillBe
  <2>8. VLock!Atomic!try_lock(t) BY <2>3, <2>6, <2>7 DEF VLock!Atomic!try_lock, Owner
  <2> QED BY <2>6, <2>8 DEF VLock!Atomic!Next
<1>10. ASSUME NEW to \in {"out", "holder"}, NEW n \in 0..MaxVersion, VLock!Holding(t),
              v' = VLock!form_version_locked(n, to = "holder"), VLock!Return(t, to)
       PROVE  /\ LockInv' /\ Owner = t /\ VLock!version_of(v)' = n
              /\ Owner' = IF to = "holder" THEN t ELSE Nobody
  <2>1. \A u \in Threads : VLock!Holding(u) => u = t BY <1>10 DEF LockInv, VLock!MutualExclusion
  <2>2. /\ LockInv' /\ VLock!version_of(v)' = n
        /\ \A u \in Threads : VLock!Holding(u)' <=> u = t /\ to = "holder"
    BY <1>10, <2>1, LockStores
  <2>3. Owner = t BY <1>10, <2>1, OwnerIs
  <2>4. Owner' = IF to = "holder" THEN t ELSE Nobody BY <2>2, OwnerWillBe
  <2> QED BY <2>2, <2>3, <2>4
<1>11. CASE VLock!UnlockStore(t)
  <2> DEFINE n == cur[t].version
  <2>1. VLock!Holding(t) /\ v' = VLock!form_version_locked(n, FALSE) /\ VLock!Return(t, "out")
    BY <1>11 DEF VLock!UnlockStore, VLock!Holding
  <2>2. cur[t] = loaded BY <1>11 DEF VLock!UnlockStore, LockInv, VLock!MutualExclusion
  <2>3. n = VLock!version_of(v) BY <2>2 DEF VLock!get_version_locked
  <2>4. n \in 0..MaxVersion BY <1>3
  <2>5. v' = VLock!form_version_locked(n, "out" = "holder") BY <2>1
  <2> HIDE DEF n
  <2>6. LockInv' /\ Owner = t /\ VLock!version_of(v)' = n /\ Owner' = Nobody
    BY <1>10, <2>1, <2>4, <2>5
  <2>7. VLock!Atomic!unlock(t) BY <2>3, <2>6 DEF VLock!Atomic!unlock, Owner
  <2> QED BY <2>6, <2>7 DEF VLock!Atomic!Next
<1>12. CASE VLock!SetVersionStore(t)
  <2> DEFINE n == target[t]
  <2>1. VLock!Holding(t) /\ v' = VLock!form_version_locked(n, cur[t].locked) /\ VLock!Return(t, "holder")
    BY <1>12 DEF VLock!SetVersionStore, VLock!Holding
  <2>2. cur[t] = loaded BY <1>12 DEF VLock!SetVersionStore, LockInv, VLock!MutualExclusion
  <2>3. cur[t].locked = VLock!lock_of(v) BY <2>2 DEF VLock!get_version_locked
  <2>4. VLock!lock_of(v) = TRUE BY <2>1, Unpacked DEF LockInv, VLock!MutualExclusion
  <2>5. n \in 0..MaxVersion BY <1>3
  <2>6. v' = VLock!form_version_locked(n, "holder" = "holder") BY <2>1, <2>3, <2>4
  <2> HIDE DEF n
  <2>7. LockInv' /\ Owner = t /\ VLock!version_of(v)' = n /\ Owner' = t
    BY <1>10, <2>1, <2>5, <2>6
  <2>8. VLock!Atomic!set_version(t) BY <2>5, <2>7 DEF VLock!Atomic!set_version, Owner
  <2> QED BY <2>7, <2>8 DEF VLock!Atomic!Next
<1> QED BY <1>0, <1>6, <1>7, <1>8, <1>9, <1>11, <1>12

\* The first state: version 0, nobody's.
LEMMA LockFirst ==
    ASSUME VLock!Init
    PROVE  LockInv /\ VLock!version_of(v) = 0 /\ Owner = Nobody
<1>1. 0 \in 0..MaxVersion BY VersionAssumption
<1>2. PICK b \in BOOLEAN : b = FALSE /\ v = VLock!form_version_locked(0, b) BY Zenon DEF VLock!Init
<1>3. VLock!version_of(v) = 0 /\ VLock!lock_of(v) = FALSE BY <1>1, <1>2, Packed
<1>4. \A t \in Threads : lock_pc[t] = "out" BY DEF VLock!Init
<1>5. VLock!TypeOK
  <2>1. v \in {VLock!form_version_locked(n, c) : n \in 0..MaxVersion, c \in BOOLEAN}
    BY <1>1, <1>2, IsPacked
  <2>2. lock_pc \in [Threads -> LockPlaces] /\ target \in [Threads -> 0..MaxVersion]
    BY <1>1 DEF VLock!Init, LockPlaces
  <2>3. cur \in [Threads -> [version : 0..MaxVersion, locked : BOOLEAN]]
    BY <1>1 DEF VLock!Init, VLock!Unloaded
  <2> QED BY <2>1, <2>2, <2>3 DEF VLock!TypeOK, LockPlaces
<1>6. VLock!MutualExclusion BY <1>3, <1>4 DEF VLock!MutualExclusion, VLock!Holding
<1>7. Owner = Nobody BY <1>4, OwnerIs DEF VLock!Holding
<1> QED BY <1>3, <1>5, <1>6, <1>7 DEF LockInv

-----------------------------------------------------------------------------
(* Transactional: a transaction is ended once *)

Operations == {"read", "write", "alloc", "free"}

\* What the worker knows of its transaction, by where it is.
InterfaceInv ==
    /\ library \in Interface!Libraries
    /\ doing \in Seq(Operations)
    /\ aborted \in BOOLEAN
    /\ at \in {"begin", "closure", "destroy", "leave", "returned", "thrown", "terminated"}
    /\ at = "begin" => handle \in {"none", "aborted"}
    /\ at = "closure" => handle = "open" /\ ~aborted /\ raised = "none"
    /\ at = "destroy" /\ aborted => handle = "aborted" /\ raised = "retry"
    /\ at = "destroy" /\ ~aborted => handle = "open" /\ raised \in {"none", "alloc"}
    /\ at = "leave" =>
          /\ handle \in {"committed", "aborted"}
          /\ raised = "none" => handle = "committed"
          /\ raised = "retry" => handle = "aborted"
    /\ at = "returned" => handle = "committed"
    /\ at = "thrown" => handle \in {"none", "committed", "aborted"}
    /\ at = "terminated" => library = "any" /\ handle = "aborted"
    /\ raised = "alloc" => library \in {"any", "reference"}

\* What the libraries answer: only two run out of memory, and only one of these
\* aborts a transaction at its end.
LEMMA Answers ==
    ASSUME library \in Interface!Libraries
    PROVE  /\ \A answer \in Interface!answers("begin") : answer \in {"ok", "invalid"}
           /\ \A call \in Operations : \A answer \in Interface!answers(call) :
                 /\ answer \in {"ok", "abort", "nomem"}
                 /\ answer = "nomem" => library \in {"any", "reference"}
           /\ \A answer \in Interface!answers("end") :
                 answer = "ok" \/ (answer = "abort" /\ library # "reference")
<1> USE DEF Interface!answers, Operations
<1>1. CASE library = "any" BY <1>1 DEF Interface!tm_h
<1>2. CASE library = "358982" BY <1>2 DEF Interface!dual_stm
<1>3. CASE library = "reference" BY <1>3 DEF Interface!reference
<1>4. CASE library = "template" BY <1>4 DEF Interface!template
<1> QED BY <1>1, <1>2, <1>3, <1>4 DEF Interface!Libraries

LEMMA InterfaceCall ==
    ASSUME InterfaceInv, Interface!Call
    PROVE  InterfaceInv'
<1> USE DEF InterfaceInv
<1>1. at = "closure" /\ doing # <<>> /\ handle = "open" /\ ~aborted BY DEF Interface!Call
<1>2. Head(doing) \in Operations /\ Tail(doing) \in Seq(Operations) BY <1>1
<1>3. PICK answer \in Interface!answers(Head(doing)) :
         /\ handle' = Interface!Handle(Head(doing), answer)
         /\ aborted' = (answer = "abort")
         /\ raised' = CASE answer = "ok" -> "none" [] answer = "abort" -> "retry"
                        [] answer = "nomem" -> "alloc"
         /\ at' = IF answer = "ok" THEN "closure" ELSE "destroy"
         /\ doing' = IF answer = "ok" THEN Tail(doing) ELSE <<>>
  BY DEF Interface!Call, Interface!Refused
<1>4. /\ answer \in {"ok", "abort", "nomem"}
      /\ answer = "nomem" => library \in {"any", "reference"}
  BY <1>2, Answers
<1>5. Head(doing) \notin {"begin", "end"} BY <1>2 DEF Operations
<1>6. UNCHANGED library BY DEF Interface!Call
<1>7. CASE answer = "ok"
  <2>1. handle' = "open" /\ raised' = "none" /\ ~aborted' /\ at' = "closure" /\ doing' = Tail(doing)
    BY <1>1, <1>3, <1>5, <1>7 DEF Interface!Handle
  <2>2. aborted' \in BOOLEAN BY <1>3
  <2> QED BY <1>2, <1>6, <2>1, <2>2
<1>8. CASE answer = "abort"
  <2>1. handle' = "aborted" /\ raised' = "retry" /\ aborted' /\ at' = "destroy" /\ doing' = <<>>
    BY <1>1, <1>3, <1>5, <1>8 DEF Interface!Handle
  <2>2. aborted' \in BOOLEAN BY <1>3
  <2> QED BY <1>6, <2>1, <2>2
<1>9. CASE answer = "nomem"
  <2>1. handle' = "open" /\ raised' = "alloc" /\ ~aborted' /\ at' = "destroy" /\ doing' = <<>>
    BY <1>1, <1>3, <1>5, <1>9 DEF Interface!Handle
  <2>2. aborted' \in BOOLEAN BY <1>3
  <2> QED BY <1>4, <1>6, <1>9, <2>1, <2>2
<1> QED BY <1>4, <1>7, <1>8, <1>9

LEMMA InterfaceNextInv ==
    ASSUME InterfaceInv, Interface!Next
    PROVE  InterfaceInv'
<1> USE DEF InterfaceInv
<1>1. CASE Interface!Begin
  <2>1. PICK answer \in {"ok", "invalid"} :
           /\ handle' = Interface!Handle("begin", answer)
           /\ raised' = IF answer = "ok" THEN "none" ELSE "begin"
           /\ at' = IF answer = "ok" THEN "closure" ELSE "thrown"
    BY <1>1, Answers DEF Interface!Begin
  <2>2. handle' = IF answer = "ok" THEN "open" ELSE "none" BY <2>1 DEF Interface!Handle
  <2>3. doing' = <<>> /\ ~aborted' /\ library' = library BY <1>1 DEF Interface!Begin
  <2>4. aborted' \in BOOLEAN BY <1>1 DEF Interface!Begin
  <2>5. doing' \in Seq(Operations) BY <2>3
  <2> QED BY <2>1, <2>2, <2>3, <2>4, <2>5
<1>2. CASE Interface!Operation
  <2>1. <<"read">> \in Seq(Operations) /\ <<"write">> \in Seq(Operations) BY DEF Operations
  <2>2. Interface!Shared_alloc \in Seq(Operations) /\ Interface!Shared_free \in Seq(Operations)
    BY DEF Operations, Interface!Shared_alloc, Interface!Shared_free
  <2>3. doing' \in Seq(Operations) BY <1>2, <2>1, <2>2 DEF Interface!Operation
  <2> QED BY <1>2, <2>3 DEF Interface!Operation
<1>3. CASE Interface!Call BY <1>3, InterfaceCall
<1>4. CASE Interface!Return BY <1>4 DEF Interface!Return, Interface!transaction
<1>5. CASE Interface!DestroyEnd
  <2>1. PICK answer \in Interface!answers("end") :
           /\ handle' = Interface!Handle("end", answer)
           /\ IF answer = "ok" THEN UNCHANGED raised ELSE raised' = "retry"
           /\ at' = IF answer = "abort" /\ raised # "none" THEN "terminated" ELSE "leave"
    BY <1>5 DEF Interface!DestroyEnd
  <2>2. answer = "ok" \/ (answer = "abort" /\ library # "reference") BY Answers
  <2>3. at = "destroy" /\ ~aborted /\ handle = "open" /\ UNCHANGED <<library, doing, aborted>>
    BY <1>5 DEF Interface!DestroyEnd, Interface!transaction
  <2>4. handle' = IF answer = "ok" THEN "committed" ELSE "aborted"
    <3>1. CASE answer = "ok" BY <2>1, <2>3, <3>1 DEF Interface!Handle
    <3>2. CASE answer = "abort" BY <2>1, <2>3, <3>2 DEF Interface!Handle
    <3> QED BY <2>2, <3>1, <3>2
  <2> QED BY <2>1, <2>2, <2>3, <2>4
<1>6. CASE Interface!DestroyAborted BY <1>6 DEF Interface!DestroyAborted, Interface!transaction
<1>7. CASE Interface!Leave BY <1>7 DEF Interface!Leave, Interface!transaction
<1> QED BY <1>1, <1>2, <1>3, <1>4, <1>5, <1>6, <1>7 DEF Interface!Next

-----------------------------------------------------------------------------
(* SegmentTable: what is allocated stays found, through every growth *)

USE TableAssumption, CallersAssumption, BoundsAssumption

Growing == {"grow", "assign", "double", "unlock"}
Allocating == Growing \cup {"fetched", "wait", "new", "store"}

EntryTypes(a) ==
    IF a = "segments" THEN 0..calls \cup {Table!Garbage}
                      ELSE {Table!Garbage, Table!ABSENT, Table!IN_USE, Table!TO_BE_DELETED}

TableTypes ==
    /\ n_segments \in 0..(IndexRange - 1)
    /\ MAX_SEGMENTS \in Nat \ {0}
    /\ allocating_lock \in Callers \cup {Nobody}
    /\ table_pc \in [Callers -> Allocating \cup {"out", "lookup", "mark"}]
    /\ array \in [Callers -> Table!Arrays]
    /\ new_index \in [Callers -> 0..(IndexRange - 1)]
    /\ base \in [Callers -> Nat]
    /\ name \in [Callers -> 0..calls]
    /\ calls \in 0..MaxAllocations
    /\ returned \subseteq (0..(IndexRange - 1)) \X (0..calls)
    /\ freed \subseteq 0..(IndexRange - 1)
    /\ disturbed \in BOOLEAN

\* The heap: the buffers of an array are numbered as realloc has returned them.
Heap ==
    /\ member \in [Table!Arrays -> Nat]
    /\ DOMAIN buffers = Table!Arrays
    /\ \A a \in Table!Arrays :
          /\ \E n \in Nat : DOMAIN buffers[a] = 1..n
          /\ member[a] \in DOMAIN buffers[a]
          /\ \A b \in DOMAIN buffers[a] :
                /\ DOMAIN buffers[a][b] = {"live", "entry"}
                /\ buffers[a][b].live \in BOOLEAN
                /\ \A i \in DOMAIN buffers[a][b].entry : buffers[a][b].entry[i] \in EntryTypes(a)

\* Where a call is: who grows the arrays has the lock, and an address that is used
\* is one that realloc has returned.
Calls ==
    /\ \A t \in Callers : table_pc[t] \in Growing <=> allocating_lock = t
    /\ \A t \in Callers :
          /\ table_pc[t] \in {"out", "fetched", "wait", "double", "unlock", "lookup"} => array[t] = "segments"
          /\ table_pc[t] = "mark" => array[t] = "segment_status"
          /\ table_pc[t] \in {"out", "fetched", "wait"} => base[t] = Table!NoBuffer
          /\ table_pc[t] \in {"assign", "store", "lookup", "mark"} =>
                base[t] \in DOMAIN buffers[array[t]]

\* realloc has returned the new buffer of a, and it is not assigned yet.
Assigning(a) ==
    /\ allocating_lock # Nobody
    /\ table_pc[allocating_lock] = "assign" /\ array[allocating_lock] = a

\* The buffer of a is larger already than MAX_SEGMENTS says.
Larger(a) ==
    /\ allocating_lock # Nobody
    /\ \/ Assigning(a)
       \/ table_pc[allocating_lock] = "double"
       \/ /\ table_pc[allocating_lock] \in {"grow", "assign"}
          /\ a = "segments" /\ array[allocating_lock] = "segment_status"

Current(a) == IF Assigning(a) THEN base[allocating_lock] ELSE member[a]

Capacity(a) == IF Larger(a) THEN 2 * MAX_SEGMENTS ELSE MAX_SEGMENTS

Sized ==
    \A a \in Table!Arrays :
        /\ Current(a) \in DOMAIN buffers[a]
        /\ DOMAIN buffers[a][Current(a)].entry = 0..(Capacity(a) - 1)
        /\ \A b \in DOMAIN buffers[a] : buffers[a][b].live <=> b = Current(a)

\* Has an index, and has not found yet, or made, that the table has it.
InFlight == {"fetched", "wait", "grow", "assign", "double"}

\* Of the indexes up to i, those beyond the table are all in flight: who is alone with
\* one has the first of them.
Covered(i) ==
    \A j \in MAX_SEGMENTS..i : \E u \in Callers : table_pc[u] \in InFlight /\ new_index[u] = j

\* The same after a step, of an index before it.
CoveredNext(i) ==
    \A j \in MAX_SEGMENTS'..i : \E u \in Callers : table_pc'[u] \in InFlight /\ new_index'[u] = j

\* Who grows the arrays, or waits to, is alone, and what others index is there.
Undisturbed ==
    /\ \A t \in Callers : table_pc[t] \in Growing \cup {"wait"} => Table!Alone(t)
    /\ \A t \in Callers :
          /\ table_pc[t] \in {"unlock", "new", "store", "lookup", "mark"} => new_index[t] < MAX_SEGMENTS
          /\ table_pc[t] \in {"wait", "grow", "assign", "double"} => new_index[t] < 2 * MAX_SEGMENTS
          /\ table_pc[t] \in {"store", "lookup", "mark"} => base[t] = member[array[t]]
          /\ table_pc[t] = "fetched" => Covered(new_index[t])
    /\ Covered(n_segments - 1)
    /\ \A s \in returned : s[1] < MAX_SEGMENTS

Has(a, i, e) == buffers[a][Current(a)].entry[i] = e

\* As long as there are indexes left: the call's number is its index, and the
\* entries are there from when they are stored.
Leading ==
    /\ n_segments = IF calls + 1 = IndexRange THEN 0 ELSE calls + 1
    /\ \A s \in returned : s[1] = s[2]
    /\ \A i \in freed : <<i, i>> \in returned
    /\ \A t \in Callers : table_pc[t] \in Allocating =>
          /\ name[t] = new_index[t] /\ name[t] # 0
          /\ <<name[t], name[t]>> \notin returned
          /\ \A u \in Callers : u # t /\ table_pc[u] \in Allocating => name[u] # name[t]
          /\ array[t] = "segment_status" /\ table_pc[t] \in {"new", "store"} =>
                Has("segments", new_index[t], name[t])
    /\ \A t \in Callers : table_pc[t] = "mark" => <<new_index[t], new_index[t]>> \in returned
    /\ \A s \in returned :
          /\ Has("segments", s[1], s[2])
          /\ Has("segment_status", s[1], IF s[1] \in freed THEN Table!TO_BE_DELETED ELSE Table!IN_USE)

TableInv ==
    /\ TableTypes /\ Heap /\ Calls /\ Sized
    /\ ~disturbed => Undisturbed
    /\ ~disturbed /\ calls < IndexRange => Leading

-----------------------------------------------------------------------------
LEMMA TableFirst == Table!Init => TableInv
<1> SUFFICES ASSUME Table!Init PROVE TableInv
  OBVIOUS
<1> USE DEF Table!Init, Table!Arrays, Table!Size, Table!Garbage, Table!ABSENT, Table!IN_USE,
            Table!TO_BE_DELETED, Table!NoBuffer
<1>1. TableTypes
  <2>1. 1 \in 0..(IndexRange - 1) /\ 0 \in 0..(IndexRange - 1) OBVIOUS
  <2>2. returned \subseteq (0..(IndexRange - 1)) \X (0..calls) BY <2>1
  <2>3. disturbed \in BOOLEAN BY Zenon
  <2> QED BY <2>1, <2>2, <2>3 DEF TableTypes
<1>2. /\ member = [a \in Table!Arrays |-> 1]
      /\ DOMAIN buffers = Table!Arrays
      /\ \A a \in Table!Arrays :
            /\ DOMAIN buffers[a] = {1}
            /\ DOMAIN buffers[a][1] = {"live", "entry"}
            /\ buffers[a][1].live = TRUE
            /\ DOMAIN buffers[a][1].entry = 0..(InitialSegments - 1)
      /\ \A i \in 0..(InitialSegments - 1) :
            /\ buffers["segments"][1].entry[i] = IF i = 0 THEN 0 ELSE Table!Garbage
            /\ buffers["segment_status"][1].entry[i] = IF i = 0 THEN Table!IN_USE ELSE Table!ABSENT
  OBVIOUS
<1>3. Heap
  <2>1. {1} = 1..1 /\ calls = 0 OBVIOUS
  <2>2. ASSUME NEW a \in Table!Arrays, NEW i \in 0..(InitialSegments - 1)
        PROVE  buffers[a][1].entry[i] \in EntryTypes(a)
    <3>1. 0 \in 0..calls BY <2>1
    <3>2. a = "segments" \/ a = "segment_status" OBVIOUS
    <3>3. CASE a = "segments" BY <1>2, <3>1, <3>3 DEF EntryTypes
    <3>4. CASE a = "segment_status" BY <1>2, <3>4 DEF EntryTypes
    <3> QED BY <3>2, <3>3, <3>4
  <2>3. member \in [Table!Arrays -> Nat] BY <1>2
  <2>4. ASSUME NEW a \in Table!Arrays
        PROVE  /\ \E n \in Nat : DOMAIN buffers[a] = 1..n
               /\ member[a] \in DOMAIN buffers[a]
               /\ \A b \in DOMAIN buffers[a] :
                     /\ DOMAIN buffers[a][b] = {"live", "entry"}
                     /\ buffers[a][b].live \in BOOLEAN
                     /\ \A i \in DOMAIN buffers[a][b].entry : buffers[a][b].entry[i] \in EntryTypes(a)
    <3>1. DOMAIN buffers[a] = {1} /\ DOMAIN buffers[a] = 1..1 BY <1>2, <2>1
    <3>2. buffers[a][1].live \in BOOLEAN BY <1>2, Zenon
    <3>3. member[a] = 1 BY <1>2
    <3> QED BY <1>2, <2>2, <3>1, <3>2, <3>3
  <2> QED BY <1>2, <2>3, <2>4 DEF Heap
<1>4. Calls BY CallersAssumption DEF Calls, Growing
<1>5. allocating_lock = Nobody /\ \A a \in Table!Arrays : Current(a) = 1 /\ Capacity(a) = InitialSegments
  BY <1>2 DEF Current, Capacity, Assigning, Larger
<1>6. Sized BY <1>2, <1>5 DEF Sized
<1>7. Undisturbed
  <2>1. \A s \in returned : s[1] < MAX_SEGMENTS OBVIOUS
  <2>2. Covered(n_segments - 1) BY DEF Covered
  <2> QED BY <2>1, <2>2 DEF Undisturbed, Growing
<1>8. Leading
  <2>1. returned = {<<0, 0>>} /\ freed = {} /\ calls = 0 /\ n_segments = 1 OBVIOUS
  <2>2. Has("segments", 0, 0) /\ Has("segment_status", 0, Table!IN_USE)
    <3>1. 0 \in 0..(InitialSegments - 1) OBVIOUS
    <3>2. Current("segments") = 1 /\ Current("segment_status") = 1 BY <1>5
    <3> QED BY <1>2, <3>1, <3>2 DEF Has
  <2>3. \A t \in Callers : table_pc[t] = "out" OBVIOUS
  <2> QED BY <2>1, <2>2, <2>3 DEF Leading, Allocating, Growing
<1> QED BY <1>1, <1>3, <1>4, <1>6, <1>7, <1>8 DEF TableInv

\* A call that does not have the lock leaves the buffers and their sizes as they are.
LEMMA TableFrame ==
    ASSUME TableTypes, Calls, NEW t \in Callers, table_pc[t] \notin Growing,
           UNCHANGED <<member, allocating_lock, MAX_SEGMENTS>>,
           \A u \in Callers \ {t} :
              table_pc'[u] = table_pc[u] /\ array'[u] = array[u] /\ base'[u] = base[u]
    PROVE  \A a \in Table!Arrays : Current(a)' = Current(a) /\ Capacity(a)' = Capacity(a)
<1>1. allocating_lock # t BY DEF Calls
<1>2. CASE allocating_lock = Nobody BY <1>2 DEF Current, Capacity, Assigning, Larger
<1>3. CASE allocating_lock \in Callers \ {t} BY <1>3 DEF Current, Capacity, Assigning, Larger
<1> QED BY <1>1, <1>2, <1>3 DEF TableTypes

LEMMA SizedFrame ==
    ASSUME Sized, \A a \in Table!Arrays : Current(a)' = Current(a) /\ Capacity(a)' = Capacity(a),
           \A a \in Table!Arrays :
              /\ DOMAIN buffers'[a] = DOMAIN buffers[a]
              /\ \A b \in DOMAIN buffers[a] :
                    /\ buffers'[a][b].live = buffers[a][b].live
                    /\ DOMAIN buffers'[a][b].entry = DOMAIN buffers[a][b].entry
    PROVE  Sized'
BY DEF Sized

-----------------------------------------------------------------------------
(* The steps of a call without the lock *)

LEMMA FetchIndexStep ==
    ASSUME TableInv, NEW t \in Callers, Table!FetchIndex(t)
    PROVE  TableInv'
<1> USE DEF TableInv, Table!FetchIndex, Table!Go
<1>0. table_pc[t] = "out" /\ table_pc[t] \notin Growing BY DEF Growing
<1>1. n_segments' \in 0..(IndexRange - 1)
      /\ (n_segments + 1 # IndexRange => n_segments' = n_segments + 1)
      /\ (n_segments + 1 = IndexRange => n_segments' = 0)
  BY DEF TableTypes
<1>2. calls' \in 0..MaxAllocations /\ 0..calls \subseteq 0..calls' /\ calls' = calls + 1
  BY DEF TableTypes
<1>3. TableTypes'
  <2>1. table_pc' \in [Callers -> Allocating \cup {"out", "lookup", "mark"}]
        /\ new_index' \in [Callers -> 0..(IndexRange - 1)]
    BY DEF TableTypes, Allocating
  <2>2. name' \in [Callers -> 0..calls']
    <3>1. calls + 1 \in 0..calls' BY <1>2
    <3> QED BY <1>2, <3>1 DEF TableTypes
  <2>3. returned' \subseteq (0..(IndexRange - 1)) \X (0..calls') BY <1>2 DEF TableTypes
  <2>4. disturbed' \in BOOLEAN BY Zenon DEF TableTypes
  <2> QED BY <1>1, <1>2, <2>1, <2>2, <2>3, <2>4 DEF TableTypes
<1>4. /\ table_pc'[t] = "fetched" /\ new_index'[t] = n_segments /\ name'[t] = calls + 1
      /\ \A u \in Callers \ {t} :
            table_pc'[u] = table_pc[u] /\ new_index'[u] = new_index[u] /\ name'[u] = name[u]
      /\ UNCHANGED <<array, base, member, buffers, allocating_lock, MAX_SEGMENTS, returned, freed>>
  BY DEF TableTypes
<1>5. Heap'
  <2>1. \A a : \A e \in EntryTypes(a) : e \in EntryTypes(a)' BY <1>2 DEF EntryTypes
  <2> QED BY <1>4, <2>1 DEF Heap
<1>6. Calls' BY <1>0, <1>4 DEF Calls, Growing
<1>7. Sized'
  <2>1. \A a \in Table!Arrays : Current(a)' = Current(a) /\ Capacity(a)' = Capacity(a)
    BY <1>0, <1>4, TableFrame
  <2> QED BY <1>4, <2>1, SizedFrame
<1>8. ASSUME ~disturbed' PROVE Undisturbed' /\ ~disturbed
  <2>1. ~disturbed /\ Table!NoGrowth
    <3>1. disturbed' = (disturbed \/ ~Table!NoGrowth) BY Zenon
    <3> HIDE DEF TableInv, Table!FetchIndex
    <3> QED BY <1>8, <3>1, Zenon
  <2>2. MAX_SEGMENTS \in Nat \ {0} /\ n_segments \in Nat BY DEF TableTypes
  <2>3. \A u \in Callers : table_pc[u] \notin Growing \cup {"wait"}
    BY <2>1 DEF Table!NoGrowth, Growing
  <2>4. Undisturbed BY <2>1
  <2> HIDE DEF TableInv, Table!FetchIndex, Table!Go
  <2>5. ASSUME NEW i \in Int, Covered(i) PROVE CoveredNext(i)
    <3>1. \A u \in Callers : table_pc[u] \in InFlight =>
             table_pc'[u] \in InFlight /\ new_index'[u] = new_index[u]
      BY <1>0, <1>4 DEF InFlight
    <3> QED BY <1>4, <2>5, <3>1 DEF Covered, CoveredNext
  <2>6. CoveredNext(n_segments)
    <3> SUFFICES ASSUME NEW j \in MAX_SEGMENTS..n_segments
                 PROVE  \E u \in Callers : table_pc'[u] \in InFlight /\ new_index'[u] = j
      BY <1>4 DEF CoveredNext
    <3>1. CASE j = n_segments BY <1>4, <3>1 DEF InFlight
    <3>2. CASE j # n_segments
      <4>1. CoveredNext(n_segments - 1) BY <2>2, <2>4, <2>5 DEF Undisturbed
      <4>2. j \in MAX_SEGMENTS..(n_segments - 1) BY <2>2, <3>2
      <4> QED BY <1>4, <4>1, <4>2 DEF CoveredNext
    <3> QED BY <3>1, <3>2
  <2>7. CoveredNext(n_segments' - 1)
    <3>1. CASE n_segments' = 0 BY <1>4, <2>2, <3>1 DEF CoveredNext
    <3>2. CASE n_segments' = n_segments + 1 BY <2>2, <2>6, <3>2
    <3> QED BY <1>1, <3>1, <3>2
  <2>8. ASSUME NEW u \in Callers, table_pc'[u] = "fetched" PROVE CoveredNext(new_index'[u])
    <3>1. CASE u = t BY <1>4, <2>6, <3>1
    <3>2. CASE u # t
      <4>1. Covered(new_index[u]) /\ new_index[u] \in Int
        BY <1>4, <2>4, <2>8, <3>2 DEF Undisturbed, TableInv, TableTypes
      <4> QED BY <1>4, <2>5, <3>2, <4>1
    <3> QED BY <3>1, <3>2
  <2> QED BY <1>4, <2>1, <2>3, <2>4, <2>7, <2>8 DEF Undisturbed, Covered, CoveredNext, Growing
<1>9. ASSUME ~disturbed, calls' < IndexRange PROVE Leading'
  <2>1. Leading /\ calls \in Nat /\ n_segments = calls + 1 BY <1>2, <1>9 DEF Leading, TableTypes
  <2>2. n_segments' = IF calls' + 1 = IndexRange THEN 0 ELSE calls' + 1 BY <1>1, <1>2, <2>1
  <2>3. \A s \in returned : s[2] \in 0..calls BY DEF TableTypes
  <2>4. \A u \in Callers : name[u] \in 0..calls BY DEF TableTypes
  <2>5. <<calls + 1, calls + 1>> \notin returned BY <2>1, <2>3
  <2>6. \A a, i, e : Has(a, i, e)' <=> Has(a, i, e)
    <3>1. \A a : Current(a)' = Current(a)
      <4>1. allocating_lock # t BY <1>0 DEF Calls
      <4>2. CASE allocating_lock = Nobody BY <1>4, <4>2 DEF Current, Assigning
      <4>3. CASE allocating_lock \in Callers \ {t} BY <1>4, <4>3 DEF Current, Assigning
      <4> QED BY <4>1, <4>2, <4>3 DEF TableTypes
    <3> QED BY <1>4, <3>1 DEF Has
  <2>7. array[t] = "segments" BY <1>0 DEF Calls
  <2> QED BY <1>0, <1>4, <2>1, <2>2, <2>4, <2>5, <2>6, <2>7 DEF Leading
<1> QED BY <1>2, <1>3, <1>5, <1>6, <1>7, <1>8, <1>9 DEF TableTypes

\* Nobody grows the arrays, nor waits to.
Calm == \A u \in Callers : table_pc[u] \notin Growing \cup {"wait"}

\* A step that changes the locals of a call without the lock, and nothing else.
LEMMA LocalStep ==
    ASSUME TableInv, NEW t \in Callers, table_pc[t] \notin Growing,
           UNCHANGED <<n_segments, MAX_SEGMENTS, member, allocating_lock, buffers,
                       calls, returned, freed>>,
           NEW to \in {"out", "new", "store", "lookup", "mark"}, NEW a \in Table!Arrays,
           NEW b \in Nat, NEW i \in 0..(IndexRange - 1), NEW k \in 0..calls,
           table_pc' = [table_pc EXCEPT ![t] = to], array' = [array EXCEPT ![t] = a],
           base' = [base EXCEPT ![t] = b], new_index' = [new_index EXCEPT ![t] = i],
           name' = [name EXCEPT ![t] = k], disturbed' \in BOOLEAN,
           to \in {"out", "lookup"} => a = "segments",
           to = "mark" => a = "segment_status",
           to = "out" => b = Table!NoBuffer,
           to \in {"store", "lookup", "mark"} => b \in DOMAIN buffers[a],
           ~disturbed' =>
              /\ ~disturbed /\ Calm
              /\ table_pc[t] = "fetched" => new_index[t] < MAX_SEGMENTS
              /\ to # "out" => i < MAX_SEGMENTS
              /\ to \in {"store", "lookup", "mark"} => b = member[a],
           ~disturbed /\ calls < IndexRange /\ Calm =>
              /\ to = "mark" => <<i, i>> \in returned
              /\ to \in {"new", "store"} =>
                    /\ table_pc[t] \in {"fetched", "new", "store"}
                    /\ k = name[t] /\ i = new_index[t] /\ a = array[t]
    PROVE  TableInv'
<1> USE DEF TableInv
<1>1. /\ table_pc'[t] = to /\ array'[t] = a /\ base'[t] = b /\ new_index'[t] = i /\ name'[t] = k
      /\ \A u \in Callers \ {t} :
            /\ table_pc'[u] = table_pc[u] /\ array'[u] = array[u] /\ base'[u] = base[u]
            /\ new_index'[u] = new_index[u] /\ name'[u] = name[u]
  BY DEF TableTypes
<1>2. TableTypes'
  <2>1. /\ table_pc' \in [Callers -> Allocating \cup {"out", "lookup", "mark"}]
        /\ array' \in [Callers -> Table!Arrays] /\ base' \in [Callers -> Nat]
        /\ new_index' \in [Callers -> 0..(IndexRange - 1)] /\ name' \in [Callers -> 0..calls']
    BY DEF TableTypes, Allocating
  <2> QED BY <2>1 DEF TableTypes
<1>3. Heap'
  <2>1. \A x : EntryTypes(x)' = EntryTypes(x) BY DEF EntryTypes
  <2> QED BY <2>1 DEF Heap
<1>4. Calls' BY <1>1 DEF Calls, Growing
<1>5. \A x \in Table!Arrays : Current(x)' = Current(x) /\ Capacity(x)' = Capacity(x)
  BY <1>1, TableFrame
<1>6. Sized' BY <1>5, SizedFrame
<1>7. ASSUME ~disturbed' PROVE Undisturbed'
  <2>1. ~disturbed /\ Calm /\ Undisturbed BY <1>7
  <2>2. \A n \in Int : Covered(n) => CoveredNext(n)
    <3>1. \A u \in Callers : table_pc[u] \in InFlight /\ new_index[u] >= MAX_SEGMENTS =>
             table_pc'[u] \in InFlight /\ new_index'[u] = new_index[u]
      <4>1. \A u \in Callers \ {t} : table_pc'[u] = table_pc[u] /\ new_index'[u] = new_index[u] BY <1>1
      <4>2. table_pc[t] \in InFlight => table_pc[t] = "fetched"
        BY <2>1 DEF Calm, InFlight, Growing
      <4>3. table_pc[t] = "fetched" => new_index[t] < MAX_SEGMENTS BY <1>7
      <4>4. new_index[t] \in Nat /\ MAX_SEGMENTS \in Nat BY DEF TableTypes
      <4> QED BY <4>1, <4>2, <4>3, <4>4
    <3> HIDE DEF TableInv
    <3> QED BY <3>1 DEF Covered, CoveredNext
  <2>3. Calm' BY <1>1, <2>1 DEF Calm, Growing
  <2>4. \A s \in returned' : s[1] < MAX_SEGMENTS' BY <2>1 DEF Undisturbed
  <2>5. to # "out" => i < MAX_SEGMENTS BY <1>7
  <2>6. to \in {"store", "lookup", "mark"} => b = member[a] BY <1>7
  <2>7. ASSUME NEW u \in Callers
        PROVE  /\ table_pc'[u] \in {"unlock", "new", "store", "lookup", "mark"} =>
                     new_index'[u] < MAX_SEGMENTS'
               /\ table_pc'[u] \in {"wait", "grow", "assign", "double"} =>
                     new_index'[u] < 2 * MAX_SEGMENTS'
               /\ table_pc'[u] \in {"store", "lookup", "mark"} => base'[u] = member'[array'[u]]
               /\ table_pc'[u] = "fetched" => CoveredNext(new_index'[u])
    <3>1. CASE u = t BY <1>1, <2>5, <2>6, <3>1
    <3>2. CASE u # t
      <4>1. table_pc[u] = "fetched" => Covered(new_index[u]) BY <2>1 DEF Undisturbed
      <4>2. new_index[u] \in Int BY DEF TableTypes
      <4>3. table_pc[u] = "fetched" => CoveredNext(new_index[u]) BY <2>2, <4>1, <4>2
      <4> QED BY <1>1, <2>1, <3>2, <4>3 DEF Undisturbed
    <3> QED BY <3>1, <3>2
  <2>8. CoveredNext(n_segments' - 1)
    <3>1. Covered(n_segments - 1) /\ n_segments - 1 \in Int BY <2>1 DEF Undisturbed, TableTypes
    <3> QED BY <1>1, <2>2, <3>1
  <2> QED BY <2>3, <2>4, <2>7, <2>8 DEF Undisturbed, Covered, CoveredNext, Calm
<1>8. ASSUME ~disturbed', calls' < IndexRange PROVE Leading'
  <2>1. ~disturbed /\ calls < IndexRange /\ Calm /\ Leading BY <1>8
  <2>2. \A x \in Table!Arrays : \A y, z : Has(x, y, z)' <=> Has(x, y, z) BY <1>5 DEF Has
  <2>3. "segments" \in Table!Arrays /\ "segment_status" \in Table!Arrays BY DEF Table!Arrays
  <2>4. /\ to = "mark" => <<i, i>> \in returned
        /\ to \in {"new", "store"} =>
              /\ table_pc[t] \in {"fetched", "new", "store"}
              /\ k = name[t] /\ i = new_index[t] /\ a = array[t]
    BY <2>1
  <2>5. \A u \in Callers : table_pc'[u] \in Allocating =>
          /\ table_pc[u] \in Allocating
          /\ name'[u] = name[u] /\ new_index'[u] = new_index[u] /\ array'[u] = array[u]
          /\ array'[u] = "segment_status" /\ table_pc'[u] \in {"new", "store"} =>
                table_pc[u] \in {"new", "store"}
    BY <1>1, <2>4 DEF Allocating, Growing, Calls
  <2>6. \A u \in Callers : table_pc'[u] \in Allocating =>
          /\ name'[u] = new_index'[u] /\ name'[u] # 0
          /\ <<name'[u], name'[u]>> \notin returned'
          /\ \A x \in Callers : x # u /\ table_pc'[x] \in Allocating => name'[x] # name'[u]
          /\ array'[u] = "segment_status" /\ table_pc'[u] \in {"new", "store"} =>
                Has("segments", new_index'[u], name'[u])
    <3> SUFFICES ASSUME NEW u \in Callers, table_pc'[u] \in Allocating
                 PROVE  /\ name'[u] = new_index'[u] /\ name'[u] # 0
                        /\ <<name'[u], name'[u]>> \notin returned'
                        /\ \A x \in Callers : x # u /\ table_pc'[x] \in Allocating => name'[x] # name'[u]
                        /\ array'[u] = "segment_status" /\ table_pc'[u] \in {"new", "store"} =>
                              Has("segments", new_index'[u], name'[u])
      OBVIOUS
    <3>1. /\ table_pc[u] \in Allocating
          /\ name'[u] = name[u] /\ new_index'[u] = new_index[u] /\ array'[u] = array[u]
      BY <2>5
    <3>2. array'[u] = "segment_status" /\ table_pc'[u] \in {"new", "store"} =>
             table_pc[u] \in {"new", "store"}
      BY <2>5
    <3>3. \A x \in Callers : table_pc'[x] \in Allocating => table_pc[x] \in Allocating /\ name'[x] = name[x]
      BY <2>5
    <3> QED BY <2>1, <3>1, <3>2, <3>3 DEF Leading
  <2>7. \A u \in Callers : table_pc'[u] = "mark" => <<new_index'[u], new_index'[u]>> \in returned
    BY <1>1, <2>1, <2>4 DEF Leading
  <2>8. /\ n_segments' = IF calls' + 1 = IndexRange THEN 0 ELSE calls' + 1
        /\ \A s \in returned' : s[1] = s[2]
        /\ \A j \in freed' : <<j, j>> \in returned'
    BY <2>1 DEF Leading
  <2>9. \A s \in returned' :
          /\ Has("segments", s[1], s[2])
          /\ Has("segment_status", s[1], IF s[1] \in freed' THEN Table!TO_BE_DELETED ELSE Table!IN_USE)
    BY <2>1 DEF Leading
  <2>10. \A y, z : (Has("segments", y, z)' <=> Has("segments", y, z))
                   /\ (Has("segment_status", y, z)' <=> Has("segment_status", y, z))
    BY <2>2, <2>3
  <2> HIDE DEF TableInv
  <2> QED BY <2>6, <2>7, <2>8, <2>9, <2>10 DEF Leading
<1> QED BY <1>2, <1>3, <1>4, <1>6, <1>7, <1>8

\* A call beyond the table that does not wait for its growth: never alone.
LEMMA GiveUpWaitingStep ==
    ASSUME TableInv, NEW t \in Callers, Table!GiveUpWaiting(t)
    PROVE  TableInv'
<1> USE DEF TableInv, Table!GiveUpWaiting, Table!Go
<1>1. table_pc[t] = "wait" /\ allocating_lock # Nobody OBVIOUS
<1>2. disturbed
  <2> SUFFICES ASSUME ~disturbed PROVE FALSE
    OBVIOUS
  <2>1. Table!Alone(t) BY <1>1 DEF Undisturbed
  <2>2. PICK u \in Callers : allocating_lock = u BY <1>1 DEF TableTypes
  <2>3. table_pc[u] \in Growing BY <2>2 DEF Calls
  <2>4. u # t /\ table_pc[u] # "out" BY <1>1, <2>3 DEF Growing
  <2> QED BY <2>1, <2>4 DEF Table!Alone
<1>3. disturbed' /\ disturbed' \in BOOLEAN
  <2>1. disturbed' = disturbed BY DEF Table!past, Table!vars
  <2>2. disturbed \in BOOLEAN BY Zenon DEF TableTypes
  <2> HIDE DEF TableInv, Table!GiveUpWaiting, Table!Go
  <2> QED BY <1>2, <2>1, <2>2, Zenon
<1>4. /\ array' = [array EXCEPT ![t] = array[t]] /\ base' = [base EXCEPT ![t] = base[t]]
      /\ new_index' = [new_index EXCEPT ![t] = new_index[t]] /\ name' = [name EXCEPT ![t] = name[t]]
  BY DEF TableTypes
<1>5. /\ array[t] \in Table!Arrays /\ base[t] \in Nat /\ name[t] \in 0..calls
      /\ new_index[t] \in 0..(IndexRange - 1)
  BY DEF TableTypes
<1>6. UNCHANGED <<n_segments, MAX_SEGMENTS, member, allocating_lock, buffers, calls, returned, freed>>
  BY DEF Table!table, Table!past
<1>7. ~Calm BY <1>1 DEF Calm
<1> HIDE DEF TableInv
<1>8. table_pc' = [table_pc EXCEPT ![t] = "new"] OBVIOUS
<1>9. table_pc[t] \notin Growing BY <1>1 DEF Growing
<1> HIDE DEF Table!GiveUpWaiting, Table!Go
<1> QED BY <1>3, <1>4, <1>5, <1>6, <1>7, <1>8, <1>9, LocalStep

\* Who is not out is not beside a growth.
LEMMA InsideCalm ==
    ASSUME TableInv, ~disturbed, NEW t \in Callers,
           table_pc[t] \in {"fetched", "new", "store", "lookup", "mark"}
    PROVE  Calm
BY DEF TableInv, Undisturbed, Calm, Table!Alone, Growing

LEMMA CalmCurrent ==
    ASSUME TableInv, Calm
    PROVE  /\ allocating_lock = Nobody
           /\ \A a \in Table!Arrays : Current(a) = member[a] /\ Capacity(a) = MAX_SEGMENTS
<1>1. allocating_lock = Nobody BY DEF TableInv, TableTypes, Calls, Calm
<1> QED BY <1>1 DEF Current, Capacity, Assigning, Larger

LEMMA LoadTableStep ==
    ASSUME TableInv, NEW t \in Callers, Table!LoadTable(t)
    PROVE  TableInv'
<1> USE DEF Table!LoadTable, Table!Go
<1>1. /\ table_pc[t] = "new" /\ table_pc' = [table_pc EXCEPT ![t] = "store"]
      /\ base' = [base EXCEPT ![t] = member[array[t]]]
  OBVIOUS
<1>2. UNCHANGED <<n_segments, MAX_SEGMENTS, member, allocating_lock, buffers, calls, returned, freed,
                  array, new_index, name, disturbed>>
  BY DEF Table!table, Table!past
<1> HIDE DEF Table!LoadTable, Table!Go
<1>3. /\ array' = [array EXCEPT ![t] = array[t]]
      /\ new_index' = [new_index EXCEPT ![t] = new_index[t]] /\ name' = [name EXCEPT ![t] = name[t]]
  BY <1>2 DEF TableInv, TableTypes
<1>4. /\ array[t] \in Table!Arrays /\ name[t] \in 0..calls
      /\ new_index[t] \in 0..(IndexRange - 1)
  BY DEF TableInv, TableTypes
<1>5. member[array[t]] \in Nat /\ member[array[t]] \in DOMAIN buffers[array[t]]
  BY <1>4 DEF TableInv, Heap
<1>6. disturbed' \in BOOLEAN BY <1>2, Zenon DEF TableInv, TableTypes
<1>7. ~disturbed' => ~disturbed /\ Calm /\ new_index[t] < MAX_SEGMENTS
  <2> SUFFICES ASSUME ~disturbed PROVE Calm /\ new_index[t] < MAX_SEGMENTS
    BY <1>2
  <2>1. Calm BY <1>1, InsideCalm
  <2> QED BY <1>1, <2>1 DEF TableInv, Undisturbed
<1>8. table_pc[t] \notin Growing BY <1>1 DEF Growing
<1>9. UNCHANGED <<n_segments, MAX_SEGMENTS, member, allocating_lock, buffers, calls, returned, freed>>
  BY <1>2
<1> QED BY <1>1, <1>3, <1>4, <1>5, <1>6, <1>7, <1>8, <1>9, LocalStep

LEMMA IndexStep ==
    ASSUME TableInv, NEW t \in Callers, NEW i,
           Table!Index(t, i, "segments", "lookup") \/ Table!Index(t, i, "segment_status", "mark")
    PROVE  TableInv'
<1>1. PICK a \in Table!Arrays, to \in {"lookup", "mark"} :
         Table!Index(t, i, a, to) /\ (to = "lookup" => a = "segments") /\ (to = "mark" => a = "segment_status")
  BY DEF Table!Arrays
<1> USE DEF Table!Index, Table!Go, Table!Turn
<1>2. PICK s \in 0..calls : <<i, s>> \in returned BY <1>1
<1>3. /\ table_pc[t] = "out" /\ table_pc' = [table_pc EXCEPT ![t] = to]
      /\ base' = [base EXCEPT ![t] = member[a]] /\ array' = [array EXCEPT ![t] = a]
      /\ new_index' = [new_index EXCEPT ![t] = i]
      /\ disturbed' = (disturbed \/ ~Table!NoGrowth)
  BY <1>1, Zenon
<1>4. UNCHANGED <<n_segments, MAX_SEGMENTS, member, allocating_lock, buffers, calls, returned, freed, name>>
  BY <1>1 DEF Table!table, Table!past
<1> HIDE DEF Table!Index, Table!Go, Table!Turn
<1>5. name' = [name EXCEPT ![t] = name[t]] /\ name[t] \in 0..calls
  BY <1>4 DEF TableInv, TableTypes
<1>6. i \in 0..(IndexRange - 1) BY <1>2 DEF TableInv, TableTypes
<1>7. member[a] \in Nat /\ member[a] \in DOMAIN buffers[a] BY DEF TableInv, Heap
<1>8. disturbed' \in BOOLEAN BY <1>3, Zenon DEF TableInv, TableTypes
<1>9. ~disturbed' => ~disturbed /\ Calm /\ i < MAX_SEGMENTS
  <2> SUFFICES ASSUME ~disturbed' PROVE ~disturbed /\ Calm /\ i < MAX_SEGMENTS
    OBVIOUS
  <2>1. ~disturbed /\ Table!NoGrowth BY <1>3, Zenon
  <2>2. Calm BY <1>3, <2>1 DEF Calm, Table!NoGrowth, Growing
  <2> QED BY <1>2, <2>1, <2>2 DEF TableInv, Undisturbed
<1>10. table_pc[t] \notin Growing BY <1>3 DEF Growing
<1>11. ~disturbed /\ calls < IndexRange => <<i, i>> \in returned BY <1>2 DEF TableInv, Leading
<1> QED BY <1>1, <1>3, <1>4, <1>5, <1>6, <1>7, <1>8, <1>9, <1>10, <1>11, LocalStep

LEMMA LookupEntryStep ==
    ASSUME TableInv, NEW t \in Callers, Table!LookupEntry(t)
    PROVE  TableInv'
<1> USE DEF Table!LookupEntry, Table!Done, Table!Go, Table!Turn
<1>1. /\ table_pc[t] = "lookup" /\ table_pc' = [table_pc EXCEPT ![t] = "out"]
      /\ base' = [base EXCEPT ![t] = Table!NoBuffer] /\ array' = [array EXCEPT ![t] = "segments"]
      /\ new_index' = [new_index EXCEPT ![t] = 0] /\ name' = [name EXCEPT ![t] = 0]
  OBVIOUS
<1>2. UNCHANGED <<n_segments, MAX_SEGMENTS, member, allocating_lock, buffers, calls, returned, freed,
                  disturbed>>
  BY DEF Table!table, Table!past
<1> HIDE DEF Table!LookupEntry, Table!Done, Table!Go, Table!Turn
<1>3. 0 \in 0..calls /\ 0 \in 0..(IndexRange - 1) BY DEF TableInv, TableTypes
<1>4. Table!NoBuffer \in Nat /\ "segments" \in Table!Arrays BY DEF Table!NoBuffer, Table!Arrays
<1>5. disturbed' \in BOOLEAN BY <1>2, Zenon DEF TableInv, TableTypes
<1>6. ~disturbed' => ~disturbed /\ Calm BY <1>1, <1>2, InsideCalm
<1>7. table_pc[t] \notin Growing BY <1>1 DEF Growing
<1> QED BY <1>1, <1>2, <1>3, <1>4, <1>5, <1>6, <1>7, LocalStep

\* To wait, or to go on; who waits undisturbed has the first index beyond the table.
LEMMA CompareMaximumStep ==
    ASSUME TableInv, NEW t \in Callers, Table!CompareMaximum(t)
    PROVE  TableInv'
<1>0. UNCHANGED <<n_segments, MAX_SEGMENTS, member, allocating_lock, buffers, calls, returned, freed,
                  array, new_index, base, name>>
  BY DEF Table!CompareMaximum, Table!table, Table!past
<1>1. /\ table_pc[t] = "fetched"
      /\ array[t] \in Table!Arrays /\ base[t] \in Nat /\ name[t] \in 0..calls
      /\ new_index[t] \in 0..(IndexRange - 1) /\ MAX_SEGMENTS \in Nat \ {0}
  BY DEF Table!CompareMaximum, TableInv, TableTypes
<1>2. disturbed \in BOOLEAN BY Zenon DEF TableInv, TableTypes
<1>3. table_pc[t] \notin Growing BY <1>1 DEF Growing
<1>4. CASE /\ new_index[t] < MAX_SEGMENTS /\ disturbed' = disturbed
           /\ table_pc' = [table_pc EXCEPT ![t] = "new"]
  <2>1. disturbed' \in BOOLEAN BY <1>2, <1>4, Zenon
  <2>2. /\ array' = [array EXCEPT ![t] = array[t]] /\ base' = [base EXCEPT ![t] = base[t]]
        /\ new_index' = [new_index EXCEPT ![t] = new_index[t]] /\ name' = [name EXCEPT ![t] = name[t]]
    BY <1>0 DEF TableInv, TableTypes
  <2>3. ~disturbed' => ~disturbed /\ Calm BY <1>1, <1>4, InsideCalm
  <2>4. UNCHANGED <<n_segments, MAX_SEGMENTS, member, allocating_lock, buffers, calls, returned, freed>>
    BY <1>0
  <2> QED BY <1>1, <1>3, <1>4, <2>1, <2>2, <2>3, <2>4, LocalStep
<1>5. CASE /\ new_index[t] >= MAX_SEGMENTS /\ disturbed' = (disturbed \/ ~Table!Alone(t))
           /\ table_pc' = [table_pc EXCEPT ![t] = "wait"]
  <2>1. table_pc'[t] = "wait" /\ \A u \in Callers \ {t} : table_pc'[u] = table_pc[u]
    BY <1>5 DEF TableInv, TableTypes
  <2>2. TableTypes'
    <3>1. disturbed' \in BOOLEAN BY <1>5, Zenon
    <3>2. table_pc' \in [Callers -> Allocating \cup {"out", "lookup", "mark"}]
      BY <1>5 DEF TableInv, TableTypes, Allocating
    <3> QED BY <1>0, <3>1, <3>2 DEF TableInv, TableTypes
  <2>3. Heap'
    <3>1. \A x : EntryTypes(x)' = EntryTypes(x) BY <1>0 DEF EntryTypes
    <3> QED BY <1>0, <3>1 DEF TableInv, Heap
  <2>4. Calls' BY <1>0, <1>1, <2>1 DEF TableInv, Calls, Growing
  <2>5. \A x \in Table!Arrays : Current(x)' = Current(x) /\ Capacity(x)' = Capacity(x)
    BY <1>0, <1>3, <2>1, TableFrame DEF TableInv
  <2>6. Sized' BY <1>0, <2>5, SizedFrame DEF TableInv
  <2>7. ASSUME ~disturbed' PROVE Undisturbed'
    <3>1. ~disturbed /\ Table!Alone(t) BY <1>5, <2>7, Zenon
    <3>2. Undisturbed /\ \A u \in Callers \ {t} : table_pc[u] = "out"
      BY <3>1 DEF TableInv, Table!Alone
    <3>3. new_index[t] = MAX_SEGMENTS
      <4>1. Covered(new_index[t]) BY <1>1, <3>2 DEF Undisturbed
      <4>2. MAX_SEGMENTS \in MAX_SEGMENTS..new_index[t] BY <1>1, <1>5
      <4> QED BY <3>2, <4>1, <4>2 DEF Covered, InFlight
    <3>4. Covered(n_segments - 1)'
      <4>1. \A u \in Callers : table_pc[u] \in InFlight => table_pc'[u] \in InFlight
        BY <2>1 DEF InFlight
      <4> QED BY <1>0, <3>2, <4>1 DEF Undisturbed, Covered
    <3>5. new_index'[t] < 2 * MAX_SEGMENTS' BY <1>0, <1>1, <3>3
    <3>6. Table!Alone(t)' BY <2>1, <3>2 DEF Table!Alone
    <3> QED BY <1>0, <2>1, <3>2, <3>4, <3>5, <3>6 DEF Undisturbed, Growing
  <2>8. ASSUME ~disturbed', calls' < IndexRange PROVE Leading'
    <3>1. ~disturbed BY <1>5, <2>8, Zenon
    <3>2. Leading BY <1>0, <2>8, <3>1 DEF TableInv
    <3>3. \A u \in Callers : table_pc'[u] \in Allocating <=> table_pc[u] \in Allocating
      BY <1>1, <2>1 DEF Allocating
    <3>4. "segments" \in Table!Arrays /\ "segment_status" \in Table!Arrays BY DEF Table!Arrays
    <3>5. \A i, e : /\ Has("segments", i, e)' <=> Has("segments", i, e)
                    /\ Has("segment_status", i, e)' <=> Has("segment_status", i, e)
      BY <1>0, <2>5, <3>4 DEF Has
    <3>6. \A u \in Callers : table_pc'[u] \in {"new", "store", "mark"} => table_pc[u] = table_pc'[u]
      BY <2>1
    <3> QED BY <1>0, <3>2, <3>3, <3>5, <3>6 DEF Leading
  <2> QED BY <2>2, <2>3, <2>4, <2>6, <2>7, <2>8 DEF TableInv
<1> QED BY <1>4, <1>5, Zenon DEF Table!CompareMaximum, Table!Go

-----------------------------------------------------------------------------
(* The stores into an array *)

\* Only the one entry changes, if it is there.
LEMMA PutInto ==
    ASSUME Heap, NEW t \in Callers, array[t] \in Table!Arrays, NEW e,
           base[t] \in DOMAIN buffers[array[t]], Table!Put(t, e)
    PROVE  /\ DOMAIN buffers' = DOMAIN buffers
           /\ \A a \in Table!Arrays :
                 /\ DOMAIN buffers'[a] = DOMAIN buffers[a]
                 /\ \A b \in DOMAIN buffers[a] :
                       /\ DOMAIN buffers'[a][b] = DOMAIN buffers[a][b]
                       /\ buffers'[a][b].live = buffers[a][b].live
                       /\ DOMAIN buffers'[a][b].entry = DOMAIN buffers[a][b].entry
                       /\ \A i \in DOMAIN buffers[a][b].entry :
                             buffers'[a][b].entry[i] =
                                IF Table!Indexable(t) /\ a = array[t] /\ b = base[t] /\ i = new_index[t]
                                  THEN e ELSE buffers[a][b].entry[i]
<1> DEFINE A == array[t]
           B == base[t]
           I == new_index[t]
<1>1. CASE ~Table!Indexable(t) BY <1>1 DEF Table!Put
<1>2. CASE Table!Indexable(t)
  <2>1. buffers' = [buffers EXCEPT ![A][B].entry[I] = e] BY <1>2 DEF Table!Put
  <2>2. /\ DOMAIN buffers = Table!Arrays /\ A \in Table!Arrays /\ B \in DOMAIN buffers[A]
        /\ \A a \in Table!Arrays : \A b \in DOMAIN buffers[a] :
              DOMAIN buffers[a][b] = {"live", "entry"}
    BY DEF Heap
  <2> HIDE DEF A, B, I
  <2>3. /\ DOMAIN buffers' = DOMAIN buffers
        /\ \A a \in Table!Arrays : a # A => buffers'[a] = buffers[a]
        /\ buffers'[A] = [buffers[A] EXCEPT ![B].entry[I] = e]
    BY <2>1, <2>2
  <2>4. /\ DOMAIN buffers'[A] = DOMAIN buffers[A]
        /\ \A b \in DOMAIN buffers[A] : b # B => buffers'[A][b] = buffers[A][b]
        /\ buffers'[A][B] = [buffers[A][B] EXCEPT !.entry[I] = e]
    BY <2>2, <2>3
  <2>5. /\ DOMAIN buffers'[A][B] = DOMAIN buffers[A][B]
        /\ buffers'[A][B].live = buffers[A][B].live
        /\ buffers'[A][B].entry = [buffers[A][B].entry EXCEPT ![I] = e]
    BY <2>2, <2>4
  <2>6. /\ DOMAIN buffers'[A][B].entry = DOMAIN buffers[A][B].entry
        /\ \A i \in DOMAIN buffers[A][B].entry :
              buffers'[A][B].entry[i] = IF i = I THEN e ELSE buffers[A][B].entry[i]
    BY <2>5
  <2> HIDE <2>1
  <2>7. ASSUME NEW a \in Table!Arrays, NEW b \in DOMAIN buffers[a]
        PROVE  /\ DOMAIN buffers'[a] = DOMAIN buffers[a]
               /\ DOMAIN buffers'[a][b] = DOMAIN buffers[a][b]
               /\ buffers'[a][b].live = buffers[a][b].live
               /\ DOMAIN buffers'[a][b].entry = DOMAIN buffers[a][b].entry
               /\ \A i \in DOMAIN buffers[a][b].entry :
                     buffers'[a][b].entry[i] =
                        IF a = A /\ b = B /\ i = I THEN e ELSE buffers[a][b].entry[i]
    <3>1. CASE a # A BY <2>3, <3>1
    <3>2. CASE a = A /\ b # B BY <2>4, <3>2
    <3>3. CASE a = A /\ b = B BY <2>4, <2>5, <2>6, <3>3
    <3> QED BY <3>1, <3>2, <3>3
  <2>8. ASSUME NEW a \in Table!Arrays PROVE DOMAIN buffers'[a] = DOMAIN buffers[a]
    BY <2>3, <2>4
  <2> QED BY <1>2, <2>3, <2>7, <2>8 DEF A, B, I
<1> QED BY <1>1, <1>2

\* A store of t, as far as it is the same for both arrays.
LEMMA PutStep ==
    ASSUME TableInv, NEW t \in Callers, table_pc[t] \in {"store", "mark"},
           NEW e \in EntryTypes(array[t]), Table!Put(t, e),
           UNCHANGED <<n_segments, MAX_SEGMENTS, member, allocating_lock, calls, disturbed>>,
           NEW to \in {"out", "new"}, NEW a \in Table!Arrays, NEW b \in Nat,
           table_pc' = [table_pc EXCEPT ![t] = to], array' = [array EXCEPT ![t] = a],
           base' = [base EXCEPT ![t] = b],
           new_index' \in [Callers -> 0..(IndexRange - 1)], name' \in [Callers -> 0..calls],
           \A u \in Callers \ {t} : new_index'[u] = new_index[u] /\ name'[u] = name[u],
           returned' \subseteq (0..(IndexRange - 1)) \X (0..calls), freed' \subseteq 0..(IndexRange - 1),
           to = "out" => a = "segments" /\ b = Table!NoBuffer,
           to = "new" => new_index'[t] = new_index[t],
           \A s \in returned' : s \in returned \/ s[1] = new_index[t]
    PROVE  /\ TableTypes' /\ Heap' /\ Calls' /\ Sized'
           /\ ~disturbed => Undisturbed' /\ Calm /\ Calm'
           /\ ~disturbed =>
                 \A x \in Table!Arrays : \A i \in 0..(MAX_SEGMENTS - 1) :
                    buffers'[x][member'[x]].entry[i] =
                       IF x = array[t] /\ i = new_index[t] THEN e ELSE buffers[x][member[x]].entry[i]
<1> USE DEF TableInv
<1>1. /\ table_pc'[t] = to /\ array'[t] = a /\ base'[t] = b
      /\ \A u \in Callers \ {t} :
            /\ table_pc'[u] = table_pc[u] /\ array'[u] = array[u] /\ base'[u] = base[u]
            /\ new_index'[u] = new_index[u] /\ name'[u] = name[u]
  BY DEF TableTypes
<1>2. TableTypes'
  <2>1. /\ table_pc' \in [Callers -> Allocating \cup {"out", "lookup", "mark"}]
        /\ array' \in [Callers -> Table!Arrays] /\ base' \in [Callers -> Nat]
    BY DEF TableTypes, Allocating
  <2>2. name' \in [Callers -> 0..calls'] OBVIOUS
  <2>3. returned' \subseteq (0..(IndexRange - 1)) \X (0..calls') OBVIOUS
  <2>4. disturbed' \in BOOLEAN
    <3>1. disturbed' = disturbed /\ disturbed \in BOOLEAN BY Zenon DEF TableTypes
    <3> QED BY <3>1, Zenon
  <2> QED BY <2>1, <2>2, <2>3, <2>4 DEF TableTypes
<1>3. array[t] \in Table!Arrays /\ base[t] \in DOMAIN buffers[array[t]]
  BY DEF Calls, TableTypes
<1>4. /\ DOMAIN buffers' = DOMAIN buffers
      /\ \A x \in Table!Arrays :
            /\ DOMAIN buffers'[x] = DOMAIN buffers[x]
            /\ \A y \in DOMAIN buffers[x] :
                  /\ DOMAIN buffers'[x][y] = DOMAIN buffers[x][y]
                  /\ buffers'[x][y].live = buffers[x][y].live
                  /\ DOMAIN buffers'[x][y].entry = DOMAIN buffers[x][y].entry
                  /\ \A i \in DOMAIN buffers[x][y].entry :
                        buffers'[x][y].entry[i] =
                           IF Table!Indexable(t) /\ x = array[t] /\ y = base[t] /\ i = new_index[t]
                             THEN e ELSE buffers[x][y].entry[i]
  BY <1>3, PutInto
<1>5. Heap'
  <2>1. \A x : EntryTypes(x)' = EntryTypes(x) BY DEF EntryTypes
  <2>2. member' \in [Table!Arrays -> Nat] /\ DOMAIN buffers' = Table!Arrays BY <1>4 DEF Heap
  <2>3. ASSUME NEW x \in Table!Arrays
        PROVE  /\ \E n \in Nat : DOMAIN buffers'[x] = 1..n
               /\ member'[x] \in DOMAIN buffers'[x]
    BY <1>4 DEF Heap
  <2>4. ASSUME NEW x \in Table!Arrays, NEW y \in DOMAIN buffers'[x]
        PROVE  /\ DOMAIN buffers'[x][y] = {"live", "entry"}
               /\ \A i \in DOMAIN buffers'[x][y].entry : buffers'[x][y].entry[i] \in EntryTypes(x)
    BY <1>4 DEF Heap
  <2>5. ASSUME NEW x \in Table!Arrays, NEW y \in DOMAIN buffers'[x]
        PROVE  buffers'[x][y].live \in BOOLEAN
    <3>1. y \in DOMAIN buffers[x] /\ buffers'[x][y].live = buffers[x][y].live BY <1>4
    <3>2. buffers[x][y].live \in BOOLEAN BY <3>1, Zenon DEF Heap
    <3> QED BY <3>1, <3>2, Zenon
  <2> HIDE DEF TableInv
  <2> QED BY <2>1, <2>2, <2>3, <2>4, <2>5 DEF Heap
<1>6. Calls'
  <2>1. \A u \in Callers : array[u] \in Table!Arrays BY DEF TableTypes
  <2>2. \A u \in Callers : table_pc'[u] \in Growing <=> allocating_lock' = u
    BY <1>1 DEF Calls, Growing
  <2>3. \A u \in Callers :
           /\ table_pc'[u] \in {"out", "fetched", "wait", "double", "unlock", "lookup"} =>
                 array'[u] = "segments"
           /\ table_pc'[u] = "mark" => array'[u] = "segment_status"
           /\ table_pc'[u] \in {"out", "fetched", "wait"} => base'[u] = Table!NoBuffer
    BY <1>1 DEF Calls
  <2>4. ASSUME NEW u \in Callers, table_pc'[u] \in {"assign", "store", "lookup", "mark"}
        PROVE  base'[u] \in DOMAIN buffers'[array'[u]]
    <3>1. u # t BY <1>1, <2>4
    <3>2. base[u] \in DOMAIN buffers[array[u]] BY <1>1, <2>4, <3>1 DEF Calls
    <3> QED BY <1>1, <1>4, <2>1, <3>1, <3>2
  <2> HIDE DEF TableInv
  <2> QED BY <2>2, <2>3, <2>4 DEF Calls, Table!NoBuffer
<1>7. table_pc[t] \notin Growing BY DEF Growing
<1>8. \A x \in Table!Arrays : Current(x)' = Current(x) /\ Capacity(x)' = Capacity(x)
  BY <1>1, <1>7, TableFrame
<1>9. Sized'
  <2>1. \A x \in Table!Arrays :
           /\ DOMAIN buffers'[x] = DOMAIN buffers[x]
           /\ \A y \in DOMAIN buffers[x] :
                 /\ buffers'[x][y].live = buffers[x][y].live
                 /\ DOMAIN buffers'[x][y].entry = DOMAIN buffers[x][y].entry
    BY <1>4
  <2> QED BY <1>8, <2>1, SizedFrame
<1>10. ASSUME ~disturbed PROVE Undisturbed' /\ Calm /\ Calm'
  <2>1. Calm BY <1>10, InsideCalm
  <2>2. Calm' BY <1>1, <2>1 DEF Calm, Growing
  <2>3. \A n : Covered(n) => CoveredNext(n)
    <3>1. \A u \in Callers : table_pc[u] \in InFlight =>
             table_pc'[u] \in InFlight /\ new_index'[u] = new_index[u]
      BY <1>1 DEF InFlight
    <3> HIDE DEF TableInv
    <3> QED BY <3>1 DEF Covered, CoveredNext
  <2>31. CoveredNext(n_segments - 1)
    <3>1. Covered(n_segments - 1) BY <1>10 DEF Undisturbed
    <3> QED BY <2>3, <3>1
  <2>4. new_index[t] < MAX_SEGMENTS BY <1>10 DEF Undisturbed
  <2>5. \A s \in returned' : s[1] < MAX_SEGMENTS' BY <1>10, <2>4 DEF Undisturbed
  <2>6. ASSUME NEW u \in Callers
        PROVE  /\ table_pc'[u] \in {"unlock", "new", "store", "lookup", "mark"} =>
                     new_index'[u] < MAX_SEGMENTS'
               /\ table_pc'[u] \in {"store", "lookup", "mark"} => base'[u] = member'[array'[u]]
               /\ table_pc'[u] = "fetched" => CoveredNext(new_index'[u])
    <3>1. CASE u = t BY <1>1, <2>4, <3>1
    <3>2. CASE u # t
      <4>1. table_pc[u] = "fetched" => CoveredNext(new_index[u]) BY <1>10, <2>3 DEF Undisturbed
      <4> QED BY <1>1, <1>10, <3>2, <4>1 DEF Undisturbed
    <3> QED BY <3>1, <3>2
  <2> QED BY <2>1, <2>2, <2>31, <2>5, <2>6 DEF Undisturbed, Covered, CoveredNext, Calm, Growing
<1>11. ASSUME ~disturbed, NEW x \in Table!Arrays, NEW i \in 0..(MAX_SEGMENTS - 1)
       PROVE  buffers'[x][member'[x]].entry[i] =
                 IF x = array[t] /\ i = new_index[t] THEN e ELSE buffers[x][member[x]].entry[i]
  <2>1. Calm BY <1>11, InsideCalm
  <2>2. \A y \in Table!Arrays :
           /\ member[y] \in DOMAIN buffers[y] /\ buffers[y][member[y]].live
           /\ DOMAIN buffers[y][member[y]].entry = 0..(MAX_SEGMENTS - 1)
    BY <2>1, CalmCurrent DEF Sized
  <2>3. base[t] = member[array[t]] /\ new_index[t] < MAX_SEGMENTS BY <1>11 DEF Undisturbed
  <2>4. new_index[t] \in 0..(MAX_SEGMENTS - 1) BY <2>3 DEF TableTypes
  <2>5. Table!Indexable(t) BY <1>3, <2>2, <2>3, <2>4 DEF Table!Indexable
  <2>6. /\ member[x] \in DOMAIN buffers[x] /\ i \in DOMAIN buffers[x][member[x]].entry BY <2>2
  <2>7. buffers'[x][member[x]].entry[i] =
           IF Table!Indexable(t) /\ x = array[t] /\ member[x] = base[t] /\ i = new_index[t]
             THEN e ELSE buffers[x][member[x]].entry[i]
    BY <1>4, <2>6
  <2> QED BY <2>3, <2>5, <2>7
<1> HIDE DEF TableInv
<1> QED BY <1>2, <1>5, <1>6, <1>9, <1>10, <1>11

LEMMA CalmHas ==
    ASSUME TableInv, Calm, UNCHANGED <<allocating_lock, member>>
    PROVE  \A x \in Table!Arrays : Current(x) = member[x] /\ Current(x)' = member[x]
<1>1. allocating_lock = Nobody /\ \A x \in Table!Arrays : Current(x) = member[x] BY CalmCurrent
<1> QED BY <1>1 DEF Current, Assigning

LEMMA StoreSegment ==
    ASSUME TableInv, NEW t \in Callers, Table!StoreEntry(t), array[t] = "segments"
    PROVE  TableInv'
<1> USE DEF Table!StoreEntry, Table!Go, Table!Turn
<1>1. /\ table_pc[t] = "store" /\ Table!Put(t, name[t])
      /\ table_pc' = [table_pc EXCEPT ![t] = "new"] /\ array' = [array EXCEPT ![t] = "segment_status"]
      /\ UNCHANGED <<new_index, base, name, returned>>
  BY DEF Table!Done
<1>2. UNCHANGED <<n_segments, MAX_SEGMENTS, member, allocating_lock, calls, disturbed, freed>>
  OBVIOUS
<1> HIDE DEF Table!StoreEntry, Table!Go, Table!Turn
<1>3. /\ base' = [base EXCEPT ![t] = base[t]] /\ base[t] \in Nat
      /\ new_index' \in [Callers -> 0..(IndexRange - 1)] /\ name' \in [Callers -> 0..calls]
      /\ returned' \subseteq (0..(IndexRange - 1)) \X (0..calls) /\ freed' \subseteq 0..(IndexRange - 1)
  BY <1>1, <1>2 DEF TableInv, TableTypes
<1>4. name[t] \in EntryTypes(array[t]) BY DEF TableInv, TableTypes, EntryTypes
<1>5. "segments" \in Table!Arrays /\ "segment_status" \in Table!Arrays /\ "segments" # "segment_status"
  BY DEF Table!Arrays
<1>6. /\ TableTypes' /\ Heap' /\ Calls' /\ Sized'
      /\ ~disturbed => Undisturbed' /\ Calm /\ Calm'
      /\ ~disturbed =>
            \A x \in Table!Arrays : \A i \in 0..(MAX_SEGMENTS - 1) :
               buffers'[x][member'[x]].entry[i] =
                  IF x = array[t] /\ i = new_index[t] THEN name[t] ELSE buffers[x][member[x]].entry[i]
  <2>1. UNCHANGED <<n_segments, MAX_SEGMENTS, member, allocating_lock, calls, disturbed>> BY <1>2
  <2>2. \A u \in Callers \ {t} : new_index'[u] = new_index[u] /\ name'[u] = name[u] BY <1>1
  <2>3. new_index'[t] = new_index[t] /\ \A s \in returned' : s \in returned \/ s[1] = new_index[t]
    BY <1>1
  <2>4. /\ table_pc[t] \in {"store", "mark"} /\ Table!Put(t, name[t])
        /\ table_pc' = [table_pc EXCEPT ![t] = "new"] /\ array' = [array EXCEPT ![t] = "segment_status"]
    BY <1>1
  <2>5. "new" # "out" /\ "new" \in {"out", "new"} OBVIOUS
  <2> QED BY <1>3, <1>4, <1>5, <2>1, <2>2, <2>3, <2>4, <2>5, PutStep
<1>7. ASSUME ~disturbed', calls' < IndexRange PROVE Leading'
  <2>1. ~disturbed /\ Leading /\ Undisturbed /\ Calm BY <1>2, <1>6, <1>7 DEF TableInv
  <2>2. \A x \in Table!Arrays : Current(x) = member[x] /\ Current(x)' = member[x]
    BY <1>2, <2>1, CalmHas
  <2>3. \A i \in 0..(MAX_SEGMENTS - 1) :
          /\ buffers'["segments"][member["segments"]].entry[i] =
                IF i = new_index[t] THEN name[t] ELSE buffers["segments"][member["segments"]].entry[i]
          /\ buffers'["segment_status"][member["segment_status"]].entry[i] =
                buffers["segment_status"][member["segment_status"]].entry[i]
    BY <1>2, <1>5, <1>6, <2>1
  <2>4. table_pc[t] \in Allocating BY <1>1 DEF Allocating
  <2>5. name[t] = new_index[t] /\ <<name[t], name[t]>> \notin returned BY <2>1, <2>4 DEF Leading
  <2>6. /\ table_pc'[t] = "new" /\ array'[t] = "segment_status"
        /\ \A u \in Callers \ {t} : table_pc'[u] = table_pc[u] /\ array'[u] = array[u]
        /\ \A u \in Callers : new_index[u] \in 0..(IndexRange - 1)
        /\ MAX_SEGMENTS \in Nat
    BY <1>1 DEF TableInv, TableTypes
  <2>7. \A s \in returned : s = <<s[1], s[2]>> /\ s[1] \in 0..(MAX_SEGMENTS - 1) /\ s[1] # new_index[t]
    <3> SUFFICES ASSUME NEW s \in returned
                 PROVE  s = <<s[1], s[2]>> /\ s[1] \in 0..(MAX_SEGMENTS - 1) /\ s[1] # new_index[t]
      OBVIOUS
    <3>1. s = <<s[1], s[2]>> /\ s[1] \in 0..(IndexRange - 1) BY DEF TableInv, TableTypes
    <3>2. s[1] < MAX_SEGMENTS /\ s[1] = s[2] BY <2>1 DEF Undisturbed, Leading
    <3>3. s[1] # new_index[t] BY <2>5, <3>1, <3>2
    <3> QED BY <2>6, <3>1, <3>2, <3>3
  <2>8. \A u \in Callers : table_pc'[u] \in {"new", "store"} => new_index[u] \in 0..(MAX_SEGMENTS - 1)
    <3>1. \A u \in Callers : table_pc'[u] \in {"new", "store"} => new_index[u] < MAX_SEGMENTS
      BY <1>1, <2>1, <2>6 DEF Undisturbed
    <3> QED BY <2>6, <3>1
  <2>9. \A u \in Callers : table_pc'[u] \in Allocating =>
          /\ name'[u] = new_index'[u] /\ name'[u] # 0
          /\ <<name'[u], name'[u]>> \notin returned'
          /\ \A x \in Callers : x # u /\ table_pc'[x] \in Allocating => name'[x] # name'[u]
    BY <1>1, <2>1, <2>4, <2>6 DEF Leading
  <2>10. ASSUME NEW u \in Callers, array'[u] = "segment_status", table_pc'[u] \in {"new", "store"}
         PROVE  buffers'["segments"][member["segments"]].entry[new_index'[u]] = name'[u]
    <3>1. CASE u = t BY <1>1, <2>3, <2>5, <2>8, <2>10, <3>1
    <3>2. CASE u # t
      <4>1. table_pc[u] \in {"new", "store"} /\ array[u] = "segment_status" BY <2>6, <2>10, <3>2
      <4>2. table_pc[u] \in Allocating BY <4>1 DEF Allocating
      <4>3. /\ new_index[u] = name[u] /\ name[u] # name[t]
            /\ buffers["segments"][member["segments"]].entry[new_index[u]] = name[u]
        BY <1>5, <2>1, <2>2, <2>4, <3>2, <4>1, <4>2 DEF Leading, Has
      <4> QED BY <1>1, <2>3, <2>5, <2>8, <2>10, <4>3
    <3> QED BY <3>1, <3>2
  <2>11. \A u \in Callers : table_pc'[u] = "mark" => <<new_index'[u], new_index'[u]>> \in returned'
    BY <1>1, <2>1, <2>6 DEF Leading
  <2>12. \A s \in returned' :
          /\ buffers'["segments"][member["segments"]].entry[s[1]] = s[2]
          /\ buffers'["segment_status"][member["segment_status"]].entry[s[1]] =
                IF s[1] \in freed' THEN Table!TO_BE_DELETED ELSE Table!IN_USE
    BY <1>1, <1>2, <1>5, <2>1, <2>2, <2>3, <2>7 DEF Leading, Has
  <2>13. /\ n_segments' = IF calls' + 1 = IndexRange THEN 0 ELSE calls' + 1
         /\ \A s \in returned' : s[1] = s[2]
         /\ \A j \in freed' : <<j, j>> \in returned'
    BY <1>1, <1>2, <2>1 DEF Leading
  <2>14. Current("segments")' = member["segments"] /\ Current("segment_status")' = member["segment_status"]
    BY <1>5, <2>2
  <2> QED BY <2>9, <2>10, <2>11, <2>12, <2>13, <2>14 DEF Leading, Has, Table!IN_USE, Table!TO_BE_DELETED
<1> QED BY <1>2, <1>6, <1>7 DEF TableInv

\* A call that stores a status is over; it returns the entry, or marks it.
LEMMA StatusStep ==
    ASSUME TableInv, NEW t \in Callers, array[t] = "segment_status",
           table_pc[t] \in {"store", "mark"}, NEW e \in EntryTypes("segment_status"),
           Table!Put(t, e), Table!Done(t),
           UNCHANGED <<n_segments, MAX_SEGMENTS, member, allocating_lock, calls, disturbed>>,
           table_pc[t] = "store" =>
              /\ e = Table!IN_USE /\ freed' = freed
              /\ returned' = returned \cup {<<new_index[t], name[t]>>},
           table_pc[t] = "mark" =>
              /\ e = Table!TO_BE_DELETED /\ returned' = returned
              /\ freed' = freed \cup {new_index[t]}
    PROVE  TableInv'
<1>1. /\ table_pc' = [table_pc EXCEPT ![t] = "out"] /\ array' = [array EXCEPT ![t] = "segments"]
      /\ base' = [base EXCEPT ![t] = Table!NoBuffer]
      /\ new_index' = [new_index EXCEPT ![t] = 0] /\ name' = [name EXCEPT ![t] = 0]
  BY DEF Table!Done, Table!Go, Table!Turn
<1>2. /\ new_index' \in [Callers -> 0..(IndexRange - 1)] /\ name' \in [Callers -> 0..calls]
      /\ returned' \subseteq (0..(IndexRange - 1)) \X (0..calls) /\ freed' \subseteq 0..(IndexRange - 1)
      /\ \A u \in Callers \ {t} : new_index'[u] = new_index[u] /\ name'[u] = name[u]
  <2>1. /\ new_index[t] \in 0..(IndexRange - 1) /\ name[t] \in 0..calls
        /\ returned \subseteq (0..(IndexRange - 1)) \X (0..calls) /\ freed \subseteq 0..(IndexRange - 1)
        /\ 0 \in 0..(IndexRange - 1) /\ 0 \in 0..calls
    BY DEF TableInv, TableTypes
  <2>2. /\ new_index' \in [Callers -> 0..(IndexRange - 1)] /\ name' \in [Callers -> 0..calls]
        /\ \A u \in Callers \ {t} : new_index'[u] = new_index[u] /\ name'[u] = name[u]
    BY <1>1, <2>1 DEF TableInv, TableTypes
  <2>3. <<new_index[t], name[t]>> \in (0..(IndexRange - 1)) \X (0..calls) BY <2>1
  <2>4. returned' \subseteq (0..(IndexRange - 1)) \X (0..calls)
    <3>1. returned' = returned \/ returned' = returned \cup {<<new_index[t], name[t]>>} OBVIOUS
    <3> QED BY <2>1, <2>3, <3>1
  <2>5. freed' \subseteq 0..(IndexRange - 1)
    <3>1. freed' = freed \/ freed' = freed \cup {new_index[t]} OBVIOUS
    <3> QED BY <2>1, <3>1
  <2> QED BY <2>2, <2>4, <2>5
<1>3. \A s \in returned' : s \in returned \/ s[1] = new_index[t] OBVIOUS
<1>4. "segments" \in Table!Arrays /\ "segment_status" \in Table!Arrays /\ "segments" # "segment_status"
      /\ Table!NoBuffer \in Nat
  BY DEF Table!Arrays, Table!NoBuffer
<1>5. /\ TableTypes' /\ Heap' /\ Calls' /\ Sized'
      /\ ~disturbed => Undisturbed' /\ Calm /\ Calm'
      /\ ~disturbed =>
            \A x \in Table!Arrays : \A i \in 0..(MAX_SEGMENTS - 1) :
               buffers'[x][member'[x]].entry[i] =
                  IF x = array[t] /\ i = new_index[t] THEN e ELSE buffers[x][member[x]].entry[i]
  <2>1. e \in EntryTypes(array[t]) OBVIOUS
  <2>2. "out" # "new" /\ "out" \in {"out", "new"} OBVIOUS
  <2>3. ASSUME NEW to \in {"out", "new"}, to = "out", NEW b \in Nat, b = Table!NoBuffer,
               NEW a \in Table!Arrays, a = "segments",
               table_pc' = [table_pc EXCEPT ![t] = to], array' = [array EXCEPT ![t] = a],
               base' = [base EXCEPT ![t] = b]
        PROVE  /\ TableTypes' /\ Heap' /\ Calls' /\ Sized'
               /\ ~disturbed => Undisturbed' /\ Calm /\ Calm'
               /\ ~disturbed =>
                     \A x \in Table!Arrays : \A i \in 0..(MAX_SEGMENTS - 1) :
                        buffers'[x][member'[x]].entry[i] =
                           IF x = array[t] /\ i = new_index[t] THEN e ELSE buffers[x][member[x]].entry[i]
    BY <1>2, <1>3, <2>1, <2>3, PutStep
  <2> QED BY <1>1, <1>4, <2>2, <2>3
<1>6. ASSUME ~disturbed', calls' < IndexRange PROVE Leading'
  <2>1. ~disturbed /\ Leading /\ Undisturbed /\ Calm BY <1>5, <1>6 DEF TableInv
  <2>2. \A x \in Table!Arrays : Current(x) = member[x] /\ Current(x)' = member[x]
    BY <2>1, CalmHas
  <2>3. \A i \in 0..(MAX_SEGMENTS - 1) :
          /\ buffers'["segments"][member["segments"]].entry[i] =
                buffers["segments"][member["segments"]].entry[i]
          /\ buffers'["segment_status"][member["segment_status"]].entry[i] =
                IF i = new_index[t] THEN e
                   ELSE buffers["segment_status"][member["segment_status"]].entry[i]
    BY <1>4, <1>5, <2>1
  <2>4. /\ table_pc'[t] = "out"
        /\ \A u \in Callers \ {t} : table_pc'[u] = table_pc[u] /\ array'[u] = array[u]
        /\ \A u \in Callers : new_index[u] \in 0..(IndexRange - 1)
        /\ MAX_SEGMENTS \in Nat
    BY <1>1 DEF TableInv, TableTypes
  <2>5. table_pc[t] = "store" =>
          /\ table_pc[t] \in Allocating /\ name[t] = new_index[t]
          /\ <<new_index[t], new_index[t]>> \notin returned /\ new_index[t] \notin freed
          /\ buffers["segments"][member["segments"]].entry[new_index[t]] = name[t]
    <3> SUFFICES ASSUME table_pc[t] = "store"
                 PROVE  /\ table_pc[t] \in Allocating /\ name[t] = new_index[t]
                        /\ <<new_index[t], new_index[t]>> \notin returned /\ new_index[t] \notin freed
                        /\ buffers["segments"][member["segments"]].entry[new_index[t]] = name[t]
      OBVIOUS
    <3>1. table_pc[t] \in Allocating BY DEF Allocating
    <3>2. name[t] = new_index[t] /\ <<name[t], name[t]>> \notin returned
          /\ Has("segments", new_index[t], name[t])
      BY <2>1, <3>1 DEF Leading
    <3>3. buffers["segments"][member["segments"]].entry[new_index[t]] = name[t]
      BY <1>4, <2>2, <3>2 DEF Has
    <3> QED BY <2>1, <3>1, <3>2, <3>3 DEF Leading
  <2>6. table_pc[t] = "mark" => <<new_index[t], new_index[t]>> \in returned BY <2>1 DEF Leading
  <2>7. new_index[t] \in 0..(MAX_SEGMENTS - 1)
    <3>1. new_index[t] < MAX_SEGMENTS BY <2>1 DEF Undisturbed
    <3> QED BY <2>4, <3>1
  <2>8. \A s \in returned : s = <<s[1], s[2]>> /\ s[1] = s[2] /\ s[1] \in 0..(MAX_SEGMENTS - 1)
    <3> SUFFICES ASSUME NEW s \in returned
                 PROVE  s = <<s[1], s[2]>> /\ s[1] = s[2] /\ s[1] \in 0..(MAX_SEGMENTS - 1)
      OBVIOUS
    <3>1. s = <<s[1], s[2]>> /\ s[1] \in 0..(IndexRange - 1) BY DEF TableInv, TableTypes
    <3>2. s[1] < MAX_SEGMENTS /\ s[1] = s[2] BY <2>1 DEF Undisturbed, Leading
    <3> QED BY <2>4, <3>1, <3>2
  <2>9. \A u \in Callers : table_pc'[u] \in Allocating =>
          /\ u # t /\ table_pc[u] \in Allocating
          /\ name'[u] = new_index'[u] /\ name'[u] # 0
          /\ <<name'[u], name'[u]>> \notin returned'
          /\ \A x \in Callers : x # u /\ table_pc'[x] \in Allocating => name'[x] # name'[u]
    <3> SUFFICES ASSUME NEW u \in Callers, table_pc'[u] \in Allocating
                 PROVE  /\ u # t /\ table_pc[u] \in Allocating
                        /\ name'[u] = new_index'[u] /\ name'[u] # 0
                        /\ <<name'[u], name'[u]>> \notin returned'
                        /\ \A x \in Callers : x # u /\ table_pc'[x] \in Allocating => name'[x] # name'[u]
      OBVIOUS
    <3>1. "out" \notin Allocating BY DEF Allocating, Growing
    <3>2. u # t /\ table_pc[u] \in Allocating /\ name'[u] = name[u] /\ new_index'[u] = new_index[u]
      BY <1>2, <2>4, <3>1
    <3>3. /\ name[u] = new_index[u] /\ name[u] # 0 /\ <<name[u], name[u]>> \notin returned
          /\ \A x \in Callers : x # u /\ table_pc[x] \in Allocating => name[x] # name[u]
      BY <2>1, <3>2 DEF Leading
    <3>4. <<name[u], name[u]>> \notin returned' BY <2>5, <3>2, <3>3
    <3>5. \A x \in Callers : table_pc'[x] \in Allocating => table_pc[x] \in Allocating /\ name'[x] = name[x]
      BY <1>2, <2>4, <3>1
    <3> QED BY <3>2, <3>3, <3>4, <3>5
  <2>10. ASSUME NEW u \in Callers, array'[u] = "segment_status", table_pc'[u] \in {"new", "store"}
         PROVE  buffers'["segments"][member["segments"]].entry[new_index'[u]] = name'[u]
    <3>1. u # t /\ table_pc[u] \in {"new", "store"} /\ array[u] = "segment_status"
      BY <2>4, <2>10
    <3>2. table_pc[u] \in Allocating /\ new_index'[u] = new_index[u] /\ name'[u] = name[u]
      BY <1>2, <3>1 DEF Allocating
    <3>3. buffers["segments"][member["segments"]].entry[new_index[u]] = name[u]
      <4>1. Has("segments", new_index[u], name[u]) BY <2>1, <3>1, <3>2 DEF Leading
      <4> QED BY <1>4, <2>2, <4>1 DEF Has
    <3>4. new_index[u] < MAX_SEGMENTS BY <2>1, <3>1 DEF Undisturbed
    <3> QED BY <2>3, <2>4, <3>2, <3>3, <3>4
  <2>11. \A u \in Callers : table_pc'[u] = "mark" => <<new_index'[u], new_index'[u]>> \in returned'
    <3>1. \A u \in Callers : table_pc'[u] = "mark" => u # t BY <2>4
    <3>2. \A s \in returned : s \in returned' OBVIOUS
    <3> QED BY <1>2, <2>1, <2>4, <3>1, <3>2 DEF Leading
  <2>12. \A s \in returned' : s[1] = s[2]
    BY <2>5, <2>8
  <2>13. \A j \in freed' : <<j, j>> \in returned' BY <2>1, <2>6 DEF Leading
  <2>14. ASSUME NEW s \in returned'
         PROVE  /\ buffers'["segments"][member["segments"]].entry[s[1]] = s[2]
                /\ buffers'["segment_status"][member["segment_status"]].entry[s[1]] =
                      IF s[1] \in freed' THEN Table!TO_BE_DELETED ELSE Table!IN_USE
    <3>1. CASE s \in returned
      <4>1. /\ buffers["segments"][member["segments"]].entry[s[1]] = s[2]
            /\ buffers["segment_status"][member["segment_status"]].entry[s[1]] =
                  IF s[1] \in freed THEN Table!TO_BE_DELETED ELSE Table!IN_USE
        BY <1>4, <2>1, <2>2, <3>1 DEF Leading, Has
      <4>2. s = <<s[1], s[1]>> /\ s[1] \in 0..(MAX_SEGMENTS - 1) BY <2>8, <3>1
      <4>3. CASE s[1] = new_index[t]
        <5>1. table_pc[t] = "mark" BY <2>5, <3>1, <4>2, <4>3
        <5> QED BY <2>3, <4>1, <4>2, <4>3, <5>1
      <4>4. CASE s[1] # new_index[t] BY <2>3, <4>1, <4>2, <4>4
      <4> QED BY <4>3, <4>4
    <3>2. CASE s \notin returned
      <4>1. table_pc[t] = "store" /\ s = <<new_index[t], name[t]>> BY <3>2
      <4> QED BY <2>3, <2>5, <2>7, <4>1
    <3> QED BY <3>1, <3>2
  <2>15. Current("segments")' = member["segments"] /\ Current("segment_status")' = member["segment_status"]
    BY <1>4, <2>2
  <2>16. n_segments' = IF calls' + 1 = IndexRange THEN 0 ELSE calls' + 1 BY <2>1 DEF Leading
  <2> QED BY <2>9, <2>10, <2>11, <2>12, <2>13, <2>14, <2>15, <2>16
    DEF Leading, Has, Table!IN_USE, Table!TO_BE_DELETED
<1> QED BY <1>5, <1>6 DEF TableInv

LEMMA StoreEntryStep ==
    ASSUME TableInv, NEW t \in Callers, Table!StoreEntry(t)
    PROVE  TableInv'
<1>1. CASE array[t] = "segments" BY <1>1, StoreSegment
<1>2. CASE array[t] # "segments"
  <2> USE DEF Table!StoreEntry
  <2>1. /\ table_pc[t] = "store" /\ array[t] = "segment_status"
        /\ Table!Put(t, Table!IN_USE) /\ Table!Done(t)
        /\ returned' = returned \cup {<<new_index[t], name[t]>>}
    BY <1>2
  <2>2. UNCHANGED <<n_segments, MAX_SEGMENTS, member, allocating_lock, calls, disturbed>>
        /\ freed' = freed
    OBVIOUS
  <2>3. Table!IN_USE \in EntryTypes("segment_status") BY DEF EntryTypes
  <2>4. table_pc[t] \in {"store", "mark"} /\ table_pc[t] # "mark" BY <2>1
  <2> HIDE DEF Table!StoreEntry
  <2> QED BY <2>1, <2>2, <2>3, <2>4, StatusStep
<1> QED BY <1>1, <1>2

LEMMA MarkStep ==
    ASSUME TableInv, NEW t \in Callers, Table!Mark(t)
    PROVE  TableInv'
<1> USE DEF Table!Mark
<1>1. /\ table_pc[t] = "mark" /\ Table!Put(t, Table!TO_BE_DELETED) /\ Table!Done(t)
      /\ freed' = freed \cup {new_index[t]} /\ returned' = returned
  OBVIOUS
<1>2. UNCHANGED <<n_segments, MAX_SEGMENTS, member, allocating_lock, calls, disturbed>>
  OBVIOUS
<1>3. Table!TO_BE_DELETED \in EntryTypes("segment_status") BY DEF EntryTypes
<1>4. array[t] = "segment_status" BY <1>1 DEF TableInv, Calls
<1>5. table_pc[t] \in {"store", "mark"} /\ table_pc[t] # "store" BY <1>1
<1> HIDE DEF Table!Mark
<1> QED BY <1>1, <1>2, <1>3, <1>4, <1>5, StatusStep

-----------------------------------------------------------------------------
(* The growth of the arrays *)

EntriesKept ==
    \A x \in Table!Arrays : \A i \in 0..(MAX_SEGMENTS - 1) :
       buffers'[x][Current(x)'].entry[i] = buffers[x][Current(x)].entry[i]

\* What the steps of a growth have in common: the entries stay where they are, and
\* whoever grows the arrays undisturbed is alone.
LEMMA GrowthStep ==
    ASSUME TableInv, NEW t \in Callers,
           UNCHANGED <<n_segments, new_index, name, calls, returned, freed, disturbed>>,
           NEW to \in Growing \cup {"new"}, NEW a \in Table!Arrays, NEW b \in Nat,
           table_pc' = [table_pc EXCEPT ![t] = to], array' = [array EXCEPT ![t] = a],
           base' = [base EXCEPT ![t] = b],
           allocating_lock' = IF to = "new" THEN Nobody ELSE t,
           (table_pc[t] = "wait" /\ allocating_lock = Nobody) \/ table_pc[t] \in Growing,
           \/ /\ table_pc[t] \in {"wait", "grow", "assign"} /\ to \in {"grow", "assign", "double"}
              /\ MAX_SEGMENTS' = MAX_SEGMENTS
           \/ table_pc[t] = "double" /\ to = "unlock" /\ MAX_SEGMENTS' = 2 * MAX_SEGMENTS
           \/ table_pc[t] = "unlock" /\ to = "new" /\ MAX_SEGMENTS' = MAX_SEGMENTS,
           to \in {"double", "unlock", "new"} => a = "segments",
           to = "assign" => b \in DOMAIN buffers'[a],
           \A x \in Table!Arrays : DOMAIN buffers[x] \subseteq DOMAIN buffers'[x],
           Heap', Sized', EntriesKept
    PROVE  TableInv'
<1>1. /\ table_pc'[t] = to /\ array'[t] = a /\ base'[t] = b
      /\ \A u \in Callers \ {t} :
            table_pc'[u] = table_pc[u] /\ array'[u] = array[u] /\ base'[u] = base[u]
  BY DEF TableInv, TableTypes
<1>2. MAX_SEGMENTS \in Nat \ {0} /\ MAX_SEGMENTS' \in Nat \ {0} /\ MAX_SEGMENTS' >= MAX_SEGMENTS
  BY DEF TableInv, TableTypes
<1>3. TableTypes'
  <2>1. /\ table_pc' \in [Callers -> Allocating \cup {"out", "lookup", "mark"}]
        /\ array' \in [Callers -> Table!Arrays] /\ base' \in [Callers -> Nat]
    BY DEF TableInv, TableTypes, Allocating
  <2>2. allocating_lock' \in Callers \cup {Nobody} OBVIOUS
  <2>3. disturbed' \in BOOLEAN BY Zenon DEF TableInv, TableTypes
  <2> QED BY <1>2, <2>1, <2>2, <2>3 DEF TableInv, TableTypes
<1>4. Calls'
  <2>1. \A u \in Callers \ {t} : table_pc[u] \notin Growing /\ allocating_lock' # u
    BY CallersAssumption DEF TableInv, Calls
  <2>2. ASSUME NEW u \in Callers
        PROVE  /\ table_pc'[u] \in Growing <=> allocating_lock' = u
               /\ table_pc'[u] \in {"out", "fetched", "wait", "double", "unlock", "lookup"} =>
                     array'[u] = "segments"
               /\ table_pc'[u] = "mark" => array'[u] = "segment_status"
               /\ table_pc'[u] \in {"out", "fetched", "wait"} => base'[u] = Table!NoBuffer
               /\ table_pc'[u] \in {"assign", "store", "lookup", "mark"} =>
                     base'[u] \in DOMAIN buffers'[array'[u]]
    <3>1. CASE u = t BY <1>1, <3>1, CallersAssumption DEF Growing
    <3>2. CASE u # t
      <4>1. array[u] \in Table!Arrays BY DEF TableInv, TableTypes
      <4> QED BY <1>1, <2>1, <3>2, <4>1 DEF TableInv, Calls
    <3> QED BY <3>1, <3>2
  <2> QED BY <2>2 DEF Calls
<1>5. ASSUME ~disturbed
      PROVE  /\ Undisturbed /\ \A u \in Callers \ {t} : table_pc'[u] = "out" /\ table_pc[u] = "out"
             /\ Current("segments") \in DOMAIN buffers["segments"]
  BY <1>1, <1>5 DEF TableInv, Undisturbed, Table!Alone, Sized, Table!Arrays
<1>6. ASSUME ~disturbed' PROVE Undisturbed'
  <2>1. /\ Undisturbed /\ \A u \in Callers \ {t} : table_pc'[u] = "out"
        /\ \A u \in Callers : new_index[u] \in Nat
        /\ n_segments \in Nat
    BY <1>5, <1>6 DEF TableInv, TableTypes
  <2>2. /\ to \in {"unlock", "new"} => new_index[t] < MAX_SEGMENTS'
        /\ to \in {"grow", "assign", "double"} => new_index[t] < 2 * MAX_SEGMENTS'
    BY <2>1, <1>2 DEF Undisturbed
  <2>3. \A u \in Callers \ {t} : table_pc[u] = "out" BY <1>5, <1>6
  <2>4. Covered(n_segments - 1)'
    <3> SUFFICES ASSUME NEW j \in MAX_SEGMENTS'..(n_segments - 1)
                 PROVE  \E u \in Callers : table_pc'[u] \in InFlight /\ new_index'[u] = j
      BY DEF Covered
    <3>1. j \in MAX_SEGMENTS..(n_segments - 1) BY <1>2, <2>1
    <3>2. table_pc[t] \in InFlight /\ new_index[t] = j
      BY <2>1, <2>3, <3>1 DEF Undisturbed, Covered, InFlight
    <3>3. CASE to \in {"grow", "assign", "double"} BY <1>1, <3>2, <3>3 DEF InFlight
    <3>4. CASE table_pc[t] = "double" /\ MAX_SEGMENTS' = 2 * MAX_SEGMENTS
      BY <1>2, <2>1, <3>2, <3>4 DEF Undisturbed
    <3>5. CASE table_pc[t] = "unlock" BY <3>2, <3>5 DEF InFlight
    <3> QED BY <3>3, <3>4, <3>5
  <2>5. \A s \in returned : s[1] < MAX_SEGMENTS'
    <3>1. \A s \in returned : s[1] \in Nat BY DEF TableInv, TableTypes
    <3> QED BY <1>2, <2>1, <3>1 DEF Undisturbed
  <2>6. \A u \in Callers : table_pc'[u] \in Growing \cup {"wait"} => Table!Alone(u)'
    BY <2>1 DEF Table!Alone, Growing
  <2>7. ASSUME NEW u \in Callers
        PROVE  /\ table_pc'[u] \in {"unlock", "new", "store", "lookup", "mark"} =>
                     new_index'[u] < MAX_SEGMENTS'
               /\ table_pc'[u] \in {"wait", "grow", "assign", "double"} =>
                     new_index'[u] < 2 * MAX_SEGMENTS'
               /\ table_pc'[u] \in {"store", "lookup", "mark"} => base'[u] = member'[array'[u]]
               /\ table_pc'[u] # "fetched"
    <3>1. CASE u = t BY <1>1, <2>2, <3>1 DEF Growing
    <3>2. CASE u # t BY <2>1, <3>2
    <3> QED BY <3>1, <3>2
  <2> QED BY <2>4, <2>5, <2>6, <2>7 DEF Undisturbed
<1>7. ASSUME ~disturbed', calls' < IndexRange PROVE Leading'
  <2>1. Leading /\ Undisturbed /\ \A u \in Callers \ {t} : table_pc'[u] = "out"
    BY <1>5, <1>7 DEF TableInv
  <2>2. "segments" \in Table!Arrays /\ "segment_status" \in Table!Arrays BY DEF Table!Arrays
  <2>3. \A s \in returned : s[1] \in 0..(MAX_SEGMENTS - 1)
    <3>1. \A s \in returned : s[1] \in Nat BY DEF TableInv, TableTypes
    <3> QED BY <1>2, <2>1, <3>1 DEF Undisturbed
  <2>4. \A s \in returned' :
          /\ buffers'["segments"][Current("segments")'].entry[s[1]] = s[2]
          /\ buffers'["segment_status"][Current("segment_status")'].entry[s[1]] =
                IF s[1] \in freed' THEN Table!TO_BE_DELETED ELSE Table!IN_USE
    BY <2>1, <2>2, <2>3 DEF Leading, Has, EntriesKept
  <2>5. \A u \in Callers : table_pc'[u] \in Allocating => u = t
    BY <2>1 DEF Allocating, Growing
  <2>6. table_pc[t] \in Allocating BY DEF Allocating
  <2>7. /\ name'[t] = new_index'[t] /\ name'[t] # 0 /\ <<name'[t], name'[t]>> \notin returned'
    BY <2>1, <2>6 DEF Leading
  <2>8. ~(array'[t] = "segment_status" /\ table_pc'[t] \in {"new", "store"})
    BY <1>1 DEF Growing
  <2>9. \A u \in Callers : table_pc'[u] # "mark" BY <1>1, <2>1 DEF Growing
  <2>10. /\ n_segments' = IF calls' + 1 = IndexRange THEN 0 ELSE calls' + 1
         /\ \A s \in returned' : s[1] = s[2]
         /\ \A j \in freed' : <<j, j>> \in returned'
    BY <2>1 DEF Leading
  <2> QED BY <2>4, <2>5, <2>7, <2>8, <2>9, <2>10 DEF Leading, Has, Table!IN_USE, Table!TO_BE_DELETED
<1> QED BY <1>3, <1>4, <1>6, <1>7 DEF TableInv

LEMMA TryLockStep ==
    ASSUME TableInv, NEW t \in Callers, Table!TryLock(t)
    PROVE  TableInv'
<1> USE DEF Table!TryLock, Table!Still, Table!Go
<1>1. /\ table_pc[t] = "wait" /\ allocating_lock = Nobody
      /\ allocating_lock' = t /\ table_pc' = [table_pc EXCEPT ![t] = "grow"]
  OBVIOUS
<1>2. UNCHANGED <<n_segments, new_index, name, calls, returned, freed, disturbed>>
  BY DEF Table!past
<1>21. UNCHANGED <<MAX_SEGMENTS, member, buffers, array, base>>
  OBVIOUS
<1> HIDE DEF Table!TryLock, Table!Still, Table!Go
<1>3. /\ array[t] = "segments" /\ array[t] \in Table!Arrays /\ base[t] \in Nat
      /\ array' = [array EXCEPT ![t] = array[t]] /\ base' = [base EXCEPT ![t] = base[t]]
      /\ table_pc'[t] = "grow"
  BY <1>1, <1>2, <1>21 DEF TableInv, TableTypes, Calls
<1>4. Heap'
  <2>1. \A x : EntryTypes(x)' = EntryTypes(x) BY <1>2, <1>21 DEF EntryTypes
  <2> QED BY <1>2, <1>21, <2>1 DEF TableInv, Heap
<1>5. \A x \in Table!Arrays : Current(x)' = Current(x) /\ Capacity(x)' = Capacity(x)
  BY <1>1, <1>2, <1>21, <1>3, CallersAssumption DEF Current, Capacity, Assigning, Larger
<1>6. Sized' BY <1>2, <1>21, <1>5, SizedFrame DEF TableInv
<1>7. EntriesKept BY <1>2, <1>21, <1>5 DEF EntriesKept
<1>8. ASSUME NEW to \in Growing \cup {"new"}, to = "grow", NEW a \in Table!Arrays, a = array[t],
             NEW b \in Nat, b = base[t]
      PROVE  TableInv'
  <2>1. /\ table_pc' = [table_pc EXCEPT ![t] = to] /\ array' = [array EXCEPT ![t] = a]
        /\ base' = [base EXCEPT ![t] = b]
        /\ allocating_lock' = IF to = "new" THEN Nobody ELSE t
    BY <1>1, <1>3, <1>8
  <2>2. (table_pc[t] = "wait" /\ allocating_lock = Nobody) \/ table_pc[t] \in Growing BY <1>1
  <2>3. \/ /\ table_pc[t] \in {"wait", "grow", "assign"} /\ to \in {"grow", "assign", "double"}
           /\ MAX_SEGMENTS' = MAX_SEGMENTS
        \/ table_pc[t] = "double" /\ to = "unlock" /\ MAX_SEGMENTS' = 2 * MAX_SEGMENTS
        \/ table_pc[t] = "unlock" /\ to = "new" /\ MAX_SEGMENTS' = MAX_SEGMENTS
    BY <1>1, <1>2, <1>21, <1>8
  <2>4. /\ to \in {"double", "unlock", "new"} => a = "segments"
        /\ to = "assign" => b \in DOMAIN buffers'[a]
    BY <1>8
  <2>5. \A x \in Table!Arrays : DOMAIN buffers[x] \subseteq DOMAIN buffers'[x] BY <1>2, <1>21
  <2> QED BY <1>2, <1>4, <1>6, <1>7, <2>1, <2>2, <2>3, <2>4, <2>5, GrowthStep
<1> QED BY <1>3, <1>8 DEF Growing

\* Unlock, doubling and assignment leave the buffers alone.
LEMMA UnlockStep ==
    ASSUME TableInv, NEW t \in Callers, Table!Unlock(t)
    PROVE  TableInv'
<1> USE DEF Table!Unlock, Table!Still, Table!Go
<1>1. /\ table_pc[t] = "unlock" /\ allocating_lock' = Nobody
      /\ table_pc' = [table_pc EXCEPT ![t] = "new"]
  OBVIOUS
<1>2. UNCHANGED <<n_segments, new_index, name, calls, returned, freed, disturbed>>
  BY DEF Table!past
<1>3. UNCHANGED <<MAX_SEGMENTS, member, buffers, array, base>>
  OBVIOUS
<1> HIDE DEF Table!Unlock, Table!Still, Table!Go
<1>4. /\ array[t] = "segments" /\ array[t] \in Table!Arrays /\ base[t] \in Nat
      /\ array' = [array EXCEPT ![t] = array[t]] /\ base' = [base EXCEPT ![t] = base[t]]
      /\ allocating_lock = t
  BY <1>1, <1>2, <1>3 DEF TableInv, TableTypes, Calls, Growing
<1>5. Heap'
  <2>1. \A x : EntryTypes(x)' = EntryTypes(x) BY <1>2, <1>3 DEF EntryTypes
  <2> QED BY <1>2, <1>3, <2>1 DEF TableInv, Heap
<1>6. \A x \in Table!Arrays : Current(x)' = Current(x) /\ Capacity(x)' = Capacity(x)
  BY <1>1, <1>2, <1>3, <1>4, CallersAssumption DEF Current, Capacity, Assigning, Larger
<1>7. Sized' BY <1>2, <1>3, <1>6, SizedFrame DEF TableInv
<1>8. EntriesKept BY <1>3, <1>6 DEF EntriesKept
<1>9. ASSUME NEW to \in Growing \cup {"new"}, to = "new", NEW a \in Table!Arrays, a = array[t],
             NEW b \in Nat, b = base[t]
      PROVE  TableInv'
  <2>1. /\ table_pc' = [table_pc EXCEPT ![t] = to] /\ array' = [array EXCEPT ![t] = a]
        /\ base' = [base EXCEPT ![t] = b]
        /\ allocating_lock' = IF to = "new" THEN Nobody ELSE t
    BY <1>1, <1>4, <1>9
  <2>2. (table_pc[t] = "wait" /\ allocating_lock = Nobody) \/ table_pc[t] \in Growing
    BY <1>1 DEF Growing
  <2>3. \/ /\ table_pc[t] \in {"wait", "grow", "assign"} /\ to \in {"grow", "assign", "double"}
           /\ MAX_SEGMENTS' = MAX_SEGMENTS
        \/ table_pc[t] = "double" /\ to = "unlock" /\ MAX_SEGMENTS' = 2 * MAX_SEGMENTS
        \/ table_pc[t] = "unlock" /\ to = "new" /\ MAX_SEGMENTS' = MAX_SEGMENTS
    BY <1>1, <1>3, <1>9
  <2>4. /\ to \in {"double", "unlock", "new"} => a = "segments"
        /\ to = "assign" => b \in DOMAIN buffers'[a]
    BY <1>4, <1>9
  <2>5. \A x \in Table!Arrays : DOMAIN buffers[x] \subseteq DOMAIN buffers'[x] BY <1>3
  <2> QED BY <1>2, <1>5, <1>7, <1>8, <2>1, <2>2, <2>3, <2>4, <2>5, GrowthStep
<1> QED BY <1>4, <1>9

LEMMA DoubleMaximumStep ==
    ASSUME TableInv, NEW t \in Callers, Table!DoubleMaximum(t)
    PROVE  TableInv'
<1> USE DEF Table!DoubleMaximum, Table!Still, Table!Go
<1>1. /\ table_pc[t] = "double" /\ MAX_SEGMENTS' = MAX_SEGMENTS * 2
      /\ table_pc' = [table_pc EXCEPT ![t] = "unlock"]
  OBVIOUS
<1>2. UNCHANGED <<n_segments, new_index, name, calls, returned, freed, disturbed>>
  BY DEF Table!past
<1>3. UNCHANGED <<member, allocating_lock, buffers, array, base>>
  OBVIOUS
<1> HIDE DEF Table!DoubleMaximum, Table!Still, Table!Go
<1>4. /\ array[t] = "segments" /\ array[t] \in Table!Arrays /\ base[t] \in Nat
      /\ array' = [array EXCEPT ![t] = array[t]] /\ base' = [base EXCEPT ![t] = base[t]]
      /\ allocating_lock = t /\ allocating_lock' = t /\ table_pc'[t] = "unlock"
      /\ MAX_SEGMENTS \in Nat /\ MAX_SEGMENTS' = 2 * MAX_SEGMENTS
  BY <1>1, <1>2, <1>3 DEF TableInv, TableTypes, Calls, Growing
<1>5. Heap'
  <2>1. \A x : EntryTypes(x)' = EntryTypes(x) BY <1>2 DEF EntryTypes
  <2> QED BY <1>3, <2>1 DEF TableInv, Heap
<1>6. \A x \in Table!Arrays : Current(x)' = Current(x) /\ Capacity(x)' = Capacity(x)
  BY <1>1, <1>3, <1>4, CallersAssumption DEF Current, Capacity, Assigning, Larger
<1>7. Sized' BY <1>3, <1>6, SizedFrame DEF TableInv
<1>8. EntriesKept BY <1>3, <1>6 DEF EntriesKept
<1>9. ASSUME NEW to \in Growing \cup {"new"}, to = "unlock", NEW a \in Table!Arrays, a = array[t],
             NEW b \in Nat, b = base[t]
      PROVE  TableInv'
  <2>1. /\ table_pc' = [table_pc EXCEPT ![t] = to] /\ array' = [array EXCEPT ![t] = a]
        /\ base' = [base EXCEPT ![t] = b]
        /\ allocating_lock' = IF to = "new" THEN Nobody ELSE t
    BY <1>1, <1>4, <1>9
  <2>2. (table_pc[t] = "wait" /\ allocating_lock = Nobody) \/ table_pc[t] \in Growing
    BY <1>1 DEF Growing
  <2>3. \/ /\ table_pc[t] \in {"wait", "grow", "assign"} /\ to \in {"grow", "assign", "double"}
           /\ MAX_SEGMENTS' = MAX_SEGMENTS
        \/ table_pc[t] = "double" /\ to = "unlock" /\ MAX_SEGMENTS' = 2 * MAX_SEGMENTS
        \/ table_pc[t] = "unlock" /\ to = "new" /\ MAX_SEGMENTS' = MAX_SEGMENTS
    BY <1>1, <1>4, <1>9
  <2>4. /\ to \in {"double", "unlock", "new"} => a = "segments"
        /\ to = "assign" => b \in DOMAIN buffers'[a]
    BY <1>4, <1>9
  <2>5. \A x \in Table!Arrays : DOMAIN buffers[x] \subseteq DOMAIN buffers'[x] BY <1>3
  <2> QED BY <1>2, <1>5, <1>7, <1>8, <2>1, <2>2, <2>3, <2>4, <2>5, GrowthStep
<1> QED BY <1>4, <1>9 DEF Growing

LEMMA AssignStep ==
    ASSUME TableInv, NEW t \in Callers, Table!Assign(t)
    PROVE  TableInv'
<1> USE DEF Table!Assign, Table!Assigned, Table!Still, Table!Go, Table!Turn
<1>1. table_pc[t] = "assign" /\ member' = [member EXCEPT ![array[t]] = base[t]]
  OBVIOUS
<1>2. UNCHANGED <<n_segments, new_index, name, calls, returned, freed, disturbed>>
  BY DEF Table!past
<1>3. UNCHANGED <<MAX_SEGMENTS, allocating_lock, buffers, base>>
  OBVIOUS
<1>4. \/ /\ array[t] = "segments" /\ table_pc' = [table_pc EXCEPT ![t] = "grow"]
         /\ array' = [array EXCEPT ![t] = "segment_status"]
      \/ /\ array[t] = "segment_status" /\ table_pc' = [table_pc EXCEPT ![t] = "double"]
         /\ array' = [array EXCEPT ![t] = "segments"]
  <2>1. array[t] = "segments" \/ array[t] = "segment_status"
    BY DEF TableInv, TableTypes, Table!Arrays
  <2> QED BY <2>1
<1> HIDE DEF Table!Assign, Table!Assigned, Table!Still, Table!Go, Table!Turn
<1>5. /\ array[t] \in Table!Arrays /\ base[t] \in Nat /\ base' = [base EXCEPT ![t] = base[t]]
      /\ allocating_lock = t /\ allocating_lock' = t /\ base[t] \in DOMAIN buffers[array[t]]
      /\ "segments" \in Table!Arrays /\ "segment_status" \in Table!Arrays
      /\ \A x \in Table!Arrays : x = "segments" \/ x = "segment_status"
  BY <1>1, <1>3 DEF TableInv, TableTypes, Calls, Growing, Table!Arrays
<1>6. /\ member' \in [Table!Arrays -> Nat] /\ member'[array[t]] = base[t]
      /\ \A x \in Table!Arrays : x # array[t] => member'[x] = member[x]
  BY <1>1, <1>5 DEF TableInv, Heap
<1>7. Heap'
  <2>1. \A x : EntryTypes(x)' = EntryTypes(x) BY <1>2 DEF EntryTypes
  <2>2. \A x \in Table!Arrays : member'[x] \in DOMAIN buffers[x]
    BY <1>5, <1>6 DEF TableInv, Heap
  <2> QED BY <1>3, <1>6, <2>1, <2>2 DEF TableInv, Heap
<1>8. \A x \in Table!Arrays : Current(x)' = Current(x) /\ Capacity(x)' = Capacity(x)
  <2>1. table_pc \in [Callers -> Allocating \cup {"out", "lookup", "mark"}]
        /\ array \in [Callers -> Table!Arrays]
    BY DEF TableInv, TableTypes
  <2>2. CASE array[t] = "segments"
    <3>1. table_pc'[t] = "grow" /\ array'[t] = "segment_status" BY <1>4, <2>1, <2>2
    <3> QED BY <1>1, <1>3, <1>5, <1>6, <2>2, <3>1, CallersAssumption
          DEF Current, Capacity, Assigning, Larger
  <2>3. CASE array[t] = "segment_status"
    <3>1. table_pc'[t] = "double" /\ array'[t] = "segments" BY <1>4, <2>1, <2>3
    <3> QED BY <1>1, <1>3, <1>5, <1>6, <2>3, <3>1, CallersAssumption
          DEF Current, Capacity, Assigning, Larger
  <2> QED BY <1>4, <2>2, <2>3
<1>9. Sized' BY <1>3, <1>8, SizedFrame DEF TableInv
<1>10. EntriesKept BY <1>3, <1>8 DEF EntriesKept
<1>11. ASSUME NEW to \in Growing \cup {"new"}, NEW a \in Table!Arrays,
              \/ to = "grow" /\ a = "segment_status"
              \/ to = "double" /\ a = "segments",
              NEW b \in Nat, b = base[t],
              table_pc' = [table_pc EXCEPT ![t] = to], array' = [array EXCEPT ![t] = a]
       PROVE  TableInv'
  <2>1. /\ base' = [base EXCEPT ![t] = b]
        /\ allocating_lock' = IF to = "new" THEN Nobody ELSE t
    BY <1>5, <1>11
  <2>2. (table_pc[t] = "wait" /\ allocating_lock = Nobody) \/ table_pc[t] \in Growing
    BY <1>1 DEF Growing
  <2>3. \/ /\ table_pc[t] \in {"wait", "grow", "assign"} /\ to \in {"grow", "assign", "double"}
           /\ MAX_SEGMENTS' = MAX_SEGMENTS
        \/ table_pc[t] = "double" /\ to = "unlock" /\ MAX_SEGMENTS' = 2 * MAX_SEGMENTS
        \/ table_pc[t] = "unlock" /\ to = "new" /\ MAX_SEGMENTS' = MAX_SEGMENTS
    BY <1>1, <1>3, <1>11
  <2>4. /\ to \in {"double", "unlock", "new"} => a = "segments"
        /\ to = "assign" => b \in DOMAIN buffers'[a]
    BY <1>11
  <2>5. \A x \in Table!Arrays : DOMAIN buffers[x] \subseteq DOMAIN buffers'[x] BY <1>3
  <2> QED BY <1>2, <1>7, <1>9, <1>10, <1>11, <2>1, <2>2, <2>3, <2>4, <2>5, GrowthStep
<1>12. "grow" \in Growing \cup {"new"} /\ "double" \in Growing \cup {"new"} BY DEF Growing
<1> QED BY <1>4, <1>5, <1>11, <1>12

\* What realloc returns is in the place of the old buffer or numbered after all the
\* others; its first entries are the old ones, and the old buffer is gone.
LEMMA Grown ==
    ASSUME TableInv, NEW t \in Callers, NEW in_place \in BOOLEAN, Table!Realloc(t, in_place)
    PROVE  /\ table_pc[t] = "grow" /\ table_pc' = [table_pc EXCEPT ![t] = "assign"]
           /\ UNCHANGED <<n_segments, new_index, name, calls, returned, freed, disturbed>>
           /\ UNCHANGED <<MAX_SEGMENTS, member, allocating_lock, array>>
           /\ \E new \in Nat :
                 /\ base' = [base EXCEPT ![t] = new]
                 /\ new = member[array[t]] \/ new \notin DOMAIN buffers[array[t]]
                 /\ \E n \in Nat : DOMAIN buffers'[array[t]] = 1..n
                 /\ DOMAIN buffers'[array[t]] = DOMAIN buffers[array[t]] \cup {new}
                 /\ DOMAIN buffers' = DOMAIN buffers
                 /\ \A x \in Table!Arrays : x # array[t] => buffers'[x] = buffers[x]
                 /\ buffers'[array[t]][new] = Table!grown(array[t], member[array[t]])
                 /\ \A b \in DOMAIN buffers[array[t]] : b # new =>
                       buffers'[array[t]][b] = IF b = member[array[t]] THEN Table!Released
                                               ELSE buffers[array[t]][b]
<1> USE DEF Table!Realloc, Table!Still, Table!Go
<1>1. /\ table_pc[t] = "grow" /\ table_pc' = [table_pc EXCEPT ![t] = "assign"]
      /\ UNCHANGED <<MAX_SEGMENTS, member, allocating_lock, array>>
  OBVIOUS
<1>2. UNCHANGED <<n_segments, new_index, name, calls, returned, freed, disturbed>>
  BY DEF Table!past
<1> DEFINE A == array[t]
           old == member[A]
           new == IF in_place THEN old ELSE Table!Cardinality(DOMAIN buffers[A]) + 1
<1>3. /\ buffers' = [buffers EXCEPT ![A] = [b \in DOMAIN @ \cup {new} |->
                        IF b = new THEN Table!grown(A, old)
                        ELSE IF b = old THEN Table!Released ELSE @[b]]]
      /\ base' = [base EXCEPT ![t] = new]
  OBVIOUS
<1> HIDE DEF Table!Realloc, Table!Still, Table!Go
<1>4. A \in Table!Arrays BY DEF TableInv, TableTypes
<1>5. PICK n \in Nat : DOMAIN buffers[A] = 1..n BY <1>4 DEF TableInv, Heap
<1>6. Table!Cardinality(DOMAIN buffers[A]) = n
  <2>1. Cardinality(1..n) = n BY <1>5, FS_Interval
  <2>2. Table!Cardinality(1..n) = Cardinality(1..n) BY DEF Table!Cardinality, Cardinality
  <2> QED BY <1>5, <2>1, <2>2
<1>7. old \in 1..n /\ DOMAIN buffers = Table!Arrays BY <1>4, <1>5 DEF TableInv, Heap
<1>8. new = old \/ new = n + 1 BY <1>6, Zenon
<1> HIDE DEF new
<1>9. DOMAIN buffers[A] \cup {new} = 1..n \/ DOMAIN buffers[A] \cup {new} = 1..(n + 1)
  BY <1>5, <1>7, <1>8
<1> HIDE DEF A, old
<1>10. /\ DOMAIN buffers' = DOMAIN buffers
       /\ \A x \in Table!Arrays : x # A => buffers'[x] = buffers[x]
       /\ buffers'[A] = [b \in DOMAIN buffers[A] \cup {new} |->
                           IF b = new THEN Table!grown(A, old)
                           ELSE IF b = old THEN Table!Released ELSE buffers[A][b]]
  BY <1>3, <1>4, <1>7
<1>11. /\ DOMAIN buffers'[A] = DOMAIN buffers[A] \cup {new}
       /\ buffers'[A][new] = Table!grown(A, old)
       /\ \A b \in DOMAIN buffers[A] : b # new =>
             buffers'[A][b] = IF b = old THEN Table!Released ELSE buffers[A][b]
  BY <1>10
<1>12. \E k \in Nat : DOMAIN buffers'[A] = 1..k BY <1>9, <1>11
<1>13. new \in Nat /\ (new = old \/ new \notin DOMAIN buffers[A]) BY <1>5, <1>7, <1>8
<1> QED BY <1>1, <1>2, <1>3, <1>10, <1>11, <1>12, <1>13 DEF A, old

LEMMA ReallocStep ==
    ASSUME TableInv, NEW t \in Callers, NEW in_place \in BOOLEAN, Table!Realloc(t, in_place)
    PROVE  TableInv'
<1>1. /\ table_pc[t] = "grow" /\ table_pc' = [table_pc EXCEPT ![t] = "assign"]
      /\ UNCHANGED <<MAX_SEGMENTS, member, allocating_lock, array>>
  BY Grown
<1>2. UNCHANGED <<n_segments, new_index, name, calls, returned, freed, disturbed>> BY Grown
<1> DEFINE A == array[t]
           old == member[A]
<1>3. PICK new \in Nat :
         /\ base' = [base EXCEPT ![t] = new]
         /\ new = old \/ new \notin DOMAIN buffers[A]
         /\ \E n \in Nat : DOMAIN buffers'[A] = 1..n
         /\ DOMAIN buffers'[A] = DOMAIN buffers[A] \cup {new}
         /\ DOMAIN buffers' = DOMAIN buffers
         /\ \A x \in Table!Arrays : x # A => buffers'[x] = buffers[x]
         /\ buffers'[A][new] = Table!grown(A, old)
         /\ \A b \in DOMAIN buffers[A] : b # new =>
               buffers'[A][b] = IF b = old THEN Table!Released ELSE buffers[A][b]
  BY Grown
<1>4. /\ A \in Table!Arrays /\ MAX_SEGMENTS \in Nat \ {0}
      /\ allocating_lock = t /\ allocating_lock' = t
      /\ table_pc'[t] = "assign" /\ array'[t] = A /\ base'[t] = new
      /\ array' = [array EXCEPT ![t] = A]
      /\ \A x \in Table!Arrays : x = "segments" \/ x = "segment_status"
  BY <1>1, <1>3 DEF TableInv, TableTypes, Calls, Growing, Table!Arrays
<1>5. /\ Current(A) = old /\ Capacity(A) = MAX_SEGMENTS
      /\ \A x \in Table!Arrays : x = A => Current(x)' = new /\ Capacity(x)' = 2 * MAX_SEGMENTS
      /\ \A x \in Table!Arrays : x # A => Current(x)' = Current(x) /\ Capacity(x)' = Capacity(x)
      /\ \A x \in Table!Arrays : Capacity(x) >= MAX_SEGMENTS
  <2>1. ~Larger(A) /\ \A x : ~Assigning(x)
    BY <1>1, <1>4 DEF Assigning, Larger
  <2>2. Larger(A)' /\ Assigning(A)' /\ \A x : x # A => ~Assigning(x)'
    BY <1>1, <1>4, CallersAssumption DEF Assigning, Larger
  <2>3. \A x \in Table!Arrays : x # A => (Larger(x)' <=> Larger(x))
    BY <1>1, <1>4, CallersAssumption DEF Assigning, Larger
  <2> QED BY <1>1, <1>4, <2>1, <2>2, <2>3 DEF Current, Capacity
<1>6. /\ DOMAIN buffers = Table!Arrays /\ old \in DOMAIN buffers[A]
      /\ DOMAIN buffers[A][old].entry = 0..(MAX_SEGMENTS - 1)
      /\ \A b \in DOMAIN buffers[A] : buffers[A][b].live <=> b = old
      /\ \A i \in 0..(MAX_SEGMENTS - 1) : buffers[A][old].entry[i] \in EntryTypes(A)
      /\ \A x \in Table!Arrays :
            /\ member[x] \in DOMAIN buffers[x]
            /\ \E n \in Nat : DOMAIN buffers[x] = 1..n
            /\ \A b \in DOMAIN buffers[x] :
                  /\ DOMAIN buffers[x][b] = {"live", "entry"}
                  /\ buffers[x][b].live \in BOOLEAN
                  /\ \A i \in DOMAIN buffers[x][b].entry : buffers[x][b].entry[i] \in EntryTypes(x)
  <2>1. /\ old \in DOMAIN buffers[A]
        /\ DOMAIN buffers[A][old].entry = 0..(MAX_SEGMENTS - 1)
        /\ \A b \in DOMAIN buffers[A] : buffers[A][b].live <=> b = old
    <3>1. Current(A) = old /\ Capacity(A) = MAX_SEGMENTS /\ A \in Table!Arrays BY <1>4, <1>5
    <3> HIDE DEF A, old
    <3> QED BY <3>1 DEF TableInv, Sized
  <2>2. /\ DOMAIN buffers = Table!Arrays
        /\ \A x \in Table!Arrays :
            /\ member[x] \in DOMAIN buffers[x]
            /\ \E n \in Nat : DOMAIN buffers[x] = 1..n
            /\ \A b \in DOMAIN buffers[x] :
                  /\ DOMAIN buffers[x][b] = {"live", "entry"}
                  /\ buffers[x][b].live \in BOOLEAN
                  /\ \A i \in DOMAIN buffers[x][b].entry : buffers[x][b].entry[i] \in EntryTypes(x)
    BY DEF TableInv, Heap
  <2>3. A \in Table!Arrays BY <1>4
  <2> HIDE DEF A, old
  <2> QED BY <2>1, <2>2, <2>3
<1> HIDE DEF A, old
<1> DEFINE whole == Table!grown(A, old)
<1>7. /\ DOMAIN whole = {"live", "entry"} /\ whole.live = TRUE
      /\ DOMAIN whole.entry = 0..(2 * MAX_SEGMENTS - 1)
      /\ \A i \in 0..(2 * MAX_SEGMENTS - 1) : whole.entry[i] =
            IF i \in 0..(MAX_SEGMENTS - 1) THEN buffers[A][old].entry[i] ELSE Table!Garbage
  <2>1. whole = [live |-> TRUE,
                 entry |-> [i \in 0..(2 * MAX_SEGMENTS - 1) |-> Table!Entry(A, old, i)]]
    BY DEF Table!grown, Table!Size
  <2>2. \A i : Table!Entry(A, old, i) =
           IF i \in 0..(MAX_SEGMENTS - 1) THEN buffers[A][old].entry[i] ELSE Table!Garbage
    BY <1>6 DEF Table!Entry
  <2> QED BY <2>1, <2>2
<1> HIDE DEF whole
<1>8. buffers'[A][new] = whole BY <1>3 DEF whole
<1>9. Table!Garbage \in EntryTypes(A) BY DEF EntryTypes
<1>10. /\ DOMAIN Table!Released = {"live", "entry"} /\ Table!Released.live = FALSE
       /\ DOMAIN Table!Released.entry = {}
  BY DEF Table!Released
<1>11. ASSUME NEW b \in DOMAIN buffers'[A]
       PROVE  /\ DOMAIN buffers'[A][b] = {"live", "entry"}
              /\ buffers'[A][b].live \in BOOLEAN
              /\ \A i \in DOMAIN buffers'[A][b].entry : buffers'[A][b].entry[i] \in EntryTypes(A)
              /\ buffers'[A][b].live <=> b = new
  <2>1. CASE b = new
    <3>1. whole.live \in BOOLEAN BY <1>7, Zenon
    <3>2. \A i \in 0..(2 * MAX_SEGMENTS - 1) : whole.entry[i] \in EntryTypes(A) BY <1>6, <1>7, <1>9
    <3>3. whole.live <=> TRUE BY <1>7, Zenon
    <3> QED BY <1>7, <1>8, <2>1, <3>1, <3>2, <3>3
  <2>2. CASE b # new /\ b = old
    <3>1. buffers'[A][b] = Table!Released BY <1>3, <1>6, <2>2
    <3>2. Table!Released.live \in BOOLEAN /\ ~Table!Released.live BY <1>10, Zenon
    <3> QED BY <1>10, <2>2, <3>1, <3>2
  <2>3. CASE b # new /\ b # old
    <3>1. b \in DOMAIN buffers[A] /\ buffers'[A][b] = buffers[A][b] BY <1>3, <2>3
    <3> QED BY <1>4, <1>6, <2>3, <3>1
  <2> QED BY <2>1, <2>2, <2>3
<1>12. \A x : EntryTypes(x)' = EntryTypes(x) BY <1>2 DEF EntryTypes
<1>13. Heap'
  <2>1. member' \in [Table!Arrays -> Nat] /\ DOMAIN buffers' = Table!Arrays
    BY <1>1, <1>3, <1>6 DEF TableInv, Heap
  <2>2. ASSUME NEW x \in Table!Arrays
        PROVE  /\ \E n \in Nat : DOMAIN buffers'[x] = 1..n
               /\ member'[x] \in DOMAIN buffers'[x]
               /\ \A b \in DOMAIN buffers'[x] :
                     /\ DOMAIN buffers'[x][b] = {"live", "entry"}
                     /\ buffers'[x][b].live \in BOOLEAN
                     /\ \A i \in DOMAIN buffers'[x][b].entry : buffers'[x][b].entry[i] \in EntryTypes(x)'
    <3>1. CASE x = A
      <4>1. member'[A] \in DOMAIN buffers'[A] BY <1>1, <1>3, <1>4, <1>6
      <4> QED BY <1>3, <1>11, <1>12, <3>1, <4>1
    <3>2. CASE x # A
      <4>1. buffers'[x] = buffers[x] /\ member' = member BY <1>1, <1>3, <3>2
      <4> QED BY <1>6, <1>12, <4>1
    <3> QED BY <3>1, <3>2
  <2> QED BY <2>1, <2>2 DEF Heap
<1>14. Sized'
  <2>1. ASSUME NEW x \in Table!Arrays
        PROVE  /\ Current(x)' \in DOMAIN buffers'[x]
               /\ DOMAIN buffers'[x][Current(x)'].entry = 0..(Capacity(x)' - 1)
               /\ \A b \in DOMAIN buffers'[x] : buffers'[x][b].live <=> b = Current(x)'
    <3>1. CASE x = A
      <4>1. new \in DOMAIN buffers'[A] BY <1>3
      <4>2. \A b \in DOMAIN buffers'[A] : buffers'[A][b].live <=> b = new BY <1>11
      <4> QED BY <1>5, <1>7, <1>8, <3>1, <4>1, <4>2
    <3>2. CASE x # A
      <4>1. buffers'[x] = buffers[x] /\ Current(x)' = Current(x) /\ Capacity(x)' = Capacity(x)
        BY <1>3, <1>5, <3>2
      <4> QED BY <4>1 DEF TableInv, Sized
    <3> QED BY <3>1, <3>2
  <2> QED BY <2>1 DEF Sized
<1>15. EntriesKept
  <2>1. ASSUME NEW x \in Table!Arrays, NEW i \in 0..(MAX_SEGMENTS - 1)
        PROVE  buffers'[x][Current(x)'].entry[i] = buffers[x][Current(x)].entry[i]
    <3>1. CASE x = A
      <4>1. i \in 0..(2 * MAX_SEGMENTS - 1) BY <1>4
      <4>2. whole.entry[i] = buffers[A][old].entry[i] BY <1>7, <4>1
      <4> QED BY <1>5, <1>8, <3>1, <4>2
    <3>2. CASE x # A BY <1>3, <1>5, <3>2
    <3> QED BY <3>1, <3>2
  <2> QED BY <2>1 DEF EntriesKept
<1>16. ASSUME NEW to \in Growing \cup {"new"}, to = "assign", NEW a \in Table!Arrays, a = A
       PROVE  TableInv'
  <2>1. /\ table_pc' = [table_pc EXCEPT ![t] = to] /\ array' = [array EXCEPT ![t] = a]
        /\ base' = [base EXCEPT ![t] = new]
        /\ allocating_lock' = IF to = "new" THEN Nobody ELSE t
    BY <1>1, <1>3, <1>4, <1>16
  <2>2. (table_pc[t] = "wait" /\ allocating_lock = Nobody) \/ table_pc[t] \in Growing
    BY <1>1 DEF Growing
  <2>3. \/ /\ table_pc[t] \in {"wait", "grow", "assign"} /\ to \in {"grow", "assign", "double"}
           /\ MAX_SEGMENTS' = MAX_SEGMENTS
        \/ table_pc[t] = "double" /\ to = "unlock" /\ MAX_SEGMENTS' = 2 * MAX_SEGMENTS
        \/ table_pc[t] = "unlock" /\ to = "new" /\ MAX_SEGMENTS' = MAX_SEGMENTS
    BY <1>1, <1>16
  <2>4. /\ to \in {"double", "unlock", "new"} => a = "segments"
        /\ to = "assign" => new \in DOMAIN buffers'[a]
    BY <1>3, <1>16
  <2>5. \A x \in Table!Arrays : DOMAIN buffers[x] \subseteq DOMAIN buffers'[x] BY <1>3
  <2> QED BY <1>2, <1>13, <1>14, <1>15, <2>1, <2>2, <2>3, <2>4, <2>5, GrowthStep
<1> QED BY <1>4, <1>16 DEF Growing

-----------------------------------------------------------------------------
(* The invariant, and what follows from it *)

LEMMA TableNextInv ==
    ASSUME TableInv, Table!Next
    PROVE  TableInv'
<1>1. PICK t \in Callers :
         \/ Table!FetchIndex(t) \/ Table!CompareMaximum(t)
         \/ Table!TryLock(t) \/ Table!GiveUpWaiting(t)
         \/ \E in_place \in BOOLEAN : Table!Realloc(t, in_place)
         \/ Table!Assign(t) \/ Table!DoubleMaximum(t) \/ Table!Unlock(t)
         \/ Table!LoadTable(t) \/ Table!StoreEntry(t)
         \/ \E i \in 0..MaxAllocations : Table!LookupTable(t, i) \/ Table!FreeLookup(t, i)
         \/ Table!LookupEntry(t) \/ Table!Mark(t)
  BY DEF Table!Next
<1>2. CASE Table!FetchIndex(t) BY <1>2, FetchIndexStep
<1>3. CASE Table!TryLock(t) BY <1>3, TryLockStep
<1>4. CASE Table!GiveUpWaiting(t) BY <1>4, GiveUpWaitingStep
<1>5. CASE \E in_place \in BOOLEAN : Table!Realloc(t, in_place) BY <1>5, ReallocStep
<1>6. CASE Table!Assign(t) BY <1>6, AssignStep
<1>7. CASE Table!DoubleMaximum(t) BY <1>7, DoubleMaximumStep
<1>8. CASE Table!Unlock(t) BY <1>8, UnlockStep
<1>9. CASE Table!LoadTable(t) BY <1>9, LoadTableStep
<1>10. CASE Table!StoreEntry(t) BY <1>10, StoreEntryStep
<1>11. CASE \E i \in 0..MaxAllocations : Table!LookupTable(t, i) \/ Table!FreeLookup(t, i)
  <2>1. PICK i \in 0..MaxAllocations : Table!LookupTable(t, i) \/ Table!FreeLookup(t, i) BY <1>11
  <2>2. Table!Index(t, i, "segments", "lookup") \/ Table!Index(t, i, "segment_status", "mark")
    BY <2>1 DEF Table!LookupTable, Table!FreeLookup
  <2> QED BY <2>2, IndexStep
<1>12. CASE Table!LookupEntry(t) BY <1>12, LookupEntryStep
<1>13. CASE Table!Mark(t) BY <1>13, MarkStep
<1>14. CASE Table!CompareMaximum(t) BY <1>14, CompareMaximumStep
<1> QED BY <1>1, <1>2, <1>3, <1>4, <1>5, <1>6, <1>7, <1>8, <1>9, <1>10, <1>11, <1>12, <1>13, <1>14

LEMMA TableStill ==
    ASSUME TableInv, UNCHANGED tablePart
    PROVE  TableInv'
<1> USE DEF TableInv, tablePart
<1>1. TableTypes'
  <2>1. disturbed' \in BOOLEAN BY Zenon DEF TableTypes
  <2> QED BY <2>1 DEF TableTypes
<1>2. Heap'
  <2>1. \A x : EntryTypes(x)' = EntryTypes(x) BY DEF EntryTypes
  <2> QED BY <2>1 DEF Heap
<1>3. Calls' BY DEF Calls
<1>4. \A x \in Table!Arrays : Current(x)' = Current(x) /\ Capacity(x)' = Capacity(x)
  BY DEF Current, Capacity, Assigning, Larger
<1>5. Sized' BY <1>4, SizedFrame
<1>6. ASSUME ~disturbed' PROVE Undisturbed'
  <2>1. ~disturbed BY <1>6
  <2> QED BY <2>1 DEF Undisturbed, Covered, Table!Alone
<1>7. ASSUME ~disturbed', calls' < IndexRange PROVE Leading'
  <2>1. \A x, i, e : Has(x, i, e)' <=> Has(x, i, e)
    <3>1. \A x : Current(x)' = Current(x) BY DEF Current, Assigning
    <3> QED BY <3>1 DEF Has
  <2>2. ~disturbed /\ calls < IndexRange BY <1>7
  <2> QED BY <2>1, <2>2 DEF Leading
<1> QED BY <1>1, <1>2, <1>3, <1>5, <1>6, <1>7

LEMMA TableFacts ==
    ASSUME TableInv
    PROVE  Table!TypeOK /\ Table!TableHoldsSegment /\ Table!IndexingSafe /\ Table!CapacityMatches
<1> USE DEF TableInv
<1>1. Table!TypeOK
  <2>1. Table!Size(IndexRange) = 0..(IndexRange - 1) BY DEF Table!Size
  <2>2. DOMAIN member = Table!Arrays BY DEF Heap
  <2>3. \A b \in DOMAIN buffers["segments"] : \A i \in DOMAIN buffers["segments"][b].entry :
           buffers["segments"][b].entry[i] \in 0..calls \cup {Table!Garbage}
    BY DEF Heap, EntryTypes, Table!Arrays
  <2>4. \A b \in DOMAIN buffers["segment_status"] : \A i \in DOMAIN buffers["segment_status"][b].entry :
           buffers["segment_status"][b].entry[i] \in
              {Table!Garbage, Table!ABSENT, Table!IN_USE, Table!TO_BE_DELETED}
    BY DEF Heap, EntryTypes, Table!Arrays
  <2>5. table_pc \in [Callers -> {"out", "fetched", "wait", "grow", "assign", "double", "unlock",
                           "new", "store", "lookup", "mark"}]
    BY DEF TableTypes, Allocating, Growing
  <2>6. \A t \in Callers : \/ base[t] \in DOMAIN buffers[array[t]] \cup {Table!NoBuffer}
                           \/ table_pc[t] \in {"grow", "new", "double", "unlock"}
    BY <2>5 DEF Calls
  <2>7. \A a \in Table!Arrays :
          /\ member[a] \in DOMAIN buffers[a]
          /\ \A b \in DOMAIN buffers[a] : buffers[a][b].live \in BOOLEAN
    BY DEF Heap
  <2>8. DOMAIN buffers = Table!Arrays BY DEF Heap
  <2>9. disturbed \in BOOLEAN BY Zenon DEF TableTypes
  <2>10. /\ n_segments \in 0..(IndexRange - 1)
         /\ MAX_SEGMENTS \in Nat
         /\ allocating_lock \in Callers \cup {Nobody}
         /\ array \in [Callers -> Table!Arrays]
         /\ new_index \in [Callers -> 0..(IndexRange - 1)]
         /\ name \in [Callers -> 0..calls]
         /\ calls \in 0..MaxAllocations
         /\ returned \subseteq (0..(IndexRange - 1)) \X (0..calls)
         /\ freed \subseteq 0..(IndexRange - 1)
    BY DEF TableTypes
  <2> HIDE DEF TableInv
  <2> QED BY <2>1, <2>2, <2>3, <2>4, <2>5, <2>6, <2>7, <2>8, <2>9, <2>10 DEF Table!TypeOK
<1>2. ASSUME allocating_lock = Nobody
      PROVE  \A a \in Table!Arrays : Current(a) = member[a] /\ Capacity(a) = MAX_SEGMENTS
  BY <1>2 DEF Current, Capacity, Assigning, Larger
<1>3. Table!CapacityMatches
  BY <1>2 DEF Sized, Table!CapacityMatches, Table!Size
<1>4. ASSUME ~disturbed, calls < IndexRange, allocating_lock = Nobody
      PROVE  Table!IndexesLead /\ Table!StatusesKept
  <2>1. Leading /\ Undisturbed BY <1>4
  <2>2. \A s \in returned : s[1] \in 0..(MAX_SEGMENTS - 1)
    <3>1. MAX_SEGMENTS \in Nat /\ \A s \in returned : s[1] \in Nat BY DEF TableTypes
    <3> QED BY <2>1, <3>1 DEF Undisturbed
  <2>3. "segments" \in Table!Arrays /\ "segment_status" \in Table!Arrays BY DEF Table!Arrays
  <2>4. \A a \in Table!Arrays :
          /\ Current(a) = member[a]
          /\ DOMAIN buffers[a][member[a]].entry = 0..(MAX_SEGMENTS - 1)
    BY <1>2, <1>4 DEF Sized
  <2> QED BY <2>1, <2>2, <2>3, <2>4
        DEF Leading, Has, Table!IndexesLead, Table!StatusesKept, Table!Entry
<1>5. Table!TableHoldsSegment BY <1>4, Zenon DEF Table!TableHoldsSegment
<1>6. ASSUME ~disturbed, NEW t \in Callers, table_pc[t] \in {"store", "lookup", "mark"}
      PROVE  Table!Indexable(t)
  <2>1. Calm BY <1>6, InsideCalm
  <2>2. \A a \in Table!Arrays : Current(a) = member[a] /\ Capacity(a) = MAX_SEGMENTS
    BY <2>1, CalmCurrent
  <2>3. base[t] = member[array[t]] /\ new_index[t] < MAX_SEGMENTS BY <1>6 DEF Undisturbed
  <2>4. array[t] \in Table!Arrays /\ new_index[t] \in Nat /\ MAX_SEGMENTS \in Nat BY DEF TableTypes
  <2>5. /\ DOMAIN buffers[array[t]][base[t]].entry = 0..(MAX_SEGMENTS - 1)
        /\ buffers[array[t]][base[t]].live
    BY <2>2, <2>3, <2>4 DEF Sized
  <2> QED BY <2>3, <2>4, <2>5 DEF Table!Indexable
<1>7. Table!IndexingSafe BY <1>6, Zenon DEF Table!IndexingSafe
<1> QED BY <1>1, <1>3, <1>5, <1>7

-----------------------------------------------------------------------------
(* Election, of all four programs: nobody is announced twice in a round *)

\* The threads that are through with round n, announced or not.
Past(n) == {i \in Threads : r[i] > n \/ (r[i] = n /\ pc[i] = "release")}

Announced == \A n \in 0..(RUNS - 1) : nb_leaders[n] <= Cardinality(Past(n))

ElectionKept ==
    /\ ElectionTypeOK
    /\ program \in ElectionPrograms => ElectionTypes /\ ElectionRounds /\ Announced

LEMMA SomeThreads ==
    ASSUME NEW S \in SUBSET Threads
    PROVE  IsFiniteSet(S) /\ Cardinality(S) \in 0..THREADS
<1>1. IsFiniteSet(Threads) /\ Cardinality(Threads) = THREADS
  BY ProgramAssumption, FS_Interval DEF Threads
<1>2. IsFiniteSet(S) /\ Cardinality(S) <= THREADS BY <1>1, FS_Subset
<1>3. Cardinality(S) \in Nat BY <1>2, FS_CardinalityType
<1> QED BY <1>2, <1>3, ProgramAssumption

LEMMA PastFinite ==
    ASSUME NEW n
    PROVE  IsFiniteSet(Past(n)) /\ Cardinality(Past(n)) \in 0..THREADS
BY SomeThreads DEF Past

LEMMA KeptFirst == ElectionData /\ (program \in ElectionPrograms => ElectionInit) => ElectionKept
<1> SUFFICES ASSUME ElectionData, program \in ElectionPrograms => ElectionInit PROVE ElectionKept
  OBVIOUS
<1>1. ElectionTypeOK BY ProgramAssumption DEF ElectionData, ElectionTypeOK
<1>2. ASSUME program \in ElectionPrograms PROVE ElectionTypes /\ ElectionRounds /\ Announced
  <2>1. pc = [i \in Threads |-> Fst] /\ r = [i \in Threads |-> 0] BY <1>2 DEF ElectionInit, Start
  <2>2. Fst \in {"acquire", "test", "cas"} BY DEF Fst
  <2>3. ElectionTypes BY <1>1, <2>1, <2>2, ProgramAssumption DEF ElectionTypes, ElectionTypeOK
  <2>4. ElectionRounds BY <2>1, <2>2, ProgramAssumption DEF ElectionRounds
  <2>5. \A n \in 0..(RUNS - 1) : nb_leaders[n] = 0 BY DEF ElectionData
  <2> QED BY <2>3, <2>4, <2>5, PastFinite DEF Announced
<1> QED BY <1>1, <1>2 DEF ElectionKept

\* A step of thread i: it is announced at most when it leaves its round behind.
LEMMA KeptMove ==
    ASSUME ElectionKept, program \in ElectionPrograms, UNCHANGED program,
           NEW i \in Threads, NEW k \in {r[i], r[i] + 1},
           NEW to \in {"acquire", "test", "set", "announce", "release", "cas", "joined"},
           pc' = [pc EXCEPT ![i] = to], r' = [r EXCEPT ![i] = k],
           to = "joined" <=> k = RUNS, r[i] < RUNS, pc[i] = "release" => k = r[i] + 1,
           leader' \in [0..(RUNS - 1) -> 0..THREADS],
           \/ nb_leaders' = nb_leaders
           \/ /\ nb_leaders' = [nb_leaders EXCEPT ![r[i]] = @ + 1]
              /\ pc[i] # "release" /\ (k = r[i] + 1 \/ to = "release")
    PROVE  ElectionKept'
<1>1. /\ ElectionTypes /\ ElectionRounds /\ Announced /\ RUNS \in Nat
      /\ \A j \in Threads : r[j] \in Nat
  BY ProgramAssumption DEF ElectionKept, ElectionTypes
<1>2. /\ pc'[i] = to /\ r'[i] = k /\ k \in 0..RUNS
      /\ \A j \in Threads : j # i => pc'[j] = pc[j] /\ r'[j] = r[j]
  BY <1>1 DEF ElectionTypes
<1>3. \A n \in 0..(RUNS - 1) : Past(n) \subseteq Past(n)'
  BY <1>1, <1>2 DEF Past
<1>4. \A n \in 0..(RUNS - 1) :
        /\ Cardinality(Past(n)) \in Nat /\ Cardinality(Past(n)') \in 0..THREADS
        /\ Cardinality(Past(n)) <= Cardinality(Past(n)')
  <2>1. \A n : /\ IsFiniteSet(Past(n)) /\ Cardinality(Past(n)) \in 0..THREADS
    BY PastFinite
  <2>2. \A n : IsFiniteSet(Past(n)') /\ Cardinality(Past(n)') \in 0..THREADS
    <3>1. \A n : Past(n)' \in SUBSET Threads BY DEF Past
    <3> QED BY <3>1, SomeThreads
  <2>3. \A n \in 0..(RUNS - 1) : Cardinality(Past(n)) <= Cardinality(Past(n)')
    BY <1>3, <2>2, FS_Subset
  <2> QED BY <2>1, <2>2, <2>3
<1>5. nb_leaders' \in [0..(RUNS - 1) -> Nat]
  <2>1. nb_leaders \in [0..(RUNS - 1) -> Nat] BY <1>1 DEF ElectionTypes
  <2>2. CASE nb_leaders' = nb_leaders BY <2>1, <2>2
  <2>3. CASE nb_leaders' = [nb_leaders EXCEPT ![r[i]] = @ + 1]
    <3>1. r[i] \in 0..(RUNS - 1) BY <1>1
    <3>2. nb_leaders[r[i]] + 1 \in Nat BY <2>1, <3>1
    <3> QED BY <2>1, <2>3, <3>2
  <2> QED BY <2>2, <2>3
<1>6. Announced'
  <2> SUFFICES ASSUME NEW n \in 0..(RUNS - 1) PROVE nb_leaders'[n] <= Cardinality(Past(n)')
    BY DEF Announced
  <2>1. nb_leaders[n] \in Nat /\ nb_leaders[n] <= Cardinality(Past(n))
    BY <1>1 DEF Announced, ElectionTypes
  <2>2. CASE nb_leaders'[n] = nb_leaders[n] BY <1>4, <2>1, <2>2
  <2>3. CASE nb_leaders'[n] # nb_leaders[n]
    <3>1. /\ n = r[i] /\ nb_leaders'[n] = nb_leaders[n] + 1
          /\ pc[i] # "release" /\ (k = r[i] + 1 \/ to = "release")
      BY <1>1, <2>3 DEF ElectionTypes
    <3>2. i \notin Past(n) /\ i \in Past(n)' BY <1>1, <1>2, <3>1 DEF Past
    <3>3. Past(n) \cup {i} \subseteq Past(n)' BY <1>3, <3>2
    <3>4. IsFiniteSet(Past(n)) /\ IsFiniteSet(Past(n)')
      <4>1. Past(n)' \in SUBSET Threads BY DEF Past
      <4> QED BY <4>1, PastFinite, SomeThreads
    <3>5. Cardinality(Past(n) \cup {i}) = Cardinality(Past(n)) + 1 BY <3>2, <3>4, FS_AddElement
    <3>6. Cardinality(Past(n) \cup {i}) <= Cardinality(Past(n)') BY <3>3, <3>4, FS_Subset
    <3> QED BY <1>4, <2>1, <3>1, <3>5, <3>6
  <2> QED BY <2>2, <2>3
<1>7. ElectionTypes'
  <2>1. pc' \in [Threads -> {"acquire", "test", "set", "announce", "release", "cas", "joined"}]
        /\ r' \in [Threads -> 0..RUNS]
    BY <1>1, <1>2 DEF ElectionTypes
  <2>2. leader' \in [0..(RUNS - 1) -> Nat] BY ProgramAssumption
  <2> QED BY <1>5, <2>1, <2>2 DEF ElectionTypes
<1>8. ElectionRounds' BY <1>1, <1>2 DEF ElectionRounds
<1>9. ElectionTypeOK'
  <2>1. \A n \in 0..(RUNS - 1) : nb_leaders'[n] \in 0..THREADS
    BY <1>4, <1>5, <1>6, ProgramAssumption DEF Announced
  <2> QED BY <1>5, <2>1 DEF ElectionTypeOK
<1> QED BY <1>6, <1>7, <1>8, <1>9 DEF ElectionKept

\* The three ways of such a step.
LEMMA KeptGo ==
    ASSUME ElectionKept, program \in ElectionPrograms, UNCHANGED program, NEW i \in Threads,
           NEW from \in {"acquire", "test", "set", "announce", "cas"},
           NEW to \in {"acquire", "test", "set", "announce", "release", "cas"}, Go(i, from, to),
           leader' \in [0..(RUNS - 1) -> 0..THREADS],
           \/ nb_leaders' = nb_leaders
           \/ nb_leaders' = [nb_leaders EXCEPT ![r[i]] = @ + 1] /\ to = "release"
    PROVE  ElectionKept'
<1>1. pc[i] = from /\ pc' = [pc EXCEPT ![i] = to] /\ r' = r BY DEF Go
<1>2. ElectionTypes /\ ElectionRounds BY DEF ElectionKept
<1>3. /\ r' = [r EXCEPT ![i] = r[i]] /\ r[i] < RUNS /\ pc[i] # "release" /\ r[i] # RUNS
  BY <1>1, <1>2, ProgramAssumption DEF ElectionTypes, ElectionRounds
<1>4. ASSUME NEW k \in {r[i], r[i] + 1}, k = r[i],
             NEW onto \in {"acquire", "test", "set", "announce", "release", "cas", "joined"}, onto = to
      PROVE  ElectionKept'
  <2>1. /\ pc' = [pc EXCEPT ![i] = onto] /\ r' = [r EXCEPT ![i] = k] /\ r[i] < RUNS
    BY <1>1, <1>3, <1>4
  <2>2. (onto = "joined" <=> k = RUNS) /\ (pc[i] = "release" => k = r[i] + 1) BY <1>3, <1>4
  <2>3. \/ nb_leaders' = nb_leaders
        \/ /\ nb_leaders' = [nb_leaders EXCEPT ![r[i]] = @ + 1]
           /\ pc[i] # "release" /\ (k = r[i] + 1 \/ onto = "release")
    BY <1>3, <1>4
  <2> QED BY <2>1, <2>2, <2>3, KeptMove
<1> QED BY <1>4

LEMMA KeptNext ==
    ASSUME ElectionKept, program \in ElectionPrograms, UNCHANGED program, NEW i \in Threads,
           NEW from \in {"test", "announce", "release", "cas"}, NextRound(i, from, Fst, 1),
           UNCHANGED leader,
           \/ nb_leaders' = nb_leaders
           \/ nb_leaders' = [nb_leaders EXCEPT ![r[i]] = @ + 1] /\ from = "announce"
    PROVE  ElectionKept'
<1>1. /\ pc[i] = from /\ r' = [r EXCEPT ![i] = r[i] + 1]
      /\ pc' = [pc EXCEPT ![i] = IF r[i] + 1 < RUNS THEN Fst ELSE "joined"]
  BY DEF NextRound
<1>2. ElectionTypes /\ ElectionRounds /\ ElectionTypeOK BY DEF ElectionKept
<1>3. r[i] \in 0..RUNS /\ r[i] < RUNS
  BY <1>1, <1>2, ProgramAssumption DEF ElectionTypes, ElectionRounds
<1>4. leader' \in [0..(RUNS - 1) -> 0..THREADS] BY <1>2 DEF ElectionTypeOK
<1>5. Fst \in {"acquire", "test", "cas"} BY DEF Fst
<1>6. ASSUME NEW k \in {r[i], r[i] + 1}, k = r[i] + 1,
             NEW onto \in {"acquire", "test", "set", "announce", "release", "cas", "joined"},
             onto = IF r[i] + 1 < RUNS THEN Fst ELSE "joined"
      PROVE  ElectionKept'
  <2>1. pc' = [pc EXCEPT ![i] = onto] /\ r' = [r EXCEPT ![i] = k] /\ r[i] < RUNS
    BY <1>1, <1>3, <1>6
  <2>2. (onto = "joined" <=> k = RUNS) /\ (pc[i] = "release" => k = r[i] + 1)
    BY <1>3, <1>5, <1>6, ProgramAssumption
  <2>3. \/ nb_leaders' = nb_leaders
        \/ /\ nb_leaders' = [nb_leaders EXCEPT ![r[i]] = @ + 1]
           /\ pc[i] # "release" /\ (k = r[i] + 1 \/ onto = "release")
    BY <1>1, <1>6
  <2> QED BY <1>4, <2>1, <2>2, <2>3, KeptMove
<1> QED BY <1>5, <1>6

LEMMA KeptStep ==
    ASSUME ElectionKept, program \in ElectionPrograms, NEW i \in Threads, ElectionStep(i)
    PROVE  ElectionKept'
<1>1. UNCHANGED program BY DEF ElectionStep
<1>2. ElectionTypes /\ ElectionTypeOK BY DEF ElectionKept
<1>3. ASSUME Elected PROVE ElectionKept'
  <2>1. UNCHANGED <<program, pc, r, leader, nb_leaders>>
    BY <1>1, <1>3 DEF Elected, Verdict, OnlyRounds, steps
  <2>2. \A n : Past(n)' = Past(n) BY <2>1 DEF Past
  <2> QED BY <2>1, <2>2
        DEF ElectionKept, ElectionTypeOK, ElectionTypes, ElectionRounds, Announced
<1>4. ASSUME OnlyRounds
      PROVE  leader' \in [0..(RUNS - 1) -> 0..THREADS] /\ nb_leaders' = nb_leaders /\ leader' = leader
  BY <1>2, <1>4 DEF OnlyRounds, ElectionTypeOK
<1>5. tid(i) \in 0..THREADS BY ProgramAssumption DEF tid, Threads
<1>6. ASSUME NEW L, L = [leader EXCEPT ![r[i]] = tid(i)]
      PROVE  L \in [0..(RUNS - 1) -> 0..THREADS]
  BY <1>2, <1>5, <1>6 DEF ElectionTypeOK
<1>7. leader' = leader => leader' \in [0..(RUNS - 1) -> 0..THREADS] BY <1>2 DEF ElectionTypeOK
<1>8. ASSUME Set(i) PROVE ElectionKept'
  <2>1. leader' \in [0..(RUNS - 1) -> 0..THREADS] /\ nb_leaders' = nb_leaders
    BY <1>6, <1>8 DEF Set
  <2>2. Go(i, "set", "announce") BY <1>8 DEF Set
  <2> QED BY <1>1, <2>1, <2>2, KeptGo
<1>9. ASSUME OnlyRounds, Go(i, "test", "set") PROVE ElectionKept'
  BY <1>1, <1>4, <1>9, KeptGo
<1>10. ASSUME NextRound(i, "announce", Fst, 1), Announce(i) PROVE ElectionKept'
  <2>1. /\ leader' = leader /\ nb_leaders' = [nb_leaders EXCEPT ![r[i]] = @ + 1]
    BY <1>10 DEF Announce
  <2> QED BY <1>1, <1>10, <2>1, KeptNext
<1>11. ASSUME OnlyRounds, NEW from \in {"test", "release", "cas"}, NextRound(i, from, Fst, 1)
       PROVE  ElectionKept'
  BY <1>1, <1>4, <1>11, KeptNext
<1>12. CASE program \in {"election1", "election3"}
  <2>1. \/ Elected
        \/ OnlyRounds /\ Go(i, "test", "set")
        \/ OnlyRounds /\ NextRound(i, "test", Fst, 1)
        \/ Set(i)
        \/ NextRound(i, "announce", Fst, 1) /\ Announce(i)
    BY <1>12 DEF ElectionStep, election1, election3, unsynchronized, Test
  <2> QED BY <1>3, <1>8, <1>9, <1>10, <1>11, <2>1
<1>13. CASE program = "election2"
  <2>1. \/ Elected
        \/ OnlyRounds /\ Go(i, "acquire", "test")
        \/ OnlyRounds /\ Go(i, "test", "set")
        \/ OnlyRounds /\ Go(i, "test", "release")
        \/ Set(i)
        \/ Go(i, "announce", "release") /\ Announce(i)
        \/ OnlyRounds /\ NextRound(i, "release", Fst, 1)
    BY <1>13 DEF ElectionStep, election2, Test
  <2>2. CASE OnlyRounds /\ Go(i, "acquire", "test") BY <1>1, <1>4, <2>2, KeptGo
  <2>3. CASE OnlyRounds /\ Go(i, "test", "release") BY <1>1, <1>4, <2>3, KeptGo
  <2>4. CASE Go(i, "announce", "release") /\ Announce(i)
    <3>1. leader' = leader /\ nb_leaders' = [nb_leaders EXCEPT ![r[i]] = @ + 1]
      BY <2>4 DEF Announce
    <3> QED BY <1>1, <1>7, <2>4, <3>1, KeptGo
  <2> QED BY <1>3, <1>8, <1>9, <1>11, <2>1, <2>2, <2>3, <2>4
<1>14. CASE program = "election4"
  <2>1. \/ Elected
        \/ NextRound(i, "cas", Fst, 1) /\ OnlyRounds
        \/ /\ Go(i, "cas", "announce") /\ UNCHANGED nb_leaders
           /\ leader' = [leader EXCEPT ![r[i]] = tid(i)]
        \/ NextRound(i, "announce", Fst, 1) /\ Announce(i)
    BY <1>14 DEF ElectionStep, election4
  <2>2. CASE /\ Go(i, "cas", "announce") /\ UNCHANGED nb_leaders
             /\ leader' = [leader EXCEPT ![r[i]] = tid(i)]
    <3>1. leader' \in [0..(RUNS - 1) -> 0..THREADS] BY <1>6, <2>2
    <3> QED BY <1>1, <2>2, <3>1, KeptGo
  <2> QED BY <1>3, <1>10, <1>11, <2>1, <2>2
<1> QED BY <1>12, <1>13, <1>14 DEF ElectionPrograms

LEMMA KeptStill ==
    ASSUME ElectionKept, UNCHANGED <<program, leader, nb_leaders>>,
           program \in ElectionPrograms => UNCHANGED <<pc, r>>
    PROVE  ElectionKept'
<1>1. ElectionTypeOK' BY DEF ElectionKept, ElectionTypeOK
<1>2. ASSUME program \in ElectionPrograms PROVE (ElectionTypes /\ ElectionRounds /\ Announced)'
  <2>1. ElectionTypes /\ ElectionRounds /\ Announced /\ UNCHANGED <<pc, r>>
    BY <1>2 DEF ElectionKept
  <2>2. \A n : Past(n)' = Past(n) BY <2>1 DEF Past
  <2> QED BY <2>1, <2>2 DEF ElectionTypes, ElectionRounds, Announced
<1> QED BY <1>1, <1>2 DEF ElectionKept

-----------------------------------------------------------------------------
(* What TypeOK still says of a worker *)

InterfaceTypes ==
    /\ operations \in 0..MaxOperations
    /\ Len(doing) <= 3
    /\ raised \in {"none", "begin", "retry", "alloc"}

LEMMA InterfaceTypesKept ==
    ASSUME InterfaceInv, InterfaceTypes, Interface!Next
    PROVE  InterfaceTypes'
<1> USE BoundsAssumption DEF InterfaceTypes
<1>0. MaxOperations \in Nat /\ doing \in Seq(Operations) BY DEF InterfaceInv
<1>1. CASE Interface!Begin
  <2>1. operations' = 0 /\ doing' = <<>> /\ raised' \in {"none", "begin"}
    BY <1>1 DEF Interface!Begin
  <2> QED BY <1>0, <2>1
<1>2. CASE Interface!Operation
  <2>1. /\ operations < MaxOperations /\ operations' = operations + 1 /\ raised' = raised
        /\ doing' \in {<<"read">>, <<"write">>, Interface!Shared_alloc, Interface!Shared_free}
    BY <1>2 DEF Interface!Operation
  <2>2. \/ doing' = <<"read">> \/ doing' = <<"write">>
        \/ doing' = <<"alloc", "write">> \/ doing' = <<"read", "free", "write">>
    BY <2>1, Zenon DEF Interface!Shared_alloc, Interface!Shared_free
  <2>3. /\ Len(<<"read">>) = 1 /\ Len(<<"write">>) = 1
        /\ Len(<<"alloc", "write">>) = 2 /\ Len(<<"read", "free", "write">>) = 3
    OBVIOUS
  <2>4. Len(doing') = 1 \/ Len(doing') = 2 \/ Len(doing') = 3 BY <2>2, <2>3, Zenon
  <2>5. \A k : (k = 1 \/ k = 2 \/ k = 3) => k <= 3 OBVIOUS
  <2>6. Len(doing') <= 3 BY <2>4, <2>5, Zenon
  <2> QED BY <1>0, <2>1, <2>6
<1>3. CASE Interface!Call
  <2>1. PICK answer \in Interface!answers(Head(doing)) :
         /\ raised' = CASE answer = "ok" -> "none" [] answer = "abort" -> "retry"
                        [] answer = "nomem" -> "alloc"
         /\ doing' = IF answer = "ok" THEN Tail(doing) ELSE <<>>
    BY <1>3 DEF Interface!Call
  <2>2. doing # <<>> /\ UNCHANGED operations BY <1>3 DEF Interface!Call
  <2>3. Head(doing) \in Operations BY <1>0, <2>2
  <2>4. answer \in {"ok", "abort", "nomem"} BY <2>3, Answers DEF InterfaceInv
  <2>5. Len(doing') <= 3 BY <1>0, <2>1, <2>2
  <2> QED BY <2>1, <2>2, <2>4, <2>5
<1>4. CASE Interface!Return BY <1>4 DEF Interface!Return, Interface!transaction
<1>5. CASE Interface!DestroyEnd
  <2>1. raised' = raised \/ raised' = "retry" BY <1>5 DEF Interface!DestroyEnd
  <2>2. UNCHANGED <<operations, doing>> BY <1>5 DEF Interface!DestroyEnd, Interface!transaction
  <2> QED BY <2>1, <2>2
<1>6. CASE Interface!DestroyAborted BY <1>6 DEF Interface!DestroyAborted, Interface!transaction
<1>7. CASE Interface!Leave BY <1>7 DEF Interface!Leave, Interface!transaction
<1> QED BY <1>1, <1>2, <1>3, <1>4, <1>5, <1>6, <1>7 DEF Interface!Next

-----------------------------------------------------------------------------
(* Parts: one of them runs, and the others stay as they are *)

CountingInv == program \in CounterPrograms => CounterInv /\ Made /\ CounterCorrect

ProconInv ==
    /\ program \in ProconPrograms => IInv
    /\ program \notin ProconPrograms => produced_until = 0 /\ consumed_until = 0

PartsInv ==
    /\ CountingInv /\ ElectionInv /\ ProconInv /\ LockInv /\ TableInv /\ InterfaceInv /\ DriverInv
    /\ ElectionKept /\ ProconTypeOK /\ InterfaceTypes

LEMMA ProgramStays == [Next]_vars => UNCHANGED program
BY DEF Next, vars, CountingThread, Candidate, Side, SpuriousWakeup, TheLock, TheTable, Worker,
       TheDriver, CounterStep, ElectionStep, ProconStep, Spurious, NoProgram

LEMMA PartsMapped == ProconInv => Mapping
<1> SUFFICES ASSUME ProconInv PROVE Mapping
  OBVIOUS
<1>1. CASE program \in ProconPrograms BY <1>1, Mapped DEF ProconInv
<1>2. CASE program \notin ProconPrograms
  <2>1. produced_until = 0 /\ consumed_until = 0 BY <1>2 DEF ProconInv
  <2>2. 0 - 0 = 0 /\ 1..0 = {} OBVIOUS
  <2> QED BY <2>1, <2>2, BufferAssumption DEF Mapping, Bounded, queue, taken, Data
<1> QED BY <1>1, <1>2

\* What a step is to each part.
LEMMA CountingSteps ==
    ASSUME [Next]_vars, program \in CounterPrograms
    PROVE  (\E t \in Threads : CounterStep(t)) \/ UNCHANGED counterVars
BY DEF Next, vars, programPart, counterPart, counterVars, CountingThread, Candidate, Side,
       SpuriousWakeup, TheLock, TheTable, Worker, TheDriver,
       CounterPrograms, ElectionPrograms, ProconPrograms

LEMMA ElectionSteps ==
    ASSUME [Next]_vars, program \in ElectionPrograms
    PROVE  (\E i \in Threads : ElectionStep(i)) \/ UNCHANGED electionVars
BY DEF Next, vars, programPart, electionPart, electionVars, CountingThread, Candidate, Side,
       SpuriousWakeup, TheLock, TheTable, Worker, TheDriver,
       CounterPrograms, ElectionPrograms, ProconPrograms

LEMMA NoElectionStep ==
    ASSUME [Next]_vars, program \notin ElectionPrograms
    PROVE  UNCHANGED electionPart
BY DEF Next, vars, programPart, CountingThread, Candidate, Side, SpuriousWakeup, TheLock, TheTable,
       Worker, TheDriver, NoProgram, ElectionPrograms

LEMMA ProconSteps ==
    ASSUME [Next]_vars
    PROVE  /\ program \in ProconPrograms => [ProconNext]_proconVars
           /\ program \notin ProconPrograms => UNCHANGED proconPart
<1>1. ASSUME program \in ProconPrograms PROVE [ProconNext]_proconVars
  BY <1>1 DEF Next, vars, programPart, proconPart, proconVars, CountingThread, Candidate, Side,
       SpuriousWakeup, TheLock, TheTable, Worker, TheDriver, ProconNext,
       CounterPrograms, ElectionPrograms, ProconPrograms
<1>2. ASSUME program \notin ProconPrograms PROVE UNCHANGED proconPart
  BY <1>2 DEF Next, vars, programPart, CountingThread, Candidate, Side,
       SpuriousWakeup, TheLock, TheTable, Worker, TheDriver, NoProgram, ProconPrograms
<1> QED BY <1>1, <1>2

LEMMA OtherSteps ==
    ASSUME [Next]_vars
    PROVE  /\ VLock!Next \/ UNCHANGED lockPart
           /\ Table!Next \/ UNCHANGED tablePart
           /\ Interface!Next \/ UNCHANGED interfacePart
           /\ DriverNext \/ UNCHANGED driverVars
BY DEF Next, vars, CountingThread, Candidate, Side, SpuriousWakeup, TheLock, TheTable, Worker,
       TheDriver, OnlyPrograms

\* The first state.
LEMMA InterfaceFirst == Interface!Init => InterfaceInv
<1> SUFFICES ASSUME Interface!Init PROVE InterfaceInv
  OBVIOUS
<1>1. doing = <<>> /\ aborted = FALSE BY DEF Interface!Init
<1>2. doing \in Seq(Operations) BY <1>1
<1>3. aborted \in BOOLEAN BY <1>1, Zenon
<1> QED BY <1>1, <1>2, <1>3 DEF Interface!Init, InterfaceInv

LEMMA PartsFirst ==
    ASSUME Init
    PROVE  PartsInv /\ Queue!Init /\ VLock!version_of(v) = 0 /\ Owner = Nobody
<1> USE DEF Init
<1>1. CountingInv
  <2>1. program \in CounterPrograms => CounterInit
    BY DEF ElectionInit, ProconInit, CounterPrograms, ElectionPrograms, ProconPrograms
  <2> QED BY <2>1, CounterFirst, MadeFirst DEF CountingInv
<1>2. ElectionInv
  <2>1. program \in {"election2", "election4"} => ElectionInit
    BY DEF CounterInit, ProconInit, CounterPrograms, ProconPrograms
  <2> QED BY <2>1, ElectionFirst DEF ElectionInv
<1>3. ProconInv
  <2>1. program \in ProconPrograms => ProconInit
    BY DEF CounterInit, ElectionInit, CounterPrograms, ElectionPrograms, ProconPrograms
  <2> QED BY <2>1, InitInv DEF ProconInv, ProconData
<1>4. Queue!Init BY QueueFirst
<1>5. LockInv /\ VLock!version_of(v) = 0 /\ Owner = Nobody BY LockFirst
<1>6. InterfaceInv BY InterfaceFirst
<1>7. DriverInv BY DriverFirst
<1>8. TableInv BY TableFirst
<1>9. ElectionKept
  <2>1. program \in ElectionPrograms => ElectionInit
    BY DEF CounterInit, ProconInit, CounterPrograms, ElectionPrograms, ProconPrograms
  <2> QED BY <2>1, KeptFirst
<1>10. ProconTypeOK
  <2>1. Zero \in [Halves -> 0..RUNS] BY ProgramAssumption DEF Zero
  <2> QED BY <2>1, BufferAssumption, ProgramAssumption DEF ProconData, ProconTypeOK
<1>11. InterfaceTypes BY BoundsAssumption DEF Interface!Init, InterfaceTypes
<1> QED BY <1>1, <1>2, <1>3, <1>4, <1>5, <1>6, <1>7, <1>8, <1>9, <1>10, <1>11 DEF PartsInv

\* Every step.
LEMMA PartsStep ==
    ASSUME PartsInv, [Next]_vars
    PROVE  /\ PartsInv'
           /\ [VLock!Atomic!Next]_<<VLock!version_of(v), Owner>>
<1> USE DEF PartsInv
<1>0. UNCHANGED program BY ProgramStays
<1>1. CountingInv'
  <2>1. SUFFICES ASSUME program \in CounterPrograms PROVE (CounterInv /\ Made /\ CounterCorrect)'
    BY <1>0 DEF CountingInv
  <2>2. CounterInv /\ Made /\ CounterCorrect BY <2>1 DEF CountingInv
  <2>3. ASSUME NEW t \in Threads, CounterStep(t) PROVE (CounterInv /\ Made /\ CounterCorrect)'
    <3>1. CounterInv' BY <2>2, <2>3, CounterNextInv DEF CounterNext
    <3> QED BY <2>2, <2>3, <3>1, MadeStep
  <2>4. ASSUME UNCHANGED counterVars PROVE (CounterInv /\ Made /\ CounterCorrect)'
    <3>1. CounterInv' BY <2>2, <2>4, CounterNextInv
    <3>2. Made' /\ CounterCorrect'
      BY <2>2, <2>4 DEF counterVars, steps, counters, Made, Done, Increments, CounterCorrect
    <3> QED BY <3>1, <3>2
  <2> QED BY <2>1, <2>3, <2>4, CountingSteps
<1>2. ElectionInv'
  <2>1. CASE program \in {"election2", "election4"}
    <3>1. (\E i \in Threads : ElectionStep(i)) \/ UNCHANGED electionVars
      BY <2>1, ElectionSteps DEF ElectionPrograms
    <3>2. CASE UNCHANGED electionVars
      BY <3>2, ElectionStill DEF electionVars, steps, lock
    <3> QED BY <3>1, <3>2, ElectionNextInv
  <2>2. CASE program \notin {"election2", "election4"} BY <1>0, <2>2 DEF ElectionInv
  <2> QED BY <2>1, <2>2
<1>3. ProconInv'
  <2>1. CASE program \in ProconPrograms
    BY <1>0, <2>1, ProconSteps, ProconNextInv DEF ProconInv
  <2>2. CASE program \notin ProconPrograms
    BY <1>0, <2>2, ProconSteps DEF ProconInv, proconPart, counts
  <2> QED BY <2>1, <2>2
<1>4. LockInv' /\ [VLock!Atomic!Next]_<<VLock!version_of(v), Owner>>
  <2>1. CASE VLock!Next BY <2>1, LockStep
  <2>2. CASE UNCHANGED lockPart
    BY <2>2 DEF lockPart, LockInv, VLock!TypeOK, VLock!MutualExclusion, VLock!Holding, Owner,
                VLock!version_of, VLock!lock_of, VLock!get_version_locked,
                VLock!form_version_locked, VLock!Wrap
  <2> QED BY <2>1, <2>2, OtherSteps
<1>5. InterfaceInv'
  <2>1. CASE UNCHANGED interfacePart BY <2>1 DEF interfacePart, InterfaceInv
  <2> QED BY <2>1, OtherSteps, InterfaceNextInv
<1>6. DriverInv' BY OtherSteps, DriverNextInv
<1>7. TableInv' BY OtherSteps, TableNextInv, TableStill
<1>8. ElectionKept'
  <2>1. CASE program \in ElectionPrograms
    <3>1. CASE UNCHANGED electionVars
      <4>1. UNCHANGED <<program, leader, nb_leaders, pc, r>> BY <3>1 DEF electionVars, steps
      <4> QED BY <4>1, KeptStill
    <3> QED BY <2>1, <3>1, ElectionSteps, KeptStep
  <2>2. CASE program \notin ElectionPrograms
    <3>1. UNCHANGED <<leader, nb_leaders>> BY <2>2, NoElectionStep DEF electionPart
    <3> QED BY <1>0, <2>2, <3>1, KeptStill
  <2> QED BY <2>1, <2>2
<1>9. ProconTypeOK'
  <2>1. CASE program \in ProconPrograms BY <1>0, <1>3, <2>1 DEF ProconInv, IInv, Types
  <2>2. CASE program \notin ProconPrograms
    BY <2>2, ProconSteps DEF ProconTypeOK, proconPart, data, counts
  <2> QED BY <2>1, <2>2
<1>10. InterfaceTypes'
  <2>1. CASE UNCHANGED interfacePart BY <2>1 DEF interfacePart, InterfaceTypes
  <2> QED BY <2>1, OtherSteps, InterfaceTypesKept
<1> QED BY <1>1, <1>2, <1>3, <1>4, <1>5, <1>6, <1>7, <1>8, <1>9, <1>10

\* The invariants of all the parts, however long they run.
THEOREM PartsInvariant == Spec => []PartsInv
<1>1. Init => PartsInv BY PartsFirst
<1>2. PartsInv /\ [Next]_vars => PartsInv' BY PartsStep
<1> QED BY <1>1, <1>2, PTL DEF Spec

\* Every part keeps its variables in their types: no counter of leaders passes the
\* number of threads, no version its bound, no index of a segment its 16 bits.
THEOREM PartsTypes == Spec => []TypeOK
<1>1. PartsInv => TypeOK
  <2> SUFFICES ASSUME PartsInv PROVE TypeOK
    OBVIOUS
  <2>1. program \in CounterPrograms => CounterTypeOK BY DEF PartsInv, CountingInv, CounterInv
  <2>2. ElectionTypeOK /\ ProconTypeOK BY DEF PartsInv, ElectionKept
  <2>3. VLock!TypeOK /\ Table!TypeOK /\ DriverTypeOK
    BY TableFacts DEF PartsInv, LockInv, DriverInv
  <2>4. Interface!TypeOK
    <3>1. InterfaceInv /\ InterfaceTypes BY DEF PartsInv
    <3>2. handle \in {"none", "open", "aborted", "committed", "misused"}
      BY <3>1, Zenon DEF InterfaceInv
    <3>3. doing \in Seq({"read", "write", "alloc", "free"}) /\ aborted \in BOOLEAN
      BY <3>1, Zenon DEF InterfaceInv, Operations
    <3> QED BY <3>1, <3>2, <3>3 DEF InterfaceInv, InterfaceTypes, Interface!TypeOK
  <2> QED BY <2>1, <2>2, <2>3, <2>4 DEF TypeOK
<1> QED BY <1>1, PartsInvariant, PTL

\* The mutex of lock.c, the playground's Lock, the spinlock and the lock of a word
\* let one thread in at a time, however many come.
THEOREM LocksExclude == Spec => []MutualExclusion
<1>1. PartsInv => MutualExclusion
  BY DEF PartsInv, CountingInv, CounterInv, ProconInv, IInv, Exclusion, LockInv,
         MutualExclusion, ProconPrograms
<1> QED BY <1>1, PartsInvariant, PTL

\* Every increment behind a lock, or made by one atomic step, is in the counter.
THEOREM PartsLoseNothing == Spec => []NoLostUpdate
<1>1. PartsInv => NoLostUpdate
  BY DEF PartsInv, CountingInv, CounterInv, NoLostUpdate, Correct, Locked, CounterPrograms
<1> QED BY <1>1, PartsInvariant, PTL

\* The programs the source calls correct print that they are, for any number of
\* threads and rounds: the counter reaches RUNS * THREADS, each round has its one
\* leader, the data come through whole.
THEOREM PartsLookCorrect == Spec => []LooksCorrect
<1>1. PartsInv => LooksCorrect
  <2> SUFFICES ASSUME PartsInv PROVE LooksCorrect
    OBVIOUS
  <2>1. program \in Correct => verdict # "wrong"
    BY DEF PartsInv, CountingInv, CounterCorrect, Correct, Locked, CounterPrograms
  <2>2. program \in {"election2", "election4"} => verdict # "wrong" BY DEF PartsInv, ElectionInv
  <2>3. ConsumedWhole
    BY DEF PartsInv, ProconInv, IInv, ConsumedWhole, Waiting, ProconPrograms
  <2>4. OneLeader BY OneLeaderHolds DEF PartsInv
  <2> QED BY <2>1, <2>2, <2>3, <2>4 DEF LooksCorrect
<1> QED BY <1>1, PartsInvariant, PTL

\* Nobody copies from or to a slot the other side may still be in.
THEOREM PartsRaceFree == Spec => []RaceFree
<1>1. PartsInv => RaceFree BY DEF PartsInv, ProconInv, IInv, RaceFree, Waiting, ProconPrograms
<1> QED BY <1>1, PartsInvariant, PTL

\* Undisturbed by other calls while they grow, and as long as there are indexes
\* left, the arrays lead from every index tm_alloc has returned to its segment and
\* its status.
THEOREM SegmentsFound == Spec => []TableHoldsSegment
<1>1. PartsInv => TableHoldsSegment BY TableFacts DEF PartsInv, TableHoldsSegment
<1> QED BY <1>1, PartsInvariant, PTL

\* And no call indexes a buffer that realloc has given back, or beyond its end.
THEOREM IndexingStaysSafe == Spec => []IndexingSafe
<1>1. PartsInv => IndexingSafe BY TableFacts DEF PartsInv, IndexingSafe
<1> QED BY <1>1, PartsInvariant, PTL

\* Whoever else calls, and however many grow the arrays, MAX_SEGMENTS is in the end
\* the size of the one buffer of each that is alive.
THEOREM CapacityKept == Spec => []CapacityMatches
<1>1. PartsInv => CapacityMatches BY TableFacts DEF PartsInv, CapacityMatches
<1> QED BY <1>1, PartsInvariant, PTL

\* A worker ends each transaction it began once, whatever the library refuses.
THEOREM WorkerEndsOnce == Spec => []EndedOnce
<1>1. PartsInv => EndedOnce
  BY DEF PartsInv, InterfaceInv, EndedOnce, Interface!EndedOnce
<1> QED BY <1>1, PartsInvariant, PTL

\* bounded_run's notification is not lost on the way between its two threads.
THEOREM PartsNotified == Spec => []NotificationNotLost
<1>1. PartsInv => NotificationNotLost
  BY DEF PartsInv, DriverInv, DriverTypeOK, NotificationNotLost, Quiet, Outside, Handing, InBounded
<1> QED BY <1>1, PartsInvariant, PTL

\* No library is unloaded under a thread, but under one that was created late.
THEOREM PartsKeepLibrary == Spec => []LibraryStaysLoaded
<1>1. PartsInv => LibraryStaysLoaded
  BY DEF PartsInv, DriverInv, DriverTypeOK, LibraryStaysLoaded, Quiet, Outside, LibraryLoaded, InBounded
<1> QED BY <1>1, PartsInvariant, PTL

\* The lock of a word implements the atomic lock the transactions are modelled
\* with: the packing, and methods of two steps, do not show.
THEOREM WordLockIsAtomic == Spec => ImplementsAtomicLock
<1>1. Init => VLock!Atomic!Init BY PartsFirst DEF VLock!Atomic!Init, Owner
<1>2. PartsInv /\ [Next]_vars => [VLock!Atomic!Next]_(VLock!Atomic!vars)
  BY PartsStep DEF VLock!Atomic!vars, Owner
<1> QED BY <1>1, <1>2, PartsInvariant, PTL
        DEF Spec, ImplementsAtomicLock, VLock!ImplementsAtomicLock, VLock!Atomic!Spec

\* The buffer of the producer and the consumer is a bounded queue.
THEOREM PartsImplementQueue == Spec => ImplementsQueue
<1>1. Init => Queue!Init BY PartsFirst
<1>2. PartsInv => Mapping BY PartsMapped DEF PartsInv
<1>3. Mapping /\ Mapping' /\ [Next]_vars => [Queue!Put \/ Queue!Take]_<<queue, taken>>
  <2> SUFFICES ASSUME Mapping, Mapping', [Next]_vars
               PROVE  [Queue!Put \/ Queue!Take]_<<queue, taken>>
    OBVIOUS
  <2>1. CASE program \in ProconPrograms BY <2>1, ProconSteps, QueueStep
  <2>2. CASE program \notin ProconPrograms
    BY <2>2, ProconSteps DEF proconPart, data, counts, queue, taken
  <2> QED BY <2>1, <2>2
<1> QED BY <1>1, <1>2, <1>3, PartsInvariant, PTL
        DEF Spec, ImplementsQueue, Queue!Spec, queue, taken

=============================================================================
