-------------------------- MODULE ProducerConsumer --------------------------
(***************************************************************************)
(* sync-examples/procon1.c to procon4.c: one thread produces data into a   *)
(* circular buffer, one consumes them.  A datum is copied in two halves,   *)
(* so that a copy made during another is torn.  Ordering is kept by what   *)
(* the C memory model promises: a side knows the other has come so far     *)
(* when it acquires the lock, or what the other has released.              *)
(***************************************************************************)
EXTENDS Program, Sequences

CONSTANTS
    BUFFER_SIZE,
    MaxSpurious      \* bound: spurious wakeups

Sides == {"producer", "consumer"}

ASSUME BufferAssumption == BUFFER_SIZE \in Nat \ {0} /\ MaxSpurious \in Nat
ASSUME SidesAssumption  == Nobody \notin Sides

ProconPrograms == {"procon1", "procon2", "procon3", "procon4"}

VARIABLES
    buffer, produced_until, consumed_until,
    consumed,        \* what the consumer has copied, per round
    seen,            \* procon3: a lower bound of what a side's next load may return
    known,           \* how far the other side is known to have come
    spurious         \* spurious wakeups so far

data == <<buffer, consumed>>
counts == <<produced_until, consumed_until>>
proconVars ==
    <<program, steps, verdict, lock, data, counts, seen, known, spurious>>

\* What rand() puts in the datum of round n: like no other round's, nor as the
\* zeros the arrays start with.
Halves == 1..2
produced(n) == [half \in Halves |-> n + 1]
Zero == [half \in Halves |-> 0]

ProconData ==
    /\ buffer = [n \in 0..(BUFFER_SIZE - 1) |-> Zero]
    /\ consumed = [n \in 0..(RUNS - 1) |-> Zero]
    /\ produced_until = 0 /\ consumed_until = 0
    /\ seen = [s \in Sides |-> 0]
    /\ known = [s \in Sides |-> 0]
    /\ spurious = 0

begin == CASE program = "procon1" -> "low"
           [] program = "procon3" -> "check"
           [] OTHER               -> "acquire"

ProconInit ==
    /\ program \in ProconPrograms
    /\ Start(Sides, begin)
    /\ lock_init
    /\ ProconData

-----------------------------------------------------------------------------
\* Side s may go on in its round if the other side has come as far as until.
CanGo(s, until) ==
    IF s = "producer" THEN until + BUFFER_SIZE > r[s] ELSE until > r[s]

other_until(s) == IF s = "producer" THEN consumed_until ELSE produced_until

\* The copies buffer[r % BUFFER_SIZE] = produced[r] and back, one half after the
\* other; the second leads to next.
Copy(s, half) ==
    LET n == r[s]  slot == n % BUFFER_SIZE IN
    IF s = "producer"
    THEN buffer' = [buffer EXCEPT ![slot][half] = produced(n)[half]] /\ UNCHANGED consumed
    ELSE consumed' = [consumed EXCEPT ![n][half] = buffer[slot][half]] /\ UNCHANGED buffer

CopyLow(s)       == Go(s, "low", "high") /\ Copy(s, 1)
CopyHigh(s, next) == Go(s, "high", next) /\ Copy(s, 2)

Count(s) ==
    IF s = "producer"
    THEN produced_until' = produced_until + 1 /\ UNCHANGED consumed_until
    ELSE consumed_until' = consumed_until + 1 /\ UNCHANGED produced_until

\* Everything the other side did before it let go of the lock is known.
TakeLock(s, from) ==
    /\ Go(s, from, "check")
    /\ lock_acquire(s)
    /\ known' = [known EXCEPT ![s] = other_until(s)]

\* The condition of the wait, looked at with the lock held.
Check(s, Otherwise) ==
    \/ CanGo(s, other_until(s)) /\ Go(s, "check", "low") /\ UNCHANGED lock
    \/ ~CanGo(s, other_until(s)) /\ Otherwise

\* What is done with the lock held: the copy, then the count.
Produce(s) ==
    /\ UNCHANGED lock
    /\ \/ (CopyLow(s) \/ CopyHigh(s, "count")) /\ UNCHANGED counts
       \/ Go(s, "count", "release") /\ Count(s) /\ UNCHANGED data

AllSame == Verdict(\A n \in 0..(RUNS - 1) : consumed[n] = produced(n))

-----------------------------------------------------------------------------
\* Each is one step of main or of side s.
procon1(s) ==
    /\ UNCHANGED <<counts, seen, known, spurious>>
    /\ \/ AllSame /\ UNCHANGED data
       \/ /\ CopyLow(s) \/ (NextRound(s, "high", begin, 1) /\ Copy(s, 2))
          /\ UNCHANGED <<verdict, lock>>

\* The lock is given back and taken again until the other side has come so far.
procon2(s) ==
    /\ UNCHANGED <<seen, spurious>>
    /\ \/ AllSame /\ UNCHANGED <<data, counts, known>>
       \/ /\ UNCHANGED <<verdict, data, counts>>
          /\ \/ TakeLock(s, "acquire")
             \/ Check(s, Go(s, "check", "acquire") /\ lock_release(s)) /\ UNCHANGED known
       \/ Produce(s) /\ UNCHANGED <<verdict, known>>
       \/ /\ NextRound(s, "release", begin, 1) /\ lock_release(s)
          /\ UNCHANGED <<verdict, data, counts, known>>

\* Fault: the consumer's load is relaxed as well.
Loaded_relaxed(s, value) == known

\* An acquire load of what a release has stored; the producer's load is relaxed.
Loaded(s, value) == IF s = "consumer" THEN [known EXCEPT ![s] = value] ELSE known

\* A load returns the latest value, or an older one not older than the last seen.
LoadUntil(s, value) ==
    /\ value \in seen[s]..other_until(s)
    /\ Go(s, "check", IF CanGo(s, value) THEN "low" ELSE "check")
    /\ seen' = [seen EXCEPT ![s] = value]
    /\ known' = Loaded(s, value)
    /\ UNCHANGED <<verdict, lock, data, counts, spurious>>

procon3(s) ==
    \/ AllSame /\ UNCHANGED <<data, counts, seen, known, spurious>>
    \/ \E value \in 0..RUNS : LoadUntil(s, value)
    \/ /\ UNCHANGED <<verdict, lock, seen, known, spurious>>
       /\ \/ (CopyLow(s) \/ CopyHigh(s, "count")) /\ UNCHANGED counts
          \/ NextRound(s, "count", begin, 1) /\ Count(s) /\ UNCHANGED data

\* Fault: the condition is not looked at again after lock_wait.
Woken_if(s) ==
    /\ s \notin sleepers
    /\ Go(s, "asleep", "low")
    /\ lock_acquire(s)
    /\ known' = [known EXCEPT ![s] = other_until(s)]

Woken(s) == s \notin sleepers /\ TakeLock(s, "asleep")

\* lock_wake_up follows lock_release: the other side may run in between.
procon4(s) ==
    /\ UNCHANGED <<seen, spurious>>
    /\ \/ AllSame /\ UNCHANGED <<data, counts, known>>
       \/ /\ UNCHANGED <<verdict, data, counts>>
          /\ \/ TakeLock(s, "acquire") \/ Woken(s)
             \/ Check(s, Go(s, "check", "asleep") /\ lock_wait(s)) /\ UNCHANGED known
       \/ Produce(s) /\ UNCHANGED <<verdict, known>>
       \/ /\ \/ Go(s, "release", "wake") /\ lock_release(s)
             \/ NextRound(s, "wake", begin, 1) /\ lock_wake_up
          /\ UNCHANGED <<verdict, data, counts, known>>

ProconStep(s) ==
    /\ UNCHANGED program
    /\ \/ program = "procon1" /\ procon1(s)
       \/ program = "procon2" /\ procon2(s)
       \/ program = "procon3" /\ procon3(s)
       \/ program = "procon4" /\ procon4(s)

\* pthread_cond_wait may return though nobody has woken the thread.
Spurious(s) ==
    /\ s \in sleepers /\ spurious < MaxSpurious
    /\ spurious' = spurious + 1 /\ sleepers' = sleepers \ {s}
    /\ UNCHANGED <<program, steps, verdict, holder, data, counts, seen, known>>

ProconNext == \E s \in Sides : ProconStep(s) \/ Spurious(s)

ProconSpec == ProconInit /\ [][ProconNext]_proconVars

-----------------------------------------------------------------------------
ProconTypeOK ==
    /\ buffer \in [0..(BUFFER_SIZE - 1) -> [Halves -> 0..RUNS]]
    /\ consumed \in [0..(RUNS - 1) -> [Halves -> 0..RUNS]]
    /\ produced_until \in 0..RUNS /\ consumed_until \in 0..RUNS
    /\ seen \in [Sides -> 0..RUNS] /\ known \in [Sides -> 0..RUNS]
    /\ spurious \in 0..MaxSpurious

\* A side is between a lock and its release.
Locking(s) == pc[s] \in {"check", "low", "high", "count", "release"}

\* The programs whose sides wait for each other.
Waiting == {"procon2", "procon3", "procon4"}

Copying(s) == pc[s] \in {"low", "high"}

\* A side touches a slot of the buffer only when it is known, and not only true,
\* that the other has finished with it: else the copies are a data race.  The
\* producer of procon3 is left out: its load is relaxed, and it does not know.
RaceFree ==
    program \in Waiting =>
        \A s \in Sides : \/ Copying(s) => CanGo(s, known[s])
                         \/ program = "procon3" /\ s = "producer"

\* Main prints that the data went through only if they have, and they do.
ConsumedWhole == program \in Waiting => verdict # "wrong"

\* The slots counted as produced and not as consumed are a queue of whole data.
Datum(k) == produced(k - 1)

Queue == INSTANCE BoundedQueue WITH
    Size <- BUFFER_SIZE,
    Data <- Datum,
    queue <- [k \in 1..(produced_until - consumed_until) |->
                buffer[(consumed_until + k - 1) % BUFFER_SIZE]],
    taken <- [k \in 1..consumed_until |-> consumed[k - 1]]

ImplementsQueue == Queue!Spec

=============================================================================
