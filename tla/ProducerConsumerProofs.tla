----------------------- MODULE ProducerConsumerProofs -----------------------
(***************************************************************************)
(* The producer and the consumer that wait for each other never touch one  *)
(* slot at a time, and every datum comes through whole and in its place,   *)
(* for any size of the buffer and any number of rounds.                    *)
(***************************************************************************)
EXTENDS ProducerConsumer, TLAPS

Places == {"acquire", "check", "low", "high", "count", "release", "wake", "asleep", "joined"}

Types ==
    /\ program \in ProconPrograms
    /\ pc \in [Sides -> Places]
    /\ r \in [Sides -> 0..RUNS]
    /\ holder \in Sides \cup {Nobody}
    /\ sleepers \subseteq Sides
    /\ ProconTypeOK

\* main joins a side after its last round.
Rounds == \A s \in Sides : pc[s] = "joined" <=> r[s] = RUNS

\* The counts are the rounds of the sides, but that a side may have counted and
\* not yet be in its next round.
Ahead(s) == IF pc[s] \in {"release", "wake"} THEN r[s] + 1 ELSE r[s]

Counted ==
    program \in Waiting =>
        produced_until = Ahead("producer") /\ consumed_until = Ahead("consumer")

Uncounted == program = "procon1" => produced_until = 0 /\ consumed_until = 0

\* Who copies, or is about to count, has room, or something to take.
Room ==
    program \in Waiting =>
        \A s \in Sides : pc[s] \in {"low", "high", "count"} => CanGo(s, other_until(s))

\* In procon2 and procon4 a side knows how far the other is while it has the lock.
Exclusion ==
    program \in {"procon2", "procon4"} =>
        \A s \in Sides : /\ Locking(s) <=> holder = s
                         /\ Locking(s) => known[s] = other_until(s)

\* The buffer never holds less than nothing, nor more than its size.
Bounded ==
    /\ consumed_until <= produced_until
    /\ produced_until <= consumed_until + BUFFER_SIZE

\* What was counted as produced and not as consumed is in its slot, whole.
Filled ==
    program \in Waiting =>
        \A n \in Nat : consumed_until <= n /\ n < produced_until =>
            buffer[n % BUFFER_SIZE] = produced(n)

\* What was counted as consumed is what was produced.
Taken ==
    program \in Waiting => \A n \in 0..(consumed_until - 1) : consumed[n] = produced(n)

\* Where a side's copy goes, and how far it is.
Target(s) == IF s = "producer" THEN buffer[r[s] % BUFFER_SIZE] ELSE consumed[r[s]]

Copied ==
    program \in Waiting =>
        \A s \in Sides : /\ pc[s] = "high" => Target(s)[1] = r[s] + 1
                         /\ pc[s] = "count" => Target(s) = produced(r[s])

IInv ==
    /\ Types /\ Rounds /\ Counted /\ Uncounted /\ Room /\ Exclusion /\ Bounded
    /\ Filled /\ Taken /\ Copied /\ RaceFree /\ ConsumedWhole


-----------------------------------------------------------------------------
(* Slots of the circular buffer *)

LEMMA Division ==
    ASSUME NEW size \in Nat \ {0}, NEW n \in Nat
    PROVE  /\ n = size * (n \div size) + (n % size)
           /\ n % size \in 0..(size - 1)
           /\ n \div size \in Nat
OBVIOUS

\* Multiples of size that are less than size apart are the same.
LEMMA Multiples ==
    ASSUME NEW size \in Nat \ {0}, NEW p \in Int, NEW q \in Int,
           size * p < size * q + size, size * q < size * p + size
    PROVE  p = q
OBVIOUS

\* Rounds less than the size of the buffer apart use different slots.
LEMMA Slots ==
    ASSUME NEW size \in Nat \ {0}, NEW n \in Nat, NEW m \in Nat, n < m, m < n + size
    PROVE  n % size # m % size
<1> DEFINE p == n \div size
           q == m \div size
<1>1. /\ n = size * p + (n % size) /\ p \in Nat
      /\ m = size * q + (m % size) /\ q \in Nat
      /\ n % size \in 0..(size - 1)
  BY Division
<1> SUFFICES ASSUME n % size = m % size PROVE FALSE
  OBVIOUS
<1> HIDE DEF p, q
<1>2. size * p \in Int /\ size * q \in Int BY <1>1
<1>3. size * p < size * q /\ size * q < size * p + size BY <1>1, <1>2
<1>4. p = q BY <1>1, <1>3, Multiples
<1> QED BY <1>2, <1>3, <1>4

\* One half of a copy, whichever way: the rest of the arrays stays.
LEMMA CopyHalf ==
    ASSUME Types, NEW s \in Sides, r[s] < RUNS, NEW half \in Halves, Copy(s, half)
    PROVE  /\ buffer' \in [0..(BUFFER_SIZE - 1) -> [Halves -> 0..RUNS]]
           /\ consumed' \in [0..(RUNS - 1) -> [Halves -> 0..RUNS]]
           /\ s = "producer" =>
                /\ UNCHANGED consumed
                /\ \A k \in 0..(BUFFER_SIZE - 1) : k # r[s] % BUFFER_SIZE => buffer'[k] = buffer[k]
                /\ buffer'[r[s] % BUFFER_SIZE] = [buffer[r[s] % BUFFER_SIZE] EXCEPT ![half] = r[s] + 1]
           /\ s = "consumer" =>
                /\ UNCHANGED buffer
                /\ \A k \in 0..(RUNS - 1) : k # r[s] => consumed'[k] = consumed[k]
                /\ consumed'[r[s]] = [consumed[r[s]] EXCEPT ![half] = buffer[r[s] % BUFFER_SIZE][half]]
<1>0. r[s] \in 0..(RUNS - 1) /\ r[s] + 1 \in 0..RUNS BY ProgramAssumption DEF Types
<1>1. r[s] % BUFFER_SIZE \in 0..(BUFFER_SIZE - 1)
  <2>1. r[s] \in Nat BY <1>0
  <2> QED BY <2>1, BufferAssumption, Division
<1> USE <1>0 DEF Types, ProconTypeOK, Sides
<1>2. CASE s = "producer"
  <2>1. /\ buffer' = [buffer EXCEPT ![r[s] % BUFFER_SIZE][half] = r[s] + 1]
        /\ UNCHANGED consumed
    BY <1>2 DEF Copy, produced
  <2> QED BY <1>1, <1>2, <2>1
<1>3. CASE s = "consumer"
  <2>1. /\ consumed' = [consumed EXCEPT ![r[s]][half] = buffer[r[s] % BUFFER_SIZE][half]]
        /\ UNCHANGED buffer
    BY <1>3 DEF Copy
  <2>2. buffer[r[s] % BUFFER_SIZE][half] \in 0..RUNS BY <1>1
  <2> QED BY <1>1, <1>3, <2>1, <2>2
<1> QED BY <1>2, <1>3


\* The second half makes a datum whole.
LEMMA SecondHalf ==
    ASSUME NEW X, NEW f \in [Halves -> X], NEW x, f[1] = x
    PROVE  [f EXCEPT ![2] = x] = [half \in Halves |-> x]
<1>1. \A half \in Halves : half = 1 \/ half = 2 BY DEF Halves
<1> QED BY <1>1

-----------------------------------------------------------------------------
(* The kinds of step *)

\* The first state: an empty buffer, nobody in it.
LEMMA InitInv == ProconInit => IInv
<1> SUFFICES ASSUME ProconInit PROVE IInv
  OBVIOUS
<1> USE ProgramAssumption, BufferAssumption DEF ProconInit, Start, lock_init, ProconData
<1>1. begin \in {"low", "check", "acquire"} /\ (program \in Waiting => begin # "low")
  BY DEF begin, ProconPrograms, Waiting
<1>2. \A s \in Sides : pc[s] = begin /\ r[s] = 0 OBVIOUS
<1>3. Types
  <2>1. ProconTypeOK
    <3>1. Zero \in [Halves -> 0..RUNS] BY DEF Zero
    <3>2. 0 \in 0..RUNS /\ 0 \in 0..MaxSpurious OBVIOUS
    <3> QED BY <3>1, <3>2 DEF ProconTypeOK
  <2>2. pc \in [Sides -> Places] BY <1>1 DEF Places
  <2> QED BY <2>1, <2>2 DEF Types
<1>4. Rounds BY <1>1, <1>2 DEF Rounds
<1>5. Counted BY <1>1, <1>2 DEF Counted, Ahead, Sides
<1>6. Room /\ Copied /\ RaceFree
  BY <1>1, <1>2 DEF Room, Copied, RaceFree, Copying
<1>7. Exclusion
  BY <1>1, <1>2, SidesAssumption DEF Exclusion, Locking, begin
<1>8. Uncounted /\ Bounded /\ Filled /\ Taken /\ ConsumedWhole
  BY DEF Uncounted, Bounded, Filled, Taken, ConsumedWhole
<1> QED BY <1>3, <1>4, <1>5, <1>6, <1>7, <1>8 DEF IInv

\* A side that is not in its last round has a round to do, its counts to make.
LEMMA InRound ==
    ASSUME IInv, NEW s \in Sides, pc[s] # "joined"
    PROVE  r[s] \in 0..(RUNS - 1) /\ r[s] < RUNS /\ r[s] + 1 \in 0..RUNS /\ r[s] \in Nat
BY ProgramAssumption DEF IInv, Types, Rounds

\* A side's move that changes neither the arrays nor the counts.
LEMMA StepMove ==
    ASSUME IInv, program \in Waiting, NEW s \in Sides, UNCHANGED <<program, verdict, data, counts>>,
           \A u \in Sides \ {s} : pc'[u] = pc[u] /\ r'[u] = r[u],
           Types', Rounds', Exclusion', RaceFree', Ahead(s)' = Ahead(s),
           pc'[s] \notin {"high", "count"},
           pc'[s] = "low" => CanGo(s, other_until(s))'
    PROVE  IInv'
<1> USE DEF IInv, data, counts
<1>1. Counted' BY DEF Counted, Ahead, Sides
<1>2. Room' BY DEF Room, CanGo, other_until
<1>3. Uncounted' /\ Bounded' /\ Filled' /\ Taken' BY DEF Uncounted, Bounded, Filled, Taken
<1>4. Copied' BY DEF Copied, Target
<1>5. ConsumedWhole' BY DEF ConsumedWhole
<1> QED BY <1>1, <1>2, <1>3, <1>4, <1>5

\* main's verdict: every side is through, so everything was taken.
LEMMA StepVerdict ==
    ASSUME IInv, AllSame, UNCHANGED <<program, data, counts, seen, known, spurious>>
    PROVE  IInv'
<1> USE DEF IInv, data, counts, AllSame, Verdict, steps, lock
<1>1. ConsumedWhole'
  <2> SUFFICES ASSUME program \in Waiting PROVE verdict' = "correct"
    BY DEF ConsumedWhole
  <2>1. pc["consumer"] = "joined" BY DEF Types, Sides
  <2>2. consumed_until = RUNS BY <2>1 DEF Counted, Ahead, Rounds, Sides
  <2> QED BY <2>2 DEF Taken
<1>2. Types' BY DEF Types, ProconTypeOK
<1>3. Rounds' /\ Counted' /\ Room' /\ Exclusion' /\ RaceFree'
  BY DEF Rounds, Counted, Ahead, Room, CanGo, other_until, Exclusion, Locking, RaceFree, Copying
<1>4. Uncounted' /\ Bounded' /\ Filled' /\ Taken' /\ Copied'
  BY DEF Uncounted, Bounded, Filled, Taken, Copied, Target
<1> QED BY <1>1, <1>2, <1>3, <1>4

\* A copy by the side that has room: no slot the other may use is touched.
LEMMA StepCopy ==
    ASSUME IInv, program \in Waiting, NEW s \in Sides, NEW half \in Halves,
           UNCHANGED <<program, verdict, lock, counts, seen, known, spurious>>,
           (CopyLow(s) /\ half = 1) \/ (CopyHigh(s, "count") /\ half = 2)
    PROVE  IInv'
<1> USE DEF IInv, CopyLow, CopyHigh, Go, lock, counts
<1>0. /\ Copy(s, half) /\ UNCHANGED r
      /\ pc[s] \in {"low", "high"} /\ pc'[s] \in {"high", "count"}
      /\ \A u \in Sides \ {s} : pc'[u] = pc[u]
      /\ half = 1 => pc'[s] = "high"
      /\ half = 2 => pc[s] = "high" /\ pc'[s] = "count"
      /\ pc' \in [Sides -> Places]
  BY DEF Types, Places
<1>1. r[s] < RUNS /\ r[s] \in Nat BY <1>0, InRound
<1>2. Types'
  <2>1. ProconTypeOK' BY <1>0, <1>1, CopyHalf DEF ProconTypeOK, Types
  <2> QED BY <1>0, <2>1 DEF Types
<1>3. Rounds' /\ Counted' BY <1>0 DEF Rounds, Counted, Ahead, Sides
<1>4. Room' BY <1>0 DEF Room, CanGo, other_until
<1>5. Exclusion' BY <1>0 DEF Exclusion, Locking, other_until
<1>6. RaceFree' BY <1>0 DEF RaceFree, Copying, CanGo
<1>7. Uncounted' /\ Bounded' /\ ConsumedWhole' BY DEF Uncounted, Bounded, ConsumedWhole
<1>8. CanGo(s, other_until(s)) BY <1>0 DEF Room
<1>9. CASE s = "producer"
  <2>1. r[s] = produced_until /\ produced_until < consumed_until + BUFFER_SIZE
    BY <1>0, <1>8, <1>9, BufferAssumption DEF Counted, Ahead, CanGo, other_until, Types, ProconTypeOK
  <2>2. ASSUME NEW n \in Nat, consumed_until <= n, n < produced_until
        PROVE  buffer'[n % BUFFER_SIZE] = buffer[n % BUFFER_SIZE]
    <3>1. n < r[s] /\ r[s] < n + BUFFER_SIZE
      BY <2>1, <2>2, BufferAssumption DEF Types, ProconTypeOK
    <3>2. n % BUFFER_SIZE # r[s] % BUFFER_SIZE BY <1>1, <3>1, Slots, BufferAssumption
    <3>3. n % BUFFER_SIZE \in 0..(BUFFER_SIZE - 1) BY Division, BufferAssumption
    <3> QED BY <1>0, <1>1, <1>9, <3>2, <3>3, CopyHalf
  <2>3. Filled' BY <2>2 DEF Filled
  <2>4. UNCHANGED consumed BY <1>0, <1>1, <1>9, CopyHalf
  <2>5. Taken' BY <2>4 DEF Taken
  <2>6. Target(s)' = [Target(s) EXCEPT ![half] = r[s] + 1]
    BY <1>0, <1>1, <1>9, CopyHalf DEF Target
  <2>7. Target(s) \in [Halves -> 0..RUNS]
    <3>1. r[s] % BUFFER_SIZE \in 0..(BUFFER_SIZE - 1) BY <1>1, Division, BufferAssumption
    <3> QED BY <1>9, <3>1 DEF Target, Types, ProconTypeOK
  <2>8. Copied'
    <3>1. half = 1 => Target(s)'[1] = r[s] + 1 BY <2>6, <2>7 DEF Halves
    <3>2. half = 2 => Target(s)' = produced(r[s])
      <4>1. half = 2 => Target(s)[1] = r[s] + 1 BY <1>0 DEF Copied
      <4>2. Target(s)[1] = r[s] + 1 =>
              [Target(s) EXCEPT ![2] = r[s] + 1] = [h \in Halves |-> r[s] + 1]
        BY <2>7, SecondHalf, Zenon
      <4> QED BY <2>6, <4>1, <4>2 DEF produced
    <3>3. \A u \in Sides \ {s} : Target(u)' = Target(u) BY <1>0, <1>9, <2>4 DEF Target, Sides
    <3> QED BY <1>0, <3>1, <3>2, <3>3 DEF Copied, Halves
  <2> QED BY <1>2, <1>3, <1>4, <1>5, <1>6, <1>7, <2>3, <2>5, <2>8
<1>10. CASE s = "consumer"
  <2>1. r[s] = consumed_until /\ consumed_until < produced_until
    BY <1>0, <1>8, <1>10 DEF Counted, Ahead, CanGo, other_until, Types, ProconTypeOK
  <2>2. UNCHANGED buffer BY <1>0, <1>1, <1>10, CopyHalf
  <2>3. Filled' BY <2>2 DEF Filled
  <2>4. Taken'
    <3>1. \A n \in 0..(consumed_until - 1) : n \in 0..(RUNS - 1) /\ n # r[s]
      BY <2>1, ProgramAssumption DEF Types, ProconTypeOK
    <3>2. \A n \in 0..(consumed_until - 1) : consumed'[n] = consumed[n]
      BY <1>0, <1>1, <1>10, <3>1, CopyHalf
    <3> QED BY <3>2 DEF Taken
  <2>5. buffer[r[s] % BUFFER_SIZE] = produced(r[s]) BY <1>1, <2>1 DEF Filled
  <2>6. Target(s)' = [Target(s) EXCEPT ![half] = r[s] + 1]
    <3>1. buffer[r[s] % BUFFER_SIZE][half] = r[s] + 1 BY <2>5 DEF produced
    <3>2. consumed'[r[s]] = [consumed[r[s]] EXCEPT ![half] = buffer[r[s] % BUFFER_SIZE][half]]
      BY <1>0, <1>1, <1>10, CopyHalf
    <3> QED BY <1>0, <1>10, <3>1, <3>2 DEF Target
  <2>7. Target(s) \in [Halves -> 0..RUNS]
    BY <1>0, <1>10, InRound DEF Target, Types, ProconTypeOK
  <2>8. Copied'
    <3>1. half = 1 => Target(s)'[1] = r[s] + 1 BY <2>6, <2>7 DEF Halves
    <3>2. half = 2 => Target(s)' = produced(r[s])
      <4>1. half = 2 => Target(s)[1] = r[s] + 1 BY <1>0 DEF Copied
      <4>2. Target(s)[1] = r[s] + 1 =>
              [Target(s) EXCEPT ![2] = r[s] + 1] = [h \in Halves |-> r[s] + 1]
        BY <2>7, SecondHalf, Zenon
      <4> QED BY <2>6, <4>1, <4>2 DEF produced
    <3>3. \A u \in Sides \ {s} : Target(u)' = Target(u) BY <1>0, <1>10, <2>2 DEF Target, Sides
    <3> QED BY <1>0, <3>1, <3>2, <3>3 DEF Copied, Halves
  <2> QED BY <1>2, <1>3, <1>4, <1>5, <1>6, <1>7, <2>3, <2>4, <2>8
<1> QED BY <1>9, <1>10 DEF Sides


\* The count, after the copy: the slot changes hands.
LEMMA StepCount ==
    ASSUME IInv, program \in Waiting, NEW s \in Sides, Count(s),
           UNCHANGED <<program, verdict, lock, data, seen, known, spurious>>,
           \/ Go(s, "count", "release")
           \/ program = "procon3" /\ NextRound(s, "count", begin, 1)
    PROVE  IInv'
<1> USE DEF IInv, lock, data
<1>0. /\ pc[s] = "count" /\ pc'[s] \in {"release", "check", "joined"}
      /\ \A u \in Sides \ {s} : pc'[u] = pc[u] /\ r'[u] = r[u]
      /\ pc' \in [Sides -> Places]
      /\ Ahead(s) = r[s] /\ Ahead(s)' = r[s] + 1
  BY DEF Go, NextRound, Types, Places, begin, Ahead
<1>1. r[s] \in Nat /\ r[s] < RUNS /\ r[s] + 1 \in 0..RUNS BY <1>0, InRound
<1>2. s = "producer" => /\ r[s] = produced_until /\ produced_until' = r[s] + 1
                        /\ UNCHANGED consumed_until
                        /\ produced_until < consumed_until + BUFFER_SIZE
  BY <1>0, BufferAssumption
     DEF Count, Counted, Ahead, Room, CanGo, other_until, Types, ProconTypeOK
<1>3. s = "consumer" => /\ r[s] = consumed_until /\ consumed_until' = r[s] + 1
                        /\ UNCHANGED produced_until
                        /\ consumed_until < produced_until
  BY <1>0 DEF Count, Counted, Ahead, Room, CanGo, other_until, Types, ProconTypeOK
<1>4. Types'
  <2>1. r' \in [Sides -> 0..RUNS] BY <1>1 DEF Go, NextRound, Types
  <2>2. ProconTypeOK' BY <1>1, <1>2, <1>3 DEF ProconTypeOK, Types, Sides
  <2> QED BY <1>0, <2>1, <2>2 DEF Types
<1>5. Rounds' BY <1>0, <1>1, ProgramAssumption DEF Rounds, Go, NextRound, Types, begin
<1>6. Counted' /\ Uncounted'
  BY <1>0, <1>2, <1>3 DEF Counted, Uncounted, Waiting, Ahead, Sides
<1>7. Room'
  <2>1. ASSUME NEW u \in Sides, u # s, CanGo(u, other_until(u)) PROVE CanGo(u, other_until(u))'
    BY <1>0, <1>2, <1>3, <2>1, BufferAssumption
       DEF CanGo, other_until, Types, ProconTypeOK, Sides
  <2> QED BY <1>0, <2>1 DEF Room
<1>8. Exclusion'
  <2> SUFFICES ASSUME program \in {"procon2", "procon4"}, NEW u \in Sides
               PROVE  /\ Locking(u)' <=> holder = u
                      /\ Locking(u)' => known[u] = other_until(u)'
    BY DEF Exclusion
  <2>1. pc'[s] = "release" /\ holder = s
    BY <1>0 DEF Go, Types, Exclusion, Locking
  <2>2. u # s => ~Locking(u) /\ ~Locking(u)' BY <1>0, <2>1 DEF Exclusion, Locking
  <2>3. other_until(s)' = other_until(s) BY <1>2, <1>3 DEF other_until, Sides
  <2> QED BY <1>0, <2>1, <2>2, <2>3 DEF Exclusion, Locking
<1>9. RaceFree' BY <1>0 DEF RaceFree, Copying, CanGo
<1>10. Bounded' /\ ConsumedWhole'
  BY <1>2, <1>3, BufferAssumption DEF Bounded, ConsumedWhole, Types, ProconTypeOK, Sides
<1>11. Target(s) = produced(r[s]) BY <1>0 DEF Copied
<1>12. Filled'
  <2> SUFFICES ASSUME NEW n \in Nat, consumed_until' <= n, n < produced_until'
               PROVE  buffer[n % BUFFER_SIZE] = produced(n)
    BY DEF Filled
  <2>1. CASE s = "producer"
    <3>1. CASE n = r[s] BY <1>11, <2>1, <3>1 DEF Target
    <3>2. CASE n # r[s]
      <4>1. consumed_until <= n /\ n < produced_until BY <1>1, <1>2, <2>1, <3>2
      <4> QED BY <4>1 DEF Filled
    <3> QED BY <3>1, <3>2
  <2>2. CASE s = "consumer"
    <3>1. consumed_until <= n /\ n < produced_until BY <1>1, <1>3, <2>2
    <3> QED BY <3>1 DEF Filled
  <2> QED BY <2>1, <2>2 DEF Sides
<1>13. Taken'
  <2> SUFFICES ASSUME NEW n \in 0..(consumed_until' - 1) PROVE consumed[n] = produced(n)
    BY DEF Taken
  <2>1. CASE s = "consumer" /\ n = r[s] BY <1>11, <2>1 DEF Target
  <2>2. CASE s # "consumer" \/ n # r[s]
    <3>1. n \in 0..(consumed_until - 1)
      BY <1>1, <1>2, <1>3, <2>2 DEF Sides, Types, ProconTypeOK
    <3> QED BY <3>1 DEF Taken
  <2> QED BY <2>1, <2>2
<1>14. Copied' BY <1>0 DEF Copied, Target
<1> QED BY <1>4, <1>5, <1>6, <1>7, <1>8, <1>9, <1>10, <1>12, <1>13, <1>14


-----------------------------------------------------------------------------
(* The moves with the lock, of procon2 and procon4 *)

\* The next round, or none.
LEMMA NextRoundTypes ==
    ASSUME IInv, NEW s \in Sides, NEW from, from # "joined", NextRound(s, from, begin, 1)
    PROVE  /\ pc'[s] \in {begin, "joined"} /\ r'[s] = r[s] + 1
           /\ \A u \in Sides \ {s} : pc'[u] = pc[u] /\ r'[u] = r[u]
           /\ pc' \in [Sides -> Places] /\ r' \in [Sides -> 0..RUNS]
           /\ Rounds'
<1> USE DEF IInv, NextRound
<1>1. r[s] \in Nat /\ r[s] + 1 \in 0..RUNS BY InRound
<1>2. begin \in {"low", "check", "acquire"} BY DEF begin
<1>3. pc' \in [Sides -> Places] BY <1>2 DEF Types, Places
<1>4. r' \in [Sides -> 0..RUNS] BY <1>1 DEF Types
<1>5. Rounds' BY <1>1, <1>2, ProgramAssumption DEF Rounds, Types
<1> QED BY <1>3, <1>4, <1>5 DEF Types

\* With the lock comes the knowledge of how far the other side is.
LEMMA StepTakeLock ==
    ASSUME IInv, program \in {"procon2", "procon4"}, NEW s \in Sides,
           NEW from \in {"acquire", "asleep"}, TakeLock(s, from),
           UNCHANGED <<program, verdict, data, counts, seen, spurious>>
    PROVE  IInv'
<1> USE DEF IInv, TakeLock, Go, lock_acquire, data, counts
<1>0. /\ holder = Nobody /\ holder' = s /\ UNCHANGED <<sleepers, r>>
      /\ pc[s] = from /\ pc'[s] = "check" /\ known'[s] = other_until(s)
      /\ \A u \in Sides \ {s} : pc'[u] = pc[u] /\ known'[u] = known[u]
  BY DEF Types, ProconTypeOK
<1>1. Types' BY DEF Types, ProconTypeOK, Places, other_until
<1>2. Rounds' BY <1>0 DEF Rounds
<1>3. \A u \in Sides : ~Locking(u) BY <1>0, SidesAssumption DEF Exclusion
<1>4. Exclusion' BY <1>0, <1>3 DEF Exclusion, Locking, other_until
<1>5. RaceFree' BY <1>0 DEF RaceFree, Copying, CanGo
<1>6. Ahead(s)' = Ahead(s) BY <1>0 DEF Ahead
<1> QED BY <1>0, <1>1, <1>2, <1>4, <1>5, <1>6, StepMove DEF Waiting

\* The condition of the wait holds: what is true is known.
LEMMA StepCheckGo ==
    ASSUME IInv, program \in {"procon2", "procon4"}, NEW s \in Sides,
           CanGo(s, other_until(s)), Go(s, "check", "low"),
           UNCHANGED <<program, verdict, lock, data, counts, seen, known, spurious>>
    PROVE  IInv'
<1> USE DEF IInv, Go, lock, data, counts
<1>0. /\ pc[s] = "check" /\ pc'[s] = "low" /\ UNCHANGED r
      /\ \A u \in Sides \ {s} : pc'[u] = pc[u]
  BY DEF Types
<1>1. Types' BY DEF Types, ProconTypeOK, Places
<1>2. Rounds' BY <1>0 DEF Rounds
<1>3. Exclusion' BY <1>0 DEF Exclusion, Locking, other_until
<1>4. known[s] = other_until(s) BY <1>0 DEF Exclusion, Locking
<1>5. RaceFree' BY <1>0, <1>4 DEF RaceFree, Copying, CanGo
<1>6. Ahead(s)' = Ahead(s) /\ CanGo(s, other_until(s))'
  BY <1>0 DEF Ahead, CanGo, other_until
<1> QED BY <1>0, <1>1, <1>2, <1>3, <1>5, <1>6, StepMove DEF Waiting

\* The lock is given back.
LEMMA StepLetGo ==
    ASSUME IInv, program \in {"procon2", "procon4"}, NEW s \in Sides,
           holder = s, holder' = Nobody, sleepers' \subseteq Sides,
           UNCHANGED <<program, verdict, data, counts, seen, known, spurious>>,
           \/ Go(s, "check", "acquire") \/ Go(s, "check", "asleep") \/ Go(s, "release", "wake")
           \/ NextRound(s, "release", begin, 1)
    PROVE  IInv'
<1> USE DEF IInv, data, counts
<1>0. /\ pc[s] \in {"check", "release"} /\ pc'[s] \in {"acquire", "asleep", "wake", "joined"}
      /\ \A u \in Sides \ {s} : pc'[u] = pc[u] /\ r'[u] = r[u]
      /\ pc' \in [Sides -> Places] /\ r' \in [Sides -> 0..RUNS]
      /\ Rounds' /\ Ahead(s)' = Ahead(s)
  <2>1. CASE NextRound(s, "release", begin, 1)
    BY <2>1, NextRoundTypes DEF NextRound, begin, Ahead
  <2>2. CASE Go(s, "check", "acquire") \/ Go(s, "check", "asleep") \/ Go(s, "release", "wake")
    BY <2>2 DEF Go, Types, Places, Rounds, Ahead
  <2> QED BY <2>1, <2>2
<1>1. Types' BY <1>0 DEF Types, ProconTypeOK
<1>2. Exclusion' BY <1>0, SidesAssumption DEF Exclusion, Locking, other_until
<1>3. RaceFree' BY <1>0 DEF RaceFree, Copying, CanGo
<1> QED BY <1>0, <1>1, <1>2, <1>3, StepMove DEF Waiting

\* What is done with the lock held.
LEMMA StepProduce ==
    ASSUME IInv, program \in {"procon2", "procon4"}, NEW s \in Sides, Produce(s),
           UNCHANGED <<program, verdict, seen, known, spurious>>
    PROVE  IInv'
<1>0. 1 \in Halves /\ 2 \in Halves BY DEF Halves
<1>1. CASE CopyLow(s) /\ UNCHANGED counts
  BY <1>0, <1>1, StepCopy DEF Produce, Waiting
<1>2. CASE CopyHigh(s, "count") /\ UNCHANGED counts
  BY <1>0, <1>2, StepCopy DEF Produce, Waiting
<1>3. CASE Go(s, "count", "release") /\ Count(s) /\ UNCHANGED data
  BY <1>3, StepCount DEF Produce, Waiting
<1> QED BY <1>1, <1>2, <1>3 DEF Produce


-----------------------------------------------------------------------------
(* The programs *)

\* procon1 waits for nothing: only types, and rounds, are kept.
LEMMA StepProcon1 ==
    ASSUME IInv, program = "procon1", UNCHANGED program, NEW s \in Sides, procon1(s)
    PROVE  IInv'
<1> USE DEF IInv
<1>0. UNCHANGED <<counts, seen, known, spurious>> BY DEF procon1
<1>1. CASE AllSame /\ UNCHANGED data
  BY <1>0, <1>1, StepVerdict
<1>2. CASE (CopyLow(s) \/ (NextRound(s, "high", begin, 1) /\ Copy(s, 2)))
           /\ UNCHANGED <<verdict, lock>>
  <2>1. /\ pc' \in [Sides -> Places] /\ r' \in [Sides -> 0..RUNS] /\ Rounds'
        /\ \E half \in Halves : Copy(s, half)
    <3>1. CASE CopyLow(s)
      BY <3>1 DEF CopyLow, Go, Types, Places, Rounds, Halves
    <3>2. CASE NextRound(s, "high", begin, 1) /\ Copy(s, 2)
      BY <3>2, NextRoundTypes DEF Halves
    <3> QED BY <1>2, <3>1, <3>2
  <2>2. /\ buffer' \in [0..(BUFFER_SIZE - 1) -> [Halves -> 0..RUNS]]
        /\ consumed' \in [0..(RUNS - 1) -> [Halves -> 0..RUNS]]
    <3>1. PICK half \in Halves : Copy(s, half) BY <2>1
    <3>2. pc[s] # "joined" BY <1>2 DEF CopyLow, Go, NextRound
    <3> QED BY <3>1, <3>2, InRound, CopyHalf
  <2>3. Types' BY <1>0, <1>2, <2>1, <2>2 DEF Types, ProconTypeOK, counts, lock
  <2>4. Uncounted' /\ Bounded' BY <1>0 DEF Uncounted, Bounded, counts
  <2> QED BY <2>1, <2>3, <2>4
          DEF Waiting, Counted, Room, Exclusion, Filled, Taken, Copied, RaceFree, ConsumedWhole
<1> QED BY <1>1, <1>2 DEF procon1

\* procon2 gives the lock back and takes it again, until it may go on.
LEMMA StepProcon2 ==
    ASSUME IInv, program = "procon2", UNCHANGED program, NEW s \in Sides, procon2(s)
    PROVE  IInv'
<1>0. UNCHANGED <<seen, spurious>> BY DEF procon2
<1>1. CASE AllSame /\ UNCHANGED <<data, counts, known>>
  BY <1>0, <1>1, StepVerdict
<1>2. CASE UNCHANGED <<verdict, data, counts>> /\ TakeLock(s, "acquire")
  BY <1>0, <1>2, StepTakeLock
<1>3. CASE UNCHANGED <<verdict, data, counts>> /\ UNCHANGED known
           /\ Check(s, Go(s, "check", "acquire") /\ lock_release(s))
  <2>1. CASE CanGo(s, other_until(s)) /\ Go(s, "check", "low") /\ UNCHANGED lock
    BY <1>0, <1>3, <2>1, StepCheckGo
  <2>2. CASE Go(s, "check", "acquire") /\ lock_release(s)
    <3>1. sleepers' \subseteq Sides BY <2>2 DEF lock_release, IInv, Types
    <3> QED BY <1>0, <1>3, <2>2, <3>1, StepLetGo DEF lock_release
  <2> QED BY <1>3, <2>1, <2>2 DEF Check
<1>4. CASE Produce(s) /\ UNCHANGED <<verdict, known>>
  BY <1>0, <1>4, StepProduce
<1>5. CASE NextRound(s, "release", begin, 1) /\ lock_release(s)
           /\ UNCHANGED <<verdict, data, counts, known>>
  <2>1. sleepers' \subseteq Sides BY <1>5 DEF lock_release, IInv, Types
  <2> QED BY <1>0, <1>5, <2>1, StepLetGo DEF lock_release
<1> QED BY <1>1, <1>2, <1>3, <1>4, <1>5 DEF procon2

\* procon3 goes on as far as it has loaded, which is never further than it is.
LEMMA StepProcon3 ==
    ASSUME IInv, program = "procon3", UNCHANGED program, NEW s \in Sides, procon3(s)
    PROVE  IInv'
<1> USE DEF IInv
<1>1. CASE AllSame /\ UNCHANGED <<data, counts, seen, known, spurious>>
  BY <1>1, StepVerdict
<1>2. CASE \E value \in 0..RUNS : LoadUntil(s, value)
  <2>1. PICK value \in 0..RUNS : LoadUntil(s, value) BY <1>2
  <2> USE <2>1 DEF LoadUntil, lock, data, counts
  <2>2. /\ pc[s] = "check" /\ pc'[s] \in {"low", "check"} /\ UNCHANGED r
        /\ pc'[s] = "low" => CanGo(s, value)
        /\ \A u \in Sides \ {s} : pc'[u] = pc[u]
        /\ pc' \in [Sides -> Places]
    BY DEF Go, Types, Places
  <2>3. \A u \in Sides : known'[u] = IF u = s /\ s = "consumer" THEN value ELSE known[u]
    BY DEF Loaded, Types, ProconTypeOK
  <2>4. Types' BY <2>2 DEF Types, ProconTypeOK, Loaded
  <2>5. Rounds' /\ Ahead(s)' = Ahead(s) BY <2>2 DEF Rounds, Ahead
  <2>6. Exclusion' BY DEF Exclusion
  <2>7. RaceFree' BY <2>2, <2>3 DEF RaceFree, Copying, CanGo, Sides
  <2>8. pc'[s] = "low" => CanGo(s, other_until(s))'
    <3>1. /\ value <= other_until(s) /\ value \in Int /\ other_until(s) \in Int
          /\ r[s] \in Int
      BY <2>2, InRound DEF other_until, Types, ProconTypeOK
    <3>2. CanGo(s, value) => CanGo(s, other_until(s))
      BY <3>1, BufferAssumption DEF CanGo
    <3> QED BY <2>2, <3>2 DEF CanGo, other_until
  <2> QED BY <2>2, <2>4, <2>5, <2>6, <2>7, <2>8, StepMove DEF Waiting
<1>3. CASE /\ UNCHANGED <<verdict, lock, seen, known, spurious>>
           /\ (CopyLow(s) \/ CopyHigh(s, "count")) /\ UNCHANGED counts
  <2>1. 1 \in Halves /\ 2 \in Halves BY DEF Halves
  <2>2. CASE CopyLow(s) BY <1>3, <2>1, <2>2, StepCopy DEF Waiting
  <2>3. CASE CopyHigh(s, "count") BY <1>3, <2>1, <2>3, StepCopy DEF Waiting
  <2> QED BY <1>3, <2>2, <2>3
<1>4. CASE /\ UNCHANGED <<verdict, lock, seen, known, spurious>>
           /\ NextRound(s, "count", begin, 1) /\ Count(s) /\ UNCHANGED data
  BY <1>4, StepCount DEF Waiting
<1> QED BY <1>1, <1>2, <1>3, <1>4 DEF procon3

\* procon4 sleeps until it is woken, and looks again.
LEMMA StepProcon4 ==
    ASSUME IInv, program = "procon4", UNCHANGED program, NEW s \in Sides, procon4(s)
    PROVE  IInv'
<1>0. UNCHANGED <<seen, spurious>> BY DEF procon4
<1>1. CASE AllSame /\ UNCHANGED <<data, counts, known>>
  BY <1>0, <1>1, StepVerdict
<1>2. CASE UNCHANGED <<verdict, data, counts>> /\ (TakeLock(s, "acquire") \/ Woken(s))
  BY <1>0, <1>2, StepTakeLock DEF Woken
<1>3. CASE UNCHANGED <<verdict, data, counts>> /\ UNCHANGED known
           /\ Check(s, Go(s, "check", "asleep") /\ lock_wait(s))
  <2>1. CASE CanGo(s, other_until(s)) /\ Go(s, "check", "low") /\ UNCHANGED lock
    BY <1>0, <1>3, <2>1, StepCheckGo
  <2>2. CASE Go(s, "check", "asleep") /\ lock_wait(s)
    <3>1. sleepers' \subseteq Sides BY <2>2 DEF lock_wait, IInv, Types
    <3> QED BY <1>0, <1>3, <2>2, <3>1, StepLetGo DEF lock_wait
  <2> QED BY <1>3, <2>1, <2>2 DEF Check
<1>4. CASE Produce(s) /\ UNCHANGED <<verdict, known>>
  BY <1>0, <1>4, StepProduce
<1>5. CASE Go(s, "release", "wake") /\ lock_release(s)
           /\ UNCHANGED <<verdict, data, counts, known>>
  <2>1. sleepers' \subseteq Sides BY <1>5 DEF lock_release, IInv, Types
  <2> QED BY <1>0, <1>5, <2>1, StepLetGo DEF lock_release
<1>6. CASE NextRound(s, "wake", begin, 1) /\ lock_wake_up
           /\ UNCHANGED <<verdict, data, counts, known>>
  <2> USE <1>6 DEF IInv, lock_wake_up, data, counts
  <2>1. /\ pc[s] = "wake" /\ pc'[s] \in {"acquire", "joined"}
        /\ \A u \in Sides \ {s} : pc'[u] = pc[u] /\ r'[u] = r[u]
        /\ pc' \in [Sides -> Places] /\ r' \in [Sides -> 0..RUNS]
        /\ Rounds' /\ Ahead(s)' = Ahead(s)
    BY NextRoundTypes DEF NextRound, begin, Ahead
  <2>2. Types' BY <1>0, <2>1 DEF Types, ProconTypeOK
  <2>3. Exclusion' BY <2>1 DEF Exclusion, Locking, other_until
  <2>4. RaceFree' BY <2>1 DEF RaceFree, Copying, CanGo
  <2> QED BY <1>0, <2>1, <2>2, <2>3, <2>4, StepMove DEF Waiting
<1> QED BY <1>1, <1>2, <1>3, <1>4, <1>5, <1>6 DEF procon4

\* A spurious wakeup only makes a sleeper look again.
LEMMA StepSpurious ==
    ASSUME IInv, NEW s \in Sides, Spurious(s)
    PROVE  IInv'
<1> USE DEF IInv, Spurious, steps, data, counts
<1>1. Types' BY BufferAssumption DEF Types, ProconTypeOK
<1>2. Rounds' /\ Counted' /\ Room' /\ Exclusion' /\ RaceFree'
  BY DEF Rounds, Counted, Ahead, Room, CanGo, other_until, Exclusion, Locking, RaceFree, Copying
<1>3. Uncounted' /\ Bounded' /\ Filled' /\ Taken' /\ Copied' /\ ConsumedWhole'
  BY DEF Uncounted, Bounded, Filled, Taken, Copied, Target, ConsumedWhole
<1> QED BY <1>1, <1>2, <1>3

-----------------------------------------------------------------------------
\* Every step of either side, of main, and of the system.
LEMMA ProconNextInv ==
    ASSUME IInv, [ProconNext]_proconVars
    PROVE  IInv'
<1>1. CASE UNCHANGED proconVars
  <2> USE <1>1 DEF IInv, proconVars, steps, lock, data, counts
  <2>1. Types' BY DEF Types, ProconTypeOK
  <2>2. Rounds' /\ Counted' /\ Room' /\ Exclusion' /\ RaceFree'
    BY DEF Rounds, Counted, Ahead, Room, CanGo, other_until, Exclusion, Locking, RaceFree, Copying
  <2>3. Uncounted' /\ Bounded' /\ Filled' /\ Taken' /\ Copied' /\ ConsumedWhole'
    BY DEF Uncounted, Bounded, Filled, Taken, Copied, Target, ConsumedWhole
  <2> QED BY <2>1, <2>2, <2>3
<1>2. CASE ProconNext
  <2>1. PICK s \in Sides : ProconStep(s) \/ Spurious(s) BY <1>2 DEF ProconNext
  <2> QED BY <2>1, StepProcon1, StepProcon2, StepProcon3, StepProcon4, StepSpurious
          DEF ProconStep
<1> QED BY <1>1, <1>2

\* The invariant always holds.
THEOREM ProconInvariant == ProconSpec => []IInv
BY InitInv, ProconNextInv, PTL DEF ProconSpec

\* The copies of the two sides are ordered: nobody is in a slot the other side is
\* not known to have left (but for procon3's producer, whose load is relaxed).
THEOREM ProconRaceFree == ProconSpec => []RaceFree
<1>1. IInv => RaceFree BY DEF IInv
<1> QED BY <1>1, ProconInvariant, PTL

\* No datum is torn, lost, doubled or overwritten: main finds all of them.
THEOREM ProconConsumesWhole == ProconSpec => []ConsumedWhole
<1>1. IInv => ConsumedWhole BY DEF IInv
<1> QED BY <1>1, ProconInvariant, PTL


-----------------------------------------------------------------------------
(* The queue *)

\* The data of the rounds from m to before n.
Data(m, n) == [k \in 1..(n - m) |-> produced(m + k - 1)]

\* How these sequences grow and shrink.
LEMMA DataSeq ==
    ASSUME NEW m \in Nat, NEW n \in Nat, m <= n
    PROVE  /\ Data(m, n) \in Seq({produced(k) : k \in Nat}) /\ Len(Data(m, n)) = n - m
           /\ Append(Data(m, n), produced(n)) = Data(m, n + 1)
           /\ m < n => /\ Data(m, n) # <<>> /\ Head(Data(m, n)) = produced(m)
                       /\ Tail(Data(m, n)) = Data(m + 1, n)
<1> DEFINE Datums == {produced(k) : k \in Nat}
<1>1. n - m \in Nat OBVIOUS
<1>2. Data(m, n) \in Seq(Datums) /\ Len(Data(m, n)) = n - m
  <2>1. \A k \in 1..(n - m) : produced(m + k - 1) \in Datums OBVIOUS
  <2> QED BY <1>1, <2>1 DEF Data
<1>3. Append(Data(m, n), produced(n)) = Data(m, n + 1)
  BY <1>1, <1>2 DEF Data
<1>4. ASSUME m < n PROVE Data(m, n) # <<>> /\ Head(Data(m, n)) = produced(m)
  BY <1>1, <1>2, <1>4 DEF Data
<1>5. ASSUME m < n PROVE Tail(Data(m, n)) = Data(m + 1, n)
  BY <1>1, <1>2, <1>5 DEF Data
<1> QED BY <1>2, <1>3, <1>4, <1>5


\* What the refinement mapping makes of a state.
queue == [k \in 1..(produced_until - consumed_until) |->
            buffer[(consumed_until + k - 1) % BUFFER_SIZE]]
taken == [k \in 1..consumed_until |-> consumed[k - 1]]

Mapping ==
    /\ queue = Data(consumed_until, produced_until)
    /\ taken = Data(0, consumed_until)
    /\ consumed_until \in Nat /\ produced_until \in Nat
    /\ Bounded

\* Both are the data of the rounds, the queue from where the other ends.
LEMMA Mapped == IInv => Mapping
<1> SUFFICES ASSUME IInv PROVE Mapping
  OBVIOUS
<1> USE DEF IInv
<1>1. /\ consumed_until \in Nat /\ produced_until \in Nat /\ consumed_until <= produced_until
      /\ produced_until <= RUNS
  BY DEF Types, ProconTypeOK, Bounded
<1>2. CASE program \in Waiting
  <2>1. ASSUME NEW k \in 1..(produced_until - consumed_until)
        PROVE  buffer[(consumed_until + k - 1) % BUFFER_SIZE] = produced(consumed_until + k - 1)
    <3>1. /\ consumed_until + k - 1 \in Nat
          /\ consumed_until <= consumed_until + k - 1 /\ consumed_until + k - 1 < produced_until
      BY <1>1
    <3> QED BY <1>2, <3>1 DEF Filled
  <2>2. ASSUME NEW k \in 1..consumed_until PROVE consumed[k - 1] = produced(0 + k - 1)
    <3>1. k - 1 \in 0..(consumed_until - 1) /\ 0 + k - 1 = k - 1 BY <1>1
    <3> QED BY <1>2, <3>1 DEF Taken
  <2>3. consumed_until - 0 = consumed_until BY <1>1
  <2> QED BY <1>1, <2>1, <2>2, <2>3 DEF Mapping, queue, taken, Data
<1>3. CASE program \notin Waiting
  <2>1. produced_until = 0 /\ consumed_until = 0
    BY <1>3 DEF Uncounted, Types, ProconPrograms, Waiting
  <2>2. 0 - 0 = 0 /\ 1..0 = {} OBVIOUS
  <2> QED BY <1>1, <2>1, <2>2 DEF Mapping, queue, taken, Data
<1> QED BY <1>2, <1>3

\* The counts go up by one, one at a time.
LEMMA CountsStep ==
    ASSUME ProconNext
    PROVE  \/ UNCHANGED counts
           \/ produced_until' = produced_until + 1 /\ UNCHANGED consumed_until
           \/ consumed_until' = consumed_until + 1 /\ UNCHANGED produced_until
<1>1. PICK s \in Sides : ProconStep(s) \/ Spurious(s) BY DEF ProconNext
<1>2. UNCHANGED counts \/ Count(s)
  BY <1>1 DEF ProconStep, Spurious, procon1, procon2, procon3, procon4, Produce, LoadUntil, counts
<1> QED BY <1>2 DEF Count, counts

\* It starts empty.
LEMMA QueueFirst ==
    ASSUME ProconData
    PROVE  Queue!Init /\ Mapping
<1>1. produced_until = 0 /\ consumed_until = 0 BY DEF ProconData
<1>2. 0 - 0 = 0 /\ 1..0 = {} OBVIOUS
<1> QED BY <1>1, <1>2, BufferAssumption DEF Queue!Init, Mapping, Bounded, queue, taken, Data

\* A step puts a datum at its end, takes one from its head, or neither.
LEMMA QueueStep ==
    ASSUME Mapping, Mapping', [ProconNext]_proconVars
    PROVE  [Queue!Put \/ Queue!Take]_<<queue, taken>>
<1> DEFINE m == consumed_until
           n == produced_until
<1>1. /\ queue = Data(m, n) /\ taken = Data(0, m)
      /\ m \in Nat /\ n \in Nat /\ m <= n /\ n <= m + BUFFER_SIZE
  BY DEF Mapping, Bounded
<1>2. /\ queue' = Data(m', n') /\ taken' = Data(0, m')
      /\ m' \in Nat /\ n' \in Nat /\ m' <= n' /\ n' <= m' + BUFFER_SIZE
  BY DEF Mapping, Bounded
<1>3. \/ m' = m /\ n' = n
      \/ n' = n + 1 /\ m' = m
      \/ m' = m + 1 /\ n' = n
  BY CountsStep DEF proconVars, counts
<1> HIDE DEF m, n
<1>4. Len(queue) = n - m /\ Len(taken) = m
  <2>1. Len(Data(m, n)) = n - m BY <1>1, DataSeq
  <2>2. 0 \in Nat /\ 0 <= m /\ m - 0 = m BY <1>1
  <2>3. Len(Data(0, m)) = m - 0 BY <1>1, <2>2, DataSeq
  <2> QED BY <1>1, <2>1, <2>2, <2>3
<1>5. CASE m' = m /\ n' = n BY <1>1, <1>2, <1>5
<1>6. CASE n' = n + 1 /\ m' = m
  <2>1. Append(queue, produced(n)) = queue' BY <1>1, <1>2, <1>6, DataSeq
  <2>2. Len(queue) < BUFFER_SIZE BY <1>1, <1>2, <1>4, <1>6, BufferAssumption
  <2>3. Datum(Len(taken) + Len(queue) + 1) = produced(n)
    <3>1. Len(taken) + Len(queue) + 1 - 1 = n BY <1>1, <1>4
    <3> QED BY <3>1 DEF Datum
  <2>4. taken' = taken BY <1>1, <1>2, <1>6
  <2> QED BY <2>1, <2>2, <2>3, <2>4 DEF Queue!Put, queue, taken
<1>7. CASE m' = m + 1 /\ n' = n
  <2>1. m < n BY <1>1, <1>2, <1>7
  <2>2. queue # <<>> /\ Head(queue) = produced(m) /\ Tail(queue) = queue'
    BY <1>1, <1>2, <1>7, <2>1, DataSeq
  <2>3. taken' = Append(taken, produced(m))
    <3>1. 0 \in Nat /\ 0 <= m BY <1>1
    <3>2. Append(Data(0, m), produced(m)) = Data(0, m + 1) BY <1>1, <3>1, DataSeq
    <3> QED BY <1>1, <1>2, <1>7, <3>2
  <2> QED BY <2>2, <2>3 DEF Queue!Take, queue, taken
<1> QED BY <1>3, <1>5, <1>6, <1>7

\* The buffer and its two counts are a bounded queue.
THEOREM ProconImplementsQueue == ProconSpec => ImplementsQueue
<1>1. ProconInit => Queue!Init BY QueueFirst DEF ProconInit
<1> QED BY <1>1, QueueStep, Mapped, ProconInvariant, PTL
        DEF ProconSpec, ImplementsQueue, Queue!Spec, queue, taken

=============================================================================
