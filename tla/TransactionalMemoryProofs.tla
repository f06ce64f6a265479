---------------------- MODULE TransactionalMemoryProofs ----------------------
(***************************************************************************)
(* Proofs about TransactionalMemory: no sweep frees a segment that a       *)
(* transaction may still use or that was freed before, and none leaves a   *)
(* marked segment behind, for every number of threads and segments.        *)
(***************************************************************************)
EXTENDS TransactionalMemory, FiniteSetTheorems, TLAPS

-----------------------------------------------------------------------------
(* The inductive invariant *)

\* freeing_lock: a transaction holds it shared, a sweep exclusively, and
\* tm_destroy finds nobody inside.
LockHolders ==
    /\ readers = {t \in Threads : pc[t] \in {"running", "alloc"}}
    /\ \A t \in Threads : writer = t <=> pc[t] \in {"sweep", "swept"}
    /\ writer # Nobody => readers = {}
    /\ destroyed => \A t \in Threads : pc[t] = "out"

\* Those that count themselves later, or come out of the sweep that reset the
\* counter: together with the count they stay within the bound.
Uncounted == {t \in Threads : pc[t] \in {"swept", "shared_wait", "running", "alloc", "count"}}

CounterBound == counter + Cardinality(Uncounted) <= CLEANING_PERIOD + Cardinality(Threads) - 1

\* An entry that has been handed out and not filled in.
Reserved(i) == \E t \in Threads : pc[t] = "alloc" /\ new_index[t] = i

Unused(i) == i >= n_segments \/ Reserved(i)

\* No two calls have the same entry, and nobody has heard of one that is unused.
Entries ==
    /\ \A t \in Threads : pc[t] = "alloc" =>
          /\ new_index[t] \in 1..(n_segments - 1)
          /\ \A u \in Threads : u # t /\ pc[u] = "alloc" => new_index[u] # new_index[t]
    /\ \A i \in Indices : Unused(i) =>
          /\ segment_status[i] = "ABSENT" /\ memory[i] = "none"
          /\ i \notin linked
          /\ \A t \in Threads : i \notin reach[t] \cup allocated[t]

\* What a transaction has allocated is its own until it commits.
Owned ==
    \A t \in Threads :
        /\ removed[t] \subseteq reach[t]
        /\ t \notin readers => reach[t] = {} /\ allocated[t] = {}
        /\ allocated[t] \cap linked = {}
        /\ \A u \in Threads : allocated[t] \cap reach[u] = {}
        /\ \A u \in Threads \ {t} : allocated[t] \cap allocated[u] = {}
        /\ \A i \in allocated[t] : segment_status[i] = "IN_USE"

\* A segment that is linked is marked only by a transaction that still runs.
Marked ==
    ~destroyed => \A i \in linked \ undone :
        segment_status[i] = "IN_USE" \/ \E t \in Threads : i \in removed[t]

\* The sweep has left no mark behind it.
Swept ==
    \A t \in Threads : pc[t] = "sweep" =>
        \A i \in Indices : i < new_index[t] => segment_status[i] # "TO_BE_DELETED"

\* The inductive invariant behind TypeOK, GracePeriod, NothingFreedTwice and SweepComplete.
RegionInv ==
    /\ TypeOK
    /\ LockHolders
    /\ CounterBound
    /\ Entries
    /\ Owned
    /\ Marked
    /\ GracePeriod
    /\ NothingFreedTwice
    /\ Swept
    /\ SweepComplete

USE PeriodAssumption, TableAssumption, ThreadsAssumption

\* A step of t inside the table, the lock or the transaction of t.
Step(t) ==
    \/ CheckCounter(t)
    \/ SweepLock(t) \/ SweepSegment(t) \/ ResetCounter(t) \/ SweepUnlock(t)
    \/ Begin(t)
    \/ ReserveIndex(t) \/ PublishSegment(t)
    \/ \E s \in Indices : Free(t, s)
    \/ EndCommit(t) \/ EndFail(t) \/ ReadAbort(t)
    \/ Count(t)

-----------------------------------------------------------------------------
(* The lock *)

\* freeing_lock is held as the calls say.
LEMMA NextHolders ==
    ASSUME TypeOK, LockHolders, NEW t \in Threads, Step(t)
    PROVE  LockHolders'
<1> USE DEF TypeOK, LockHolders, Go, lock, region, client
<1>1. CASE CheckCounter(t) BY <1>1 DEF CheckCounter
<1>2. CASE SweepLock(t) BY <1>2 DEF SweepLock
<1>3. CASE SweepSegment(t) BY <1>3 DEF SweepSegment
<1>4. CASE ResetCounter(t) BY <1>4 DEF ResetCounter
<1>5. CASE SweepUnlock(t) BY <1>5 DEF SweepUnlock
<1>6. CASE Begin(t) BY <1>6 DEF Begin
<1>7. CASE ReserveIndex(t) BY <1>7 DEF ReserveIndex
<1>8. CASE PublishSegment(t) BY <1>8 DEF PublishSegment
<1>9. ASSUME NEW s \in Indices, Free(t, s) PROVE LockHolders' BY <1>9 DEF Free
<1>10. CASE EndCommit(t) \/ EndFail(t) \/ ReadAbort(t)
  BY <1>10 DEF EndCommit, EndFail, ReadAbort, Leave
<1>11. CASE Count(t) BY <1>11 DEF Count
<1> QED BY <1>1, <1>2, <1>3, <1>4, <1>5, <1>6, <1>7, <1>8, <1>9, <1>10, <1>11 DEF Step

-----------------------------------------------------------------------------
(* The counter *)

\* The calls that are still to count are finitely many.
LEMMA UncountedFinite ==
    ASSUME NEW S \in SUBSET Threads
    PROVE  /\ IsFiniteSet(S) /\ Cardinality(S) \in Nat /\ Cardinality(Threads) \in Nat
           /\ Cardinality(S) <= Cardinality(Threads)
BY FS_Subset, FS_CardinalityType

\* A call moves among those that are still to count, joins or leaves them.
LEMMA NextCounter ==
    ASSUME TypeOK, CounterBound, NEW t \in Threads, Step(t)
    PROVE  CounterBound' /\ counter' \in Nat
<1> DEFINE Max == CLEANING_PERIOD + Cardinality(Threads) - 1
<1>0. counter \in Nat /\ counter + Cardinality(Uncounted) <= Max
  BY UncountedFinite DEF TypeOK, CounterBound
<1>1. /\ Uncounted \in SUBSET Threads /\ Uncounted' \in SUBSET Threads
      /\ Cardinality(Uncounted) \in Nat /\ Cardinality(Uncounted') \in Nat
      /\ Cardinality(Threads) \in Nat /\ Cardinality(Uncounted') <= Cardinality(Threads)
  <2>1. Uncounted \in SUBSET Threads /\ Uncounted' \in SUBSET Threads BY DEF Uncounted
  <2> QED BY <2>1, UncountedFinite
<1>2. ASSUME Uncounted' = Uncounted, UNCHANGED counter PROVE CounterBound' /\ counter' \in Nat
  BY <1>0, <1>2 DEF CounterBound
<1>3. ASSUME t \in Uncounted, Uncounted' = Uncounted \ {t}, counter' \in {counter, counter + 1}
      PROVE  CounterBound' /\ counter' \in Nat
  <2>1. Cardinality(Uncounted') = Cardinality(Uncounted) - 1
    BY <1>1, <1>3, FS_RemoveElement, UncountedFinite
  <2> QED BY <1>0, <1>1, <1>3, <2>1 DEF CounterBound
<1>4. ASSUME counter' < CLEANING_PERIOD, counter' \in Nat PROVE CounterBound' /\ counter' \in Nat
  BY <1>1, <1>4 DEF CounterBound
<1> USE DEF TypeOK, Go, lock, region, client, counter
<1>5. CASE CheckCounter(t)
  <2>1. CASE sweep_due
    <3>1. Uncounted' = Uncounted BY <1>5, <2>1 DEF CheckCounter, Uncounted
    <3> QED BY <1>2, <1>5, <3>1 DEF CheckCounter
  <2>2. CASE ~sweep_due
    BY <1>0, <1>4, <1>5, <2>2 DEF CheckCounter, sweep_due
  <2> QED BY <2>1, <2>2
<1>6. CASE SweepLock(t)
  <2>1. Uncounted' = Uncounted BY <1>6 DEF SweepLock, Uncounted
  <2> QED BY <1>2, <1>6, <2>1 DEF SweepLock
<1>7. CASE SweepSegment(t)
  <2>1. Uncounted' = Uncounted BY <1>7 DEF SweepSegment, Uncounted
  <2> QED BY <1>2, <1>7, <2>1 DEF SweepSegment
<1>8. CASE ResetCounter(t) BY <1>4, <1>8 DEF ResetCounter
<1>9. CASE SweepUnlock(t)
  <2>1. Uncounted' = Uncounted BY <1>9 DEF SweepUnlock, Uncounted
  <2> QED BY <1>2, <1>9, <2>1 DEF SweepUnlock
<1>10. CASE Begin(t)
  <2>1. Uncounted' = Uncounted BY <1>10 DEF Begin, Uncounted
  <2> QED BY <1>2, <1>10, <2>1 DEF Begin
<1>11. CASE ReserveIndex(t)
  <2>1. Uncounted' = Uncounted BY <1>11 DEF ReserveIndex, Uncounted
  <2> QED BY <1>2, <1>11, <2>1 DEF ReserveIndex
<1>12. CASE PublishSegment(t)
  <2>1. Uncounted' = Uncounted BY <1>12 DEF PublishSegment, Uncounted
  <2> QED BY <1>2, <1>12, <2>1 DEF PublishSegment
<1>13. ASSUME NEW s \in Indices, Free(t, s) PROVE CounterBound' /\ counter' \in Nat
  <2>1. Uncounted' = Uncounted BY <1>13 DEF Free, Uncounted
  <2> QED BY <1>2, <1>13, <2>1 DEF Free
<1>14. CASE EndCommit(t) \/ EndFail(t)
  <2>1. Uncounted' = Uncounted BY <1>14 DEF EndCommit, EndFail, Leave, Uncounted
  <2> QED BY <1>2, <1>14, <2>1 DEF EndCommit, EndFail, Leave
<1>15. CASE ReadAbort(t)
  <2>1. t \in Uncounted /\ Uncounted' = Uncounted \ {t}
    BY <1>15 DEF ReadAbort, Leave, Uncounted
  <2> QED BY <1>3, <1>15, <2>1 DEF ReadAbort, Leave
<1>16. CASE Count(t)
  <2>1. t \in Uncounted /\ Uncounted' = Uncounted \ {t} BY <1>16 DEF Count, Uncounted
  <2> QED BY <1>3, <1>16, <2>1 DEF Count
<1> QED
  BY <1>5, <1>6, <1>7, <1>8, <1>9, <1>10, <1>11, <1>12, <1>13, <1>14, <1>15, <1>16 DEF Step

-----------------------------------------------------------------------------
(* Entries of the table *)

\* Nobody is in a transaction while a sweep holds the lock.
LEMMA SweepAlone ==
    ASSUME LockHolders, Owned, NEW t \in Threads, pc[t] \in {"sweep", "swept"}
    PROVE  /\ readers = {}
           /\ \A u \in Threads : /\ u # t => pc[u] \notin {"sweep", "swept"}
                                 /\ pc[u] \notin {"running", "alloc"}
                                 /\ removed[u] = {}
<1>1. writer = t /\ writer # Nobody BY DEF LockHolders
<1>2. readers = {} BY <1>1 DEF LockHolders
<1> QED BY <1>1, <1>2 DEF LockHolders, Owned

\* Every variable keeps its type.
LEMMA NextTypes ==
    ASSUME TypeOK, Entries, NEW t \in Threads, Step(t), CounterBound', counter' \in Nat
    PROVE  TypeOK'
<1> USE DEF Go, lock, region, client, Indices, Statuses
<1> DEFINE Rest ==
    /\ segment_status \in [Indices -> Statuses]
    /\ n_segments \in 1..MAX_SEGMENTS
    /\ readers \subseteq Threads /\ writer \in Threads \cup {Nobody}
    /\ pc \in [Threads -> {"out", "sweep_wait", "sweep", "swept", "shared_wait", "running",
                           "alloc", "count"}]
    /\ new_index \in [Threads -> 0..MAX_SEGMENTS]
    /\ memory \in [Indices -> {"none", "live", "freed"}]
    /\ linked \subseteq Indices
    /\ reach \in [Threads -> SUBSET Indices]
    /\ allocated \in [Threads -> SUBSET Indices]
    /\ removed \in [Threads -> SUBSET Indices]
    /\ undone \subseteq Indices
    /\ destroyed \in BOOLEAN
<1>0. Rest BY DEF TypeOK
<1>1. ASSUME CheckCounter(t) PROVE Rest' BY <1>0, <1>1 DEF CheckCounter
<1>2. ASSUME SweepLock(t) PROVE Rest' BY <1>0, <1>2 DEF SweepLock
<1>3. ASSUME SweepSegment(t) PROVE Rest'
  <2>1. new_index' \in [Threads -> 0..MAX_SEGMENTS] BY <1>0, <1>3 DEF SweepSegment
  <2>2. /\ segment_status' \in [Indices -> Statuses]
        /\ memory' \in [Indices -> {"none", "live", "freed"}]
    BY <1>0, <1>3 DEF SweepSegment
  <2> QED BY <1>0, <1>3, <2>1, <2>2 DEF SweepSegment
<1>4. ASSUME ResetCounter(t) PROVE Rest' BY <1>0, <1>4 DEF ResetCounter
<1>5. ASSUME SweepUnlock(t) PROVE Rest' BY <1>0, <1>5 DEF SweepUnlock
<1>6. ASSUME Begin(t) PROVE Rest' BY <1>0, <1>6 DEF Begin
<1>7. ASSUME ReserveIndex(t) PROVE Rest' BY <1>0, <1>7 DEF ReserveIndex
<1>8. ASSUME PublishSegment(t) PROVE Rest'
  <2>1. new_index[t] \in Indices BY <1>0, <1>8 DEF PublishSegment, Entries
  <2> QED BY <1>0, <1>8, <2>1 DEF PublishSegment
<1>9. ASSUME NEW s \in Indices, Free(t, s) PROVE Rest' BY <1>0, <1>9 DEF Free
<1>10. ASSUME NEW links \in SUBSET Indices, Leave(t, links), NEW to \in {"count", "out"}, Go(t, to)
       PROVE  Rest'
  BY <1>0, <1>10 DEF Leave
<1>11. ASSUME EndCommit(t) PROVE Rest'
  <2>1. (linked \cup allocated[t]) \ removed[t] \in SUBSET Indices BY <1>0
  <2> QED BY <1>10, <1>11, <2>1 DEF EndCommit
<1>12. ASSUME EndFail(t) \/ ReadAbort(t) PROVE Rest' BY <1>0, <1>10, <1>12 DEF EndFail, ReadAbort
<1>13. ASSUME Count(t) PROVE Rest' BY <1>0, <1>13 DEF Count
<1>14. Rest'
  BY <1>1, <1>2, <1>3, <1>4, <1>5, <1>6, <1>7, <1>8, <1>9, <1>11, <1>12, <1>13 DEF Step
<1>15. counter' \in 0..(CLEANING_PERIOD + Cardinality(Threads) - 1)
  <2>1. Uncounted' \in SUBSET Threads BY DEF Uncounted
  <2> QED BY <2>1, UncountedFinite DEF CounterBound
<1> QED BY <1>14, <1>15 DEF TypeOK, counter

\* An entry stays unused until one call has reserved it and filled it in.
LEMMA NextEntries ==
    ASSUME TypeOK, Entries, NEW t \in Threads, Step(t)
    PROVE  Entries'
<1> USE DEF TypeOK, Go, lock, region, client, Entries, Indices
<1>1. ASSUME UNCHANGED <<n_segments, new_index, linked, reach, allocated>>,
             \A u \in Threads : pc'[u] = "alloc" <=> pc[u] = "alloc",
             \A i \in Indices : segment_status[i] = "ABSENT" =>
                segment_status'[i] = "ABSENT" /\ memory'[i] = memory[i]
      PROVE  Entries'
  BY <1>1 DEF Unused, Reserved
<1>2. CASE CheckCounter(t) BY <1>1, <1>2 DEF CheckCounter
<1>3. ASSUME UNCHANGED <<n_segments, segment_status, memory, linked, reach, allocated>>,
             \A u \in Threads : /\ pc'[u] = "alloc" <=> pc[u] = "alloc"
                                /\ pc[u] = "alloc" => new_index'[u] = new_index[u]
      PROVE  Entries'
  BY <1>3 DEF Unused, Reserved
<1>4. CASE SweepLock(t) BY <1>3, <1>4 DEF SweepLock
<1>5. CASE SweepSegment(t)
  <2>1. ASSUME NEW i \in Indices, segment_status[i] = "ABSENT"
        PROVE  segment_status'[i] = "ABSENT" /\ memory'[i] = memory[i]
    BY <1>5, <2>1 DEF SweepSegment
  <2>2. \A u \in Threads : pc[u] = "alloc" => new_index'[u] = new_index[u]
    BY <1>5 DEF SweepSegment
  <2> QED BY <1>5, <2>1, <2>2 DEF SweepSegment, Unused, Reserved
<1>6. CASE ResetCounter(t) BY <1>3, <1>6 DEF ResetCounter
<1>7. CASE SweepUnlock(t) BY <1>1, <1>7 DEF SweepUnlock
<1>8. CASE Begin(t)
  BY <1>8 DEF Begin, Unused, Reserved
<1>9. CASE ReserveIndex(t)
  <2>1. \A i \in Indices : Unused(i)' => Unused(i)
    BY <1>9 DEF ReserveIndex, Unused, Reserved
  <2>2. \A u \in Threads : pc'[u] = "alloc" =>
            \/ u = t /\ new_index'[u] = n_segments
            \/ u # t /\ pc[u] = "alloc" /\ new_index'[u] = new_index[u]
    BY <1>9 DEF ReserveIndex
  <2> QED BY <1>9, <2>1, <2>2 DEF ReserveIndex
<1>10. CASE PublishSegment(t)
  <2>1. \A i \in Indices : Unused(i)' => Unused(i) /\ i # new_index[t]
    BY <1>10 DEF PublishSegment, Unused, Reserved
  <2>2. \A u \in Threads : pc'[u] = "alloc" => pc[u] = "alloc" /\ new_index'[u] = new_index[u]
    BY <1>10 DEF PublishSegment
  <2> QED BY <1>10, <2>1, <2>2 DEF PublishSegment
<1>11. ASSUME NEW s \in Indices, Free(t, s) PROVE Entries'
  <2>1. ~Unused(s) BY <1>11 DEF Free
  <2>2. \A i \in Indices : Unused(i)' <=> Unused(i) BY <1>11 DEF Free, Unused, Reserved
  <2> QED BY <1>11, <2>1, <2>2 DEF Free
<1>12. ASSUME NEW links, links \subseteq linked \cup allocated[t], Leave(t, links),
              NEW to \in {"count", "out"}, Go(t, to)
       PROVE  Entries'
  <2>1. \A i \in Indices : Unused(i)' <=> Unused(i) BY <1>12 DEF Leave, Unused, Reserved
  <2>2. ASSUME NEW i \in Indices, Unused(i)
        PROVE  i \notin linked' /\ \A u \in Threads : i \notin reach'[u] \cup allocated'[u]
    BY <1>12, <2>2 DEF Leave
  <2> QED BY <1>12, <2>1, <2>2 DEF Leave
<1>13. CASE EndCommit(t)
  <2>1. (linked \cup allocated[t]) \ removed[t] \subseteq linked \cup allocated[t] OBVIOUS
  <2> QED BY <1>12, <1>13, <2>1 DEF EndCommit
<1>14. CASE EndFail(t) \/ ReadAbort(t) BY <1>12, <1>14 DEF EndFail, ReadAbort
<1>15. CASE Count(t) BY <1>1, <1>15 DEF Count
<1> QED
  BY <1>2, <1>4, <1>5, <1>6, <1>7, <1>8, <1>9, <1>10, <1>11, <1>13, <1>14, <1>15 DEF Step

-----------------------------------------------------------------------------
(* Who may use a segment *)

\* What a transaction has allocated stays its own until it ends.
LEMMA NextOwned ==
    ASSUME TypeOK, LockHolders, Entries, Owned, NEW t \in Threads, Step(t)
    PROVE  Owned'
<1> USE DEF TypeOK, Go, lock, region, client
<1>1. ASSUME UNCHANGED <<readers, linked, reach, allocated, removed>>,
             \A i \in Indices : segment_status[i] = "IN_USE" => segment_status'[i] = "IN_USE"
      PROVE  Owned'
  BY <1>1 DEF Owned
<1>2. CASE CheckCounter(t) BY <1>1, <1>2 DEF CheckCounter
<1>3. CASE SweepLock(t) BY <1>1, <1>3 DEF SweepLock
<1>4. CASE SweepSegment(t)
  <2>1. \A i \in Indices : segment_status[i] = "IN_USE" => segment_status'[i] = "IN_USE"
    BY <1>4 DEF SweepSegment
  <2> QED BY <1>1, <1>4, <2>1 DEF SweepSegment
<1>5. CASE ResetCounter(t) BY <1>1, <1>5 DEF ResetCounter
<1>6. CASE SweepUnlock(t) BY <1>1, <1>6 DEF SweepUnlock
<1>7. CASE Begin(t)
  <2>1. t \notin readers BY <1>7 DEF Begin, LockHolders
  <2>2. allocated[t] = {} /\ removed[t] = {} BY <2>1 DEF Owned
  <2> QED BY <1>7, <2>1, <2>2 DEF Begin, Owned
<1>8. CASE ReserveIndex(t) BY <1>1, <1>8 DEF ReserveIndex
<1>9. CASE PublishSegment(t)
  <2> DEFINE n == new_index[t]
  <2>1. Unused(n) /\ n \in Indices /\ t \in readers
    BY <1>9 DEF PublishSegment, Entries, Unused, Reserved, Indices, LockHolders
  <2>2. n \notin linked /\ \A u \in Threads : n \notin reach[u] \cup allocated[u]
    BY <2>1 DEF Entries
  <2>3. /\ allocated' = [allocated EXCEPT ![t] = @ \cup {n}]
        /\ segment_status' = [segment_status EXCEPT ![n] = "IN_USE"]
        /\ UNCHANGED <<readers, linked, reach, removed>>
    BY <1>9 DEF PublishSegment
  <2> QED BY <2>1, <2>2, <2>3 DEF Owned
<1>10. ASSUME NEW s \in Indices, Free(t, s) PROVE Owned'
  <2>1. s \in reach[t] /\ t \in readers BY <1>10 DEF Free, LockHolders
  <2>2. \A u \in Threads : s \notin allocated[u] BY <2>1 DEF Owned
  <2> QED BY <1>10, <2>1, <2>2 DEF Free, Owned
<1>11. ASSUME NEW links, links \subseteq linked \cup allocated[t], Leave(t, links)
       PROVE  Owned'
  <2>1. /\ readers' = readers \ {t} /\ linked' = links
        /\ reach' = [u \in Threads |-> IF u = t THEN {}
                                       ELSE IF u \in readers THEN reach[u] \cup links ELSE {}]
        /\ allocated' = [allocated EXCEPT ![t] = {}]
        /\ removed' = [removed EXCEPT ![t] = {}]
        /\ segment_status' = segment_status
    BY <1>11 DEF Leave
  <2>2. \A u \in Threads \ {t} : allocated[u] \cap links = {} BY <1>11 DEF Owned
  <2>3. \A u \in Threads \ {t} : removed'[u] \subseteq reach'[u] BY <2>1 DEF Owned
  <2>4. \A u \in Threads \ {t}, v \in Threads : allocated'[u] \cap reach'[v] = {}
    BY <2>1, <2>2 DEF Owned
  <2>5. allocated'[t] = {} /\ removed'[t] = {} /\ reach'[t] = {} BY <2>1
  <2> QED BY <2>1, <2>2, <2>3, <2>4, <2>5 DEF Owned
<1>12. CASE EndCommit(t)
  <2>1. (linked \cup allocated[t]) \ removed[t] \subseteq linked \cup allocated[t] OBVIOUS
  <2> QED BY <1>11, <1>12, <2>1 DEF EndCommit
<1>13. CASE EndFail(t) \/ ReadAbort(t) BY <1>11, <1>13 DEF EndFail, ReadAbort
<1>14. CASE Count(t) BY <1>1, <1>14 DEF Count
<1> QED
  BY <1>2, <1>3, <1>4, <1>5, <1>6, <1>7, <1>8, <1>9, <1>10, <1>12, <1>13, <1>14 DEF Step

\* The mark of a segment that is linked goes with the transaction that set it:
\* a commit unlinks the segment, a failure leaves a free that was undone.
LEMMA NextMarked ==
    ASSUME TypeOK, LockHolders, Owned, Marked, NEW t \in Threads, Step(t)
    PROVE  Marked'
<1> USE DEF TypeOK, Go, lock, region, client
<1>1. ASSUME UNCHANGED <<segment_status, linked, removed, undone, destroyed>> PROVE Marked'
  BY <1>1 DEF Marked
<1>2. CASE CheckCounter(t) BY <1>1, <1>2 DEF CheckCounter
<1>3. CASE SweepLock(t) BY <1>1, <1>3 DEF SweepLock
<1>4. CASE SweepSegment(t)
  <2>1. \A i \in Indices : segment_status[i] = "IN_USE" => segment_status'[i] = "IN_USE"
    BY <1>4 DEF SweepSegment
  <2>2. UNCHANGED <<linked, removed, undone, destroyed>> BY <1>4 DEF SweepSegment
  <2> QED BY <2>1, <2>2 DEF Marked
<1>5. CASE ResetCounter(t) BY <1>1, <1>5 DEF ResetCounter
<1>6. CASE SweepUnlock(t) BY <1>1, <1>6 DEF SweepUnlock
<1>7. CASE Begin(t) BY <1>1, <1>7 DEF Begin
<1>8. CASE ReserveIndex(t) BY <1>1, <1>8 DEF ReserveIndex
<1>9. CASE PublishSegment(t) BY <1>9 DEF PublishSegment, Marked
<1>10. ASSUME NEW s \in Indices, Free(t, s) PROVE Marked'
  BY <1>10 DEF Free, Marked
<1>11. ASSUME NEW links, Leave(t, links),
              \A i \in links \ undone' : i \notin removed[t] /\ (i \in linked \/ i \in allocated[t])
       PROVE  Marked'
  <2>1. /\ linked' = links /\ removed' = [removed EXCEPT ![t] = {}]
        /\ undone' = undone \cup (removed[t] \cap links)
        /\ UNCHANGED <<segment_status, destroyed>>
    BY <1>11 DEF Leave
  <2>2. \A i \in allocated[t] : segment_status[i] = "IN_USE" BY DEF Owned
  <2> QED BY <1>11, <2>1, <2>2 DEF Marked
<1>12. CASE EndCommit(t) BY <1>11, <1>12 DEF EndCommit, Leave
<1>13. CASE EndFail(t) \/ ReadAbort(t) BY <1>11, <1>13 DEF EndFail, ReadAbort, Leave
<1>14. CASE Count(t) BY <1>1, <1>14 DEF Count
<1> QED
  BY <1>2, <1>3, <1>4, <1>5, <1>6, <1>7, <1>8, <1>9, <1>10, <1>12, <1>13, <1>14 DEF Step

-----------------------------------------------------------------------------
(* What is freed *)

\* A segment that is linked is there, unless its free was undone.
LEMMA LinkedLive ==
    ASSUME TypeOK, Owned, Marked, GracePeriod, NothingFreedTwice, ~destroyed,
           NEW i \in linked \ undone
    PROVE  memory[i] = "live"
<1>1. i \in Indices BY DEF TypeOK
<1>2. CASE segment_status[i] = "IN_USE" BY <1>1, <1>2 DEF NothingFreedTwice
<1>3. CASE segment_status[i] # "IN_USE"
  <2>1. PICK u \in Threads : i \in removed[u] BY <1>3 DEF Marked
  <2>2. u \in readers /\ i \in reach[u] BY <2>1 DEF Owned
  <2> QED BY <2>2 DEF GracePeriod, Running
<1> QED BY <1>2, <1>3

\* No step frees what a running transaction may use.
LEMMA NextGrace ==
    ASSUME TypeOK, LockHolders, Entries, Owned, Marked, GracePeriod, NothingFreedTwice,
           NEW t \in Threads, Step(t)
    PROVE  GracePeriod'
<1> USE DEF TypeOK, Go, lock, region, client, Running
<1>1. ASSUME UNCHANGED <<readers, memory, reach, allocated, undone>> PROVE GracePeriod'
  BY <1>1 DEF GracePeriod
<1>2. CASE CheckCounter(t) BY <1>1, <1>2 DEF CheckCounter
<1>3. CASE SweepLock(t) BY <1>1, <1>3 DEF SweepLock
<1>4. CASE SweepSegment(t)
  <2>1. readers' = {} BY <1>4, SweepAlone DEF SweepSegment
  <2> QED BY <2>1 DEF GracePeriod
<1>5. CASE ResetCounter(t) BY <1>1, <1>5 DEF ResetCounter
<1>6. CASE SweepUnlock(t) BY <1>1, <1>6 DEF SweepUnlock
<1>7. CASE Begin(t)
  <2>1. t \notin readers /\ ~destroyed BY <1>7 DEF Begin, LockHolders
  <2>2. allocated[t] = {} BY <2>1 DEF Owned
  <2>3. \A i \in linked \ undone : memory[i] = "live" BY <2>1, LinkedLive
  <2> QED BY <1>7, <2>2, <2>3 DEF Begin, GracePeriod
<1>8. CASE ReserveIndex(t) BY <1>1, <1>8 DEF ReserveIndex
<1>9. CASE PublishSegment(t)
  <2>1. new_index[t] \in Indices BY <1>9 DEF PublishSegment, Entries, Indices
  <2> QED BY <1>9, <2>1 DEF PublishSegment, GracePeriod
<1>10. ASSUME NEW s \in Indices, Free(t, s) PROVE GracePeriod'
  BY <1>1, <1>10 DEF Free
<1>11. ASSUME NEW links, links \subseteq linked \cup allocated[t], Leave(t, links)
       PROVE  GracePeriod'
  <2>1. /\ readers' = readers \ {t}
        /\ reach' = [u \in Threads |-> IF u = t THEN {}
                                       ELSE IF u \in readers THEN reach[u] \cup links ELSE {}]
        /\ allocated' = [allocated EXCEPT ![t] = {}]
        /\ undone \subseteq undone' /\ memory' = memory /\ t \in readers /\ ~destroyed
    BY <1>11 DEF Leave, LockHolders
  <2>2. \A i \in links \ undone : memory[i] = "live"
    BY <1>11, <2>1, LinkedLive DEF GracePeriod
  <2> QED BY <2>1, <2>2 DEF GracePeriod
<1>12. CASE EndCommit(t)
  <2>1. (linked \cup allocated[t]) \ removed[t] \subseteq linked \cup allocated[t] OBVIOUS
  <2> QED BY <1>11, <1>12, <2>1 DEF EndCommit
<1>13. CASE EndFail(t) \/ ReadAbort(t) BY <1>11, <1>13 DEF EndFail, ReadAbort
<1>14. CASE Count(t) BY <1>1, <1>14 DEF Count
<1> QED
  BY <1>2, <1>3, <1>4, <1>5, <1>6, <1>7, <1>8, <1>9, <1>10, <1>12, <1>13, <1>14 DEF Step

\* The status of a segment says whether its memory is still to be given back.
LEMMA NextFreed ==
    ASSUME TypeOK, LockHolders, Entries, GracePeriod, NothingFreedTwice, NEW t \in Threads, Step(t)
    PROVE  NothingFreedTwice'
<1> USE DEF TypeOK, Go, lock, region, client
<1>1. ASSUME UNCHANGED <<segment_status, memory, destroyed>>, undone \subseteq undone'
      PROVE  NothingFreedTwice'
  BY <1>1 DEF NothingFreedTwice
<1>2. CASE CheckCounter(t) BY <1>1, <1>2 DEF CheckCounter
<1>3. CASE SweepLock(t) BY <1>1, <1>3 DEF SweepLock
<1>4. CASE SweepSegment(t) BY <1>4 DEF SweepSegment, NothingFreedTwice
<1>5. CASE ResetCounter(t) BY <1>1, <1>5 DEF ResetCounter
<1>6. CASE SweepUnlock(t) BY <1>1, <1>6 DEF SweepUnlock
<1>7. CASE Begin(t) BY <1>1, <1>7 DEF Begin
<1>8. CASE ReserveIndex(t) BY <1>1, <1>8 DEF ReserveIndex
<1>9. CASE PublishSegment(t) BY <1>9 DEF PublishSegment, NothingFreedTwice
<1>10. ASSUME NEW s \in Indices, Free(t, s) PROVE NothingFreedTwice'
  <2>1. t \in readers /\ s \in reach[t] BY <1>10 DEF Free, LockHolders
  <2>2. s \in undone \/ memory[s] = "live" BY <2>1 DEF GracePeriod, Running
  <2> QED BY <1>10, <2>2 DEF Free, NothingFreedTwice
<1>11. CASE EndCommit(t) \/ EndFail(t) \/ ReadAbort(t)
  BY <1>1, <1>11 DEF EndCommit, EndFail, ReadAbort, Leave
<1>12. CASE Count(t) BY <1>1, <1>12 DEF Count
<1> QED BY <1>2, <1>3, <1>4, <1>5, <1>6, <1>7, <1>8, <1>9, <1>10, <1>11, <1>12 DEF Step

-----------------------------------------------------------------------------
(* The sweep *)

\* What the sweep has passed is not marked again while it holds the lock.
LEMMA NextSwept ==
    ASSUME TypeOK, LockHolders, Owned, Swept, SweepComplete, NEW t \in Threads, Step(t)
    PROVE  Swept' /\ SweepComplete'
<1> USE DEF TypeOK, Go, lock, region, client
<1>1. ASSUME segment_status' = segment_status,
             \A u \in Threads : /\ pc'[u] = "swept" => pc[u] = "swept"
                                /\ pc'[u] = "sweep" => pc[u] = "sweep" /\ new_index'[u] = new_index[u]
      PROVE  Swept' /\ SweepComplete'
  BY <1>1 DEF Swept, SweepComplete
<1>2. CASE CheckCounter(t) BY <1>1, <1>2 DEF CheckCounter
<1>3. CASE SweepLock(t)
  <2>1. \A i \in Indices : ~(i < 0) BY DEF Indices
  <2> QED BY <1>3, <2>1 DEF SweepLock, Swept, SweepComplete
<1>4. CASE SweepSegment(t)
  <2>1. /\ pc[t] = "sweep" /\ pc' = pc
        /\ new_index' = [new_index EXCEPT ![t] = @ + 1]
        /\ \A u \in Threads : u # t => pc[u] \notin {"sweep", "swept"}
    BY <1>4, SweepAlone DEF SweepSegment
  <2>2. ASSUME NEW i \in Indices, i < new_index[t] + 1
        PROVE  segment_status'[i] # "TO_BE_DELETED"
    <3>1. i \in Int /\ new_index[t] \in Int BY DEF Indices
    <3>2. CASE i < new_index[t]
      BY <1>4, <2>1, <3>2 DEF SweepSegment, Swept
    <3>3. CASE i = new_index[t]
      BY <1>4, <3>3 DEF SweepSegment
    <3> QED BY <2>2, <3>1, <3>2, <3>3
  <2> QED BY <2>1, <2>2 DEF Swept, SweepComplete
<1>5. CASE ResetCounter(t)
  <2>1. \A i \in Indices : i < MAX_SEGMENTS BY DEF Indices
  <2>2. \A u \in Threads : u # t => pc[u] \notin {"sweep", "swept"}
    BY <1>5, SweepAlone DEF ResetCounter
  <2> QED BY <1>5, <2>1, <2>2 DEF ResetCounter, Swept, SweepComplete
<1>6. CASE SweepUnlock(t) BY <1>1, <1>6 DEF SweepUnlock
<1>7. CASE Begin(t) BY <1>1, <1>7 DEF Begin
<1>8. ASSUME t \in readers, \A u \in Threads : u # t => pc'[u] = pc[u],
             pc'[t] \notin {"sweep", "swept"}
      PROVE  Swept' /\ SweepComplete'
  <2>1. \A u \in Threads : pc'[u] \notin {"sweep", "swept"} BY <1>8 DEF LockHolders
  <2> QED BY <2>1 DEF Swept, SweepComplete
<1>9. CASE ReserveIndex(t) BY <1>8, <1>9 DEF ReserveIndex, LockHolders
<1>10. CASE PublishSegment(t) BY <1>8, <1>10 DEF PublishSegment, LockHolders
<1>11. ASSUME NEW s \in Indices, Free(t, s) PROVE Swept' /\ SweepComplete'
  BY <1>8, <1>11 DEF Free, LockHolders
<1>12. CASE EndCommit(t) \/ EndFail(t) \/ ReadAbort(t)
  BY <1>8, <1>12 DEF EndCommit, EndFail, ReadAbort, Leave, LockHolders
<1>13. CASE Count(t) BY <1>1, <1>13 DEF Count
<1> QED BY <1>2, <1>3, <1>4, <1>5, <1>6, <1>7, <1>9, <1>10, <1>11, <1>12, <1>13 DEF Step

-----------------------------------------------------------------------------
(* The theorems *)

\* The constructor leaves the start segment, linked and alone.
LEMMA InitRegion == Init => RegionInv
<1> SUFFICES ASSUME Init PROVE RegionInv OBVIOUS
<1> USE DEF Init, first_free, counter, Indices, Statuses
<1>1. Uncounted = {} BY DEF Uncounted
<1>2. Cardinality(Uncounted) = 0 /\ Cardinality(Threads) \in Nat
  BY <1>1, FS_EmptySet, FS_CardinalityType
<1>3. 0 \in 0..(CLEANING_PERIOD + Cardinality(Threads) - 1) BY <1>2
<1>4. TypeOK /\ CounterBound
  <2>1. CounterBound BY <1>2 DEF CounterBound
  <2>2. 0 \in Indices /\ 1 \in 1..MAX_SEGMENTS /\ 0 \in 0..MAX_SEGMENTS OBVIOUS
  <2> QED BY <1>3, <2>1, <2>2 DEF TypeOK
<1>5. LockHolders BY DEF LockHolders
<1>6. Entries BY DEF Entries, Unused, Reserved
<1>7. Owned /\ Marked BY DEF Owned, Marked
<1>8. GracePeriod /\ NothingFreedTwice BY DEF GracePeriod, Running, NothingFreedTwice
<1>9. Swept /\ SweepComplete BY DEF Swept, SweepComplete
<1> QED BY <1>4, <1>5, <1>6, <1>7, <1>8, <1>9 DEF RegionInv

\* tm_destroy frees what is in use, with nobody inside.
LEMMA DestroyRegion ==
    ASSUME RegionInv, Destroy
    PROVE  RegionInv'
<1> USE DEF RegionInv, Destroy, region, lock
<1>1. readers = {} /\ \A t \in Threads : reach[t] = {} /\ allocated[t] = {} /\ removed[t] = {}
  BY DEF LockHolders, Owned
<1>2. TypeOK' BY DEF TypeOK, counter
<1>3. LockHolders' BY DEF LockHolders
<1>4. CounterBound' BY DEF CounterBound, Uncounted, counter
<1>5. Entries' BY DEF Entries, Unused, Reserved
<1>6. Owned' BY DEF Owned
<1>7. Marked' /\ NothingFreedTwice' BY DEF Marked, NothingFreedTwice
<1>8. GracePeriod' BY <1>1 DEF GracePeriod, Running
<1>9. Swept' /\ SweepComplete' BY DEF Swept, SweepComplete
<1> QED BY <1>2, <1>3, <1>4, <1>5, <1>6, <1>7, <1>8, <1>9

\* The invariant is inductive.
LEMMA NextRegion ==
    ASSUME RegionInv, [Next]_vars
    PROVE  RegionInv'
<1>1. ASSUME NEW t \in Threads, Step(t) PROVE RegionInv'
  <2>1. LockHolders' /\ CounterBound' /\ counter' \in Nat
    BY <1>1, NextHolders, NextCounter DEF RegionInv
  <2>2. TypeOK' BY <1>1, <2>1, NextTypes DEF RegionInv
  <2>3. Entries' /\ Owned' /\ Marked'
    BY <1>1, NextEntries, NextOwned, NextMarked DEF RegionInv
  <2>4. GracePeriod' /\ NothingFreedTwice' /\ Swept' /\ SweepComplete'
    BY <1>1, NextGrace, NextFreed, NextSwept DEF RegionInv
  <2> QED BY <2>1, <2>2, <2>3, <2>4 DEF RegionInv
<1>2. CASE Destroy BY <1>2, DestroyRegion
<1>3. CASE UNCHANGED vars
  BY <1>3
  DEF vars, region, lock, client, counter, RegionInv, TypeOK, LockHolders, CounterBound, Uncounted,
      Entries, Unused, Reserved, Owned, Marked, GracePeriod, Running, NothingFreedTwice, Swept,
      SweepComplete
<1> QED BY <1>1, <1>2, <1>3 DEF Next, Library, End, Step

\* The inductive invariant of the region holds in every state.
THEOREM RegionInvariant == Spec => []RegionInv
<1>1. RegionInv /\ [Next]_vars => RegionInv' BY NextRegion
<1> QED BY InitRegion, <1>1, PTL DEF Spec

\* The counter of ended transactions passes the period by fewer than the threads
\* there are, and every other variable keeps its type.
THEOREM RegionTypes == Spec => []TypeOK
BY RegionInvariant, PTL DEF RegionInv

\* What a running transaction may still point to is not freed, unless a
\* transaction that freed it was aborted.
THEOREM GraceKept == Spec => []GracePeriod
BY RegionInvariant, PTL DEF RegionInv

\* No segment is freed twice, with the same exception.
THEOREM FreedOnce == Spec => []NothingFreedTwice
BY RegionInvariant, PTL DEF RegionInv

\* A sweep leaves no marked segment behind.
THEOREM SweepsComplete == Spec => []SweepComplete
BY RegionInvariant, PTL DEF RegionInv

=============================================================================
