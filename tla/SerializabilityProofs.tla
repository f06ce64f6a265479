------------------------ MODULE SerializabilityProofs ------------------------
(***************************************************************************)
(* Transactions are serializable: the layers of TransactionInvariant above *)
(* types, shapes and locks, which TransactionProofs proves.                *)
(*                                                                         *)
(* The argument is one of rely and guarantee.  Guarantee(t) is all that a  *)
(* step of t does to what other transactions rely on; each fact about the  *)
(* reads of u survives any step of another thread that keeps to it, and    *)
(* only the few actions of u itself that extend the reads are left.        *)
(* With the invariant in hand, the last two parts prove what a step may do *)
(* to a word, when it may refuse a transaction, and that the transactions  *)
(* implement the promise of SerialTM.                                      *)
(***************************************************************************)
EXTENDS TransactionProofs

-----------------------------------------------------------------------------
(* Kinds of steps *)

\* A step that has nothing to do with a slot that is taken or with memory.
Quiet(t) ==
    /\ UNCHANGED <<global_clock, data, version, serial>>
    /\ committed_reads' = committed_reads \/ EndReadOnly(t)
    /\ ~Decided(t)'
    /\ Decided(t) => locked_set[t] = {}
    /\ Slotted(t)' => /\ Pending(t)
                      /\ write_version'[t] = write_version[t]
                      /\ locked_set'[t] = locked_set[t]

\* The steps of a transaction that has decided to commit, and the two before.
Deciding(t) ==
    \/ IncrementClock(t) \/ Commit(t)
    \/ WriteWord(t) \/ StampVersion(t) \/ WriteBackDone(t)
    \/ pc[t] = "release" /\ (Unlock(t) \/ UnlockSkip(t))

\* Every step is quiet or one of those.
LEMMA StepKinds ==
    ASSUME TypeOK, Shape, Locks, NEW t \in Threads, Client(t) \/ Library(t)
    PROVE  Quiet(t) \/ Deciding(t)
<1> USE DEF shared, object, locals, log, TypeOK, TypeShared, TypeObject,
            TypeCall, Shape, ShapeOf, Pending, Decided, Slotted
<1>1. ASSUME NEW ro \in BOOLEAN, Begin(t, ro) PROVE Quiet(t)
  BY <1>1, SMT DEF Quiet, Begin
<1>2. ASSUME NEW w \in Words, ReadOnlyCopy(t, w) PROVE Quiet(t)
  BY <1>2, SMT DEF Quiet, ReadOnlyCopy
<1>3. ASSUME ReadOnlyAccept(t) PROVE Quiet(t)
  BY <1>3, SMT DEF Quiet, ReadOnlyAccept
<1>4. ASSUME ReadOnlyReject(t) PROVE Quiet(t)
  BY <1>4, SMT DEF Quiet, ReadOnlyReject
<1>5. ASSUME ReadOnlySampleClock(t) PROVE Quiet(t)
  BY <1>5, SMT DEF Quiet, ReadOnlySampleClock
<1>6. ASSUME ReadOnlyRetry(t) PROVE Quiet(t)
  BY <1>6, SMT DEF Quiet, ReadOnlyRetry
<1>7. ASSUME ReadOnlyGiveUp(t) PROVE Quiet(t)
  BY <1>7, SMT DEF Quiet, ReadOnlyGiveUp, CleanUp
<1>8. ASSUME NEW w \in Words, ReadWriteAccept(t, w) PROVE Quiet(t)
  BY <1>8, SMT DEF Quiet, ReadWriteAccept
<1>9. ASSUME NEW w \in Words, ReadWriteReject(t, w) PROVE Quiet(t)
  BY <1>9, SMT DEF Quiet, ReadWriteReject, CleanUp
<1>10. ASSUME ReadWriteCopy(t) PROVE Quiet(t)
  BY <1>10, SMT DEF Quiet, ReadWriteCopy
<1>11. ASSUME NEW w \in Words, NEW v \in Values, Write(t, w, v) PROVE Quiet(t)
  BY <1>11, SMT DEF Quiet, Write
<1>12. ASSUME EndReadOnly(t) PROVE Quiet(t)
  <2>1. UNCHANGED <<global_clock, data, version, serial>> /\ pc'[t] = "idle" /\ pc[t] = "active"
    BY <1>12, SMT DEF EndReadOnly, CleanUp
  <2> QED BY <1>12, <2>1, SMT DEF Quiet
<1>13. ASSUME EndReadWrite(t) PROVE Quiet(t)
  BY <1>13, SMT DEF Quiet, EndReadWrite
<1>14. ASSUME LockSkip(t) PROVE Quiet(t)
  BY <1>14, SMT DEF Quiet, LockSkip
<1>15. ASSUME LockLoad(t) PROVE Quiet(t)
  BY <1>15, SMT DEF Quiet, LockLoad
<1>16. ASSUME LockCas(t) PROVE Quiet(t)
  BY <1>16, SMT DEF Quiet, LockCas
<1>17. ASSUME LockFail(t) PROVE Quiet(t)
  BY <1>17, SMT DEF Quiet, LockFail
<1>18. ASSUME Validate(t) PROVE Quiet(t)
  BY <1>18, SMT DEF Quiet, Validate
<1>19. ASSUME ReadOnlyInvalid(t) PROVE Quiet(t)
  BY <1>19, SMT DEF Quiet, ReadOnlyInvalid, CleanUp
<1>20. ASSUME ReadWriteInvalid(t) PROVE Quiet(t)
  BY <1>20, SMT DEF Quiet, ReadWriteInvalid
<1>21. ASSUME Unlock(t), pc[t] # "release" PROVE Quiet(t)
  BY <1>21, SMT DEF Quiet, Unlock
<1>22. ASSUME UnlockSkip(t), pc[t] # "release" PROVE Quiet(t)
  BY <1>22, SMT DEF Quiet, UnlockSkip
<1>23. ASSUME Finish(t) PROVE Quiet(t)
  <2>1. locked_set[t] = {} BY <1>23, NothingHeld DEF Finish
  <2> QED BY <1>23, <2>1, SMT DEF Quiet, Finish, CleanUp
<1> QED
  BY <1>1, <1>2, <1>3, <1>4, <1>5, <1>6, <1>7, <1>8, <1>9, <1>10, <1>11, <1>12, <1>13, <1>14,
     <1>15, <1>16, <1>17, <1>18, <1>19, <1>20, <1>21, <1>22, <1>23, Zenon
  DEF Client, Library, Deciding

-----------------------------------------------------------------------------
(* Transactions begin with nothing and slots differ *)

\* A transaction is over only through clean_up.
LEMMA EndsCleanly ==
    ASSUME TypeOK, NEW t \in Threads, Client(t) \/ Library(t), pc'[t] = "idle"
    PROVE  CleanUp(t)
<1> USE DEF shared, object, locals, log, TypeOK, TypeCall
<1>1. ASSUME NEW ro \in BOOLEAN, Begin(t, ro) PROVE FALSE
  BY <1>1, SMT DEF Begin
<1>2. ASSUME NEW w \in Words, ReadOnlyCopy(t, w) \/ ReadWriteAccept(t, w) PROVE FALSE
  BY <1>2, SMT DEF ReadOnlyCopy, ReadWriteAccept
<1>3. ASSUME NEW w \in Words, NEW v \in Values, Write(t, w, v) PROVE FALSE
  BY <1>3, SMT DEF Write
<1>4. ASSUME \/ ReadOnlyAccept(t) \/ ReadOnlyReject(t) \/ ReadOnlySampleClock(t)
             \/ ReadOnlyRetry(t) \/ ReadWriteCopy(t)
      PROVE  FALSE
  BY <1>4, SMT DEF ReadOnlyAccept, ReadOnlyReject, ReadOnlySampleClock, ReadOnlyRetry,
                   ReadWriteCopy
<1>5. ASSUME EndReadWrite(t) \/ LockSkip(t) \/ LockLoad(t) \/ LockCas(t) \/ LockFail(t)
      PROVE  FALSE
  BY <1>5, SMT DEF EndReadWrite, LockSkip, LockLoad, LockCas, LockFail
<1>6. ASSUME IncrementClock(t) \/ Validate(t) \/ ReadWriteInvalid(t) \/ Commit(t)
      PROVE  FALSE
  BY <1>6, SMT DEF IncrementClock, Validate, ReadWriteInvalid, Commit
<1>7. ASSUME WriteWord(t) \/ StampVersion(t) \/ WriteBackDone(t) \/ Unlock(t) \/ UnlockSkip(t)
      PROVE  FALSE
  BY <1>7, SMT DEF WriteWord, StampVersion, WriteBackDone, Unlock, UnlockSkip
<1> QED
  BY <1>1, <1>2, <1>3, <1>4, <1>5, <1>6, <1>7, Zenon
  DEF Client, Library, ReadOnlyGiveUp, ReadWriteReject, EndReadOnly, ReadOnlyInvalid, Finish

\* The next transaction of a thread has none of the reads of the last.
LEMMA NextFresh ==
    ASSUME TypeOK, Fresh, NEW t \in Threads, Client(t) \/ Library(t)
    PROVE  Fresh'
<1> SUFFICES ASSUME NEW u \in Threads, pc'[u] = "idle"
             PROVE  read_set'[u] = <<>> /\ observed'[u] = {}
  BY DEF Fresh
<1>1. CASE u = t
  BY <1>1, EndsCleanly DEF CleanUp, TypeOK, TypeObject, TypeHistory
<1>2. CASE u # t
  <2>1. Same(u) BY <1>2, OthersSame
  <2> QED BY <2>1 DEF Same, Fresh
<1> QED BY <1>1, <1>2

\* A lock is tried only if it is not held, a read validated only if it has to be.
LEMMA NextNeeded ==
    ASSUME TypeOK, Shape, Needed, NEW t \in Threads, Client(t) \/ Library(t)
    PROVE  Needed'
<1>1. ASSUME NEW u \in Threads \ {t} PROVE LookedAt(u)'
  <2>1. Same(u) BY OthersSame
  <2> QED BY <2>1 DEF Same, Needed, LookedAt, CurrentWrite, Pending
<1>2. LookedAt(t)'
  <2> USE DEF TypeOK, TypeShared, TypeObject, TypeCall, shared, object, LookedAt, Pending
  <2>1. CASE LockLoad(t) BY <2>1 DEF LockLoad, CurrentWrite
  <2>2. CASE IncrementClock(t)
    <3>1. CASE global_clock + 1 = read_version[t] + 1
      BY <2>2, <3>1, SMT DEF IncrementClock, validation_start
    <3>2. CASE global_clock + 1 # read_version[t] + 1
      BY <2>2, <3>2 DEF IncrementClock
    <3> QED BY <3>1, <3>2
  <2>3. CASE Validate(t)
    BY <2>3, SMT DEF Validate, Needed
  <2>4. CASE ReadOnlySampleClock(t) BY <2>4 DEF ReadOnlySampleClock, Shape, ShapeOf
  <2>5. ASSUME NEW ro \in BOOLEAN, Begin(t, ro) PROVE pc'[t] \notin {"cas", "validate"}
    BY <2>5 DEF Begin
  <2>6. ASSUME NEW w \in Words, ReadOnlyCopy(t, w) \/ ReadWriteAccept(t, w)
        PROVE  pc'[t] \notin {"cas", "validate"}
    BY <2>6 DEF ReadOnlyCopy, ReadWriteAccept
  <2>7. ASSUME NEW w \in Words, NEW v \in Values, Write(t, w, v)
        PROVE  pc'[t] \notin {"cas", "validate"}
    BY <2>7 DEF Write
  <2>8. ASSUME CleanUp(t) PROVE pc'[t] \notin {"cas", "validate"}
    BY <2>8 DEF CleanUp
  <2>9. ASSUME \/ ReadOnlyAccept(t) \/ ReadOnlyReject(t) \/ ReadOnlyRetry(t) \/ ReadWriteCopy(t)
               \/ EndReadWrite(t) \/ LockSkip(t) \/ LockCas(t) \/ LockFail(t)
        PROVE  pc'[t] \notin {"cas", "validate"}
    BY <2>9 DEF ReadOnlyAccept, ReadOnlyReject, ReadOnlyRetry, ReadWriteCopy,
                EndReadWrite, LockSkip, LockCas, LockFail
  <2>10. ASSUME \/ ReadWriteInvalid(t) \/ Commit(t) \/ WriteWord(t) \/ StampVersion(t)
                \/ WriteBackDone(t) \/ Unlock(t) \/ UnlockSkip(t)
         PROVE  pc'[t] \notin {"cas", "validate"}
    BY <2>10 DEF ReadWriteInvalid, Commit, WriteWord, StampVersion, WriteBackDone, Unlock, UnlockSkip
  <2> QED
    BY <2>1, <2>2, <2>3, <2>4, <2>5, <2>6, <2>7, <2>8, <2>9, <2>10, Zenon
    DEF Client, Library, ReadOnlyGiveUp, ReadWriteReject, EndReadOnly, ReadOnlyInvalid, Finish
<1>3. \A u \in Threads : LookedAt(u)'
  <2> TAKE u \in Threads
  <2>1. CASE u = t BY <1>2, <2>1
  <2>2. CASE u # t BY <1>1, <2>2
  <2> QED BY <2>1, <2>2
<1> QED BY <1>3 DEF Needed

\* A step gives a slot away, or takes the one that nobody had before.
LEMMA SlotTaken ==
    ASSUME TypeOK, Shape, NEW t \in Threads, Quiet(t) \/ Deciding(t), Slotted(t)'
    PROVE  \/ Slotted(t) /\ write_version'[t] = write_version[t]
                         /\ locked_set'[t] \subseteq locked_set[t]
           \/ /\ IncrementClock(t)
              /\ write_version'[t] = global_clock + 1 /\ global_clock' = global_clock + 1
              /\ locked_set' = locked_set
<1> USE DEF shared, object, locals, log, TypeOK, TypeShared, TypeObject, TypeCall, Shape, ShapeOf,
            Pending, Decided, Slotted
<1>1. CASE Quiet(t) BY <1>1 DEF Quiet
<1>2. CASE IncrementClock(t) BY <1>2, SMT DEF IncrementClock
<1>3. CASE Commit(t) BY <1>3, SMT DEF Commit
<1>4. CASE WriteWord(t) \/ StampVersion(t) \/ WriteBackDone(t)
  BY <1>4, SMT DEF WriteWord, StampVersion, WriteBackDone
<1>5. CASE pc[t] = "release" /\ (Unlock(t) \/ UnlockSkip(t))
  BY <1>5, SMT DEF Unlock, UnlockSkip
<1> QED BY <1>1, <1>2, <1>3, <1>4, <1>5 DEF Deciding

\* No two transactions get the same slot.
LEMMA NextSlots ==
    ASSUME TypeOK, Shape, Locks, SlotsDiffer, NEW t \in Threads, Client(t) \/ Library(t)
    PROVE  SlotsDiffer'
<1> SUFFICES ASSUME NEW u \in Threads, NEW v \in Threads, u # v, Slotted(u)', Slotted(v)'
             PROVE  write_version'[u] # write_version'[v]
  BY DEF SlotsDiffer
<1>1. \A x \in Threads : Slotted(x) => write_version[x] <= global_clock /\ write_version[x] \in Int
  BY SMT DEF Shape, ShapeOf, TypeOK, TypeShared, TypeObject
<1>2. \A x \in Threads : x # t => Same(x) BY OthersSame
<1>3. \A x \in Threads : x # t /\ Slotted(x)' =>
          Slotted(x) /\ write_version'[x] = write_version[x]
  BY <1>2 DEF Same, Slotted, Pending, Decided
<1>4. Slotted(t)' => \/ Slotted(t) /\ write_version'[t] = write_version[t]
                     \/ write_version'[t] = global_clock + 1
  BY SlotTaken, StepKinds
<1>5. global_clock \in Nat BY DEF TypeOK, TypeShared
<1> QED BY <1>1, <1>3, <1>4, <1>5, SMT DEF SlotsDiffer

-----------------------------------------------------------------------------
(* The last write of a word *)

\* There is only one last write of a word, and LastWrite is its value.
LEMMA LastWriteValue ==
    ASSUME TypeObject, NEW t \in Threads, NEW i \in DOMAIN write_set[t], IsLastWrite(t, i)
    PROVE  LastWrite(t, write_set[t][i].word) = write_set[t][i].value
<1> DEFINE w == write_set[t][i].word
           P(j) == write_set[t][j].word = w /\ IsLastWrite(t, j)
           k == CHOOSE j \in DOMAIN write_set[t] : P(j)
<1>1. k \in DOMAIN write_set[t] /\ P(k)
  <2>1. \E j \in DOMAIN write_set[t] : P(j) OBVIOUS
  <2> HIDE DEF P
  <2> QED BY <2>1
<1>2. LastWrite(t, w) = write_set[t][k].value BY DEF LastWrite
<1> HIDE DEF k
<1>3. DOMAIN write_set[t] \subseteq Nat BY SMT DEF TypeObject
<1>4. ~(k > i) /\ ~(i > k) BY <1>1 DEF IsLastWrite
<1>5. k = i BY <1>1, <1>3, <1>4, SMT
<1> QED BY <1>2, <1>5

\* Two threads never hold the same word, and a lock bit is set while one does.
LEMMA HeldAlone ==
    ASSUME Locks, NEW t \in Threads, NEW u \in Threads, NEW w \in Words
    PROVE  /\ Holds(t, w) /\ Holds(u, w) => t = u
           /\ Holds(t, w) => locked[w]
BY DEF Locks, LockOwnership, Holds

\* An unlocked word is nobody's to write back.
LEMMA UnlockedSettled ==
    ASSUME Locks, NEW w \in Words, ~locked[w]
    PROVE  Settled(w) /\ \A t \in Threads : ~Holds(t, w)
BY HeldAlone DEF Settled

-----------------------------------------------------------------------------
(* Words, versions and the history *)

\* The write-back of one transaction does not concern the words of another.
LEMMA WriteBackFrame ==
    ASSUME NEW u \in Threads, NEW w \in Words, Same(u), WriteBack(u, w),
           data'[w] = data[w], version'[w] = version[w],
           \A k \in write_version[u]..global_clock' : serial'[k][w] = LastWrite(u, w)
    PROVE  WriteBack(u, w)'
<1>1. LastWrite(u, w)' = LastWrite(u, w) BY DEF Same, LastWrite, IsLastWrite
<1> QED BY <1>1 DEF Same, WriteBack, IsLastWrite

\* A step that is quiet changes nothing about the words.
LEMMA QuietMemory ==
    ASSUME TypeOK, Memory, NEW t \in Threads, Quiet(t), \A u \in Threads : u # t => Same(u)
    PROVE  Memory'
<1>1. UNCHANGED <<global_clock, data, version, serial>> BY DEF Quiet
<1>2. \A u \in Threads : u # t =>
          /\ Decided(u)' <=> Decided(u)
          /\ Slotted(u)' <=> Slotted(u)
          /\ write_version'[u] = write_version[u] /\ write_set'[u] = write_set[u]
          /\ locked_set'[u] = locked_set[u] /\ index'[u] = index[u] /\ pc'[u] = pc[u]
  BY DEF Same, Slotted, Pending, Decided
<1>3. VersionBound'
  <2>1. \A w \in Words : version'[w] <= global_clock' BY <1>1 DEF Memory, VersionBound
  <2>2. ASSUME NEW u \in Threads, Slotted(u)', NEW w \in locked_set'[u]
        PROVE  version'[w] <= write_version'[u]
    <3>1. Slotted(u) /\ write_version'[u] = write_version[u] /\ locked_set'[u] = locked_set[u]
      BY <1>2, <2>2 DEF Quiet, Slotted
    <3> QED BY <1>1, <2>2, <3>1 DEF Memory, VersionBound
  <2> QED BY <2>1, <2>2 DEF VersionBound
<1>4. ASSUME NEW w \in Words PROVE SettledWord(w)'
  <2>1. Settled(w)' => Settled(w)
    <3> SUFFICES ASSUME Settled(w)', NEW u \in Threads, Holds(u, w) PROVE ~Decided(u)
      BY DEF Settled
    <3>1. CASE u = t BY <3>1 DEF Quiet, Holds
    <3>2. CASE u # t BY <1>2, <3>2 DEF Settled, Holds
    <3> QED BY <3>1, <3>2
  <2> QED BY <1>1, <2>1 DEF Memory, SettledWord
<1>5. ASSUME NEW u \in Threads, Decided(u)', NEW w \in locked_set'[u] PROVE WriteBack(u, w)'
  <2>1. u # t /\ Same(u) /\ w \in Words
    BY <1>2, <1>5 DEF Quiet, TypeOK, TypeObject
  <2>2. WriteBack(u, w) BY <1>2, <1>5, <2>1 DEF Memory
  <2>3. \A k \in write_version[u]..global_clock' : serial'[k][w] = LastWrite(u, w)
    BY <1>1, <2>2 DEF WriteBack
  <2> QED BY <1>1, <2>1, <2>2, <2>3, WriteBackFrame
<1> QED BY <1>3, <1>4, <1>5 DEF Memory

\* The increment of the clock adds a copy of the last state of the history.
LEMMA IncrementMemory ==
    ASSUME TypeOK, Shape, Locks, Memory, NEW t \in Threads, IncrementClock(t),
           \A u \in Threads : u # t => Same(u)
    PROVE  Memory'
<1>1. /\ global_clock' = global_clock + 1 /\ global_clock \in Nat
      /\ UNCHANGED <<data, version, locked_set>>
      /\ write_version'[t] = global_clock + 1
      /\ \A k \in 0..global_clock : serial'[k] = serial[k]
      /\ serial'[global_clock + 1] = serial[global_clock]
      /\ pc[t] = "lock" /\ pc'[t] = "validate"
  <2>1. global_clock' = global_clock + 1 /\ global_clock \in Nat BY DEF IncrementClock, TypeOK, TypeShared
  <2>2. UNCHANGED <<data, version, locked_set>> BY DEF IncrementClock
  <2>3. write_version'[t] = global_clock + 1 BY DEF IncrementClock, TypeOK, TypeObject
  <2>4. pc[t] = "lock" /\ pc'[t] = "validate" BY DEF IncrementClock, TypeOK, TypeCall
  <2>5. serial' = [k \in 0..(global_clock + 1) |->
                      IF k <= global_clock THEN serial[k] ELSE serial[global_clock]]
    BY DEF IncrementClock
  <2>6. \A k \in 0..global_clock : serial'[k] = serial[k] BY <2>1, <2>5, SMT
  <2>7. serial'[global_clock + 1] = serial[global_clock] BY <2>1, <2>5, SMT
  <2> QED BY <2>1, <2>2, <2>3, <2>4, <2>6, <2>7
<1>2. \A w \in Words : version[w] \in Nat /\ version[w] <= global_clock
  BY DEF Memory, VersionBound, TypeOK, TypeShared
<1>3. ~Decided(t) /\ ~Decided(t)' BY <1>1 DEF Decided
<1>4. \A u \in Threads : Decided(u)' <=> Decided(u)
  BY <1>3 DEF Same, Decided
<1>5. VersionBound'
  <2>1. \A w \in Words : version'[w] <= global_clock' BY <1>1, <1>2, SMT
  <2>2. ASSUME NEW u \in Threads, Slotted(u)', NEW w \in locked_set'[u]
        PROVE  version'[w] <= write_version'[u]
    <3>1. w \in Words BY <1>1, <2>2 DEF TypeOK, TypeObject
    <3>2. CASE u = t BY <1>1, <1>2, <3>1, <3>2, SMT
    <3>3. CASE u # t
      <4>1. Slotted(u) /\ write_version'[u] = write_version[u] /\ locked_set'[u] = locked_set[u]
        BY <2>2, <3>3 DEF Same, Slotted, Pending, Decided
      <4> QED BY <1>1, <2>2, <4>1 DEF Memory, VersionBound
    <3> QED BY <3>2, <3>3
  <2> QED BY <2>1, <2>2 DEF VersionBound
<1>6. ASSUME NEW w \in Words PROVE SettledWord(w)'
  <2> SUFFICES ASSUME Settled(w)', NEW k \in version'[w]..global_clock'
               PROVE  serial'[k][w] = data'[w]
    BY DEF SettledWord
  <2>1. Settled(w) BY <1>1, <1>4 DEF Settled, Holds
  <2>2. \A j \in version[w]..global_clock : serial[j][w] = data[w]
    BY <2>1 DEF Memory, SettledWord
  <2>3. serial[global_clock][w] = data[w] BY <1>1, <1>2, <2>2, SMT
  <2>4. CASE k <= global_clock
    <3>1. k \in version[w]..global_clock /\ k \in 0..global_clock BY <1>1, <1>2, <2>4, SMT
    <3> QED BY <1>1, <2>2, <3>1
  <2>5. CASE k > global_clock
    <3>1. k = global_clock + 1 BY <1>1, <1>2, <2>5, SMT
    <3> QED BY <1>1, <2>3, <3>1
  <2> QED BY <1>1, <1>2, <2>4, <2>5, SMT
<1>7. ASSUME NEW u \in Threads, Decided(u)', NEW w \in locked_set'[u] PROVE WriteBack(u, w)'
  <2>1. u # t /\ Same(u) /\ Decided(u) /\ w \in locked_set[u] /\ w \in Words
    BY <1>1, <1>3, <1>4, <1>7 DEF TypeOK, TypeObject
  <2>2. WriteBack(u, w) BY <2>1 DEF Memory
  <2>3. write_version[u] \in 1..global_clock BY <2>1 DEF Shape, ShapeOf, Slotted
  <2>4. \A k \in write_version[u]..global_clock : serial[k][w] = LastWrite(u, w)
    BY <2>2 DEF WriteBack
  <2>5. ASSUME NEW k \in write_version[u]..global_clock' PROVE serial'[k][w] = LastWrite(u, w)
    <3>1. CASE k <= global_clock
      <4>1. k \in 0..global_clock /\ k \in write_version[u]..global_clock
        BY <1>1, <2>3, <3>1, SMT
      <4> QED BY <1>1, <2>4, <4>1
    <3>2. CASE k > global_clock
      <4>1. k = global_clock + 1 BY <1>1, <2>3, <3>2, SMT
      <4>2. global_clock \in write_version[u]..global_clock BY <1>1, <2>3, SMT
      <4> QED BY <1>1, <2>4, <4>1, <4>2
    <3> QED BY <1>1, <2>3, <3>1, <3>2, SMT
  <2> QED BY <1>1, <2>1, <2>2, <2>5, WriteBackFrame
<1> QED BY <1>5, <1>6, <1>7 DEF Memory

\* The commit puts the writes into the history, for words that its transaction
\* holds and is to write back.
LEMMA CommitMemory ==
    ASSUME TypeOK, Shape, Locks, Memory, NEW t \in Threads, Commit(t),
           \A u \in Threads : u # t => Same(u)
    PROVE  Memory'
<1>1. /\ UNCHANGED <<global_clock, data, version, write_set, write_version, locked_set>>
      /\ pc[t] = "validate" /\ ~is_ro[t] /\ pc'[t] = "write" /\ index'[t] = 1
      /\ global_clock \in Nat
  BY DEF Commit, shared, object, TypeOK, TypeShared, TypeCall
<1>2. Pending(t) /\ Slotted(t) /\ ~Decided(t) /\ Decided(t)' /\ Slotted(t)'
  BY <1>1 DEF Pending, Slotted, Decided
<1>3. write_version[t] \in 1..global_clock BY <1>2 DEF Shape, ShapeOf
<1>4. Written(t) \subseteq locked_set[t] /\ locked_set[t] \subseteq Written(t)
  BY <1>2 DEF Locks, LockProgress
<1>5. \A k \in 0..global_clock : \A w \in Words :
          serial'[k][w] = IF k < write_version[t] \/ w \notin Written(t) THEN serial[k][w]
                          ELSE LastWrite(t, w)
  <2> TAKE k \in 0..global_clock
  <2>1. serial'[k] = IF k < write_version[t] THEN serial[k]
                     ELSE [w \in Words |-> IF w \in Written(t) THEN LastWrite(t, w)
                                                               ELSE serial[k][w]]
    BY DEF Commit
  <2> QED BY <2>1
<1>6. \A u \in Threads : u # t => (Decided(u)' <=> Decided(u)) /\ (Slotted(u)' <=> Slotted(u))
  BY DEF Same, Decided, Slotted, Pending
<1>7. VersionBound'
  BY <1>1, <1>2, <1>6 DEF Memory, VersionBound
<1>8. ASSUME NEW w \in Words PROVE SettledWord(w)'
  <2> SUFFICES ASSUME Settled(w)', NEW k \in version[w]..global_clock
               PROVE  serial'[k][w] = data[w]
    BY <1>1 DEF SettledWord
  <2>1. ~Holds(t, w) BY <1>1, <1>2 DEF Settled, Holds
  <2>2. Settled(w) BY <1>1, <1>2, <1>6 DEF Settled, Holds
  <2>3. k \in 0..global_clock BY <1>1, SMT DEF TypeOK, TypeShared
  <2>4. w \notin Written(t) BY <1>4, <2>1 DEF Holds
  <2> QED BY <1>5, <2>2, <2>3, <2>4 DEF Memory, SettledWord
<1>9. ASSUME NEW u \in Threads, Decided(u)', NEW w \in locked_set'[u] PROVE WriteBack(u, w)'
  <2>0. w \in Words /\ w \in locked_set[u] BY <1>1, <1>9 DEF TypeOK, TypeObject
  <2>1. CASE u = t
    <3>1. LastWrite(t, w)' = LastWrite(t, w) BY <1>1 DEF LastWrite, IsLastWrite
    <3>2. \A k \in write_version[t]..global_clock : serial'[k][w] = LastWrite(t, w)
      BY <1>3, <1>4, <1>5, <2>0, <2>1, <1>1, SMT
    <3>3. \A i \in DOMAIN write_set[t] : ~(i < 1) BY SMT DEF TypeOK, TypeObject
    <3> QED BY <1>1, <2>1, <3>1, <3>2, <3>3 DEF WriteBack
  <2>2. CASE u # t
    <3>1. Decided(u) /\ Same(u) /\ WriteBack(u, w) BY <1>6, <1>9, <2>0, <2>2 DEF Memory
    <3>2. w \notin Written(t) BY <1>4, <2>0, <2>2, HeldAlone DEF Holds
    <3>3. write_version[u] \in 1..global_clock BY <3>1 DEF Shape, ShapeOf, Slotted
    <3>4. ASSUME NEW k \in write_version[u]..global_clock PROVE serial'[k][w] = LastWrite(u, w)
      <4>1. k \in 0..global_clock BY <3>3, <1>1, SMT
      <4> QED BY <1>5, <2>0, <3>1, <3>2, <4>1 DEF WriteBack
    <3> QED BY <1>1, <2>0, <3>1, <3>4, WriteBackFrame
  <2> QED BY <2>1, <2>2
<1> QED BY <1>7, <1>8, <1>9 DEF Memory

\* Stores to words that their transaction holds and has decided to write: the
\* settled words and the write-backs of the others are left alone.
LEMMA StoreMemory ==
    ASSUME TypeOK, Shape, Locks, Memory, NEW t \in Threads, Decided(t), Decided(t)',
           UNCHANGED <<global_clock, serial, locked_set, write_version>>,
           \A x \in Words \ locked_set[t] : data'[x] = data[x] /\ version'[x] = version[x],
           \A x \in locked_set[t] : version'[x] \in {version[x], write_version[t]},
           \A u \in Threads : u # t => Same(u),
           \A x \in locked_set[t] : WriteBack(t, x)'
    PROVE  Memory'
<1>1. \A u \in Threads : locked_set[u] \subseteq Words BY DEF TypeOK, TypeObject
<1>2. \A u \in Threads : u # t => (Decided(u)' <=> Decided(u)) /\ (Slotted(u)' <=> Slotted(u))
                                 /\ locked_set[u] \cap locked_set[t] = {}
  <2> TAKE u \in Threads
  <2> HAVE u # t
  <2> QED BY <1>1, HeldAlone DEF Same, Decided, Slotted, Pending, Holds
<1>3. Slotted(t) /\ write_version[t] <= global_clock BY DEF Shape, ShapeOf, Slotted
<1>4. \A x \in locked_set[t] : version'[x] <= write_version[t] /\ version'[x] <= global_clock
  <2>1. \A x \in locked_set[t] : version[x] <= write_version[t] /\ version[x] <= global_clock
    BY <1>1, <1>3 DEF Memory, VersionBound
  <2>2. write_version[t] \in Int BY DEF TypeOK, TypeObject
  <2> QED BY <1>3, <2>1, <2>2, SMT
<1>5. VersionBound'
  <2>1. ASSUME NEW x \in Words PROVE version'[x] <= global_clock'
    BY <1>4 DEF Memory, VersionBound
  <2>2. ASSUME NEW u \in Threads, Slotted(u)', NEW x \in locked_set'[u]
        PROVE  version'[x] <= write_version'[u]
    <3>1. CASE u = t BY <1>4, <2>2, <3>1
    <3>2. CASE u # t
      <4>1. x \in Words \ locked_set[t] /\ Slotted(u) /\ x \in locked_set[u]
        BY <1>1, <1>2, <2>2, <3>2
      <4> QED BY <4>1 DEF Memory, VersionBound
    <3> QED BY <3>1, <3>2
  <2> QED BY <2>1, <2>2 DEF VersionBound
<1>6. ASSUME NEW x \in Words PROVE SettledWord(x)'
  <2>1. CASE x \in locked_set[t]
    <3>1. ~Settled(x)' BY <2>1 DEF Settled, Holds
    <3> QED BY <3>1 DEF SettledWord
  <2>2. CASE x \notin locked_set[t]
    <3>1. Settled(x)' => Settled(x) BY <1>2, <2>2 DEF Settled, Holds
    <3> QED BY <2>2, <3>1 DEF Memory, SettledWord
  <2> QED BY <2>1, <2>2
<1>7. ASSUME NEW u \in Threads, Decided(u)', NEW x \in locked_set'[u] PROVE WriteBack(u, x)'
  <2>1. CASE u = t BY <1>7, <2>1
  <2>2. CASE u # t
    <3>1. x \in Words \ locked_set[t] /\ Same(u) /\ WriteBack(u, x)
      BY <1>1, <1>2, <1>7, <2>2 DEF Memory
    <3>2. \A k \in write_version[u]..global_clock' : serial'[k][x] = LastWrite(u, x)
      BY <3>1 DEF WriteBack
    <3> QED BY <3>1, <3>2, WriteBackFrame
  <2> QED BY <2>1, <2>2
<1> QED BY <1>5, <1>6, <1>7 DEF Memory

\* The write a loop over the write set of a decided transaction stands at.
LEMMA CurrentHeld ==
    ASSUME TypeOK, Shape, Locks, NEW t \in Threads, pc[t] \in {"write", "stamp"},
           index[t] <= Len(write_set[t])
    PROVE  /\ index[t] \in DOMAIN write_set[t]
           /\ DOMAIN write_set[t] \subseteq Nat
           /\ CurrentWrite(t).word \in locked_set[t]
           /\ CurrentWrite(t).word \in Words
           /\ CurrentWrite(t).value \in Values
<1>1. index[t] \in Nat \ {0} /\ write_set[t] \in Seq(WriteEntry)
  BY DEF TypeOK, TypeObject, TypeCall
<1>2. index[t] \in DOMAIN write_set[t] /\ DOMAIN write_set[t] \subseteq Nat BY <1>1, SMT
<1>3. Written(t) \subseteq locked_set[t] BY DEF Locks, LockProgress
<1> QED BY <1>1, <1>2, <1>3, CurrentWriteType DEF TypeOK

\* The copy of a write: if it is the last of its word, the word now has it.
LEMMA WriteWordMemory ==
    ASSUME TypeOK, Shape, Locks, Memory, NEW t \in Threads, WriteWord(t),
           \A u \in Threads : u # t => Same(u)
    PROVE  Memory'
<1> DEFINE i == index[t]
           w == CurrentWrite(t).word
<1>1. /\ UNCHANGED <<global_clock, version, serial, write_set, write_version, locked_set, index>>
      /\ pc[t] = "write" /\ pc'[t] = "stamp"
      /\ i <= Len(write_set[t])
      /\ data' = [data EXCEPT ![w] = CurrentWrite(t).value]
  BY DEF WriteWord, object, locals, log, TypeOK, TypeCall
<1>2. i \in DOMAIN write_set[t] /\ w \in locked_set[t] /\ w \in Words /\ i \in Nat
  BY <1>1, CurrentHeld
<1>3. Decided(t) /\ Decided(t)' BY <1>1 DEF Decided
<1>4. /\ data'[w] = write_set[t][i].value /\ w = write_set[t][i].word
      /\ \A x \in Words : x # w => data'[x] = data[x]
  BY <1>1, <1>2 DEF TypeOK, TypeShared, CurrentWrite
<1>5. IsLastWrite(t, i) => data'[w] = LastWrite(t, w)
  BY <1>2, <1>4, LastWriteValue DEF TypeOK
<1> HIDE DEF w, i
<1>6. ASSUME NEW x \in locked_set[t] PROVE WriteBack(t, x)'
  <2>0. x \in Words BY DEF TypeOK, TypeObject
  <2>1. WriteBack(t, x) BY <1>3 DEF Memory
  <2>2. LastWrite(t, x)' = LastWrite(t, x) BY <1>1 DEF LastWrite, IsLastWrite
  <2>3. \A j \in DOMAIN write_set[t] : IsLastWrite(t, j)' <=> IsLastWrite(t, j)
    BY <1>1 DEF IsLastWrite
  <2>4. ASSUME NEW j \in DOMAIN write_set[t], write_set[t][j].word = x, j < i
        PROVE  /\ version[x] = write_version[t]
               /\ IsLastWrite(t, j) => data'[x] = LastWrite(t, x)
    <3>1. version[x] = write_version[t] /\ (IsLastWrite(t, j) => data[x] = LastWrite(t, x))
      BY <1>1, <2>1, <2>4 DEF WriteBack, i
    <3>2. IsLastWrite(t, j) => x # w
      <4>1. i > j BY <1>2, <2>4, SMT DEF TypeOK, TypeObject
      <4> QED BY <1>2, <1>4, <2>4, <4>1 DEF IsLastWrite
    <3> QED BY <1>4, <2>0, <3>1, <3>2
  <2>5. write_set[t][i].word = x /\ IsLastWrite(t, i) => data'[x] = LastWrite(t, x)
    BY <1>4, <1>5
  <2>6. \A k \in write_version[t]..global_clock : serial[k][x] = LastWrite(t, x)
    BY <2>1 DEF WriteBack
  <2> QED BY <1>1, <1>2, <2>2, <2>3, <2>4, <2>5, <2>6 DEF WriteBack, i
<1> QED BY <1>1, <1>2, <1>3, <1>4, <1>6, StoreMemory

\* The stamp: the word has passed this write and has its version.
LEMMA StampMemory ==
    ASSUME TypeOK, Shape, Locks, Memory, NEW t \in Threads, StampVersion(t),
           \A u \in Threads : u # t => Same(u)
    PROVE  Memory'
<1> DEFINE i == index[t]
           w == CurrentWrite(t).word
<1>1. /\ UNCHANGED <<global_clock, data, serial, write_set, write_version, locked_set>>
      /\ pc[t] = "stamp" /\ pc'[t] = "write"
      /\ index'[t] = i + 1
      /\ version' = [version EXCEPT ![w] = write_version[t]]
  BY DEF StampVersion, object, log, TypeOK, TypeCall
<1>2. i \in DOMAIN write_set[t] /\ w \in locked_set[t] /\ w \in Words /\ i \in Nat
      /\ DOMAIN write_set[t] \subseteq Nat
  BY <1>1, CurrentHeld DEF Shape, ShapeOf
<1>3. Decided(t) /\ Decided(t)' BY <1>1 DEF Decided
<1>4. /\ version'[w] = write_version[t] /\ w = write_set[t][i].word
      /\ \A x \in Words : x # w => version'[x] = version[x]
  BY <1>1, <1>2 DEF TypeOK, TypeShared, CurrentWrite
<1> HIDE DEF w, i
<1>5. ASSUME NEW x \in locked_set[t] PROVE WriteBack(t, x)'
  <2>0. x \in Words BY DEF TypeOK, TypeObject
  <2>1. WriteBack(t, x) BY <1>3 DEF Memory
  <2>2. LastWrite(t, x)' = LastWrite(t, x) BY <1>1 DEF LastWrite, IsLastWrite
  <2>3. \A j \in DOMAIN write_set[t] : IsLastWrite(t, j)' <=> IsLastWrite(t, j)
    BY <1>1 DEF IsLastWrite
  <2>4. ASSUME NEW j \in DOMAIN write_set[t], write_set[t][j].word = x, j < i + 1
        PROVE  /\ version'[x] = write_version[t]
               /\ IsLastWrite(t, j) => data[x] = LastWrite(t, x)
    <3>1. CASE j = i BY <1>1, <1>4, <2>1, <2>4, <3>1 DEF WriteBack, i
    <3>2. CASE j # i
      <4>1. j < i BY <1>2, <2>4, <3>2, SMT
      <4>2. version[x] = write_version[t] /\ (IsLastWrite(t, j) => data[x] = LastWrite(t, x))
        BY <1>1, <2>1, <2>4, <4>1 DEF WriteBack, i
      <4> QED BY <1>4, <2>0, <4>2
    <3> QED BY <3>1, <3>2
  <2>5. \A k \in write_version[t]..global_clock : serial[k][x] = LastWrite(t, x)
    BY <2>1 DEF WriteBack
  <2> QED BY <1>1, <2>2, <2>3, <2>4, <2>5 DEF WriteBack
<1> QED BY <1>1, <1>2, <1>3, <1>4, <1>5, StoreMemory

\* The end of the loop: each word that is written has its last write.
LEMMA DoneMemory ==
    ASSUME TypeOK, Shape, WritesHaveLast, Locks, Memory, NEW t \in Threads, WriteBackDone(t),
           \A u \in Threads : u # t => Same(u)
    PROVE  Memory'
<1>1. /\ UNCHANGED <<global_clock, data, version, serial, write_set, write_version, locked_set>>
      /\ pc[t] = "write" /\ pc'[t] = "release" /\ index[t] > Len(write_set[t])
  BY DEF WriteBackDone, shared, object, log, TypeOK, TypeCall
<1>2. Decided(t) /\ Decided(t)' BY <1>1 DEF Decided
<1>3. ASSUME NEW x \in locked_set[t] PROVE WriteBack(t, x)'
  <2>1. WriteBack(t, x) BY <1>2 DEF Memory
  <2>2. LastWrite(t, x)' = LastWrite(t, x) BY <1>1 DEF LastWrite, IsLastWrite
  <2>3. x \in Written(t) BY DEF Locks, LockProgress
  <2>4. PICK j \in DOMAIN write_set[t] : write_set[t][j].word = x /\ IsLastWrite(t, j)
    BY <2>3 DEF WritesHaveLast
  <2>5. j < index[t] BY <1>1, SMT DEF TypeOK, TypeObject, TypeCall
  <2>6. version[x] = write_version[t] /\ data[x] = LastWrite(t, x)
    BY <1>1, <2>1, <2>4, <2>5 DEF WriteBack
  <2> QED BY <1>1, <2>1, <2>2, <2>6 DEF WriteBack
<1> QED BY <1>1, <1>2, <1>3, StoreMemory

\* The unlock after a commit: the word is settled, with the value the history
\* has had for it since the slot of its version.
LEMMA ReleaseMemory ==
    ASSUME TypeOK, Shape, Locks, Memory, NEW t \in Threads,
           pc[t] = "release", Unlock(t) \/ UnlockSkip(t),
           \A u \in Threads : u # t => Same(u)
    PROVE  Memory'
<1>1. /\ UNCHANGED <<global_clock, data, version, serial, write_set, write_version>>
      /\ pc'[t] = "release"
      /\ locked_set'[t] \subseteq locked_set[t]
  BY SMT DEF Unlock, UnlockSkip, shared, object, log, TypeOK, TypeCall, TypeObject
<1>2. Decided(t) /\ Decided(t)' /\ Slotted(t) /\ Slotted(t)' BY <1>1 DEF Decided, Slotted
<1>3. \A u \in Threads : /\ Decided(u)' <=> Decided(u)
                         /\ Slotted(u)' <=> Slotted(u)
                         /\ locked_set'[u] \subseteq locked_set[u]
  BY <1>1, <1>2 DEF Same, Decided, Slotted, Pending
<1>4. VersionBound' BY <1>1, <1>3 DEF Memory, VersionBound
<1>5. ASSUME NEW x \in locked_set[t] PROVE /\ data[x] = LastWrite(t, x)
                                           /\ version[x] = write_version[t]
                                           /\ WriteBack(t, x)'
  <2>1. WriteBack(t, x) BY <1>2 DEF Memory
  <2>2. LastWrite(t, x)' = LastWrite(t, x) BY <1>1 DEF LastWrite, IsLastWrite
  <2> QED BY <1>1, <2>1, <2>2 DEF WriteBack
<1>6. ASSUME NEW x \in Words PROVE SettledWord(x)'
  <2>1. CASE x \in locked_set[t]
    <3>1. \A k \in write_version[t]..global_clock : serial[k][x] = LastWrite(t, x)
      BY <1>2, <2>1 DEF Memory, WriteBack
    <3> QED BY <1>1, <1>5, <2>1, <3>1 DEF SettledWord
  <2>2. CASE x \notin locked_set[t]
    <3>1. Settled(x)' => Settled(x)
      <4> SUFFICES ASSUME Settled(x)', NEW u \in Threads, Holds(u, x) PROVE ~Decided(u)
        BY DEF Settled
      <4>1. u # t /\ Same(u) BY <2>2 DEF Holds
      <4> QED BY <4>1 DEF Settled, Holds, Same, Decided
    <3> QED BY <1>1, <3>1 DEF Memory, SettledWord
  <2> QED BY <2>1, <2>2
<1>7. ASSUME NEW u \in Threads, Decided(u)', NEW x \in locked_set'[u] PROVE WriteBack(u, x)'
  <2>1. CASE u = t BY <1>1, <1>5, <1>7, <2>1
  <2>2. CASE u # t
    <3>1. x \in Words /\ Same(u) /\ WriteBack(u, x)
      BY <1>3, <1>7, <2>2 DEF Memory, TypeOK, TypeObject
    <3>2. \A k \in write_version[u]..global_clock' : serial'[k][x] = LastWrite(u, x)
      BY <1>1, <3>1 DEF WriteBack
    <3> QED BY <1>1, <3>1, <3>2, WriteBackFrame
  <2> QED BY <2>1, <2>2
<1> QED BY <1>4, <1>6, <1>7 DEF Memory

\* Every step keeps words, versions and history in agreement.
LEMMA NextMemory ==
    ASSUME TypeOK, Shape, WritesHaveLast, Locks, Memory, NEW t \in Threads, Client(t) \/ Library(t)
    PROVE  Memory'
<1>1. \A u \in Threads : u # t => Same(u) BY OthersSame
<1>2. Quiet(t) \/ Deciding(t) BY StepKinds
<1> QED
  BY <1>1, <1>2, QuietMemory, IncrementMemory, CommitMemory, WriteWordMemory, StampMemory,
     DoneMemory, ReleaseMemory DEF Deciding

-----------------------------------------------------------------------------
(* What a step does to what others rely on *)

\* All that a step of t does to the others.  The clock grows; the history
\* changes only behind the slot of t, in words t holds, and before t is decided;
\* a new slot is behind all others; a word changes only while t holds it and is
\* decided; and when t lets a word go it has the slot of t for its version.
Guarantee(t) ==
    /\ global_clock' >= global_clock
    /\ \A k \in 0..global_clock : \A w \in Words :
          serial'[k][w] = serial[k][w] \/ (Pending(t) /\ Holds(t, w) /\ write_version[t] <= k)
    /\ Slotted(t)' => \/ Slotted(t) /\ write_version'[t] = write_version[t]
                                    /\ locked_set'[t] \subseteq locked_set[t]
                      \/ write_version'[t] = global_clock + 1
    /\ Pending(t)' => \/ Pending(t) /\ write_version'[t] = write_version[t]
                                    /\ locked_set'[t] \subseteq locked_set[t]
                      \/ write_version'[t] = global_clock + 1
    /\ \A w \in Words : \/ data'[w] = data[w] /\ version'[w] = version[w]
                        \/ Holds(t, w)' /\ Decided(t)'
    /\ \A w \in Words : Holds(t, w) /\ Decided(t) =>
          (Holds(t, w)' /\ Decided(t)') \/ version'[w] = write_version[t]

\* Every step keeps to it.
LEMMA StepGuarantee ==
    ASSUME TypeOK, Shape, Locks, Memory, NEW t \in Threads, Client(t) \/ Library(t)
    PROVE  Guarantee(t)
<1>0. Quiet(t) \/ Deciding(t) BY StepKinds
<1>1. global_clock \in Nat BY DEF TypeOK, TypeShared
<1>2. \/ UNCHANGED <<data, version>>
      \/ WriteWord(t) \/ StampVersion(t)
  BY <1>0 DEF Quiet, Deciding, IncrementClock, Commit, WriteBackDone, Unlock, UnlockSkip, shared
<1>3. \/ UNCHANGED <<global_clock, serial>>
      \/ IncrementClock(t) \/ Commit(t)
  BY <1>0, Zenon DEF Quiet, Deciding, WriteWord, StampVersion, WriteBackDone, Unlock, UnlockSkip,
                     shared, log
<1>4. global_clock' >= global_clock
  BY <1>1, <1>3, SMT DEF IncrementClock, Commit, shared
<1>5. ASSUME NEW k \in 0..global_clock, NEW w \in Words
      PROVE  serial'[k][w] = serial[k][w] \/ (Pending(t) /\ Holds(t, w) /\ write_version[t] <= k)
  <2>1. CASE UNCHANGED <<global_clock, serial>> BY <2>1
  <2>2. CASE IncrementClock(t)
    <3>1. serial' = [j \in 0..(global_clock + 1) |->
                        IF j <= global_clock THEN serial[j] ELSE serial[global_clock]]
      BY <2>2 DEF IncrementClock
    <3>2. serial'[k] = serial[k] BY <1>1, <3>1, SMT
    <3> QED BY <3>2
  <2>3. CASE Commit(t)
    <3>1. Pending(t) BY <2>3 DEF Commit, Pending
    <3>2. Written(t) \subseteq locked_set[t] BY <3>1 DEF Locks, LockProgress
    <3>3. serial'[k] = IF k < write_version[t] THEN serial[k]
                       ELSE [x \in Words |-> IF x \in Written(t) THEN LastWrite(t, x)
                                                                 ELSE serial[k][x]]
      BY <2>3 DEF Commit
    <3>4. CASE k < write_version[t] BY <3>3, <3>4
    <3>5. CASE ~(k < write_version[t])
      <4>0. write_version[t] \in Int BY DEF TypeOK, TypeObject
      <4>1. write_version[t] <= k BY <3>5, <1>1, <4>0, SMT
      <4>2. serial'[k][w] = IF w \in Written(t) THEN LastWrite(t, w) ELSE serial[k][w]
        BY <3>3, <3>5
      <4> QED BY <3>1, <3>2, <4>1, <4>2 DEF Holds
    <3> QED BY <3>4, <3>5
  <2> QED BY <1>3, <2>1, <2>2, <2>3
<1>6. Slotted(t)' => \/ Slotted(t) /\ write_version'[t] = write_version[t]
                                    /\ locked_set'[t] \subseteq locked_set[t]
                     \/ write_version'[t] = global_clock + 1
  BY <1>0, <1>1, SlotTaken, SMT
<1>7. Pending(t)' => Pending(t) \/ ~Slotted(t)
  <2>1. CASE Quiet(t) BY <2>1 DEF Quiet, Slotted
  <2>2. CASE IncrementClock(t) BY <2>2 DEF IncrementClock, Slotted, Pending, Decided
  <2>3. CASE Deciding(t) /\ ~IncrementClock(t)
    BY <2>3, SMT DEF Deciding, Commit, WriteWord, StampVersion, WriteBackDone, Unlock, UnlockSkip,
                Pending, TypeOK, TypeCall
  <2> QED BY <1>0, <2>1, <2>2, <2>3
<1>8. Pending(t)' => Slotted(t)' BY DEF Slotted
<1>9. ASSUME NEW w \in Words
      PROVE  \/ data'[w] = data[w] /\ version'[w] = version[w]
             \/ Holds(t, w)' /\ Decided(t)'
  <2>1. CASE UNCHANGED <<data, version>> BY <2>1
  <2>2. CASE WriteWord(t)
    <3>1. /\ pc[t] = "write" /\ index[t] <= Len(write_set[t])
          /\ UNCHANGED <<version, locked_set>> /\ pc'[t] = "stamp"
          /\ data' = [data EXCEPT ![CurrentWrite(t).word] = CurrentWrite(t).value]
      BY <2>2 DEF WriteWord, object, TypeOK, TypeCall
    <3>2. CurrentWrite(t).word \in locked_set[t] BY <3>1, CurrentHeld
    <3> QED BY <3>1, <3>2 DEF Holds, Decided, TypeOK, TypeShared
  <2>3. CASE StampVersion(t)
    <3>1. /\ pc[t] = "stamp"
          /\ UNCHANGED <<data, locked_set>> /\ pc'[t] = "write"
          /\ version' = [version EXCEPT ![CurrentWrite(t).word] = write_version[t]]
      BY <2>3 DEF StampVersion, object, TypeOK, TypeCall
    <3>2. CurrentWrite(t).word \in locked_set[t] BY <3>1, CurrentHeld DEF Shape, ShapeOf
    <3> QED BY <3>1, <3>2 DEF Holds, Decided, TypeOK, TypeShared
  <2> QED BY <1>2, <2>1, <2>2, <2>3
<1>10. ASSUME NEW w \in Words, Holds(t, w), Decided(t)
       PROVE  (Holds(t, w)' /\ Decided(t)') \/ version'[w] = write_version[t]
  <2>1. CASE Quiet(t) BY <1>10, <2>1 DEF Quiet, Holds
  <2>2. CASE IncrementClock(t) \/ Commit(t)
    BY <1>10, <2>2 DEF IncrementClock, Commit, Decided
  <2>3. CASE WriteWord(t) \/ StampVersion(t) \/ WriteBackDone(t)
    BY <1>10, <2>3 DEF WriteWord, StampVersion, WriteBackDone, Holds, Decided, object, TypeOK, TypeCall
  <2>4. CASE pc[t] = "release" /\ (Unlock(t) \/ UnlockSkip(t))
    <3>1. UNCHANGED version BY <2>4 DEF Unlock, UnlockSkip, shared
    <3>2. version[w] = write_version[t] BY <1>10, <2>4 DEF Memory, WriteBack, Holds
    <3> QED BY <3>1, <3>2
  <2> QED BY <1>0, <2>1, <2>2, <2>3, <2>4 DEF Deciding
<1> QED
  BY <1>4, <1>5, <1>6, <1>7, <1>8, <1>9, <1>10 DEF Guarantee

\* A slot that is taken later is behind every state there is now.
LEMMA SlotsAfterKept ==
    ASSUME TypeOK, NEW t \in Threads, Guarantee(t), \A v \in Threads : v # t => Same(v),
           NEW u \in Threads, NEW w \in Words, NEW k \in Int, k <= global_clock,
           SlotsAfter(u, w, k)
    PROVE  SlotsAfter(u, w, k)'
<1> SUFFICES ASSUME NEW v \in Threads, v # u, Holds(v, w)', Slotted(v)'
             PROVE  write_version'[v] > k
  BY DEF SlotsAfter
<1>1. CASE v # t BY <1>1 DEF Same, SlotsAfter, Holds, Slotted, Pending, Decided
<1>2. CASE v = t
  <2>1. CASE write_version'[v] = global_clock + 1
    <3>1. global_clock \in Nat BY DEF TypeOK, TypeShared
    <3> QED BY <2>1, <3>1, SMT
  <2>2. CASE write_version'[v] # global_clock + 1
    BY <1>2, <2>2 DEF Guarantee, SlotsAfter, Holds
  <2> QED BY <2>1, <2>2
<1> QED BY <1>1, <1>2

\* The same for the transactions that may still commit.
LEMMA PendingAfterKept ==
    ASSUME TypeOK, NEW t \in Threads, Guarantee(t), \A v \in Threads : v # t => Same(v),
           NEW w \in Words, NEW k \in Int, k <= global_clock, PendingAfter(w, k)
    PROVE  PendingAfter(w, k)'
<1> SUFFICES ASSUME NEW v \in Threads, Holds(v, w)', Pending(v)'
             PROVE  write_version'[v] > k
  BY DEF PendingAfter
<1>1. CASE v # t BY <1>1 DEF Same, PendingAfter, Holds, Pending
<1>2. CASE v = t
  <2>1. CASE write_version'[v] = global_clock + 1
    <3>1. global_clock \in Nat BY DEF TypeOK, TypeShared
    <3> QED BY <2>1, <3>1, SMT
  <2>2. CASE write_version'[v] # global_clock + 1
    BY <1>2, <2>2 DEF Guarantee, PendingAfter, Holds
  <2> QED BY <2>1, <2>2
<1> QED BY <1>1, <1>2

\* The state behind k slots keeps its w as long as no earlier slot may change it.
LEMMA StateKept ==
    ASSUME TypeOK, NEW t \in Threads, Guarantee(t),
           NEW w \in Words, NEW k \in 0..global_clock, PendingAfter(w, k)
    PROVE  serial'[k][w] = serial[k][w]
<1>1. SUFFICES ASSUME Pending(t), Holds(t, w), write_version[t] <= k PROVE FALSE
  BY DEF Guarantee
<1>2. write_version[t] > k BY <1>1 DEF PendingAfter
<1>3. write_version[t] \in Int /\ k \in Int BY SMT DEF TypeOK, TypeObject
<1> QED BY <1>1, <1>2, <1>3, SMT

\* Committed reads survive every step.
LEMMA CommittedKept ==
    ASSUME TypeOK, NEW t \in Threads, Guarantee(t), \A v \in Threads : v # t => Same(v),
           CommittedReads, NEW r \in committed_reads, global_clock' \in Nat
    PROVE  /\ r[1] \in 0..global_clock'
           /\ serial'[r[1]][r[2]] = r[3]
           /\ PendingAfter(r[2], r[1])'
<1>1. r[1] \in 0..global_clock /\ serial[r[1]][r[2]] = r[3] /\ PendingAfter(r[2], r[1])
  BY DEF CommittedReads
<1>2. r[2] \in Words BY DEF TypeOK, TypeHistory
<1>3. r[1] \in Int /\ r[1] <= global_clock /\ global_clock \in Nat
  BY <1>1, SMT DEF TypeOK, TypeShared
<1>4. PendingAfter(r[2], r[1])' BY <1>1, <1>2, <1>3, PendingAfterKept
<1>5. serial'[r[1]][r[2]] = r[3] BY <1>1, <1>2, StateKept
<1>6. r[1] \in 0..global_clock' BY <1>1, <1>3, SMT DEF Guarantee
<1> QED BY <1>4, <1>5, <1>6

\* What the reads of u rely on survives a step of another thread.
LEMMA GuardedKept ==
    ASSUME TypeOK, Shape, NEW t \in Threads, Guarantee(t), \A v \in Threads : v # t => Same(v),
           NEW u \in Threads \ {t}, ReadsGuarded(u)
    PROVE  ReadsGuarded(u)'
<1>1. Same(u) OBVIOUS
<1>2. SUFFICES ASSUME Updating(u)' PROVE ReadsGuarded(u)' BY DEF ReadsGuarded
<1>3. Updating(u) BY <1>1, <1>2 DEF Updating, Same
<1>4. read_version[u] \in Nat /\ read_version[u] <= global_clock
  BY DEF TypeOK, TypeObject, Shape, ShapeOf
<1>5. ASSUME NEW w \in Words, Reads(u, w)' PROVE SlotsAfter(u, w, read_version[u])'
  <2>1. Reads(u, w) BY <1>1, <1>5 DEF Reads, Same
  <2>2. SlotsAfter(u, w, read_version[u]) BY <1>3, <2>1 DEF ReadsGuarded
  <2>3. read_version[u] \in Int BY <1>4, SMT
  <2>4. read_version'[u] = read_version[u] BY <1>1 DEF Same
  <2>5. ASSUME NEW k \in Int, k = read_version[u] PROVE SlotsAfter(u, w, k)'
    BY <1>4, <2>2, <2>5, SlotsAfterKept
  <2> QED BY <2>3, <2>4, <2>5 DEF SlotsAfter
<1>6. ASSUME NEW r \in observed'[u]
      PROVE  /\ Reads(u, r[1])'
             /\ version'[r[1]] <= read_version'[u]
                /\ (\A v \in Threads : v # u /\ Holds(v, r[1])' => ~Decided(v)')
                    => data'[r[1]] = r[2]
  <2>0. r \in observed[u] /\ r[1] \in Words BY <1>1, <1>6 DEF Same, TypeOK, TypeHistory
  <2>1. Reads(u, r[1]) /\ Reads(u, r[1])' BY <1>1, <1>3, <2>0 DEF ReadsGuarded, Reads, Same
  <2>2. SUFFICES ASSUME version'[r[1]] <= read_version'[u],
                        \A v \in Threads : v # u /\ Holds(v, r[1])' => ~Decided(v)'
                 PROVE  data'[r[1]] = r[2]
    BY <2>1
  <2>3. ~(Holds(t, r[1])' /\ Decided(t)') BY <2>2
  <2>4. data'[r[1]] = data[r[1]] /\ version'[r[1]] = version[r[1]]
    BY <2>0, <2>3 DEF Guarantee
  <2>5. ~(Holds(t, r[1]) /\ Decided(t))
    <3> SUFFICES ASSUME Holds(t, r[1]), Decided(t) PROVE FALSE OBVIOUS
    <3>1. version'[r[1]] = write_version[t] BY <2>0, <2>3 DEF Guarantee
    <3>2. write_version[t] > read_version[u]
      BY <1>3, <2>0, <2>1 DEF ReadsGuarded, SlotsAfter, Slotted
    <3>3. write_version[t] <= read_version[u] BY <1>1, <2>2, <3>1 DEF Same
    <3>4. write_version[t] \in Int BY DEF TypeOK, TypeObject
    <3> QED BY <1>4, <3>2, <3>3, <3>4, SMT
  <2>6. \A v \in Threads : v # u /\ Holds(v, r[1]) => ~Decided(v)
    BY <2>2, <2>5 DEF Same, Holds, Decided
  <2>7. version[r[1]] <= read_version[u] BY <1>1, <2>2, <2>4 DEF Same
  <2> QED BY <1>3, <2>0, <2>4, <2>6, <2>7 DEF ReadsGuarded
<1>7. pc'[u] = "rw_copy" => Reads(u, word[u])'
  BY <1>1, <1>3 DEF ReadsGuarded, Reads, Same
<1> QED BY <1>5, <1>6, <1>7 DEF ReadsGuarded

\* So do the reads that its validation has passed ...
LEMMA ValidatedKept ==
    ASSUME TypeOK, Shape, NEW t \in Threads, Guarantee(t), \A v \in Threads : v # t => Same(v),
           NEW u \in Threads \ {t}, ReadsValidated(u)
    PROVE  ReadsValidated(u)'
<1>1. Same(u) OBVIOUS
<1>2. SUFFICES ASSUME Pending(u)', NEW i \in 1..Len(read_set[u]), i < index[u]
               PROVE  /\ SlotsAfter(u, read_set[u][i], write_version[u])'
                      /\ \A r \in observed[u] : r[1] = read_set[u][i] =>
                             serial'[write_version[u] - 1][r[1]] = r[2]
  BY <1>1 DEF ReadsValidated, Same
<1>3. Pending(u) BY <1>1, <1>2 DEF Pending, Same
<1>4. write_version[u] \in 1..global_clock /\ global_clock \in Nat
  BY <1>3 DEF TypeOK, TypeShared, Shape, ShapeOf, Slotted
<1> DEFINE w == read_set[u][i]
<1>5. w \in Words BY DEF TypeOK, TypeObject
<1>6. SlotsAfter(u, w, write_version[u])
      /\ \A r \in observed[u] : r[1] = w => serial[write_version[u] - 1][r[1]] = r[2]
  BY <1>2, <1>3 DEF ReadsValidated
<1> HIDE DEF w
<1>7. SlotsAfter(u, w, write_version[u])'
  <2>1. write_version[u] \in Int /\ write_version[u] <= global_clock BY <1>4, SMT
  <2>2. write_version'[u] = write_version[u] BY <1>1 DEF Same
  <2>3. ASSUME NEW x \in Words, x = w, NEW k \in Int, k = write_version[u]
        PROVE  SlotsAfter(u, x, k)'
    BY <1>6, <2>1, <2>3, SlotsAfterKept
  <2>4. w' = w BY <1>1 DEF w, Same
  <2> QED BY <1>5, <2>1, <2>2, <2>3, <2>4 DEF SlotsAfter
<1>8. serial'[write_version[u] - 1][w] = serial[write_version[u] - 1][w]
  <2>1. write_version[u] - 1 \in 0..global_clock BY <1>4, SMT
  <2>2. SUFFICES ASSUME Pending(t), Holds(t, w), write_version[t] <= write_version[u] - 1
                 PROVE  FALSE
    BY <1>5, <2>1 DEF Guarantee
  <2>3. write_version[t] > write_version[u] BY <1>6, <2>2 DEF SlotsAfter, Slotted
  <2>4. write_version[t] \in Int BY DEF TypeOK, TypeObject
  <2> QED BY <1>4, <2>2, <2>3, <2>4, SMT
<1> QED BY <1>6, <1>7, <1>8 DEF w, SlotsAfter, Same

\* ... and the snapshot of a read-only transaction.
LEMMA SnapshotKept ==
    ASSUME TypeOK, Shape, NEW t \in Threads, Guarantee(t), \A v \in Threads : v # t => Same(v),
           NEW u \in Threads \ {t}, Snapshot(u)
    PROVE  Snapshot(u)'
<1>1. Same(u) OBVIOUS
<1>2. SUFFICES ASSUME is_ro[u], NEW r \in observed[u] \ stale[u]
               PROVE  /\ Reads(u, r[1])'
                      /\ serial'[read_version[u]][r[1]] = r[2]
                      /\ PendingAfter(r[1], read_version[u])'
                      /\ pc[u] = "validate" =>
                            \A i \in 1..Len(read_set[u]) : i < index[u] /\ read_set[u][i] = r[1] =>
                                /\ serial'[loaded[u]][r[1]] = r[2]
                                /\ PendingAfter(r[1], loaded[u])'
  BY <1>1 DEF Snapshot, Same
<1>3. r[1] \in Words BY DEF TypeOK, TypeHistory
<1>4. ASSUME NEW k \in 0..global_clock, serial[k][r[1]] = r[2], PendingAfter(r[1], k)
      PROVE  serial'[k][r[1]] = r[2] /\ PendingAfter(r[1], k)'
  <2>1. k \in Int /\ k <= global_clock BY SMT DEF TypeOK, TypeShared
  <2> QED BY <1>3, <1>4, <2>1, StateKept, PendingAfterKept
<1>5. read_version[u] \in 0..global_clock
  BY SMT DEF TypeOK, TypeShared, TypeObject, Shape, ShapeOf
<1>6. pc[u] = "validate" => loaded[u] \in 0..global_clock
  BY <1>2, SMT DEF TypeOK, TypeShared, TypeObject, Shape, ShapeOf
<1>7. read_version'[u] = read_version[u] /\ loaded'[u] = loaded[u] BY <1>1 DEF Same
<1>8. Reads(u, r[1])' BY <1>1, <1>2 DEF Snapshot, Reads, Same
<1>9. serial'[read_version[u]][r[1]] = r[2] /\ PendingAfter(r[1], read_version[u])'
  <2>1. serial[read_version[u]][r[1]] = r[2] /\ PendingAfter(r[1], read_version[u])
    BY <1>2 DEF Snapshot
  <2>2. ASSUME NEW k \in 0..global_clock, k = read_version[u]
        PROVE  serial'[k][r[1]] = r[2] /\ PendingAfter(r[1], k)'
    BY <1>4, <2>1, <2>2
  <2> QED BY <1>5, <1>7, <2>2 DEF PendingAfter
<1>10. ASSUME pc[u] = "validate", NEW i \in 1..Len(read_set[u]), i < index[u], read_set[u][i] = r[1]
       PROVE  serial'[loaded[u]][r[1]] = r[2] /\ PendingAfter(r[1], loaded[u])'
  <2>1. serial[loaded[u]][r[1]] = r[2] /\ PendingAfter(r[1], loaded[u])
    BY <1>2, <1>10 DEF Snapshot
  <2>2. ASSUME NEW k \in 0..global_clock, k = loaded[u]
        PROVE  serial'[k][r[1]] = r[2] /\ PendingAfter(r[1], k)'
    BY <1>4, <2>1, <2>2
  <2> QED BY <1>6, <1>7, <1>10, <2>2 DEF PendingAfter
<1> QED BY <1>8, <1>9, <1>10

-----------------------------------------------------------------------------
(* What a step does to the reads of its own transaction *)

\* All that is said of the reads of u.
Covered(u) == ReadsGuarded(u) /\ ReadsValidated(u) /\ Snapshot(u)

\* A transaction that is not running, or can no longer be refused, is owed nothing.
LEMMA OverCovered ==
    ASSUME NEW t \in Threads, ~Updating(t)', ~is_ro'[t]
    PROVE  Covered(t)'
BY DEF Covered, ReadsGuarded, ReadsValidated, Snapshot, Updating, Pending

\* A transaction that begins has read nothing.
LEMMA BeginCovered ==
    ASSUME TypeOK, Fresh, NEW t \in Threads, NEW ro \in BOOLEAN, Begin(t, ro)
    PROVE  Covered(t)'
<1>1. /\ read_set'[t] = <<>> /\ observed'[t] = {} /\ pc'[t] = "active"
  BY DEF Begin, Fresh, seen, TypeOK, TypeCall
<1>2. ~Pending(t)' BY <1>1 DEF Pending
<1>3. \A w \in Words : ~Reads(t, w)' BY <1>1, SMT DEF Reads
<1> QED BY <1>1, <1>2, <1>3 DEF Covered, ReadsGuarded, ReadsValidated, Snapshot

\* A step that leaves the reads of its transaction and the words as they are
\* leaves what guards these reads as it is.
LEMMA GuardFrame ==
    ASSUME NEW t \in Threads, \A v \in Threads : v # t => Same(v), Updating(t), ReadsGuarded(t),
           UNCHANGED <<data, version>>, pc'[t] # "rw_copy",
           read_version'[t] = read_version[t], read_set'[t] = read_set[t],
           observed'[t] = observed[t]
    PROVE  ReadsGuarded(t)'
<1>1. \A w \in Words : Reads(t, w)' <=> Reads(t, w) BY DEF Reads
<1>2. \A w \in Words, k \in {read_version[t]} : SlotsAfter(t, w, k) => SlotsAfter(t, w, k)'
  BY DEF SlotsAfter, Same, Holds, Slotted, Pending, Decided
<1>3. \A w : (\A v \in Threads : v # t /\ Holds(v, w)' => ~Decided(v)')
               => \A v \in Threads : v # t /\ Holds(v, w) => ~Decided(v)
  BY DEF Same, Holds, Decided
<1>4. ASSUME NEW w \in Words, Reads(t, w)' PROVE SlotsAfter(t, w, read_version[t])'
  BY <1>1, <1>2, <1>4 DEF ReadsGuarded, SlotsAfter
<1>5. ASSUME NEW r \in observed'[t]
      PROVE  /\ Reads(t, r[1])'
             /\ version'[r[1]] <= read_version'[t]
                /\ (\A v \in Threads : v # t /\ Holds(v, r[1])' => ~Decided(v)')
                    => data'[r[1]] = r[2]
  BY <1>3, <1>5 DEF ReadsGuarded, Reads
<1> QED BY <1>4, <1>5 DEF ReadsGuarded

\* The read of an update transaction: the lock is free, so whoever takes it
\* from now on gets a slot behind the read version.
LEMMA AcceptCovered ==
    ASSUME TypeOK, Shape, Locks, NEW t \in Threads, \A v \in Threads : v # t => Same(v),
           ReadsGuarded(t), NEW w \in Words, ReadWriteAccept(t, w)
    PROVE  Covered(t)'
<1>1. /\ pc[t] = "active" /\ pc'[t] \in {"active", "rw_copy"}
      /\ ~is_ro[t] /\ ~is_ro'[t]
      /\ ~locked[w]
      /\ UNCHANGED <<data, version, read_version, observed>>
      /\ read_set' = [read_set EXCEPT ![t] = Append(@, w)]
      /\ pc'[t] = "rw_copy" => word'[t] = w
  <2>1. pc'[t] \in {"active", "rw_copy"} /\ (pc'[t] = "rw_copy" => word'[t] = w)
    <3>1. CASE w \in Written(t) BY <3>1 DEF ReadWriteAccept
    <3>2. CASE w \notin Written(t) BY <3>2 DEF ReadWriteAccept, TypeOK, TypeCall
    <3> QED BY <3>1, <3>2
  <2> QED BY <2>1 DEF ReadWriteAccept, unlocked_and_old, shared, seen
<1>2. Updating(t) /\ ~Pending(t)' BY <1>1 DEF Updating, Pending
<1>3. \A x : Reads(t, x)' <=> Reads(t, x) \/ x = w
  <2>1. read_set[t] \in Seq(Words) BY DEF TypeOK, TypeObject
  <2>2. read_set'[t] = Append(read_set[t], w) BY <1>1 DEF TypeOK, TypeObject
  <2>3. /\ Len(read_set[t]) \in Nat /\ Len(read_set'[t]) = Len(read_set[t]) + 1
        /\ read_set'[t][Len(read_set[t]) + 1] = w
        /\ \A i \in 1..Len(read_set[t]) : read_set'[t][i] = read_set[t][i]
    BY <2>1, <2>2, SMT
  <2> QED BY <2>3, SMT DEF Reads
<1>4. ASSUME NEW x \in Words, Reads(t, x)' PROVE SlotsAfter(t, x, read_version[t])'
  <2>1. CASE x = w
    <3>1. \A v \in Threads : ~Holds(v, w) BY <1>1, UnlockedSettled
    <3> QED BY <2>1, <3>1 DEF SlotsAfter, Same, Holds
  <2>2. CASE x # w
    <3>1. SlotsAfter(t, x, read_version[t]) BY <1>2, <1>3, <1>4, <2>2 DEF ReadsGuarded
    <3> QED BY <1>1, <3>1 DEF SlotsAfter, Same, Holds, Slotted, Pending, Decided
  <2> QED BY <2>1, <2>2
<1>5. ASSUME NEW r \in observed[t]
      PROVE  /\ Reads(t, r[1])'
             /\ version'[r[1]] <= read_version'[t]
                /\ (\A v \in Threads : v # t /\ Holds(v, r[1])' => ~Decided(v)')
                    => data'[r[1]] = r[2]
  <2>1. (\A v \in Threads : v # t /\ Holds(v, r[1])' => ~Decided(v)')
           => \A v \in Threads : v # t /\ Holds(v, r[1]) => ~Decided(v)
    BY DEF Same, Holds, Decided
  <2> QED BY <1>1, <1>2, <1>3, <2>1 DEF ReadsGuarded
<1>6. pc'[t] = "rw_copy" => Reads(t, word[t])' BY <1>1, <1>3 DEF Reads
<1>7. ReadsGuarded(t)' BY <1>1, <1>4, <1>5, <1>6 DEF ReadsGuarded
<1> QED BY <1>1, <1>2, <1>7 DEF Covered, ReadsValidated, Snapshot

\* The copy that follows.
LEMMA CopyCovered ==
    ASSUME TypeOK, Shape, NEW t \in Threads, \A v \in Threads : v # t => Same(v),
           ReadsGuarded(t), ReadWriteCopy(t)
    PROVE  Covered(t)'
<1> DEFINE w == word[t]
<1>1. /\ pc[t] = "rw_copy" /\ pc'[t] = "active"
      /\ ~is_ro[t] /\ ~is_ro'[t]
      /\ UNCHANGED <<data, version, read_version, read_set>>
      /\ observed'[t] = observed[t] \cup {<<w, data[w]>>}
  BY DEF ReadWriteCopy, shared, object, Shape, ShapeOf, TypeOK, TypeCall, TypeHistory
<1>2. Updating(t) /\ ~Pending(t)' BY <1>1 DEF Updating, Pending
<1>3. Reads(t, w) BY <1>1, <1>2 DEF ReadsGuarded
<1> HIDE DEF w
<1>4. \A x : Reads(t, x)' <=> Reads(t, x) BY <1>1 DEF Reads
<1>5. ASSUME NEW x \in Words, Reads(t, x)' PROVE SlotsAfter(t, x, read_version[t])'
  <2>1. SlotsAfter(t, x, read_version[t]) BY <1>2, <1>4, <1>5 DEF ReadsGuarded
  <2> QED BY <1>1, <2>1 DEF SlotsAfter, Same, Holds, Slotted, Pending, Decided
<1>6. ASSUME NEW r \in observed'[t]
      PROVE  /\ Reads(t, r[1])'
             /\ version'[r[1]] <= read_version'[t]
                /\ (\A v \in Threads : v # t /\ Holds(v, r[1])' => ~Decided(v)')
                    => data'[r[1]] = r[2]
  <2>1. CASE r = <<w, data[w]>>
    <3>1. r[1] = w /\ r[2] = data[w] BY <2>1
    <3>2. Reads(t, r[1])' BY <1>3, <1>4, <3>1
    <3>3. data'[r[1]] = r[2] BY <1>1, <3>1
    <3> QED BY <3>2, <3>3
  <2>2. CASE r \in observed[t]
    <3>1. (\A v \in Threads : v # t /\ Holds(v, r[1])' => ~Decided(v)')
             => \A v \in Threads : v # t /\ Holds(v, r[1]) => ~Decided(v)
      BY DEF Same, Holds, Decided
    <3> QED BY <1>1, <1>2, <1>4, <2>2, <3>1 DEF ReadsGuarded
  <2> QED BY <1>1, <1>6, <2>1, <2>2
<1>7. ReadsGuarded(t)' BY <1>1, <1>5, <1>6 DEF ReadsGuarded
<1> QED BY <1>1, <1>2, <1>7 DEF Covered, ReadsValidated, Snapshot

\* Where no version moved past the read version and nobody else writes back, an
\* update transaction finds the value it has read in the history.
LEMMA GuardedState ==
    ASSUME TypeOK, Shape, Memory, NEW t \in Threads, Updating(t), ReadsGuarded(t),
           NEW r \in observed[t], version[r[1]] <= read_version[t],
           \A v \in Threads : v # t /\ Holds(v, r[1]) => ~Decided(v)
    PROVE  \A k \in read_version[t]..global_clock : serial[k][r[1]] = r[2]
<1>1. r[1] \in Words BY DEF TypeOK, TypeHistory
<1>2. data[r[1]] = r[2] BY DEF ReadsGuarded
<1>3. Settled(r[1]) BY DEF Settled, Updating, Decided
<1>4. \A k \in version[r[1]]..global_clock : serial[k][r[1]] = data[r[1]]
  BY <1>1, <1>3 DEF Memory, SettledWord
<1>5. version[r[1]] \in Nat /\ read_version[t] \in Nat /\ global_clock \in Nat
  BY <1>1 DEF TypeOK, TypeShared, TypeObject
<1> QED BY <1>2, <1>4, <1>5, SMT

\* The increment of the clock: the validation starts at the beginning, or
\* nobody has had a slot since the read version and there is nothing to look at.
LEMMA IncrementCovered ==
    ASSUME TypeOK, Shape, Locks, Memory, NEW t \in Threads, \A v \in Threads : v # t => Same(v),
           ReadsGuarded(t), IncrementClock(t)
    PROVE  Covered(t)'
<1>1. /\ pc[t] = "lock" /\ pc'[t] = "validate"
      /\ ~is_ro[t] /\ ~is_ro'[t]
      /\ UNCHANGED <<data, version, read_version, read_set, observed>>
      /\ write_version'[t] = global_clock + 1
      /\ index'[t] = validation_start(global_clock + 1, read_version[t], read_set[t])
      /\ serial' = [k \in 0..(global_clock + 1) |->
                       IF k <= global_clock THEN serial[k] ELSE serial[global_clock]]
      /\ global_clock \in Nat
  BY DEF IncrementClock, seen, Shape, ShapeOf, TypeOK, TypeShared, TypeObject, TypeCall
<1>2. Updating(t) BY <1>1 DEF Updating
<1>3. ReadsGuarded(t)' BY <1>1, <1>2, GuardFrame
<1>4. ASSUME NEW i \in 1..Len(read_set[t]), i < index'[t]
      PROVE  /\ SlotsAfter(t, read_set[t][i], write_version[t])'
             /\ \A r \in observed[t] : r[1] = read_set[t][i] =>
                    serial'[write_version'[t] - 1][r[1]] = r[2]
  <2>1. i \in Nat /\ i >= 1 /\ read_set[t] \in Seq(Words) BY SMT DEF TypeOK, TypeObject
  <2>2. read_version[t] = global_clock
    <3>1. index'[t] # 1 BY <1>4, <2>1, SMT
    <3>2. global_clock + 1 = read_version[t] + 1 BY <1>1, <3>1 DEF validation_start
    <3>3. read_version[t] \in Nat BY DEF TypeOK, TypeObject
    <3> QED BY <1>1, <3>2, <3>3, SMT
  <2> DEFINE w == read_set[t][i]
  <2>3. w \in Words /\ Reads(t, w) BY <2>1 DEF Reads
  <2>4. SlotsAfter(t, w, global_clock) BY <1>2, <2>2, <2>3 DEF ReadsGuarded
  <2>5. ASSUME NEW v \in Threads, v # t, Slotted(v) PROVE ~Holds(v, w)
    <3>1. write_version[v] \in 1..global_clock BY <2>5 DEF Shape, ShapeOf
    <3>2. ~(write_version[v] > global_clock) BY <1>1, <3>1, SMT
    <3> QED BY <2>4, <2>5, <3>2 DEF SlotsAfter
  <2>6. SlotsAfter(t, w, write_version[t])'
    <3>1. w' = w BY <1>1
    <3> HIDE DEF w
    <3> QED BY <2>5, <3>1 DEF SlotsAfter, Same, Holds, Slotted, Pending, Decided
  <2>7. ASSUME NEW r \in observed[t], r[1] = w PROVE serial'[write_version'[t] - 1][r[1]] = r[2]
    <3>1. \A v \in Threads : v # t /\ Holds(v, r[1]) => ~Decided(v)
      BY <2>5, <2>7 DEF Slotted
    <3>2. version[r[1]] <= read_version[t]
      BY <2>2, <2>3, <2>7 DEF Memory, VersionBound
    <3>3. serial[global_clock][r[1]] = r[2]
      <4>1. global_clock \in read_version[t]..global_clock BY <1>1, <2>2, SMT
      <4> QED BY <1>2, <3>1, <3>2, <4>1, GuardedState
    <3>4. write_version'[t] - 1 = global_clock BY <1>1, SMT
    <3>5. serial'[global_clock] = serial[global_clock] BY <1>1, SMT
    <3> QED BY <3>3, <3>4, <3>5
  <2> QED BY <2>6, <2>7
<1>5. ReadsValidated(t)' BY <1>1, <1>4 DEF ReadsValidated, SlotsAfter
<1> QED BY <1>1, <1>3, <1>5 DEF Covered, Snapshot

\* A word that passes the validation of an update transaction is held by nobody
\* else and has the value that was read, also in the state before the slot.
LEMMA ValidateCovered ==
    ASSUME TypeOK, Shape, Locks, Memory, NEW t \in Threads, \A v \in Threads : v # t => Same(v),
           ReadsGuarded(t), ReadsValidated(t), Validate(t), ~is_ro[t]
    PROVE  Covered(t)'
<1> DEFINE n == index[t]
           w == read_set[t][n]
<1>1. /\ pc[t] = "validate" /\ pc'[t] = "validate" /\ ~is_ro'[t]
      /\ UNCHANGED <<data, version, serial, read_version, write_version, read_set, observed>>
      /\ n <= Len(read_set[t]) /\ n \in Nat \ {0} /\ index'[t] = n + 1
      /\ read_set[t] \in Seq(Words)
      /\ version[w] <= read_version[t]
      /\ Holds(t, w) \/ ~locked[w]
  BY DEF Validate, still_valid, shared, object, log, seen, TypeOK, TypeObject, TypeCall, Holds
<1>2. Updating(t) /\ Pending(t) /\ Pending(t)' BY <1>1 DEF Updating, Pending
<1>3. ReadsGuarded(t)' BY <1>1, <1>2, GuardFrame
<1>4. n \in 1..Len(read_set[t]) BY <1>1, SMT
<1>5. w \in Words BY <1>1, <1>4
<1> HIDE DEF w
<1>6. \A v \in Threads : v # t => ~Holds(v, w)
  BY <1>1, <1>5, HeldAlone
<1>7. write_version[t] - 1 \in read_version[t]..global_clock
  <2>1. write_version[t] \in 1..global_clock /\ read_version[t] < write_version[t]
    BY <1>2 DEF Shape, ShapeOf, Slotted
  <2>2. read_version[t] \in Nat /\ global_clock \in Nat BY DEF TypeOK, TypeObject, TypeShared
  <2> QED BY <2>1, <2>2, SMT
<1>8. ASSUME NEW i \in 1..Len(read_set[t]), i < n + 1
      PROVE  /\ SlotsAfter(t, read_set[t][i], write_version[t])'
             /\ \A r \in observed[t] : r[1] = read_set[t][i] =>
                    serial[write_version[t] - 1][r[1]] = r[2]
  <2>1. CASE i = n
    <3>1. read_set[t][i] = w /\ (read_set[t][i])' = w BY <1>1, <2>1 DEF w
    <3>2. SlotsAfter(t, read_set[t][i], write_version[t])'
      BY <1>6, <3>1 DEF SlotsAfter, Same, Holds
    <3>3. ASSUME NEW r \in observed[t], r[1] = w PROVE serial[write_version[t] - 1][r[1]] = r[2]
      BY <1>1, <1>2, <1>6, <1>7, <3>3, GuardedState
    <3> QED BY <3>1, <3>2, <3>3
  <2>2. CASE i # n
    <3>1. i < n BY <1>1, <1>8, <2>2, SMT
    <3>2. /\ SlotsAfter(t, read_set[t][i], write_version[t])
          /\ \A r \in observed[t] : r[1] = read_set[t][i] =>
                    serial[write_version[t] - 1][r[1]] = r[2]
      BY <1>2, <3>1 DEF ReadsValidated
    <3>3. SlotsAfter(t, read_set[t][i], write_version[t])'
      BY <1>1, <3>2 DEF SlotsAfter, Same, Holds, Slotted, Pending, Decided
    <3> QED BY <3>2, <3>3
  <2> QED BY <2>1, <2>2
<1>9. ReadsValidated(t)' BY <1>1, <1>8 DEF ReadsValidated, SlotsAfter
<1> QED BY <1>1, <1>3, <1>9 DEF Covered, Snapshot

\* Which slots are pending behind k does not depend on a read-only transaction.
LEMMA PendingFrame ==
    ASSUME NEW t \in Threads, \A v \in Threads : v # t => Same(v), is_ro'[t],
           NEW w, NEW k, PendingAfter(w, k)
    PROVE  PendingAfter(w, k)'
BY DEF PendingAfter, Same, Holds, Pending

\* A step within a read that has not moved the read version leaves the snapshot.
LEMMA SnapshotFrame ==
    ASSUME TypeOK, NEW t \in Threads, \A v \in Threads : v # t => Same(v), Snapshot(t),
           is_ro[t], is_ro'[t], UNCHANGED <<serial, read_version, read_set, observed, stale>>,
           pc'[t] = "validate" => \A i \in 1..Len(read_set[t]) : ~(i < index'[t])
    PROVE  Covered(t)'
<1>1. ASSUME NEW r \in observed[t] \ stale[t], NEW k \in {read_version[t]}
      PROVE  Reads(t, r[1])' /\ serial[k][r[1]] = r[2] /\ PendingAfter(r[1], k)'
  BY PendingFrame DEF Snapshot, Reads
<1>2. ASSUME NEW r \in observed[t] \ stale[t]
      PROVE  PendingAfter(r[1], read_version[t])'
  BY <1>1 DEF PendingAfter
<1>3. Snapshot(t)' BY <1>1, <1>2 DEF Snapshot
<1> QED BY <1>3 DEF Covered, ReadsGuarded, ReadsValidated, Updating, Pending

\* A copy that is accepted is what the word has been since its version, so at
\* the read version, unless it is stale; and nobody who has the word can commit.
LEMMA ReadOnlyAcceptCovered ==
    ASSUME TypeOK, Shape, Locks, Memory, NEW t \in Threads, \A v \in Threads : v # t => Same(v),
           Snapshot(t), ReadOnlyAccept(t)
    PROVE  Covered(t)'
<1> DEFINE w == word[t]
           c == <<w, value[t]>>
<1>1. /\ pc[t] = "ro_check" /\ pc'[t] = "active" /\ is_ro[t] /\ is_ro'[t]
      /\ UNCHANGED <<serial, read_version>>
      /\ read_set'[t] = Append(read_set[t], w)
      /\ observed'[t] = observed[t] \cup {c}
      /\ stale'[t] = IF value[t] = data[w] THEN stale[t] ELSE stale[t] \cup {c}
      /\ ~locked[w] /\ version[w] <= read_version[t]
      /\ w \in Words
  BY DEF ReadOnlyAccept, unlocked_and_old, log, Shape, ShapeOf, TypeOK, TypeObject, TypeCall,
         TypeHistory
<1>2. \A x : Reads(t, x) \/ x = w => Reads(t, x)'
  <2>1. read_set[t] \in Seq(Words) BY DEF TypeOK, TypeObject
  <2>2. /\ Len(read_set[t]) \in Nat /\ Len(read_set'[t]) = Len(read_set[t]) + 1
        /\ read_set'[t][Len(read_set[t]) + 1] = w
        /\ \A i \in 1..Len(read_set[t]) : read_set'[t][i] = read_set[t][i]
    BY <1>1, <2>1, SMT
  <2> HIDE DEF w
  <2> QED BY <2>2, SMT DEF Reads
<1>3. ASSUME NEW r \in observed'[t] \ stale'[t]
      PROVE  /\ Reads(t, r[1])'
             /\ serial[read_version[t]][r[1]] = r[2]
             /\ PendingAfter(r[1], read_version[t])
  <2>1. CASE r = c
    <3>1. r[1] = w /\ r[2] = data[w] BY <1>1, <1>3, <2>1
    <3>2. Settled(w) /\ \A v \in Threads : ~Holds(v, w) BY <1>1, UnlockedSettled
    <3>3. \A k \in version[w]..global_clock : serial[k][w] = data[w]
      BY <1>1, <3>2 DEF Memory, SettledWord
    <3>4. read_version[t] \in version[w]..global_clock
      <4>1. read_version[t] <= global_clock BY DEF Shape, ShapeOf
      <4>2. version[w] \in Nat /\ read_version[t] \in Nat /\ global_clock \in Nat
        BY <1>1 DEF TypeOK, TypeShared, TypeObject
      <4> QED BY <1>1, <4>1, <4>2, SMT
    <3> HIDE DEF w, c
    <3> QED BY <1>2, <3>1, <3>2, <3>3, <3>4 DEF PendingAfter
  <2>2. CASE r # c
    <3>1. r \in observed[t] \ stale[t] BY <1>1, <1>3, <2>2
    <3> QED BY <1>1, <1>2, <3>1 DEF Snapshot
  <2> QED BY <2>1, <2>2
<1>4. ASSUME NEW r \in observed'[t] \ stale'[t]
      PROVE  PendingAfter(r[1], read_version[t])'
  <2>1. ASSUME NEW k \in {read_version[t]} PROVE PendingAfter(r[1], k)'
    BY <1>1, <1>3, <2>1, PendingFrame
  <2> QED BY <1>1, <2>1 DEF PendingAfter
<1> HIDE DEF w, c
<1>5. Snapshot(t)' BY <1>1, <1>3, <1>4 DEF Snapshot
<1> QED BY <1>1, <1>5 DEF Covered, ReadsGuarded, ReadsValidated, Updating, Pending

\* A word that passes the validation of a read-only transaction has had its value
\* from before the read version to after the version the validation moves to.
LEMMA ReadOnlyValidateCovered ==
    ASSUME TypeOK, Shape, Locks, Memory, NEW t \in Threads, \A v \in Threads : v # t => Same(v),
           Snapshot(t), Validate(t), is_ro[t]
    PROVE  Covered(t)'
<1> DEFINE n == index[t]
           w == read_set[t][n]
<1>1. /\ pc[t] = "validate" /\ pc'[t] = "validate" /\ is_ro'[t]
      /\ UNCHANGED <<serial, read_version, loaded, read_set, observed, stale>>
      /\ n <= Len(read_set[t]) /\ n \in Nat \ {0} /\ index'[t] = n + 1
      /\ read_set[t] \in Seq(Words)
      /\ version[w] <= read_version[t]
      /\ Holds(t, w) \/ ~locked[w]
  BY DEF Validate, still_valid, shared, object, log, seen, TypeOK, TypeObject, TypeCall, Holds
<1>2. ~locked[w] BY <1>1 DEF Locks, LockProgress, Holds
<1>3. w \in Words
  <2>1. n \in 1..Len(read_set[t]) BY <1>1, SMT
  <2> QED BY <1>1, <2>1
<1> HIDE DEF w
<1>4. Settled(w) /\ \A v \in Threads : ~Holds(v, w) BY <1>2, <1>3, UnlockedSettled
<1>5. \A k \in version[w]..global_clock : serial[k][w] = data[w]
  BY <1>3, <1>4 DEF Memory, SettledWord
<1>6. read_version[t] \in version[w]..global_clock /\ loaded[t] \in version[w]..global_clock
  <2>1. read_version[t] <= global_clock /\ loaded[t] \in read_version[t]..global_clock
    BY <1>1 DEF Shape, ShapeOf
  <2>2. version[w] \in Nat /\ read_version[t] \in Nat /\ global_clock \in Nat
    BY <1>3 DEF TypeOK, TypeShared, TypeObject
  <2> QED BY <1>1, <2>1, <2>2, SMT
<1>7. ASSUME NEW r \in observed[t] \ stale[t]
      PROVE  /\ Reads(t, r[1])' /\ serial[read_version[t]][r[1]] = r[2]
             /\ PendingAfter(r[1], read_version[t])
             /\ \A i \in 1..Len(read_set[t]) : i < n + 1 /\ read_set[t][i] = r[1] =>
                    serial[loaded[t]][r[1]] = r[2] /\ PendingAfter(r[1], loaded[t])
  <2>1. /\ Reads(t, r[1])' /\ serial[read_version[t]][r[1]] = r[2]
        /\ PendingAfter(r[1], read_version[t])
    BY <1>1, <1>7 DEF Snapshot, Reads
  <2>2. ASSUME NEW i \in 1..Len(read_set[t]), i < n + 1, read_set[t][i] = r[1]
        PROVE  serial[loaded[t]][r[1]] = r[2] /\ PendingAfter(r[1], loaded[t])
    <3>1. CASE i = n
      <4>1. r[1] = w BY <2>2, <3>1 DEF w
      <4> QED BY <1>4, <1>5, <1>6, <2>1, <4>1 DEF PendingAfter
    <3>2. CASE i # n
      <4>1. i < n BY <1>1, <2>2, <3>2, SMT
      <4> QED BY <1>1, <1>7, <2>2, <4>1 DEF Snapshot
    <3> QED BY <3>1, <3>2
  <2> QED BY <2>1, <2>2
<1>8. ASSUME NEW x, NEW k \in {read_version[t], loaded[t]}, PendingAfter(x, k)
      PROVE  PendingAfter(x, k)'
  BY <1>1, <1>8, PendingFrame
<1>9. \A x : /\ PendingAfter(x, read_version[t]) => PendingAfter(x, read_version[t])'
             /\ PendingAfter(x, loaded[t]) => PendingAfter(x, loaded[t])'
  BY <1>1, <1>8 DEF PendingAfter
<1>10. Snapshot(t)' BY <1>1, <1>7, <1>9 DEF Snapshot
<1> QED BY <1>1, <1>10 DEF Covered, ReadsGuarded, ReadsValidated, Updating, Pending

\* The read version moves once every read has passed the validation.
LEMMA RetryCovered ==
    ASSUME TypeOK, NEW t \in Threads, \A v \in Threads : v # t => Same(v),
           Snapshot(t), ReadOnlyRetry(t)
    PROVE  Covered(t)'
<1>1. /\ pc[t] = "validate" /\ pc'[t] = "ro_check" /\ is_ro[t] /\ is_ro'[t]
      /\ UNCHANGED <<serial, read_set, observed, stale>>
      /\ read_version'[t] = loaded[t]
      /\ index[t] > Len(read_set[t]) /\ index[t] \in Nat /\ read_set[t] \in Seq(Words)
  BY DEF ReadOnlyRetry, log, seen, TypeOK, TypeObject, TypeCall
<1>2. ASSUME NEW r \in observed[t] \ stale[t]
      PROVE  /\ Reads(t, r[1])' /\ serial[loaded[t]][r[1]] = r[2]
             /\ PendingAfter(r[1], loaded[t])
  <2>1. Reads(t, r[1]) BY <1>1 DEF Snapshot
  <2>2. PICK i \in 1..Len(read_set[t]) : read_set[t][i] = r[1] BY <2>1 DEF Reads
  <2>3. i < index[t] BY <1>1, SMT
  <2> QED BY <1>1, <2>1, <2>2, <2>3 DEF Snapshot, Reads
<1>3. ASSUME NEW r \in observed[t] \ stale[t], NEW k \in {loaded[t]}
      PROVE  PendingAfter(r[1], k)'
  BY <1>1, <1>2, <1>3, PendingFrame
<1>4. ASSUME NEW r \in observed[t] \ stale[t] PROVE PendingAfter(r[1], read_version[t])'
  BY <1>1, <1>3 DEF PendingAfter
<1>5. Snapshot(t)' BY <1>1, <1>2, <1>4 DEF Snapshot
<1> QED BY <1>1, <1>5 DEF Covered, ReadsGuarded, ReadsValidated, Updating, Pending

\* Every step covers the reads of its own transaction.
LEMMA OwnCovered ==
    ASSUME TypeOK, Shape, Fresh, Locks, Memory, NEW t \in Threads, Client(t) \/ Library(t),
           \A v \in Threads : v # t => Same(v), Covered(t)
    PROVE  Covered(t)'
<1> USE DEF Covered
<1>1. ASSUME NEW ro \in BOOLEAN, Begin(t, ro) PROVE Covered(t)'
  BY <1>1, BeginCovered
<1>2. ASSUME CleanUp(t) PROVE Covered(t)'
  BY <1>2, OverCovered DEF CleanUp, Updating, TypeOK, TypeCall, TypeObject
<1>3. ASSUME NEW w \in Words, ReadOnlyCopy(t, w) PROVE Covered(t)'
  BY <1>3, SnapshotFrame DEF ReadOnlyCopy, object, log, seen, TypeOK, TypeCall
<1>4. ASSUME ReadOnlyReject(t) PROVE Covered(t)'
  BY <1>4, SnapshotFrame DEF ReadOnlyReject, object, log, seen, Shape, ShapeOf, TypeOK, TypeCall
<1>5. ASSUME ReadOnlySampleClock(t) PROVE Covered(t)'
  <2>1. is_ro[t] /\ write_version[t] = -1 BY <1>5 DEF ReadOnlySampleClock, Shape, ShapeOf
  <2>2. read_version[t] \in Nat /\ read_set[t] \in Seq(Words) BY DEF TypeOK, TypeObject
  <2>3. index'[t] = 1
    BY <1>5, <2>1, <2>2, SMT DEF ReadOnlySampleClock, validation_start, TypeOK, TypeCall
  <2>4. \A i \in 1..Len(read_set[t]) : ~(i < index'[t]) BY <2>2, <2>3, SMT
  <2> QED BY <1>5, <2>1, <2>4, SnapshotFrame DEF ReadOnlySampleClock, object, log, seen
<1>6. ASSUME ReadOnlyAccept(t) PROVE Covered(t)'
  BY <1>6, ReadOnlyAcceptCovered
<1>7. ASSUME ReadOnlyRetry(t) PROVE Covered(t)'
  BY <1>7, RetryCovered
<1>8. ASSUME NEW w \in Words, ReadWriteAccept(t, w) PROVE Covered(t)'
  BY <1>8, AcceptCovered
<1>9. ASSUME ReadWriteCopy(t) PROVE Covered(t)'
  BY <1>9, CopyCovered
<1>10. ASSUME Updating(t), UNCHANGED <<data, version, read_version, is_ro, read_set, observed>>,
              pc'[t] \in {"active", "lock", "cas"}
       PROVE  Covered(t)'
  <2>1. ReadsGuarded(t)' BY <1>10, GuardFrame
  <2> QED BY <1>10, <2>1 DEF Updating, ReadsValidated, Pending, Snapshot
<1>11. ASSUME NEW w \in Words, NEW v \in Values, Write(t, w, v) PROVE Covered(t)'
  BY <1>11, <1>10 DEF Write, Updating, shared, seen
<1>12. ASSUME EndReadWrite(t) PROVE Covered(t)'
  BY <1>12, <1>10 DEF EndReadWrite, Updating, shared, object, seen, TypeOK, TypeCall
<1>13. ASSUME LockSkip(t) \/ LockLoad(t) \/ LockCas(t) PROVE Covered(t)'
  <2>1. Updating(t) BY <1>13 DEF LockSkip, LockLoad, LockCas, Updating, Shape, ShapeOf
  <2>2. UNCHANGED <<data, version, read_version, is_ro, read_set, observed>>
    BY <1>13 DEF LockSkip, LockLoad, LockCas, shared, object, seen
  <2>3. pc'[t] \in {"active", "lock", "cas"}
    BY <1>13 DEF LockSkip, LockLoad, LockCas, TypeOK, TypeCall
  <2> QED BY <1>10, <2>1, <2>2, <2>3
<1>14. ASSUME UNCHANGED is_ro, ~is_ro[t], pc'[t] \in {"rollback", "write", "stamp", "release"}
       PROVE  Covered(t)'
  BY <1>14, OverCovered DEF Updating
<1>15. ASSUME LockFail(t) \/ ReadWriteInvalid(t) \/ Commit(t) PROVE Covered(t)'
  BY <1>15, <1>14 DEF LockFail, ReadWriteInvalid, Commit, object, Shape, ShapeOf, TypeOK, TypeCall
<1>16. ASSUME WriteWord(t) \/ StampVersion(t) \/ WriteBackDone(t) PROVE Covered(t)'
  BY <1>16, <1>14 DEF WriteWord, StampVersion, WriteBackDone, object, Shape, ShapeOf, TypeOK, TypeCall
<1>17. ASSUME Unlock(t) \/ UnlockSkip(t) PROVE Covered(t)'
  BY <1>17, <1>14 DEF Unlock, UnlockSkip, object, Shape, ShapeOf
<1>18. ASSUME IncrementClock(t) PROVE Covered(t)'
  BY <1>18, IncrementCovered
<1>19. ASSUME Validate(t) PROVE Covered(t)'
  BY <1>19, ValidateCovered, ReadOnlyValidateCovered
<1> QED
  BY <1>1, <1>2, <1>3, <1>4, <1>5, <1>6, <1>7, <1>8, <1>9, <1>11, <1>12, <1>13, <1>15,
     <1>16, <1>17, <1>18, <1>19, Zenon
  DEF Client, Library, ReadOnlyGiveUp, ReadWriteReject, EndReadOnly, ReadOnlyInvalid, Finish

-----------------------------------------------------------------------------
(* Committed reads *)

\* An update transaction commits reads that its validation has found in the
\* state before its slot, where no transaction that may still commit can be.
LEMMA CommitReads ==
    ASSUME TypeOK, Shape, NEW t \in Threads, \A v \in Threads : v # t => Same(v),
           ReadsGuarded(t), ReadsValidated(t), Commit(t), NEW r \in observed[t]
    PROVE  /\ write_version[t] - 1 \in 0..global_clock'
           /\ serial'[write_version[t] - 1][r[1]] = r[2]
           /\ \A k \in {write_version[t] - 1} : PendingAfter(r[1], k)'
<1>1. /\ pc[t] = "validate" /\ ~is_ro[t] /\ pc'[t] = "write"
      /\ index[t] > Len(read_set[t]) /\ index[t] \in Nat /\ read_set[t] \in Seq(Words)
      /\ global_clock' = global_clock /\ global_clock \in Nat
      /\ serial' = [k \in 0..global_clock |->
                       IF k < write_version[t] THEN serial[k]
                       ELSE [w \in Words |-> IF w \in Written(t) THEN LastWrite(t, w)
                                                                 ELSE serial[k][w]]]
  BY DEF Commit, shared, TypeOK, TypeShared, TypeObject, TypeCall
<1>2. Pending(t) /\ Updating(t) BY <1>1 DEF Pending, Updating
<1>3. write_version[t] \in 1..global_clock BY <1>2 DEF Shape, ShapeOf, Slotted
<1>4. PICK i \in 1..Len(read_set[t]) : read_set[t][i] = r[1]
  BY <1>2 DEF ReadsGuarded, Reads
<1>5. i < index[t] BY <1>1, SMT
<1>6. SlotsAfter(t, r[1], write_version[t]) /\ serial[write_version[t] - 1][r[1]] = r[2]
  BY <1>2, <1>4, <1>5 DEF ReadsValidated
<1>7. write_version[t] - 1 \in 0..global_clock /\ write_version[t] - 1 < write_version[t]
  BY <1>1, <1>3, SMT
<1>8. serial'[write_version[t] - 1] = serial[write_version[t] - 1] BY <1>1, <1>7
<1>9. ASSUME NEW k \in {write_version[t] - 1}, NEW v \in Threads, Holds(v, r[1])', Pending(v)'
      PROVE  write_version'[v] > k
  <2>1. v # t /\ Same(v) BY <1>1, <1>9 DEF Pending
  <2>2. Holds(v, r[1]) /\ Slotted(v) /\ write_version'[v] = write_version[v]
    BY <1>9, <2>1 DEF Holds, Slotted, Pending, Same
  <2>3. write_version[v] > write_version[t] BY <1>6, <2>1, <2>2 DEF SlotsAfter
  <2>4. write_version[v] \in Int BY DEF TypeOK, TypeObject
  <2> QED BY <1>1, <1>3, <2>2, <2>3, <2>4, SMT
<1> QED BY <1>1, <1>6, <1>7, <1>8, <1>9 DEF PendingAfter

\* Every step keeps the committed reads, and those it adds are covered.
LEMMA NextCommitted ==
    ASSUME TypeOK, Shape, Locks, NEW t \in Threads, Client(t) \/ Library(t), TypeOK',
           \A v \in Threads : v # t => Same(v), Guarantee(t), CommittedReads, Covered(t)
    PROVE  CommittedReads'
<1> SUFFICES ASSUME NEW r \in committed_reads'
             PROVE  /\ r[1] \in 0..global_clock'
                    /\ serial'[r[1]][r[2]] = r[3]
                    /\ PendingAfter(r[2], r[1])'
  BY DEF CommittedReads
<1>1. CASE r \in committed_reads
  BY <1>1, CommittedKept DEF TypeOK, TypeShared
<1>2. CASE r \notin committed_reads
  <2>1. EndReadOnly(t) \/ Commit(t)
    <3>1. Quiet(t) \/ Deciding(t) BY StepKinds
    <3> QED BY <1>2, <3>1 DEF Quiet, Deciding, IncrementClock, WriteWord, StampVersion,
                              WriteBackDone, Unlock, UnlockSkip, log
  <2>2. CASE EndReadOnly(t)
    <3>1. PICK c \in observed[t] \ stale[t] : r = <<read_version[t], c[1], c[2]>>
      BY <1>2, <2>2 DEF EndReadOnly
    <3>2. is_ro[t] /\ UNCHANGED <<global_clock, serial>> /\ pc'[t] = "idle"
      BY <2>2 DEF EndReadOnly, CleanUp, shared, TypeOK, TypeCall
    <3>3. serial[read_version[t]][c[1]] = c[2] /\ PendingAfter(c[1], read_version[t])
      BY <3>2 DEF Covered, Snapshot
    <3>4. read_version[t] \in 0..global_clock
      BY SMT DEF TypeOK, TypeShared, TypeObject, Shape, ShapeOf
    <3>5. r[1] = read_version[t] /\ r[2] = c[1] /\ r[3] = c[2] BY <3>1
    <3>6. PendingAfter(r[2], r[1]) BY <3>3, <3>5
    <3>7. PendingAfter(r[2], r[1])' BY <3>2, <3>6 DEF PendingAfter, Same, Holds, Pending
    <3> QED BY <3>2, <3>3, <3>4, <3>5, <3>7
  <2>3. CASE Commit(t)
    <3>1. PICK c \in observed[t] : r = <<write_version[t] - 1, c[1], c[2]>>
      BY <1>2, <2>3 DEF Commit
    <3>2. r[1] = write_version[t] - 1 /\ r[2] = c[1] /\ r[3] = c[2] BY <3>1
    <3>3. /\ write_version[t] - 1 \in 0..global_clock'
          /\ serial'[write_version[t] - 1][c[1]] = c[2]
          /\ \A k \in {write_version[t] - 1} : PendingAfter(c[1], k)'
      BY <2>3, CommitReads DEF Covered
    <3> QED BY <3>2, <3>3
  <2> QED BY <2>1, <2>2, <2>3
<1> QED BY <1>1, <1>2

\* Every step keeps the reads covered.
LEMMA NextCovered ==
    ASSUME TypeOK, Shape, Fresh, Locks, Memory, CoveredReads, TypeOK',
           NEW t \in Threads, Client(t) \/ Library(t)
    PROVE  CoveredReads'
<1>1. \A v \in Threads : v # t => Same(v) BY OthersSame
<1>2. Guarantee(t) BY StepGuarantee
<1>3. \A u \in Threads : Covered(u) BY DEF CoveredReads, Covered
<1>4. Covered(t)' BY <1>1, <1>3, OwnCovered
<1>5. ASSUME NEW u \in Threads \ {t} PROVE Covered(u)'
  BY <1>1, <1>2, <1>3, GuardedKept, ValidatedKept, SnapshotKept DEF Covered
<1>6. CommittedReads' BY <1>1, <1>2, <1>3, NextCommitted DEF CoveredReads
<1>7. \A u \in Threads : Covered(u)'
  <2> TAKE u \in Threads
  <2>1. CASE u = t BY <1>4, <2>1
  <2>2. CASE u # t BY <1>5, <2>2
  <2> QED BY <2>1, <2>2
<1> QED BY <1>6, <1>7 DEF CoveredReads, Covered

-----------------------------------------------------------------------------
(* The theorems *)

\* The initial state: one state of the history, which memory agrees with.
LEMMA InitInvariant == Init => IInv
<1> SUFFICES ASSUME Init PROVE IInv OBVIOUS
<1> USE DEF Init
<1>1. TypeOK /\ Shape /\ WritesHaveLast /\ Locks BY InitShape, InitLocks
<1>2. Fresh /\ Needed BY DEF Fresh, Needed, LookedAt, Pending
<1>3. SlotsDiffer BY DEF SlotsDiffer, Slotted, Pending, Decided
<1>4. Memory
  BY SMT DEF Memory, VersionBound, SettledWord, Slotted, Pending, Decided
<1>5. CoveredReads
  BY DEF CoveredReads, CommittedReads, ReadsGuarded, ReadsValidated, Snapshot, Updating, Pending
<1> QED BY <1>1, <1>2, <1>3, <1>4, <1>5 DEF IInv

\* The invariant is inductive.
LEMMA NextInvariant ==
    ASSUME IInv, [Next]_vars
    PROVE  IInv'
<1>1. TypeOK' /\ Shape' /\ WritesHaveLast' /\ Locks' BY NextShapeVars, NextLocksVars DEF IInv
<1>2. ASSUME NEW t \in Threads, Client(t) \/ Library(t) PROVE IInv'
  BY <1>1, <1>2, NextFresh, NextNeeded, NextSlots, NextMemory, NextCovered DEF IInv
<1>3. CASE UNCHANGED vars
  <2> USE <1>3 DEF vars, shared, object, locals, log, seen
  <2>1. Fresh' /\ Needed'
    BY DEF IInv, Fresh, Needed, LookedAt, CurrentWrite, Pending
  <2>2. SlotsDiffer' BY DEF IInv, SlotsDiffer, Slotted, Pending, Decided
  <2>3. Memory'
    <3>1. VersionBound' BY DEF IInv, Memory, VersionBound, Slotted, Pending, Decided
    <3>2. ASSUME NEW w \in Words PROVE SettledWord(w)'
      BY DEF IInv, Memory, SettledWord, Settled, Holds, Decided
    <3>3. ASSUME NEW u \in Threads, Decided(u)', NEW w \in locked_set'[u] PROVE WriteBack(u, w)'
      <4>1. w \in Words /\ Same(u) BY <3>3 DEF IInv, TypeOK, TypeObject, Same
      <4>2. WriteBack(u, w) BY <3>3 DEF IInv, Memory, Decided
      <4>3. \A k \in write_version[u]..global_clock' : serial'[k][w] = LastWrite(u, w)
        BY <4>2 DEF WriteBack
      <4> QED BY <4>1, <4>2, <4>3, WriteBackFrame
    <3> QED BY <3>1, <3>2, <3>3 DEF Memory
  <2>4. CoveredReads'
    BY DEF IInv, CoveredReads, CommittedReads, ReadsGuarded, ReadsValidated, Snapshot,
           SlotsAfter, PendingAfter, Reads, Updating, Holds, Slotted, Pending, Decided
  <2> QED BY <1>1, <2>1, <2>2, <2>3, <2>4 DEF IInv
<1> QED BY <1>2, <1>3 DEF Next

\* The inductive invariant of the transactions holds in every state.
THEOREM Invariant == Spec => []IInv
<1>1. IInv /\ [Next]_vars => IInv' BY NextInvariant
<1> QED BY InitInvariant, <1>1, PTL DEF Spec

\* An unlocked word has held its value in every serial state since its version,
\* in the slots of transactions that are not decided too.
THEOREM VersionsDescribe == Spec => []VersionDescribesData
<1>1. IInv => VersionDescribesData
  BY UnlockedSettled DEF IInv, VersionDescribesData, Memory, VersionBound, SettledWord
<1> QED BY Invariant, <1>1, PTL

\* Committed transactions are serializable in the order of their clock values:
\* every committed read is what the transactions before it have left, for good.
THEOREM SerializableAlways == Spec => []Serializable
<1>1. IInv => Serializable BY DEF IInv, Serializable, CoveredReads, CommittedReads
<1> QED BY Invariant, <1>1, PTL

\* Moving the read version of a read-only transaction keeps what it has returned.
THEOREM SnapshotExtends == Spec => []ExtensionKeepsSnapshot
<1>1. IInv => ExtensionKeepsSnapshot BY DEF IInv, ExtensionKeepsSnapshot, CoveredReads, Snapshot
<1> QED BY Invariant, <1>1, PTL

-----------------------------------------------------------------------------
(* What a step may do to a word, and when it refuses a transaction *)

\* Only a transaction that is decided touches a word, and it holds the word.
LEMMA WordKept ==
    ASSUME TypeOK, Shape, Locks, Memory, NEW t \in Threads, Client(t) \/ Library(t), NEW w \in Words
    PROVE  /\ version'[w] >= version[w]
           /\ data'[w] # data[w] => locked[w]
<1>1. version[w] \in Nat BY DEF TypeOK, TypeShared
<1>2. \/ UNCHANGED <<data, version>>
      \/ WriteWord(t) \/ StampVersion(t)
  <2>1. Quiet(t) \/ Deciding(t) BY StepKinds
  <2> QED BY <2>1 DEF Quiet, Deciding, IncrementClock, Commit, WriteBackDone, Unlock, UnlockSkip, shared
<1>3. CASE UNCHANGED <<data, version>> BY <1>1, <1>3
<1>4. CASE WriteWord(t)
  <2>1. /\ pc[t] = "write" /\ index[t] <= Len(write_set[t]) /\ version' = version
        /\ data' = [data EXCEPT ![CurrentWrite(t).word] = CurrentWrite(t).value]
    BY <1>4 DEF WriteWord
  <2>2. CurrentWrite(t).word \in locked_set[t] BY <2>1, CurrentHeld
  <2>3. locked[CurrentWrite(t).word] BY <2>1, <2>2, CurrentHeld, HeldAlone DEF Holds
  <2> QED BY <1>1, <2>1, <2>3 DEF TypeOK, TypeShared
<1>5. CASE StampVersion(t)
  <2>1. /\ pc[t] = "stamp" /\ data' = data
        /\ version' = [version EXCEPT ![CurrentWrite(t).word] = write_version[t]]
    BY <1>5 DEF StampVersion
  <2>2. CurrentWrite(t).word \in locked_set[t] BY <2>1, CurrentHeld DEF Shape, ShapeOf
  <2>3. Slotted(t) BY <2>1 DEF Slotted, Decided
  <2>4. version[CurrentWrite(t).word] <= write_version[t]
    BY <2>2, <2>3 DEF Memory, VersionBound
  <2> QED BY <1>1, <2>1, <2>4, SMT DEF TypeOK, TypeShared, TypeObject
<1> QED BY <1>2, <1>3, <1>4, <1>5

\* A word changes only under its lock, and its version never goes back.
THEOREM VersionsGrow == Spec => VersionsOnlyGrow
<1>1. IInv /\ [Next]_vars =>
        [\A w \in Words : /\ version'[w] >= version[w]
                          /\ data'[w] # data[w] => locked[w]]_vars
  BY WordKept DEF IInv, Next
<1> QED BY Invariant, <1>1, PTL DEF Spec, VersionsOnlyGrow

\* A word that is locked is held by a transaction that is running.
LEMMA LockedByOther ==
    ASSUME TypeOK, Locks, NEW t \in Threads, NEW w \in Words, locked[w], w \notin locked_set[t]
    PROVE  \E u \in Threads \ {t} : pc[u] # "idle"
<1>1. PICK u \in Threads : w \in locked_set[u] BY DEF Locks, LockOwnership
<1>2. u # t BY <1>1
<1>3. pc[u] # "idle" BY <1>1 DEF Locks, LockProgress
<1> QED BY <1>2, <1>3

\* The actions that refuse.
LEMMA RefusedBy ==
    ASSUME TypeOK, Shape, NEW t \in Threads, Client(t) \/ Library(t), Refused(t)
    PROVE  \/ ReadOnlyReject(t)
           \/ \E w \in Words : ReadWriteReject(t, w)
           \/ LockFail(t)
           \/ ReadOnlyInvalid(t) \/ ReadWriteInvalid(t)
<1> USE DEF TypeOK, TypeCall, Refused
<1>1. ASSUME NEW ro \in BOOLEAN, Begin(t, ro) PROVE FALSE BY <1>1 DEF Begin
<1>2. ASSUME NEW w \in Words, ReadOnlyCopy(t, w) \/ ReadWriteAccept(t, w) PROVE FALSE
  BY <1>2 DEF ReadOnlyCopy, ReadWriteAccept
<1>3. ASSUME NEW w \in Words, NEW v \in Values, Write(t, w, v) PROVE FALSE
  BY <1>3 DEF Write
<1>4. ASSUME \/ ReadOnlyAccept(t) \/ ReadOnlySampleClock(t) \/ ReadOnlyRetry(t) \/ ReadWriteCopy(t)
             \/ EndReadOnly(t) \/ EndReadWrite(t) \/ LockSkip(t) \/ LockLoad(t) \/ LockCas(t)
      PROVE  FALSE
  BY <1>4 DEF ReadOnlyAccept, ReadOnlySampleClock, ReadOnlyRetry, ReadWriteCopy,
              EndReadOnly, EndReadWrite, LockSkip, LockLoad, LockCas
<1>5. ASSUME ReadOnlyGiveUp(t) PROVE FALSE
  <2>1. index[t] > Len(read_set[t]) /\ index[t] \in Nat /\ Len(read_set[t]) \in Nat
    BY <1>5 DEF ReadOnlyGiveUp, TypeObject
  <2> QED BY <1>5, <2>1, SMT DEF ReadOnlyGiveUp, CleanUp
<1>6. ASSUME \/ IncrementClock(t) \/ Validate(t) \/ Commit(t) \/ WriteWord(t) \/ StampVersion(t)
             \/ WriteBackDone(t) \/ Unlock(t) \/ UnlockSkip(t) \/ Finish(t)
      PROVE  FALSE
  BY <1>6 DEF IncrementClock, Validate, Commit, WriteWord, StampVersion, WriteBackDone, Unlock,
              UnlockSkip, Finish, CleanUp
<1> QED BY <1>1, <1>2, <1>3, <1>4, <1>5, <1>6, Zenon DEF Client, Library

\* What a refusal by a look at the lock of w says.
LEMMA RefusedForWord ==
    ASSUME TypeOK, Shape, Locks, Memory, NEW t \in Threads, NEW w \in Words,
           write_version[t] = -1,
           \/ ~unlocked_and_old(t, w) /\ w \notin locked_set[t]
           \/ ~still_valid(t, w)
    PROVE  \/ \E u \in Threads \ {t} : pc[u] # "idle"
           \/ global_clock > read_version[t] + (IF write_version[t] = -1 THEN 0 ELSE 1)
<1>1. global_clock \in Nat /\ version[w] \in Nat /\ read_version[t] \in Nat
  BY DEF TypeOK, TypeShared, TypeObject
<1>2. version[w] <= global_clock BY DEF Memory, VersionBound
<1>3. CASE locked[w] /\ w \notin locked_set[t] BY <1>3, LockedByOther
<1>4. CASE version[w] > read_version[t] BY <1>1, <1>2, <1>4, SMT
<1> QED BY <1>1, <1>3, <1>4, SMT DEF unlocked_and_old, still_valid

\* A step that refuses a transaction has a conflict for a reason.
LEMMA RefusedForReason ==
    ASSUME IInv, NEW t \in Threads, Client(t) \/ Library(t), Refused(t)
    PROVE  \/ \E u \in Threads \ {t} : pc[u] # "idle"
           \/ global_clock > read_version[t] + (IF write_version[t] = -1 THEN 0 ELSE 1)
           \/ pc[t] = "cas" /\ version[CurrentWrite(t).word] # loaded[t]
<1>0. TypeOK /\ Shape /\ Locks /\ Memory /\ Needed BY DEF IInv
<1>1. CASE ReadOnlyReject(t)
  <2>1. is_ro[t] /\ word[t] \in Words /\ write_version[t] = -1 /\ locked_set[t] = {}
    BY <1>0, <1>1 DEF ReadOnlyReject, Shape, ShapeOf, Locks, LockProgress
  <2> QED BY <1>0, <1>1, <2>1, RefusedForWord DEF ReadOnlyReject
<1>2. CASE \E w \in Words : ReadWriteReject(t, w)
  <2>1. PICK w \in Words : ReadWriteReject(t, w) BY <1>2
  <2>2. write_version[t] = -1 /\ locked_set[t] = {}
    BY <1>0, <2>1 DEF ReadWriteReject, Shape, ShapeOf, Locks, LockProgress
  <2> QED BY <1>0, <2>1, <2>2, RefusedForWord DEF ReadWriteReject
<1>3. CASE LockFail(t)
  <2>1. CurrentWrite(t).word \in Words /\ CurrentWrite(t).word \notin locked_set[t]
    BY <1>0, <1>3, CurrentWriteType
    DEF LockFail, Shape, ShapeOf, Needed, LookedAt, TypeOK, TypeCall
  <2>2. CASE locked[CurrentWrite(t).word] BY <1>0, <2>1, <2>2, LockedByOther
  <2>3. CASE ~locked[CurrentWrite(t).word] BY <1>3, <2>3 DEF LockFail, CasSucceeds
  <2> QED BY <2>2, <2>3
<1>4. CASE ReadOnlyInvalid(t)
  <2>1. /\ is_ro[t] /\ index[t] \in Nat \ {0} /\ read_set[t] \in Seq(Words)
        /\ index[t] <= Len(read_set[t]) /\ ~still_valid(t, read_set[t][index[t]])
    BY <1>0, <1>4 DEF ReadOnlyInvalid, TypeOK, TypeCall, TypeObject
  <2>2. read_set[t][index[t]] \in Words BY <2>1, SMT
  <2>3. write_version[t] = -1 BY <1>0, <2>1 DEF Shape, ShapeOf
  <2> QED BY <1>0, <2>1, <2>2, <2>3, RefusedForWord
<1>5. CASE ReadWriteInvalid(t)
  <2>1. Pending(t) /\ index[t] <= Len(read_set[t]) BY <1>5 DEF ReadWriteInvalid, Pending
  <2>2. write_version[t] # read_version[t] + 1 BY <1>0, <2>1 DEF Needed, LookedAt
  <2>3. write_version[t] \in 1..global_clock /\ read_version[t] < write_version[t]
    BY <1>0, <2>1 DEF Shape, ShapeOf, Slotted
  <2>4. read_version[t] \in Nat /\ global_clock \in Nat
    BY <1>0 DEF TypeOK, TypeShared, TypeObject
  <2> QED BY <2>2, <2>3, <2>4, SMT
<1> QED BY <1>0, <1>1, <1>2, <1>3, <1>4, <1>5, RefusedBy

\* No transaction is refused without a conflict.
THEOREM RefusalsNeedConflict == Spec => RefusalNeedsConflict
<1>1. IInv /\ [Next]_vars =>
        [\A t \in Threads : Refused(t) =>
            \/ \E u \in Threads \ {t} : pc[u] # "idle"
            \/ global_clock > read_version[t] + (IF write_version[t] = -1 THEN 0 ELSE 1)
            \/ pc[t] = "cas" /\ version[CurrentWrite(t).word] # loaded[t]]_vars
  <2> SUFFICES ASSUME IInv, NEW s \in Threads, Client(s) \/ Library(s),
                      NEW t \in Threads, Refused(t)
               PROVE  \/ \E u \in Threads \ {t} : pc[u] # "idle"
                      \/ global_clock > read_version[t] + (IF write_version[t] = -1 THEN 0 ELSE 1)
                      \/ pc[t] = "cas" /\ version[CurrentWrite(t).word] # loaded[t]
    BY DEF Next
  <2>1. CASE s = t BY <2>1, RefusedForReason
  <2>2. CASE s # t
    <3>1. Same(t) BY <2>2, OthersSame DEF IInv
    <3> QED BY <3>1 DEF Same, Refused
  <2> QED BY <2>1, <2>2
<1> QED BY Invariant, <1>1, PTL DEF Spec, RefusalNeedsConflict

-----------------------------------------------------------------------------
(* The promise *)

\* What the refinement mapping makes of the transactions.
View == [t \in Threads |-> IF Undecided(t) THEN read_version[t] ELSE -1]
Slot == [t \in Threads |-> IF Undecided(t) THEN write_version[t] ELSE -1]

\* One step of the promise, on behalf of t, or none.
Kept(t) ==
    \/ Promise!Begin(t) \/ Promise!Advance(t) \/ Promise!TakeSlot(t)
    \/ Promise!CommitUpdate(t) \/ Promise!CommitReadOnly(t) \/ Promise!Abort(t)
    \/ UNCHANGED <<global_clock, serial, committed_reads, View, Slot>>

\* A step of t changes the view and the slot of t only.
LEMMA MappingFrame ==
    ASSUME NEW t \in Threads, \A u \in Threads : u # t => Same(u),
           NEW v, v = (IF Undecided(t) THEN read_version[t] ELSE -1)',
           NEW s, s = (IF Undecided(t) THEN write_version[t] ELSE -1)'
    PROVE  View' = [View EXCEPT ![t] = v] /\ Slot' = [Slot EXCEPT ![t] = s]
BY DEF View, Slot, Undecided, Same

\* A step that leaves t where it is for the promise.
LEMMA Stutters ==
    ASSUME NEW t \in Threads, \A u \in Threads : u # t => Same(u),
           UNCHANGED <<global_clock, serial, committed_reads>>,
           \/ ~Undecided(t) /\ ~Undecided(t)'
           \/ /\ Undecided(t) /\ Undecided(t)'
              /\ read_version'[t] = read_version[t] /\ write_version'[t] = write_version[t]
    PROVE  Kept(t)
<1>1. UNCHANGED <<View, Slot>> BY DEF View, Slot, Undecided, Same
<1> QED BY <1>1 DEF Kept

\* A transaction that ends without a commit.
LEMMA Aborts ==
    ASSUME TypeOK, NEW t \in Threads, \A u \in Threads : u # t => Same(u),
           UNCHANGED <<global_clock, serial, committed_reads>>,
           Undecided(t), ~Undecided(t)'
    PROVE  Kept(t)
<1>1. View' = [View EXCEPT ![t] = -1] /\ Slot' = [Slot EXCEPT ![t] = -1] BY MappingFrame
<1>2. View[t] # -1 BY SMT DEF View, TypeOK, TypeObject
<1> QED
  BY <1>1, <1>2
  DEF Kept, Promise!Abort, Promise!Running, Promise!NoTransaction, Promise!End, View, Slot

\* A transaction begins behind all slots that are taken.
LEMMA BeginKept ==
    ASSUME TypeOK, Shape, NEW t \in Threads, \A u \in Threads : u # t => Same(u),
           NEW ro \in BOOLEAN, Begin(t, ro)
    PROVE  Kept(t)
<1>1. /\ pc[t] = "idle" /\ pc'[t] = "active" /\ write_version[t] = -1
      /\ write_version' = write_version
      /\ UNCHANGED <<global_clock, serial, committed_reads>>
      /\ read_version'[t] = global_clock
  BY DEF Begin, shared, log, TypeOK, TypeObject, TypeCall, Shape, ShapeOf
<1>2. ~Undecided(t) /\ Undecided(t)' BY <1>1 DEF Undecided
<1>3. View' = [View EXCEPT ![t] = global_clock] /\ Slot' = [Slot EXCEPT ![t] = -1]
  BY <1>1, <1>2, MappingFrame
<1>4. View[t] = -1 /\ Slot[t] = -1 BY <1>2 DEF View, Slot
<1>5. Slot' = Slot BY <1>3, <1>4 DEF Slot
<1> QED
  BY <1>1, <1>3, <1>4, <1>5
  DEF Kept, Promise!Begin, Promise!Running, Promise!NoTransaction, View, Slot

\* A read-only transaction moves to a later place.
LEMMA RetryKept ==
    ASSUME TypeOK, Shape, NEW t \in Threads, \A u \in Threads : u # t => Same(u),
           ReadOnlyRetry(t)
    PROVE  Kept(t)
<1>1. /\ pc[t] = "validate" /\ is_ro[t] /\ pc'[t] = "ro_check"
      /\ write_version[t] = -1 /\ write_version' = write_version
      /\ UNCHANGED <<global_clock, serial, committed_reads>>
      /\ read_version'[t] = loaded[t]
      /\ loaded[t] \in read_version[t]..global_clock
  BY DEF ReadOnlyRetry, shared, log, TypeOK, TypeObject, TypeCall, Shape, ShapeOf
<1>2. Undecided(t) /\ Undecided(t)' BY <1>1 DEF Undecided
<1>3. View' = [View EXCEPT ![t] = loaded[t]] /\ Slot' = [Slot EXCEPT ![t] = -1]
  BY <1>1, <1>2, MappingFrame
<1>4. View[t] = read_version[t] /\ Slot[t] = -1 BY <1>1, <1>2 DEF View, Slot
<1>5. Slot' = Slot BY <1>3, <1>4 DEF Slot
<1>6. View[t] # -1 BY <1>4, SMT DEF TypeOK, TypeObject
<1>7. \E k \in View[t]..global_clock : View' = [View EXCEPT ![t] = k] BY <1>1, <1>3, <1>4
<1> QED
  BY <1>1, <1>4, <1>5, <1>6, <1>7
  DEF Kept, Promise!Advance, Promise!Running, Promise!NoTransaction, View, Slot

\* The increment of the clock takes the next slot.
LEMMA IncrementKept ==
    ASSUME TypeOK, Shape, NEW t \in Threads, \A u \in Threads : u # t => Same(u),
           IncrementClock(t)
    PROVE  Kept(t)
<1>1. /\ pc[t] = "lock" /\ pc'[t] = "validate" /\ write_version[t] = -1
      /\ global_clock' = global_clock + 1 /\ committed_reads' = committed_reads
      /\ write_version'[t] = global_clock + 1 /\ read_version' = read_version
      /\ serial' = [k \in 0..(global_clock + 1) |->
                       IF k <= global_clock THEN serial[k] ELSE serial[global_clock]]
  BY DEF IncrementClock, TypeOK, TypeObject, TypeCall, Shape, ShapeOf
<1>2. Undecided(t) /\ Undecided(t)' BY <1>1 DEF Undecided
<1>3. View' = [View EXCEPT ![t] = read_version[t]] /\ Slot' = [Slot EXCEPT ![t] = global_clock + 1]
  BY <1>1, <1>2, MappingFrame
<1>4. View[t] = read_version[t] /\ Slot[t] = -1 BY <1>1, <1>2 DEF View, Slot
<1>5. View' = View BY <1>3, <1>4 DEF View
<1>6. View[t] # -1 BY <1>4, SMT DEF TypeOK, TypeObject
<1>7. serial' = [k \in 0..(global_clock + 1) |->
                    serial[IF k <= global_clock THEN k ELSE global_clock]]
  BY <1>1
<1> QED
  BY <1>1, <1>3, <1>4, <1>5, <1>6, <1>7
  DEF Kept, Promise!TakeSlot, Promise!Running, Promise!NoTransaction, View, Slot

\* The commit of an update puts its writes into the history at its slot, and
\* nothing that a committed transaction has read is changed by that.
LEMMA CommitKept ==
    ASSUME TypeOK, Shape, WritesHaveLast, Serializable', NEW t \in Threads,
           \A u \in Threads : u # t => Same(u), Commit(t)
    PROVE  Kept(t)
<1> DEFINE new == [w \in Written(t) |-> LastWrite(t, w)]
<1>1. /\ pc[t] = "validate" /\ ~is_ro[t] /\ pc'[t] = "write" /\ global_clock' = global_clock
      /\ committed_reads' = committed_reads \cup
            {<<write_version[t] - 1, r[1], r[2]>> : r \in observed[t]}
      /\ serial' = [k \in 0..global_clock |->
                       IF k < write_version[t] THEN serial[k]
                       ELSE [w \in Words |-> IF w \in Written(t) THEN LastWrite(t, w)
                                                                 ELSE serial[k][w]]]
  BY DEF Commit, shared, TypeOK, TypeCall
<1>2. Undecided(t) /\ ~Undecided(t)' /\ Slotted(t)
  BY <1>1 DEF Undecided, Slotted, Pending
<1>3. View' = [View EXCEPT ![t] = -1] /\ Slot' = [Slot EXCEPT ![t] = -1]
  BY <1>2, MappingFrame
<1>4. View[t] = read_version[t] /\ Slot[t] = write_version[t] BY <1>2 DEF View, Slot
<1>5. View[t] # -1 BY <1>4, SMT DEF TypeOK, TypeObject
<1>6. Slot[t] # -1 BY <1>2, <1>4, SMT DEF Shape, ShapeOf, TypeOK, TypeShared
<1>7. Written(t) \in SUBSET Words BY WrittenWords DEF TypeOK
<1>8. new \in [Written(t) -> Values] BY LastWriteType DEF TypeOK
<1>9. observed[t] \in SUBSET (Words \X Values) BY DEF TypeOK, TypeHistory
<1>10. serial' = [k \in 0..global_clock |->
                     IF k < Slot[t] THEN serial[k]
                     ELSE [w \in Words |-> IF w \in Written(t) THEN new[w] ELSE serial[k][w]]]
  BY <1>1, <1>4
<1>11. committed_reads' = committed_reads \cup {<<Slot[t] - 1, r[1], r[2]>> : r \in observed[t]}
  BY <1>1, <1>4
<1> HIDE DEF new
<1>12. \E reads \in SUBSET (Words \X Values), written \in SUBSET Words :
       \E n \in [written -> Values] :
          /\ serial' = [k \in 0..global_clock |->
                          IF k < Slot[t] THEN serial[k]
                          ELSE [w \in Words |-> IF w \in written THEN n[w] ELSE serial[k][w]]]
          /\ committed_reads' = committed_reads \cup {<<Slot[t] - 1, r[1], r[2]>> : r \in reads}
  BY <1>7, <1>8, <1>9, <1>10, <1>11, Zenon
<1>13. Promise!Legal' BY DEF Promise!Legal, Serializable
<1>14. Promise!CommitUpdate(t)
  BY <1>1, <1>3, <1>5, <1>6, <1>12, <1>13, Zenon
  DEF Promise!CommitUpdate, Promise!Running, Promise!NoTransaction, Promise!End, View, Slot
<1> QED BY <1>14 DEF Kept

\* A read-only transaction commits its reads behind its read version.
LEMMA EndKept ==
    ASSUME TypeOK, Shape, Serializable', NEW t \in Threads,
           \A u \in Threads : u # t => Same(u), EndReadOnly(t)
    PROVE  Kept(t)
<1> DEFINE reads == IF MaxHistory = 0 THEN {} ELSE observed[t] \ stale[t]
<1>1. /\ pc[t] = "active" /\ is_ro[t] /\ pc'[t] = "idle" /\ write_version[t] = -1
      /\ UNCHANGED <<global_clock, serial>>
      /\ committed_reads' = committed_reads \cup {<<read_version[t], r[1], r[2]>> : r \in reads}
  BY DEF EndReadOnly, CleanUp, shared, TypeOK, TypeCall, Shape, ShapeOf
<1>2. Undecided(t) /\ ~Undecided(t)' BY <1>1 DEF Undecided
<1>3. View' = [View EXCEPT ![t] = -1] /\ Slot' = [Slot EXCEPT ![t] = -1]
  BY <1>2, MappingFrame
<1>4. View[t] = read_version[t] /\ Slot[t] = -1 BY <1>1, <1>2 DEF View, Slot
<1>5. View[t] # -1 BY <1>4, SMT DEF TypeOK, TypeObject
<1>6. reads \in SUBSET (Words \X Values) BY DEF TypeOK, TypeHistory
<1>7. committed_reads' = committed_reads \cup {<<View[t], r[1], r[2]>> : r \in reads}
  BY <1>1, <1>4
<1> HIDE DEF reads
<1>8. Promise!Legal' BY DEF Promise!Legal, Serializable
<1>9. Promise!CommitReadOnly(t)
  BY <1>1, <1>3, <1>4, <1>5, <1>6, <1>7, <1>8, Zenon
  DEF Promise!CommitReadOnly, Promise!Running, Promise!NoTransaction, Promise!End, View, Slot
<1> QED BY <1>9 DEF Kept

\* Every step of a transaction is a step of the promise, or none.
LEMMA StepKept ==
    ASSUME IInv, IInv', NEW t \in Threads, Client(t) \/ Library(t)
    PROVE  Kept(t)
<1>0. /\ TypeOK /\ Shape /\ WritesHaveLast /\ Serializable'
      /\ \A u \in Threads : u # t => Same(u)
  BY OthersSame DEF IInv, CoveredReads, CommittedReads, Serializable
<1> USE DEF shared, object, log, TypeOK, TypeObject, TypeCall, Undecided
<1>1. ASSUME NEW ro \in BOOLEAN, Begin(t, ro) PROVE Kept(t) BY <1>0, <1>1, BeginKept
<1>2. ASSUME NEW w \in Words, ReadOnlyCopy(t, w) \/ ReadWriteAccept(t, w) PROVE Kept(t)
  BY <1>0, <1>2, Stutters DEF ReadOnlyCopy, ReadWriteAccept
<1>3. ASSUME NEW w \in Words, NEW v \in Values, Write(t, w, v) PROVE Kept(t)
  BY <1>0, <1>3, Stutters DEF Write
<1>4. ASSUME \/ ReadOnlyAccept(t) \/ ReadOnlyReject(t) \/ ReadOnlySampleClock(t)
             \/ ReadWriteCopy(t) \/ EndReadWrite(t)
      PROVE  Kept(t)
  BY <1>0, <1>4, Stutters
  DEF ReadOnlyAccept, ReadOnlyReject, ReadOnlySampleClock, ReadWriteCopy, EndReadWrite
<1>5. ASSUME LockSkip(t) \/ LockLoad(t) \/ LockCas(t) \/ Validate(t) PROVE Kept(t)
  BY <1>0, <1>5, Stutters DEF LockSkip, LockLoad, LockCas, Validate
<1>6. ASSUME \/ WriteWord(t) \/ StampVersion(t) \/ WriteBackDone(t) \/ Unlock(t) \/ UnlockSkip(t)
      PROVE  Kept(t)
  BY <1>0, <1>6, Stutters DEF WriteWord, StampVersion, WriteBackDone, Unlock, UnlockSkip
<1>7. ASSUME CleanUp(t), UNCHANGED <<shared, log>> PROVE Kept(t)
  <2>1. pc'[t] = "idle" BY <1>0, <1>7 DEF CleanUp
  <2>2. ~Undecided(t)' BY <2>1
  <2> QED BY <1>0, <1>7, <2>2, Stutters, Aborts
<1>8. ASSUME LockFail(t) \/ ReadWriteInvalid(t) PROVE Kept(t)
  BY <1>0, <1>8, Aborts DEF LockFail, ReadWriteInvalid
<1>9. ASSUME ReadOnlyRetry(t) PROVE Kept(t) BY <1>0, <1>9, RetryKept
<1>10. ASSUME IncrementClock(t) PROVE Kept(t) BY <1>0, <1>10, IncrementKept
<1>11. ASSUME Commit(t) PROVE Kept(t) BY <1>0, <1>11, CommitKept
<1>12. ASSUME EndReadOnly(t) PROVE Kept(t) BY <1>0, <1>12, EndKept
<1> QED
  BY <1>1, <1>2, <1>3, <1>4, <1>5, <1>6, <1>7, <1>8, <1>9, <1>10, <1>11, <1>12, Zenon
  DEF Client, Library, ReadOnlyGiveUp, ReadWriteReject, ReadOnlyInvalid, Finish

\* The transactions keep the promise of SerialTM: those that commit sit in a
\* serial order that respects real time, and no commit disturbs an earlier one.
THEOREM PromiseKept == Spec => KeepsPromise
<1>1. Init => Promise!Init
  BY DEF Init, Promise!Init, Promise!NoTransaction, Undecided
<1>2. IInv /\ IInv' /\ [Next]_vars =>
        [Promise!Next]_<<global_clock, serial, committed_reads, View, Slot>>
  <2> SUFFICES ASSUME IInv, IInv', [Next]_vars
               PROVE  [Promise!Next]_<<global_clock, serial, committed_reads, View, Slot>>
    OBVIOUS
  <2>1. ASSUME NEW t \in Threads, Client(t) \/ Library(t)
        PROVE  [Promise!Next]_<<global_clock, serial, committed_reads, View, Slot>>
    BY <2>1, StepKept DEF Kept, Promise!Next
  <2>2. CASE UNCHANGED vars
    BY <2>2 DEF vars, shared, object, log, View, Slot, Undecided
  <2> QED BY <2>1, <2>2 DEF Next
<1> QED
  BY <1>1, <1>2, Invariant, PTL DEF Spec, KeepsPromise, Promise!Spec, Promise!vars, View, Slot

=============================================================================
