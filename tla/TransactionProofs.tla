-------------------------- MODULE TransactionProofs --------------------------
(***************************************************************************)
(* Proofs about Transaction, one layer of TransactionInvariant at a time:  *)
(* types and shapes, locks.                                                *)
(***************************************************************************)
EXTENDS TransactionInvariant, TLAPS

-----------------------------------------------------------------------------
(* The write set *)

\* The write a loop stands at is a write of a value to a word.
LEMMA CurrentWriteType ==
    ASSUME TypeObject, NEW t \in Threads, index[t] \in Nat \ {0}, index[t] <= Len(write_set[t])
    PROVE  /\ CurrentWrite(t).word \in Words
           /\ CurrentWrite(t).value \in Values
           /\ CurrentWrite(t).word \in Written(t)
<1>1. write_set[t] \in Seq(WriteEntry) BY DEF TypeObject
<1>2. index[t] \in DOMAIN write_set[t] BY <1>1, SMT
<1>3. CurrentWrite(t) \in WriteEntry BY <1>1, <1>2, SMT DEF CurrentWrite
<1>4. CurrentWrite(t).word \in Written(t) BY <1>2 DEF Written, CurrentWrite
<1> QED BY <1>3, <1>4, SMT DEF WriteEntry

\* What is written are words.
LEMMA WrittenWords ==
    ASSUME TypeObject, NEW t \in Threads
    PROVE  Written(t) \subseteq Words
<1>1. write_set[t] \in Seq(WriteEntry) BY DEF TypeObject
<1>2. \A i \in DOMAIN write_set[t] : write_set[t][i] \in WriteEntry BY <1>1, SMT
<1>3. \A i \in DOMAIN write_set[t] : write_set[t][i].word \in Words BY <1>2, SMT DEF WriteEntry
<1> QED BY <1>3 DEF Written

\* A word that is written has a last write, and its value is a value.
LEMMA LastWriteType ==
    ASSUME TypeObject, WritesHaveLast, NEW t \in Threads, NEW w \in Written(t)
    PROVE  LastWrite(t, w) \in Values
<1> DEFINE P(i) == write_set[t][i].word = w /\ IsLastWrite(t, i)
           i == CHOOSE k \in DOMAIN write_set[t] : P(k)
<1>1. i \in DOMAIN write_set[t]
  <2>1. \E k \in DOMAIN write_set[t] : P(k) BY DEF WritesHaveLast
  <2> HIDE DEF P
  <2> QED BY <2>1
<1> HIDE DEF i
<1>2. write_set[t] \in Seq(WriteEntry) BY DEF TypeObject
<1>3. write_set[t][i] \in WriteEntry BY <1>1, <1>2, SMT
<1>4. write_set[t][i].value \in Values BY <1>3, SMT DEF WriteEntry
<1> QED BY <1>4 DEF LastWrite, i

\* A write set that does not change keeps its last writes.
LEMMA WritesFrame ==
    ASSUME WritesHaveLast, write_set' = write_set PROVE WritesHaveLast'
BY DEF WritesHaveLast, Written, IsLastWrite

\* ... nor do those of one thread.
LEMMA WritesSame ==
    ASSUME WritesHaveLast, NEW u \in Threads, write_set'[u] = write_set[u], NEW w \in Written(u)'
    PROVE  \E i \in DOMAIN write_set'[u] : write_set'[u][i].word = w /\ IsLastWrite(u, i)'
BY DEF WritesHaveLast, Written, IsLastWrite

\* A deleted transaction has written nothing.
LEMMA WritesReset ==
    ASSUME WritesHaveLast, TypeObject, NEW t \in Threads,
           write_set' = [write_set EXCEPT ![t] = <<>>]
    PROVE  WritesHaveLast'
<1> SUFFICES ASSUME NEW u \in Threads, NEW w \in Written(u)'
             PROVE  \E i \in DOMAIN write_set'[u] :
                        write_set'[u][i].word = w /\ IsLastWrite(u, i)'
  BY DEF WritesHaveLast
<1>1. CASE u # t
  <2>1. write_set'[u] = write_set[u] BY <1>1 DEF TypeObject
  <2> QED BY <2>1, WritesSame
<1>2. CASE u = t
  <2>1. write_set'[u] = <<>> BY <1>2 DEF TypeObject
  <2> QED BY <2>1, SMT DEF Written
<1> QED BY <1>1, <1>2


\* An appended write is the last of its word, and of no other.
LEMMA AppendHasLast ==
    ASSUME TypeObject, WritesHaveLast, NEW t \in Threads, NEW e \in WriteEntry,
           write_set' = [write_set EXCEPT ![t] = Append(@, e)]
    PROVE  WritesHaveLast'
<1> SUFFICES ASSUME NEW u \in Threads, NEW w \in Written(u)'
             PROVE  \E i \in DOMAIN write_set'[u] :
                        write_set'[u][i].word = w /\ IsLastWrite(u, i)'
  BY DEF WritesHaveLast
<1>1. CASE u # t
  <2>1. write_set'[u] = write_set[u] BY <1>1 DEF TypeObject
  <2> QED BY <2>1, WritesSame
<1>2. CASE u = t
  <2> DEFINE n == Len(write_set[t])
  <2>1. write_set[t] \in Seq(WriteEntry) /\ n \in Nat BY DEF TypeObject
  <2>2. write_set'[t] = Append(write_set[t], e) BY DEF TypeObject
  <2>3. /\ DOMAIN write_set[t] = 1..n
        /\ DOMAIN write_set'[t] = 1..(n + 1)
        /\ write_set'[t][n + 1] = e
        /\ \A i \in 1..n : write_set'[t][i] = write_set[t][i]
    BY <2>1, <2>2, SMT
  <2> HIDE DEF n
  <2>4. CASE e.word = w
    BY <1>2, <2>1, <2>3, <2>4, SMT DEF IsLastWrite
  <2>5. CASE e.word # w
    <3>1. w \in Written(t) BY <1>2, <2>1, <2>3, <2>5, SMT DEF Written
    <3>2. PICK i \in 1..n : write_set[t][i].word = w /\ IsLastWrite(t, i)
      BY <3>1, <2>3 DEF WritesHaveLast
    <3>3. \A j \in 1..(n + 1) : j > i => write_set'[t][j].word # w
      BY <3>2, <2>1, <2>3, <2>5, SMTT(20) DEF IsLastWrite
    <3>4. i \in DOMAIN write_set'[t] /\ write_set'[t][i].word = w BY <3>2, <2>3, <2>1
    <3>5. IsLastWrite(t, i)' BY <3>3, <3>4, <2>3 DEF IsLastWrite
    <3> QED BY <1>2, <3>4, <3>5
  <2> QED BY <2>4, <2>5
<1> QED BY <1>1, <1>2

-----------------------------------------------------------------------------
(* One thread at a time *)

\* The transaction of u is not touched.
Same(u) ==
    /\ pc'[u] = pc[u] /\ is_ro'[u] = is_ro[u]
    /\ read_version'[u] = read_version[u] /\ write_version'[u] = write_version[u]
    /\ read_set'[u] = read_set[u] /\ write_set'[u] = write_set[u]
    /\ locked_set'[u] = locked_set[u]
    /\ index'[u] = index[u] /\ word'[u] = word[u] /\ loaded'[u] = loaded[u]
    /\ observed'[u] = observed[u] /\ stale'[u] = stale[u]

\* A step of one thread leaves the transactions of the others alone.
LEMMA OthersSame ==
   ASSUME TypeOK, NEW t \in Threads, NEW u \in Threads \ {t}, Client(t) \/ Library(t)
   PROVE Same(u)
<1> USE DEF shared, object, locals, log, seen, Same
<1>1. ASSUME NEW ro \in BOOLEAN, Begin(t, ro) PROVE Same(u)
  BY <1>1, SMT DEF TypeOK, TypeObject, TypeCall, TypeHistory, Begin
<1>2. ASSUME NEW w \in Words, ReadOnlyCopy(t, w) PROVE Same(u)
  BY <1>2, SMT DEF TypeOK, TypeObject, TypeCall, TypeHistory, ReadOnlyCopy
<1>3. ASSUME ReadOnlyAccept(t) PROVE Same(u)
  BY <1>3, SMT DEF TypeOK, TypeObject, TypeCall, TypeHistory, ReadOnlyAccept, LeaveRead
<1>4. ASSUME ReadOnlyReject(t) PROVE Same(u)
  BY <1>4, SMT DEF TypeOK, TypeObject, TypeCall, TypeHistory, ReadOnlyReject
<1>5. ASSUME ReadOnlySampleClock(t) PROVE Same(u)
  BY <1>5, SMT DEF TypeOK, TypeObject, TypeCall, TypeHistory, ReadOnlySampleClock, validation_start
<1>6. ASSUME ReadOnlyRetry(t) PROVE Same(u)
  BY <1>6, SMT DEF TypeOK, TypeObject, TypeCall, TypeHistory, ReadOnlyRetry
<1>7. ASSUME ReadOnlyGiveUp(t) PROVE Same(u)
  BY <1>7, SMT DEF TypeOK, TypeObject, TypeCall, TypeHistory, ReadOnlyGiveUp, CleanUp, LeaveRead
<1>8. ASSUME NEW w \in Words, ReadWriteAccept(t, w) PROVE Same(u)
  BY <1>8, SMT DEF TypeOK, TypeObject, TypeCall, TypeHistory, ReadWriteAccept
<1>9. ASSUME NEW w \in Words, ReadWriteReject(t, w) PROVE Same(u)
  BY <1>9, SMT DEF TypeOK, TypeObject, TypeCall, TypeHistory, ReadWriteReject, CleanUp, LeaveRead
<1>10. ASSUME ReadWriteCopy(t) PROVE Same(u)
  BY <1>10, SMT DEF TypeOK, TypeObject, TypeCall, TypeHistory, ReadWriteCopy, LeaveRead
<1>11. ASSUME NEW w \in Words, NEW v \in Values, Write(t, w, v) PROVE Same(u)
  BY <1>11, SMT DEF TypeOK, TypeObject, TypeCall, TypeHistory, Write
<1>12. ASSUME EndReadOnly(t) PROVE Same(u)
  BY <1>12, SMT DEF TypeOK, TypeObject, TypeCall, TypeHistory, EndReadOnly, CleanUp, LeaveRead
<1>13. ASSUME EndReadWrite(t) PROVE Same(u)
  BY <1>13, SMT DEF TypeOK, TypeObject, TypeCall, TypeHistory, EndReadWrite
<1>14. ASSUME LockSkip(t) PROVE Same(u)
  BY <1>14, SMT DEF TypeOK, TypeObject, TypeCall, TypeHistory, LockSkip, CurrentWrite
<1>15. ASSUME LockLoad(t) PROVE Same(u)
  BY <1>15, SMT DEF TypeOK, TypeObject, TypeCall, TypeHistory, LockLoad, CurrentWrite
<1>16. ASSUME LockCas(t) PROVE Same(u)
  BY <1>16, SMT DEF TypeOK, TypeObject, TypeCall, TypeHistory, LockCas, CurrentWrite
<1>17. ASSUME LockFail(t) PROVE Same(u)
  BY <1>17, SMT DEF TypeOK, TypeObject, TypeCall, TypeHistory, LockFail
<1>18. ASSUME IncrementClock(t) PROVE Same(u)
  BY <1>18, SMT DEF TypeOK, TypeObject, TypeCall, TypeHistory, IncrementClock, validation_start
<1>19. ASSUME Validate(t) PROVE Same(u)
  BY <1>19, SMT DEF TypeOK, TypeObject, TypeCall, TypeHistory, Validate
<1>20. ASSUME ReadOnlyInvalid(t) PROVE Same(u)
  BY <1>20, SMT DEF TypeOK, TypeObject, TypeCall, TypeHistory, ReadOnlyInvalid, CleanUp, LeaveRead
<1>21. ASSUME ReadWriteInvalid(t) PROVE Same(u)
  BY <1>21, SMT DEF TypeOK, TypeObject, TypeCall, TypeHistory, ReadWriteInvalid
<1>22. ASSUME Commit(t) PROVE Same(u)
  BY <1>22, SMT DEF TypeOK, TypeObject, TypeCall, TypeHistory, Commit
<1>23. ASSUME WriteWord(t) PROVE Same(u)
  BY <1>23, SMT DEF TypeOK, TypeObject, TypeCall, TypeHistory, WriteWord, CurrentWrite
<1>24. ASSUME StampVersion(t) PROVE Same(u)
  BY <1>24, SMT DEF TypeOK, TypeObject, TypeCall, TypeHistory, StampVersion, CurrentWrite
<1>25. ASSUME WriteBackDone(t) PROVE Same(u)
  BY <1>25, SMT DEF TypeOK, TypeObject, TypeCall, TypeHistory, WriteBackDone
<1>26. ASSUME Unlock(t) PROVE Same(u)
  BY <1>26, SMT DEF TypeOK, TypeObject, TypeCall, TypeHistory, Unlock, CurrentWrite
<1>27. ASSUME UnlockSkip(t) PROVE Same(u)
  BY <1>27, SMT DEF TypeOK, TypeObject, TypeCall, TypeHistory, UnlockSkip, CurrentWrite
<1>28. ASSUME Finish(t) PROVE Same(u)
  BY <1>28, SMT DEF TypeOK, TypeObject, TypeCall, TypeHistory, Finish, CleanUp, LeaveRead
<1> QED
  BY <1>1, <1>2, <1>3, <1>4, <1>5, <1>6, <1>7, <1>8, <1>9, <1>10, <1>11, <1>12, <1>13, <1>14,
     <1>15, <1>16, <1>17, <1>18, <1>19, <1>20, <1>21, <1>22, <1>23, <1>24, <1>25, <1>26,
     <1>27, <1>28 DEF Client, Library


-----------------------------------------------------------------------------
(* Types and shapes *)

\* The initial state.
LEMMA InitShape == Init => TypeOK /\ Shape /\ WritesHaveLast
<1> SUFFICES ASSUME Init PROVE TypeOK /\ Shape /\ WritesHaveLast
  OBVIOUS
<1> USE DEF Init
<1>1. TypeShared BY ValuesAssumption, SMT DEF TypeShared
<1>2. TypeObject BY SMT DEF TypeObject
<1>3. TypeCall BY ValuesAssumption, SMT DEF TypeCall, Locations
<1>4. TypeHistory BY ValuesAssumption, SMT DEF TypeHistory
<1>5. Shape BY SMT DEF Shape, ShapeOf, Slotted, Pending, Decided
<1>6. WritesHaveLast BY SMT DEF WritesHaveLast, Written
<1> QED BY <1>1, <1>2, <1>3, <1>4, <1>5, <1>6 DEF TypeOK

\* The shape of a transaction depends on it and on the clock, which only grows.
LEMMA ShapeFrame ==
    ASSUME TypeOK, NEW u \in Threads, ShapeOf(u), Same(u),
           global_clock' = global_clock \/ global_clock' = global_clock + 1
    PROVE  ShapeOf(u)'
BY SMT DEF ShapeOf, Same, TypeOK, TypeShared, TypeObject, TypeCall, Slotted, Pending, Decided

\* Every step keeps types and shapes.
LEMMA NextShape ==
    ASSUME TypeOK, Shape, WritesHaveLast, NEW t \in Threads, Client(t) \/ Library(t)
    PROVE  TypeOK' /\ Shape' /\ WritesHaveLast'
<1> DEFINE ClockStep == global_clock' = global_clock \/ global_clock' = global_clock + 1
<1> USE DEF Locations, shared, object, locals, log, seen, TypeOK, TypeShared, TypeObject,
            TypeCall, TypeHistory, Shape, ShapeOf, Slotted, Pending, Decided
<1>1. ASSUME NEW ro \in BOOLEAN, Begin(t, ro)
      PROVE  TypeOK' /\ ShapeOf(t)' /\ WritesHaveLast' /\ ClockStep
  <2>1. TypeShared'
    BY <1>1, SMT DEF Begin
  <2>2. TypeObject'
    BY <1>1, SMT DEF Begin
  <2>3. TypeCall'
    BY <1>1, SMT DEF Begin
  <2>4. TypeHistory'
    BY <1>1, SMT DEF Begin
  <2>5. ShapeOf(t)'
    BY <1>1, SMT DEF Begin
  <2>6. WritesHaveLast' BY <1>1, WritesFrame DEF Begin
  <2>7. ClockStep BY <1>1 DEF Begin
  <2> QED BY <2>1, <2>2, <2>3, <2>4, <2>5, <2>6, <2>7
<1>2. ASSUME NEW w \in Words, ReadOnlyCopy(t, w)
      PROVE  TypeOK' /\ ShapeOf(t)' /\ WritesHaveLast' /\ ClockStep
  <2>1. TypeShared'
    BY <1>2, SMT DEF ReadOnlyCopy
  <2>2. TypeObject'
    BY <1>2, SMT DEF ReadOnlyCopy
  <2>3. TypeCall'
    BY <1>2, SMT DEF ReadOnlyCopy
  <2>4. TypeHistory'
    BY <1>2, SMT DEF ReadOnlyCopy
  <2>5. ShapeOf(t)'
    BY <1>2, SMT DEF ReadOnlyCopy
  <2>6. WritesHaveLast' BY <1>2, WritesFrame DEF ReadOnlyCopy
  <2>7. ClockStep BY <1>2 DEF ReadOnlyCopy
  <2> QED BY <2>1, <2>2, <2>3, <2>4, <2>5, <2>6, <2>7
<1>3. ASSUME ReadOnlyAccept(t)
      PROVE  TypeOK' /\ ShapeOf(t)' /\ WritesHaveLast' /\ ClockStep
  <2>1. TypeShared'
    BY <1>3, ValuesAssumption, SMT DEF ReadOnlyAccept, LeaveRead
  <2>2. TypeObject'
    BY <1>3, ValuesAssumption, SMT DEF ReadOnlyAccept, LeaveRead
  <2>3. TypeCall'
    BY <1>3, ValuesAssumption, SMT DEF ReadOnlyAccept, LeaveRead
  <2>4. TypeHistory'
    BY <1>3, ValuesAssumption, SMT DEF ReadOnlyAccept, LeaveRead
  <2>5. ShapeOf(t)'
    BY <1>3, SMT DEF ReadOnlyAccept, LeaveRead
  <2>6. WritesHaveLast' BY <1>3, WritesFrame DEF ReadOnlyAccept
  <2>7. ClockStep BY <1>3 DEF ReadOnlyAccept
  <2> QED BY <2>1, <2>2, <2>3, <2>4, <2>5, <2>6, <2>7
<1>4. ASSUME ReadOnlyReject(t)
      PROVE  TypeOK' /\ ShapeOf(t)' /\ WritesHaveLast' /\ ClockStep
  <2>1. TypeShared'
    BY <1>4, SMT DEF ReadOnlyReject
  <2>2. TypeObject'
    BY <1>4, SMT DEF ReadOnlyReject
  <2>3. TypeCall'
    BY <1>4, SMT DEF ReadOnlyReject
  <2>4. TypeHistory'
    BY <1>4, SMTT(20) DEF ReadOnlyReject
  <2>5. ShapeOf(t)'
    BY <1>4, SMT DEF ReadOnlyReject
  <2>6. WritesHaveLast' BY <1>4, WritesFrame DEF ReadOnlyReject
  <2>7. ClockStep BY <1>4 DEF ReadOnlyReject
  <2> QED BY <2>1, <2>2, <2>3, <2>4, <2>5, <2>6, <2>7
<1>5. ASSUME ReadOnlySampleClock(t)
      PROVE  TypeOK' /\ ShapeOf(t)' /\ WritesHaveLast' /\ ClockStep
  <2>1. TypeShared'
    BY <1>5, SMT DEF ReadOnlySampleClock, validation_start
  <2>2. TypeObject'
    BY <1>5, SMT DEF ReadOnlySampleClock, validation_start
  <2>3. TypeCall'
    BY <1>5, SMT DEF ReadOnlySampleClock, validation_start
  <2>4. TypeHistory'
    BY <1>5, SMT DEF ReadOnlySampleClock, validation_start
  <2>5. ShapeOf(t)'
    BY <1>5, SMT DEF ReadOnlySampleClock, validation_start
  <2>6. WritesHaveLast' BY <1>5, WritesFrame DEF ReadOnlySampleClock
  <2>7. ClockStep BY <1>5 DEF ReadOnlySampleClock
  <2> QED BY <2>1, <2>2, <2>3, <2>4, <2>5, <2>6, <2>7
<1>6. ASSUME ReadOnlyRetry(t)
      PROVE  TypeOK' /\ ShapeOf(t)' /\ WritesHaveLast' /\ ClockStep
  <2>1. TypeShared'
    BY <1>6, SMT DEF ReadOnlyRetry
  <2>2. TypeObject'
    BY <1>6, SMT DEF ReadOnlyRetry
  <2>3. TypeCall'
    BY <1>6, SMTT(20) DEF ReadOnlyRetry
  <2>4. TypeHistory'
    BY <1>6, SMT DEF ReadOnlyRetry
  <2>5. ShapeOf(t)'
    BY <1>6, SMT DEF ReadOnlyRetry
  <2>6. WritesHaveLast' BY <1>6, WritesFrame DEF ReadOnlyRetry
  <2>7. ClockStep BY <1>6 DEF ReadOnlyRetry
  <2> QED BY <2>1, <2>2, <2>3, <2>4, <2>5, <2>6, <2>7
<1>7. ASSUME ReadOnlyGiveUp(t)
      PROVE  TypeOK' /\ ShapeOf(t)' /\ WritesHaveLast' /\ ClockStep
  <2>1. TypeShared'
    BY <1>7, ValuesAssumption, SMT DEF ReadOnlyGiveUp, CleanUp, LeaveRead
  <2>2. TypeObject'
    BY <1>7, ValuesAssumption, SMT DEF ReadOnlyGiveUp, CleanUp, LeaveRead
  <2>3. TypeCall'
    BY <1>7, ValuesAssumption, SMT DEF ReadOnlyGiveUp, CleanUp, LeaveRead
  <2>4. TypeHistory'
    BY <1>7, ValuesAssumption, SMTT(20) DEF ReadOnlyGiveUp, CleanUp, LeaveRead
  <2>5. ShapeOf(t)'
    BY <1>7, SMT DEF ReadOnlyGiveUp, CleanUp, LeaveRead
  <2>6. WritesHaveLast' BY <1>7, WritesReset DEF ReadOnlyGiveUp, CleanUp
  <2>7. ClockStep BY <1>7 DEF ReadOnlyGiveUp
  <2> QED BY <2>1, <2>2, <2>3, <2>4, <2>5, <2>6, <2>7
<1>8. ASSUME NEW w \in Words, ReadWriteAccept(t, w)
      PROVE  TypeOK' /\ ShapeOf(t)' /\ WritesHaveLast' /\ ClockStep
  <2>1. TypeShared'
    BY <1>8, SMT DEF ReadWriteAccept
  <2>2. TypeObject'
    BY <1>8, SMT DEF ReadWriteAccept
  <2>3. TypeCall'
    <3>1. CASE w \in Written(t) BY <1>8, <3>1, SMT DEF ReadWriteAccept
    <3>2. CASE w \notin Written(t)
      <4>1. pc' = [pc EXCEPT ![t] = "rw_copy"] /\ word' = [word EXCEPT ![t] = w]
        BY <1>8, <3>2 DEF ReadWriteAccept
      <4>2. UNCHANGED <<index, value, loaded, retries>> BY <1>8 DEF ReadWriteAccept
      <4> QED BY <4>1, <4>2, SMT
    <3> QED BY <3>1, <3>2
  <2>4. TypeHistory'
    BY <1>8, SMTT(20) DEF ReadWriteAccept
  <2>5. ShapeOf(t)'
    BY <1>8, SMT DEF ReadWriteAccept
  <2>6. WritesHaveLast' BY <1>8, WritesFrame DEF ReadWriteAccept
  <2>7. ClockStep BY <1>8 DEF ReadWriteAccept
  <2> QED BY <2>1, <2>2, <2>3, <2>4, <2>5, <2>6, <2>7
<1>9. ASSUME NEW w \in Words, ReadWriteReject(t, w)
      PROVE  TypeOK' /\ ShapeOf(t)' /\ WritesHaveLast' /\ ClockStep
  <2>1. TypeShared'
    BY <1>9, ValuesAssumption, SMT DEF ReadWriteReject, CleanUp, LeaveRead
  <2>2. TypeObject'
    BY <1>9, ValuesAssumption, SMT DEF ReadWriteReject, CleanUp, LeaveRead
  <2>3. TypeCall'
    BY <1>9, ValuesAssumption, SMT DEF ReadWriteReject, CleanUp, LeaveRead
  <2>4. TypeHistory'
    BY <1>9, ValuesAssumption, SMT DEF ReadWriteReject, CleanUp, LeaveRead
  <2>5. ShapeOf(t)'
    BY <1>9, SMT DEF ReadWriteReject, CleanUp, LeaveRead
  <2>6. WritesHaveLast' BY <1>9, WritesReset DEF ReadWriteReject, CleanUp
  <2>7. ClockStep BY <1>9 DEF ReadWriteReject
  <2> QED BY <2>1, <2>2, <2>3, <2>4, <2>5, <2>6, <2>7
<1>10. ASSUME ReadWriteCopy(t)
      PROVE  TypeOK' /\ ShapeOf(t)' /\ WritesHaveLast' /\ ClockStep
  <2>1. TypeShared'
    BY <1>10, ValuesAssumption, SMT DEF ReadWriteCopy, LeaveRead
  <2>2. TypeObject'
    BY <1>10, ValuesAssumption, SMT DEF ReadWriteCopy, LeaveRead
  <2>3. TypeCall'
    BY <1>10, ValuesAssumption, SMT DEF ReadWriteCopy, LeaveRead
  <2>4. TypeHistory'
    BY <1>10, ValuesAssumption, SMT DEF ReadWriteCopy, LeaveRead
  <2>5. ShapeOf(t)'
    BY <1>10, SMT DEF ReadWriteCopy, LeaveRead
  <2>6. WritesHaveLast' BY <1>10, WritesFrame DEF ReadWriteCopy
  <2>7. ClockStep BY <1>10 DEF ReadWriteCopy
  <2> QED BY <2>1, <2>2, <2>3, <2>4, <2>5, <2>6, <2>7
<1>11. ASSUME NEW w \in Words, NEW v \in Values, Write(t, w, v)
      PROVE  TypeOK' /\ ShapeOf(t)' /\ WritesHaveLast' /\ ClockStep
  <2>0. [word |-> w, value |-> v] \in WriteEntry BY SMT DEF WriteEntry
  <2>1. TypeShared'
    BY <1>11, <2>0, SMT DEF Write
  <2>2. TypeObject'
    BY <1>11, <2>0, SMT DEF Write
  <2>3. TypeCall'
    BY <1>11, <2>0, SMT DEF Write
  <2>4. TypeHistory'
    BY <1>11, <2>0, SMT DEF Write
  <2>5. ShapeOf(t)'
    BY <1>11, <2>0, SMT DEF Write
  <2>6. WritesHaveLast' BY <1>11, <2>0, AppendHasLast DEF Write
  <2>7. ClockStep BY <1>11 DEF Write
  <2> QED BY <2>1, <2>2, <2>3, <2>4, <2>5, <2>6, <2>7
<1>12. ASSUME EndReadOnly(t)
      PROVE  TypeOK' /\ ShapeOf(t)' /\ WritesHaveLast' /\ ClockStep
  <2>1. TypeShared'
    BY <1>12, ValuesAssumption, SMT DEF EndReadOnly, CleanUp, LeaveRead
  <2>2. TypeObject'
    BY <1>12, ValuesAssumption, SMT DEF EndReadOnly, CleanUp, LeaveRead
  <2>3. TypeCall'
    BY <1>12, ValuesAssumption, SMT DEF EndReadOnly, CleanUp, LeaveRead
  <2>4. TypeHistory'
    BY <1>12, ValuesAssumption, SMT DEF EndReadOnly, CleanUp, LeaveRead
  <2>5. ShapeOf(t)'
    BY <1>12, SMT DEF EndReadOnly, CleanUp, LeaveRead
  <2>6. WritesHaveLast' BY <1>12, WritesReset DEF EndReadOnly, CleanUp
  <2>7. ClockStep BY <1>12 DEF EndReadOnly
  <2> QED BY <2>1, <2>2, <2>3, <2>4, <2>5, <2>6, <2>7
<1>13. ASSUME EndReadWrite(t)
      PROVE  TypeOK' /\ ShapeOf(t)' /\ WritesHaveLast' /\ ClockStep
  <2>1. TypeShared'
    BY <1>13, SMT DEF EndReadWrite
  <2>2. TypeObject'
    BY <1>13, SMT DEF EndReadWrite
  <2>3. TypeCall'
    BY <1>13, SMT DEF EndReadWrite
  <2>4. TypeHistory'
    BY <1>13, SMT DEF EndReadWrite
  <2>5. ShapeOf(t)'
    BY <1>13, SMT DEF EndReadWrite
  <2>6. WritesHaveLast' BY <1>13, WritesFrame DEF EndReadWrite
  <2>7. ClockStep BY <1>13 DEF EndReadWrite
  <2> QED BY <2>1, <2>2, <2>3, <2>4, <2>5, <2>6, <2>7
<1>14. ASSUME LockSkip(t)
      PROVE  TypeOK' /\ ShapeOf(t)' /\ WritesHaveLast' /\ ClockStep
  <2>1. TypeShared'
    BY <1>14, SMT DEF LockSkip
  <2>2. TypeObject'
    BY <1>14, SMT DEF LockSkip
  <2>3. TypeCall'
    BY <1>14, SMTT(20) DEF LockSkip
  <2>4. TypeHistory'
    BY <1>14, SMT DEF LockSkip
  <2>5. ShapeOf(t)'
    <3>1. pc[t] \in {"lock", "cas"} /\ ~is_ro[t] /\ write_version[t] = -1 BY <1>14 DEF LockSkip
    <3> QED BY <1>14, <3>1, SMT DEF LockSkip
  <2>6. WritesHaveLast' BY <1>14, WritesFrame DEF LockSkip
  <2>7. ClockStep BY <1>14 DEF LockSkip
  <2> QED BY <2>1, <2>2, <2>3, <2>4, <2>5, <2>6, <2>7
<1>15. ASSUME LockLoad(t)
      PROVE  TypeOK' /\ ShapeOf(t)' /\ WritesHaveLast' /\ ClockStep
  <2>0. CurrentWrite(t).word \in Words /\ CurrentWrite(t).value \in Values
    BY <1>15, CurrentWriteType, SMT DEF LockLoad
  <2>1. TypeShared'
    BY <1>15, <2>0, SMT DEF LockLoad
  <2>2. TypeObject'
    BY <1>15, <2>0, SMT DEF LockLoad
  <2>3. TypeCall'
    BY <1>15, <2>0, SMT DEF LockLoad
  <2>4. TypeHistory'
    BY <1>15, <2>0, SMT DEF LockLoad
  <2>5. ShapeOf(t)'
    <3>1. pc[t] \in {"lock", "cas"} /\ ~is_ro[t] /\ write_version[t] = -1 BY <1>15 DEF LockLoad
    <3> QED BY <1>15, <3>1, SMT DEF LockLoad
  <2>6. WritesHaveLast' BY <1>15, WritesFrame DEF LockLoad
  <2>7. ClockStep BY <1>15 DEF LockLoad
  <2> QED BY <2>1, <2>2, <2>3, <2>4, <2>5, <2>6, <2>7
<1>16. ASSUME LockCas(t)
      PROVE  TypeOK' /\ ShapeOf(t)' /\ WritesHaveLast' /\ ClockStep
  <2>0. CurrentWrite(t).word \in Words /\ CurrentWrite(t).value \in Values
    BY <1>16, CurrentWriteType, SMT DEF LockCas
  <2>1. TypeShared'
    BY <1>16, <2>0, SMT DEF LockCas
  <2>2. TypeObject'
    BY <1>16, <2>0, SMT DEF LockCas
  <2>3. TypeCall'
    BY <1>16, <2>0, SMTT(20) DEF LockCas
  <2>4. TypeHistory'
    BY <1>16, <2>0, SMT DEF LockCas
  <2>5. ShapeOf(t)'
    <3>1. pc[t] \in {"lock", "cas"} /\ ~is_ro[t] /\ write_version[t] = -1 BY <1>16 DEF LockCas
    <3> QED BY <1>16, <3>1, SMT DEF LockCas
  <2>6. WritesHaveLast' BY <1>16, WritesFrame DEF LockCas
  <2>7. ClockStep BY <1>16 DEF LockCas
  <2> QED BY <2>1, <2>2, <2>3, <2>4, <2>5, <2>6, <2>7
<1>17. ASSUME LockFail(t)
      PROVE  TypeOK' /\ ShapeOf(t)' /\ WritesHaveLast' /\ ClockStep
  <2>1. TypeShared'
    BY <1>17, SMT DEF LockFail
  <2>2. TypeObject'
    BY <1>17, SMT DEF LockFail
  <2>3. TypeCall'
    BY <1>17, SMT DEF LockFail
  <2>4. TypeHistory'
    BY <1>17, SMTT(20) DEF LockFail
  <2>5. ShapeOf(t)'
    <3>1. pc[t] \in {"lock", "cas"} /\ ~is_ro[t] /\ write_version[t] = -1 BY <1>17 DEF LockFail
    <3> QED BY <1>17, <3>1, SMT DEF LockFail
  <2>6. WritesHaveLast' BY <1>17, WritesFrame DEF LockFail
  <2>7. ClockStep BY <1>17 DEF LockFail
  <2> QED BY <2>1, <2>2, <2>3, <2>4, <2>5, <2>6, <2>7
<1>18. ASSUME IncrementClock(t)
      PROVE  TypeOK' /\ ShapeOf(t)' /\ WritesHaveLast' /\ ClockStep
  <2>1. TypeShared'
    BY <1>18, SMT DEF IncrementClock, validation_start
  <2>2. TypeObject'
    BY <1>18, SMT DEF IncrementClock, validation_start
  <2>3. TypeCall'
    BY <1>18, SMTT(20) DEF IncrementClock, validation_start
  <2>4. TypeHistory'
    BY <1>18, SMTT(20) DEF IncrementClock, validation_start
  <2>5. ShapeOf(t)'
    BY <1>18, SMTT(20) DEF IncrementClock, validation_start
  <2>6. WritesHaveLast' BY <1>18, WritesFrame DEF IncrementClock
  <2>7. ClockStep BY <1>18 DEF IncrementClock
  <2> QED BY <2>1, <2>2, <2>3, <2>4, <2>5, <2>6, <2>7
<1>19. ASSUME Validate(t)
      PROVE  TypeOK' /\ ShapeOf(t)' /\ WritesHaveLast' /\ ClockStep
  <2>1. TypeShared'
    BY <1>19, SMT DEF Validate
  <2>2. TypeObject'
    BY <1>19, SMT DEF Validate
  <2>3. TypeCall'
    BY <1>19, SMTT(20) DEF Validate
  <2>4. TypeHistory'
    BY <1>19, SMT DEF Validate
  <2>5. ShapeOf(t)'
    BY <1>19, SMT DEF Validate
  <2>6. WritesHaveLast' BY <1>19, WritesFrame DEF Validate
  <2>7. ClockStep BY <1>19 DEF Validate
  <2> QED BY <2>1, <2>2, <2>3, <2>4, <2>5, <2>6, <2>7
<1>20. ASSUME ReadOnlyInvalid(t)
      PROVE  TypeOK' /\ ShapeOf(t)' /\ WritesHaveLast' /\ ClockStep
  <2>1. TypeShared'
    BY <1>20, ValuesAssumption, SMTT(20) DEF ReadOnlyInvalid, CleanUp, LeaveRead
  <2>2. TypeObject'
    BY <1>20, ValuesAssumption, SMTT(20) DEF ReadOnlyInvalid, CleanUp, LeaveRead
  <2>3. TypeCall'
    BY <1>20, ValuesAssumption, SMTT(20) DEF ReadOnlyInvalid, CleanUp, LeaveRead
  <2>4. TypeHistory'
    BY <1>20, ValuesAssumption, SMTT(20) DEF ReadOnlyInvalid, CleanUp, LeaveRead
  <2>5. ShapeOf(t)'
    BY <1>20, SMT DEF ReadOnlyInvalid, CleanUp, LeaveRead
  <2>6. WritesHaveLast' BY <1>20, WritesReset DEF ReadOnlyInvalid, CleanUp
  <2>7. ClockStep BY <1>20 DEF ReadOnlyInvalid
  <2> QED BY <2>1, <2>2, <2>3, <2>4, <2>5, <2>6, <2>7
<1>21. ASSUME ReadWriteInvalid(t)
      PROVE  TypeOK' /\ ShapeOf(t)' /\ WritesHaveLast' /\ ClockStep
  <2>1. TypeShared'
    BY <1>21, SMT DEF ReadWriteInvalid
  <2>2. TypeObject'
    BY <1>21, SMTT(20) DEF ReadWriteInvalid
  <2>3. TypeCall'
    BY <1>21, SMTT(20) DEF ReadWriteInvalid
  <2>4. TypeHistory'
    BY <1>21, SMT DEF ReadWriteInvalid
  <2>5. ShapeOf(t)'
    BY <1>21, SMT DEF ReadWriteInvalid
  <2>6. WritesHaveLast' BY <1>21, WritesFrame DEF ReadWriteInvalid
  <2>7. ClockStep BY <1>21 DEF ReadWriteInvalid
  <2> QED BY <2>1, <2>2, <2>3, <2>4, <2>5, <2>6, <2>7
<1>22. ASSUME Commit(t)
      PROVE  TypeOK' /\ ShapeOf(t)' /\ WritesHaveLast' /\ ClockStep
  <2>0. \A w \in Written(t) : LastWrite(t, w) \in Values BY LastWriteType
  <2>1. TypeShared'
    BY <1>22, <2>0, SMT DEF Commit
  <2>2. TypeObject'
    BY <1>22, <2>0, SMT DEF Commit
  <2>3. TypeCall'
    BY <1>22, <2>0, SMT DEF Commit
  <2>4. TypeHistory'
    BY <1>22, <2>0, SMTT(20) DEF Commit
  <2>5. ShapeOf(t)'
    BY <1>22, <2>0, SMT DEF Commit
  <2>6. WritesHaveLast' BY <1>22, WritesFrame DEF Commit
  <2>7. ClockStep BY <1>22 DEF Commit
  <2> QED BY <2>1, <2>2, <2>3, <2>4, <2>5, <2>6, <2>7
<1>23. ASSUME WriteWord(t)
      PROVE  TypeOK' /\ ShapeOf(t)' /\ WritesHaveLast' /\ ClockStep
  <2>0. CurrentWrite(t).word \in Words /\ CurrentWrite(t).value \in Values
    BY <1>23, CurrentWriteType, SMT DEF WriteWord
  <2>1. TypeShared'
    BY <1>23, <2>0, SMT DEF WriteWord
  <2>2. TypeObject'
    BY <1>23, <2>0, SMT DEF WriteWord
  <2>3. TypeCall'
    BY <1>23, <2>0, SMT DEF WriteWord
  <2>4. TypeHistory'
    BY <1>23, <2>0, SMT DEF WriteWord
  <2>5. ShapeOf(t)'
    BY <1>23, <2>0, SMT DEF WriteWord
  <2>6. WritesHaveLast' BY <1>23, WritesFrame DEF WriteWord
  <2>7. ClockStep BY <1>23 DEF WriteWord
  <2> QED BY <2>1, <2>2, <2>3, <2>4, <2>5, <2>6, <2>7
<1>24. ASSUME StampVersion(t)
      PROVE  TypeOK' /\ ShapeOf(t)' /\ WritesHaveLast' /\ ClockStep
  <2>0. CurrentWrite(t).word \in Words /\ CurrentWrite(t).value \in Values
    BY <1>24, CurrentWriteType, SMT DEF StampVersion
  <2>1. TypeShared'
    BY <1>24, <2>0, SMT DEF StampVersion
  <2>2. TypeObject'
    BY <1>24, <2>0, SMT DEF StampVersion
  <2>3. TypeCall'
    BY <1>24, <2>0, SMT DEF StampVersion
  <2>4. TypeHistory'
    BY <1>24, <2>0, SMT DEF StampVersion
  <2>5. ShapeOf(t)'
    BY <1>24, <2>0, SMT DEF StampVersion
  <2>6. WritesHaveLast' BY <1>24, WritesFrame DEF StampVersion
  <2>7. ClockStep BY <1>24 DEF StampVersion
  <2> QED BY <2>1, <2>2, <2>3, <2>4, <2>5, <2>6, <2>7
<1>25. ASSUME WriteBackDone(t)
      PROVE  TypeOK' /\ ShapeOf(t)' /\ WritesHaveLast' /\ ClockStep
  <2>1. TypeShared'
    BY <1>25, SMT DEF WriteBackDone
  <2>2. TypeObject'
    BY <1>25, SMT DEF WriteBackDone
  <2>3. TypeCall'
    BY <1>25, SMT DEF WriteBackDone
  <2>4. TypeHistory'
    BY <1>25, SMT DEF WriteBackDone
  <2>5. ShapeOf(t)'
    BY <1>25, SMT DEF WriteBackDone
  <2>6. WritesHaveLast' BY <1>25, WritesFrame DEF WriteBackDone
  <2>7. ClockStep BY <1>25 DEF WriteBackDone
  <2> QED BY <2>1, <2>2, <2>3, <2>4, <2>5, <2>6, <2>7
<1>26. ASSUME Unlock(t)
      PROVE  TypeOK' /\ ShapeOf(t)' /\ WritesHaveLast' /\ ClockStep
  <2>0. CurrentWrite(t).word \in Words /\ CurrentWrite(t).value \in Values
    BY <1>26, CurrentWriteType, SMT DEF Unlock
  <2>1. TypeShared'
    BY <1>26, <2>0, SMT DEF Unlock
  <2>2. TypeObject'
    BY <1>26, <2>0, SMT DEF Unlock
  <2>3. TypeCall'
    BY <1>26, <2>0, SMT DEF Unlock
  <2>4. TypeHistory'
    BY <1>26, <2>0, SMT DEF Unlock
  <2>5. ShapeOf(t)'
    BY <1>26, <2>0, SMT DEF Unlock
  <2>6. WritesHaveLast' BY <1>26, WritesFrame DEF Unlock
  <2>7. ClockStep BY <1>26 DEF Unlock
  <2> QED BY <2>1, <2>2, <2>3, <2>4, <2>5, <2>6, <2>7
<1>27. ASSUME UnlockSkip(t)
      PROVE  TypeOK' /\ ShapeOf(t)' /\ WritesHaveLast' /\ ClockStep
  <2>1. TypeShared'
    BY <1>27, SMT DEF UnlockSkip
  <2>2. TypeObject'
    BY <1>27, SMT DEF UnlockSkip
  <2>3. TypeCall'
    BY <1>27, SMT DEF UnlockSkip
  <2>4. TypeHistory'
    BY <1>27, SMT DEF UnlockSkip
  <2>5. ShapeOf(t)'
    BY <1>27, SMT DEF UnlockSkip
  <2>6. WritesHaveLast' BY <1>27, WritesFrame DEF UnlockSkip
  <2>7. ClockStep BY <1>27 DEF UnlockSkip
  <2> QED BY <2>1, <2>2, <2>3, <2>4, <2>5, <2>6, <2>7
<1>28. ASSUME Finish(t)
      PROVE  TypeOK' /\ ShapeOf(t)' /\ WritesHaveLast' /\ ClockStep
  <2>1. TypeShared'
    BY <1>28, ValuesAssumption, SMT DEF Finish, CleanUp, LeaveRead
  <2>2. TypeObject'
    BY <1>28, ValuesAssumption, SMT DEF Finish, CleanUp, LeaveRead
  <2>3. TypeCall'
    BY <1>28, ValuesAssumption, SMT DEF Finish, CleanUp, LeaveRead
  <2>4. TypeHistory'
    BY <1>28, ValuesAssumption, SMT DEF Finish, CleanUp, LeaveRead
  <2>5. ShapeOf(t)'
    BY <1>28, SMT DEF Finish, CleanUp, LeaveRead
  <2>6. WritesHaveLast' BY <1>28, WritesReset DEF Finish, CleanUp
  <2>7. ClockStep BY <1>28 DEF Finish
  <2> QED BY <2>1, <2>2, <2>3, <2>4, <2>5, <2>6, <2>7
<1>29. TypeOK' /\ ShapeOf(t)' /\ WritesHaveLast' /\ ClockStep
  BY <1>1, <1>2, <1>3, <1>4, <1>5, <1>6, <1>7, <1>8, <1>9, <1>10, <1>11, <1>12, <1>13, <1>14,
     <1>15, <1>16, <1>17, <1>18, <1>19, <1>20, <1>21, <1>22, <1>23, <1>24, <1>25, <1>26,
     <1>27, <1>28, Zenon DEF Client, Library
<1>30. ASSUME NEW u \in Threads \ {t} PROVE ShapeOf(u)'
  BY <1>29, <1>30, OthersSame, ShapeFrame DEF Shape
<1>31. \A u \in Threads : ShapeOf(u)'
  <2> TAKE u \in Threads
  <2>1. CASE u = t BY <2>1, <1>29, Zenon
  <2>2. CASE u # t BY <2>2, <1>30, Zenon
  <2> QED BY <2>1, <2>2, Zenon
<1> QED BY <1>29, <1>31, Zenon DEF Shape

\* The same for a step of any thread, or none.
LEMMA NextShapeVars ==
    ASSUME TypeOK, Shape, WritesHaveLast, [Next]_vars
    PROVE  TypeOK' /\ Shape' /\ WritesHaveLast'
<1>1. CASE Next BY <1>1, NextShape DEF Next
<1>2. CASE UNCHANGED vars
  BY <1>2, WritesFrame DEF vars, shared, object, locals, log, seen, TypeOK, TypeShared,
     TypeObject, TypeCall, TypeHistory, Shape, ShapeOf, Slotted, Pending, Decided
<1> QED BY <1>1, <1>2

\* Every variable keeps its type: no version becomes the -1 of a transaction
\* without a slot, and the history has exactly one state per clock value.
THEOREM TypeCorrect == Spec => []TypeOK
<1>1. TypeOK /\ Shape /\ WritesHaveLast /\ [Next]_vars => (TypeOK /\ Shape /\ WritesHaveLast)'
  BY NextShapeVars
<1> QED BY InitShape, <1>1, PTL DEF Spec

-----------------------------------------------------------------------------
(* Locks *)

\* Lock bits and locked sets that do not change stay in agreement.
LEMMA OwnershipFrame ==
    ASSUME LockOwnership, locked' = locked, locked_set' = locked_set PROVE LockOwnership'
BY DEF LockOwnership

\* What a transaction holds depends on that transaction only.
LEMMA ProgressFrame ==
    ASSUME NEW u \in Threads, LockProgress(u), Same(u) PROVE LockProgress(u)'
BY DEF LockProgress, Same, Written, Holds, Pending

\* try_lock takes a word nobody holds.
LEMMA CasOwnership ==
    ASSUME TypeOK, Shape, LockOwnership, NEW t \in Threads, LockCas(t)
    PROVE  LockOwnership'
<1> DEFINE w == CurrentWrite(t).word
<1>1. w \in Words BY CurrentWriteType, SMT DEF LockCas, Shape, ShapeOf, TypeOK, TypeCall
<1>2. /\ locked' = [locked EXCEPT ![w] = TRUE]
      /\ locked_set' = [locked_set EXCEPT ![t] = @ \cup {w}]
      /\ ~locked[w]
  BY DEF LockCas, CasSucceeds
<1> HIDE DEF w
<1>3. /\ locked'[w] = TRUE
      /\ \A x \in Words : x # w => locked'[x] = locked[x]
      /\ locked_set'[t] = locked_set[t] \cup {w}
      /\ \A u \in Threads : u # t => locked_set'[u] = locked_set[u]
  BY <1>1, <1>2 DEF TypeOK, TypeShared, TypeObject
<1>4. \A u \in Threads : w \notin locked_set[u] BY <1>1, <1>2 DEF LockOwnership
<1>5. ASSUME NEW x \in Words PROVE locked'[x] <=> \E u \in Threads : x \in locked_set'[u]
  <2>1. CASE x = w BY <2>1, <1>3
  <2>2. CASE x # w
    <3>1. \A u \in Threads : x \in locked_set'[u] <=> x \in locked_set[u] BY <2>2, <1>3
    <3> QED BY <3>1, <2>2, <1>3 DEF LockOwnership
  <2> QED BY <2>1, <2>2
<1>6. ASSUME NEW u \in Threads, NEW v \in Threads, u # v
      PROVE  locked_set'[u] \cap locked_set'[v] = {}
  BY <1>3, <1>4, <1>6, SMT DEF LockOwnership
<1> QED BY <1>5, <1>6 DEF LockOwnership

\* unlock gives back a word its transaction holds.
LEMMA UnlockOwnership ==
    ASSUME TypeOK, Shape, LockOwnership, NEW t \in Threads, Unlock(t)
    PROVE  LockOwnership'
<1> DEFINE w == CurrentWrite(t).word
<1>1. w \in Words BY CurrentWriteType, SMT DEF Unlock, TypeOK, TypeCall
<1>2. /\ locked' = [locked EXCEPT ![w] = FALSE]
      /\ locked_set' = [locked_set EXCEPT ![t] = @ \ {w}]
      /\ w \in locked_set[t]
  BY DEF Unlock
<1> HIDE DEF w
<1>3. /\ locked'[w] = FALSE
      /\ \A x \in Words : x # w => locked'[x] = locked[x]
      /\ locked_set'[t] = locked_set[t] \ {w}
      /\ \A u \in Threads : u # t => locked_set'[u] = locked_set[u]
  BY <1>1, <1>2 DEF TypeOK, TypeShared, TypeObject
<1>4. \A u \in Threads : u # t => w \notin locked_set[u] BY <1>1, <1>2 DEF LockOwnership
<1>5. ASSUME NEW x \in Words PROVE locked'[x] <=> \E u \in Threads : x \in locked_set'[u]
  <2>1. CASE x = w BY <2>1, <1>3, <1>4
  <2>2. CASE x # w
    <3>1. \A u \in Threads : x \in locked_set'[u] <=> x \in locked_set[u] BY <2>2, <1>3
    <3> QED BY <3>1, <2>2, <1>3 DEF LockOwnership
  <2> QED BY <2>1, <2>2
<1>6. ASSUME NEW u \in Threads, NEW v \in Threads, u # v
      PROVE  locked_set'[u] \cap locked_set'[v] = {}
  BY <1>3, <1>6, SMT DEF LockOwnership
<1> QED BY <1>5, <1>6 DEF LockOwnership

\* A word that has been locked is a word that is written.
LEMMA CasProgress ==
    ASSUME TypeOK, Shape, Locks, NEW t \in Threads, LockCas(t)
    PROVE  LockProgress(t)'
<1> DEFINE w == CurrentWrite(t).word
<1>1. w \in Words /\ w \in Written(t)
  BY CurrentWriteType, SMT DEF LockCas, Shape, ShapeOf, TypeOK, TypeCall
<1>2. /\ pc[t] = "cas" /\ pc'[t] = "lock" /\ ~is_ro[t] /\ is_ro'[t] = is_ro[t]
      /\ index'[t] = index[t] + 1 /\ index[t] \in Nat
      /\ locked_set'[t] = locked_set[t] \cup {w}
      /\ write_set' = write_set
      /\ w = write_set[t][index[t]].word
  <2> HIDE DEF w
  <2>1. pc[t] = "cas" /\ pc'[t] = "lock" BY DEF LockCas, TypeOK, TypeCall
  <2>2. ~is_ro[t] /\ is_ro' = is_ro BY <2>1 DEF Shape, ShapeOf, LockCas, TypeOK, TypeObject
  <2>3. index'[t] = index[t] + 1 /\ index[t] \in Nat BY SMT DEF LockCas, TypeOK, TypeCall
  <2>4. locked_set'[t] = locked_set[t] \cup {w} BY DEF w, LockCas, TypeOK, TypeObject
  <2> QED BY <2>1, <2>2, <2>3, <2>4 DEF w, LockCas, CurrentWrite
<1>3. /\ locked_set[t] \subseteq Written(t)
      /\ \A i \in DOMAIN write_set[t] : i < index[t] => write_set[t][i].word \in locked_set[t]
      /\ DOMAIN write_set[t] \subseteq Nat
  BY <1>2, SMT DEF Locks, LockProgress, Holds, TypeOK, TypeObject
<1> HIDE DEF w
<1>4. Written(t)' = Written(t) BY <1>2 DEF Written
<1>5. \A i \in DOMAIN write_set[t] : i < index'[t] => write_set[t][i].word \in locked_set'[t]
  BY <1>2, <1>3, SMT
<1> QED BY <1>1, <1>2, <1>3, <1>4, <1>5 DEF LockProgress, Holds, Pending

\* Once unlock_write_set has passed the whole write set no lock is left.
LEMMA NothingHeld ==
    ASSUME TypeOK, Shape, Locks, NEW t \in Threads, index[t] > Len(write_set[t]), 
           pc[t] \in {"release", "rollback"}
    PROVE  locked_set[t] = {}
<1>1. write_set[t] \in Seq(WriteEntry) /\ index[t] \in Nat BY DEF TypeOK, TypeObject, TypeCall
<1>2. \A i \in DOMAIN write_set[t] : i < index[t] BY <1>1, SMT
<1> QED BY <1>2, SMT DEF Locks, LockProgress, Holds, Written

\* A transaction that holds nothing can be deleted.
LEMMA CleanUpOwnership ==
    ASSUME TypeOK, LockOwnership, NEW t \in Threads, CleanUp(t), locked_set[t] = {}, locked' = locked
    PROVE  LockOwnership'
<1>1. locked_set' = locked_set BY DEF CleanUp, TypeOK, TypeObject
<1> QED BY <1>1, OwnershipFrame

\* Every step keeps what a transaction holds.
LEMMA NextLocks ==
    ASSUME TypeOK, Shape, Locks, NEW t \in Threads, Client(t) \/ Library(t)
    PROVE  Locks'
<1> USE DEF shared, object, locals, TypeOK, TypeShared, TypeObject,
            TypeCall, Shape, ShapeOf, Pending, Locations
<1>1. ASSUME NEW ro \in BOOLEAN, Begin(t, ro)
      PROVE  LockOwnership' /\ LockProgress(t)'
  <2>1. LockOwnership' BY <1>1, OwnershipFrame DEF Locks, Begin
  <2>2. LockProgress(t)'
    BY <1>1, SMT DEF Locks, LockProgress, Holds, Written, Begin
  <2> QED BY <2>1, <2>2
<1>2. ASSUME NEW w \in Words, ReadOnlyCopy(t, w)
      PROVE  LockOwnership' /\ LockProgress(t)'
  <2>1. LockOwnership' BY <1>2, OwnershipFrame DEF Locks, ReadOnlyCopy
  <2>2. LockProgress(t)'
    BY <1>2, SMT DEF Locks, LockProgress, Holds, Written, ReadOnlyCopy
  <2> QED BY <2>1, <2>2
<1>3. ASSUME ReadOnlyAccept(t)
      PROVE  LockOwnership' /\ LockProgress(t)'
  <2>1. LockOwnership' BY <1>3, OwnershipFrame DEF Locks, ReadOnlyAccept, LeaveRead
  <2>2. LockProgress(t)'
    BY <1>3, SMT DEF Locks, LockProgress, Holds, Written, ReadOnlyAccept, LeaveRead
  <2> QED BY <2>1, <2>2
<1>4. ASSUME ReadOnlyReject(t)
      PROVE  LockOwnership' /\ LockProgress(t)'
  <2>1. LockOwnership' BY <1>4, OwnershipFrame DEF Locks, ReadOnlyReject
  <2>2. LockProgress(t)'
    BY <1>4, SMT DEF Locks, LockProgress, Holds, Written, ReadOnlyReject
  <2> QED BY <2>1, <2>2
<1>5. ASSUME ReadOnlySampleClock(t)
      PROVE  LockOwnership' /\ LockProgress(t)'
  <2>1. LockOwnership' BY <1>5, OwnershipFrame DEF Locks, ReadOnlySampleClock, validation_start
  <2>2. LockProgress(t)'
    BY <1>5, SMT DEF Locks, LockProgress, Holds, Written, ReadOnlySampleClock, validation_start
  <2> QED BY <2>1, <2>2
<1>6. ASSUME ReadOnlyRetry(t)
      PROVE  LockOwnership' /\ LockProgress(t)'
  <2>1. LockOwnership' BY <1>6, OwnershipFrame DEF Locks, ReadOnlyRetry
  <2>2. LockProgress(t)'
    BY <1>6, SMT DEF Locks, LockProgress, Holds, Written, ReadOnlyRetry
  <2> QED BY <2>1, <2>2
<1>7. ASSUME ReadOnlyGiveUp(t)
      PROVE  LockOwnership' /\ LockProgress(t)'
  <2>0. locked_set[t] = {} BY <1>7 DEF Locks, LockProgress, ReadOnlyGiveUp
  <2>1. LockOwnership' BY <1>7, <2>0, CleanUpOwnership DEF Locks, ReadOnlyGiveUp
  <2>2. LockProgress(t)'
    BY <1>7, SMT DEF Locks, LockProgress, Holds, Written, ReadOnlyGiveUp, CleanUp, LeaveRead
  <2> QED BY <2>1, <2>2
<1>8. ASSUME NEW w \in Words, ReadWriteAccept(t, w)
      PROVE  LockOwnership' /\ LockProgress(t)'
  <2>1. LockOwnership' BY <1>8, OwnershipFrame DEF Locks, ReadWriteAccept
  <2>2. LockProgress(t)'
    BY <1>8, SMT DEF Locks, LockProgress, Holds, Written, ReadWriteAccept
  <2> QED BY <2>1, <2>2
<1>9. ASSUME NEW w \in Words, ReadWriteReject(t, w)
      PROVE  LockOwnership' /\ LockProgress(t)'
  <2>0. locked_set[t] = {} BY <1>9 DEF Locks, LockProgress, ReadWriteReject
  <2>1. LockOwnership' BY <1>9, <2>0, CleanUpOwnership DEF Locks, ReadWriteReject
  <2>2. LockProgress(t)'
    BY <1>9, SMT DEF Locks, LockProgress, Holds, Written, ReadWriteReject, CleanUp, LeaveRead
  <2> QED BY <2>1, <2>2
<1>10. ASSUME ReadWriteCopy(t)
      PROVE  LockOwnership' /\ LockProgress(t)'
  <2>1. LockOwnership' BY <1>10, OwnershipFrame DEF Locks, ReadWriteCopy, LeaveRead
  <2>2. LockProgress(t)'
    BY <1>10, SMT DEF Locks, LockProgress, Holds, Written, ReadWriteCopy, LeaveRead
  <2> QED BY <2>1, <2>2
<1>11. ASSUME NEW w \in Words, NEW v \in Values, Write(t, w, v)
      PROVE  LockOwnership' /\ LockProgress(t)'
  <2>1. LockOwnership' BY <1>11, OwnershipFrame DEF Locks, Write
  <2>2. LockProgress(t)'
    BY <1>11, SMT DEF Locks, LockProgress, Holds, Written, Write
  <2> QED BY <2>1, <2>2
<1>12. ASSUME EndReadOnly(t)
      PROVE  LockOwnership' /\ LockProgress(t)'
  <2>0. locked_set[t] = {} BY <1>12 DEF Locks, LockProgress, EndReadOnly
  <2>1. LockOwnership' BY <1>12, <2>0, CleanUpOwnership DEF Locks, EndReadOnly
  <2>2. LockProgress(t)'
    BY <1>12, SMT DEF Locks, LockProgress, Holds, Written, EndReadOnly, CleanUp, LeaveRead
  <2> QED BY <2>1, <2>2
<1>13. ASSUME EndReadWrite(t)
      PROVE  LockOwnership' /\ LockProgress(t)'
  <2>1. LockOwnership' BY <1>13, OwnershipFrame DEF Locks, EndReadWrite
  <2>2. LockProgress(t)'
    BY <1>13, SMT DEF Locks, LockProgress, Holds, Written, EndReadWrite
  <2> QED BY <2>1, <2>2
<1>14. ASSUME LockSkip(t)
      PROVE  LockOwnership' /\ LockProgress(t)'
  <2>1. LockOwnership' BY <1>14, OwnershipFrame DEF Locks, LockSkip, CurrentWrite
  <2>2. LockProgress(t)'
    BY <1>14, SMT DEF Locks, LockProgress, Holds, Written, LockSkip, CurrentWrite
  <2> QED BY <2>1, <2>2
<1>15. ASSUME LockLoad(t)
      PROVE  LockOwnership' /\ LockProgress(t)'
  <2>1. LockOwnership' BY <1>15, OwnershipFrame DEF Locks, LockLoad, CurrentWrite
  <2>2. LockProgress(t)'
    BY <1>15, SMT DEF Locks, LockProgress, Holds, Written, LockLoad, CurrentWrite
  <2> QED BY <2>1, <2>2
<1>16. ASSUME LockCas(t)
      PROVE  LockOwnership' /\ LockProgress(t)'
  BY <1>16, CasOwnership, CasProgress DEF Locks
<1>17. ASSUME LockFail(t)
      PROVE  LockOwnership' /\ LockProgress(t)'
  <2>1. LockOwnership' BY <1>17, OwnershipFrame DEF Locks, LockFail
  <2>2. LockProgress(t)'
    BY <1>17, SMT DEF Locks, LockProgress, Holds, Written, LockFail
  <2> QED BY <2>1, <2>2
<1>18. ASSUME IncrementClock(t)
      PROVE  LockOwnership' /\ LockProgress(t)'
  <2>1. LockOwnership' BY <1>18, OwnershipFrame DEF Locks, IncrementClock, validation_start
  <2>2. LockProgress(t)'
    BY <1>18, SMT DEF Locks, LockProgress, Holds, Written, IncrementClock, validation_start
  <2> QED BY <2>1, <2>2
<1>19. ASSUME Validate(t)
      PROVE  LockOwnership' /\ LockProgress(t)'
  <2>1. LockOwnership' BY <1>19, OwnershipFrame DEF Locks, Validate
  <2>2. LockProgress(t)'
    BY <1>19, SMT DEF Locks, LockProgress, Holds, Written, Validate
  <2> QED BY <2>1, <2>2
<1>20. ASSUME ReadOnlyInvalid(t)
      PROVE  LockOwnership' /\ LockProgress(t)'
  <2>0. locked_set[t] = {} BY <1>20 DEF Locks, LockProgress, ReadOnlyInvalid
  <2>1. LockOwnership' BY <1>20, <2>0, CleanUpOwnership DEF Locks, ReadOnlyInvalid
  <2>2. LockProgress(t)'
    BY <1>20, SMT DEF Locks, LockProgress, Holds, Written, ReadOnlyInvalid, CleanUp, LeaveRead
  <2> QED BY <2>1, <2>2
<1>21. ASSUME ReadWriteInvalid(t)
      PROVE  LockOwnership' /\ LockProgress(t)'
  <2>1. LockOwnership' BY <1>21, OwnershipFrame DEF Locks, ReadWriteInvalid
  <2>2. LockProgress(t)'
    BY <1>21, SMT DEF Locks, LockProgress, Holds, Written, ReadWriteInvalid
  <2> QED BY <2>1, <2>2
<1>22. ASSUME Commit(t)
      PROVE  LockOwnership' /\ LockProgress(t)'
  <2>1. LockOwnership' BY <1>22, OwnershipFrame DEF Locks, Commit
  <2>2. LockProgress(t)'
    BY <1>22, SMT DEF Locks, LockProgress, Holds, Written, Commit
  <2> QED BY <2>1, <2>2
<1>23. ASSUME WriteWord(t)
      PROVE  LockOwnership' /\ LockProgress(t)'
  <2>1. LockOwnership' BY <1>23, OwnershipFrame DEF Locks, WriteWord, CurrentWrite
  <2>2. LockProgress(t)'
    BY <1>23, SMT DEF Locks, LockProgress, Holds, Written, WriteWord, CurrentWrite
  <2> QED BY <2>1, <2>2
<1>24. ASSUME StampVersion(t)
      PROVE  LockOwnership' /\ LockProgress(t)'
  <2>1. LockOwnership' BY <1>24, OwnershipFrame DEF Locks, StampVersion, CurrentWrite
  <2>2. LockProgress(t)'
    BY <1>24, SMT DEF Locks, LockProgress, Holds, Written, StampVersion, CurrentWrite
  <2> QED BY <2>1, <2>2
<1>25. ASSUME WriteBackDone(t)
      PROVE  LockOwnership' /\ LockProgress(t)'
  <2>1. LockOwnership' BY <1>25, OwnershipFrame DEF Locks, WriteBackDone
  <2>2. LockProgress(t)'
    BY <1>25, SMT DEF Locks, LockProgress, Holds, Written, WriteBackDone
  <2> QED BY <2>1, <2>2
<1>26. ASSUME Unlock(t)
      PROVE  LockOwnership' /\ LockProgress(t)'
  <2>1. LockOwnership' BY <1>26, UnlockOwnership DEF Locks
  <2>2. LockProgress(t)'
    BY <1>26, SMTT(20) DEF Locks, LockProgress, Holds, Written, Unlock, CurrentWrite
  <2> QED BY <2>1, <2>2
<1>27. ASSUME UnlockSkip(t)
      PROVE  LockOwnership' /\ LockProgress(t)'
  <2>1. LockOwnership' BY <1>27, OwnershipFrame DEF Locks, UnlockSkip, CurrentWrite
  <2>2. LockProgress(t)'
    BY <1>27, SMTT(20) DEF Locks, LockProgress, Holds, Written, UnlockSkip, CurrentWrite
  <2> QED BY <2>1, <2>2
<1>28. ASSUME Finish(t)
      PROVE  LockOwnership' /\ LockProgress(t)'
  <2>0. locked_set[t] = {} BY <1>28, NothingHeld DEF Finish
  <2>1. LockOwnership' BY <1>28, <2>0, CleanUpOwnership DEF Locks, Finish
  <2>2. LockProgress(t)'
    BY <1>28, SMT DEF Locks, LockProgress, Holds, Written, Finish, CleanUp, LeaveRead
  <2> QED BY <2>1, <2>2
<1>29. ASSUME NEW u \in Threads \ {t} PROVE LockProgress(u)'
  BY <1>29, OthersSame, ProgressFrame DEF Locks
<1> QED
  BY <1>1, <1>2, <1>3, <1>4, <1>5, <1>6, <1>7, <1>8, <1>9, <1>10, <1>11, <1>12, <1>13, <1>14,
     <1>15, <1>16, <1>17, <1>18, <1>19, <1>20, <1>21, <1>22, <1>23, <1>24, <1>25, <1>26,
     <1>27, <1>28, <1>29 DEF Client, Library, Locks

\* The same for a step of any thread, or none.
LEMMA NextLocksVars ==
    ASSUME TypeOK, Shape, Locks, [Next]_vars
    PROVE  Locks'
<1>1. CASE Next BY <1>1, NextLocks DEF Next
<1>2. CASE UNCHANGED vars
  <2>1. ASSUME NEW u \in Threads PROVE Same(u) BY <1>2 DEF vars, object, locals, seen, Same
  <2>2. LockOwnership' BY <1>2, OwnershipFrame DEF vars, shared, object, Locks
  <2> QED BY <2>1, <2>2, ProgressFrame DEF Locks
<1> QED BY <1>1, <1>2

\* Initially no lock is held.
LEMMA InitLocks == Init => Locks
BY SMT DEF Init, Locks, LockOwnership, LockProgress, Holds, Written, Pending

\* A lock bit is set exactly while one live transaction counts the word in its
\* locked_set: whatever the order of writes, failures and unlocks, none is
\* leaked and none is released by anybody else.
THEOREM LocksOwned == Spec => []LockOwnership
<1> DEFINE Inv == TypeOK /\ Shape /\ WritesHaveLast /\ Locks
<1>1. Init => Inv BY InitShape, InitLocks
<1>2. Inv /\ [Next]_vars => Inv' BY NextShapeVars, NextLocksVars
<1>3. Inv => LockOwnership BY DEF Locks
<1> QED BY <1>1, <1>2, <1>3, PTL DEF Spec

=============================================================================
