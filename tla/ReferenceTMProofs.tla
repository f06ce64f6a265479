-------------------------- MODULE ReferenceTMProofs --------------------------
(***************************************************************************)
(* Proofs about ReferenceTM: it implements the promise of SerialTM, as the *)
(* transactions of 358982 do, and the list of what transactions have       *)
(* allocated holds every node once, linked to its neighbours.              *)
(***************************************************************************)
EXTENDS ReferenceTM, FiniteSetTheorems, TLAPS

USE ValuesAssumption, NullAssumption, SegmentsAssumption

-----------------------------------------------------------------------------
(* The inductive invariant *)

\* What TypeOK leaves open: the history is as long as the clock says, and what a
\* transaction has written are values.
Types ==
    /\ TypeOK
    /\ \E n \in Nat : DOMAIN serial = 0..n
    /\ DOMAIN writes = Threads
    /\ \A t \in Threads : writes[t] \in [DOMAIN writes[t] -> Values]

\* The lock is held by the transactions that run, and who runs none has no view.
LockHeld ==
    /\ readers = {t \in Threads : tx[t] = "read_only_tx"}
    /\ writer = {t \in Threads : tx[t] = "read_write_tx"}
    /\ \A t \in Threads : view[t] = -1 <=> tx[t] = "none"
    /\ \A t \in Threads : tx[t] = "read_only_tx" => view[t] = updates
    /\ \A t \in Threads : ~Runs(t) => reads[t] = {} /\ DOMAIN writes[t] = {}
    /\ \A t \in Threads : tx[t] = "read_only_tx" => DOMAIN writes[t] = {}
    /\ region # "open" => \A t \in Threads : tx[t] = "none"

\* Memory is the last serial state, but for what the writer has written in place.
InPlace ==
    /\ writer = Nobody => memory = serial[updates]
    /\ \A t \in writer :
          /\ updates > 0
          /\ serial[updates] = serial[updates - 1]
          /\ \A w \in Words : memory[w] = IF w \in DOMAIN writes[t] THEN writes[t][w]
                                                                     ELSE serial[updates][w]

\* A transaction has read from the state behind which it stands.
ReadsBehind ==
    \A t \in Threads : \A r \in reads[t] :
        serial[IF t \in writer THEN updates - 1 ELSE updates][r[1]] = r[2]

\* What is committed is legal, and behind the slot of the writer.
Committed ==
    \A r \in committed_reads :
        /\ r[1] \in 0..updates
        /\ writer # Nobody => r[1] < updates
        /\ serial[r[1]][r[2]] = r[3]

\* The inductive invariant behind KeepsPromise.
SerialInv == Types /\ LockHeld /\ InPlace /\ ReadsBehind /\ Committed

-----------------------------------------------------------------------------
(* The clock *)

\* A history of n + 1 states is n updates long.
LEMMA UpdatesOf ==
    ASSUME NEW n \in Nat, DOMAIN serial = 0..n
    PROVE  updates = n
<1>1. 0 \in Int /\ n \in Int /\ n - 0 + 1 = n + 1 /\ ~(0 > n) OBVIOUS
<1>2. Cardinality(0..n) = n + 1 BY <1>1, FS_Interval
<1> QED BY <1>2 DEF updates

\* The clock is a number, and the history has its states up to there.
LEMMA UpdatesType ==
    ASSUME Types
    PROVE  updates \in Nat /\ DOMAIN serial = 0..updates
BY UpdatesOf DEF Types

\* A step that leaves the length of the history leaves the clock.
LEMMA UpdatesKept ==
    ASSUME Types, DOMAIN serial' = DOMAIN serial
    PROVE  updates' = updates
BY DEF updates

\* The writer that gets the lock adds a state to the history.
LEMMA AcquireHistory ==
    ASSUME Types, InPlace, NEW t \in Threads, Acquire(t)
    PROVE  /\ DOMAIN serial' = 0..(updates + 1)
           /\ updates' = updates + 1
           /\ \A k \in 0..updates : serial'[k] = serial[k]
           /\ serial'[updates + 1] = serial[updates] /\ memory = serial[updates]
<1>1. updates \in Nat BY UpdatesType
<1>2. serial' = [k \in 0..(updates + 1) |-> IF k <= updates THEN serial[k] ELSE memory]
  BY DEF Acquire
<1>3. memory = serial[updates] BY DEF Acquire, InPlace
<1>4. updates' = updates + 1
  <2>1. updates + 1 \in Nat /\ DOMAIN serial' = 0..(updates + 1) BY <1>1, <1>2
  <2>2. 0 \in Int /\ updates + 1 \in Int /\ (updates + 1) - 0 + 1 = updates + 2 /\ ~(0 > updates + 1)
    BY <1>1
  <2>3. Cardinality(0..(updates + 1)) = updates + 2 BY <2>2, FS_Interval
  <2>4. updates' = Cardinality(DOMAIN serial') - 1 BY DEF updates
  <2> QED BY <1>1, <2>1, <2>3, <2>4
<1> QED BY <1>1, <1>2, <1>3, <1>4

-----------------------------------------------------------------------------
(* Types *)

\* Every variable keeps its type.
LEMMA NextTypes ==
    ASSUME Types, LockHeld, InPlace, [Next]_vars
    PROVE  Types'
<1> USE DEF Go, lists, history, Nobody
<1>0. /\ updates \in Nat /\ DOMAIN serial = 0..updates
      /\ TypeOK /\ \A t \in Threads : writes[t] \in [DOMAIN writes[t] -> Values]
      /\ DOMAIN writes = Threads
  BY UpdatesType DEF Types
<1>1. ASSUME serial' = serial PROVE updates' = updates BY <1>1 DEF updates
<1>2. ASSUME UNCHANGED <<readers, writer, memory, tx, reads, writes, history>>,
             allocs' \in Segments \cup {NULL}, allocated' \subseteq Segments,
             prev' \in [Segments -> Segments \cup {NULL}],
             next' \in [Segments -> Segments \cup {NULL}],
             region' \in {"open", "closing", "closed"}
      PROVE  Types'
  BY <1>1, <1>2 DEF Types, TypeOK
<1>3. ASSUME NEW t \in Threads, NEW kind \in {"wait_ro", "wait_rw"}, Begin(t, kind) PROVE Types'
  <2>1. updates' = updates BY <1>1, <1>3 DEF Begin
  <2>2. updates \in -1..updates BY <1>0
  <2> QED BY <1>0, <1>3, <2>1, <2>2 DEF Begin, Types, TypeOK
<1>4. ASSUME NEW t \in Threads, AcquireShared(t) PROVE Types'
  <2>1. updates' = updates BY <1>1, <1>4 DEF AcquireShared
  <2>2. updates \in -1..updates BY <1>0
  <2> QED BY <1>0, <1>4, <2>1, <2>2 DEF AcquireShared, Types, TypeOK
<1>5. ASSUME NEW t \in Threads, Acquire(t) PROVE Types'
  <2>1. updates' = updates + 1 /\ DOMAIN serial' = 0..(updates + 1)
    BY <1>5, AcquireHistory
  <2>2. serial' \in [0..(updates + 1) -> [Words -> Values]]
    BY <1>0, <1>5 DEF Acquire, TypeOK
  <2>3. committed_reads' \subseteq (0..(updates + 1)) \X Words \X Values
    <3>1. 0..updates \subseteq 0..(updates + 1) BY <1>0
    <3> QED BY <1>0, <1>5, <3>1 DEF Acquire, TypeOK
  <2>4. view' \in [Threads -> -1..(updates + 1)]
    <3>1. -1..updates \subseteq -1..(updates + 1) BY <1>0
    <3> QED BY <1>0, <1>5, <3>1 DEF Acquire, TypeOK
  <2>5. updates + 1 \in Nat BY <1>0
  <2>6. /\ readers' \subseteq Threads /\ writer' \in {Nobody} \cup {{u} : u \in Threads}
        /\ Nobody \in {readers', writer'}
        /\ tx' \in [Threads -> {"none", "wait_ro", "wait_rw", "read_only_tx", "read_write_tx"}]
        /\ UNCHANGED <<memory, allocs, allocated, prev, next, region, reads, writes>>
    BY <1>0, <1>5 DEF Acquire, TypeOK
  <2> QED BY <1>0, <2>1, <2>2, <2>3, <2>4, <2>5, <2>6 DEF Types, TypeOK
<1>6. ASSUME NEW t \in Threads, Refuse(t) PROVE Types'
  <2>1. updates' = updates BY <1>1, <1>6 DEF Refuse
  <2>2. -1 \in -1..updates BY <1>0
  <2> QED BY <1>0, <1>6, <2>1, <2>2 DEF Refuse, Types, TypeOK
<1>7. ASSUME NEW t \in Threads, NEW w \in Words, tm_read(t, w) PROVE Types'
  <2>1. updates' = updates BY <1>1, <1>7 DEF tm_read
  <2> QED BY <1>0, <1>7, <2>1 DEF tm_read, Types, TypeOK
<1>8. ASSUME NEW t \in Threads, NEW w \in Words, NEW v \in Values, tm_write(t, w, v) PROVE Types'
  <2>1. updates' = updates BY <1>1, <1>8 DEF tm_write
  <2>2. \A u \in Threads : DOMAIN writes'[u] \subseteq Words /\ writes'[u] \in [DOMAIN writes'[u] -> Values]
    BY <1>0, <1>8 DEF tm_write, TypeOK
  <2> QED BY <1>0, <1>8, <2>1, <2>2 DEF tm_write, Types, TypeOK
<1>9. ASSUME NEW t \in Threads, NEW s \in Segments, tm_alloc(t, s) \/ tm_free(t, s) PROVE Types'
  <2>1. CASE tm_alloc(t, s) BY <1>0, <1>2, <2>1 DEF tm_alloc, TypeOK
  <2>2. CASE tm_free(t, s)
    <3>1. next' \in [Segments -> Segments \cup {NULL}] /\ prev' \in [Segments -> Segments \cup {NULL}]
      BY <1>0, <2>2 DEF tm_free, TypeOK
    <3> QED BY <1>0, <1>2, <2>2, <3>1 DEF tm_free, TypeOK
  <2> QED BY <1>9, <2>1, <2>2
<1>10. ASSUME NEW t \in Threads, NEW k \in 0..updates, CommitReads(t, k), Over(t),
              DOMAIN serial' = DOMAIN serial, serial' \in [0..updates -> [Words -> Values]],
              readers' \subseteq Threads, writer' \in {writer, Nobody}, Nobody \in {readers', writer'},
              UNCHANGED <<memory, lists, region>>
       PROVE  Types'
  <2>1. updates' = updates BY <1>10 DEF updates
  <2>2. committed_reads' \subseteq (0..updates) \X Words \X Values
    BY <1>0, <1>10 DEF CommitReads, TypeOK
  <2>3. -1 \in -1..updates BY <1>0
  <2>4. \A u \in Threads : DOMAIN writes'[u] \subseteq Words /\ writes'[u] \in [DOMAIN writes'[u] -> Values]
    BY <1>0, <1>10 DEF Over, TypeOK
  <2>5. /\ tx' \in [Threads -> {"none", "wait_ro", "wait_rw", "read_only_tx", "read_write_tx"}]
        /\ reads' \in [Threads -> SUBSET (Words \X Values)]
        /\ view' \in [Threads -> -1..updates]
    BY <1>0, <1>10, <2>3 DEF Over, TypeOK
  <2>6. writer' \in {Nobody} \cup {{u} : u \in Threads} BY <1>0, <1>10 DEF TypeOK
  <2>7. DOMAIN writes' = Threads BY <1>0, <1>10 DEF Over
  <2> QED BY <1>0, <1>10, <2>1, <2>2, <2>4, <2>5, <2>6, <2>7 DEF Types, TypeOK
<1>11. ASSUME NEW t \in Threads, EndReadOnly(t) PROVE Types'
  <2>1. view[t] \in 0..updates /\ writer = Nobody
    BY <1>0, <1>11 DEF EndReadOnly, LockHeld, TypeOK
  <2> QED BY <1>0, <1>10, <1>11, <2>1 DEF EndReadOnly, TypeOK
<1>12. ASSUME NEW t \in Threads, EndUpdate(t) PROVE Types'
  <2>1. t \in writer /\ updates - 1 \in 0..updates
    BY <1>0, <1>12 DEF EndUpdate, LockHeld, InPlace
  <2>2. serial' \in [0..updates -> [Words -> Values]] /\ DOMAIN serial' = DOMAIN serial
    BY <1>0, <1>12 DEF EndUpdate, TypeOK
  <2> QED BY <1>0, <1>10, <1>12, <2>1, <2>2 DEF EndUpdate, TypeOK
<1>13. CASE Destroy \/ Destroyed BY <1>0, <1>2, <1>13 DEF Destroy, Destroyed, TypeOK
<1>14. CASE DestroyNode BY <1>0, <1>2, <1>14 DEF DestroyNode, TypeOK
<1>15. CASE UNCHANGED vars BY <1>0, <1>2, <1>15 DEF vars, TypeOK
<1> QED
  BY <1>3, <1>4, <1>5, <1>6, <1>7, <1>8, <1>9, <1>11, <1>12, <1>13, <1>14, <1>15
  DEF Next, Transaction

-----------------------------------------------------------------------------
(* Steps that concern the promise, and the others *)

\* A step inside the list, or of tm_destroy.
ListStep ==
    \/ \E t \in Threads, s \in Segments : tm_alloc(t, s) \/ tm_free(t, s)
    \/ Destroy \/ DestroyNode \/ Destroyed
    \/ UNCHANGED vars

\* It changes nothing that a transaction has read or written.
LEMMA ListStepFrame ==
    ASSUME ListStep
    PROVE  /\ UNCHANGED <<readers, writer, memory, tx, reads, writes, history>>
           /\ updates' = updates
           /\ region' # "open" => region # "open" \/ \A t \in Threads : tx[t] = "none"
BY DEF ListStep, tm_alloc, tm_free, Destroy, DestroyNode, Destroyed, vars, history, updates

\* All the steps.
LEMMA Steps ==
    ASSUME [Next]_vars
    PROVE  \/ ListStep
           \/ \E t \in Threads :
                 \/ \E kind \in {"wait_ro", "wait_rw"} : Begin(t, kind)
                 \/ AcquireShared(t) \/ Acquire(t) \/ Refuse(t)
                 \/ \E w \in Words : tm_read(t, w) \/ \E v \in Values : tm_write(t, w, v)
                 \/ EndReadOnly(t) \/ EndUpdate(t)
BY DEF Next, Transaction, ListStep

\* Whoever runs holds the lock, in its mode.
LEMMA NextHeld ==
    ASSUME Types, LockHeld, InPlace, [Next]_vars
    PROVE  LockHeld'
<1> USE DEF Go, lists, history, Nobody, Runs
<1>0. /\ updates \in Nat /\ TypeOK
      /\ \A t \in Threads : writes[t] \in [DOMAIN writes[t] -> Values]
      /\ DOMAIN writes = Threads
  BY UpdatesType DEF Types
<1>1. ASSUME serial' = serial PROVE updates' = updates BY <1>1 DEF updates
<1>2. CASE ListStep
  BY <1>2, ListStepFrame DEF LockHeld
<1>3. ASSUME NEW t \in Threads, NEW kind \in {"wait_ro", "wait_rw"}, Begin(t, kind) PROVE LockHeld'
  <2>1. updates' = updates /\ updates # -1 BY <1>0, <1>1, <1>3 DEF Begin
  <2> QED BY <1>0, <1>3, <2>1 DEF Begin, LockHeld, TypeOK
<1>4. ASSUME NEW t \in Threads, AcquireShared(t) PROVE LockHeld'
  <2>1. updates' = updates /\ updates # -1 BY <1>0, <1>1, <1>4 DEF AcquireShared
  <2> QED BY <1>0, <1>4, <2>1 DEF AcquireShared, LockHeld, TypeOK
<1>5. ASSUME NEW t \in Threads, Acquire(t) PROVE LockHeld'
  <2>1. \A u \in Threads : tx[u] # "read_only_tx" /\ tx[u] # "read_write_tx"
    BY <1>5 DEF Acquire, LockHeld
  <2> QED BY <1>0, <1>5, <2>1 DEF Acquire, LockHeld, TypeOK
<1>6. ASSUME NEW t \in Threads, Refuse(t) PROVE LockHeld'
  <2>1. updates' = updates BY <1>1, <1>6 DEF Refuse
  <2> QED BY <1>0, <1>6, <2>1 DEF Refuse, LockHeld, TypeOK
<1>7. ASSUME NEW t \in Threads, NEW w \in Words, tm_read(t, w) PROVE LockHeld'
  <2>1. updates' = updates BY <1>1, <1>7 DEF tm_read
  <2> QED BY <1>0, <1>7, <2>1 DEF tm_read, LockHeld, TypeOK
<1>8. ASSUME NEW t \in Threads, NEW w \in Words, NEW v \in Values, tm_write(t, w, v) PROVE LockHeld'
  <2>1. updates' = updates BY <1>1, <1>8 DEF tm_write
  <2> QED BY <1>0, <1>8, <2>1 DEF tm_write, LockHeld, TypeOK
<1>9. ASSUME NEW t \in Threads, EndReadOnly(t) PROVE LockHeld'
  <2>1. updates' = updates BY <1>1, <1>9 DEF EndReadOnly
  <2> QED BY <1>0, <1>9, <2>1 DEF EndReadOnly, Over, LockHeld, TypeOK
<1>10. ASSUME NEW t \in Threads, EndUpdate(t) PROVE LockHeld'
  <2>1. updates' = updates
    <3>1. DOMAIN serial' = DOMAIN serial BY <1>10 DEF EndUpdate
    <3> QED BY <3>1, UpdatesKept
  <2>2. writer = {t} BY <1>0, <1>10 DEF EndUpdate, LockHeld, TypeOK
  <2>3. \A u \in Threads : u # t => tx[u] # "read_write_tx" BY <2>2 DEF LockHeld
  <2>4. /\ readers' = readers /\ writer' = {} /\ region' = region
        /\ tx' = [tx EXCEPT ![t] = "none"] /\ view' = [view EXCEPT ![t] = -1]
    BY <1>10 DEF EndUpdate, Over
  <2>5. /\ \A u \in Threads : u # t => reads'[u] = reads[u] /\ writes'[u] = writes[u]
        /\ reads'[t] = {} /\ DOMAIN writes'[t] = {}
    BY <1>0, <1>10 DEF EndUpdate, Over, TypeOK
  <2>6. \A u \in Threads : u # t => tx'[u] = tx[u] /\ view'[u] = view[u]
    BY <1>0, <2>4 DEF TypeOK
  <2>7. tx'[t] = "none" /\ view'[t] = -1 BY <1>0, <2>4 DEF TypeOK
  <2>8. tx[t] = "read_write_tx" /\ region = "open" BY <1>10 DEF EndUpdate, LockHeld
  <2>9. readers' = {u \in Threads : tx'[u] = "read_only_tx"}
    BY <2>4, <2>6, <2>7, <2>8 DEF LockHeld
  <2>10. writer' = {u \in Threads : tx'[u] = "read_write_tx"} BY <2>3, <2>4, <2>6, <2>7
  <2> QED BY <2>1, <2>4, <2>5, <2>6, <2>7, <2>8, <2>9, <2>10 DEF LockHeld
<1> QED BY <1>2, <1>3, <1>4, <1>5, <1>6, <1>7, <1>8, <1>9, <1>10, Steps

-----------------------------------------------------------------------------
(* Memory and the history *)

\* Only the writer writes, over the state it has found.
LEMMA NextInPlace ==
    ASSUME Types, LockHeld, InPlace, [Next]_vars
    PROVE  InPlace'
<1> USE DEF Go, lists, history, Nobody
<1>0. /\ updates \in Nat /\ DOMAIN serial = 0..updates /\ TypeOK
  BY UpdatesType DEF Types
<1>1. ASSUME serial' = serial PROVE updates' = updates BY <1>1 DEF updates
<1>2. ASSUME UNCHANGED <<writer, memory, writes, serial>> PROVE InPlace'
  BY <1>1, <1>2 DEF InPlace
<1>3. CASE ListStep BY <1>2, <1>3, ListStepFrame
<1>4. ASSUME NEW t \in Threads,
             \/ \E kind \in {"wait_ro", "wait_rw"} : Begin(t, kind)
             \/ AcquireShared(t) \/ Refuse(t)
             \/ \E w \in Words : tm_read(t, w)
      PROVE  InPlace'
  BY <1>2, <1>4 DEF Begin, AcquireShared, Refuse, tm_read
<1>5. ASSUME NEW t \in Threads, Acquire(t) PROVE InPlace'
  <2>1. /\ updates' = updates + 1 /\ serial'[updates + 1] = serial[updates]
        /\ memory = serial[updates] /\ serial'[updates] = serial[updates]
    BY <1>0, <1>5, AcquireHistory
  <2>2. writer' = {t} /\ memory' = memory /\ writes' = writes BY <1>5 DEF Acquire
  <2>3. DOMAIN writes[t] = {} BY <1>5 DEF Acquire, LockHeld, Runs
  <2>4. updates' - 1 = updates /\ updates' > 0 BY <1>0, <2>1
  <2> QED BY <2>1, <2>2, <2>3, <2>4 DEF InPlace
<1>6. ASSUME NEW t \in Threads, NEW w \in Words, NEW v \in Values, tm_write(t, w, v) PROVE InPlace'
  <2>1. writer = {t} BY <1>0, <1>6 DEF tm_write, LockHeld, TypeOK
  <2>2. updates' = updates /\ serial' = serial /\ writer' = writer BY <1>1, <1>6 DEF tm_write
  <2>3. \A u \in Words : memory'[u] = IF u \in DOMAIN writes'[t] THEN writes'[t][u]
                                                                ELSE serial[updates][u]
    <3>1. writes'[t] = [u \in DOMAIN writes[t] \cup {w} |-> IF u = w THEN v ELSE writes[t][u]]
      <4> DEFINE wt == [u \in DOMAIN writes[t] \cup {w} |-> IF u = w THEN v ELSE writes[t][u]]
      <4>1. writes' = [writes EXCEPT ![t] = wt] BY <1>6 DEF tm_write
      <4>2. DOMAIN writes = Threads BY DEF Types
      <4> HIDE DEF wt
      <4>3. writes'[t] = wt BY <4>1, <4>2
      <4> QED BY <4>3 DEF wt
    <3>2. memory' = [memory EXCEPT ![w] = v] /\ memory \in [Words -> Values]
      BY <1>0, <1>6 DEF tm_write, TypeOK
    <3>3. \A u \in Words : memory[u] = IF u \in DOMAIN writes[t] THEN writes[t][u]
                                                                ELSE serial[updates][u]
      BY <2>1 DEF InPlace
    <3> QED BY <3>1, <3>2, <3>3
  <2> QED BY <2>1, <2>2, <2>3 DEF InPlace
<1>7. ASSUME NEW t \in Threads, EndReadOnly(t) PROVE InPlace'
  <2>1. writer = Nobody BY <1>0, <1>7 DEF EndReadOnly, LockHeld, TypeOK
  <2> QED BY <1>1, <1>7, <2>1 DEF EndReadOnly, InPlace
<1>8. ASSUME NEW t \in Threads, EndUpdate(t) PROVE InPlace'
  <2>1. updates' = updates
    <3>1. DOMAIN serial' = DOMAIN serial BY <1>8 DEF EndUpdate
    <3> QED BY <3>1, UpdatesKept
  <2> QED BY <1>0, <1>8, <2>1 DEF EndUpdate, InPlace
<1> QED BY <1>3, <1>4, <1>5, <1>6, <1>7, <1>8, Steps

\* A read finds the state behind which the transaction stands, and that is kept.
LEMMA NextReads ==
    ASSUME Types, LockHeld, InPlace, ReadsBehind, [Next]_vars
    PROVE  ReadsBehind'
<1> USE DEF Go, lists, history, Nobody
<1>0. /\ updates \in Nat /\ DOMAIN serial = 0..updates /\ TypeOK
  BY UpdatesType DEF Types
<1>1. ASSUME serial' = serial PROVE updates' = updates BY <1>1 DEF updates
<1>2. ASSUME UNCHANGED <<writer, reads, serial>> PROVE ReadsBehind'
  BY <1>1, <1>2 DEF ReadsBehind
<1>3. CASE ListStep BY <1>2, <1>3, ListStepFrame
<1>4. ASSUME NEW t \in Threads,
             \/ \E kind \in {"wait_ro", "wait_rw"} : Begin(t, kind)
             \/ AcquireShared(t) \/ Refuse(t)
             \/ \E w \in Words, v \in Values : tm_write(t, w, v)
      PROVE  ReadsBehind'
  BY <1>2, <1>4 DEF Begin, AcquireShared, Refuse, tm_write
<1>5. ASSUME NEW t \in Threads, Acquire(t) PROVE ReadsBehind'
  <2>1. \A u \in Threads : reads'[u] = {} BY <1>5 DEF Acquire, LockHeld, Runs
  <2> QED BY <2>1 DEF ReadsBehind
<1>6. ASSUME NEW t \in Threads, NEW w \in Words, tm_read(t, w) PROVE ReadsBehind'
  <2>1. updates' = updates /\ serial' = serial /\ writer' = writer BY <1>1, <1>6 DEF tm_read
  <2>2. w \in DOMAIN writes[t] \/
        serial[IF t \in writer THEN updates - 1 ELSE updates][w] = memory[w]
    <3>1. CASE t \in writer BY <3>1 DEF InPlace
    <3>2. CASE t \notin writer
      <4>1. t \in readers BY <1>6, <3>2 DEF tm_read, LockHeld, Runs
      <4>2. writer = Nobody BY <1>0, <4>1 DEF TypeOK
      <4> QED BY <3>2, <4>2 DEF InPlace
    <3> QED BY <3>1, <3>2
  <2>3. \A u \in Threads : u # t => reads'[u] = reads[u] BY <1>6 DEF tm_read
  <2>4. \A r \in reads'[t] : r \in reads[t] \/ (w \notin DOMAIN writes[t] /\ r = <<w, memory[w]>>)
    BY <1>0, <1>6 DEF tm_read, TypeOK
  <2> QED BY <2>1, <2>2, <2>3, <2>4 DEF ReadsBehind
<1>7. ASSUME NEW t \in Threads, EndReadOnly(t) PROVE ReadsBehind'
  BY <1>0, <1>1, <1>7 DEF EndReadOnly, Over, ReadsBehind, TypeOK
<1>8. ASSUME NEW t \in Threads, EndUpdate(t) PROVE ReadsBehind'
  <2>1. \A u \in Threads : u # t => ~Runs(u)
    BY <1>0, <1>8 DEF EndUpdate, LockHeld, TypeOK, Runs
  <2>2. \A u \in Threads : reads'[u] = {}
    BY <1>0, <1>8, <2>1 DEF EndUpdate, Over, LockHeld, TypeOK
  <2> QED BY <2>2 DEF ReadsBehind
<1> QED BY <1>3, <1>4, <1>5, <1>6, <1>7, <1>8, Steps

\* What is committed stays legal: the writer changes the last state only.
LEMMA NextCommitted ==
    ASSUME Types, LockHeld, InPlace, ReadsBehind, Committed, [Next]_vars
    PROVE  Committed'
<1> USE DEF Go, lists, history, Nobody
<1>0. /\ updates \in Nat /\ DOMAIN serial = 0..updates /\ TypeOK
  BY UpdatesType DEF Types
<1>1. ASSUME serial' = serial PROVE updates' = updates BY <1>1 DEF updates
<1>2. ASSUME UNCHANGED <<writer, committed_reads, serial>> PROVE Committed'
  BY <1>1, <1>2 DEF Committed
<1>3. CASE ListStep BY <1>2, <1>3, ListStepFrame
<1>4. ASSUME NEW t \in Threads,
             \/ \E kind \in {"wait_ro", "wait_rw"} : Begin(t, kind)
             \/ AcquireShared(t) \/ Refuse(t)
             \/ \E w \in Words : tm_read(t, w) \/ \E v \in Values : tm_write(t, w, v)
      PROVE  Committed'
  BY <1>2, <1>4 DEF Begin, AcquireShared, Refuse, tm_read, tm_write
<1>5. ASSUME NEW t \in Threads, Acquire(t) PROVE Committed'
  <2>1. updates' = updates + 1 /\ \A k \in 0..updates : serial'[k] = serial[k]
    BY <1>5, AcquireHistory
  <2>2. \A k \in 0..updates : k \in 0..(updates + 1) /\ k < updates + 1 BY <1>0
  <2> QED BY <1>5, <2>1, <2>2 DEF Acquire, Committed
<1>6. ASSUME NEW t \in Threads, EndReadOnly(t) PROVE Committed'
  <2>1. writer = Nobody /\ view[t] = updates
    BY <1>0, <1>6 DEF EndReadOnly, LockHeld, TypeOK
  <2>2. updates' = updates /\ serial' = serial /\ writer' = writer BY <1>1, <1>6 DEF EndReadOnly
  <2>3. \A r \in reads[t] : serial[updates][r[1]] = r[2] BY <2>1 DEF ReadsBehind
  <2>4. committed_reads' = committed_reads \cup {<<updates, r[1], r[2]>> : r \in reads[t]}
    BY <1>6, <2>1 DEF EndReadOnly, CommitReads
  <2>5. updates \in 0..updates BY <1>0
  <2> QED BY <2>1, <2>2, <2>3, <2>4, <2>5 DEF Committed
<1>7. ASSUME NEW t \in Threads, EndUpdate(t) PROVE Committed'
  <2>1. t \in writer /\ updates > 0 BY <1>0, <1>7 DEF EndUpdate, LockHeld, InPlace
  <2>2. updates' = updates
    <3>1. DOMAIN serial' = DOMAIN serial BY <1>7 DEF EndUpdate
    <3> QED BY <3>1, UpdatesKept
  <2>3. \A r \in reads[t] : serial[updates - 1][r[1]] = r[2] BY <2>1 DEF ReadsBehind
  <2>4. committed_reads' = committed_reads \cup {<<updates - 1, r[1], r[2]>> : r \in reads[t]}
    BY <1>7 DEF EndUpdate, CommitReads
  <2>5. \A k \in 0..updates : k < updates => serial'[k] = serial[k] BY <1>7 DEF EndUpdate
  <2>6. updates - 1 \in 0..updates /\ updates - 1 < updates BY <1>0, <2>1
  <2>7. writer' = Nobody BY <1>7 DEF EndUpdate
  <2>8. ASSUME NEW r \in committed_reads PROVE r[1] \in 0..updates /\ serial'[r[1]][r[2]] = r[3]
    BY <2>1, <2>5 DEF Committed
  <2>9. ASSUME NEW c \in reads[t], NEW r, r = <<updates - 1, c[1], c[2]>>
        PROVE  r[1] \in 0..updates /\ serial'[r[1]][r[2]] = r[3]
    BY <2>3, <2>5, <2>6, <2>9
  <2> QED BY <2>2, <2>4, <2>7, <2>8, <2>9 DEF Committed
<1> QED BY <1>3, <1>4, <1>5, <1>6, <1>7, Steps

-----------------------------------------------------------------------------
(* The invariant *)

LEMMA InitSerial == Init => SerialInv
<1> SUFFICES ASSUME Init PROVE SerialInv
  OBVIOUS
<1>1. DOMAIN serial = 0..0 /\ updates = 0
  <2>1. DOMAIN serial = 0..0 BY DEF Init
  <2> QED BY <2>1, UpdatesOf
<1>2. 0..0 = {0} OBVIOUS
<1>3. Types
  <2>1. serial \in [0..0 -> [Words -> Values]] BY DEF Init
  <2>2. view \in [Threads -> -1..0] BY DEF Init
  <2>3. committed_reads \subseteq (0..0) \X Words \X Values BY DEF Init
  <2>4. TypeOK BY <1>1, <2>1, <2>2, <2>3 DEF Init, TypeOK, Nobody
  <2>5. \E n \in Nat : DOMAIN serial = 0..n BY <1>1
  <2>6. DOMAIN writes = Threads /\ \A t \in Threads : writes[t] \in [DOMAIN writes[t] -> Values]
    BY DEF Init
  <2> QED BY <2>4, <2>5, <2>6 DEF Types
<1>4. LockHeld BY DEF Init, LockHeld, Runs, Nobody
<1>5. InPlace /\ ReadsBehind /\ Committed
  BY <1>1, <1>2 DEF Init, InPlace, ReadsBehind, Committed, Nobody
<1> QED BY <1>3, <1>4, <1>5 DEF SerialInv

LEMMA NextSerial == SerialInv /\ [Next]_vars => SerialInv'
BY NextTypes, NextHeld, NextInPlace, NextReads, NextCommitted DEF SerialInv

\* The invariant behind what the reference promises: whoever runs holds the
\* lock, memory is the last serial state but for the writer's words, and what
\* has been read is in the state behind which its transaction stands.
THEOREM ReferenceInvariant == Spec => []SerialInv
BY InitSerial, NextSerial, PTL DEF Spec

\* Every variable has its type, and the lock is shared or exclusive, never both.
THEOREM ReferenceTypes == Spec => []TypeOK
<1>1. SerialInv => TypeOK BY DEF SerialInv, Types
<1> QED BY <1>1, ReferenceInvariant, PTL

-----------------------------------------------------------------------------
(* The promise *)

\* The slot of the transaction of each thread in SerialTM.
Slot == [t \in Threads |-> IF t \in writer THEN updates ELSE -1]

\* A step of SerialTM, or none.
Kept == [Promise!Next]_<<updates, serial, committed_reads, view, Slot>>

\* A step inside a transaction, or of the list, is none.
LEMMA Stutters ==
    ASSUME UNCHANGED <<serial, committed_reads, view, writer>>
    PROVE  Kept
BY DEF Kept, Slot, updates

\* tm_begin begins, and stands behind the updates that have taken the lock.
LEMMA BeginKept ==
    ASSUME SerialInv, NEW t \in Threads, NEW kind \in {"wait_ro", "wait_rw"}, Begin(t, kind)
    PROVE  Kept
<1>1. view[t] = -1 BY DEF Begin, SerialInv, LockHeld
<1>2. Promise!Begin(t)
  BY <1>1 DEF Begin, Promise!Begin, Promise!Running, Promise!NoTransaction, updates, Slot
<1> QED BY <1>2 DEF Kept, Promise!Next

\* A reader that gets the lock stands behind those that have it since.
LEMMA AdvanceKept ==
    ASSUME SerialInv, NEW t \in Threads, AcquireShared(t)
    PROVE  Kept
<1>1. updates \in Nat /\ view[t] \in -1..updates BY UpdatesType DEF SerialInv, Types, TypeOK
<1>2. view[t] # -1 /\ t \notin writer BY DEF AcquireShared, SerialInv, LockHeld, Nobody
<1>3. updates \in view[t]..updates BY <1>1
<1>4. \E k \in view[t]..updates : view' = [view EXCEPT ![t] = k]
  BY <1>3 DEF AcquireShared
<1>5. UNCHANGED <<updates, serial, committed_reads, Slot>>
  BY DEF AcquireShared, updates, Slot
<1>6. Promise!Advance(t)
  BY <1>2, <1>4, <1>5 DEF Promise!Advance, Promise!Running, Promise!NoTransaction, Slot
<1> QED BY <1>6 DEF Kept, Promise!Next

\* A writer that gets the lock takes the next slot.
LEMMA SlotKept ==
    ASSUME SerialInv, NEW t \in Threads, Acquire(t)
    PROVE  Kept
<1>1. updates \in Nat BY UpdatesType DEF SerialInv
<1>2. updates' = updates + 1 /\ memory = serial[updates] BY AcquireHistory DEF SerialInv
<1>3. view[t] # -1 /\ Slot[t] = -1 BY DEF Acquire, SerialInv, LockHeld, Nobody, Slot
<1>4. Slot' = [Slot EXCEPT ![t] = updates + 1] BY <1>2 DEF Acquire, Slot, Nobody
<1>5. serial' = [k \in 0..(updates + 1) |-> serial[IF k <= updates THEN k ELSE updates]]
  BY <1>2 DEF Acquire
<1>6. UNCHANGED <<committed_reads, view>> BY DEF Acquire
<1>7. Promise!TakeSlot(t)
  BY <1>2, <1>3, <1>4, <1>5, <1>6, Zenon
  DEF Promise!TakeSlot, Promise!Running, Promise!NoTransaction, Slot
<1> QED BY <1>7 DEF Kept, Promise!Next

\* A transaction that does not get the lock aborts.
LEMMA RefuseKept ==
    ASSUME SerialInv, NEW t \in Threads, Refuse(t)
    PROVE  Kept
<1>1. view[t] # -1 /\ t \notin writer BY DEF Refuse, SerialInv, LockHeld
<1>2. UNCHANGED <<updates, serial, committed_reads>> /\ view' = [view EXCEPT ![t] = -1]
  BY DEF Refuse, updates
<1>3. Slot' = [Slot EXCEPT ![t] = -1] BY <1>1 DEF Refuse, Slot, updates
<1>4. Promise!Abort(t)
  BY <1>1, <1>2, <1>3, Zenon
  DEF Promise!Abort, Promise!End, Promise!Running, Promise!NoTransaction, Slot
<1> QED BY <1>4 DEF Kept, Promise!Next

\* What is committed is legal.
LEMMA CommittedLegal == Committed' => Promise!Legal'
BY DEF Committed, Promise!Legal

\* A reader commits its reads behind the state it has found.
LEMMA ReadOnlyKept ==
    ASSUME SerialInv, Committed', NEW t \in Threads, EndReadOnly(t)
    PROVE  Kept
<1>1. view[t] # -1 /\ t \notin writer BY DEF EndReadOnly, SerialInv, LockHeld
<1>2. reads[t] \in SUBSET (Words \X Values) BY DEF SerialInv, Types, TypeOK
<1>3. \E R \in SUBSET (Words \X Values) :
         committed_reads' = committed_reads \cup {<<view[t], r[1], r[2]>> : r \in R}
  BY <1>2 DEF EndReadOnly, CommitReads
<1>4. view' = [view EXCEPT ![t] = -1] /\ UNCHANGED <<updates, serial>>
  BY DEF EndReadOnly, Over, updates
<1>5. Slot' = [Slot EXCEPT ![t] = -1] BY <1>1 DEF EndReadOnly, Slot, updates
<1>6. Slot[t] = -1 BY <1>1 DEF Slot
<1>7. Promise!CommitReadOnly(t)
  BY <1>1, <1>3, <1>4, <1>5, <1>6, CommittedLegal, Zenon
  DEF Promise!CommitReadOnly, Promise!End, Promise!Running, Promise!NoTransaction, Slot
<1> QED BY <1>7 DEF Kept, Promise!Next

\* The writer commits: its slot becomes the memory, the state before it with
\* what it has written.
LEMMA UpdateKept ==
    ASSUME SerialInv, Committed', NEW t \in Threads, EndUpdate(t)
    PROVE  Kept
<1> DEFINE written == DOMAIN writes[t]
           new == writes[t]
<1>0. updates \in Nat /\ DOMAIN serial = 0..updates /\ TypeOK
  BY UpdatesType DEF SerialInv, Types
<1>1. t \in writer /\ writer = {t} /\ view[t] # -1
  BY <1>0 DEF EndUpdate, SerialInv, LockHeld, TypeOK, Nobody
<1>2. Slot[t] = updates /\ updates > 0 BY <1>1 DEF Slot, SerialInv, InPlace
<1>3. reads[t] \in SUBSET (Words \X Values) /\ written \in SUBSET Words /\ new \in [written -> Values]
  BY <1>0 DEF SerialInv, Types, TypeOK
<1>4. memory = [w \in Words |-> IF w \in written THEN new[w] ELSE serial[updates][w]]
  BY <1>0, <1>1 DEF SerialInv, InPlace, TypeOK
<1>5. serial' = [k \in 0..updates |->
                   IF k < Slot[t] THEN serial[k]
                   ELSE [w \in Words |-> IF w \in written THEN new[w] ELSE serial[k][w]]]
  <2>1. serial' = [serial EXCEPT ![updates] = memory] /\ serial \in [0..updates -> [Words -> Values]]
    BY <1>0 DEF EndUpdate, TypeOK
  <2>2. serial' = [k \in 0..updates |-> IF k = updates THEN memory ELSE serial[k]]
    BY <2>1
  <2>3. \A k \in 0..updates : k < updates <=> k # updates BY <1>0
  <2> HIDE DEF written, new
  <2> QED BY <1>2, <1>4, <2>2, <2>3
<1>6. committed_reads' = committed_reads \cup {<<Slot[t] - 1, r[1], r[2]>> : r \in reads[t]}
  BY <1>2 DEF EndUpdate, CommitReads
<1> HIDE DEF written, new
<1>7. \E R \in SUBSET (Words \X Values), W \in SUBSET Words :
      \E n \in [W -> Values] :
         /\ serial' = [k \in 0..updates |->
                         IF k < Slot[t] THEN serial[k]
                         ELSE [w \in Words |-> IF w \in W THEN n[w] ELSE serial[k][w]]]
         /\ committed_reads' = committed_reads \cup {<<Slot[t] - 1, r[1], r[2]>> : r \in R}
  BY <1>3, <1>5, <1>6, Zenon
<1>8. updates' = updates
  <2>1. DOMAIN serial' = DOMAIN serial BY DEF EndUpdate
  <2> QED BY <2>1 DEF updates
<1>9. view' = [view EXCEPT ![t] = -1] BY DEF EndUpdate, Over
<1>10. Slot' = [Slot EXCEPT ![t] = -1]
  <2>1. writer' = {} BY DEF EndUpdate, Nobody
  <2> QED BY <1>1, <2>1 DEF Slot
<1>11. Slot[t] # -1 BY <1>0, <1>2
<1>12. Promise!CommitUpdate(t)
  BY <1>1, <1>7, <1>8, <1>9, <1>10, <1>11, CommittedLegal, Zenon
  DEF Promise!CommitUpdate, Promise!End, Promise!Running, Promise!NoTransaction, Slot
<1> QED BY <1>12 DEF Kept, Promise!Next

\* Every step of the reference is a step of the promise, or none.
LEMMA NextKept ==
    ASSUME SerialInv, SerialInv', [Next]_vars
    PROVE  Kept
<1>0. Committed' BY DEF SerialInv
<1>1. CASE ListStep BY <1>1, ListStepFrame, Stutters DEF history
<1>2. ASSUME NEW t \in Threads, NEW w \in Words, tm_read(t, w) PROVE Kept
  BY <1>2, Stutters DEF tm_read, history
<1>3. ASSUME NEW t \in Threads, NEW w \in Words, NEW v \in Values, tm_write(t, w, v) PROVE Kept
  BY <1>3, Stutters DEF tm_write, history
<1> QED
  BY <1>0, <1>1, <1>2, <1>3, Steps, BeginKept, AdvanceKept, SlotKept, RefuseKept, ReadOnlyKept, UpdateKept

\* The reference keeps the promise of SerialTM, as Transaction does: whatever
\* its transactions read and write, those that commit sit in a serial order.
THEOREM ReferenceKeepsPromise == Spec => KeepsPromise
<1>1. Init => Promise!Init
  <2> SUFFICES ASSUME Init PROVE Promise!Init
    OBVIOUS
  <2>1. updates = 0
    <3>1. DOMAIN serial = 0..0 BY DEF Init
    <3> QED BY <3>1, UpdatesOf
  <2> QED BY <2>1 DEF Init, Promise!Init, Promise!NoTransaction, Nobody
<1>2. SerialInv /\ SerialInv' /\ [Next]_vars =>
         [Promise!Next]_<<updates, serial, committed_reads, view, Slot>>
  BY NextKept DEF Kept
<1> QED
  BY <1>1, <1>2, ReferenceInvariant, PTL DEF Spec, KeepsPromise, Promise!Spec, Promise!vars, Slot

-----------------------------------------------------------------------------
(* The list of what transactions have allocated *)

\* The nodes in their order: each once, linked to the one behind it, and to the
\* one before it as long as a transaction may free them.
InOrder(list, n) ==
    /\ \A i, j \in 1..n : list[i] = list[j] => i = j
    /\ allocated = {list[i] : i \in 1..n}
    /\ allocs = IF n = 0 THEN NULL ELSE list[1]
    /\ \A i \in 1..n : next[list[i]] = IF i = n THEN NULL ELSE list[i + 1]
    /\ region = "open" => \A i \in 1..n : prev[list[i]] = IF i = 1 THEN NULL ELSE list[i - 1]
    /\ region = "closed" => n = 0

Listed == \E n \in Nat : \E list \in [1..n -> Segments] : InOrder(list, n)

\* A step that leaves the list.
LEMMA ListFrame ==
    ASSUME Listed, UNCHANGED lists, region' = region
    PROVE  Listed'
BY DEF Listed, InOrder, lists

\* tm_alloc puts its node in front.
LEMMA AllocOrder ==
    ASSUME Types, LockHeld, Listed, NEW t \in Threads, NEW s \in Segments, tm_alloc(t, s)
    PROVE  Listed'
<1>1. PICK n \in Nat : \E list \in [1..n -> Segments] : InOrder(list, n) BY DEF Listed
<1>2. PICK list \in [1..n -> Segments] : InOrder(list, n) BY <1>1
<1> DEFINE l == [i \in 1..(n + 1) |-> IF i = 1 THEN s ELSE list[i - 1]]
<1>3. n + 1 \in Nat /\ n + 1 # 0 /\ 1 \in 1..(n + 1) BY <1>1
<1>4. \A i \in 1..(n + 1) : i # 1 => i - 1 \in 1..n BY <1>1
<1>5. l \in [1..(n + 1) -> Segments] BY <1>4
<1>6. l[1] = s /\ \A i \in 1..(n + 1) : i # 1 => l[i] = list[i - 1] BY <1>3
<1>7. \A i \in 1..n : i + 1 \in 1..(n + 1) /\ i + 1 # 1 /\ (i + 1) - 1 = i BY <1>1
<1>8. \A i \in 1..n : l[i + 1] = list[i] BY <1>6, <1>7
<1> HIDE DEF l
<1>9. allocated = {list[i] : i \in 1..n} /\ s \notin allocated BY <1>2 DEF InOrder, tm_alloc
<1>10. \A i \in 1..n : list[i] # s /\ list[i] \in Segments BY <1>2, <1>9
<1>11. \A i, j \in 1..(n + 1) : l[i] = l[j] => i = j
  <2> SUFFICES ASSUME NEW i \in 1..(n + 1), NEW j \in 1..(n + 1), l[i] = l[j] PROVE i = j
    OBVIOUS
  <2>1. CASE i = 1 \/ j = 1 BY <1>4, <1>6, <1>10, <2>1
  <2>2. CASE i # 1 /\ j # 1
    <3>1. i - 1 = j - 1 BY <1>2, <1>4, <1>6, <2>2 DEF InOrder
    <3> QED BY <3>1
  <2> QED BY <2>1, <2>2
<1>12. allocated' = {l[i] : i \in 1..(n + 1)}
  <2>1. allocated' = allocated \cup {s} BY DEF tm_alloc
  <2>2. \A x \in allocated' : \E i \in 1..(n + 1) : x = l[i]
    <3>1. s = l[1] BY <1>6
    <3>2. \A x \in allocated : \E i \in 1..(n + 1) : x = l[i] BY <1>7, <1>8, <1>9
    <3> QED BY <1>3, <2>1, <3>1, <3>2
  <2>3. \A i \in 1..(n + 1) : l[i] \in allocated' BY <1>4, <1>6, <1>9, <2>1
  <2> QED BY <2>2, <2>3
<1>13. allocs' = s /\ allocs = IF n = 0 THEN NULL ELSE list[1] BY <1>2 DEF tm_alloc, InOrder
<1>14. next' = [next EXCEPT ![s] = allocs] /\ next \in [Segments -> Segments \cup {NULL}]
  BY DEF tm_alloc, Types, TypeOK
<1>15. \A i \in 1..(n + 1) : next'[l[i]] = IF i = n + 1 THEN NULL ELSE l[i + 1]
  <2> SUFFICES ASSUME NEW i \in 1..(n + 1)
               PROVE  next'[l[i]] = IF i = n + 1 THEN NULL ELSE l[i + 1]
    OBVIOUS
  <2>1. CASE i = 1
    <3>1. next'[s] = allocs BY <1>14
    <3>2. CASE n = 0 BY <1>6, <1>13, <2>1, <3>1, <3>2
    <3>3. CASE n # 0
      <4>1. 1 \in 1..n /\ i # n + 1 BY <1>1, <2>1, <3>3
      <4> QED BY <1>6, <1>8, <1>13, <2>1, <3>1, <3>3, <4>1
    <3> QED BY <3>2, <3>3
  <2>2. CASE i # 1
    <3>1. i - 1 \in 1..n /\ l[i] = list[i - 1] /\ next'[list[i - 1]] = next[list[i - 1]]
      BY <1>4, <1>6, <1>10, <1>14, <2>2
    <3>2. next[list[i - 1]] = IF i - 1 = n THEN NULL ELSE list[(i - 1) + 1]
      BY <1>2, <3>1 DEF InOrder
    <3>3. i # n + 1 => i \in 1..n /\ (i - 1) + 1 = i /\ i - 1 # n BY <1>1
    <3>4. i = n + 1 => i - 1 = n BY <1>1
    <3> QED BY <1>8, <3>1, <3>2, <3>3, <3>4
  <2> QED BY <2>1, <2>2
<1>16. region = "open" /\ region' = "open" BY DEF tm_alloc, LockHeld
<1>17. prev' = [x \in Segments |-> IF x = s THEN NULL ELSE IF x = allocs THEN s ELSE prev[x]]
  BY DEF tm_alloc
<1>18. \A i \in 1..(n + 1) : prev'[l[i]] = IF i = 1 THEN NULL ELSE l[i - 1]
  <2> SUFFICES ASSUME NEW i \in 1..(n + 1), i # 1
               PROVE  prev'[l[i]] = l[i - 1]
    BY <1>6, <1>17
  <2>1. i - 1 \in 1..n /\ l[i] = list[i - 1] BY <1>4, <1>6
  <2>2. prev'[list[i - 1]] = IF list[i - 1] = allocs THEN s ELSE prev[list[i - 1]]
    BY <1>10, <1>17, <2>1
  <2>3. n # 0 /\ 1 \in 1..n BY <1>1, <2>1
  <2>4. CASE i - 1 = 1
    <3>1. list[i - 1] = allocs BY <1>13, <2>3, <2>4
    <3> QED BY <1>6, <2>1, <2>2, <2>4, <3>1
  <2>5. CASE i - 1 # 1
    <3>1. list[i - 1] # allocs BY <1>2, <1>13, <2>1, <2>3, <2>5 DEF InOrder
    <3>2. prev[list[i - 1]] = list[(i - 1) - 1] BY <1>2, <1>16, <2>1, <2>5 DEF InOrder
    <3>3. i - 1 \in 1..(n + 1) BY <2>1
    <3>4. l[i - 1] = list[(i - 1) - 1] BY <1>6, <2>5, <3>3
    <3> QED BY <2>1, <2>2, <3>1, <3>2, <3>4
  <2> QED BY <2>4, <2>5
<1>19. InOrder(l, n + 1)'
  BY <1>3, <1>6, <1>11, <1>12, <1>13, <1>15, <1>16, <1>18 DEF InOrder
<1> QED BY <1>3, <1>5, <1>19 DEF Listed

\* A node leaves the list: those behind it move forward by one.
Without(list, n, m) == [i \in 1..(n - 1) |-> IF i < m THEN list[i] ELSE list[i + 1]]

LEMMA WithoutOrder ==
    ASSUME NEW n \in Nat, NEW m \in 1..n, NEW list \in [1..n -> Segments],
           \A i, j \in 1..n : list[i] = list[j] => i = j
    PROVE  /\ n - 1 \in Nat
           /\ Without(list, n, m) \in [1..(n - 1) -> Segments]
           /\ \A i \in 1..(n - 1) :
                 i < m => i \in 1..n /\ i # m /\ Without(list, n, m)[i] = list[i]
           /\ \A i \in 1..(n - 1) :
                 ~(i < m) => i + 1 \in 1..n /\ i + 1 # m /\ Without(list, n, m)[i] = list[i + 1]
           /\ \A i, j \in 1..(n - 1) : Without(list, n, m)[i] = Without(list, n, m)[j] => i = j
<1> DEFINE l == Without(list, n, m)
<1>0. l = [i \in 1..(n - 1) |-> IF i < m THEN list[i] ELSE list[i + 1]] BY DEF Without
<1> HIDE DEF l
<1>1. n - 1 \in Nat OBVIOUS
<1>2. \A i \in 1..(n - 1) : i < m => i \in 1..n /\ i # m /\ l[i] = list[i] BY <1>0
<1>3. \A i \in 1..(n - 1) : ~(i < m) => i + 1 \in 1..n /\ i + 1 # m /\ l[i] = list[i + 1] BY <1>0
<1>4. l \in [1..(n - 1) -> Segments] BY <1>0, <1>2, <1>3
<1>5. \A i, j \in 1..(n - 1) : l[i] = l[j] => i = j
  <2> SUFFICES ASSUME NEW i \in 1..(n - 1), NEW j \in 1..(n - 1), l[i] = l[j] PROVE i = j
    OBVIOUS
  <2>1. CASE i < m /\ j < m BY <1>2, <2>1
  <2>2. CASE i < m /\ ~(j < m)
    <3>1. i = j + 1 BY <1>2, <1>3, <2>2
    <3> QED BY <2>2, <3>1
  <2>3. CASE ~(i < m) /\ j < m
    <3>1. i + 1 = j BY <1>2, <1>3, <2>3
    <3> QED BY <2>3, <3>1
  <2>4. CASE ~(i < m) /\ ~(j < m)
    <3>1. i + 1 = j + 1 BY <1>3, <2>4
    <3> QED BY <3>1
  <2> QED BY <2>1, <2>2, <2>3, <2>4
<1> QED BY <1>1, <1>2, <1>3, <1>4, <1>5, Zenon DEF l

\* tm_free takes its node out, wherever it is.
LEMMA FreeOrder ==
    ASSUME Types, LockHeld, Listed, NEW t \in Threads, NEW s \in Segments, tm_free(t, s)
    PROVE  Listed'
<1>1. PICK n \in Nat : \E list \in [1..n -> Segments] : InOrder(list, n) BY DEF Listed
<1>2. PICK list \in [1..n -> Segments] : InOrder(list, n) BY <1>1
<1>3. PICK m \in 1..n : list[m] = s BY <1>2 DEF tm_free, InOrder
<1>4. region = "open" /\ region' = "open" BY DEF tm_free, LockHeld
<1> DEFINE l == Without(list, n, m)
<1>5. /\ n - 1 \in Nat /\ l \in [1..(n - 1) -> Segments]
      /\ \A i \in 1..(n - 1) : i < m => i \in 1..n /\ i # m /\ l[i] = list[i]
      /\ \A i \in 1..(n - 1) : ~(i < m) => i + 1 \in 1..n /\ i + 1 # m /\ l[i] = list[i + 1]
      /\ \A i, j \in 1..(n - 1) : l[i] = l[j] => i = j
  <2>1. \A i, j \in 1..n : list[i] = list[j] => i = j BY <1>2 DEF InOrder
  <2>2. n - 1 \in Nat /\ l \in [1..(n - 1) -> Segments] BY <2>1, WithoutOrder
  <2>3. \A i \in 1..(n - 1) : i < m => i \in 1..n /\ i # m /\ l[i] = list[i] BY <2>1, WithoutOrder
  <2>4. \A i \in 1..(n - 1) : ~(i < m) => i + 1 \in 1..n /\ i + 1 # m /\ l[i] = list[i + 1]
    BY <2>1, WithoutOrder
  <2>5. \A i, j \in 1..(n - 1) : l[i] = l[j] => i = j BY <2>1, WithoutOrder
  <2> QED BY <2>2, <2>3, <2>4, <2>5
<1> HIDE DEF l
<1>6. allocated' = {l[i] : i \in 1..(n - 1)}
  <2>1. allocated' = allocated \ {list[m]} /\ allocated = {list[i] : i \in 1..n}
    BY <1>2, <1>3 DEF tm_free, InOrder
  <2>2. \A i, j \in 1..n : list[i] = list[j] => i = j BY <1>2 DEF InOrder
  <2>3. \A i \in 1..(n - 1) : l[i] \in allocated' BY <1>5, <2>1, <2>2
  <2>4. ASSUME NEW i \in 1..n, i # m PROVE \E j \in 1..(n - 1) : list[i] = l[j]
    <3>1. CASE i < m
      <4>1. i \in 1..(n - 1) BY <3>1
      <4> QED BY <1>5, <3>1, <4>1
    <3>2. CASE ~(i < m)
      <4>1. i - 1 \in 1..(n - 1) /\ ~(i - 1 < m) /\ (i - 1) + 1 = i BY <2>4, <3>2
      <4> QED BY <1>5, <4>1
    <3> QED BY <3>1, <3>2
  <2>5. \A x \in allocated' : \E i \in 1..(n - 1) : x = l[i] BY <2>1, <2>4
  <2> QED BY <2>3, <2>5
\* The neighbours of the node.
<1>7. /\ prev[s] = IF m = 1 THEN NULL ELSE list[m - 1]
      /\ next[s] = IF m = n THEN NULL ELSE list[m + 1]
  BY <1>2, <1>3, <1>4 DEF InOrder
<1>8. \A i \in 1..n : list[i] \in Segments /\ list[i] # NULL /\ (i # m => list[i] # s)
  <2>1. \A i \in 1..n : list[i] = list[m] => i = m BY <1>2 DEF InOrder
  <2>2. \A i \in 1..n : list[i] \in Segments OBVIOUS
  <2> QED BY <1>3, <2>1, <2>2
<1>9. \A i \in 1..n : list[i] = prev[s] <=> i + 1 = m
  <2> SUFFICES ASSUME NEW i \in 1..n PROVE list[i] = prev[s] <=> i + 1 = m
    OBVIOUS
  <2>1. CASE m = 1
    <3>1. list[i] # NULL /\ i + 1 # m BY <1>8, <2>1
    <3> QED BY <1>7, <2>1, <3>1
  <2>2. CASE m # 1
    <3>1. m - 1 \in 1..n /\ (i = m - 1 <=> i + 1 = m) BY <2>2
    <3> QED BY <1>2, <1>7, <2>2, <3>1 DEF InOrder
  <2> QED BY <2>1, <2>2
<1>10. \A i \in 1..n : list[i] = next[s] <=> i = m + 1
  <2> SUFFICES ASSUME NEW i \in 1..n PROVE list[i] = next[s] <=> i = m + 1
    OBVIOUS
  <2>1. CASE m = n
    <3>1. list[i] # NULL /\ i # m + 1 BY <1>8, <2>1
    <3> QED BY <1>7, <2>1, <3>1
  <2>2. CASE m # n
    <3>1. m + 1 \in 1..n BY <2>2
    <3> QED BY <1>2, <1>7, <2>2, <3>1 DEF InOrder
  <2> QED BY <2>1, <2>2
\* What is linked now.
<1>11. \A i \in 1..n : i # m => next'[list[i]] = IF i + 1 = m THEN next[s] ELSE next[list[i]]
  BY <1>8, <1>9 DEF tm_free
<1>12. \A i \in 1..n : i # m => prev'[list[i]] = IF i = m + 1 THEN prev[s] ELSE prev[list[i]]
  BY <1>8, <1>10 DEF tm_free
<1>13. \A i \in 1..n : next[list[i]] = IF i = n THEN NULL ELSE list[i + 1] BY <1>2 DEF InOrder
<1>14. \A i \in 1..n : prev[list[i]] = IF i = 1 THEN NULL ELSE list[i - 1] BY <1>2, <1>4 DEF InOrder
<1>15. \A i \in 1..(n - 1) : next'[l[i]] = IF i = n - 1 THEN NULL ELSE l[i + 1]
  <2> SUFFICES ASSUME NEW i \in 1..(n - 1)
               PROVE  next'[l[i]] = IF i = n - 1 THEN NULL ELSE l[i + 1]
    OBVIOUS
  <2>1. CASE i + 1 < m
    <3>1. i \in 1..n /\ i # m /\ i + 1 # m /\ i # n /\ i # n - 1 /\ i + 1 \in 1..(n - 1) /\ i < m BY <2>1
    <3> QED BY <1>5, <1>11, <1>13, <2>1, <3>1
  <2>2. CASE i + 1 = m
    <3>1. i \in 1..n /\ i # m /\ i < m /\ ~(i + 1 < m) BY <2>2
    <3>2. next'[l[i]] = next[s] BY <1>5, <1>11, <2>2, <3>1
    <3>3. i = n - 1 <=> m = n BY <2>2
    <3>4. i # n - 1 => i + 1 \in 1..(n - 1) OBVIOUS
    <3>5. i # n - 1 => l[i + 1] = list[m + 1] BY <1>5, <2>2, <3>1, <3>4
    <3> QED BY <1>7, <3>2, <3>3, <3>5
  <2>3. CASE i + 1 > m
    <3>1. i + 1 \in 1..n /\ i + 1 # m /\ (i + 1) + 1 # m /\ ~(i < m) /\ ~(i + 1 < m) BY <2>3
    <3>2. next'[l[i]] = next[list[i + 1]] BY <1>5, <1>11, <3>1
    <3>3. i + 1 = n <=> i = n - 1 OBVIOUS
    <3>4. i # n - 1 => i + 1 \in 1..(n - 1) OBVIOUS
    <3>5. i # n - 1 => l[i + 1] = list[(i + 1) + 1] BY <1>5, <3>1, <3>4
    <3> QED BY <1>13, <3>1, <3>2, <3>3, <3>5
  <2> QED BY <2>1, <2>2, <2>3
<1>16. \A i \in 1..(n - 1) : prev'[l[i]] = IF i = 1 THEN NULL ELSE l[i - 1]
  <2> SUFFICES ASSUME NEW i \in 1..(n - 1)
               PROVE  prev'[l[i]] = IF i = 1 THEN NULL ELSE l[i - 1]
    OBVIOUS
  <2>0. i # 1 => i - 1 \in 1..(n - 1) OBVIOUS
  <2>1. CASE i < m
    <3>1. i \in 1..n /\ i # m /\ i # m + 1 /\ i - 1 < m BY <2>1
    <3>2. prev'[l[i]] = prev[list[i]] BY <1>5, <1>12, <2>1, <3>1
    <3>3. i # 1 => l[i - 1] = list[i - 1] BY <1>5, <2>0, <3>1
    <3> QED BY <1>14, <3>1, <3>2, <3>3
  <2>2. CASE i = m
    <3>1. i + 1 \in 1..n /\ i + 1 # m /\ i + 1 = m + 1 /\ ~(i < m) /\ i - 1 < m BY <2>2
    <3>2. prev'[l[i]] = prev[s] BY <1>5, <1>12, <3>1
    <3>3. i # 1 => l[i - 1] = list[m - 1] BY <1>5, <2>0, <2>2, <3>1
    <3> QED BY <1>7, <2>2, <3>2, <3>3
  <2>3. CASE i > m
    <3>1. i + 1 \in 1..n /\ i + 1 # m /\ i + 1 # m + 1 /\ i + 1 # 1 /\ ~(i < m) /\ i # 1 /\ ~(i - 1 < m)
      BY <2>3
    <3>2. prev'[l[i]] = prev[list[i + 1]] BY <1>5, <1>12, <3>1
    <3>3. l[i - 1] = list[(i - 1) + 1] BY <1>5, <2>0, <3>1
    <3>4. (i - 1) + 1 = (i + 1) - 1 OBVIOUS
    <3> QED BY <1>14, <3>1, <3>2, <3>3, <3>4
  <2> QED BY <2>1, <2>2, <2>3
<1>17. allocs' = IF n - 1 = 0 THEN NULL ELSE l[1]
  <2>0. allocs = list[1] /\ allocs' = IF prev[s] = NULL THEN next[s] ELSE allocs
    BY <1>2 DEF tm_free, InOrder
  <2>1. CASE m = 1
    <3>1. allocs' = next[s] BY <1>7, <2>0, <2>1
    <3>2. n - 1 # 0 => 1 \in 1..(n - 1) /\ ~(1 < m) /\ m + 1 = 1 + 1 /\ m # n BY <2>1
    <3>3. n - 1 = 0 => m = n BY <2>1
    <3> QED BY <1>5, <1>7, <3>1, <3>2, <3>3
  <2>2. CASE m # 1
    <3>1. m - 1 \in 1..n /\ m - 1 # m /\ n - 1 # 0 /\ 1 \in 1..(n - 1) /\ 1 < m BY <2>2
    <3>2. prev[s] # NULL BY <1>7, <1>8, <2>2, <3>1
    <3> QED BY <1>5, <2>0, <3>1, <3>2
  <2> QED BY <2>1, <2>2
<1>18. InOrder(l, n - 1)' BY <1>4, <1>5, <1>6, <1>15, <1>16, <1>17 DEF InOrder
<1> QED BY <1>5, <1>18 DEF Listed

\* tm_destroy takes the first node out.
LEMMA DestroyOrder ==
    ASSUME Types, Listed, DestroyNode
    PROVE  Listed'
<1>1. PICK n \in Nat : \E list \in [1..n -> Segments] : InOrder(list, n) BY DEF Listed
<1>2. PICK list \in [1..n -> Segments] : InOrder(list, n) BY <1>1
<1>3. n # 0 /\ allocs = list[1] /\ 1 \in 1..n BY <1>2 DEF DestroyNode, InOrder
<1> DEFINE l == Without(list, n, 1)
<1>4. /\ n - 1 \in Nat /\ l \in [1..(n - 1) -> Segments]
      /\ \A i \in 1..(n - 1) : i + 1 \in 1..n /\ i + 1 # 1 /\ l[i] = list[i + 1]
      /\ \A i, j \in 1..(n - 1) : l[i] = l[j] => i = j
  <2>1. \A i, j \in 1..n : list[i] = list[j] => i = j BY <1>2 DEF InOrder
  <2>2. n - 1 \in Nat /\ l \in [1..(n - 1) -> Segments] BY <1>3, <2>1, WithoutOrder
  <2>3. \A i \in 1..(n - 1) : ~(i < 1) => i + 1 \in 1..n /\ i + 1 # 1 /\ l[i] = list[i + 1]
    BY <1>3, <2>1, WithoutOrder
  <2>4. \A i, j \in 1..(n - 1) : l[i] = l[j] => i = j BY <1>3, <2>1, WithoutOrder
  <2>5. \A i \in 1..(n - 1) : ~(i < 1) BY <2>2
  <2> QED BY <2>2, <2>3, <2>4, <2>5
<1> HIDE DEF l
<1>5. \A i \in 1..n : i # 1 => i - 1 \in 1..(n - 1) /\ list[i] = l[i - 1]
  <2> SUFFICES ASSUME NEW i \in 1..n, i # 1 PROVE i - 1 \in 1..(n - 1) /\ list[i] = l[i - 1]
    OBVIOUS
  <2>1. i - 1 \in 1..(n - 1) /\ (i - 1) + 1 = i OBVIOUS
  <2> QED BY <1>4, <2>1
<1>6. \A i, j \in 1..n : list[i] = list[j] => i = j BY <1>2 DEF InOrder
<1>7. allocated' = {l[i] : i \in 1..(n - 1)}
  <2>1. allocated' = allocated \ {list[1]} /\ allocated = {list[i] : i \in 1..n}
    BY <1>2, <1>3 DEF DestroyNode, InOrder
  <2>2. \A i \in 1..(n - 1) : l[i] \in allocated' BY <1>3, <1>4, <1>6, <2>1
  <2>3. \A x \in allocated' : \E i \in 1..(n - 1) : x = l[i] BY <1>5, <2>1
  <2> QED BY <2>2, <2>3
<1>8. \A i \in 1..n : next[list[i]] = IF i = n THEN NULL ELSE list[i + 1] BY <1>2 DEF InOrder
<1>9. allocs' = IF n - 1 = 0 THEN NULL ELSE l[1]
  <2>1. allocs' = IF n = 1 THEN NULL ELSE list[2] BY <1>3, <1>8 DEF DestroyNode
  <2>2. n # 1 => 1 \in 1..(n - 1) /\ 1 + 1 = 2 BY <1>3
  <2> QED BY <1>4, <2>1, <2>2
<1>10. \A i \in 1..n : i # 1 => next'[list[i]] = next[list[i]]
  <2>1. next' = [next EXCEPT ![list[1]] = NULL] /\ next \in [Segments -> Segments \cup {NULL}]
    BY <1>3 DEF DestroyNode, Types, TypeOK
  <2>2. \A i \in 1..n : i # 1 => list[i] # list[1] /\ list[i] \in Segments BY <1>3, <1>6
  <2> QED BY <2>1, <2>2
<1>11. \A i \in 1..(n - 1) : next'[l[i]] = IF i = n - 1 THEN NULL ELSE l[i + 1]
  <2> SUFFICES ASSUME NEW i \in 1..(n - 1)
               PROVE  next'[l[i]] = IF i = n - 1 THEN NULL ELSE l[i + 1]
    OBVIOUS
  <2>1. next'[l[i]] = next[list[i + 1]] BY <1>4, <1>10
  <2>2. next[list[i + 1]] = IF i + 1 = n THEN NULL ELSE list[(i + 1) + 1] BY <1>4, <1>8
  <2>3. i # n - 1 => i + 1 \in 1..(n - 1) /\ i + 1 # n OBVIOUS
  <2>4. i = n - 1 => i + 1 = n OBVIOUS
  <2>5. i # n - 1 => l[i + 1] = list[(i + 1) + 1] BY <1>4, <2>3
  <2> QED BY <2>1, <2>2, <2>3, <2>4, <2>5
<1>12. region' = "closing" BY DEF DestroyNode
<1>13. InOrder(l, n - 1)' BY <1>4, <1>7, <1>9, <1>11, <1>12 DEF InOrder
<1> QED BY <1>4, <1>13 DEF Listed

LEMMA NextListed ==
    ASSUME Types, LockHeld, Listed, [Next]_vars
    PROVE  Listed'
<1>1. ASSUME NEW t \in Threads, NEW s \in Segments, tm_alloc(t, s) PROVE Listed'
  BY <1>1, AllocOrder
<1>2. ASSUME NEW t \in Threads, NEW s \in Segments, tm_free(t, s) PROVE Listed'
  BY <1>2, FreeOrder
<1>3. CASE Destroy BY <1>3 DEF Destroy, Listed, InOrder, lists
<1>4. CASE Destroyed
  <2>1. PICK n \in Nat : \E list \in [1..n -> Segments] : InOrder(list, n) BY DEF Listed
  <2>2. PICK list \in [1..n -> Segments] : InOrder(list, n) BY <2>1
  <2>3. n = 0
    <3>1. n # 0 => 1 \in 1..n /\ allocs = list[1] BY <2>2 DEF InOrder
    <3> QED BY <1>4, <2>2, <3>1 DEF Destroyed
  <2>4. UNCHANGED lists /\ region' = "closed" BY <1>4 DEF Destroyed
  <2>5. InOrder(list, n)' BY <2>2, <2>3, <2>4 DEF InOrder, lists
  <2> QED BY <2>5 DEF Listed
<1>5. CASE DestroyNode BY <1>5, DestroyOrder
<1>6. CASE UNCHANGED vars BY <1>6, ListFrame DEF vars
<1>7. ASSUME NEW t \in Threads,
             \/ \E kind \in {"wait_ro", "wait_rw"} : Begin(t, kind)
             \/ AcquireShared(t) \/ Acquire(t) \/ Refuse(t)
             \/ \E w \in Words : tm_read(t, w) \/ \E v \in Values : tm_write(t, w, v)
             \/ EndReadOnly(t) \/ EndUpdate(t)
      PROVE  Listed'
  BY <1>7, ListFrame
  DEF Begin, AcquireShared, Acquire, Refuse, tm_read, tm_write, EndReadOnly, EndUpdate
<1> QED BY <1>1, <1>2, <1>3, <1>4, <1>5, <1>6, <1>7, Steps DEF ListStep

LEMMA InitListed == Init => Listed
<1> SUFFICES ASSUME Init PROVE Listed
  OBVIOUS
<1> DEFINE none == [i \in 1..0 |-> CHOOSE s \in Segments : TRUE]
<1>1. 1..0 = {} OBVIOUS
<1>2. none \in [1..0 -> Segments] BY <1>1
<1> HIDE DEF none
<1>3. allocated = {none[i] : i \in 1..0} BY <1>1 DEF Init
<1>4. InOrder(none, 0) BY <1>1, <1>3 DEF Init, InOrder
<1> QED BY <1>2, <1>4 DEF Listed

-----------------------------------------------------------------------------
(* Walking the list *)

\* A set of natural numbers below a bound has a smallest one.
LEMMA Smallest ==
    ASSUME NEW n \in Nat, NEW B \in SUBSET (0..n), B # {}
    PROVE  \E k \in B : \A j \in B : k <= j
<1> DEFINE T == {0..k : k \in B}
           R == StrictSubsetOrdering(0..n)
<1>1. IsWellFoundedOn(R, FiniteSubsetsOf(0..n)) BY FS_StrictSubsetOrderingWellFounded
<1>2. T \subseteq FiniteSubsetsOf(0..n) /\ T # {}
  <2>1. ASSUME NEW k \in B PROVE 0..k \in FiniteSubsetsOf(0..n)
    <3>1. 0 \in Int /\ k \in Int /\ 0..k \subseteq 0..n OBVIOUS
    <3>2. IsFiniteSet(0..k) BY <3>1, FS_Interval
    <3> QED BY <3>1, <3>2 DEF FiniteSubsetsOf
  <2> QED BY <2>1
<1>3. PICK x \in T : \A y \in T : ~(<<y, x>> \in R)
  <2> HIDE DEF T, R
  <2> QED BY <1>1, <1>2, WFMin
<1>4. PICK k \in B : x = 0..k OBVIOUS
<1>5. ASSUME NEW j \in B, j < k PROVE FALSE
  <2>1. 0..j \subseteq 0..k /\ 0..j \subseteq 0..n /\ 0..k \subseteq 0..n /\ 0..j # 0..k
    <3>1. k \in 0..k /\ k \notin 0..j BY <1>5
    <3> QED BY <1>5, <3>1
  <2>2. 0..j \in T OBVIOUS
  <2>3. <<0..j, 0..k>> \in R BY <2>1 DEF StrictSubsetOrdering
  <2> QED BY <1>3, <1>4, <2>2, <2>3
<1> QED BY <1>5

\* A list of distinct nodes is no longer than there are nodes.
LEMMA ListLength ==
    ASSUME NEW n \in Nat, NEW list \in [1..n -> Segments],
           \A i, j \in 1..n : list[i] = list[j] => i = j
    PROVE  n <= Cardinality(Segments)
<1>1. list \in Injection(1..n, Segments) BY DEF Injection, IsInjective
<1>2. Cardinality(1..n) <= Cardinality(Segments) BY <1>1, FS_Injection
<1>3. Cardinality(1..n) = n
  <2>1. 1 \in Int /\ n \in Int /\ n - 1 + 1 = n /\ (1 > n => n = 0) OBVIOUS
  <2> QED BY <2>1, FS_Interval
<1> QED BY <1>2, <1>3

\* The equation of Walk.
LEMMA WalkEquation ==
    (\E g : g = [k \in 0..Cardinality(Segments) |->
              IF k = 0 THEN allocs ELSE IF g[k - 1] = NULL THEN NULL ELSE next[g[k - 1]]])
    => Walk = [k \in 0..Cardinality(Segments) |->
                  IF k = 0 THEN allocs ELSE IF Walk[k - 1] = NULL THEN NULL ELSE next[Walk[k - 1]]]
BY Zenon DEF Walk

\* A walk meets the nodes in their order, and then nothing.
LEMMA WalkOrder ==
    ASSUME NEW n \in Nat, NEW list \in [1..n -> Segments], InOrder(list, n)
    PROVE  /\ DOMAIN Walk = 0..Cardinality(Segments)
           /\ \A k \in 0..Cardinality(Segments) : Walk[k] = IF k < n THEN list[k + 1] ELSE NULL
<1> DEFINE N == Cardinality(Segments)
           g == [k \in 0..N |-> IF k < n THEN list[k + 1] ELSE NULL]
<1>1. N \in Nat BY FS_CardinalityType
<1>2. \A i \in 1..n : list[i] # NULL BY DEF InOrder
<1>3. /\ allocs = IF n = 0 THEN NULL ELSE list[1]
      /\ \A i \in 1..n : next[list[i]] = IF i = n THEN NULL ELSE list[i + 1]
  BY DEF InOrder
<1> HIDE DEF N
\* The walk in question solves the equation of Walk.
<1>4. \A k \in 0..N : g[k] = IF k = 0 THEN allocs ELSE IF g[k - 1] = NULL THEN NULL ELSE next[g[k - 1]]
  <2> SUFFICES ASSUME NEW k \in 0..N
               PROVE  g[k] = IF k = 0 THEN allocs ELSE IF g[k - 1] = NULL THEN NULL ELSE next[g[k - 1]]
    OBVIOUS
  <2>1. CASE k = 0 BY <1>1, <1>3, <2>1
  <2>2. CASE k # 0
    <3>1. k - 1 \in 0..N /\ (k - 1) + 1 = k BY <1>1, <2>2
    <3>2. g[k - 1] = IF k - 1 < n THEN list[k] ELSE NULL BY <3>1
    <3>3. CASE k - 1 < n
      <4>1. k \in 1..n /\ (k = n <=> ~(k < n)) BY <1>1, <2>2, <3>3
      <4> QED BY <1>2, <1>3, <2>2, <3>2, <3>3, <4>1
    <3>4. CASE ~(k - 1 < n)
      <4>1. ~(k < n) BY <1>1, <3>4
      <4> QED BY <2>2, <3>2, <3>4, <4>1
    <3> QED BY <3>3, <3>4
  <2> QED BY <2>1, <2>2
<1>5. g = [k \in 0..N |-> IF k = 0 THEN allocs ELSE IF g[k - 1] = NULL THEN NULL ELSE next[g[k - 1]]]
  <2>1. g = [k \in 0..N |-> g[k]] OBVIOUS
  <2> HIDE DEF g
  <2> QED BY <1>4, <2>1
<1> HIDE DEF g
<1>6. Walk = [k \in 0..N |->
                IF k = 0 THEN allocs ELSE IF Walk[k - 1] = NULL THEN NULL ELSE next[Walk[k - 1]]]
  <2>1. \E h : h = [k \in 0..N |->
                      IF k = 0 THEN allocs ELSE IF h[k - 1] = NULL THEN NULL ELSE next[h[k - 1]]]
    BY <1>5
  <2> QED BY <2>1, WalkEquation, Zenon DEF N
\* And there is no other.
<1>7. \A k \in 0..N : Walk[k] = g[k]
  <2> DEFINE B == {k \in 0..N : Walk[k] # g[k]}
  <2> SUFFICES ASSUME B # {} PROVE FALSE
    OBVIOUS
  <2>1. PICK k \in B : \A j \in B : k <= j
    <3>1. B \in SUBSET (0..N) OBVIOUS
    <3> HIDE DEF B
    <3> QED BY <1>1, <3>1, Smallest
  <2>2. k \in 0..N /\ Walk[k] # g[k] OBVIOUS
  <2>3. k # 0 BY <1>4, <1>6, <2>2
  <2>4. k - 1 \in 0..N /\ k - 1 \notin B BY <1>1, <2>1, <2>2, <2>3
  <2>5. Walk[k - 1] = g[k - 1] BY <2>4
  <2> QED BY <1>4, <1>6, <2>2, <2>3, <2>5
<1> QED BY <1>6, <1>7 DEF g, N

-----------------------------------------------------------------------------
\* The list holds the segments that are allocated, all of them and no other,
\* linked both ways while transactions may run, and tm_destroy leaves none.
THEOREM ListStaysIntact == Spec => []ListIntact
<1>1. Spec => []Listed
  <2>1. SerialInv /\ Listed /\ [Next]_vars => Listed' BY NextListed DEF SerialInv
  <2> QED BY <2>1, InitListed, ReferenceInvariant, PTL DEF Spec
<1>2. SerialInv /\ Listed => ListIntact
  <2> SUFFICES ASSUME SerialInv, Listed PROVE ListIntact
    OBVIOUS
  <2>1. PICK n \in Nat : \E list \in [1..n -> Segments] : InOrder(list, n) BY DEF Listed
  <2>2. PICK list \in [1..n -> Segments] : InOrder(list, n) BY <2>1
  <2>3. /\ \A i, j \in 1..n : list[i] = list[j] => i = j
        /\ allocated = {list[i] : i \in 1..n}
        /\ allocs = IF n = 0 THEN NULL ELSE list[1]
        /\ \A i \in 1..n : next[list[i]] = IF i = n THEN NULL ELSE list[i + 1]
        /\ \A i \in 1..n : list[i] # NULL
    BY <2>2 DEF InOrder
  <2>4. {Walk[k] : k \in DOMAIN Walk} \ {NULL} = allocated
    <3>1. n <= Cardinality(Segments) /\ Cardinality(Segments) \in Nat
      BY <2>3, ListLength, FS_CardinalityType
    <3>2. \A k \in 0..Cardinality(Segments) : Walk[k] = IF k < n THEN list[k + 1] ELSE NULL
      BY <2>2, WalkOrder
    <3>3. DOMAIN Walk = 0..Cardinality(Segments) BY <2>2, WalkOrder
    <3>4. \A k \in DOMAIN Walk : Walk[k] # NULL => Walk[k] \in allocated
      <4>1. \A k \in 0..Cardinality(Segments) : k < n => k + 1 \in 1..n BY <3>1
      <4> QED BY <2>3, <3>2, <3>3, <4>1
    <3>5. ASSUME NEW i \in 1..n PROVE list[i] \in {Walk[k] : k \in DOMAIN Walk}
      <4>1. i - 1 \in 0..Cardinality(Segments) /\ i - 1 < n /\ (i - 1) + 1 = i BY <3>1
      <4> QED BY <3>2, <3>3, <4>1
    <3> QED BY <2>3, <3>4, <3>5
  <2>5. ASSUME region = "open", NEW s \in allocated
        PROVE  IF s = allocs THEN prev[s] = NULL ELSE prev[s] # NULL /\ next[prev[s]] = s
    <3>1. PICK i \in 1..n : s = list[i] BY <2>3
    <3>2. prev[s] = IF i = 1 THEN NULL ELSE list[i - 1] BY <2>2, <2>5, <3>1 DEF InOrder
    <3>3. CASE i = 1
      <4>1. s = allocs BY <2>3, <3>1, <3>3
      <4> QED BY <3>2, <3>3, <4>1
    <3>4. CASE i # 1
      <4>1. i - 1 \in 1..n /\ i - 1 # n /\ (i - 1) + 1 = i /\ n # 0 /\ 1 \in 1..n BY <3>4
      <4>2. s # allocs BY <2>3, <3>1, <3>4, <4>1
      <4>3. next[list[i - 1]] = list[i] /\ list[i - 1] # NULL BY <2>3, <4>1
      <4> QED BY <3>1, <3>2, <3>4, <4>2, <4>3
    <3> QED BY <3>3, <3>4
  <2>6. region = "closed" => allocated = {} /\ readers = {} /\ writer = Nobody
    <3>1. region = "closed" => n = 0 BY <2>2 DEF InOrder
    <3> QED BY <2>3, <3>1 DEF SerialInv, LockHeld, Nobody
  <2> QED BY <2>4, <2>5, <2>6 DEF ListIntact
<1> QED BY <1>1, <1>2, ReferenceInvariant, PTL

=============================================================================
