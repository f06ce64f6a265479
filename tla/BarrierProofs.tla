---------------------------- MODULE BarrierProofs ----------------------------
(***************************************************************************)
(* The barrier holds, for any number of threads and however often it is    *)
(* used: step counts the threads inside, and the mode tells on which side  *)
(* of the opening all of them are.                                         *)
(***************************************************************************)
EXTENDS Barrier, FiniteSetTheorems, TLAPS

\* The threads that have been counted in, and not yet out.
Inside == {t \in Threads : at[t] \in {"wait_open", "open", "leave"}}

Places == {"out", "open", "wait_open", "leave", "close", "wait_close"}

Types ==
    /\ mode \in {"enter", "leave"}
    /\ at \in [Threads -> Places]
    /\ syncs \in [Threads -> Nat]

Counted == step = Cardinality(Inside)

\* Nobody is on the far side while the barrier is closed, nor on the near side
\* while it is open; the thread about to turn it is the last one to be counted.
Sides ==
    /\ mode = "enter" => \A t \in Threads : at[t] \in {"out", "wait_open", "open", "wait_close"}
    /\ mode = "leave" => \A t \in Threads : at[t] \in {"wait_open", "leave", "wait_close", "close"}
    /\ \A t \in Threads : at[t] = "open" => Inside = Threads
    /\ \A t \in Threads : at[t] = "close" => Inside = {}
    /\ \A t, u \in Threads : at[t] = at[u] /\ at[t] \in {"open", "close"} => t = u

\* All have synchronized n times, but for those who wait for the next opening.
InRound(n) ==
    \A t \in Threads : syncs[t] = IF mode = "enter" /\ t \in Inside THEN n + 1 ELSE n

Rounds == \E n \in Nat : InRound(n)

IInv == Types /\ Counted /\ Sides /\ Rounds

-----------------------------------------------------------------------------
\* The first state, nobody inside.
LEMMA InitInv ==
    ASSUME IsFiniteSet(Threads), Init
    PROVE  IInv
<1> USE DEF Init
<1>1. Types BY DEF Types, Places
<1>2. Inside = {} BY DEF Inside
<1>3. Counted BY <1>2, FS_EmptySet DEF Counted
<1>4. Sides BY DEF Sides, Inside
<1>5. InRound(0) BY <1>2 DEF InRound
<1> QED BY <1>1, <1>3, <1>4, <1>5 DEF IInv, Rounds

\* Counting a thread in.
LEMMA StepEnter ==
    ASSUME IsFiniteSet(Threads), IInv, NEW t \in Threads, Enter(t)
    PROVE  IInv'
<1> USE DEF IInv, Enter, Go
<1>0. /\ IsFiniteSet(Inside)
      /\ Inside \in SUBSET Threads
      /\ Cardinality(Inside) \in Nat
      /\ Cardinality(Threads) \in Nat
  BY FS_Subset, FS_CardinalityType DEF Inside
<1>1. t \notin Inside /\ mode = "enter" BY DEF Inside, Sides, Types
<1>2. Types' BY DEF Types, Places
<1>3. Inside' = Inside \cup {t} BY <1>2 DEF Inside, Types
<1>4. Counted' BY <1>0, <1>1, <1>3, FS_AddElement DEF Counted
<1>5. Inside # Threads BY <1>1
<1>6. step + 1 = cardinal <=> Inside' = Threads
  <2>1. Inside' \in SUBSET Threads BY <1>0, <1>3
  <2>2. Cardinality(Inside') = step + 1 BY <1>4 DEF Counted
  <2> QED BY <2>1, <2>2, FS_Subset DEF cardinal
<1>7. Sides'
  <2>1. \A u \in Threads : at[u] \notin {"open", "close"} \/ (at[u] = "close" /\ Inside = {})
    BY <1>5 DEF Sides
  <2>2. \A u \in Threads : at[u] \notin {"open", "close", "leave"} BY <1>1, <2>1 DEF Sides
  <2>3. \A u \in Threads : u # t => at'[u] = at[u] BY DEF Types
  <2>4. at'[t] = IF step + 1 = cardinal THEN "open" ELSE "wait_open" BY DEF Types
  <2> QED BY <1>1, <1>6, <2>2, <2>3, <2>4 DEF Sides
<1>8. PICK n \in Nat : InRound(n) BY DEF Rounds
<1>9. InRound(n)' BY <1>1, <1>3, <1>8 DEF InRound, Types
<1> QED BY <1>2, <1>4, <1>7, <1>9 DEF Rounds

\* Opening: all are inside, and begin the same round together.
LEMMA StepOpen ==
    ASSUME IInv, NEW t \in Threads, Open(t)
    PROVE  IInv'
<1> USE DEF IInv, Open, Go
<1>1. Inside = Threads /\ mode = "enter" BY DEF Sides, Types
<1>2. Types' BY DEF Types, Places
<1>3. \A u \in Threads : at'[u] = IF u = t THEN "leave" ELSE at[u] BY DEF Types
<1>4. Inside' = Inside BY <1>3 DEF Inside
<1>5. Counted' BY <1>4 DEF Counted
<1>6. \A u \in Threads : u # t => at[u] = "wait_open"
  <2>1. \A u \in Threads : at[u] \in {"wait_open", "open"} BY <1>1 DEF Sides, Inside
  <2> QED BY <2>1 DEF Sides
<1>7. Sides' BY <1>3, <1>6 DEF Sides
<1>8. PICK n \in Nat : InRound(n) BY DEF Rounds
<1>9. InRound(n + 1)' BY <1>1, <1>8 DEF InRound
<1> QED BY <1>2, <1>5, <1>7, <1>8, <1>9 DEF Rounds

\* Seeing it open.
LEMMA StepSeeOpen ==
    ASSUME IInv, NEW t \in Threads, SeeOpen(t)
    PROVE  IInv'
<1> USE DEF IInv, SeeOpen, Go
<1>1. Types' BY DEF Types, Places
<1>2. \A u \in Threads : at'[u] = IF u = t THEN "leave" ELSE at[u] BY DEF Types
<1>3. Inside' = Inside BY <1>2 DEF Inside
<1>4. Counted' BY <1>3 DEF Counted
<1>5. Sides' BY <1>2, <1>3 DEF Sides
<1>6. PICK n \in Nat : InRound(n) BY DEF Rounds
<1>7. InRound(n)' BY <1>3, <1>6 DEF InRound
<1> QED BY <1>1, <1>4, <1>5, <1>7 DEF Rounds

\* Counting a thread out.
LEMMA StepLeave ==
    ASSUME IsFiniteSet(Threads), IInv, NEW t \in Threads, Leave(t)
    PROVE  IInv'
<1> USE DEF IInv, Leave, Go
<1>0. IsFiniteSet(Inside) /\ Cardinality(Inside) \in Nat
  BY FS_Subset, FS_CardinalityType DEF Inside
<1>1. t \in Inside /\ mode = "leave" BY DEF Inside, Sides, Types
<1>2. Types' BY DEF Types, Places
<1>3. Inside' = Inside \ {t} BY <1>2 DEF Inside, Types
<1>4. Counted' BY <1>0, <1>1, <1>3, FS_RemoveElement DEF Counted
<1>5. step - 1 = 0 <=> Inside' = {}
  <2>1. IsFiniteSet(Inside') BY <1>0, <1>3, FS_RemoveElement
  <2> QED BY <1>4, <2>1, FS_EmptySet DEF Counted
<1>6. Sides'
  <2>1. \A u \in Threads : at[u] \notin {"open", "close"} BY <1>1 DEF Sides
  <2>2. \A u \in Threads : at'[u] = IF u # t THEN at[u] ELSE IF step - 1 = 0 THEN "close" ELSE "wait_close"
    BY DEF Types
  <2> QED BY <1>1, <1>5, <2>1, <2>2 DEF Sides
<1>7. PICK n \in Nat : InRound(n) BY DEF Rounds
<1>8. InRound(n)' BY <1>1, <1>7 DEF InRound
<1> QED BY <1>2, <1>4, <1>6, <1>8 DEF Rounds

\* Closing: nobody is inside, and the round stays the same.
LEMMA StepClose ==
    ASSUME IInv, NEW t \in Threads, Close(t)
    PROVE  IInv'
<1> USE DEF IInv, Close, Go
<1>1. Inside = {} /\ mode = "leave" BY DEF Sides, Types
<1>2. Types' BY DEF Types, Places
<1>3. \A u \in Threads : at'[u] = IF u = t THEN "out" ELSE at[u] BY DEF Types
<1>4. Inside' = Inside BY <1>3 DEF Inside
<1>5. Counted' BY <1>4 DEF Counted
<1>6. \A u \in Threads : u # t => at[u] = "wait_close"
  <2>1. \A u \in Threads : at[u] \in {"wait_close", "close"} BY <1>1 DEF Sides, Inside
  <2> QED BY <2>1 DEF Sides
<1>7. Sides' BY <1>3, <1>6 DEF Sides
<1>8. PICK n \in Nat : InRound(n) BY DEF Rounds
<1>9. InRound(n)' BY <1>1, <1>4, <1>8 DEF InRound
<1> QED BY <1>2, <1>5, <1>7, <1>9 DEF Rounds

\* Seeing it closed.
LEMMA StepSeeClosed ==
    ASSUME IInv, NEW t \in Threads, SeeClosed(t)
    PROVE  IInv'
<1> USE DEF IInv, SeeClosed, Go
<1>1. Types' BY DEF Types, Places
<1>2. \A u \in Threads : at'[u] = IF u = t THEN "out" ELSE at[u] BY DEF Types
<1>3. Inside' = Inside BY <1>2 DEF Inside
<1>4. Counted' BY <1>3 DEF Counted
<1>5. Sides' BY <1>2, <1>3 DEF Sides
<1>6. PICK n \in Nat : InRound(n) BY DEF Rounds
<1>7. InRound(n)' BY <1>3, <1>6 DEF InRound
<1> QED BY <1>1, <1>4, <1>5, <1>7 DEF Rounds

\* Every step, and no step.
LEMMA NextInv ==
    ASSUME IsFiniteSet(Threads), IInv, [Next]_vars
    PROVE  IInv'
<1>1. ASSUME NEW t \in Threads, Enter(t) \/ Pass(t) PROVE IInv'
  BY <1>1, StepEnter, StepOpen, StepSeeOpen, StepLeave, StepClose, StepSeeClosed DEF Pass
<1>2. CASE UNCHANGED vars
  BY <1>2 DEF vars, IInv, Types, Counted, Sides, Rounds, InRound, Inside
<1> QED BY <1>1, <1>2 DEF Next

-----------------------------------------------------------------------------
\* The invariant says that the barrier holds.
LEMMA InvHolds ==
    ASSUME IsFiniteSet(Threads), IInv
    PROVE  TypeOK /\ NobodyPassesAlone
<1>1. TypeOK
  <2>1. Inside \in SUBSET Threads BY DEF Inside
  <2>2. step \in 0..cardinal
    BY <2>1, FS_Subset, FS_CardinalityType DEF IInv, Counted, cardinal
  <2> QED BY <2>2 DEF TypeOK, IInv, Types, Places
<1>2. NobodyPassesAlone
  <2> SUFFICES ASSUME NEW t \in Threads, at[t] \notin {"open", "wait_open"}, NEW u \in Threads
               PROVE  syncs[t] <= syncs[u]
    BY DEF NobodyPassesAlone
  <2>1. PICK n \in Nat : InRound(n) BY DEF IInv, Rounds
  <2>2. ~(mode = "enter" /\ t \in Inside) BY DEF IInv, Sides, Inside
  <2>3. syncs[t] = n BY <2>1, <2>2 DEF InRound
  <2>4. syncs[u] \in {n, n + 1} BY <2>1 DEF InRound
  <2> QED BY <2>3, <2>4
<1> QED BY <1>1, <1>2

\* No thread gets past sync (common.hpp:317-332) before every other has called
\* it as often, for any finite set of threads.
THEOREM BarrierHolds ==
    ASSUME IsFiniteSet(Threads)
    PROVE  Spec => [](TypeOK /\ NobodyPassesAlone)
<1>1. Init => IInv BY InitInv
<1>2. IInv /\ [Next]_vars => IInv' BY NextInv
<1>3. IInv => TypeOK /\ NobodyPassesAlone BY InvHolds
<1> QED BY <1>1, <1>2, <1>3, PTL DEF Spec

=============================================================================
