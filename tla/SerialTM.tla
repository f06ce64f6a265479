------------------------------ MODULE SerialTM ------------------------------
(***************************************************************************)
(* What a transactional memory promises to the threads of a program, with  *)
(* no lock and no memory in it: transactions that commit take effect one   *)
(* after the other, each in a slot of a serial order that it takes while it *)
(* runs, and each has read what the transactions before it have left.      *)
(*                                                                         *)
(* A transaction takes its slot before it is known whether it commits: an  *)
(* update may reach the history after updates of later slots have, and it  *)
(* may then change nothing that a committed transaction has relied on.     *)
(***************************************************************************)
EXTENDS Integers, FiniteSets

CONSTANTS Threads, Words, Values, InitValue

VARIABLES
    clock,           \* slots taken
    serial,          \* serial[k]: the words after the transactions of the first k slots
    committed_reads, \* <<k, w, v>>: a committed transaction behind k slots read v in w
    view,            \* view[t]: a serial state the transaction of t may stand behind
    slot             \* slot[t]: the slot it has taken, -1 if none

vars == <<clock, serial, committed_reads, view, slot>>

NoTransaction == -1
Running(t) == view[t] # NoTransaction

Init ==
    /\ clock = 0
    /\ serial = [k \in 0..0 |-> [w \in Words |-> InitValue]]
    /\ committed_reads = {}
    /\ view = [t \in Threads |-> NoTransaction]
    /\ slot = [t \in Threads |-> -1]

\* A transaction stands behind all that had taken a slot when it began: what
\* committed before it began is before it in the serial order.
Begin(t) ==
    /\ ~Running(t)
    /\ view' = [view EXCEPT ![t] = clock]
    /\ UNCHANGED <<clock, serial, committed_reads, slot>>

\* It may move to a later place, never to an earlier one.
Advance(t) ==
    /\ Running(t) /\ slot[t] = -1
    /\ \E k \in view[t]..clock : view' = [view EXCEPT ![t] = k]
    /\ UNCHANGED <<clock, serial, committed_reads, slot>>

TakeSlot(t) ==
    /\ Running(t) /\ slot[t] = -1
    /\ clock' = clock + 1
    /\ slot' = [slot EXCEPT ![t] = clock + 1]
    /\ serial' = [k \in 0..(clock + 1) |-> serial[IF k <= clock THEN k ELSE clock]]
    /\ UNCHANGED <<committed_reads, view>>

End(t) ==
    /\ view' = [view EXCEPT ![t] = NoTransaction]
    /\ slot' = [slot EXCEPT ![t] = -1]

\* Every read of a committed transaction is what its place in the order holds.
Legal == \A r \in committed_reads : serial[r[1]][r[2]] = r[3]

CommitUpdate(t) ==
    /\ Running(t) /\ slot[t] # -1
    /\ \E reads \in SUBSET (Words \X Values), written \in SUBSET Words :
       \E new \in [written -> Values] :
          /\ serial' = [k \in 0..clock |->
                          IF k < slot[t] THEN serial[k]
                          ELSE [w \in Words |-> IF w \in written THEN new[w] ELSE serial[k][w]]]
          /\ committed_reads' = committed_reads \cup {<<slot[t] - 1, r[1], r[2]>> : r \in reads}
    /\ Legal'
    /\ End(t)
    /\ UNCHANGED clock

CommitReadOnly(t) ==
    /\ Running(t) /\ slot[t] = -1
    /\ \E reads \in SUBSET (Words \X Values) :
          committed_reads' = committed_reads \cup {<<view[t], r[1], r[2]>> : r \in reads}
    /\ End(t)
    /\ UNCHANGED <<clock, serial>>
    /\ Legal'

Abort(t) ==
    /\ Running(t)
    /\ End(t)
    /\ UNCHANGED <<clock, serial, committed_reads>>

Next == \E t \in Threads :
    \/ Begin(t) \/ Advance(t) \/ TakeSlot(t)
    \/ CommitUpdate(t) \/ CommitReadOnly(t) \/ Abort(t)

Spec == Init /\ [][Next]_vars

=============================================================================
