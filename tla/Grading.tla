------------------------------- MODULE Grading -------------------------------
(***************************************************************************)
(* measure of grading/grading.cpp: the master and the workers of Sync, the *)
(* workers calling init, run and check of the bank, against a library that *)
(* keeps the promise of include/tm.h.  A transaction may be refused, and   *)
(* the worker then leaves its call by an exception.                        *)
(***************************************************************************)
EXTENDS Integers, FiniteSets

CONSTANTS
    Workers, First,
    nbrepeats,
    nbaccounts, init_balance, nbtxperwrk,
    CheckTx,
    MaxExceptions    \* bound: transactions refused

ASSUME WorkersAssumption  == IsFiniteSet(Workers) /\ First \in Workers
ASSUME RepeatsAssumption  == nbrepeats \in Nat \ {0}
ASSUME AccountsAssumption == nbaccounts \in Nat \ {0} /\ init_balance \in Nat
ASSUME LengthAssumption   == nbtxperwrk \in Nat /\ CheckTx \in Nat \ {0}
ASSUME BoundAssumption    == MaxExceptions \in Nat

VARIABLES
    \* Sync, and the master's side of measure
    nbready, status, errmsg, start, total, raised, timed, master, round, result, at, outcome,
    calls, failed,
    \* the bank
    segments, tx, left, size, send_id, recv_id,
    \* the check
    step, mode, place, syncs, counter, pc, todo, last, correct,
    \* history: the workers that have left a call by an exception, and the round
    thrown

Sync == INSTANCE Sync
Bank == INSTANCE Bank WITH todo <- left
Check == INSTANCE Check

sync == <<nbready, status, errmsg, start, total, raised, timed, master, round, result, at,
          outcome, calls, failed>>
bank == <<segments, tx, left, size, send_id, recv_id>>
barrier == <<step, mode, place, syncs>>
check == <<barrier, counter, pc, todo, last, correct>>

vars == <<sync, bank, check, thrown>>

Init == Sync!Init /\ Bank!Init /\ Check!Init /\ thrown = {}

Error(correct_) == IF correct_ THEN "ok" ELSE "error"

-----------------------------------------------------------------------------
(* What worker w does inside its call, by the round it was made for. *)

CallsInit(w)  == at[w] = "run" /\ calls[w] = 1
CallsRun(w)   == at[w] = "run" /\ calls[w] \in 2..(Sync!Rounds - 1)
CallsCheck(w) == at[w] = "run" /\ calls[w] = Sync!Rounds

DoInit(w) ==
    /\ CallsInit(w)
    /\ \/ Bank!InitWrite(w) /\ UNCHANGED sync
       \/ Bank!InitCheck(w) /\ Sync!Return(w, Error(Bank!InitCorrect))
    /\ UNCHANGED <<check, thrown>>

DoRun(w) ==
    /\ CallsRun(w)
    /\ \/ (Bank!BeginRun(w) \/ Bank!Run(w)) /\ UNCHANGED sync
       \/ /\ Bank!Long(w)
          /\ IF Bank!Consistent THEN UNCHANGED sync ELSE Sync!Return(w, "error")
       \/ Bank!LastLong(w) /\ Sync!Return(w, Error(Bank!Consistent))
    /\ UNCHANGED <<check, thrown>>

DoCheck(w) ==
    /\ CallsCheck(w)
    /\ \/ (Check!Begin(w) \/ Check!Run(w)) /\ UNCHANGED sync
       \/ Check!Final(w) /\ Sync!Return(w, Error(Check!FoundCorrect(w)))
    /\ UNCHANGED <<bank, thrown>>

\* A transaction is refused: TransactionBegin, TransactionAlloc.
Throw(w) ==
    /\ at[w] = "run"
    /\ CallsInit(w) \/ Bank!Transacting(w) \/ Check!Transacting(w)
    /\ Cardinality(thrown) < MaxExceptions
    /\ Sync!Return(w, "exception")
    /\ Bank!Leave(w) /\ Check!Leave(w)
    /\ thrown' = thrown \cup {<<w, round>>}
    /\ UNCHANGED <<segments, barrier, counter>>

Worker(w) ==
    \/ Sync!Between(w) /\ UNCHANGED <<bank, check, thrown>>
    \/ DoInit(w) \/ DoRun(w) \/ DoCheck(w)

Next ==
    \/ Sync!Master /\ UNCHANGED <<bank, check, thrown>>
    \/ Sync!Alive /\ \E w \in Workers : Worker(w) \/ Throw(w)

Spec == Init /\ [][Next]_vars

\* Every thread is scheduled.  A transaction is not aborted for ever, and some
\* draw of short_tx is one of accounts that are there, as the first always is.
Commits(w) == at[w] = "run" /\ Bank!ShortCommit(w) /\ UNCHANGED <<sync, check, thrown>>
DrawsFirst(w) == at[w] = "run" /\ Bank!Draw(w, 0, 0) /\ UNCHANGED <<sync, check, thrown>>

Fairness ==
    /\ WF_vars(Sync!Master /\ UNCHANGED <<bank, check, thrown>>)
    /\ \A w \in Workers : /\ WF_vars(Sync!Alive /\ Worker(w))
                          /\ WF_vars(Sync!Alive /\ Commits(w))
                          /\ SF_vars(Sync!Alive /\ DrawsFirst(w))

FairSpec == Spec /\ Fairness

-----------------------------------------------------------------------------
\* Every member has the values of its type: among them, that a worker makes no
\* more calls than there are rounds ("unexpected worker iteration after checks").
TypeOK == Sync!TypeOK /\ Bank!TypeOK /\ Check!TypeOK

\* Calls of different rounds never overlap, though status and nbready are reused
\* at once and stored one after the other.
RoundsTogether == Sync!RoundsTogether

\* The master wakes with the verdict on all the calls of the round.
VerdictIsTrue == Sync!VerdictIsTrue

\* Nobody passes one of the three barriers of check before all have come to it.
NobodyPassesAlone == Check!Barrier!NobodyPassesAlone

\* No money is made or lost, and the list stays one alloc_tx can shrink.
MoneyConserved == Bank!MoneyConserved

\* A library that keeps its promise is never reported to have broken it: no
\* worker's call returns an error, whatever the interleaving of the workload.
NoFalseAlarm == \A w \in Workers : outcome[w] # "error"

\* The runtime the master reads is that of its round.
RoundTimed == Sync!RoundTimed

\* The measure comes to an end: it returns, or times out; unless a worker was
\* thrown out of the check, and no maximum was given: the others wait for it in
\* the barrier, and the master for them.
MeasureEnds ==
    <>(\/ master \in {"done", "exit"}
       \/ ~timed /\ \E w \in Workers : <<w, Sync!Rounds>> \in thrown)

=============================================================================
