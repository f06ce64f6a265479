-------------------------------- MODULE Check --------------------------------
(***************************************************************************)
(* WorkloadBank::check of grading/workload.hpp: the workers count down one *)
(* counter together.  The counter lies over the first word of the bank,    *)
(* which nobody reads any more.  Each transaction is one step, that of its *)
(* commit; the barrier is the one of common.hpp.                           *)
(***************************************************************************)
EXTENDS Integers, FiniteSets

CONSTANTS
    Workers,
    First,         \* the worker whose uid is 0
    CheckTx        \* nbtxperwrk, 100 in the code

VARIABLES
    step, mode, place, syncs,    \* the barrier
    counter,                     \* the first word of the region
    pc,                          \* what each worker does after the barrier it may be in
    todo,                        \* i, down
    last,                        \* the counter as the worker last read it
    correct                      \* what the last transaction it made has returned

Barrier == INSTANCE Barrier WITH Threads <- Workers, at <- place

barrier == <<step, mode, place, syncs>>

locals == <<pc, todo, last, correct>>

vars == <<barrier, counter, locals>>

Init ==
    /\ Barrier!Init
    /\ counter = 0
    /\ pc = [w \in Workers |-> "out"]
    /\ todo = [w \in Workers |-> 0]
    /\ last = [w \in Workers |-> 0]
    /\ correct = [w \in Workers |-> TRUE]

init_counter == CheckTx * Cardinality(Workers)

Go(w, to) == pc' = [pc EXCEPT ![w] = to]

\* It is worker w's turn to do what pc says, after the barrier.
Does(w, what) == place[w] = "out" /\ pc[w] = what

-----------------------------------------------------------------------------
Begin(w) ==
    /\ Does(w, "out")
    /\ Barrier!Enter(w)
    /\ Go(w, IF w = First THEN "init" ELSE "second")
    /\ UNCHANGED <<counter, todo, last, correct>>

InitCounter(w) ==
    /\ Does(w, "init")
    /\ counter' = init_counter
    /\ Go(w, "check")
    /\ UNCHANGED <<barrier, todo, last, correct>>

CheckCounter(w) ==
    /\ Does(w, "check")
    /\ correct' = [correct EXCEPT ![w] = counter = init_counter]
    /\ Go(w, "second")
    /\ UNCHANGED <<barrier, counter, todo, last>>

\* Fault: the others start without the barrier behind the initialization.
SecondSkipped(w) ==
    /\ Does(w, "second")
    /\ Go(w, "read")
    /\ todo' = [todo EXCEPT ![w] = CheckTx]
    /\ UNCHANGED <<barrier, counter, last, correct>>

\* A first worker that has found the counter wrong only follows the barriers.
Second(w) ==
    /\ Does(w, "second")
    /\ Barrier!Enter(w)
    /\ Go(w, IF correct[w] THEN "read" ELSE "third")
    /\ todo' = [todo EXCEPT ![w] = CheckTx]
    /\ UNCHANGED <<counter, last, correct>>

ReadLast(w) ==
    /\ Does(w, "read")
    /\ last' = [last EXCEPT ![w] = counter]
    /\ Go(w, "decrement")
    /\ UNCHANGED <<barrier, counter, todo, correct>>

\* Fault: the counter is decremented from where it was last read.
DecrementLast(w) ==
    /\ Does(w, "decrement")
    /\ counter' = last[w] - 1
    /\ todo' = [todo EXCEPT ![w] = @ - 1]
    /\ Go(w, IF todo[w] > 1 THEN "read" ELSE "third")
    /\ UNCHANGED <<barrier, last, correct>>

Decrement(w) ==
    LET fine == counter <= last[w]
    IN  /\ Does(w, "decrement")
        /\ correct' = [correct EXCEPT ![w] = fine]
        /\ counter' = IF fine THEN counter - 1 ELSE counter
        /\ todo' = [todo EXCEPT ![w] = @ - 1]
        /\ Go(w, IF fine /\ todo[w] > 1 THEN "read" ELSE "third")
        /\ UNCHANGED <<barrier, last>>

Third(w) ==
    /\ Does(w, "third")
    /\ Barrier!Enter(w)
    /\ Go(w, "final")
    /\ UNCHANGED <<counter, todo, last, correct>>

\* The last transaction, of the first worker, and what check returns.
FoundCorrect(w) == correct[w] /\ (w = First => counter = 0)

Leave(w) ==
    /\ pc' = [pc EXCEPT ![w] = "out"]
    /\ todo' = [todo EXCEPT ![w] = 0]
    /\ last' = [last EXCEPT ![w] = 0]
    /\ correct' = [correct EXCEPT ![w] = TRUE]

Final(w) ==
    /\ Does(w, "final")
    /\ Leave(w)
    /\ UNCHANGED <<barrier, counter>>

-----------------------------------------------------------------------------
\* The call of check, until it returns.
Run(w) ==
    \/ Barrier!Pass(w) /\ UNCHANGED <<counter, locals>>
    \/ InitCounter(w) \/ CheckCounter(w) \/ Second(w) \/ ReadLast(w) \/ Decrement(w) \/ Third(w)

\* Worker w is inside a transaction that tm_begin may refuse.
Transacting(w) ==
    /\ place[w] = "out"
    /\ pc[w] \in {"init", "check", "read", "decrement"} \cup (IF w = First THEN {"final"} ELSE {})

TypeOK ==
    /\ Barrier!TypeOK
    /\ counter \in 0..init_counter
    /\ pc \in [Workers -> {"out", "init", "check", "second", "read", "decrement", "third", "final"}]
    /\ todo \in [Workers -> 0..CheckTx]
    /\ last \in [Workers -> 0..init_counter]
    /\ correct \in [Workers -> BOOLEAN]

=============================================================================
