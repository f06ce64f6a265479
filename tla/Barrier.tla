------------------------------- MODULE Barrier -------------------------------
(***************************************************************************)
(* The spin barrier of grading/common.hpp, used again and again by the     *)
(* same threads: they count themselves in, the last one opens it; they     *)
(* count themselves out, and the last one closes it for the next time.     *)
(***************************************************************************)
EXTENDS Integers, FiniteSets

CONSTANT Threads    \* finite, and at least one

cardinal == Cardinality(Threads)

VARIABLES
    step, mode,   \* the members
    at,           \* where each thread is in sync
    syncs         \* history: how many times each thread has called sync

vars == <<step, mode, at, syncs>>

Init ==
    /\ step = 0
    /\ mode = "enter"
    /\ at = [t \in Threads |-> "out"]
    /\ syncs = [t \in Threads |-> 0]

Go(t, to) == at' = [at EXCEPT ![t] = to]

\* The fetch_add: the last to come opens the barrier, the others wait for that.
Enter(t) ==
    /\ at[t] = "out"
    /\ step' = step + 1
    /\ Go(t, IF step + 1 = cardinal THEN "open" ELSE "wait_open")
    /\ syncs' = [syncs EXCEPT ![t] = @ + 1]
    /\ UNCHANGED mode

Open(t) ==
    /\ at[t] = "open"
    /\ mode' = "leave"
    /\ Go(t, "leave")
    /\ UNCHANGED <<step, syncs>>

\* Fault: a thread goes on as soon as everybody has been counted in or out.
SeeAnything(t) ==
    /\ at[t] = "wait_open"
    /\ Go(t, "leave")
    /\ UNCHANGED <<step, mode, syncs>>

SeeOpen(t) ==
    /\ at[t] = "wait_open"
    /\ mode = "leave"
    /\ Go(t, "leave")
    /\ UNCHANGED <<step, mode, syncs>>

\* Fault: only the last to leave looks at the mode; the others are out at once.
LeaveAtOnce(t) ==
    /\ at[t] = "leave"
    /\ step' = step - 1
    /\ Go(t, IF step - 1 = 0 THEN "close" ELSE "out")
    /\ UNCHANGED <<mode, syncs>>

\* The fetch_sub, and the same the other way round.
Leave(t) ==
    /\ at[t] = "leave"
    /\ step' = step - 1
    /\ Go(t, IF step - 1 = 0 THEN "close" ELSE "wait_close")
    /\ UNCHANGED <<mode, syncs>>

Close(t) ==
    /\ at[t] = "close"
    /\ mode' = "enter"
    /\ Go(t, "out")
    /\ UNCHANGED <<step, syncs>>

SeeClosed(t) ==
    /\ at[t] = "wait_close"
    /\ mode = "enter"
    /\ Go(t, "out")
    /\ UNCHANGED <<step, mode, syncs>>

\* sync, once it has been called.
Pass(t) == Open(t) \/ SeeOpen(t) \/ Leave(t) \/ Close(t) \/ SeeClosed(t)

Next == \E t \in Threads : Enter(t) \/ Pass(t)

Spec == Init /\ [][Next]_vars

-----------------------------------------------------------------------------
TypeOK ==
    /\ step \in 0..cardinal
    /\ mode \in {"enter", "leave"}
    /\ at \in [Threads -> {"out", "open", "wait_open", "leave", "close", "wait_close"}]
    /\ syncs \in [Threads -> Nat]

\* Nobody gets past the barrier before everybody has called it as often: a fast
\* thread that comes back finds neither the mode nor the count of the last time.
NobodyPassesAlone ==
    \A t \in Threads : at[t] \notin {"open", "wait_open"} =>
        \A u \in Threads : syncs[t] <= syncs[u]

=============================================================================
