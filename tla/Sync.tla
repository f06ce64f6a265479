-------------------------------- MODULE Sync --------------------------------
(***************************************************************************)
(* How grading/grading.cpp runs a workload: class Sync, the latch of       *)
(* common.hpp, and the master's side of measure.  The master starts a      *)
(* round, every worker makes one call of the workload in it, and the last  *)
(* worker to return wakes the master.  A step is one access to an atomic;  *)
(* the latch is a flag under a mutex, so each of its methods is one step.  *)
(***************************************************************************)
EXTENDS Integers, FiniteSets

CONSTANTS
    Workers,
    nbrepeats    \* rounds of measurement, between the initialization and the check

nbworkers == Cardinality(Workers)

\* The initialization, the measurements, the check.
Rounds == nbrepeats + 2

VARIABLES
    \* Sync
    nbready, status, errmsg,
    start, total,     \* runtime: the round it was last started in, the rounds it has added up
    raised,           \* the latch
    \* measure
    timed,            \* a maximum duration is given
    master, round,    \* where the master is, and the round it is in
    result,           \* what it returns
    at,               \* where each worker is
    outcome,          \* what its call of the workload has returned
    \* history
    calls,            \* how many calls of the workload each worker has begun
    failed            \* <<w, what>>: the call of worker w in this round has failed

runtime == <<start, total>>
locals  == <<timed, round, result>>
history == <<calls, failed>>
vars == <<nbready, status, errmsg, runtime, raised, locals, master, at, outcome, history>>

Init ==
    /\ nbready = 0 /\ status = "Done" /\ errmsg = "none"
    /\ start = 0 /\ total = {}
    /\ raised = FALSE
    /\ timed \in BOOLEAN
    /\ master = "notify" /\ round = 1 /\ result = "none"
    /\ at = [w \in Workers |-> "wait"]
    /\ outcome = [w \in Workers |-> "none"]
    /\ calls = [w \in Workers |-> 0]
    /\ failed = {}

\* The process runs until a timeout makes main leave with quick_exit.
Alive == master # "exit"

Go(w, to) == at' = [at EXCEPT ![w] = to]

-----------------------------------------------------------------------------
(* The master *)

\* master_notify: the status, then the clock.
Notify ==
    /\ master = "notify"
    /\ status' = "Wait"
    /\ failed' = {}
    /\ master' = "start"
    /\ UNCHANGED <<nbready, errmsg, runtime, raised, locals, at, outcome, calls>>

StartClock ==
    /\ master = "start"
    /\ start' = round
    /\ master' = "latch"
    /\ UNCHANGED <<nbready, status, errmsg, total, raised, locals, at, outcome, history>>

\* Fault: the latch stays raised.
WaitNoReset ==
    /\ master = "latch"
    /\ raised
    /\ master' = "collect"
    /\ UNCHANGED <<nbready, status, errmsg, runtime, raised, locals, at, outcome, history>>

\* master_wait: Latch::wait resets the latch ...
Wait ==
    /\ master = "latch"
    /\ raised
    /\ raised' = FALSE
    /\ master' = "collect"
    /\ UNCHANGED <<nbready, status, errmsg, runtime, locals, at, outcome, history>>

\* ... or gives up, and the process ends.
TimeOut ==
    /\ master = "latch"
    /\ timed /\ ~raised
    /\ master' = "exit"
    /\ UNCHANGED <<nbready, status, errmsg, runtime, raised, locals, at, outcome, history>>

\* The switch over the status.
Collect ==
    /\ master = "collect"
    /\ \/ /\ status = "Done"
          /\ round < Rounds
          /\ round' = round + 1
          /\ master' = "notify"
          /\ UNCHANGED result
       \/ /\ status = "Done"
          /\ round = Rounds
          /\ master' = "join"
          /\ UNCHANGED <<round, result>>
       \/ /\ status = "Fail"
          /\ result' = errmsg
          /\ master' = "join"
          /\ UNCHANGED round
    /\ UNCHANGED <<nbready, status, errmsg, runtime, raised, timed, at, outcome, history>>

\* master_join ...
Quit ==
    /\ master = "join"
    /\ status' = "Quit"
    /\ master' = "joining"
    /\ UNCHANGED <<nbready, errmsg, runtime, raised, locals, at, outcome, history>>

\* ... and the joins of the threads.
Join ==
    /\ master = "joining"
    /\ \A w \in Workers : at[w] = "gone"
    /\ master' = "done"
    /\ UNCHANGED <<nbready, status, errmsg, runtime, raised, locals, at, outcome, history>>

-----------------------------------------------------------------------------
(* worker_wait *)

\* Fault: a worker takes part again in a round that still runs.
SeeWaitOrRun(w) ==
    /\ at[w] = "wait"
    /\ status \in {"Wait", "Run"}
    /\ Go(w, "arrive")
    /\ UNCHANGED <<nbready, status, errmsg, runtime, raised, locals, master, outcome, history>>

SeeWait(w) ==
    /\ at[w] = "wait"
    /\ status = "Wait"
    /\ Go(w, "arrive")
    /\ UNCHANGED <<nbready, status, errmsg, runtime, raised, locals, master, outcome, history>>

SeeQuit(w) ==
    /\ at[w] = "wait"
    /\ status = "Quit"
    /\ Go(w, "gone")
    /\ UNCHANGED <<nbready, status, errmsg, runtime, raised, locals, master, outcome, history>>

Arrive(w) ==
    /\ at[w] = "arrive"
    /\ nbready' = nbready + 1
    /\ Go(w, IF nbready + 1 = nbworkers THEN "reset" ELSE "wait_run")
    /\ UNCHANGED <<status, errmsg, runtime, raised, locals, master, outcome, history>>

\* Fault: the count is reset after the start.
ResetLater(w) ==
    /\ at[w] = "reset"
    /\ status' = "Run"
    /\ Go(w, "run")
    /\ calls' = [calls EXCEPT ![w] = @ + 1]
    /\ UNCHANGED <<nbready, errmsg, runtime, raised, locals, master, outcome, failed>>

Reset(w) ==
    /\ at[w] = "reset"
    /\ nbready' = 0
    /\ Go(w, "start")
    /\ UNCHANGED <<status, errmsg, runtime, raised, locals, master, outcome, history>>

\* The call of the workload begins.
StartRun(w) ==
    /\ at[w] = "start"
    /\ status' = "Run"
    /\ Go(w, "run")
    /\ calls' = [calls EXCEPT ![w] = @ + 1]
    /\ UNCHANGED <<nbready, errmsg, runtime, raised, locals, master, outcome, failed>>

\* Fault: a worker that comes late misses the start when another has failed since.
SeeRunOnly(w) ==
    /\ at[w] = "wait_run"
    /\ status = "Run"
    /\ Go(w, "run")
    /\ calls' = [calls EXCEPT ![w] = @ + 1]
    /\ UNCHANGED <<nbready, status, errmsg, runtime, raised, locals, master, outcome, failed>>

SeeRun(w) ==
    /\ at[w] = "wait_run"
    /\ status \in {"Run", "Abort"}
    /\ Go(w, "run")
    /\ calls' = [calls EXCEPT ![w] = @ + 1]
    /\ UNCHANGED <<nbready, status, errmsg, runtime, raised, locals, master, outcome, failed>>

-----------------------------------------------------------------------------
(* worker_notify *)

\* The call has returned, reported an error, or thrown an exception.
Return(w, what) ==
    /\ at[w] = "run"
    /\ outcome' = [outcome EXCEPT ![w] = what]
    /\ failed' = IF what = "ok" THEN failed ELSE failed \cup {<<w, what>>}
    /\ Go(w, IF what = "ok" THEN "count" ELSE "error")
    /\ UNCHANGED <<nbready, status, errmsg, runtime, raised, locals, master, calls>>

StoreError(w) ==
    /\ at[w] = "error"
    /\ errmsg' = outcome[w]
    /\ Go(w, "abort")
    /\ UNCHANGED <<nbready, status, runtime, raised, locals, master, outcome, history>>

Abort(w) ==
    /\ at[w] = "abort"
    /\ status' = "Abort"
    /\ Go(w, "count")
    /\ UNCHANGED <<nbready, errmsg, runtime, raised, locals, master, outcome, history>>

\* A worker whose call has thrown does not come back.
Leave(w) ==
    /\ outcome' = [outcome EXCEPT ![w] = "none"]
    /\ Go(w, IF outcome[w] = "exception" THEN "gone" ELSE "wait")

Count(w) ==
    /\ at[w] = "count"
    /\ nbready' = nbready + 1
    /\ \/ /\ nbready + 1 # nbworkers
          /\ Leave(w)
       \/ /\ nbready + 1 = nbworkers
          /\ Go(w, "reset_done")
          /\ UNCHANGED outcome
    /\ UNCHANGED <<status, errmsg, runtime, raised, locals, master, history>>

ResetDone(w) ==
    /\ at[w] = "reset_done"
    /\ nbready' = 0
    /\ Go(w, "verdict")
    /\ UNCHANGED <<status, errmsg, runtime, raised, locals, master, outcome, history>>

\* Fault: the round ends well whatever the workers said.
VerdictDone(w) ==
    /\ at[w] = "verdict"
    /\ status' = "Done"
    /\ Go(w, "stop")
    /\ UNCHANGED <<nbready, errmsg, runtime, raised, locals, master, outcome, history>>

\* A load and a store of the status, which nobody else writes now: every worker
\* has been counted, and the master waits.
Verdict(w) ==
    /\ at[w] = "verdict"
    /\ status' = IF status = "Abort" THEN "Fail" ELSE "Done"
    /\ Go(w, "stop")
    /\ UNCHANGED <<nbready, errmsg, runtime, raised, locals, master, outcome, history>>

\* runtime.stop: a segment is added to the total, from its start to this round.
StopClock(w) ==
    /\ at[w] = "stop"
    /\ total' = total \cup {<<start, calls[w]>>}
    /\ Go(w, "raise")
    /\ UNCHANGED <<nbready, status, errmsg, start, raised, locals, master, outcome, history>>

Raise(w) ==
    /\ at[w] = "raise"
    /\ raised' = TRUE
    /\ Leave(w)
    /\ UNCHANGED <<nbready, status, errmsg, runtime, locals, master, history>>

-----------------------------------------------------------------------------
Master == Notify \/ StartClock \/ Wait \/ TimeOut \/ Collect \/ Quit \/ Join

\* What a worker does between two calls of the workload.
Between(w) ==
    \/ SeeWait(w) \/ SeeQuit(w) \/ Arrive(w) \/ Reset(w) \/ StartRun(w) \/ SeeRun(w)
    \/ StoreError(w) \/ Abort(w) \/ Count(w) \/ ResetDone(w) \/ Verdict(w)
    \/ StopClock(w) \/ Raise(w)

Next ==
    \/ Master
    \/ Alive /\ \E w \in Workers :
                    Between(w) \/ \E what \in {"ok", "error", "exception"} : Return(w, what)

Spec == Init /\ [][Next]_vars

-----------------------------------------------------------------------------
Statuses == {"Wait", "Run", "Abort", "Done", "Fail", "Quit"}

TypeOK ==
    /\ nbready \in 0..nbworkers
    /\ status \in Statuses
    /\ errmsg \in {"none", "error", "exception"}
    /\ start \in 0..Rounds /\ total \subseteq (0..Rounds) \X (1..Rounds)
    /\ raised \in BOOLEAN /\ timed \in BOOLEAN
    /\ master \in {"notify", "start", "latch", "collect", "join", "joining", "done", "exit"}
    /\ round \in 1..Rounds
    /\ result \in {"none", "error", "exception"}
    /\ at \in [Workers -> {"wait", "arrive", "reset", "start", "wait_run", "run", "error",
                           "abort", "count", "reset_done", "verdict", "stop", "raise", "gone"}]
    /\ outcome \in [Workers -> {"none", "ok", "error", "exception"}]
    /\ calls \in [Workers -> 0..Rounds]
    /\ failed \subseteq Workers \X {"error", "exception"}

\* Worker w is inside its call of the workload, or has not been counted since.
Running(w) == at[w] \in {"run", "error", "abort", "count"}

\* Calls of different rounds never overlap: while a worker is in its call, every
\* other worker is in the call of the same round, has returned from it, or has
\* been counted in and is about to make it.
RoundsTogether ==
    \A w \in Workers : Running(w) =>
        \A u \in Workers : calls[u] = round \/ at[u] = "wait_run"

\* The master wakes after the last call of its round, with the verdict on all of
\* them: a failure of any worker, in whatever order they store the status, is
\* neither lost nor invented; and measure returns an error one of them reported.
VerdictIsTrue ==
    /\ master = "collect" =>
          /\ status = (IF failed = {} THEN "Done" ELSE "Fail")
          /\ \A w \in Workers : ~Running(w)
    /\ master = "done" =>
          IF failed = {} THEN result = "none" ELSE \E w \in Workers : <<w, result>> \in failed

\* "Runtime between 'master_notify' and when the last worker finished"
\* (grading.cpp:59): the time the master reads counts no round but its own.
RoundTimed == master = "collect" => \A segment \in total : segment[2] = round

=============================================================================
