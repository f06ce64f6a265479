------------------------------- MODULE Driver -------------------------------
(***************************************************************************)
(* main of grading/grading.cpp around the measure: each library is loaded, *)
(* its region created, measured and destroyed, the library unloaded.       *)
(* Creation and destruction are made by a thread of bounded_run            *)
(* (common.hpp), which main waits for and leaves behind when it is late.   *)
(***************************************************************************)
EXTENDS Naturals

CONSTANT LIBRARIES     \* how many libraries are named on the command line

ASSUME LibrariesAssumption == LIBRARIES \in Nat \ {0}

VARIABLES
    lib,       \* the library main is at
    stage,     \* where main is
    error,     \* the measure has returned an error
    module,    \* the handle of dlopen
    runner,    \* where the thread of bounded_run is
    guard,     \* who has bounded_run's mutex
    waiting,   \* main is blocked on its condition variable
    woken,     \* and why it is not any more
    workers,   \* the threads of measure are there
    status     \* of the process

bounded == <<runner, guard, waiting, woken>>
driverVars == <<lib, stage, error, module, bounded, workers, status>>

DriverInit ==
    /\ lib = 1 /\ stage = "load" /\ error = FALSE /\ module = "closed"
    /\ runner = "none" /\ guard = "none" /\ waiting = FALSE /\ woken = "no"
    /\ workers = FALSE
    /\ status = "running"

At(from, to) == stage = from /\ stage' = to

-----------------------------------------------------------------------------
(* bounded_run: the constructor of TransactionalMemory makes tm_create in   *)
(* it, the destructor tm_destroy.                                           *)

\* The mutex is taken before the thread is started.
Spawn(from, to) ==
    /\ At(from, to)
    /\ guard' = "main" /\ runner' = "library"
    /\ UNCHANGED <<lib, error, module, waiting, woken, workers, status>>

InBounded == stage \in {"creating", "destroying"}

\* wait_for gives the mutex back and blocks in one step ...
Wait ==
    /\ InBounded /\ guard = "main" /\ woken = "no"
    /\ guard' = "none" /\ waiting' = TRUE
    /\ UNCHANGED <<lib, stage, error, module, runner, woken, workers, status>>

\* ... is left early, by a spurious wakeup, or late, when the time is over ...
WakeUp(why) ==
    /\ waiting
    /\ waiting' = FALSE /\ woken' = why
    /\ UNCHANGED <<lib, stage, error, module, runner, guard, workers, status>>

\* ... and returns with the mutex.
Resume ==
    /\ InBounded /\ woken # "no" /\ guard = "none"
    /\ guard' = "main"
    /\ UNCHANGED <<lib, stage, error, module, runner, waiting, woken, workers, status>>

\* The thread calls func: TransactionCreate, thrown in it, has no handler there.
Func ==
    /\ runner = "library" /\ module = "open"
    /\ \/ runner' = "notify" /\ UNCHANGED status
       \/ /\ stage \in {"creating", "unwind"}
          /\ runner' = "none" /\ status' = "terminated"
    /\ UNCHANGED <<lib, stage, error, module, guard, waiting, woken, workers>>

\* Fault: the mutex is not taken for the notification.
NotifyUnlocked ==
    /\ runner = "notify" /\ runner' = "done"
    /\ waiting' = FALSE
    /\ woken' = IF waiting THEN "notified" ELSE woken
    /\ UNCHANGED <<lib, stage, error, module, guard, workers, status>>

Notify ==
    /\ runner = "notify" /\ runner' = "done"
    /\ guard = "none"
    /\ waiting' = FALSE
    /\ woken' = IF waiting THEN "notified" ELSE woken
    /\ UNCHANGED <<lib, stage, error, module, guard, workers, status>>

\* Not late, main joins the thread, for as long as it takes and with the mutex.
Join(from, to) ==
    /\ At(from, to)
    /\ guard = "main" /\ woken \in {"notified", "early"}
    /\ runner = "done" /\ runner' = "none"
    /\ guard' = "none" /\ woken' = "no"
    /\ UNCHANGED <<lib, error, module, waiting, workers, status>>

\* Late, it detaches the thread and throws BoundedOverrun.  The destructor is
\* noexcept; from the constructor the exception leaves the body of the loop.
Overrun ==
    /\ InBounded /\ guard = "main" /\ woken = "late"
    /\ guard' = "none"
    /\ IF stage = "creating" THEN stage' = "unwind" /\ UNCHANGED status
                             ELSE status' = "terminated" /\ UNCHANGED stage
    /\ UNCHANGED <<lib, error, module, runner, waiting, woken, workers>>

-----------------------------------------------------------------------------
(* TransactionalLibrary, measure and main *)

\* dlopen or dlsym may fail; nobody closes a library that lacks a symbol.
LoadLibrary ==
    /\ \/ At("load", "create") /\ module' = "open" /\ UNCHANGED status
       \/ At("load", "over") /\ module' \in {"closed", "open"} /\ status' = "1"
    /\ UNCHANGED <<lib, error, bounded, workers>>

StartMeasure ==
    /\ At("measure", "measuring")
    /\ workers' = TRUE
    /\ UNCHANGED <<lib, error, module, bounded, status>>

\* measure has joined its threads.
MeasureReturns ==
    /\ At("measuring", "destroy")
    /\ workers' = FALSE
    /\ error' \in BOOLEAN
    /\ UNCHANGED <<lib, module, bounded, status>>

\* Fault: main returns, as after any other exception.
CatchAndReturn ==
    /\ At("measuring", "unload")
    /\ error' = TRUE
    /\ UNCHANGED <<lib, module, bounded, workers, status>>

\* measure has detached its threads, and throws: quick_exit runs no destructor.
MeasureThrows ==
    /\ stage = "measuring"
    /\ status' = "2"
    /\ UNCHANGED <<lib, stage, error, module, bounded, workers>>

\* The destructor of TransactionalLibrary, and the loop.
UnloadLibrary ==
    /\ stage \in {"unload", "unwind"}
    /\ module' = "closed"
    /\ stage' = CASE stage = "unwind" \/ error \/ lib = LIBRARIES -> "over"
                  [] OTHER -> "load"
    /\ lib' = IF stage' = "load" THEN lib + 1 ELSE lib
    /\ UNCHANGED <<error, bounded, workers, status>>

Exit ==
    /\ stage = "over"
    /\ status' = IF error \/ woken = "late" THEN "1" ELSE "0"
    /\ UNCHANGED <<lib, stage, error, module, bounded, workers>>

Main ==
    \/ LoadLibrary \/ UnloadLibrary \/ Exit
    \/ Spawn("create", "creating") \/ Join("creating", "measure")
    \/ StartMeasure \/ MeasureReturns \/ MeasureThrows
    \/ Spawn("destroy", "destroying") \/ Join("destroying", "unload")
    \/ Wait \/ Resume \/ Overrun

DriverNext == status = "running" /\ (Main \/ Func \/ Notify \/ WakeUp("early") \/ WakeUp("late"))

\* The first library is measured without a maximum, which is derived from its times.
Untimed == stage = "measuring" /\ lib = 1

\* main takes its next step, but for the end of a measure that may last for ever.
Proceed == Main /\ ~Untimed

\* The threads run, and a time that is over is noticed, also by a measure that has
\* a maximum.  Whether the library ever returns is up to it.
DriverFairness ==
    /\ WF_driverVars(status = "running" /\ Proceed)
    /\ WF_driverVars(status = "running" /\ Notify)
    /\ WF_driverVars(status = "running" /\ WakeUp("late"))

DriverSpec == DriverInit /\ [][DriverNext]_driverVars

DriverFairSpec == DriverSpec /\ DriverFairness

-----------------------------------------------------------------------------
DriverTypeOK ==
    /\ lib \in 1..LIBRARIES
    /\ stage \in {"load", "create", "creating", "measure", "measuring", "destroy",
                  "destroying", "unload", "unwind", "over"}
    /\ error \in BOOLEAN /\ workers \in BOOLEAN /\ waiting \in BOOLEAN
    /\ module \in {"closed", "open"}
    /\ runner \in {"none", "library", "notify", "done"}
    /\ guard \in {"none", "main"}
    /\ woken \in {"no", "notified", "early", "late"}
    /\ status \in {"running", "0", "1", "2", "terminated"}

\* The notification of the thread finds main waiting for it, or not late for it:
\* main never waits for a thread that is through.
NotificationNotLost == waiting => runner # "done"

\* The library is not unloaded, nor the frame bounded_run shares with its thread
\* left, while a thread is in it; but for a creation that was late, which is left
\* by the plain exception ("cannot unload library with running threads").
LibraryStaysLoaded ==
    \/ woken = "late" /\ stage \in {"unwind", "over"}
    \/ /\ module = "closed" => ~workers /\ runner = "none"
       /\ runner # "none" => InBounded

\* A call the library has returned from is over: the thread gets to notify main.
BoundedRunEnds == runner = "notify" ~> (runner # "notify" \/ status # "running")

=============================================================================
