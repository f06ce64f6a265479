---------------------------- MODULE GradingProofs ----------------------------
(***************************************************************************)
(* Proofs about Grading: the calls of different rounds never overlap, and  *)
(* the master's verdict is the true one; nobody passes a barrier of check  *)
(* alone, and its counter ends at 0; the bank makes and loses no money;    *)
(* so no worker reports an error of the library.  For any number of        *)
(* workers, rounds, accounts, transactions and refused transactions.       *)
(***************************************************************************)
EXTENDS Grading, Sequences, FiniteSetTheorems, WellFoundedInduction, TLAPS

USE WorkersAssumption, RepeatsAssumption

-----------------------------------------------------------------------------
(* The inductive invariant of Sync: what holds in each part of a round *)

\* The master has begun a round and has not been woken, nor will it be after a timeout.
Open == master \in {"start", "latch", "exit"}

In(S) == {w \in Workers : at[w] \in S}

\* Counted by worker_wait, and by worker_notify.
Arrived  == In({"wait_run", "reset"})
Returned == In({"wait", "gone", "reset_done"})

\* Between two rounds all wait.
Idle == master = "notify" =>
    /\ status = "Done" /\ ~raised /\ nbready = 0 /\ failed = {}
    /\ \A w \in Workers : at[w] = "wait" /\ calls[w] = round - 1

\* The workers are counted in; the last of them starts the round.
Arriving == Open /\ status = "Wait" =>
    /\ ~raised /\ failed = {}
    /\ \A w \in Workers :
          /\ at[w] \in {"wait", "arrive", "wait_run", "reset", "start"}
          /\ calls[w] = round - 1
          /\ at[w] \in {"reset", "start"} => \A u \in Workers : u # w => at[u] = "wait_run"
    /\ nbready = IF \E w \in Workers : at[w] = "start" THEN 0 ELSE Cardinality(Arrived)

\* They make their calls and are counted again; the last of them ends the round.
Calling == Open /\ status \in {"Run", "Abort"} =>
    /\ ~raised
    /\ \A w \in Workers :
          /\ at[w] \in {"wait_run", "run", "error", "abort", "count", "reset_done", "verdict",
                        "wait", "gone"}
          /\ calls[w] = IF at[w] = "wait_run" THEN round - 1 ELSE round
          /\ at[w] \in {"reset_done", "verdict"} =>
                \A u \in Workers : u # w => at[u] \in {"wait", "gone"}
    /\ nbready = IF \E w \in Workers : at[w] = "verdict" THEN 0 ELSE Cardinality(Returned)

\* It raises the latch.
Ending == Open /\ status \in {"Done", "Fail"} =>
    /\ nbready = 0
    /\ \A w \in Workers :
          /\ at[w] \in {"stop", "raise", "wait", "gone"}
          /\ calls[w] = round
          /\ at[w] \in {"stop", "raise"} =>
                ~raised /\ \A u \in Workers : u # w => at[u] \in {"wait", "gone"}

\* The master goes on when all are back.
Closed == master \in {"collect", "join", "joining", "done"} =>
    /\ nbready = 0 /\ ~raised
    /\ \A w \in Workers : at[w] \in {"wait", "gone"} /\ calls[w] = round

\* The status is the one of the master's place.
Placed ==
    /\ Open => status # "Quit"
    /\ master \in {"collect", "join"} => status \in {"Done", "Fail"}
    /\ master \in {"joining", "done"} => status = "Quit"

\* A failure stays known until the next round: by who is about to tell it, then
\* by the status, with the message of a worker that has failed.
Failures ==
    /\ \A w \in Workers :
          /\ at[w] \in {"error", "abort"} => outcome[w] # "ok"
          /\ at[w] \in {"error", "abort", "count", "reset_done", "verdict", "stop", "raise"} =>
                outcome[w] # "none" /\ (outcome[w] # "ok" => <<w, outcome[w]>> \in failed)
          /\ at[w] = "gone" /\ status # "Quit" => failed # {}
    /\ status = "Run" => \A f \in failed : at[f[1]] \in {"error", "abort"}
    /\ status = "Done" => failed = {}
    /\ status \in {"Abort", "Fail"} \/ (\E w \in Workers : at[w] = "abort") =>
          \E w \in Workers : <<w, errmsg>> \in failed

Result == IF failed # {} /\ master \in {"join", "joining", "done"}
          THEN \E w \in Workers : <<w, result>> \in failed
          ELSE result = "none"

Stages == Idle /\ Arriving /\ Calling /\ Ending /\ Closed /\ Placed

SyncInv == Sync!TypeOK /\ Stages /\ Failures /\ Result

-----------------------------------------------------------------------------
(* Moves of one worker *)

Places == {"wait", "arrive", "reset", "start", "wait_run", "run", "error", "abort", "count",
           "reset_done", "verdict", "stop", "raise", "gone"}

\* The same operator, through the instance.
LEMMA NbWorkers == Sync!nbworkers = Cardinality(Workers) /\ Sync!nbworkers \in Nat \ {0}
<1>1. Sync!nbworkers = Cardinality(Workers)
  BY DEF Sync!nbworkers, Sync!Cardinality, Cardinality
<1>2. IsFiniteSet(Workers) /\ Workers # {} BY WorkersAssumption
<1>3. Cardinality(Workers) \in Nat /\ Cardinality(Workers) # 0
  BY <1>2, FS_CardinalityType, FS_EmptySet
<1> QED BY <1>1, <1>3

\* A worker that moves into a set is one more there, and the others stay.
LEMMA Move ==
    ASSUME NEW w \in Workers, NEW to, at \in [Workers -> Places],
           at' = [at EXCEPT ![w] = to], NEW S
    PROVE  /\ at'[w] = to /\ \A u \in Workers : u # w => at'[u] = at[u]
           /\ Cardinality(In(S)) \in Nat /\ Cardinality(In(S)) <= Sync!nbworkers
           /\ (at[w] \in S <=> to \in S) => In(S)' = In(S)
           /\ at[w] \notin S /\ to \in S => Cardinality(In(S)') = Cardinality(In(S)) + 1
<1>1. at'[w] = to /\ \A u \in Workers : u # w => at'[u] = at[u] OBVIOUS
<1>2. In(S) \in SUBSET Workers BY DEF In
<1>3. IsFiniteSet(In(S)) /\ Cardinality(In(S)) \in Nat /\ Cardinality(In(S)) <= Sync!nbworkers
  <2>1. IsFiniteSet(Workers) BY WorkersAssumption
  <2>2. IsFiniteSet(In(S)) /\ Cardinality(In(S)) <= Cardinality(Workers)
    BY <1>2, <2>1, FS_Subset
  <2>3. Cardinality(In(S)) \in Nat BY <2>2, FS_CardinalityType
  <2> QED BY <2>2, <2>3, NbWorkers
<1>4. ASSUME at[w] \in S <=> to \in S PROVE In(S)' = In(S) BY <1>1, <1>4 DEF In
<1>5. ASSUME at[w] \notin S, to \in S PROVE Cardinality(In(S)') = Cardinality(In(S)) + 1
  <2>1. In(S)' = In(S) \cup {w} /\ w \notin In(S) BY <1>1, <1>5 DEF In
  <2> QED BY <1>3, <2>1, FS_AddElement
<1> QED BY <1>1, <1>3, <1>4, <1>5

\* A set of workers as large as all is that of all.
LEMMA AllOf ==
    ASSUME NEW T \in SUBSET Workers, Cardinality(T) = Sync!nbworkers
    PROVE  T = Workers
<1>1. IsFiniteSet(Workers) BY WorkersAssumption
<1> QED BY <1>1, FS_Subset, NbWorkers

-----------------------------------------------------------------------------
(* The master *)

LEMMA NotifyStep ==
    ASSUME SyncInv, Sync!Notify
    PROVE  SyncInv'
<1> USE DEF SyncInv, Sync!Notify, Sync!runtime, Sync!locals, Sync!TypeOK, Sync!Statuses
<1>1. Sync!TypeOK' OBVIOUS
<1>2. /\ ~raised /\ nbready = 0 /\ \A w \in Workers : at[w] = "wait" /\ calls[w] = round - 1
  BY DEF Stages, Idle
<1>3. Arriving'
  <2>1. Arrived' = {} BY <1>2 DEF Arrived, In
  <2>2. Cardinality(Arrived') = 0 BY <2>1, FS_EmptySet
  <2> QED BY <1>2, <2>2 DEF Arriving, Open, Arrived, In
<1>4. Stages' BY <1>3 DEF Stages, Idle, Calling, Ending, Closed, Placed, Open
<1>5. Failures' BY <1>2 DEF Failures
<1>6. Result' BY DEF Result
<1> QED BY <1>1, <1>4, <1>5, <1>6

LEMMA StartClockStep ==
    ASSUME SyncInv, Sync!StartClock
    PROVE  SyncInv'
<1> USE DEF SyncInv, Sync!StartClock, Sync!history, Sync!locals, Sync!TypeOK, Sync!Rounds
<1>1. Sync!TypeOK' OBVIOUS
<1>2. Stages'
  BY DEF Stages, Idle, Arriving, Calling, Ending, Closed, Placed, Open, Arrived, Returned, In
<1>3. Failures' BY DEF Failures
<1>4. Result' BY DEF Result
<1> QED BY <1>1, <1>2, <1>3, <1>4

LEMMA LatchStep ==
    ASSUME SyncInv, Sync!Wait \/ Sync!TimeOut
    PROVE  SyncInv'
<1> USE DEF SyncInv, Sync!Wait, Sync!TimeOut, Sync!history, Sync!locals, Sync!runtime, Sync!TypeOK
<1>1. Sync!TypeOK' OBVIOUS
<1>2. Stages'
  <2>1. CASE Sync!TimeOut
    BY <2>1 DEF Stages, Idle, Arriving, Calling, Ending, Closed, Placed, Open, Arrived, Returned, In
  <2>2. CASE Sync!Wait
    <3>1. status \in {"Done", "Fail"}
      BY <2>2 DEF Stages, Arriving, Calling, Placed, Open, Sync!Statuses
    <3>2. \A w \in Workers : at[w] \in {"wait", "gone"} /\ calls[w] = round
      BY <2>2, <3>1 DEF Stages, Ending, Open
    <3>3. nbready = 0 BY <2>2, <3>1 DEF Stages, Ending, Open
    <3> QED BY <2>2, <3>1, <3>2, <3>3 DEF Stages, Idle, Arriving, Calling, Ending, Closed, Placed, Open
  <2> QED BY <2>1, <2>2
<1>3. Failures' BY DEF Failures
<1>4. Result' BY DEF Result
<1> QED BY <1>1, <1>2, <1>3, <1>4

LEMMA CollectStep ==
    ASSUME SyncInv, Sync!Collect
    PROVE  SyncInv'
<1> USE DEF SyncInv, Sync!Collect, Sync!history, Sync!runtime, Sync!TypeOK, Sync!Rounds
<1>1. Sync!TypeOK'
  <2>1. status = "Done" /\ round < Sync!Rounds => round + 1 \in 1..Sync!Rounds OBVIOUS
  <2> QED BY <2>1
<1>2. /\ nbready = 0 /\ ~raised /\ \A w \in Workers : at[w] \in {"wait", "gone"} /\ calls[w] = round
      /\ status \in {"Done", "Fail"} /\ round \in Int /\ result = "none"
  BY DEF Stages, Closed, Placed, Result
<1>3. Stages'
  <2>1. CASE master' = "notify"
    <3>1. round' = round + 1 /\ status = "Done" BY <2>1
    <3>2. failed = {} /\ \A w \in Workers : at[w] = "wait" BY <1>2, <3>1 DEF Failures
    <3>3. round' - 1 = round BY <1>2, <3>1
    <3> QED
      BY <1>2, <2>1, <3>1, <3>2, <3>3
      DEF Stages, Idle, Arriving, Calling, Ending, Closed, Placed, Open
  <2>2. CASE master' = "join"
    BY <1>2, <2>2 DEF Stages, Idle, Arriving, Calling, Ending, Closed, Placed, Open
  <2> QED BY <2>1, <2>2
<1>4. Failures' BY DEF Failures
<1>5. Result' BY <1>2, <1>4 DEF Failures, Result
<1> QED BY <1>1, <1>3, <1>4, <1>5

LEMMA JoinStep ==
    ASSUME SyncInv, Sync!Quit \/ Sync!Join
    PROVE  SyncInv'
<1> USE DEF SyncInv, Sync!Quit, Sync!Join, Sync!history, Sync!runtime, Sync!locals, Sync!TypeOK, Sync!Statuses
<1>1. Sync!TypeOK' OBVIOUS
<1>2. Stages' BY DEF Stages, Idle, Arriving, Calling, Ending, Closed, Placed, Open
<1>3. Failures' BY DEF Failures, Stages, Closed, Placed
<1>4. Result' BY DEF Result
<1> QED BY <1>1, <1>2, <1>3, <1>4

-----------------------------------------------------------------------------
(* The workers *)

\* Where a worker is tells the part of the round.
LEMMA StageOf ==
    ASSUME SyncInv, NEW w \in Workers
    PROVE  /\ at[w] \in {"arrive", "reset", "start"} => Open /\ status = "Wait"
           /\ at[w] \in {"run", "error", "abort", "count", "reset_done", "verdict"} =>
                 Open /\ status \in {"Run", "Abort"}
           /\ at[w] = "wait_run" => Open /\ status \in {"Wait", "Run", "Abort"}
           /\ at[w] \in {"stop", "raise"} => Open /\ status \in {"Done", "Fail"}
           /\ status = "Wait" => Open
           /\ status = "Quit" => master \in {"joining", "done"}
<1>1. master \in {"notify"} \cup {"start", "latch", "exit"} \cup {"collect", "join", "joining", "done"}
  BY DEF SyncInv, Sync!TypeOK
<1>2. status \in {"Wait", "Run", "Abort", "Done", "Fail", "Quit"}
  BY DEF SyncInv, Sync!TypeOK, Sync!Statuses
<1>3. CASE master = "notify" BY <1>3 DEF SyncInv, Stages, Idle
<1>4. CASE Open BY <1>2, <1>4 DEF SyncInv, Stages, Arriving, Calling, Ending, Placed, Open
<1>5. CASE master \in {"collect", "join", "joining", "done"}
  BY <1>5 DEF SyncInv, Stages, Closed, Placed
<1> QED BY <1>1, <1>3, <1>4, <1>5 DEF Open

\* One part of a round at a time.
LEMMA OnlyArriving ==
    ASSUME Open', status' = "Wait", Arriving' PROVE Stages'
BY DEF Open, Stages, Idle, Calling, Ending, Closed, Placed

LEMMA OnlyCalling ==
    ASSUME Open', status' \in {"Run", "Abort"}, Calling' PROVE Stages'
BY DEF Open, Stages, Idle, Arriving, Ending, Closed, Placed

LEMMA OnlyEnding ==
    ASSUME Open', status' \in {"Done", "Fail"}, Ending' PROVE Stages'
BY DEF Open, Stages, Idle, Arriving, Calling, Closed, Placed

\* A result there is only after the rounds.
LEMMA SameResult ==
    ASSUME Result, UNCHANGED <<result, master>>, Open
    PROVE  Result'
BY DEF Result, Open

\* The worker is counted in, or sees that it is time to.
LEMMA ArriveStep ==
    ASSUME SyncInv, NEW w \in Workers, Sync!SeeWait(w) \/ Sync!Arrive(w)
    PROVE  SyncInv'
<1> USE DEF SyncInv, Sync!SeeWait, Sync!Arrive, Sync!Go, Sync!history, Sync!locals, Sync!runtime, Sync!TypeOK
<1>1. Open /\ status = "Wait" /\ at \in [Workers -> Places] BY StageOf DEF Places
<1>2. PICK to \in {"arrive", "wait_run", "reset"} : at' = [at EXCEPT ![w] = to]
  OBVIOUS
<1>3. /\ at'[w] = to /\ \A u \in Workers : u # w => at'[u] = at[u]
      /\ Cardinality(Arrived) \in Nat
      /\ (at[w] \in {"wait_run", "reset"} <=> to \in {"wait_run", "reset"}) => Arrived' = Arrived
      /\ at[w] \notin {"wait_run", "reset"} /\ to \in {"wait_run", "reset"} =>
            Cardinality(Arrived') = Cardinality(Arrived) + 1
      /\ Cardinality(Arrived) <= Sync!nbworkers
  BY <1>1, <1>2, Move DEF Arrived
<1>4. \A u \in Workers : at[u] # "start" /\ at[u] # "reset"
  <2>1. at[w] # "wait_run" OBVIOUS
  <2> QED BY <1>1, <2>1 DEF Stages, Arriving
<1>5. nbready = Cardinality(Arrived) BY <1>1, <1>4 DEF Stages, Arriving
<1>6. UNCHANGED <<master, status, raised, failed, calls, round, result>> OBVIOUS
<1>7. nbready' = Cardinality(Arrived')
  BY <1>1, <1>3, <1>5
<1>8. ASSUME to = "reset" PROVE \A u \in Workers : u # w => at'[u] = "wait_run"
  <2>1. Cardinality(Arrived') = Sync!nbworkers BY <1>2, <1>3, <1>7, <1>8
  <2>2. Arrived' \in SUBSET Workers BY DEF Arrived, In
  <2>3. Arrived' = Workers BY <2>1, <2>2, AllOf
  <2> QED BY <1>3, <1>4, <2>3 DEF Arrived, In
<1>9. nbready' \in 0..Sync!nbworkers
  <2>1. Arrived' \in SUBSET Workers BY DEF Arrived, In
  <2>2. IsFiniteSet(Workers) BY WorkersAssumption
  <2> QED BY <1>7, <2>1, <2>2, FS_Subset, FS_CardinalityType, NbWorkers
<1>10. Sync!TypeOK' BY <1>9
<1>11. Arriving'
  <2>1. \A u \in Workers : /\ at'[u] \in {"wait", "arrive", "wait_run", "reset"}
                           /\ calls'[u] = round' - 1
    BY <1>1, <1>3, <1>4, <1>6 DEF Stages, Arriving
  <2>2. \A u \in Workers : at'[u] = "reset" => u = w BY <1>3, <1>4
  <2> QED BY <1>3, <1>6, <1>7, <1>8, <2>1, <2>2, <1>1 DEF Stages, Arriving
<1>12. Stages' BY <1>1, <1>6, <1>11, OnlyArriving DEF Open
<1>13. Failures' BY <1>1, <1>3 DEF Stages, Arriving, Failures
<1>14. Result' BY <1>1, SameResult
<1> QED BY <1>10, <1>12, <1>13, <1>14

\* The last worker resets the count, and starts the round.
LEMMA ResetStep ==
    ASSUME SyncInv, NEW w \in Workers, Sync!Reset(w)
    PROVE  SyncInv'
<1> USE DEF SyncInv, Sync!Reset, Sync!Go, Sync!history, Sync!locals, Sync!runtime, Sync!TypeOK
<1>1. Open /\ status = "Wait" /\ at \in [Workers -> Places] BY StageOf DEF Places
<1>2. at'[w] = "start" /\ \A u \in Workers : u # w => at'[u] = at[u] /\ at[u] = "wait_run"
  BY <1>1 DEF Stages, Arriving
<1>3. Sync!TypeOK' BY NbWorkers
<1>4. Arriving' BY <1>1, <1>2 DEF Stages, Arriving
<1>5. Stages' BY <1>1, <1>4, OnlyArriving DEF Open
<1>6. Failures' BY <1>1, <1>2 DEF Stages, Arriving, Failures
<1>7. Result' BY <1>1, SameResult
<1> QED BY <1>3, <1>5, <1>6, <1>7

LEMMA StartRunStep ==
    ASSUME SyncInv, NEW w \in Workers, Sync!StartRun(w)
    PROVE  SyncInv'
<1> USE DEF SyncInv, Sync!StartRun, Sync!Go, Sync!locals, Sync!runtime, Sync!TypeOK
<1>1. Open /\ status = "Wait" /\ at \in [Workers -> Places] BY StageOf DEF Places
<1>2. at'[w] = "run" /\ \A u \in Workers : u # w => at'[u] = at[u] /\ at[u] = "wait_run"
  BY <1>1 DEF Stages, Arriving
<1>3. /\ \A u \in Workers : calls[u] = round - 1
      /\ ~raised /\ failed = {} /\ nbready = 0 /\ round \in 1..Sync!Rounds
  BY <1>1 DEF Stages, Arriving
<1>4. Sync!Rounds \in Nat BY RepeatsAssumption DEF Sync!Rounds
<1>5. calls'[w] = round /\ \A u \in Workers : u # w => calls'[u] = calls[u] BY <1>3, <1>4
<1>6. Sync!TypeOK' BY <1>3, <1>4, <1>5 DEF Sync!Statuses
<1>7. Calling'
  <2>1. Returned' = {} BY <1>2 DEF Returned, In
  <2>2. Cardinality(Returned') = 0 BY <2>1, FS_EmptySet
  <2> QED BY <1>1, <1>2, <1>3, <1>5, <2>2 DEF Calling
<1>8. Stages' BY <1>1, <1>7, OnlyCalling DEF Open
<1>9. Failures' BY <1>1, <1>2, <1>3 DEF Failures
<1>10. Result' BY <1>1, SameResult
<1> QED BY <1>6, <1>8, <1>9, <1>10

\* A worker that sees the start makes its call.
LEMMA SeeRunStep ==
    ASSUME SyncInv, NEW w \in Workers, Sync!SeeRun(w)
    PROVE  SyncInv'
<1> USE DEF SyncInv, Sync!SeeRun, Sync!Go, Sync!locals, Sync!runtime, Sync!TypeOK
<1>1. Open /\ status \in {"Run", "Abort"} /\ at \in [Workers -> Places] BY StageOf DEF Places
<1>2. at'[w] = "run" /\ (\A u \in Workers : u # w => at'[u] = at[u]) /\ Returned' = Returned
  BY <1>1, Move DEF Returned
<1>3. calls[w] = round - 1 /\ round \in 1..Sync!Rounds BY <1>1 DEF Stages, Calling
<1>4. Sync!Rounds \in Nat BY RepeatsAssumption DEF Sync!Rounds
<1>5. calls'[w] = round /\ \A u \in Workers : u # w => calls'[u] = calls[u] BY <1>3, <1>4
<1>6. Sync!TypeOK' BY <1>3, <1>4, <1>5
<1>7. Calling' BY <1>1, <1>2, <1>5 DEF Stages, Calling
<1>8. Stages' BY <1>1, <1>7, OnlyCalling DEF Open
<1>9. Failures' BY <1>1, <1>2 DEF Failures
<1>10. Result' BY <1>1, SameResult
<1> QED BY <1>6, <1>8, <1>9, <1>10

\* Its call returns, reports an error, or throws.
LEMMA ReturnStep ==
    ASSUME SyncInv, NEW w \in Workers, NEW what \in {"ok", "error", "exception"}, Sync!Return(w, what)
    PROVE  SyncInv'
<1> USE DEF SyncInv, Sync!Return, Sync!Go, Sync!locals, Sync!runtime, Sync!TypeOK
<1>1. Open /\ status \in {"Run", "Abort"} /\ at \in [Workers -> Places] BY StageOf DEF Places
<1>2. PICK to \in {"count", "error"} : at' = [at EXCEPT ![w] = to] /\ (to = "count" <=> what = "ok")
  OBVIOUS
<1>3. at'[w] = to /\ (\A u \in Workers : u # w => at'[u] = at[u]) /\ Returned' = Returned
  BY <1>1, <1>2, Move DEF Returned
<1>4. outcome'[w] = what /\ \A u \in Workers : u # w => outcome'[u] = outcome[u] OBVIOUS
<1>5. failed \subseteq failed' /\ (what # "ok" => <<w, what>> \in failed')
      /\ \A f \in failed' : f \in failed \/ (what # "ok" /\ f[1] = w)
  OBVIOUS
<1>6. Sync!TypeOK' BY <1>2
<1>7. Calling' BY <1>1, <1>2, <1>3 DEF Stages, Calling
<1>8. Stages' BY <1>1, <1>7, OnlyCalling DEF Open
<1>9. Failures'
  <2>1. status' = status /\ errmsg' = errmsg OBVIOUS
  <2>2. \A u \in Workers :
          /\ at'[u] \in {"error", "abort"} => outcome'[u] # "ok"
          /\ at'[u] \in {"error", "abort", "count", "reset_done", "verdict", "stop", "raise"} =>
                outcome'[u] # "none" /\ (outcome'[u] # "ok" => <<u, outcome'[u]>> \in failed')
          /\ at'[u] = "gone" /\ status' # "Quit" => failed' # {}
    BY <1>2, <1>3, <1>4, <1>5, <2>1 DEF Failures
  <2>3. status = "Run" => \A f \in failed' : at'[f[1]] \in {"error", "abort"}
    BY <1>2, <1>3, <1>5 DEF Failures
  <2>4. status \in {"Abort", "Fail"} \/ (\E u \in Workers : at'[u] = "abort") =>
          \E u \in Workers : <<u, errmsg>> \in failed'
    BY <1>2, <1>3, <1>5 DEF Failures
  <2> QED BY <1>1, <2>1, <2>2, <2>3, <2>4 DEF Failures
<1>10. Result' BY <1>1, SameResult
<1> QED BY <1>6, <1>8, <1>9, <1>10

\* A worker that failed leaves its message, then the status.
LEMMA ErrorStep ==
    ASSUME SyncInv, NEW w \in Workers, Sync!StoreError(w) \/ Sync!Abort(w)
    PROVE  SyncInv'
<1> USE DEF SyncInv, Sync!StoreError, Sync!Abort, Sync!Go, Sync!locals, Sync!runtime, Sync!history, Sync!TypeOK
<1>1. Open /\ status \in {"Run", "Abort"} /\ at \in [Workers -> Places] BY StageOf DEF Places
<1>2. PICK to \in {"abort", "count"} : at' = [at EXCEPT ![w] = to] OBVIOUS
<1>3. at'[w] = to /\ (\A u \in Workers : u # w => at'[u] = at[u]) /\ Returned' = Returned
  BY <1>1, <1>2, Move DEF Returned
<1>4. /\ outcome[w] \in {"error", "exception"} /\ <<w, outcome[w]>> \in failed
      /\ UNCHANGED <<outcome, failed, calls, round, raised, nbready, master>>
  BY DEF Failures
<1>5. status' \in {"Run", "Abort"} BY <1>1
<1>6. Sync!TypeOK' BY <1>4 DEF Sync!Statuses
<1>7. Calling' BY <1>1, <1>2, <1>3, <1>4 DEF Stages, Calling
<1>8. Stages' BY <1>1, <1>5, <1>7, OnlyCalling DEF Open
<1>9. Failures'
  <2>1. CASE Sync!StoreError(w)
    BY <1>1, <1>3, <1>4, <2>1 DEF Failures
  <2>2. CASE Sync!Abort(w)
    BY <1>1, <1>3, <1>4, <2>2 DEF Failures
  <2> QED BY <2>1, <2>2
<1>10. Result' BY <1>1, SameResult
<1> QED BY <1>6, <1>8, <1>9, <1>10

\* The worker is counted again; the last one stays to end the round.
LEMMA CountStep ==
    ASSUME SyncInv, NEW w \in Workers, Sync!Count(w)
    PROVE  SyncInv'
<1> USE DEF SyncInv, Sync!Count, Sync!Leave, Sync!Go, Sync!locals, Sync!runtime, Sync!history, Sync!TypeOK
<1>1. Open /\ status \in {"Run", "Abort"} /\ at \in [Workers -> Places] BY StageOf DEF Places
<1>2. PICK to \in {"wait", "gone", "reset_done"} : at' = [at EXCEPT ![w] = to]
  OBVIOUS
<1>3. /\ at'[w] = to /\ \A u \in Workers : u # w => at'[u] = at[u]
      /\ Cardinality(Returned) \in Nat
      /\ Cardinality(Returned') = Cardinality(Returned) + 1
  BY <1>1, <1>2, Move DEF Returned
<1>4. \A u \in Workers : at[u] # "verdict" /\ at[u] # "reset_done"
  BY <1>1 DEF Stages, Calling
<1>5. nbready = Cardinality(Returned) BY <1>1, <1>4 DEF Stages, Calling
<1>6. nbready' = Cardinality(Returned') BY <1>1, <1>3, <1>5
<1>7. nbready' \in 0..Sync!nbworkers
  <2>1. Returned' \in SUBSET Workers BY DEF Returned, In
  <2>2. IsFiniteSet(Workers) BY WorkersAssumption
  <2> QED BY <1>6, <2>1, <2>2, FS_Subset, FS_CardinalityType, NbWorkers
<1>8. ASSUME to = "reset_done" PROVE \A u \in Workers : u # w => at'[u] \in {"wait", "gone"}
  <2>1. Cardinality(Returned') = Sync!nbworkers BY <1>2, <1>3, <1>6, <1>8
  <2>2. Returned' \in SUBSET Workers BY DEF Returned, In
  <2>3. Returned' = Workers BY <2>1, <2>2, AllOf
  <2> QED BY <1>3, <1>4, <2>3 DEF Returned, In
<1>9. Sync!TypeOK' BY <1>7
<1>10. Calling'
  <2>1. \A u \in Workers :
          /\ at'[u] \in {"wait_run", "run", "error", "abort", "count", "reset_done", "wait", "gone"}
          /\ calls'[u] = IF at'[u] = "wait_run" THEN round' - 1 ELSE round'
    BY <1>1, <1>3, <1>4 DEF Stages, Calling
  <2>2. \A u \in Workers : at'[u] = "reset_done" => u = w BY <1>3, <1>4
  <2>3. ~raised' BY <1>1 DEF Stages, Calling
  <2> QED BY <1>3, <1>6, <1>8, <2>1, <2>2, <2>3 DEF Calling
<1>11. Stages' BY <1>1, <1>10, OnlyCalling DEF Open
<1>12. Failures'
  <2>1. outcome[w] # "none" /\ (outcome[w] # "ok" => <<w, outcome[w]>> \in failed) BY DEF Failures
  <2>2. UNCHANGED <<failed, status, errmsg>> OBVIOUS
  <2>3. \A f \in failed : f[1] = w => status = "Abort" BY <1>1 DEF Failures
  <2>4. CASE Sync!Go(w, "reset_done") /\ UNCHANGED outcome
    BY <1>1, <1>3, <2>1, <2>2, <2>3, <2>4 DEF Failures
  <2>5. CASE Sync!Leave(w)
    <3>1. \A u \in Workers : u # w => outcome'[u] = outcome[u] BY <2>5
    <3>2. at'[w] = IF outcome[w] = "exception" THEN "gone" ELSE "wait" BY <2>5
    <3> QED BY <1>1, <1>3, <2>1, <2>2, <2>3, <3>1, <3>2 DEF Failures
  <2> QED BY <2>4, <2>5
<1>13. Result' BY <1>1, SameResult
<1> QED BY <1>9, <1>11, <1>12, <1>13

LEMMA ResetDoneStep ==
    ASSUME SyncInv, NEW w \in Workers, Sync!ResetDone(w)
    PROVE  SyncInv'
<1> USE DEF SyncInv, Sync!ResetDone, Sync!Go, Sync!locals, Sync!runtime, Sync!history, Sync!TypeOK
<1>1. Open /\ status \in {"Run", "Abort"} /\ at \in [Workers -> Places] BY StageOf DEF Places
<1>2. at'[w] = "verdict" /\ \A u \in Workers : u # w => at'[u] = at[u] /\ at[u] \in {"wait", "gone"}
  BY <1>1 DEF Stages, Calling
<1>3. Sync!TypeOK' BY NbWorkers
<1>4. Calling' BY <1>1, <1>2 DEF Stages, Calling
<1>5. Stages' BY <1>1, <1>4, OnlyCalling DEF Open
<1>6. Failures' BY <1>1, <1>2 DEF Failures
<1>7. Result' BY <1>1, SameResult
<1> QED BY <1>3, <1>5, <1>6, <1>7

\* The last worker gives the verdict: nobody is about to tell a failure any more.
LEMMA VerdictStep ==
    ASSUME SyncInv, NEW w \in Workers, Sync!Verdict(w)
    PROVE  SyncInv'
<1> USE DEF SyncInv, Sync!Verdict, Sync!Go, Sync!locals, Sync!runtime, Sync!history, Sync!TypeOK
<1>1. Open /\ status \in {"Run", "Abort"} /\ at \in [Workers -> Places] BY StageOf DEF Places
<1>2. at'[w] = "stop" /\ \A u \in Workers : u # w => at'[u] = at[u] /\ at[u] \in {"wait", "gone"}
  BY <1>1 DEF Stages, Calling
<1>3. status' \in {"Done", "Fail"} /\ (status' = "Done" <=> status = "Run") BY <1>1
<1>4. Sync!TypeOK' BY <1>3 DEF Sync!Statuses
<1>5. Ending' BY <1>1, <1>2 DEF Stages, Calling, Ending
<1>6. Stages' BY <1>1, <1>3, <1>5, OnlyEnding DEF Open
<1>7. Failures'
  <2>1. status = "Run" => failed = {}
    <3>1. \A f \in failed : f[1] \in Workers OBVIOUS
    <3> QED BY <1>1, <1>2, <3>1 DEF Failures
  <2> QED BY <1>1, <1>2, <1>3, <2>1 DEF Failures
<1>8. Result' BY <1>1, SameResult
<1> QED BY <1>4, <1>6, <1>7, <1>8

\* It stops the clock and raises the latch.
LEMMA StopClockStep ==
    ASSUME SyncInv, NEW w \in Workers, Sync!StopClock(w)
    PROVE  SyncInv'
<1> USE DEF SyncInv, Sync!StopClock, Sync!Go, Sync!locals, Sync!history, Sync!TypeOK
<1>1. Open /\ status \in {"Done", "Fail"} /\ at \in [Workers -> Places] BY StageOf DEF Places
<1>2. at'[w] = "raise" /\ \A u \in Workers : u # w => at'[u] = at[u] /\ at[u] \in {"wait", "gone"}
  BY <1>1 DEF Stages, Ending
<1>3. calls[w] = round BY <1>1 DEF Stages, Ending
<1>4. Sync!TypeOK' BY <1>3
<1>5. Ending' BY <1>1, <1>2 DEF Stages, Ending
<1>6. Stages' BY <1>1, <1>5, OnlyEnding DEF Open
<1>7. Failures' BY <1>1, <1>2 DEF Failures
<1>8. Result' BY <1>1, SameResult
<1> QED BY <1>4, <1>6, <1>7, <1>8

LEMMA RaiseStep ==
    ASSUME SyncInv, NEW w \in Workers, Sync!Raise(w)
    PROVE  SyncInv'
<1> USE DEF SyncInv, Sync!Raise, Sync!Leave, Sync!Go, Sync!locals, Sync!runtime, Sync!history, Sync!TypeOK
<1>1. Open /\ status \in {"Done", "Fail"} /\ at \in [Workers -> Places] BY StageOf DEF Places
<1>2. PICK to \in {"wait", "gone"} :
         at' = [at EXCEPT ![w] = to] /\ (to = "gone" => outcome[w] = "exception")
  OBVIOUS
<1>3. at'[w] = to /\ \A u \in Workers : u # w => at'[u] = at[u] /\ at[u] \in {"wait", "gone"}
  BY <1>1, <1>2 DEF Stages, Ending
<1>4. Sync!TypeOK' BY <1>2
<1>5. Ending' BY <1>1, <1>3 DEF Stages, Ending
<1>6. Stages' BY <1>1, <1>5, OnlyEnding DEF Open
<1>7. Failures' BY <1>1, <1>2, <1>3 DEF Failures
<1>8. Result' BY <1>1, SameResult
<1> QED BY <1>4, <1>6, <1>7, <1>8

\* A worker leaves for good.
LEMMA SeeQuitStep ==
    ASSUME SyncInv, NEW w \in Workers, Sync!SeeQuit(w)
    PROVE  SyncInv'
<1> USE DEF SyncInv, Sync!SeeQuit, Sync!Go, Sync!locals, Sync!runtime, Sync!history, Sync!TypeOK
<1>1. master \in {"joining", "done"} BY StageOf
<1>2. at'[w] = "gone" /\ \A u \in Workers : u # w => at'[u] = at[u] OBVIOUS
<1>3. Sync!TypeOK' OBVIOUS
<1>4. Stages' BY <1>1, <1>2 DEF Stages, Idle, Arriving, Calling, Ending, Closed, Placed, Open
<1>5. Failures' BY <1>2 DEF Failures
<1>6. Result' BY DEF Result
<1> QED BY <1>3, <1>4, <1>5, <1>6

-----------------------------------------------------------------------------
(* The rounds of Grading *)

LEMMA InitSync == Sync!Init => SyncInv
<1> SUFFICES ASSUME Sync!Init PROVE SyncInv
  OBVIOUS
<1>1. Sync!TypeOK
  <2>1. Sync!Rounds \in Nat /\ Sync!Rounds >= 1 BY RepeatsAssumption DEF Sync!Rounds
  <2>2. 0 \in 0..Sync!nbworkers BY NbWorkers
  <2>3. at \in [Workers -> Places] /\ outcome \in [Workers -> {"none"}] BY DEF Sync!Init, Places
  <2>4. calls \in [Workers -> 0..Sync!Rounds] BY <2>1 DEF Sync!Init
  <2>5. start \in 0..Sync!Rounds /\ round \in 1..Sync!Rounds BY <2>1 DEF Sync!Init
  <2>6. total = {} /\ failed = {} /\ nbready = 0 BY DEF Sync!Init
  <2>7. /\ status \in Sync!Statuses /\ errmsg \in {"none", "error", "exception"}
        /\ raised \in BOOLEAN /\ timed \in BOOLEAN
        /\ master = "notify" /\ result = "none"
    BY DEF Sync!Init, Sync!Statuses
  <2>8. outcome \in [Workers -> {"none", "ok", "error", "exception"}] BY <2>3
  <2> QED BY <2>2, <2>3, <2>4, <2>5, <2>6, <2>7, <2>8 DEF Sync!TypeOK, Places
<1>2. Stages
  BY DEF Sync!Init, Stages, Idle, Arriving, Calling, Ending, Closed, Placed, Open
<1>3. Failures /\ Result BY DEF Sync!Init, Failures, Result
<1> QED BY <1>1, <1>2, <1>3 DEF SyncInv

\* A step of Grading is one of Sync, or leaves the rounds alone.
LEMMA GradingStep ==
    ASSUME [Next]_vars
    PROVE  [Sync!Next]_sync
<1>1. CASE Sync!Master BY <1>1 DEF Sync!Next
<1>2. ASSUME NEW w \in Workers, Sync!Alive, Worker(w) PROVE [Sync!Next]_sync
  <2>1. CASE Sync!Between(w) BY <1>2, <2>1 DEF Sync!Next
  <2>2. ASSUME NEW b, Sync!Return(w, Error(b)) PROVE [Sync!Next]_sync
    <3>1. Error(b) \in {"ok", "error", "exception"} BY DEF Error
    <3> QED BY <1>2, <2>2, <3>1 DEF Sync!Next
  <2>3. ASSUME Sync!Return(w, "error") PROVE [Sync!Next]_sync BY <1>2, <2>3 DEF Sync!Next
  <2> QED BY <1>2, <2>1, <2>2, <2>3, Zenon DEF Worker, DoInit, DoRun, DoCheck
<1>3. ASSUME NEW w \in Workers, Sync!Alive, Throw(w) PROVE [Sync!Next]_sync
  BY <1>3 DEF Throw, Sync!Next
<1>4. CASE UNCHANGED vars BY <1>4 DEF vars
<1> QED BY <1>1, <1>2, <1>3, <1>4 DEF Next

LEMMA NextSync ==
    ASSUME SyncInv, [Sync!Next]_sync
    PROVE  SyncInv'
<1>1. CASE Sync!Master
  BY <1>1, NotifyStep, StartClockStep, LatchStep, CollectStep, JoinStep DEF Sync!Master
<1>2. ASSUME NEW w \in Workers, Sync!Between(w) PROVE SyncInv'
  BY <1>2, ArriveStep, ResetStep, StartRunStep, SeeRunStep, ErrorStep, CountStep, ResetDoneStep,
     VerdictStep, StopClockStep, RaiseStep, SeeQuitStep
  DEF Sync!Between
<1>3. ASSUME NEW w \in Workers, NEW what \in {"ok", "error", "exception"}, Sync!Return(w, what)
      PROVE  SyncInv'
  BY <1>3, ReturnStep
<1>4. ASSUME UNCHANGED sync PROVE SyncInv'
  <2> USE <1>4 DEF sync
  <2>1. Sync!TypeOK' BY DEF SyncInv, Sync!TypeOK, Sync!Statuses
  <2>2. Arrived' = Arrived /\ Returned' = Returned BY DEF Arrived, Returned, In
  <2>3. Stages' BY <2>2 DEF SyncInv, Stages, Idle, Arriving, Calling, Ending, Closed, Placed, Open
  <2>4. Failures' BY DEF SyncInv, Failures
  <2>5. Result' BY DEF SyncInv, Result
  <2> QED BY <2>1, <2>3, <2>4, <2>5 DEF SyncInv
<1> QED BY <1>1, <1>2, <1>3, <1>4 DEF Sync!Next

\* In each part of a round the workers are where they should be, and the count is
\* of those that have come so far.
THEOREM SyncInvariant == Spec => []SyncInv
<1>1. Init => SyncInv BY InitSync DEF Init
<1>2. SyncInv /\ [Next]_vars => SyncInv' BY GradingStep, NextSync
<1> QED BY <1>1, <1>2, PTL DEF Spec

\* Calls of different rounds never overlap, for any number of workers.
THEOREM RoundsStayTogether == Spec => []RoundsTogether
<1>1. SyncInv => RoundsTogether
  <2> SUFFICES ASSUME SyncInv, NEW w \in Workers, Sync!Running(w), NEW u \in Workers
               PROVE  calls[u] = round \/ at[u] = "wait_run"
    BY DEF RoundsTogether, Sync!RoundsTogether
  <2>1. Open /\ status \in {"Run", "Abort"} BY StageOf DEF Sync!Running
  <2> QED BY <2>1 DEF SyncInv, Stages, Calling
<1> QED BY <1>1, SyncInvariant, PTL

\* The master's verdict is the true one: no failure is lost or invented, in
\* whatever order the workers store it.
THEOREM VerdictStaysTrue == Spec => []VerdictIsTrue
<1>1. SyncInv => VerdictIsTrue
  BY DEF SyncInv, Stages, Closed, Placed, Failures, Result, VerdictIsTrue, Sync!VerdictIsTrue, Sync!Running
<1> QED BY <1>1, SyncInvariant, PTL

-----------------------------------------------------------------------------
(* The barriers of check *)

BarrierOfCheck == INSTANCE BarrierProofs WITH Threads <- Workers, at <- place

\* A step of Grading is one of the barrier, or leaves it alone.
LEMMA BarrierStep ==
    ASSUME [Next]_vars
    PROVE  [BarrierOfCheck!Next]_(BarrierOfCheck!vars)
<1> USE DEF BarrierOfCheck!vars, barrier
<1>1. ASSUME NEW w \in Workers, Check!Barrier!Enter(w) \/ Check!Barrier!Pass(w)
      PROVE  BarrierOfCheck!Next
  <2>1. Check!Barrier!Enter(w) => BarrierOfCheck!Enter(w)
    BY DEF Check!Barrier!Enter, BarrierOfCheck!Enter, Check!Barrier!Go, BarrierOfCheck!Go,
           Check!Barrier!cardinal, BarrierOfCheck!cardinal, Check!Barrier!Cardinality,
           BarrierOfCheck!Cardinality
  <2>2. Check!Barrier!Pass(w) => BarrierOfCheck!Pass(w)
    BY DEF Check!Barrier!Pass, BarrierOfCheck!Pass, Check!Barrier!Go, BarrierOfCheck!Go,
           Check!Barrier!Open, BarrierOfCheck!Open, Check!Barrier!SeeOpen, BarrierOfCheck!SeeOpen,
           Check!Barrier!Leave, BarrierOfCheck!Leave, Check!Barrier!Close, BarrierOfCheck!Close,
           Check!Barrier!SeeClosed, BarrierOfCheck!SeeClosed
  <2> QED BY <1>1, <2>1, <2>2 DEF BarrierOfCheck!Next
<1>2. ASSUME NEW w \in Workers, DoCheck(w) PROVE BarrierOfCheck!Next \/ UNCHANGED barrier
  <2>1. CASE Check!Begin(w) BY <1>1, <2>1 DEF Check!Begin
  <2>2. CASE Check!Run(w)
    BY <1>1, <2>2 DEF Check!Run, Check!InitCounter, Check!CheckCounter, Check!Second,
                      Check!ReadLast, Check!Decrement, Check!Third, Check!barrier
  <2>3. CASE Check!Final(w) BY <2>3 DEF Check!Final, Check!barrier
  <2> QED BY <1>2, <2>1, <2>2, <2>3 DEF DoCheck
<1>3. ASSUME NEW w \in Workers, DoInit(w) \/ DoRun(w) \/ Throw(w) PROVE UNCHANGED barrier
  BY <1>3 DEF DoInit, DoRun, Throw, check
<1>4. CASE UNCHANGED vars BY <1>4 DEF vars, check
<1> QED BY <1>2, <1>3, <1>4 DEF Next, Worker, check

\* Nobody passes a barrier of check before all have come to it, for any number of
\* workers, some of which may have been thrown out of the check.
THEOREM BarriersHold == Spec => []NobodyPassesAlone
<1>0. BarrierOfCheck!IsFiniteSet(Workers)
  BY WorkersAssumption DEF IsFiniteSet, BarrierOfCheck!IsFiniteSet
<1>1. Init => BarrierOfCheck!IInv
  <2>1. SUFFICES ASSUME Init PROVE BarrierOfCheck!IInv OBVIOUS
  <2>2. BarrierOfCheck!Init
    BY <2>1 DEF Init, Check!Init, Check!Barrier!Init, BarrierOfCheck!Init
  <2> QED BY <1>0, <2>2, BarrierOfCheck!InitInv
<1>2. BarrierOfCheck!IInv /\ [Next]_vars => BarrierOfCheck!IInv'
  <2>1. SUFFICES ASSUME BarrierOfCheck!IInv, [Next]_vars PROVE BarrierOfCheck!IInv' OBVIOUS
  <2>2. [BarrierOfCheck!Next]_(BarrierOfCheck!vars) BY <2>1, BarrierStep
  <2> QED BY <1>0, <2>1, <2>2, BarrierOfCheck!NextInv
<1>3. BarrierOfCheck!IInv => NobodyPassesAlone
  <2>1. SUFFICES ASSUME BarrierOfCheck!IInv PROVE NobodyPassesAlone OBVIOUS
  <2>2. BarrierOfCheck!NobodyPassesAlone BY <1>0, <2>1, BarrierOfCheck!InvHolds
  <2> QED BY <2>2
    DEF NobodyPassesAlone, BarrierOfCheck!NobodyPassesAlone, Check!Barrier!NobodyPassesAlone
<1> QED BY <1>1, <1>2, <1>3, PTL DEF Spec

-----------------------------------------------------------------------------
(* The counter of check *)

USE AccountsAssumption, LengthAssumption

\* A worker is in the check when pc says so, and only in its last call; it leaves
\* the check for good.
InTheCheck ==
    \A w \in Workers :
        /\ calls[w] < Sync!Rounds => pc[w] = "out" /\ syncs[w] = 0
        /\ pc[w] # "out" => CallsCheck(w)
        /\ pc[w] = "out" /\ CallsCheck(w) => syncs[w] = 0

\* Where it is tells how many barriers it has come to, and what it is about to do
\* behind the one it is in.
AtBarriers ==
    \A w \in Workers :
        /\ pc[w] \in {"init", "check"} => w = First /\ syncs[w] = 1
        /\ pc[w] = "second" => syncs[w] = 1
        /\ pc[w] \in {"read", "decrement", "third"} => syncs[w] = 2
        /\ pc[w] = "final" => syncs[w] = 3
        /\ place[w] # "out" => pc[w] \in {"init", "second", "read", "final"}
        /\ place[w] # "out" /\ pc[w] = "read" => todo[w] = CheckTx
        /\ pc[w] \in {"read", "decrement"} => todo[w] > 0

\* The decrements a worker has still to make: none, if it was thrown out of them.
Rem(w) == IF syncs[w] < 2 THEN CheckTx ELSE IF pc[w] \in {"read", "decrement"} THEN todo[w] ELSE 0

Outstanding == {p \in Workers \X (1..CheckTx) : p[2] <= Rem(p[1])}

\* Thrown out between the first barrier and the third.
Lost(w) == syncs[w] \in {1, 2} /\ pc[w] = "out"

Initialized == pc[First] \in {"check", "second"} \/ syncs[First] >= 2

\* The counter is what is outstanding, or more when a worker was lost.
Counting ==
    /\ pc[First] = "check" => counter = Check!init_counter
    /\ \A w \in Workers : pc[w] = "decrement" => counter <= last[w]
    /\ Initialized =>
          /\ Cardinality(Outstanding) <= counter
          /\ (\A w \in Workers : ~Lost(w)) => counter = Cardinality(Outstanding)

Pcs == {"out", "init", "check", "second", "read", "decrement", "third", "final"}

CheckTypes ==
    /\ counter \in 0..Check!init_counter
    /\ pc \in [Workers -> Pcs]
    /\ todo \in [Workers -> 0..CheckTx]
    /\ last \in [Workers -> 0..Check!init_counter]
    /\ correct \in [Workers -> {TRUE}]

CheckInv == CheckTypes /\ InTheCheck /\ AtBarriers /\ Counting

\* What the barrier promises the check.
Passing ==
    /\ place \in [Workers -> {"out", "open", "wait_open", "leave", "close", "wait_close"}]
    /\ syncs \in [Workers -> Nat]
    /\ \A t, u \in Workers : place[t] \notin {"open", "wait_open"} => syncs[t] <= syncs[u]
    /\ \A t, u \in Workers : syncs[t] <= syncs[u] + 1

LEMMA RoundsNat == Sync!Rounds \in Nat /\ Sync!Rounds >= 3
BY RepeatsAssumption DEF Sync!Rounds

\* Sets of decrements.
LEMMA Grid ==
    ASSUME NEW S \in SUBSET (Workers \X (1..CheckTx))
    PROVE  /\ Check!init_counter \in Nat
           /\ IsFiniteSet(S) /\ Cardinality(S) \in 0..Check!init_counter
           /\ S = Workers \X (1..CheckTx) => Cardinality(S) = Check!init_counter
<1>1. IsFiniteSet(Workers) /\ Cardinality(Workers) \in Nat
  BY WorkersAssumption, FS_CardinalityType
<1>2. IsFiniteSet(1..CheckTx) /\ Cardinality(1..CheckTx) = CheckTx
  BY LengthAssumption, FS_Interval
<1>3. /\ IsFiniteSet(Workers \X (1..CheckTx))
      /\ Cardinality(Workers \X (1..CheckTx)) = Cardinality(Workers) * CheckTx
  BY <1>1, <1>2, FS_Product
<1>4. Check!init_counter = CheckTx * Cardinality(Workers)
  BY DEF Check!init_counter, Check!Cardinality, Cardinality
<1>5. CheckTx * Cardinality(Workers) = Cardinality(Workers) * CheckTx BY <1>1, LengthAssumption
<1>6. IsFiniteSet(S) /\ Cardinality(S) <= Check!init_counter
  BY <1>3, <1>4, <1>5, FS_Subset
<1>7. Cardinality(S) \in Nat BY <1>6, FS_CardinalityType
<1>8. Check!init_counter \in Nat
  <2>1. CheckTx * Cardinality(Workers) \in Nat BY <1>1, LengthAssumption
  <2> QED BY <1>4, <2>1
<1> QED BY <1>3, <1>4, <1>5, <1>6, <1>7, <1>8

LEMMA OutstandingSet == Outstanding \in SUBSET (Workers \X (1..CheckTx))
BY DEF Outstanding

\* What is outstanding stays when that of every worker does, and shrinks when it does.
LEMMA OutstandingKept ==
    /\ (\A u \in Workers : Rem(u)' = Rem(u)) => Outstanding' = Outstanding
    /\ CheckTypes /\ CheckTypes' /\ (\A u \in Workers : Rem(u)' <= Rem(u)) => Outstanding' \subseteq Outstanding
<1>1. ASSUME \A u \in Workers : Rem(u)' = Rem(u) PROVE Outstanding' = Outstanding
  BY <1>1 DEF Outstanding
<1>2. ASSUME CheckTypes, CheckTypes', \A u \in Workers : Rem(u)' <= Rem(u)
      PROVE  Outstanding' \subseteq Outstanding
  <2>1. \A u \in Workers : Rem(u) \in Nat /\ Rem(u)' \in Nat
    BY <1>2, LengthAssumption DEF Rem, CheckTypes
  <2> QED BY <1>2, <2>1 DEF Outstanding
<1> QED BY <1>1, <1>2

\* A worker comes to the first barrier.
LEMMA BeginCheckStep ==
    ASSUME CheckInv, Passing, NEW w \in Workers, CallsCheck(w), Check!Begin(w),
           UNCHANGED <<at, calls>>
    PROVE  CheckInv'
<1> USE DEF Check!Begin, Check!Does, Check!Go, Check!Barrier!Enter, Check!Barrier!Go
<1>1. /\ pc'[w] = (IF w = First THEN "init" ELSE "second") /\ syncs'[w] = syncs[w] + 1
      /\ \A u \in Workers : u # w => pc'[u] = pc[u] /\ syncs'[u] = syncs[u] /\ place'[u] = place[u]
      /\ UNCHANGED <<counter, todo, last, correct>>
  BY DEF CheckInv, CheckTypes, Passing
<1>2. syncs[w] = 0 /\ pc[w] = "out" BY DEF CheckInv, InTheCheck
<1>3. CheckTypes' BY <1>1 DEF CheckInv, CheckTypes, Pcs
<1>4. InTheCheck' BY <1>1, RoundsNat DEF CheckInv, InTheCheck, CallsCheck
<1>5. AtBarriers' BY <1>1, <1>2 DEF CheckInv, AtBarriers
<1>6. Outstanding' = Outstanding
  <2>1. \A u \in Workers : Rem(u)' = Rem(u) BY <1>1, <1>2 DEF Rem
  <2> QED BY <2>1, OutstandingKept
<1>7. Counting'
  <2>1. Initialized' <=> Initialized BY <1>1, <1>2, WorkersAssumption DEF Initialized
  <2>2. \A u \in Workers : Lost(u)' <=> Lost(u) BY <1>1, <1>2 DEF Lost
  <2>3. \A u \in Workers : pc'[u] \in {"check", "decrement"} => pc[u] = pc'[u] BY <1>1
  <2> QED BY <1>1, <1>6, <2>1, <2>2, <2>3, WorkersAssumption DEF CheckInv, Counting
<1> QED BY <1>3, <1>4, <1>5, <1>7 DEF CheckInv

\* Passing a barrier changes nothing here.
LEMMA PassStep ==
    ASSUME CheckInv, Passing, NEW w \in Workers, Check!Barrier!Pass(w),
           UNCHANGED <<at, calls, counter, pc, todo, last, correct>>
    PROVE  CheckInv'
<1>1. syncs' = syncs /\ \A u \in Workers : place[u] = "out" => place'[u] = "out"
  BY DEF Check!Barrier!Pass, Check!Barrier!Open, Check!Barrier!SeeOpen, Check!Barrier!Leave,
         Check!Barrier!Close, Check!Barrier!SeeClosed, Check!Barrier!Go, Passing
<1>2. CheckTypes' /\ InTheCheck' BY <1>1 DEF CheckInv, CheckTypes, InTheCheck, CallsCheck
<1>3. AtBarriers' BY <1>1 DEF CheckInv, AtBarriers
<1>4. Outstanding' = Outstanding BY <1>1 DEF Outstanding, Rem
<1>5. Counting' BY <1>1, <1>4 DEF CheckInv, Counting, Initialized, Lost
<1> QED BY <1>2, <1>3, <1>5 DEF CheckInv

\* The first worker initializes the counter: nobody is beyond the second barrier.
LEMMA InitCounterStep ==
    ASSUME CheckInv, Passing, NEW w \in Workers, Check!InitCounter(w), UNCHANGED <<at, calls>>
    PROVE  CheckInv'
<1> USE DEF Check!InitCounter, Check!Does, Check!Go, Check!barrier
<1>1. /\ pc'[w] = "check"
      /\ \A u \in Workers : u # w => pc'[u] = pc[u]
      /\ counter' = Check!init_counter
      /\ UNCHANGED <<place, syncs, todo, last, correct>>
  BY DEF CheckInv, CheckTypes
<1>2. w = First /\ syncs[w] = 1 BY DEF CheckInv, AtBarriers
<1>3. \A u \in Workers : syncs[u] >= 2 => pc[u] = "read" /\ todo[u] = CheckTx /\ syncs[u] = 2
  BY <1>2 DEF CheckInv, AtBarriers, Passing
<1>4. CheckTypes'
  <2>1. Check!init_counter \in Nat BY Grid, OutstandingSet
  <2>2. counter' \in 0..Check!init_counter BY <1>1, <2>1
  <2>3. pc' \in [Workers -> Pcs] BY DEF CheckInv, CheckTypes, Pcs
  <2> QED BY <1>1, <2>2, <2>3 DEF CheckInv, CheckTypes
<1>5. InTheCheck' BY <1>1 DEF CheckInv, InTheCheck, CallsCheck
<1>6. AtBarriers' BY <1>1, <1>2 DEF CheckInv, AtBarriers
<1>7. Cardinality(Outstanding') = Check!init_counter
  <2>1. \A u \in Workers : Rem(u)' = CheckTx BY <1>1, <1>2, <1>3 DEF Rem, Passing
  <2>2. Outstanding' = Workers \X (1..CheckTx) BY <2>1 DEF Outstanding
  <2> QED BY <2>2, Grid
<1>8. Counting'
  <2>1. \A u \in Workers : pc'[u] # "decrement" BY <1>1, <1>2, <1>3 DEF CheckInv, AtBarriers
  <2>2. Check!init_counter \in Nat BY Grid, OutstandingSet
  <2> QED BY <1>1, <1>7, <2>1, <2>2 DEF Counting
<1> QED BY <1>4, <1>5, <1>6, <1>8 DEF CheckInv

\* It finds what it has stored.
LEMMA CheckCounterStep ==
    ASSUME CheckInv, NEW w \in Workers, Check!CheckCounter(w), UNCHANGED <<at, calls>>
    PROVE  CheckInv'
<1> USE DEF Check!CheckCounter, Check!Does, Check!Go, Check!barrier
<1>1. w = First /\ counter = Check!init_counter BY DEF CheckInv, AtBarriers, Counting
<1>2. /\ pc'[w] = "second"
      /\ \A u \in Workers : u # w => pc'[u] = pc[u]
      /\ UNCHANGED <<place, syncs, counter, todo, last>>
  BY DEF CheckInv, CheckTypes
<1>3. correct' \in [Workers -> {TRUE}]
  <2>1. correct' = [correct EXCEPT ![w] = TRUE] BY <1>1
  <2> QED BY <2>1 DEF CheckInv, CheckTypes
<1>4. CheckTypes'
  <2>1. pc' \in [Workers -> Pcs] BY DEF CheckInv, CheckTypes, Pcs
  <2> QED BY <1>2, <1>3, <2>1 DEF CheckInv, CheckTypes
<1>5. InTheCheck' BY <1>2 DEF CheckInv, InTheCheck, CallsCheck
<1>6. AtBarriers' BY <1>1, <1>2 DEF CheckInv, AtBarriers
<1>7. Outstanding' = Outstanding
  <2>1. \A u \in Workers : Rem(u)' = Rem(u) BY <1>2 DEF Rem, CheckInv, AtBarriers
  <2> QED BY <2>1, OutstandingKept
<1>8. Counting'
  <2>1. Initialized BY <1>1 DEF Initialized
  <2>2. \A u \in Workers : Lost(u)' <=> Lost(u) BY <1>2 DEF Lost
  <2>3. \A u \in Workers : pc'[u] = "decrement" => pc[u] = "decrement" BY <1>2
  <2> QED BY <1>1, <1>2, <1>7, <2>1, <2>2, <2>3 DEF CheckInv, Counting
<1> QED BY <1>4, <1>5, <1>6, <1>8 DEF CheckInv

\* A worker comes to the second barrier.
LEMMA SecondStep ==
    ASSUME CheckInv, Passing, NEW w \in Workers, Check!Second(w), UNCHANGED <<at, calls>>
    PROVE  CheckInv'
<1> USE DEF Check!Second, Check!Does, Check!Go, Check!Barrier!Enter, Check!Barrier!Go
<1>1. correct[w] BY DEF CheckInv, CheckTypes
<1>2. /\ pc'[w] = "read" /\ syncs'[w] = 2 /\ todo'[w] = CheckTx
      /\ \A u \in Workers : u # w => /\ pc'[u] = pc[u] /\ syncs'[u] = syncs[u] /\ place'[u] = place[u]
                                     /\ todo'[u] = todo[u]
      /\ UNCHANGED <<counter, last, correct>>
  BY <1>1 DEF CheckInv, CheckTypes, AtBarriers, Passing
<1>3. CheckTypes'
  <2>1. pc' \in [Workers -> Pcs] BY <1>1 DEF CheckInv, CheckTypes, Pcs
  <2>2. todo' \in [Workers -> 0..CheckTx] BY LengthAssumption DEF CheckInv, CheckTypes
  <2> QED BY <1>2, <2>1, <2>2 DEF CheckInv, CheckTypes
<1>4. InTheCheck' BY <1>2, RoundsNat DEF CheckInv, InTheCheck, CallsCheck
<1>5. AtBarriers' BY <1>2, LengthAssumption DEF CheckInv, AtBarriers
<1>6. Outstanding' = Outstanding
  <2>1. syncs[w] = 1 BY DEF CheckInv, AtBarriers
  <2>2. Rem(w)' = Rem(w) BY <1>2, <2>1 DEF Rem
  <2>3. \A u \in Workers : Rem(u)' = Rem(u) BY <1>2, <2>2 DEF Rem
  <2> QED BY <2>3, OutstandingKept
<1>7. Counting'
  <2>1. Initialized' <=> Initialized BY <1>2, WorkersAssumption DEF Initialized
  <2>2. \A u \in Workers : Lost(u)' <=> Lost(u) BY <1>2 DEF Lost
  <2>3. \A u \in Workers : pc'[u] \in {"check", "decrement"} => pc[u] = pc'[u] BY <1>2
  <2> QED BY <1>2, <1>6, <2>1, <2>2, <2>3, WorkersAssumption DEF CheckInv, Counting
<1> QED BY <1>3, <1>4, <1>5, <1>7 DEF CheckInv

\* It reads the counter.
LEMMA ReadLastStep ==
    ASSUME CheckInv, NEW w \in Workers, Check!ReadLast(w), UNCHANGED <<at, calls>>
    PROVE  CheckInv'
<1> USE DEF Check!ReadLast, Check!Does, Check!Go, Check!barrier
<1>1. /\ pc'[w] = "decrement" /\ last'[w] = counter
      /\ \A u \in Workers : u # w => pc'[u] = pc[u] /\ last'[u] = last[u]
      /\ UNCHANGED <<place, syncs, counter, todo, correct>>
  BY DEF CheckInv, CheckTypes
<1>2. CheckTypes'
  <2>1. pc' \in [Workers -> Pcs] BY DEF CheckInv, CheckTypes, Pcs
  <2>2. last' \in [Workers -> 0..Check!init_counter] BY DEF CheckInv, CheckTypes
  <2> QED BY <1>1, <2>1, <2>2 DEF CheckInv, CheckTypes
<1>3. InTheCheck' BY <1>1 DEF CheckInv, InTheCheck, CallsCheck
<1>4. AtBarriers' BY <1>1 DEF CheckInv, AtBarriers
<1>5. Outstanding' = Outstanding
  <2>1. \A u \in Workers : Rem(u)' = Rem(u) BY <1>1 DEF Rem
  <2> QED BY <2>1, OutstandingKept
<1>6. Counting'
  <2>1. Initialized' <=> Initialized BY <1>1, WorkersAssumption DEF Initialized
  <2>2. \A u \in Workers : Lost(u)' <=> Lost(u) BY <1>1 DEF Lost
  <2>3. pc'[First] = "check" => pc[First] = "check" BY <1>1, WorkersAssumption
  <2>4. counter <= counter BY DEF CheckInv, CheckTypes
  <2> QED BY <1>1, <1>5, <2>1, <2>2, <2>3, <2>4, WorkersAssumption DEF CheckInv, Counting
<1> QED BY <1>2, <1>3, <1>4, <1>6 DEF CheckInv

\* It finds the counter no higher, and decrements it: one decrement less is outstanding.
LEMMA DecrementStep ==
    ASSUME CheckInv, Passing, NEW w \in Workers, Check!Decrement(w), UNCHANGED <<at, calls>>
    PROVE  CheckInv'
<1> USE DEF Check!Decrement, Check!Does, Check!Go, Check!barrier
<1>1. syncs[w] = 2 /\ todo[w] \in 1..CheckTx
  BY DEF CheckInv, AtBarriers, CheckTypes
<1>2. counter <= last[w] BY DEF CheckInv, Counting
<1>3. /\ correct' = [correct EXCEPT ![w] = TRUE]
      /\ counter' = counter - 1
      /\ pc' = [pc EXCEPT ![w] = IF todo[w] > 1 THEN "read" ELSE "third"]
      /\ todo' = [todo EXCEPT ![w] = @ - 1]
      /\ UNCHANGED <<place, syncs, last>>
  BY <1>2
<1>4. /\ pc'[w] = (IF todo[w] > 1 THEN "read" ELSE "third") /\ todo'[w] = todo[w] - 1
      /\ \A u \in Workers : u # w => pc'[u] = pc[u] /\ todo'[u] = todo[u]
  BY <1>3 DEF CheckInv, CheckTypes
<1>5. syncs[First] >= 2 BY <1>1, WorkersAssumption DEF Passing
<1> HIDE DEF Check!Decrement
<1>6. Outstanding' = Outstanding \ {<<w, todo[w]>>} /\ <<w, todo[w]>> \in Outstanding
  <2>1. \A u \in Workers : u # w => Rem(u)' = Rem(u) BY <1>3, <1>4 DEF Rem
  <2>2. Rem(w) = todo[w] BY <1>1 DEF Rem, Check!Decrement
  <2>3. Rem(w)' = todo[w] - 1 BY <1>1, <1>3, <1>4 DEF Rem
  <2>4. <<w, todo[w]>> \in Outstanding BY <1>1, <2>2 DEF Outstanding
  <2>5. \A p \in Workers \X (1..CheckTx) : p \in Outstanding' <=> p \in Outstanding /\ p # <<w, todo[w]>>
    <3> SUFFICES ASSUME NEW u \in Workers, NEW i \in 1..CheckTx
                 PROVE  i <= Rem(u)' <=> i <= Rem(u) /\ <<u, i>> # <<w, todo[w]>>
      BY DEF Outstanding
    <3>1. CASE u # w BY <2>1, <3>1
    <3>2. CASE u = w BY <1>1, <2>2, <2>3, <3>2
    <3> QED BY <3>1, <3>2
  <2>6. Outstanding' \subseteq Workers \X (1..CheckTx) BY DEF Outstanding
  <2> QED BY <2>4, <2>5, <2>6, OutstandingSet
<1>7. /\ Cardinality(Outstanding) \in Nat
      /\ Cardinality(Outstanding) > 0 /\ Cardinality(Outstanding') = Cardinality(Outstanding) - 1
  <2>1. IsFiniteSet(Outstanding) /\ Cardinality(Outstanding) \in Nat BY Grid, OutstandingSet
  <2>2. Cardinality(Outstanding) # 0 BY <1>6, <2>1, FS_EmptySet
  <2>3. Cardinality(Outstanding \ {<<w, todo[w]>>}) = Cardinality(Outstanding) - 1
    BY <1>6, <2>1, FS_RemoveElement
  <2> QED BY <1>6, <2>1, <2>2, <2>3
<1>8. Cardinality(Outstanding) <= counter BY <1>5 DEF CheckInv, Counting, Initialized
<1>9. CheckTypes'
  <2>1. pc' \in [Workers -> Pcs] BY <1>3 DEF CheckInv, CheckTypes, Pcs
  <2>2. todo' \in [Workers -> 0..CheckTx] BY <1>1, <1>3 DEF CheckInv, CheckTypes
  <2>3. counter' \in 0..Check!init_counter BY <1>3, <1>7, <1>8, Grid, OutstandingSet DEF CheckInv, CheckTypes
  <2>4. correct' \in [Workers -> {TRUE}] BY <1>3 DEF CheckInv, CheckTypes
  <2> QED BY <1>3, <2>1, <2>2, <2>3, <2>4 DEF CheckInv, CheckTypes
<1>10. InTheCheck' BY <1>3, <1>4 DEF CheckInv, InTheCheck, CallsCheck, Check!Decrement
<1>11. AtBarriers' BY <1>1, <1>3, <1>4 DEF CheckInv, AtBarriers, Check!Decrement
<1>12. Counting'
  <2>1. Initialized BY <1>5 DEF Initialized
  <2>2. \A u \in Workers : Lost(u)' <=> Lost(u) BY <1>3, <1>4 DEF Lost, Check!Decrement
  <2>3. \A u \in Workers : pc'[u] = "decrement" => counter' <= last'[u]
    <3> SUFFICES ASSUME NEW u \in Workers, pc'[u] = "decrement" PROVE counter' <= last'[u]
      OBVIOUS
    <3>1. u # w BY <1>4
    <3>2. counter <= last[u] BY <1>4, <3>1 DEF CheckInv, Counting
    <3> QED BY <1>3, <3>2, Grid, OutstandingSet DEF CheckInv, CheckTypes
  <2>4. pc'[First] # "check"
    <3>1. pc[First] # "check" BY <1>5, WorkersAssumption DEF CheckInv, AtBarriers
    <3> QED BY <1>4, <3>1, WorkersAssumption
  <2>5. Cardinality(Outstanding') <= counter' BY <1>3, <1>7, <1>8 DEF CheckInv, CheckTypes
  <2>6. (\A u \in Workers : ~Lost(u)) => counter = Cardinality(Outstanding)
    BY <2>1 DEF CheckInv, Counting
  <2>7. (\A u \in Workers : ~Lost(u)') => counter' = Cardinality(Outstanding')
    BY <1>3, <1>7, <2>2, <2>6
  <2> QED BY <2>3, <2>4, <2>5, <2>7 DEF Counting
<1> QED BY <1>9, <1>10, <1>11, <1>12 DEF CheckInv

\* It has made its decrements, and comes to the third barrier.
LEMMA ThirdStep ==
    ASSUME CheckInv, Passing, NEW w \in Workers, Check!Third(w), UNCHANGED <<at, calls>>
    PROVE  CheckInv'
<1> USE DEF Check!Third, Check!Does, Check!Go, Check!Barrier!Enter, Check!Barrier!Go
<1>1. /\ pc'[w] = "final" /\ syncs'[w] = 3 /\ syncs[w] = 2
      /\ \A u \in Workers : u # w => pc'[u] = pc[u] /\ syncs'[u] = syncs[u] /\ place'[u] = place[u]
      /\ UNCHANGED <<counter, todo, last, correct>>
  BY DEF CheckInv, CheckTypes, AtBarriers, Passing
<1>2. CheckTypes'
  <2>1. pc' \in [Workers -> Pcs] BY DEF CheckInv, CheckTypes, Pcs
  <2> QED BY <1>1, <2>1 DEF CheckInv, CheckTypes
<1>3. InTheCheck' BY <1>1, RoundsNat DEF CheckInv, InTheCheck, CallsCheck
<1>4. AtBarriers' BY <1>1 DEF CheckInv, AtBarriers
<1>5. Outstanding' = Outstanding
  <2>1. \A u \in Workers : Rem(u)' = Rem(u) BY <1>1 DEF Rem
  <2> QED BY <2>1, OutstandingKept
<1>6. Counting'
  <2>1. Initialized' <=> Initialized BY <1>1, WorkersAssumption DEF Initialized
  <2>2. \A u \in Workers : Lost(u)' <=> Lost(u) BY <1>1 DEF Lost
  <2>3. \A u \in Workers : pc'[u] \in {"check", "decrement"} => pc[u] = pc'[u] BY <1>1
  <2> QED BY <1>1, <1>5, <2>1, <2>2, <2>3, WorkersAssumption DEF CheckInv, Counting
<1> QED BY <1>2, <1>3, <1>4, <1>6 DEF CheckInv

\* A worker leaves its call of check: at its end, or thrown out of a transaction.
LEMMA LeaveCheckStep ==
    ASSUME CheckInv, NEW w \in Workers, Check!Leave(w),
           place[w] = "out", pc[w] \notin {"second", "third"},
           UNCHANGED <<place, syncs, counter, calls>>,
           at'[w] # "run", \A u \in Workers : u # w => at'[u] = at[u]
    PROVE  CheckInv'
<1> USE DEF Check!Leave
<1>1. /\ pc'[w] = "out"
      /\ \A u \in Workers : u # w => pc'[u] = pc[u] /\ todo'[u] = todo[u] /\ last'[u] = last[u]
  BY DEF CheckInv, CheckTypes
<1>2. CheckTypes'
  <2>1. Check!init_counter \in Nat BY Grid, OutstandingSet
  <2>2. pc' \in [Workers -> Pcs] BY DEF CheckInv, CheckTypes, Pcs
  <2>3. todo' \in [Workers -> 0..CheckTx] BY LengthAssumption DEF CheckInv, CheckTypes
  <2>4. last' \in [Workers -> 0..Check!init_counter] BY <2>1 DEF CheckInv, CheckTypes
  <2>5. correct' \in [Workers -> {TRUE}] BY DEF CheckInv, CheckTypes
  <2> QED BY <2>2, <2>3, <2>4, <2>5 DEF CheckInv, CheckTypes
<1>3. InTheCheck' BY <1>1 DEF CheckInv, InTheCheck, CallsCheck
<1>4. AtBarriers' BY <1>1 DEF CheckInv, AtBarriers
<1>5. Outstanding' \subseteq Outstanding /\ (~Lost(w)' => Outstanding' = Outstanding)
  <2>1. \A u \in Workers : u # w => Rem(u)' = Rem(u) BY <1>1 DEF Rem
  <2>2. Rem(w)' <= Rem(w) BY <1>1, LengthAssumption DEF Rem, CheckInv, CheckTypes
  <2>3. \A u \in Workers : Rem(u) <= Rem(u) BY LengthAssumption DEF Rem, CheckInv, CheckTypes
  <2>4. ASSUME ~Lost(w)' PROVE Rem(w)' = Rem(w)
    BY <1>1, <2>4 DEF Rem, Lost, CheckInv, AtBarriers
  <2> QED BY <1>2, <2>1, <2>2, <2>3, <2>4, OutstandingKept DEF CheckInv
<1>6. Counting'
  <2>1. Initialized' => Initialized BY <1>1, WorkersAssumption DEF Initialized
  <2>2. \A u \in Workers : u # w => (Lost(u)' <=> Lost(u)) BY <1>1 DEF Lost
  <2>3. \A u \in Workers : pc'[u] \in {"check", "decrement"} => pc[u] = pc'[u] /\ last'[u] = last[u]
    BY <1>1
  <2>4. ~Lost(w)' => ~Lost(w)
    BY <1>1 DEF Lost
  <2>5. IsFiniteSet(Outstanding) /\ Cardinality(Outstanding) \in Nat BY Grid, OutstandingSet
  <2>6. Cardinality(Outstanding') <= Cardinality(Outstanding) /\ Cardinality(Outstanding') \in Nat
    BY <1>5, <2>5, FS_Subset, FS_CardinalityType
  <2>7. Initialized' => Cardinality(Outstanding') <= counter
    BY <2>1, <2>5, <2>6 DEF CheckInv, CheckTypes, Counting
  <2>8. Initialized' /\ (\A u \in Workers : ~Lost(u)') => counter = Cardinality(Outstanding')
    BY <1>5, <2>1, <2>2, <2>4 DEF CheckInv, Counting
  <2> QED BY <2>3, <2>7, <2>8, WorkersAssumption DEF CheckInv, Counting
<1> QED BY <1>2, <1>3, <1>4, <1>6 DEF CheckInv

\* What the workers do outside the check: the calls go on to the last.
LEMMA ElsewhereStep ==
    ASSUME CheckInv, UNCHANGED check,
           \A u \in Workers :
               /\ calls'[u] < Sync!Rounds => calls[u] < Sync!Rounds
               /\ CallsCheck(u) => CallsCheck(u)'
               /\ CallsCheck(u)' => CallsCheck(u) \/ calls[u] < Sync!Rounds
    PROVE  CheckInv'
<1> USE DEF check, barrier
<1>1. CheckTypes' /\ AtBarriers' BY DEF CheckInv, CheckTypes, AtBarriers
<1>2. InTheCheck'
  <2>1. UNCHANGED <<pc, syncs>> OBVIOUS
  <2> QED BY <2>1 DEF CheckInv, InTheCheck, CallsCheck
<1>3. Outstanding' = Outstanding BY DEF Outstanding, Rem
<1>4. Counting' BY <1>3 DEF CheckInv, Counting, Initialized, Lost
<1> QED BY <1>1, <1>2, <1>4 DEF CheckInv

\* A first worker that comes to the end of the check finds the counter at 0:
\* nobody has been thrown out, and all are through with their decrements.
LEMMA FoundZero ==
    ASSUME CheckInv, Passing, NEW w \in Workers, Check!Does(w, "final")
    PROVE  Check!FoundCorrect(w)
<1>1. correct[w] BY DEF CheckInv, CheckTypes
<1>2. ASSUME w = First PROVE counter = 0
  <2>1. \A u \in Workers : syncs[u] >= 3
    BY <1>2 DEF CheckInv, AtBarriers, Passing, Check!Does
  <2>2. \A u \in Workers : pc[u] \in {"final", "out"} BY <2>1 DEF CheckInv, AtBarriers, CheckTypes, Pcs
  <2>3. \A u \in Workers : ~Lost(u) /\ Rem(u) = 0 BY <2>1, <2>2 DEF Lost, Rem, Passing
  <2>4. Initialized BY <2>1, WorkersAssumption DEF Initialized, Passing
  <2>5. Outstanding = {} BY <2>3 DEF Outstanding
  <2>6. Cardinality(Outstanding) = 0 BY <2>5, FS_EmptySet
  <2> QED BY <2>3, <2>4, <2>6 DEF CheckInv, Counting
<1> QED BY <1>1, <1>2 DEF Check!FoundCorrect

\* The calls of check, by worker w.
LEMMA DoCheckStep ==
    ASSUME CheckInv, Passing, at \in [Workers -> Places], NEW w \in Workers, DoCheck(w)
    PROVE  CheckInv'
<1>1. CallsCheck(w) BY DEF DoCheck
<1>2. CASE Check!Begin(w) /\ UNCHANGED sync BY <1>1, <1>2, BeginCheckStep DEF sync
<1>3. CASE Check!Run(w) /\ UNCHANGED sync
  <2>1. UNCHANGED <<at, calls>> BY <1>3 DEF sync
  <2> QED BY <1>3, <2>1, PassStep, InitCounterStep, CheckCounterStep, SecondStep, ReadLastStep,
             DecrementStep, ThirdStep
    DEF Check!Run, Check!locals
<1>4. ASSUME Check!Final(w), NEW what \in {"ok", "error"}, Sync!Return(w, what) PROVE CheckInv'
  <2>1. Check!Leave(w) /\ place[w] = "out" /\ pc[w] \notin {"second", "third"}
        /\ UNCHANGED <<place, syncs, counter>>
    BY <1>4 DEF Check!Final, Check!Does, Check!barrier
  <2>2. calls' = calls /\ at'[w] # "run" /\ \A u \in Workers : u # w => at'[u] = at[u]
    BY <1>4 DEF Sync!Return, Sync!Go, Places
  <2> QED BY <2>1, <2>2, LeaveCheckStep
<1>5. \A b : Error(b) \in {"ok", "error"} BY DEF Error
<1> QED BY <1>2, <1>3, <1>4, <1>5 DEF DoCheck

LEMMA ThrowCheckStep ==
    ASSUME CheckInv, at \in [Workers -> Places], NEW w \in Workers, Throw(w),
           tx[w] # "out" => calls[w] < Sync!Rounds
    PROVE  CheckInv'
<1>1. Check!Leave(w) /\ UNCHANGED <<place, syncs, counter>> BY DEF Throw, barrier
<1>2. place[w] = "out" /\ pc[w] \notin {"second", "third"}
  <2>1. CASE pc[w] = "out" BY <2>1 DEF CheckInv, AtBarriers
  <2>2. CASE pc[w] # "out"
    <3>1. CallsCheck(w) BY <2>2 DEF CheckInv, InTheCheck
    <3>2. ~(calls[w] < Sync!Rounds) /\ ~CallsInit(w) BY <3>1, RoundsNat DEF CallsInit, CallsCheck
    <3>3. Check!Transacting(w) BY <3>2 DEF Throw, Bank!Transacting
    <3> QED BY <3>3 DEF Check!Transacting
  <2> QED BY <2>1, <2>2
<1>3. calls' = calls /\ at'[w] # "run" /\ \A u \in Workers : u # w => at'[u] = at[u]
  BY DEF Throw, Sync!Return, Sync!Go, Places
<1> QED BY <1>1, <1>2, <1>3, LeaveCheckStep

-----------------------------------------------------------------------------
(* Functions defined by recursion on the index *)

\* A set of natural numbers below a bound has a smallest one.
LEMMA Smallest ==
    ASSUME NEW n \in Nat, NEW B \in SUBSET (0..n), B # {}
    PROVE  \E k \in B : \A j \in B : k <= j
<1> DEFINE T == {0..k : k \in B}
           R == StrictSubsetOrdering(0..n)
<1>1. IsWellFoundedOn(R, FiniteSubsetsOf(0..n)) BY FS_StrictSubsetOrderingWellFounded
<1>2. T \subseteq FiniteSubsetsOf(0..n) /\ T # {}
  <2>1. ASSUME NEW k \in B PROVE 0..k \in FiniteSubsetsOf(0..n)
    <3>1. 0 \in Int /\ k \in Int /\ 0..k \subseteq 0..n OBVIOUS
    <3>2. IsFiniteSet(0..k) BY <3>1, FS_Interval
    <3> QED BY <3>1, <3>2 DEF FiniteSubsetsOf
  <2> QED BY <2>1
<1>3. PICK x \in T : \A y \in T : ~(<<y, x>> \in R)
  <2> HIDE DEF T, R
  <2> QED BY <1>1, <1>2, WFMin
<1>4. PICK k \in B : x = 0..k OBVIOUS
<1>5. ASSUME NEW j \in B, j < k PROVE FALSE
  <2>1. 0..j \subseteq 0..k /\ 0..j \subseteq 0..n /\ 0..k \subseteq 0..n /\ 0..j # 0..k
    <3>1. k \in 0..k /\ k \notin 0..j BY <1>5
    <3> QED BY <1>5, <3>1
  <2>2. 0..j \in T OBVIOUS
  <2>3. <<0..j, 0..k>> \in R BY <2>1 DEF StrictSubsetOrdering
  <2> QED BY <1>3, <1>4, <2>2, <2>3
<1> QED BY <1>5

\* g starts from base and goes on by next.
Follows(g, base, next, n) == g[0] = base /\ \A k \in 1..n : g[k] = next[k][g[k - 1]]

\* There is one such function ...
LEMMA Recursion ==
    ASSUME NEW V, NEW n \in Nat, NEW base \in V, NEW next \in [1..n -> [V -> V]]
    PROVE  \E g \in [0..n -> V] : Follows(g, base, next, n)
<1> DEFINE B == {k \in 0..n : ~ \E g \in [0..k -> V] : Follows(g, base, next, k)}
<1>1. B # {} => FALSE
  <2> SUFFICES ASSUME B # {} PROVE FALSE
    OBVIOUS
  <2>1. PICK k \in B : \A j \in B : k <= j
    <3>1. B \in SUBSET (0..n) OBVIOUS
    <3> HIDE DEF B
    <3> QED BY <3>1, Smallest
  <2>2. k # 0
    <3>1. [i \in 0..0 |-> base] \in [0..0 -> V] /\ Follows([i \in 0..0 |-> base], base, next, 0)
      BY DEF Follows
    <3> QED BY <2>1, <3>1
  <2>3. k - 1 \in 0..n /\ k \in 1..n /\ k - 1 \notin B BY <2>1, <2>2
  <2>4. PICK g \in [0..(k - 1) -> V] : Follows(g, base, next, k - 1) BY <2>3
  <2> DEFINE h == [i \in 0..k |-> IF i = k THEN next[k][g[k - 1]] ELSE g[i]]
  <2>5. g[k - 1] \in V /\ next[k][g[k - 1]] \in V BY <2>3, <2>4
  <2>6. h \in [0..k -> V]
    <3>1. ASSUME NEW i \in 0..k, i # k PROVE i \in 0..(k - 1) BY <2>3, <3>1
    <3>2. \A i \in 0..k : (IF i = k THEN next[k][g[k - 1]] ELSE g[i]) \in V BY <2>4, <2>5, <3>1
    <3> QED BY <3>2
  <2>7. Follows(h, base, next, k)
    <3>1. h[0] = base BY <2>2, <2>3, <2>4 DEF Follows
    <3>2. ASSUME NEW i \in 1..k PROVE h[i] = next[i][h[i - 1]]
      <4>1. i - 1 \in 0..k /\ i - 1 # k /\ h[i - 1] = g[i - 1] BY <2>3
      <4>2. CASE i = k BY <4>1, <4>2
      <4>3. CASE i # k
        <5>1. i \in 1..(k - 1) /\ h[i] = g[i] BY <2>3, <4>3
        <5> QED BY <2>4, <4>1, <5>1 DEF Follows
      <4> QED BY <4>2, <4>3
    <3> HIDE DEF h
    <3> QED BY <3>1, <3>2 DEF Follows
  <2> HIDE DEF h
  <2> QED BY <2>1, <2>6, <2>7
<1>2. n \in 0..n /\ n \notin B BY <1>1
<1> QED BY <1>2

\* ... and no other.
LEMMA NoOther ==
    ASSUME NEW n \in Nat, NEW f, NEW g, NEW base, NEW next,
           Follows(f, base, next, n), Follows(g, base, next, n)
    PROVE  \A k \in 0..n : f[k] = g[k]
<1> DEFINE B == {k \in 0..n : f[k] # g[k]}
<1> SUFFICES ASSUME B # {} PROVE FALSE
  OBVIOUS
<1>1. PICK k \in B : \A j \in B : k <= j
  <2>1. B \in SUBSET (0..n) OBVIOUS
  <2> HIDE DEF B
  <2> QED BY <2>1, Smallest
<1>2. k # 0 BY <1>1 DEF Follows
<1>3. k \in 1..n /\ k - 1 \in 0..n /\ k - 1 \notin B BY <1>1, <1>2
<1>4. f[k] = next[k][f[k - 1]] /\ g[k] = next[k][g[k - 1]] BY <1>3 DEF Follows
<1> QED BY <1>1, <1>3, <1>4

-----------------------------------------------------------------------------
(* Sums *)

IsSum(g, s) ==
    /\ g \in [0..Len(s) -> Int]
    /\ g[0] = 0
    /\ \A k \in 1..Len(s) : g[k] = g[k - 1] + s[k]

\* The equation of Totals.
LEMMA TotalsEquation ==
    ASSUME NEW s,
           \E g : g = [k \in 0..Len(s) |-> IF k = 0 THEN 0 ELSE g[k - 1] + s[k]]
    PROVE  Bank!Totals(s) = [k \in 0..Len(s) |-> IF k = 0 THEN 0 ELSE Bank!Totals(s)[k - 1] + s[k]]
BY Zenon DEF Bank!Totals

LEMMA SumExists ==
    ASSUME NEW V \in {Nat, Int}, NEW s \in Seq(V)
    PROVE  \E g \in [0..Len(s) -> V] : IsSum(g, s)
<1> DEFINE next == [k \in 1..Len(s) |-> [v \in V |-> v + s[k]]]
<1>1. Len(s) \in Nat /\ \A k \in 1..Len(s) : s[k] \in V OBVIOUS
<1>2. next \in [1..Len(s) -> [V -> V]]
  <2>1. \A k \in 1..Len(s), v \in V : v + s[k] \in V BY <1>1
  <2> QED BY <2>1
<1>3. \A k \in 1..Len(s), v \in V : next[k][v] = v + s[k] OBVIOUS
<1> HIDE DEF next
<1>4. PICK g \in [0..Len(s) -> V] : Follows(g, 0, next, Len(s))
  <2>1. 0 \in V /\ Len(s) \in Nat OBVIOUS
  <2> QED BY <1>2, <2>1, Recursion, Zenon
<1>5. \A k \in 1..Len(s) : g[k] = g[k - 1] + s[k]
  <2> SUFFICES ASSUME NEW k \in 1..Len(s) PROVE g[k] = g[k - 1] + s[k]
    OBVIOUS
  <2>1. k - 1 \in 0..Len(s) BY <1>1
  <2>2. g[k - 1] \in V BY <2>1
  <2> QED BY <1>3, <1>4, <2>2 DEF Follows
<1>6. g \in [0..Len(s) -> Int]
  <2>1. \A k \in 0..Len(s) : g[k] \in Int OBVIOUS
  <2> QED BY <2>1
<1> QED BY <1>4, <1>5, <1>6 DEF IsSum, Follows

LEMMA SumOf ==
    ASSUME NEW s \in Seq(Int), NEW g, IsSum(g, s)
    PROVE  Bank!TotalOf(s) = g[Len(s)]
<1>1. Len(s) \in Nat OBVIOUS
<1>2. g = [k \in 0..Len(s) |-> IF k = 0 THEN 0 ELSE g[k - 1] + s[k]]
  <2>1. \A k \in 0..Len(s) : k # 0 => k \in 1..Len(s) BY <1>1
  <2>2. \A k \in 0..Len(s) : g[k] = IF k = 0 THEN 0 ELSE g[k - 1] + s[k] BY <2>1 DEF IsSum
  <2>3. g = [k \in 0..Len(s) |-> g[k]] BY DEF IsSum
  <2> QED BY <2>2, <2>3
<1> DEFINE t == Bank!Totals(s)
<1>3. t = [k \in 0..Len(s) |-> IF k = 0 THEN 0 ELSE t[k - 1] + s[k]] BY <1>2, TotalsEquation
<1> HIDE DEF t
<1>4. \A k \in 0..Len(s) : t[k] = IF k = 0 THEN 0 ELSE t[k - 1] + s[k]
  <2> DEFINE e(k) == IF k = 0 THEN 0 ELSE t[k - 1] + s[k]
  <2> HIDE DEF e
  <2>1. t = [k \in 0..Len(s) |-> e(k)] BY <1>3 DEF e
  <2>2. \A k \in 0..Len(s) : t[k] = e(k) BY <2>1
  <2> QED BY <2>2 DEF e
<1> DEFINE B == {k \in 0..Len(s) : t[k] # g[k]}
<1>5. ASSUME B # {} PROVE FALSE
  <2>1. PICK k \in B : \A j \in B : k <= j
    <3>1. B \in SUBSET (0..Len(s)) OBVIOUS
    <3> HIDE DEF B
    <3> QED BY <1>1, <1>5, <3>1, Smallest
  <2>2. k # 0 BY <1>1, <1>4, <2>1 DEF IsSum
  <2>3. k \in 1..Len(s) /\ k - 1 \in 0..Len(s) /\ k - 1 \notin B BY <1>1, <2>1, <2>2
  <2> QED BY <1>4, <2>1, <2>2, <2>3 DEF IsSum
<1>6. t[Len(s)] = g[Len(s)]
  <2>1. Len(s) \in 0..Len(s) /\ Len(s) \notin B BY <1>1, <1>5
  <2> QED BY <2>1
<1> QED BY <1>6 DEF t, Bank!TotalOf

LEMMA SumType ==
    ASSUME NEW V \in {Nat, Int}, NEW s \in Seq(V)
    PROVE  Bank!TotalOf(s) \in V
<1>1. PICK g \in [0..Len(s) -> V] : IsSum(g, s) BY SumExists
<1>2. s \in Seq(Int)
  <2>1. Len(s) \in Nat /\ \A k \in 1..Len(s) : s[k] \in Int OBVIOUS
  <2>2. s = [k \in 1..Len(s) |-> s[k]] OBVIOUS
  <2> QED BY <2>1, <2>2
<1>3. Bank!TotalOf(s) = g[Len(s)] BY <1>1, <1>2, SumOf
<1>4. Len(s) \in 0..Len(s) OBVIOUS
<1> QED BY <1>3, <1>4

LEMMA SumEmpty == Bank!TotalOf(<<>>) = 0
<1> DEFINE g == [k \in 0..0 |-> 0]
<1>1. Len(<<>>) = 0 /\ <<>> \in Seq(Int) OBVIOUS
<1>2. IsSum(g, <<>>) BY <1>1 DEF IsSum
<1> QED BY <1>1, <1>2, SumOf

LEMMA SumAppend ==
    ASSUME NEW s \in Seq(Int), NEW x \in Int
    PROVE  Bank!TotalOf(Append(s, x)) = Bank!TotalOf(s) + x
<1> DEFINE n == Len(s)
           r == Append(s, x)
<1>1. n \in Nat /\ r \in Seq(Int) /\ Len(r) = n + 1 /\ r[n + 1] = x
      /\ \A k \in 1..n : r[k] = s[k]
  OBVIOUS
<1>2. PICK g : IsSum(g, s) BY SumExists
<1>3. Bank!TotalOf(s) = g[n] BY <1>2, SumOf
<1> DEFINE h == [k \in 0..(n + 1) |-> IF k = n + 1 THEN g[n] + x ELSE g[k]]
<1> HIDE DEF r
<1>4. g \in [0..n -> Int] /\ g[0] = 0 /\ \A k \in 1..n : g[k] = g[k - 1] + s[k]
  BY <1>2 DEF IsSum
<1> HIDE DEF n
<1>5. IsSum(h, r)
  <2>1. h \in [0..(n + 1) -> Int] /\ h[0] = 0 BY <1>1, <1>4
  <2>2. ASSUME NEW k \in 1..(n + 1) PROVE h[k] = h[k - 1] + r[k]
    <3>1. k - 1 \in 0..n /\ k - 1 # n + 1 /\ h[k - 1] = g[k - 1] BY <1>1
    <3>2. CASE k = n + 1 BY <1>1, <3>1, <3>2
    <3>3. CASE k # n + 1
      <4>1. k \in 1..n BY <1>1, <3>3
      <4> QED BY <1>1, <1>4, <3>1, <3>3, <4>1
    <3> QED BY <3>2, <3>3
  <2> QED BY <1>1, <2>1, <2>2 DEF IsSum
<1>6. Bank!TotalOf(r) = h[n + 1] BY <1>1, <1>5, SumOf
<1>7. h[n + 1] = g[n] + x BY <1>1
<1> QED BY <1>3, <1>6, <1>7 DEF r, n

LEMMA SumFront ==
    ASSUME NEW s \in Seq(Int), Len(s) > 0
    PROVE  Bank!TotalOf(SubSeq(s, 1, Len(s) - 1)) = Bank!TotalOf(s) - s[Len(s)]
<1> DEFINE f == SubSeq(s, 1, Len(s) - 1)
<1>1. f \in Seq(Int) /\ s[Len(s)] \in Int OBVIOUS
<1>2. s = Append(f, s[Len(s)]) OBVIOUS
<1>3. Bank!TotalOf(f) \in Int BY <1>1, SumType
<1>4. Bank!TotalOf(Append(f, s[Len(s)])) = Bank!TotalOf(f) + s[Len(s)] BY <1>1, SumAppend
<1> HIDE DEF f
<1>5. Bank!TotalOf(s) = Bank!TotalOf(f) + s[Len(s)] BY <1>2, <1>4
<1>6. Bank!TotalOf(f) = Bank!TotalOf(s) - s[Len(s)] BY <1>1, <1>3, <1>5
<1> QED BY <1>6 DEF f

LEMMA SumExcept ==
    ASSUME NEW s \in Seq(Int), NEW i \in 1..Len(s), NEW x \in Int
    PROVE  Bank!TotalOf([s EXCEPT ![i] = x]) = Bank!TotalOf(s) - s[i] + x
<1> DEFINE n == Len(s)
           r == [s EXCEPT ![i] = x]
<1>1. n \in Nat /\ r \in Seq(Int) /\ Len(r) = n /\ s[i] \in Int
      /\ \A k \in 1..n : r[k] = IF k = i THEN x ELSE s[k]
  OBVIOUS
<1>2. PICK g : IsSum(g, s) BY SumExists
<1>3. Bank!TotalOf(s) = g[n] BY <1>2, SumOf
<1> DEFINE h == [k \in 0..n |-> IF k < i THEN g[k] ELSE g[k] - s[i] + x]
<1> HIDE DEF r
<1>4. g \in [0..n -> Int] /\ g[0] = 0 /\ \A k \in 1..n : g[k] = g[k - 1] + s[k] /\ s[k] \in Int
  BY <1>2 DEF IsSum
<1>5. i \in 1..n OBVIOUS
<1> HIDE DEF n
<1>6. IsSum(h, r)
  <2> DEFINE d == x - s[i]
  <2>0. d \in Int /\ x = s[i] + d BY <1>1
  <2>1. \A k \in 0..n : h[k] = IF k < i THEN g[k] ELSE g[k] + d
    <3>1. \A k \in 0..n : g[k] \in Int BY <1>4
    <3>2. \A k \in 0..n : g[k] - s[i] + x = g[k] + d BY <1>1, <3>1
    <3> QED BY <3>2
  <2>2. DOMAIN h = 0..n /\ h = [k \in 0..n |-> h[k]] OBVIOUS
  <2> HIDE DEF h, d
  <2>3. h \in [0..n -> Int] /\ h[0] = 0
    <3>1. \A k \in 0..n : h[k] \in Int
      <4>1. \A k \in 0..n : g[k] \in Int BY <1>4
      <4>2. \A k \in 0..n : g[k] + d \in Int BY <2>0, <4>1
      <4> QED BY <2>1, <4>1, <4>2
    <3>2. 0 < i /\ 0 \in 0..n BY <1>1, <1>5
    <3> QED BY <1>4, <2>1, <2>2, <3>1, <3>2
  <2>4. ASSUME NEW k \in 1..n PROVE h[k] = h[k - 1] + r[k]
    <3>1. k - 1 \in 0..n /\ k \in 0..n /\ g[k - 1] \in Int BY <1>1, <1>4
    <3>2. g[k] = g[k - 1] + s[k] /\ s[k] \in Int BY <1>4
    <3>3. CASE k = i BY <1>1, <1>5, <2>0, <2>1, <3>1, <3>2, <3>3
    <3>4. CASE k # i
      <4>1. r[k] = s[k] BY <1>1, <3>4
      <4>2. k < i <=> k - 1 < i BY <1>1, <1>5, <3>4
      <4> QED BY <2>0, <2>1, <3>1, <3>2, <4>1, <4>2
    <3> QED BY <3>3, <3>4
  <2> QED BY <1>1, <2>3, <2>4 DEF IsSum
<1>7. Bank!TotalOf(r) = h[n] BY <1>1, <1>6, SumOf
<1>8. h[n] = g[n] - s[i] + x BY <1>1, <1>5
<1> QED BY <1>3, <1>7, <1>8 DEF r, n

LEMMA SumConstant ==
    ASSUME NEW n \in Nat, NEW c \in Int
    PROVE  Bank!TotalOf([i \in 1..n |-> c]) = c * n
<1> DEFINE s == [i \in 1..n |-> c]
           g == [k \in 0..n |-> c * k]
<1>1. s \in Seq(Int) /\ Len(s) = n /\ \A k \in 1..n : s[k] = c OBVIOUS
<1> HIDE DEF s
<1>2. \A k \in 1..n : c * k = c * (k - 1) + c OBVIOUS
<1>3. \A k \in 0..n : c * k \in Int OBVIOUS
<1>4. c * 0 = 0 OBVIOUS
<1>5. IsSum(g, s)
  <2>1. g \in [0..n -> Int] /\ g[0] = 0 BY <1>3, <1>4
  <2>2. \A k \in 1..n : g[k] = g[k - 1] + s[k] BY <1>1, <1>2
  <2> QED BY <1>1, <2>1, <2>2 DEF IsSum
<1>6. Bank!TotalOf(s) = g[n] BY <1>1, <1>5, SumOf
<1> QED BY <1>6 DEF s

-----------------------------------------------------------------------------
(* The segments of the bank *)

Segment == [parity : Int, accounts : Seq(Nat)]

Worth(seg) == seg.parity + Bank!TotalOf(seg.accounts)

Worths(segs) == [s \in 1..Len(segs) |-> Worth(segs[s])]
Counts(segs) == [s \in 1..Len(segs) |-> Len(segs[s].accounts)]

MoneyOf(segs)    == Bank!TotalOf(Worths(segs))
AccountsOf(segs) == Bank!TotalOf(Counts(segs))

\* What alloc_tx can shrink, with all its money.
Linked(segs) ==
    /\ segs \in Seq(Segment) /\ Len(segs) > 0
    /\ \A s \in 1..Len(segs) : IF s = Len(segs) THEN Len(segs[s].accounts) <= nbaccounts
                               ELSE Len(segs[s].accounts) = nbaccounts
    /\ Len(segs[Len(segs)].accounts) = 0 => Len(segs) = 1
    /\ MoneyOf(segs) = init_balance * AccountsOf(segs)

LEMMA NatInt ==
    ASSUME NEW s \in Seq(Nat)
    PROVE  s \in Seq(Int)
<1>1. Len(s) \in Nat /\ \A k \in 1..Len(s) : s[k] \in Int OBVIOUS
<1>2. s = [k \in 1..Len(s) |-> s[k]] OBVIOUS
<1> QED BY <1>1, <1>2

LEMMA WorthType ==
    ASSUME NEW seg \in Segment
    PROVE  Worth(seg) \in Int /\ Len(seg.accounts) \in Nat /\ Bank!TotalOf(seg.accounts) \in Nat
<1>1. seg.parity \in Int /\ seg.accounts \in Seq(Nat) BY DEF Segment
<1>2. Bank!TotalOf(seg.accounts) \in Nat BY <1>1, SumType
<1> QED BY <1>1, <1>2 DEF Worth

LEMMA SumsType ==
    ASSUME NEW segs \in Seq(Segment)
    PROVE  /\ Worths(segs) \in Seq(Int) /\ Len(Worths(segs)) = Len(segs)
           /\ Counts(segs) \in Seq(Nat) /\ Counts(segs) \in Seq(Int) /\ Len(Counts(segs)) = Len(segs)
           /\ MoneyOf(segs) \in Int /\ AccountsOf(segs) \in Nat
<1>1. Len(segs) \in Nat /\ \A s \in 1..Len(segs) : segs[s] \in Segment OBVIOUS
<1>2. \A s \in 1..Len(segs) : Worth(segs[s]) \in Int /\ Len(segs[s].accounts) \in Nat
  BY <1>1, WorthType
<1>3. Worths(segs) \in Seq(Int) /\ Len(Worths(segs)) = Len(segs) BY <1>1, <1>2 DEF Worths
<1>4. Counts(segs) \in Seq(Nat) /\ Len(Counts(segs)) = Len(segs) BY <1>1, <1>2 DEF Counts
<1>5. Counts(segs) \in Seq(Int) BY <1>4, NatInt
<1>6. MoneyOf(segs) \in Int /\ AccountsOf(segs) \in Nat
  BY <1>3, <1>4, SumType DEF MoneyOf, AccountsOf
<1> QED BY <1>3, <1>4, <1>5, <1>6

Changed(segs, k, seg) == [segs EXCEPT ![k] = seg]
Longer(segs, seg)     == Append(segs, seg)
Front(segs)           == SubSeq(segs, 1, Len(segs) - 1)

\* A segment changes.
LEMMA ReplaceSums ==
    ASSUME NEW segs \in Seq(Segment), NEW k \in 1..Len(segs), NEW seg \in Segment
    PROVE  /\ Changed(segs, k, seg) \in Seq(Segment) /\ Len(Changed(segs, k, seg)) = Len(segs)
           /\ Changed(segs, k, seg)[k] = seg /\ \A s \in 1..Len(segs) : s # k => Changed(segs, k, seg)[s] = segs[s]
           /\ MoneyOf(Changed(segs, k, seg)) = MoneyOf(segs) - Worth(segs[k]) + Worth(seg)
           /\ AccountsOf(Changed(segs, k, seg)) = AccountsOf(segs) - Len(segs[k].accounts) + Len(seg.accounts)
<1> DEFINE r == Changed(segs, k, seg)
<1>1. r \in Seq(Segment) /\ Len(r) = Len(segs) BY DEF Changed
<1>2. r[k] = seg /\ \A s \in 1..Len(segs) : s # k => r[s] = segs[s] BY DEF Changed
<1>3. segs[k] \in Segment OBVIOUS
<1> HIDE DEF r
<1>4. Worths(r) = [Worths(segs) EXCEPT ![k] = Worth(seg)]
  <2> DEFINE f == [s \in 1..Len(segs) |-> IF s = k THEN Worth(seg) ELSE Worth(segs[s])]
  <2>1. \A s \in 1..Len(segs) : Worth(r[s]) = IF s = k THEN Worth(seg) ELSE Worth(segs[s]) BY <1>2
  <2>2. Worths(r) = f BY <1>1, <2>1 DEF Worths
  <2>3. [Worths(segs) EXCEPT ![k] = Worth(seg)] = f BY DEF Worths
  <2> QED BY <2>2, <2>3
<1>5. Counts(r) = [Counts(segs) EXCEPT ![k] = Len(seg.accounts)]
  <2> DEFINE f == [s \in 1..Len(segs) |-> IF s = k THEN Len(seg.accounts) ELSE Len(segs[s].accounts)]
  <2>1. \A s \in 1..Len(segs) :
          Len(r[s].accounts) = IF s = k THEN Len(seg.accounts) ELSE Len(segs[s].accounts)
    BY <1>2
  <2>2. Counts(r) = f BY <1>1, <2>1 DEF Counts
  <2>3. [Counts(segs) EXCEPT ![k] = Len(seg.accounts)] = f BY DEF Counts
  <2> QED BY <2>2, <2>3
<1>6. Worth(seg) \in Int /\ Len(seg.accounts) \in Int BY WorthType
<1>7. Worths(segs)[k] = Worth(segs[k]) /\ Counts(segs)[k] = Len(segs[k].accounts)
  BY DEF Worths, Counts
<1>8. MoneyOf(r) = MoneyOf(segs) - Worth(segs[k]) + Worth(seg)
  <2>1. k \in 1..Len(Worths(segs)) /\ Worths(segs) \in Seq(Int) BY SumsType
  <2>2. Bank!TotalOf([Worths(segs) EXCEPT ![k] = Worth(seg)]) = Bank!TotalOf(Worths(segs)) - Worths(segs)[k] + Worth(seg)
    BY <1>6, <2>1, SumExcept
  <2> QED BY <1>4, <1>7, <2>2 DEF MoneyOf
<1>9. AccountsOf(r) = AccountsOf(segs) - Len(segs[k].accounts) + Len(seg.accounts)
  <2>1. k \in 1..Len(Counts(segs)) /\ Counts(segs) \in Seq(Int) BY SumsType
  <2>2. Bank!TotalOf([Counts(segs) EXCEPT ![k] = Len(seg.accounts)]) = Bank!TotalOf(Counts(segs)) - Counts(segs)[k] + Len(seg.accounts)
    BY <1>6, <2>1, SumExcept
  <2> QED BY <1>5, <1>7, <2>2 DEF AccountsOf
<1> QED BY <1>1, <1>2, <1>8, <1>9 DEF r

\* A segment is added at the end.
LEMMA AppendSums ==
    ASSUME NEW segs \in Seq(Segment), NEW seg \in Segment
    PROVE  /\ Longer(segs, seg) \in Seq(Segment) /\ Len(Longer(segs, seg)) = Len(segs) + 1
           /\ Longer(segs, seg)[Len(segs) + 1] = seg /\ \A s \in 1..Len(segs) : Longer(segs, seg)[s] = segs[s]
           /\ MoneyOf(Longer(segs, seg)) = MoneyOf(segs) + Worth(seg)
           /\ AccountsOf(Longer(segs, seg)) = AccountsOf(segs) + Len(seg.accounts)
<1> DEFINE r == Longer(segs, seg)
<1>1. r \in Seq(Segment) /\ Len(r) = Len(segs) + 1 /\ Len(segs) \in Nat BY DEF Longer
<1>2. r[Len(segs) + 1] = seg /\ \A s \in 1..Len(segs) : r[s] = segs[s] BY DEF Longer
<1> HIDE DEF r
<1>3. Worth(seg) \in Int /\ Len(seg.accounts) \in Int BY WorthType
<1>4. Worths(segs) \in Seq(Int) /\ Len(Worths(segs)) = Len(segs)
      /\ Counts(segs) \in Seq(Int) /\ Len(Counts(segs)) = Len(segs)
  BY SumsType
<1>5. Worths(r) = Append(Worths(segs), Worth(seg))
  <2> DEFINE a == Append(Worths(segs), Worth(seg))
  <2>1. a \in Seq(Int) /\ Len(a) = Len(r) BY <1>1, <1>3, <1>4
  <2>2. \A s \in 1..Len(r) : a[s] = Worth(r[s])
    <3>1. a[Len(segs) + 1] = Worth(seg) BY <1>3, <1>4
    <3>2. \A s \in 1..Len(segs) : a[s] = Worths(segs)[s] BY <1>3, <1>4
    <3>3. \A s \in 1..Len(segs) : a[s] = Worth(segs[s]) BY <3>2 DEF Worths
    <3>4. \A s \in 1..Len(r) : s = Len(segs) + 1 \/ s \in 1..Len(segs) BY <1>1
    <3> HIDE DEF a
    <3> QED BY <1>2, <3>1, <3>3, <3>4
  <2> HIDE DEF a
  <2>3. a = [s \in 1..Len(r) |-> a[s]] BY <2>1
  <2>4. a = Worths(r) BY <2>2, <2>3 DEF Worths
  <2> QED BY <2>4 DEF a
<1>6. Counts(r) = Append(Counts(segs), Len(seg.accounts))
  <2> DEFINE a == Append(Counts(segs), Len(seg.accounts))
  <2>1. a \in Seq(Int) /\ Len(a) = Len(r) BY <1>1, <1>3, <1>4
  <2>2. \A s \in 1..Len(r) : a[s] = Len(r[s].accounts)
    <3>1. a[Len(segs) + 1] = Len(seg.accounts) BY <1>3, <1>4
    <3>2. \A s \in 1..Len(segs) : a[s] = Counts(segs)[s] BY <1>3, <1>4
    <3>3. \A s \in 1..Len(segs) : a[s] = Len(segs[s].accounts) BY <3>2 DEF Counts
    <3>4. \A s \in 1..Len(r) : s = Len(segs) + 1 \/ s \in 1..Len(segs) BY <1>1
    <3> HIDE DEF a
    <3> QED BY <1>2, <3>1, <3>3, <3>4
  <2> HIDE DEF a
  <2>3. a = [s \in 1..Len(r) |-> a[s]] BY <2>1
  <2>4. a = Counts(r) BY <2>2, <2>3 DEF Counts
  <2> QED BY <2>4 DEF a
<1>7. MoneyOf(r) = MoneyOf(segs) + Worth(seg) BY <1>3, <1>4, <1>5, SumAppend DEF MoneyOf
<1>8. AccountsOf(r) = AccountsOf(segs) + Len(seg.accounts)
  BY <1>3, <1>4, <1>6, SumAppend DEF AccountsOf
<1> QED BY <1>1, <1>2, <1>7, <1>8 DEF r

\* The last segment is removed.
LEMMA FrontSums ==
    ASSUME NEW segs \in Seq(Segment), Len(segs) > 0
    PROVE  /\ Front(segs) \in Seq(Segment) /\ Len(Front(segs)) = Len(segs) - 1
           /\ \A s \in 1..(Len(segs) - 1) : Front(segs)[s] = segs[s]
           /\ MoneyOf(Front(segs)) = MoneyOf(segs) - Worth(segs[Len(segs)])
           /\ AccountsOf(Front(segs)) = AccountsOf(segs) - Len(segs[Len(segs)].accounts)
<1> DEFINE r == Front(segs)
           seg == segs[Len(segs)]
<1>1. r \in Seq(Segment) /\ Len(r) = Len(segs) - 1 /\ seg \in Segment
  <2>1. Len(segs) \in Nat /\ Len(segs) - 1 \in Nat /\ \A s \in 1..Len(segs) : segs[s] \in Segment
    OBVIOUS
  <2>2. r = [s \in 1..(Len(segs) - 1) |-> segs[s]] BY <2>1 DEF Front
  <2> HIDE DEF r
  <2>3. r \in Seq(Segment) BY <2>1, <2>2
  <2>4. Len(r) = Len(segs) - 1 BY <2>1, <2>2
  <2>5. seg \in Segment BY <2>1
  <2> QED BY <2>3, <2>4, <2>5
<1>2. \A s \in 1..(Len(segs) - 1) : r[s] = segs[s] BY DEF Front
<1>3. segs = Longer(r, seg) BY DEF Front, Longer
<1> HIDE DEF r, seg
<1>4. MoneyOf(Longer(r, seg)) = MoneyOf(r) + Worth(seg)
      /\ AccountsOf(Longer(r, seg)) = AccountsOf(r) + Len(seg.accounts)
  BY <1>1, AppendSums
<1>5. Worth(seg) \in Int /\ Len(seg.accounts) \in Nat /\ MoneyOf(r) \in Int /\ AccountsOf(r) \in Nat
  BY <1>1, WorthType, SumsType
<1>6. MoneyOf(segs) = MoneyOf(r) + Worth(seg) /\ AccountsOf(segs) = AccountsOf(r) + Len(seg.accounts)
  BY <1>3, <1>4
<1>7. MoneyOf(r) = MoneyOf(segs) - Worth(seg) BY <1>5, <1>6
<1>8. AccountsOf(r) = AccountsOf(segs) - Len(seg.accounts) BY <1>5, <1>6
<1> QED BY <1>1, <1>2, <1>7, <1>8 DEF r, seg

-----------------------------------------------------------------------------
(* What the transactions make of the segments *)

LEMMA OneSegment ==
    ASSUME NEW seg \in Segment
    PROVE  <<seg>> \in Seq(Segment) /\ MoneyOf(<<seg>>) = Worth(seg)
           /\ AccountsOf(<<seg>>) = Len(seg.accounts)
<1> DEFINE e == <<>>
<1>1. e \in Seq(Segment) /\ Longer(e, seg) = <<seg>> /\ <<seg>> \in Seq(Segment) BY DEF Longer
<1>2. Worths(e) = <<>> /\ Counts(e) = <<>> BY DEF Worths, Counts
<1>3. MoneyOf(e) = 0 /\ AccountsOf(e) = 0 BY <1>2, SumEmpty DEF MoneyOf, AccountsOf
<1>4. MoneyOf(<<seg>>) = MoneyOf(e) + Worth(seg) /\ AccountsOf(<<seg>>) = AccountsOf(e) + Len(seg.accounts)
  <2> HIDE DEF e
  <2>1. MoneyOf(Longer(e, seg)) = MoneyOf(e) + Worth(seg)
        /\ AccountsOf(Longer(e, seg)) = AccountsOf(e) + Len(seg.accounts)
    BY <1>1, AppendSums
  <2> QED BY <1>1, <2>1
<1>5. Worth(seg) \in Int /\ Len(seg.accounts) \in Nat BY WorthType
<1> HIDE DEF e
<1> QED BY <1>1, <1>3, <1>4, <1>5

\* The first segment, new, and once the bank is open.
New == <<[parity |-> 0, accounts |-> <<>>]>>

Opened == <<[parity |-> 0, accounts |-> [i \in 1..nbaccounts |-> init_balance]]>>

LEMMA NewLinked == Linked(New)
<1> DEFINE seg == [parity |-> 0, accounts |-> <<>>]
<1>1. seg \in Segment /\ seg.parity = 0 /\ seg.accounts = <<>> BY DEF Segment
<1>2. Worth(seg) = 0 BY <1>1, SumEmpty DEF Worth
<1>3. Len(seg.accounts) = 0 BY <1>1
<1> HIDE DEF seg
<1>4. <<seg>> \in Seq(Segment) /\ MoneyOf(<<seg>>) = 0 /\ AccountsOf(<<seg>>) = 0
  BY <1>1, <1>2, <1>3, OneSegment
<1>5. Len(<<seg>>) = 1 /\ <<seg>>[1] = seg OBVIOUS
<1> DEFINE segs == <<seg>>
<1> HIDE DEF segs
<1>6. segs \in Seq(Segment) /\ Len(segs) = 1 /\ segs[1] = seg /\ MoneyOf(segs) = 0 /\ AccountsOf(segs) = 0
  BY <1>4, <1>5 DEF segs
<1>7. Linked(segs) BY <1>3, <1>6 DEF Linked
<1> QED BY <1>7 DEF New, segs, seg

LEMMA OpenedLinked == Linked(Opened)
<1> DEFINE acc == [i \in 1..nbaccounts |-> init_balance]
           seg == [parity |-> 0, accounts |-> acc]
<1>0. acc \in Seq(Nat) /\ Len(acc) = nbaccounts OBVIOUS
<1>1. seg \in Segment /\ seg.parity = 0 /\ seg.accounts = acc BY <1>0 DEF Segment
<1>2. Worth(seg) = init_balance * nbaccounts
  <2>1. Bank!TotalOf(acc) = init_balance * nbaccounts
    <3>1. nbaccounts \in Nat /\ init_balance \in Int OBVIOUS
    <3> QED BY <3>1, SumConstant, Zenon
  <2>2. init_balance * nbaccounts \in Int OBVIOUS
  <2> HIDE DEF acc, seg
  <2> QED BY <1>1, <2>1, <2>2 DEF Worth
<1>3. Len(seg.accounts) = nbaccounts BY <1>0, <1>1
<1> HIDE DEF seg
<1>4. <<seg>> \in Seq(Segment) /\ MoneyOf(<<seg>>) = init_balance * nbaccounts
      /\ AccountsOf(<<seg>>) = nbaccounts
  BY <1>1, <1>2, <1>3, OneSegment
<1>5. Len(<<seg>>) = 1 /\ <<seg>>[1] = seg OBVIOUS
<1> DEFINE segs == <<seg>>
<1> HIDE DEF segs
<1>6. segs \in Seq(Segment) /\ Len(segs) = 1 /\ segs[1] = seg
      /\ MoneyOf(segs) = init_balance * nbaccounts /\ AccountsOf(segs) = nbaccounts
  BY <1>4, <1>5 DEF segs
<1>7. Linked(segs) BY <1>3, <1>6 DEF Linked
<1> QED BY <1>7 DEF Opened, segs, seg

LEMMA LastOf ==
    ASSUME NEW segs, Linked(segs)
    PROVE  /\ segs \in Seq(Segment) /\ Len(segs) \in Nat \ {0} /\ Len(segs) \in 1..Len(segs)
           /\ segs[Len(segs)] \in Segment
           /\ segs[Len(segs)].parity \in Int /\ segs[Len(segs)].accounts \in Seq(Nat)
           /\ Len(segs[Len(segs)].accounts) \in 0..nbaccounts
           /\ MoneyOf(segs) \in Int /\ AccountsOf(segs) \in Nat
<1>1. segs \in Seq(Segment) /\ Len(segs) \in Nat \ {0} /\ Len(segs) \in 1..Len(segs)
  BY DEF Linked
<1>2. segs[Len(segs)] \in Segment BY <1>1
<1>3. segs[Len(segs)].parity \in Int /\ segs[Len(segs)].accounts \in Seq(Nat) BY <1>2 DEF Segment
<1>4. Len(segs[Len(segs)].accounts) \in 0..nbaccounts BY <1>1, <1>3 DEF Linked
<1> QED BY <1>1, <1>2, <1>3, <1>4, SumsType

\* The last segment gives up or gets an account, with its balance at the start.
LEMMA LastChanged ==
    ASSUME NEW segs, Linked(segs), NEW seg \in Segment, NEW d \in Int,
           Len(seg.accounts) = Len(segs[Len(segs)].accounts) + d,
           Len(seg.accounts) \in 1..nbaccounts,
           Worth(seg) = Worth(segs[Len(segs)]) + init_balance * d
    PROVE  Linked(Changed(segs, Len(segs), seg))
<1> DEFINE L == Len(segs)
           r == Changed(segs, L, seg)
<1>1. segs \in Seq(Segment) /\ L \in Nat \ {0} /\ L \in 1..L /\ segs[L] \in Segment
      /\ MoneyOf(segs) \in Int /\ AccountsOf(segs) \in Nat
      /\ Len(segs[L].accounts) \in Nat
  BY LastOf
<1>2. /\ r \in Seq(Segment) /\ Len(r) = L
      /\ r[L] = seg /\ \A s \in 1..L : s # L => r[s] = segs[s]
      /\ MoneyOf(r) = MoneyOf(segs) - Worth(segs[L]) + Worth(seg)
      /\ AccountsOf(r) = AccountsOf(segs) - Len(segs[L].accounts) + Len(seg.accounts)
  BY <1>1, ReplaceSums
<1>3. Worth(segs[L]) \in Int BY <1>1, WorthType
<1> HIDE DEF L, r
<1>4. AccountsOf(r) = AccountsOf(segs) + d BY <1>1, <1>2 DEF L
<1>5. MoneyOf(r) = MoneyOf(segs) + init_balance * d
  <2>1. init_balance * d \in Int OBVIOUS
  <2>2. Worth(seg) = Worth(segs[L]) + init_balance * d BY DEF L
  <2> QED BY <1>1, <1>2, <1>3, <2>1, <2>2
<1>6. MoneyOf(segs) = init_balance * AccountsOf(segs) BY DEF Linked
<1>7. init_balance * (AccountsOf(segs) + d) = init_balance * AccountsOf(segs) + init_balance * d
  <2> DEFINE a == AccountsOf(segs)
  <2>1. a \in Int BY <1>1
  <2> HIDE DEF a
  <2>2. init_balance * (a + d) = init_balance * a + init_balance * d BY <2>1
  <2> QED BY <2>2 DEF a
<1>8. MoneyOf(r) = init_balance * AccountsOf(r) BY <1>4, <1>5, <1>6, <1>7
<1>9. \A s \in 1..L : s # L => Len(segs[s].accounts) = nbaccounts BY <1>1 DEF Linked, L
<1>10. Len(r[L].accounts) \in 1..nbaccounts BY <1>2
<1>11. Linked(r)
  <2>1. r \in Seq(Segment) /\ Len(r) > 0 BY <1>1, <1>2
  <2>2. \A s \in 1..Len(r) : IF s = Len(r) THEN Len(r[s].accounts) <= nbaccounts
                             ELSE Len(r[s].accounts) = nbaccounts
    BY <1>2, <1>9, <1>10
  <2>3. Len(r[Len(r)].accounts) # 0 BY <1>2, <1>10
  <2> QED BY <1>8, <2>1, <2>2, <2>3 DEF Linked
<1> QED BY <1>11 DEF L, r

\* A segment without its last account, whose surplus is in the parity, and one with
\* an account more.
Shrunk(seg) ==
    [parity   |-> seg.parity + seg.accounts[Len(seg.accounts)] - init_balance,
     accounts |-> Front(seg.accounts)]

Merged(seg, freed) == [parity |-> seg.parity + freed.parity, accounts |-> seg.accounts]

Grown(seg) == [parity |-> seg.parity, accounts |-> Append(seg.accounts, init_balance)]

LEMMA FrontAccounts ==
    ASSUME NEW acc \in Seq(Nat), Len(acc) > 0
    PROVE  /\ Front(acc) \in Seq(Nat) /\ Len(Front(acc)) = Len(acc) - 1 /\ acc[Len(acc)] \in Nat
           /\ Bank!TotalOf(Front(acc)) = Bank!TotalOf(acc) - acc[Len(acc)]
<1>1. Front(acc) \in Seq(Nat) /\ acc[Len(acc)] \in Nat BY DEF Front
<1>2. Len(Front(acc)) = Len(acc) - 1
  <2>1. Len(acc) - 1 \in Nat OBVIOUS
  <2>2. Front(acc) = [i \in 1..(Len(acc) - 1) |-> acc[i]] BY <2>1 DEF Front
  <2> QED BY <1>1, <2>1, <2>2
<1>3. acc \in Seq(Int) BY NatInt
<1> QED BY <1>1, <1>2, <1>3, SumFront DEF Front

LEMMA ShrunkSegment ==
    ASSUME NEW seg \in Segment, Len(seg.accounts) > 0
    PROVE  /\ Shrunk(seg) \in Segment /\ Len(Shrunk(seg).accounts) = Len(seg.accounts) - 1
           /\ Worth(Shrunk(seg)) = Worth(seg) - init_balance
<1> DEFINE acc == seg.accounts
           p   == seg.parity
           x   == acc[Len(acc)]
           f   == Front(acc)
<1>1. acc \in Seq(Nat) /\ p \in Int BY DEF Segment
<1>2. f \in Seq(Nat) /\ Len(f) = Len(acc) - 1 /\ x \in Nat /\ Bank!TotalOf(f) = Bank!TotalOf(acc) - x
  BY <1>1, FrontAccounts
<1>3. Bank!TotalOf(acc) \in Nat BY WorthType
<1>4. Shrunk(seg) = [parity |-> p + x - init_balance, accounts |-> f] BY DEF Shrunk
<1>5. Worth(seg) = p + Bank!TotalOf(acc) BY DEF Worth
<1> HIDE DEF acc, p, x, f
<1>6. p + x - init_balance \in Int BY <1>1, <1>2
<1>7. Shrunk(seg) \in Segment BY <1>2, <1>4, <1>6 DEF Segment
<1>8. Shrunk(seg).accounts = f /\ Shrunk(seg).parity = p + x - init_balance BY <1>4
<1>9. Worth(Shrunk(seg)) = Worth(seg) - init_balance
  <2>1. Worth(Shrunk(seg)) = (p + x - init_balance) + (Bank!TotalOf(acc) - x) BY <1>2, <1>8 DEF Worth
  <2> QED BY <1>1, <1>2, <1>3, <1>5, <2>1
<1> QED BY <1>2, <1>7, <1>8, <1>9 DEF acc

LEMMA GrownSegment ==
    ASSUME NEW seg \in Segment
    PROVE  /\ Grown(seg) \in Segment /\ Len(Grown(seg).accounts) = Len(seg.accounts) + 1
           /\ Worth(Grown(seg)) = Worth(seg) + init_balance
<1> DEFINE acc == seg.accounts
           p   == seg.parity
           g   == Append(acc, init_balance)
<1>1. acc \in Seq(Nat) /\ p \in Int BY DEF Segment
<1>2. g \in Seq(Nat) /\ Len(g) = Len(acc) + 1
  <2> HIDE DEF acc
  <2> QED BY <1>1
<1>3. Bank!TotalOf(g) = Bank!TotalOf(acc) + init_balance
  <2>1. acc \in Seq(Int) /\ init_balance \in Int BY <1>1, NatInt
  <2> QED BY <2>1, SumAppend
<1>4. Bank!TotalOf(acc) \in Nat BY WorthType
<1>5. Grown(seg) = [parity |-> p, accounts |-> g] BY DEF Grown
<1>6. Worth(seg) = p + Bank!TotalOf(acc) BY DEF Worth
<1> HIDE DEF acc, p, g
<1>7. Grown(seg) \in Segment /\ Grown(seg).accounts = g /\ Grown(seg).parity = p
  BY <1>1, <1>2, <1>5 DEF Segment
<1>8. Worth(Grown(seg)) = Worth(seg) + init_balance
  <2>1. Worth(Grown(seg)) = p + (Bank!TotalOf(acc) + init_balance) BY <1>3, <1>7 DEF Worth
  <2> QED BY <1>1, <1>4, <1>6, <2>1
<1> QED BY <1>2, <1>7, <1>8 DEF acc

\* alloc_tx removes an account, or adds one, where that leaves the segment in place.
LEMMA RemoveAccountLinked ==
    ASSUME NEW segs, Linked(segs), Len(segs[Len(segs)].accounts) > 1
    PROVE  Linked(Changed(segs, Len(segs), Shrunk(segs[Len(segs)])))
<1> DEFINE old == segs[Len(segs)]
<1>1. old \in Segment /\ Len(old.accounts) \in 2..nbaccounts BY LastOf
<1> HIDE DEF old
<1>2. /\ Shrunk(old) \in Segment /\ Len(Shrunk(old).accounts) = Len(old.accounts) - 1
      /\ Worth(Shrunk(old)) = Worth(old) - init_balance
  BY <1>1, ShrunkSegment
<1>3. Worth(Shrunk(old)) = Worth(old) + init_balance * (-1)
  <2>1. Worth(old) \in Int BY <1>1, WorthType
  <2> QED BY <1>2, <2>1
<1>4. Len(Shrunk(old).accounts) = Len(old.accounts) + (-1) /\ Len(Shrunk(old).accounts) \in 1..nbaccounts
      /\ -1 \in Int
  BY <1>1, <1>2
<1> QED BY <1>2, <1>3, <1>4, LastChanged DEF old

LEMMA AddAccountLinked ==
    ASSUME NEW segs, Linked(segs), Len(segs[Len(segs)].accounts) < nbaccounts
    PROVE  Linked(Changed(segs, Len(segs), Grown(segs[Len(segs)])))
<1> DEFINE old == segs[Len(segs)]
<1>1. old \in Segment /\ Len(old.accounts) \in 0..(nbaccounts - 1) BY LastOf
<1> HIDE DEF old
<1>2. /\ Grown(old) \in Segment /\ Len(Grown(old).accounts) = Len(old.accounts) + 1
      /\ Worth(Grown(old)) = Worth(old) + init_balance
  BY <1>1, GrownSegment
<1>3. Worth(Grown(old)) = Worth(old) + init_balance * 1 BY <1>2
<1>4. Len(Grown(old).accounts) \in 1..nbaccounts /\ 1 \in Int BY <1>1, <1>2
<1> QED BY <1>2, <1>3, <1>4, LastChanged DEF old

\* alloc_tx removes the last account with its segment: the surplus goes to the
\* segment before, which is full.
LEMMA FreeSegmentLinked ==
    ASSUME NEW segs, Linked(segs), AccountsOf(segs) > 1, Len(segs[Len(segs)].accounts) = 1
    PROVE  /\ Len(segs) > 1
           /\ Linked(Changed(Front(segs), Len(segs) - 1,
                             Merged(segs[Len(segs) - 1], Shrunk(segs[Len(segs)]))))
<1> DEFINE L   == Len(segs)
           old == segs[L]
           f   == Front(segs)
           lst == segs[L - 1]
           seg == Merged(lst, Shrunk(old))
           r   == Changed(f, L - 1, seg)
<1>1. /\ segs \in Seq(Segment) /\ L \in Nat \ {0} /\ old \in Segment /\ Len(old.accounts) = 1
      /\ MoneyOf(segs) \in Int /\ AccountsOf(segs) \in Nat
  BY LastOf
<1>2. /\ f \in Seq(Segment) /\ Len(f) = L - 1 /\ \A s \in 1..(L - 1) : f[s] = segs[s]
      /\ MoneyOf(f) = MoneyOf(segs) - Worth(old)
      /\ AccountsOf(f) = AccountsOf(segs) - 1
  <2>1. Len(segs) > 0 BY <1>1
  <2> QED BY <1>1, <2>1, FrontSums
<1>3. MoneyOf(segs) = init_balance * AccountsOf(segs)
      /\ \A s \in 1..L : s # L => Len(segs[s].accounts) = nbaccounts
  BY DEF Linked
<1>5. seg = [parity |-> lst.parity + Shrunk(old).parity, accounts |-> lst.accounts] BY DEF Merged
<1>6. AccountsOf(segs) > 1 /\ Worth(old) \in Int BY <1>1, WorthType
<1> HIDE DEF old, L, f, lst, seg, r
<1>4. /\ Shrunk(old) \in Segment /\ Len(Shrunk(old).accounts) = 0
      /\ Worth(Shrunk(old)) = Worth(old) - init_balance
  <2>1. old \in Segment /\ Len(old.accounts) > 0 BY <1>1
  <2>2. /\ Shrunk(old) \in Segment /\ Len(Shrunk(old).accounts) = Len(old.accounts) - 1
        /\ Worth(Shrunk(old)) = Worth(old) - init_balance
    BY <2>1, ShrunkSegment
  <2> QED BY <1>1, <2>2
<1>7. L > 1
  <2> SUFFICES ASSUME L = 1 PROVE FALSE
    BY <1>1
  <2>1. f = <<>> BY <1>2
  <2>2. Counts(f) = <<>> BY <2>1 DEF Counts
  <2>3. AccountsOf(f) = 0 BY <2>2, SumEmpty DEF AccountsOf
  <2> QED BY <1>1, <1>2, <1>6, <2>3
<1>8. L - 1 \in 1..L /\ L - 1 \in 1..(L - 1) /\ L - 1 # L BY <1>1, <1>7
<1>9. lst \in Segment /\ f[L - 1] = lst /\ Len(lst.accounts) = nbaccounts
  BY <1>1, <1>2, <1>3, <1>8 DEF lst
<1>10. Shrunk(old).parity = Worth(old) - init_balance /\ Shrunk(old).parity \in Int
  <2> DEFINE z == Shrunk(old)
  <2>1. z.accounts \in Seq(Nat) /\ z.parity \in Int BY <1>4 DEF Segment
  <2>2. z.accounts = <<>> BY <1>4, <2>1
  <2>3. Worth(z) = z.parity + 0 BY <2>2, SumEmpty DEF Worth
  <2> HIDE DEF z
  <2>4. Worth(z) = z.parity BY <2>1, <2>3
  <2> QED BY <1>4, <2>1, <2>4 DEF z
<1>11. lst.parity \in Int /\ lst.accounts \in Seq(Nat) /\ Bank!TotalOf(lst.accounts) \in Nat
  BY <1>9, WorthType DEF Segment
<1>12. seg \in Segment /\ seg.accounts = lst.accounts /\ seg.parity = lst.parity + Shrunk(old).parity
  <2>1. lst.parity + Shrunk(old).parity \in Int BY <1>10, <1>11
  <2> QED BY <1>5, <1>11, <2>1 DEF Segment
<1>13. Worth(seg) = Worth(lst) + Worth(old) - init_balance
  <2>1. Worth(seg) = (lst.parity + Shrunk(old).parity) + Bank!TotalOf(lst.accounts) BY <1>12 DEF Worth
  <2>2. Worth(lst) = lst.parity + Bank!TotalOf(lst.accounts) BY DEF Worth
  <2> QED BY <1>6, <1>10, <1>11, <2>1, <2>2
<1>14. /\ r \in Seq(Segment) /\ Len(r) = L - 1
       /\ r[L - 1] = seg /\ \A s \in 1..(L - 1) : s # L - 1 => r[s] = f[s]
       /\ MoneyOf(r) = MoneyOf(f) - Worth(lst) + Worth(seg)
       /\ AccountsOf(r) = AccountsOf(f) - Len(lst.accounts) + Len(seg.accounts)
  <2>1. f \in Seq(Segment) /\ L - 1 \in 1..Len(f) BY <1>2, <1>8
  <2>2. /\ r \in Seq(Segment) /\ Len(r) = Len(f)
        /\ r[L - 1] = seg /\ \A s \in 1..Len(f) : s # L - 1 => r[s] = f[s]
        /\ MoneyOf(r) = MoneyOf(f) - Worth(f[L - 1]) + Worth(seg)
        /\ AccountsOf(r) = AccountsOf(f) - Len(f[L - 1].accounts) + Len(seg.accounts)
    <3>1. seg \in Segment BY <1>12
    <3> HIDE WorkersAssumption, RepeatsAssumption, AccountsAssumption, LengthAssumption
    <3> QED BY <2>1, <3>1, ReplaceSums DEF r
  <2> QED BY <1>2, <1>9, <2>2
<1>15. AccountsOf(r) = AccountsOf(segs) - 1 BY <1>1, <1>2, <1>9, <1>12, <1>14
<1>16. MoneyOf(r) = MoneyOf(segs) - init_balance
  <2>1. Worth(lst) \in Int BY <1>9, WorthType
  <2> QED BY <1>1, <1>2, <1>6, <1>13, <1>14, <2>1
<1>17. MoneyOf(r) = init_balance * AccountsOf(r)
  <2> DEFINE a == AccountsOf(segs)
  <2>1. a \in Int BY <1>1
  <2>2. MoneyOf(segs) = init_balance * a BY <1>3
  <2> HIDE DEF a
  <2>3. init_balance * (a - 1) = init_balance * a - init_balance BY <2>1
  <2>4. AccountsOf(r) = a - 1 BY <1>15 DEF a
  <2> QED BY <1>16, <2>2, <2>3, <2>4
<1>18. Linked(r)
  <2>1. r \in Seq(Segment) /\ Len(r) > 0 BY <1>1, <1>7, <1>14
  <2>2. \A s \in 1..Len(r) : Len(r[s].accounts) = nbaccounts
    <3> SUFFICES ASSUME NEW s \in 1..(L - 1) PROVE Len(r[s].accounts) = nbaccounts
      BY <1>14
    <3>1. CASE s = L - 1 BY <1>9, <1>12, <1>14, <3>1
    <3>2. CASE s # L - 1
      <4>1. s \in 1..L /\ s # L BY <1>1
      <4>2. r[s] = segs[s] BY <1>2, <1>14, <3>2
      <4> QED BY <1>3, <4>1, <4>2
    <3> QED BY <3>1, <3>2
  <2>3. Len(r) \in 1..Len(r) BY <2>1
  <2> QED BY <1>17, <2>1, <2>2, <2>3 DEF Linked
<1> QED BY <1>7, <1>18 DEF L, f, r, seg, lst, old

\* alloc_tx adds an account in a segment of its own.
LEMMA AllocSegmentLinked ==
    ASSUME NEW segs, Linked(segs), Len(segs[Len(segs)].accounts) = nbaccounts
    PROVE  Linked(Longer(segs, [parity |-> 0, accounts |-> <<init_balance>>]))
<1> DEFINE L   == Len(segs)
           one == <<init_balance>>
           seg == [parity |-> 0, accounts |-> one]
           r   == Longer(segs, seg)
<1>1. /\ segs \in Seq(Segment) /\ L \in Nat \ {0} /\ L \in 1..L
      /\ MoneyOf(segs) \in Int /\ AccountsOf(segs) \in Nat
  BY LastOf
<1>2. \A s \in 1..L : Len(segs[s].accounts) = nbaccounts BY DEF Linked
<1>3. MoneyOf(segs) = init_balance * AccountsOf(segs) BY DEF Linked
<1>4. one \in Seq(Nat) /\ Len(one) = 1 OBVIOUS
<1>5. Bank!TotalOf(one) = init_balance
  <2>1. <<>> \in Seq(Int) /\ init_balance \in Int OBVIOUS
  <2>2. Bank!TotalOf(Append(<<>>, init_balance)) = Bank!TotalOf(<<>>) + init_balance
    BY <2>1, SumAppend
  <2>3. Append(<<>>, init_balance) = one OBVIOUS
  <2> HIDE DEF one
  <2> QED BY <2>2, <2>3, SumEmpty
<1> HIDE DEF one
<1>6. seg \in Segment /\ seg.accounts = one /\ seg.parity = 0 BY <1>4 DEF Segment
<1> HIDE DEF seg
<1>7. Worth(seg) = init_balance BY <1>5, <1>6 DEF Worth
<1> HIDE DEF L, r
<1>8. /\ r \in Seq(Segment) /\ Len(r) = L + 1
      /\ r[L + 1] = seg /\ \A s \in 1..L : r[s] = segs[s]
      /\ MoneyOf(r) = MoneyOf(segs) + Worth(seg)
      /\ AccountsOf(r) = AccountsOf(segs) + Len(seg.accounts)
  BY <1>1, <1>6, AppendSums DEF r, L
<1>9. MoneyOf(r) = init_balance * AccountsOf(r)
  <2> DEFINE a == AccountsOf(segs)
  <2>1. a \in Int BY <1>1
  <2>2. MoneyOf(segs) = init_balance * a BY <1>3
  <2> HIDE DEF a
  <2>3. init_balance * (a + 1) = init_balance * a + init_balance BY <2>1
  <2>4. AccountsOf(r) = a + 1 BY <1>4, <1>6, <1>8 DEF a
  <2> QED BY <1>7, <1>8, <2>2, <2>3, <2>4
<1>10. Linked(r)
  <2>1. r \in Seq(Segment) /\ Len(r) > 0 BY <1>1, <1>8
  <2>2. \A s \in 1..Len(r) : s = L + 1 \/ s \in 1..L BY <1>1, <1>8
  <2>3. \A s \in 1..Len(r) : IF s = Len(r) THEN Len(r[s].accounts) <= nbaccounts
                             ELSE Len(r[s].accounts) = nbaccounts
    <3>1. ASSUME NEW s \in 1..L PROVE s # Len(r) /\ Len(r[s].accounts) = nbaccounts
      BY <1>1, <1>2, <1>8, <3>1
    <3>2. Len(r) = L + 1 /\ Len(r[L + 1].accounts) <= nbaccounts
      <4>1. r[L + 1].accounts = one BY <1>6, <1>8
      <4>2. 1 <= nbaccounts OBVIOUS
      <4> QED BY <1>4, <1>8, <4>1, <4>2
    <3> QED BY <2>2, <3>1, <3>2
  <2>4. Len(r[Len(r)].accounts) = 1 BY <1>4, <1>6, <1>8
  <2> QED BY <1>9, <2>1, <2>3, <2>4 DEF Linked
<1> QED BY <1>10 DEF r, seg, one

-----------------------------------------------------------------------------
(* Transfers *)

\* Account i of segment k gets d.
Paid(segs, k, i, d) == [segs EXCEPT ![k].accounts[i] = @ + d]

PaidSegment(seg, i, d) == [seg EXCEPT !.accounts[i] = @ + d]

LEMMA PaidAccounts ==
    ASSUME NEW seg \in Segment, NEW i \in 1..Len(seg.accounts), NEW d \in Int,
           seg.accounts[i] + d >= 0
    PROVE  /\ PaidSegment(seg, i, d) \in Segment
           /\ Len(PaidSegment(seg, i, d).accounts) = Len(seg.accounts)
           /\ PaidSegment(seg, i, d).accounts[i] = seg.accounts[i] + d
           /\ \A j \in 1..Len(seg.accounts) : j # i => PaidSegment(seg, i, d).accounts[j] = seg.accounts[j]
           /\ Worth(PaidSegment(seg, i, d)) = Worth(seg) + d
<1> DEFINE acc == seg.accounts
           p   == seg.parity
           b   == acc[i] + d
           a   == [acc EXCEPT ![i] = b]
           r   == PaidSegment(seg, i, d)
<1>1. acc \in Seq(Nat) /\ p \in Int /\ i \in 1..Len(acc) BY DEF Segment
<1>2. acc[i] \in Nat /\ b \in Nat BY <1>1
<1>3. seg = [parity |-> p, accounts |-> acc] BY DEF Segment
<1>4. r = [parity |-> p, accounts |-> a] BY <1>3 DEF PaidSegment
<1> HIDE DEF acc, p, r, b
<1>5. a \in Seq(Nat) /\ Len(a) = Len(acc) /\ a[i] = b
      /\ \A j \in 1..Len(acc) : j # i => a[j] = acc[j]
  BY <1>1, <1>2
<1>6. Bank!TotalOf(a) = Bank!TotalOf(acc) - acc[i] + b
  <2>1. acc \in Seq(Int) /\ b \in Int BY <1>1, <1>2, NatInt
  <2> QED BY <1>1, <2>1, SumExcept
<1>7. Bank!TotalOf(acc) \in Nat BY WorthType DEF acc
<1>8. Worth(seg) = p + Bank!TotalOf(acc) BY DEF Worth, p, acc
<1> HIDE DEF a
<1>9. r \in Segment /\ r.accounts = a /\ r.parity = p BY <1>1, <1>4, <1>5 DEF Segment
<1>10. Worth(r) = Worth(seg) + d
  <2>1. Worth(r) = p + (Bank!TotalOf(acc) - acc[i] + b) BY <1>6, <1>9 DEF Worth
  <2>2. b = acc[i] + d BY DEF b
  <2> QED BY <1>1, <1>2, <1>7, <1>8, <2>1, <2>2
<1>11. acc = seg.accounts /\ r = PaidSegment(seg, i, d) /\ b = seg.accounts[i] + d BY DEF acc, r, b
<1> QED BY <1>5, <1>9, <1>10, <1>11

\* The same account is there before and after.
LEMMA PaidLinked ==
    ASSUME NEW segs \in Seq(Segment), NEW k \in 1..Len(segs), NEW i \in 1..Len(segs[k].accounts),
           NEW d \in Int, segs[k].accounts[i] + d >= 0
    PROVE  /\ Paid(segs, k, i, d) \in Seq(Segment)
           /\ Len(Paid(segs, k, i, d)) = Len(segs)
           /\ \A s \in 1..Len(segs) :
                 /\ Len(Paid(segs, k, i, d)[s].accounts) = Len(segs[s].accounts)
                 /\ \A j \in 1..Len(segs[s].accounts) :
                       Paid(segs, k, i, d)[s].accounts[j] =
                           segs[s].accounts[j] + IF s = k /\ j = i THEN d ELSE 0
           /\ MoneyOf(Paid(segs, k, i, d)) = MoneyOf(segs) + d
           /\ AccountsOf(Paid(segs, k, i, d)) = AccountsOf(segs)
<1> DEFINE old == segs[k]
           seg == PaidSegment(old, i, d)
           r   == Paid(segs, k, i, d)
<1>1. old \in Segment /\ i \in 1..Len(old.accounts) /\ old.accounts[i] + d >= 0 OBVIOUS
<1>2. r = Changed(segs, k, seg) BY DEF Paid, Changed, PaidSegment
<1> HIDE DEF old, seg, r
<1>3. /\ seg \in Segment
      /\ Len(seg.accounts) = Len(old.accounts)
      /\ seg.accounts[i] = old.accounts[i] + d
      /\ \A j \in 1..Len(old.accounts) : j # i => seg.accounts[j] = old.accounts[j]
      /\ Worth(seg) = Worth(old) + d
  BY <1>1, PaidAccounts DEF seg
<1>4. /\ r \in Seq(Segment) /\ Len(r) = Len(segs)
      /\ r[k] = seg /\ \A s \in 1..Len(segs) : s # k => r[s] = segs[s]
      /\ MoneyOf(r) = MoneyOf(segs) - Worth(old) + Worth(seg)
      /\ AccountsOf(r) = AccountsOf(segs) - Len(old.accounts) + Len(seg.accounts)
  <2> HIDE WorkersAssumption, RepeatsAssumption, AccountsAssumption, LengthAssumption
  <2> QED BY <1>2, <1>3, ReplaceSums DEF old
<1>5. Worth(old) \in Int /\ Len(old.accounts) \in Nat /\ MoneyOf(segs) \in Int /\ AccountsOf(segs) \in Nat
  BY <1>1, WorthType, SumsType
<1>6. MoneyOf(r) = MoneyOf(segs) + d /\ AccountsOf(r) = AccountsOf(segs) BY <1>3, <1>4, <1>5
<1>7. ASSUME NEW s \in 1..Len(segs)
      PROVE  /\ Len(r[s].accounts) = Len(segs[s].accounts)
             /\ \A j \in 1..Len(segs[s].accounts) :
                   r[s].accounts[j] = segs[s].accounts[j] + IF s = k /\ j = i THEN d ELSE 0
  <2>1. CASE s = k
    <3>1. r[s] = seg /\ segs[s] = old BY <1>4, <2>1 DEF old
    <3>2. old.accounts \in Seq(Nat) BY <1>1 DEF Segment
    <3>3. \A j \in 1..Len(old.accounts) : old.accounts[j] \in Nat BY <3>2
    <3> QED BY <1>3, <2>1, <3>1, <3>3
  <2>2. CASE s # k
    <3>1. r[s] = segs[s] BY <1>4, <2>2
    <3>2. segs[s] \in Segment OBVIOUS
    <3>3. segs[s].accounts \in Seq(Nat) BY <3>2 DEF Segment
    <3>4. \A j \in 1..Len(segs[s].accounts) : segs[s].accounts[j] \in Nat BY <3>3
    <3> QED BY <2>2, <3>1, <3>4
  <2> QED BY <2>1, <2>2
<1> QED BY <1>4, <1>6, <1>7 DEF r

\* A transfer between accounts that are there, potentially the same.
LEMMA MovedLinked ==
    ASSUME NEW segs, Linked(segs),
           NEW k \in 1..Len(segs), NEW i \in 1..Len(segs[k].accounts),
           NEW m \in 1..Len(segs), NEW j \in 1..Len(segs[m].accounts),
           segs[k].accounts[i] > 0
    PROVE  Linked(Paid(Paid(segs, k, i, -1), m, j, 1))
<1> DEFINE mid == Paid(segs, k, i, -1)
           end == Paid(mid, m, j, 1)
<1>1. segs \in Seq(Segment) /\ Len(segs) \in Nat /\ MoneyOf(segs) \in Int BY LastOf
<1>2. segs[k].accounts[i] + (-1) >= 0 /\ -1 \in Int /\ 1 \in Int
  <2>1. segs[k] \in Segment BY <1>1
  <2>2. segs[k].accounts \in Seq(Nat) BY <2>1 DEF Segment
  <2>3. segs[k].accounts[i] \in Nat BY <2>2
  <2> QED BY <2>3
<1> HIDE DEF mid, end
<1>3. /\ mid \in Seq(Segment) /\ Len(mid) = Len(segs)
      /\ \A s \in 1..Len(segs) : Len(mid[s].accounts) = Len(segs[s].accounts)
      /\ MoneyOf(mid) = MoneyOf(segs) + (-1) /\ AccountsOf(mid) = AccountsOf(segs)
  BY <1>1, <1>2, PaidLinked DEF mid
<1>4. m \in 1..Len(mid) /\ j \in 1..Len(mid[m].accounts) /\ mid[m].accounts[j] + 1 >= 0
  <2>1. m \in 1..Len(mid) /\ j \in 1..Len(mid[m].accounts) BY <1>3
  <2>2. mid[m] \in Segment BY <1>3, <2>1
  <2>3. mid[m].accounts \in Seq(Nat) BY <2>2 DEF Segment
  <2>4. mid[m].accounts[j] \in Nat BY <2>1, <2>3
  <2> QED BY <2>1, <2>4
<1>5. /\ end \in Seq(Segment) /\ Len(end) = Len(mid)
      /\ \A s \in 1..Len(mid) : Len(end[s].accounts) = Len(mid[s].accounts)
      /\ MoneyOf(end) = MoneyOf(mid) + 1 /\ AccountsOf(end) = AccountsOf(mid)
  BY <1>2, <1>3, <1>4, PaidLinked DEF end
<1>6. /\ Len(end) = Len(segs) /\ MoneyOf(end) = MoneyOf(segs) /\ AccountsOf(end) = AccountsOf(segs)
      /\ \A s \in 1..Len(segs) : Len(end[s].accounts) = Len(segs[s].accounts)
  BY <1>1, <1>3, <1>5
<1>7. Linked(end)
  <2>1. Len(segs) > 0 /\ Len(segs) \in 1..Len(segs) BY LastOf
  <2> QED BY <1>5, <1>6, <2>1 DEF Linked
<1> QED BY <1>7 DEF mid, end

-----------------------------------------------------------------------------
(* The search of short_tx *)

IsPlace(p) ==
    \/ p = Bank!Nowhere
    \/ \E k \in 1..Len(segments) : \E i \in 1..Len(segments[k].accounts) : p = <<k, i>>

\* What is left of an index, and the place found.
Findings == {s \in [id : Nat, found : Nat \X Nat] : IsPlace(s.found)}

Beyond(k, s) ==
    IF s.found # Bank!Nowhere THEN s
    ELSE IF s.id < Bank!count(k) THEN [s EXCEPT !.found = <<k, s.id + 1>>]
    ELSE [s EXCEPT !.id = @ - Bank!count(k)]

LEMMA SearchEquation ==
    ASSUME NEW id,
           \E g : g = [k \in 0..Bank!Last |-> IF k = 0 THEN [id |-> id, found |-> Bank!Nowhere]
                                              ELSE Beyond(k, g[k - 1])]
    PROVE  Bank!Search(id) =
               [k \in 0..Bank!Last |-> IF k = 0 THEN [id |-> id, found |-> Bank!Nowhere]
                                       ELSE Beyond(k, Bank!Search(id)[k - 1])]
BY Zenon DEF Bank!Search, Beyond

LEMMA BeyondType ==
    ASSUME segments \in Seq(Segment), NEW k \in 1..Len(segments), NEW s \in Findings
    PROVE  Beyond(k, s) \in Findings
<1>1. s \in [id : Nat, found : Nat \X Nat] /\ IsPlace(s.found) BY DEF Findings
<1>2. segments[k] \in Segment OBVIOUS
<1>3. segments[k].accounts \in Seq(Nat) BY <1>2 DEF Segment
<1> DEFINE n == Bank!count(k)
<1>4. n \in Nat /\ n = Len(segments[k].accounts) BY <1>3 DEF Bank!count
<1> HIDE DEF n
<1>5. CASE s.found # Bank!Nowhere BY <1>5 DEF Beyond
<1>6. CASE s.found = Bank!Nowhere /\ s.id < n
  <2> DEFINE r == [s EXCEPT !.found = <<k, s.id + 1>>]
  <2>1. k \in Nat /\ s.id + 1 \in Nat /\ s.id + 1 \in 1..n BY <1>1, <1>4, <1>6
  <2>2. r \in [id : Nat, found : Nat \X Nat] /\ r.found = <<k, s.id + 1>> BY <1>1, <2>1
  <2>3. IsPlace(r.found) BY <1>4, <2>1, <2>2 DEF IsPlace
  <2>4. Beyond(k, s) = r BY <1>6 DEF Beyond, n
  <2> QED BY <2>2, <2>3, <2>4 DEF Findings
<1>7. CASE s.found = Bank!Nowhere /\ ~(s.id < n)
  <2> DEFINE r == [s EXCEPT !.id = @ - n]
  <2>1. s.id - n \in Nat BY <1>1, <1>4, <1>7
  <2>2. r \in [id : Nat, found : Nat \X Nat] /\ r.found = s.found BY <1>1, <2>1
  <2>3. Beyond(k, s) = r BY <1>7 DEF Beyond, n
  <2> QED BY <1>1, <2>2, <2>3 DEF Findings
<1> QED BY <1>5, <1>6, <1>7

LEMMA SearchFinds ==
    ASSUME segments \in Seq(Segment), NEW id \in Nat
    PROVE  Bank!Search(id) \in [0..Len(segments) -> Findings]
<1> DEFINE L    == Len(segments)
           base == [id |-> id, found |-> Bank!Nowhere]
           next == [k \in 1..L |-> [s \in Findings |-> Beyond(k, s)]]
<1>1. L \in Nat /\ L = Bank!Last BY DEF Bank!Last
<1>2. base \in Findings BY DEF Findings, IsPlace, Bank!Nowhere
<1>3. next \in [1..L -> [Findings -> Findings]] BY BeyondType
<1>4. \A k \in 1..L, s \in Findings : next[k][s] = Beyond(k, s) OBVIOUS
<1> HIDE DEF L, next, base
<1>5. PICK g \in [0..L -> Findings] : Follows(g, base, next, L) BY <1>1, <1>2, <1>3, Recursion, Zenon
<1>6. \A k \in 0..L : g[k] = IF k = 0 THEN base ELSE Beyond(k, g[k - 1])
  <2> SUFFICES ASSUME NEW k \in 0..L PROVE g[k] = IF k = 0 THEN base ELSE Beyond(k, g[k - 1])
    OBVIOUS
  <2>1. CASE k = 0 BY <1>5, <2>1 DEF Follows
  <2>2. CASE k # 0
    <3>1. k \in 1..L /\ k - 1 \in 0..L BY <1>1, <2>2
    <3>2. g[k] = next[k][g[k - 1]] BY <1>5, <3>1 DEF Follows
    <3>3. g[k - 1] \in Findings BY <3>1
    <3> QED BY <1>4, <2>2, <3>1, <3>2, <3>3
  <2> QED BY <2>1, <2>2
<1> DEFINE f == Bank!Search(id)
<1>7. f = [k \in 0..L |-> IF k = 0 THEN base ELSE Beyond(k, f[k - 1])]
  <2>1. g = [k \in 0..L |-> IF k = 0 THEN base ELSE Beyond(k, g[k - 1])]
    <3> DEFINE e(k) == IF k = 0 THEN base ELSE Beyond(k, g[k - 1])
    <3> HIDE DEF e
    <3>1. \A k \in 0..L : g[k] = e(k) BY <1>6 DEF e
    <3>2. g = [k \in 0..L |-> e(k)] BY <3>1
    <3> QED BY <3>2 DEF e
  <2> QED BY <1>1, <2>1, SearchEquation DEF base
<1> HIDE DEF f
<1>8. \A k \in 0..L : f[k] = IF k = 0 THEN base ELSE Beyond(k, f[k - 1])
  <2> DEFINE e(k) == IF k = 0 THEN base ELSE Beyond(k, f[k - 1])
  <2> HIDE DEF e
  <2>1. f = [k \in 0..L |-> e(k)] BY <1>7 DEF e
  <2>2. \A k \in 0..L : f[k] = e(k) BY <2>1
  <2> QED BY <2>2 DEF e
<1>9. \A k \in 0..L : f[k] = g[k]
  <2> DEFINE B == {k \in 0..L : f[k] # g[k]}
  <2> SUFFICES ASSUME B # {} PROVE FALSE
    OBVIOUS
  <2>1. PICK k \in B : \A j \in B : k <= j
    <3>1. B \in SUBSET (0..L) OBVIOUS
    <3> HIDE DEF B
    <3> QED BY <1>1, <3>1, Smallest
  <2>2. k # 0 BY <1>6, <1>8, <2>1
  <2>3. k - 1 \in 0..L /\ k - 1 \notin B BY <1>1, <2>1, <2>2
  <2> QED BY <1>6, <1>8, <2>1, <2>2, <2>3
<1>10. f = g
  <2>1. DOMAIN f = 0..L /\ DOMAIN g = 0..L BY <1>7
  <2>2. f = [k \in 0..L |-> f[k]]
    <3> DEFINE e(k) == IF k = 0 THEN base ELSE Beyond(k, f[k - 1])
    <3> HIDE DEF e
    <3>1. f = [k \in 0..L |-> e(k)] BY <1>7 DEF e
    <3> QED BY <3>1
  <2>3. g = [k \in 0..L |-> g[k]] OBVIOUS
  <2> QED BY <1>9, <2>2, <2>3
<1> QED BY <1>10 DEF f, L

-----------------------------------------------------------------------------
(* The bank, by its segments *)

LEMMA SameMoney ==
    ASSUME Linked(segments)
    PROVE  /\ Bank!Money = MoneyOf(segments) /\ Bank!Accounts = AccountsOf(segments)
           /\ Bank!Consistent /\ Bank!MoneyConserved
<1>1. segments \in Seq(Segment) /\ DOMAIN segments = 1..Len(segments) /\ Len(segments) > 0
  BY DEF Linked
<1>2. Bank!Accounts = AccountsOf(segments)
  BY <1>1 DEF Bank!Accounts, Bank!count, AccountsOf, Counts
<1>3. Bank!Money = MoneyOf(segments)
  BY <1>1 DEF Bank!Money, MoneyOf, Worths, Worth
<1>4. \A s \in DOMAIN segments : \A i \in 1..Bank!count(s) : segments[s].accounts[i] >= 0
  <2> SUFFICES ASSUME NEW s \in 1..Len(segments), NEW i \in 1..Len(segments[s].accounts)
               PROVE  segments[s].accounts[i] >= 0
    BY <1>1 DEF Bank!count
  <2>1. segments[s] \in Segment BY <1>1
  <2>2. segments[s].accounts \in Seq(Nat) BY <2>1 DEF Segment
  <2>3. segments[s].accounts[i] \in Nat BY <2>2
  <2> QED BY <2>3
<1>5. Bank!Consistent BY <1>2, <1>3, <1>4 DEF Bank!Consistent, Linked
<1>6. Bank!MoneyConserved
  BY <1>1, <1>5 DEF Bank!MoneyConserved, Bank!Last, Bank!count, Linked
<1> QED BY <1>2, <1>3, <1>5, <1>6

-----------------------------------------------------------------------------
(* The inductive invariant of the bank *)

Txs == {"out", "init_check", "pick", "long", "alloc", "draw", "short"}

BankTypes ==
    /\ tx \in [Workers -> Txs]
    /\ left \in [Workers -> 0..nbtxperwrk]
    /\ size \in [Workers -> Nat]
    /\ send_id \in [Workers -> Nat]
    /\ recv_id \in [Workers -> Nat]

\* A worker is in a transaction of the workload only in its call, before the last;
\* in the first one, the bank is new or just open.
InTheBank ==
    /\ \A w \in Workers : tx[w] # "out" => at[w] = "run" /\ calls[w] < Sync!Rounds
    /\ \A w \in Workers : tx[w] = "init_check" => calls[w] = 1 /\ segments = Opened
    /\ (\A w \in Workers : calls[w] <= 1) => segments \in {New, Opened}

BankInv == BankTypes /\ InTheBank /\ Linked(segments)


LEMMA GrownIs ==
    ASSUME NEW seg \in Segment
    PROVE  [seg EXCEPT !.accounts = Append(seg.accounts, init_balance)] = Grown(seg)
<1> DEFINE p == seg.parity
           a == seg.accounts
           b == Append(a, init_balance)
<1>1. seg = [parity |-> p, accounts |-> a] BY DEF Segment
<1> HIDE DEF b
<1>2. [seg EXCEPT !.accounts = b] = [parity |-> p, accounts |-> b] BY <1>1
<1> QED BY <1>2 DEF b, Grown

\* The states of the segments a transaction of run leaves.
LEMMA AllocStep ==
    ASSUME Linked(segments), NEW w \in Workers,
           Bank!RemoveAccount(w) \/ Bank!FreeSegment(w) \/ Bank!AddAccount(w) \/ Bank!AllocSegment(w)
    PROVE  Linked(segments') /\ Bank!Go(w, "pick") /\ UNCHANGED <<left, size, send_id, recv_id>>
<1> DEFINE L == Len(segments)
<1>1. /\ segments \in Seq(Segment) /\ L \in Nat \ {0} /\ segments[L] \in Segment
      /\ segments[L] = [parity |-> segments[L].parity, accounts |-> segments[L].accounts]
  BY LastOf DEF Segment
<1>2. Bank!Go(w, "pick") /\ UNCHANGED <<left, size, send_id, recv_id>>
  BY DEF Bank!RemoveAccount, Bank!FreeSegment, Bank!AddAccount, Bank!AllocSegment, Bank!locals
<1>3. CASE Bank!RemoveAccount(w)
  <2>1. segments' = Changed(segments, L, Shrunk(segments[L])) /\ Len(segments[L].accounts) > 1
    BY <1>3 DEF Bank!RemoveAccount, Bank!NewParity, Bank!Last, Bank!count, Changed, Shrunk, Front
  <2>2. Linked(Changed(segments, L, Shrunk(segments[L]))) BY <2>1, RemoveAccountLinked
  <2> QED BY <1>2, <2>1, <2>2
<1>4. CASE Bank!FreeSegment(w)
  <2>1. Len(segments[L].accounts) = 1 /\ AccountsOf(segments) > 1
    <3>1. AccountsOf(segments) \in Nat /\ Bank!Accounts = AccountsOf(segments) BY LastOf, SameMoney
    <3> QED BY <1>4, <3>1 DEF Bank!FreeSegment, Bank!Surplus, Bank!Last, Bank!count
  <2> DEFINE r == Changed(Front(segments), L - 1, Merged(segments[L - 1], Shrunk(segments[L])))
  <2>2. L > 1 /\ Linked(r) BY <2>1, FreeSegmentLinked
  <2>3. Front(segments)[L - 1] = segments[L - 1] /\ segments[L - 1] \in Segment
    <3>1. L - 1 \in 1..(L - 1) /\ L - 1 \in 1..L BY <1>1, <2>2
    <3>2. \A s \in 1..(Len(segments) - 1) : Front(segments)[s] = segments[s]
      <4>1. segments \in Seq(Segment) /\ Len(segments) > 0 BY <1>1
      <4> QED BY <4>1, FrontSums
    <3> QED BY <1>1, <3>1, <3>2
  <2>4. segments' = [Front(segments) EXCEPT ![L - 1] =
                        [segments[L - 1] EXCEPT !.parity = segments[L - 1].parity + Bank!NewParity]]
    BY <1>4, <2>3 DEF Bank!FreeSegment, Bank!Last, Front
  <2>5. [segments[L - 1] EXCEPT !.parity = segments[L - 1].parity + Bank!NewParity]
            = Merged(segments[L - 1], Shrunk(segments[L]))
    <3>1. Shrunk(segments[L]).parity = Bank!NewParity
      BY DEF Shrunk, Bank!NewParity, Bank!Last, Bank!count
    <3>2. segments[L - 1] = [parity |-> segments[L - 1].parity, accounts |-> segments[L - 1].accounts]
      BY <2>3 DEF Segment
    <3> QED BY <3>1, <3>2 DEF Merged
  <2>6. segments' = r BY <2>4, <2>5 DEF Changed
  <2> QED BY <1>2, <2>2, <2>6
<1>5. CASE Bank!AddAccount(w)
  <2>1. segments' = [segments EXCEPT ![L] =
                        [segments[L] EXCEPT !.accounts = Append(segments[L].accounts, init_balance)]]
    BY <1>5 DEF Bank!AddAccount, Bank!Last
  <2>2. [segments[L] EXCEPT !.accounts = Append(segments[L].accounts, init_balance)] = Grown(segments[L])
    BY <1>1, GrownIs
  <2>3. segments' = Changed(segments, L, Grown(segments[L])) BY <2>1, <2>2 DEF Changed
  <2>4. Len(segments[L].accounts) < nbaccounts BY <1>5 DEF Bank!AddAccount, Bank!Last, Bank!count
  <2>5. Linked(Changed(segments, L, Grown(segments[L]))) BY <2>4, AddAccountLinked
  <2> QED BY <1>2, <2>3, <2>5
<1>6. CASE Bank!AllocSegment(w)
  <2>1. segments' = Longer(segments, [parity |-> 0, accounts |-> <<init_balance>>])
    BY <1>6 DEF Bank!AllocSegment, Longer
  <2>2. Len(segments[L].accounts) = nbaccounts BY <1>6 DEF Bank!AllocSegment, Bank!Last, Bank!count
  <2>3. Linked(Longer(segments, [parity |-> 0, accounts |-> <<init_balance>>])) BY <2>2, AllocSegmentLinked
  <2> QED BY <1>2, <2>1, <2>3
<1> QED BY <1>3, <1>4, <1>5, <1>6

\* A transfer, wherever its accounts are found.
LEMMA MovedStep ==
    ASSUME Linked(segments), NEW from, NEW to, IsPlace(from), IsPlace(to),
           Bank!Nowhere \notin {from, to}
    PROVE  Linked(Bank!Moved(from, to))
<1>1. CASE ~(Bank!Balance(from) > 0) BY <1>1 DEF Bank!Moved
<1>2. CASE Bank!Balance(from) > 0
  <2>0. PICK k \in 1..Len(segments), m \in 1..Len(segments) :
            /\ \E i \in 1..Len(segments[k].accounts) : from = <<k, i>>
            /\ \E j \in 1..Len(segments[m].accounts) : to = <<m, j>>
    BY DEF IsPlace
  <2>1. PICK i \in 1..Len(segments[k].accounts) : from = <<k, i>> BY <2>0
  <2>2. PICK j \in 1..Len(segments[m].accounts) : to = <<m, j>> BY <2>0
  <2>3. segments[k].accounts[i] > 0 BY <1>2, <2>1 DEF Bank!Balance
  <2>4. Linked(Paid(Paid(segments, k, i, -1), m, j, 1)) BY <2>3, MovedLinked
  <2> DEFINE mid == [segments EXCEPT ![k].accounts[i] = @ - 1]
  <2>5. Bank!Moved(from, to) = [mid EXCEPT ![m].accounts[j] = @ + 1]
    BY <1>2, <2>1, <2>2 DEF Bank!Moved
  <2>6. segments[k].accounts[i] - 1 = segments[k].accounts[i] + (-1)
    <3>1. segments[k] \in Segment BY DEF Linked
    <3>2. segments[k].accounts \in Seq(Nat) BY <3>1 DEF Segment
    <3>3. segments[k].accounts[i] \in Nat BY <3>2
    <3> QED BY <3>3
  <2>7. Bank!Moved(from, to) = Paid(Paid(segments, k, i, -1), m, j, 1)
    <3>1. Paid(segments, k, i, -1) = mid BY <2>6 DEF Paid
    <3> HIDE DEF mid
    <3> QED BY <2>5, <3>1 DEF Paid
  <2> QED BY <2>4, <2>7
<1> QED BY <1>1, <1>2

LEMMA ShortCommitStep ==
    ASSUME Linked(segments), BankTypes, NEW w \in Workers, Bank!ShortCommit(w)
    PROVE  Linked(segments')
<1> DEFINE from == Bank!Place(send_id[w])
           to   == Bank!Place(recv_id[w])
<1>1. segments \in Seq(Segment) /\ Len(segments) \in Nat BY LastOf
<1>2. \A id \in Nat : IsPlace(Bank!Place(id))
  <2> SUFFICES ASSUME NEW id \in Nat PROVE IsPlace(Bank!Place(id))
    OBVIOUS
  <2>1. Bank!Search(id) \in [0..Len(segments) -> Findings] BY <1>1, SearchFinds
  <2>2. Bank!Search(id)[Len(segments)] \in Findings BY <1>1, <2>1
  <2> QED BY <2>2 DEF Findings, Bank!Place, Bank!Last
<1>3. IsPlace(from) /\ IsPlace(to) BY <1>2 DEF BankTypes
<1> HIDE DEF from, to
<1>4. segments' = segments \/ (Bank!Nowhere \notin {from, to} /\ segments' = Bank!Moved(from, to))
  BY DEF Bank!ShortCommit, from, to
<1> QED BY <1>3, <1>4, MovedStep

\* An attempt that was aborted leaves an index.
LEMMA ShortAbortStep ==
    ASSUME Linked(segments), BankTypes, NEW w \in Workers, NEW k \in 0..Len(segments),
           Bank!ShortAbort(w, k)
    PROVE  send_id' \in [Workers -> Nat] /\ recv_id' \in [Workers -> Nat]
<1>1. \A id \in Nat : Bank!Search(id)[k].id \in Nat
  <2> SUFFICES ASSUME NEW id \in Nat PROVE Bank!Search(id)[k].id \in Nat
    OBVIOUS
  <2>1. Bank!Search(id) \in [0..Len(segments) -> Findings] BY LastOf, SearchFinds
  <2>2. Bank!Search(id)[k] \in Findings BY <2>1
  <2> QED BY <2>2 DEF Findings
<1>2. send_id' = [send_id EXCEPT ![w] = Bank!Search(send_id[w])[k].id]
      /\ recv_id' = [recv_id EXCEPT ![w] = Bank!Search(recv_id[w])[k].id]
  BY DEF Bank!ShortAbort
<1>3. send_id[w] \in Nat /\ recv_id[w] \in Nat BY DEF BankTypes
<1> QED BY <1>1, <1>2, <1>3 DEF BankTypes

\* What the call of run does, one step after the other.
LEMMA RunTypes ==
    ASSUME Linked(segments), BankTypes, NEW w \in Workers, Bank!BeginRun(w) \/ Bank!Run(w)
    PROVE  /\ Linked(segments') /\ BankTypes'
           /\ \E to \in Txs \ {"init_check"} : Bank!Go(w, to)
<1> USE DEF Bank!Go
<1>1. CASE Bank!BeginRun(w)
  <2>1. segments' = segments /\ Bank!Go(w, "pick") /\ "pick" \in Txs \ {"init_check"}
    BY <1>1 DEF Bank!BeginRun, Txs
  <2>2. left' \in [Workers -> 0..nbtxperwrk] /\ size' \in [Workers -> Nat]
        /\ UNCHANGED <<send_id, recv_id>>
    BY <1>1 DEF Bank!BeginRun, BankTypes
  <2>3. BankTypes' BY <2>1, <2>2 DEF BankTypes
  <2> QED BY <2>1, <2>3
<1>2. ASSUME NEW kind \in {"long", "alloc", "draw"}, Bank!Pick(w, kind)
      PROVE  /\ Linked(segments') /\ BankTypes'
             /\ \E to \in Txs \ {"init_check"} : Bank!Go(w, to)
  <2>1. segments' = segments /\ Bank!Go(w, kind) /\ kind \in Txs \ {"init_check"}
    BY <1>2 DEF Bank!Pick, Txs
  <2>2. left' \in [Workers -> 0..nbtxperwrk] /\ UNCHANGED <<size, send_id, recv_id>>
    BY <1>2 DEF Bank!Pick, BankTypes
  <2>3. BankTypes' BY <2>1, <2>2 DEF BankTypes
  <2> QED BY <2>1, <2>3
<1>3. CASE Bank!RemoveAccount(w) \/ Bank!FreeSegment(w) \/ Bank!AddAccount(w) \/ Bank!AllocSegment(w)
  <2>1. Linked(segments') /\ Bank!Go(w, "pick") /\ UNCHANGED <<left, size, send_id, recv_id>>
    BY <1>3, AllocStep
  <2> QED BY <2>1 DEF BankTypes, Txs
<1>4. ASSUME NEW send \in 0..(size[w] - 1), NEW recv \in 0..(size[w] - 1), Bank!Draw(w, send, recv)
      PROVE  /\ Linked(segments') /\ BankTypes'
             /\ \E to \in Txs \ {"init_check"} : Bank!Go(w, to)
  <2>1. UNCHANGED <<segments, left, size>> /\ Bank!Go(w, "short") /\ "short" \in Txs \ {"init_check"}
    BY <1>4 DEF Bank!Draw, Txs
  <2>2. send \in Nat /\ recv \in Nat BY DEF BankTypes
  <2>3. send_id' \in [Workers -> Nat] /\ recv_id' \in [Workers -> Nat]
    BY <1>4, <2>2 DEF Bank!Draw, BankTypes
  <2>4. BankTypes' BY <2>1, <2>3 DEF BankTypes
  <2> QED BY <2>1, <2>4
<1>5. CASE Bank!ShortCommit(w)
  <2>1. Linked(segments') BY <1>5, ShortCommitStep
  <2>2. PICK to \in {"draw", "pick"} : Bank!Go(w, to) BY <1>5 DEF Bank!ShortCommit
  <2>3. BankTypes' BY <1>5, <2>2 DEF BankTypes, Bank!ShortCommit, Txs
  <2> QED BY <2>1, <2>2, <2>3 DEF Txs
<1>6. ASSUME NEW k \in 0..Bank!Last, Bank!ShortAbort(w, k)
      PROVE  /\ Linked(segments') /\ BankTypes'
             /\ \E to \in Txs \ {"init_check"} : Bank!Go(w, to)
  <2>1. send_id' \in [Workers -> Nat] /\ recv_id' \in [Workers -> Nat]
    BY <1>6, ShortAbortStep DEF Bank!Last
  <2>2. UNCHANGED <<segments, tx, left, size>> /\ tx[w] = "short" BY <1>6 DEF Bank!ShortAbort
  <2>3. Bank!Go(w, "short") BY <2>2 DEF BankTypes
  <2> QED BY <2>1, <2>2, <2>3 DEF BankTypes, Txs
<1> QED BY <1>1, <1>2, <1>3, <1>4, <1>5, <1>6 DEF Bank!Run

-----------------------------------------------------------------------------
(* The bank in its rounds *)

\* A call goes on while others move between theirs; a new one is the next.
Onward ==
    \A u \in Workers :
        /\ at[u] = "run" => at'[u] = "run"
        /\ calls'[u] \in {calls[u], calls[u] + 1}
        /\ at[u] = "run" \/ at'[u] # "run" => calls'[u] = calls[u]
        /\ at[u] # "run" /\ at'[u] = "run" => calls[u] < Sync!Rounds

LEMMA BetweenOnward ==
    ASSUME SyncInv, Sync!Master \/ \E w \in Workers : Sync!Between(w)
    PROVE  Onward
<1> USE DEF Sync!Go
<1>0. at \in [Workers -> Places] /\ calls \in [Workers -> 0..Sync!Rounds] /\ round \in 1..Sync!Rounds
      /\ Sync!Rounds \in Nat
  BY RoundsNat DEF SyncInv, Sync!TypeOK, Places
<1>1. ASSUME UNCHANGED <<at, calls>> PROVE Onward BY <1>0, <1>1 DEF Onward
<1>2. CASE Sync!Master
  BY <1>1, <1>2 DEF Sync!Master, Sync!Notify, Sync!StartClock, Sync!Wait, Sync!TimeOut, Sync!Collect,
                    Sync!Quit, Sync!Join, Sync!history
<1>3. ASSUME NEW w \in Workers, Sync!Between(w) PROVE Onward
  <2>1. ASSUME calls' = calls, at[w] # "run", NEW to, to # "run", at' = [at EXCEPT ![w] = to] PROVE Onward
    BY <1>0, <2>1 DEF Onward
  <2>2. ASSUME calls[w] = round - 1, at[w] # "run",
               calls' = [calls EXCEPT ![w] = @ + 1], at' = [at EXCEPT ![w] = "run"]
        PROVE  Onward
    BY <1>0, <2>2 DEF Onward
  <2>3. CASE Sync!SeeWait(w) BY <2>1, <2>3 DEF Sync!SeeWait, Sync!history
  <2>4. CASE Sync!SeeQuit(w) BY <2>1, <2>4 DEF Sync!SeeQuit, Sync!history
  <2>5. CASE Sync!Arrive(w)
    <3>1. PICK to \in {"reset", "wait_run"} : at' = [at EXCEPT ![w] = to] BY <2>5 DEF Sync!Arrive
    <3> QED BY <2>1, <2>5, <3>1 DEF Sync!Arrive, Sync!history
  <2>6. CASE Sync!Reset(w) BY <2>1, <2>6 DEF Sync!Reset, Sync!history
  <2>7. CASE Sync!StartRun(w)
    <3>1. Open /\ status = "Wait" BY <2>7, StageOf DEF Sync!StartRun
    <3>2. calls[w] = round - 1 BY <3>1 DEF SyncInv, Stages, Arriving
    <3> QED BY <2>2, <2>7, <3>2 DEF Sync!StartRun
  <2>8. CASE Sync!SeeRun(w)
    <3>1. Open /\ status \in {"Run", "Abort"} BY <2>8, StageOf DEF Sync!SeeRun
    <3>2. calls[w] = round - 1 BY <2>8, <3>1 DEF SyncInv, Stages, Calling, Sync!SeeRun
    <3> QED BY <2>2, <2>8, <3>2 DEF Sync!SeeRun
  <2>9. CASE Sync!StoreError(w) BY <2>1, <2>9 DEF Sync!StoreError, Sync!history
  <2>10. CASE Sync!Abort(w) BY <2>1, <2>10 DEF Sync!Abort, Sync!history
  <2>11. CASE Sync!Count(w)
    <3>1. PICK to \in {"reset_done", "gone", "wait"} : at' = [at EXCEPT ![w] = to]
      BY <2>11 DEF Sync!Count, Sync!Leave
    <3> QED BY <2>1, <2>11, <3>1 DEF Sync!Count, Sync!history
  <2>12. CASE Sync!ResetDone(w) BY <2>1, <2>12 DEF Sync!ResetDone, Sync!history
  <2>13. CASE Sync!Verdict(w) BY <2>1, <2>13 DEF Sync!Verdict, Sync!history
  <2>14. CASE Sync!StopClock(w) BY <2>1, <2>14 DEF Sync!StopClock, Sync!history
  <2>15. CASE Sync!Raise(w)
    <3>1. PICK to \in {"gone", "wait"} : at' = [at EXCEPT ![w] = to] BY <2>15 DEF Sync!Raise, Sync!Leave
    <3> QED BY <2>1, <2>15, <3>1 DEF Sync!Raise, Sync!history
  <2> QED BY <1>3, <2>3, <2>4, <2>5, <2>6, <2>7, <2>8, <2>9, <2>10, <2>11, <2>12, <2>13, <2>14, <2>15
    DEF Sync!Between
<1> QED BY <1>2, <1>3

\* Between the calls, nothing happens to the bank and to the check.
LEMMA OnwardStep ==
    ASSUME SyncInv, Onward, BankInv, CheckInv, UNCHANGED <<bank, check>>
    PROVE  BankInv' /\ CheckInv'
<1>0. calls \in [Workers -> 0..Sync!Rounds] /\ Sync!Rounds \in Nat
  BY RoundsNat DEF SyncInv, Sync!TypeOK
<1>1. BankTypes' /\ Linked(segments)' BY DEF BankInv, BankTypes, bank, Linked, MoneyOf, AccountsOf, Worths, Counts, Worth
<1>2. InTheBank'
  <2>1. UNCHANGED <<tx, segments>> BY DEF bank
  <2>2. \A w \in Workers : tx'[w] # "out" => at'[w] = "run" /\ calls'[w] = calls[w] /\ calls[w] < Sync!Rounds
    BY <2>1 DEF BankInv, InTheBank, Onward
  <2>3. \A w \in Workers : tx'[w] = "init_check" => calls'[w] = 1 /\ segments' = Opened
    BY <2>1, <2>2 DEF BankInv, InTheBank
  <2>4. (\A w \in Workers : calls'[w] <= 1) => \A w \in Workers : calls[w] <= 1
    BY <1>0 DEF Onward
  <2> QED BY <2>1, <2>2, <2>3, <2>4 DEF BankInv, InTheBank, Opened, New
<1>3. CheckInv'
  <2>1. \A u \in Workers :
            /\ calls'[u] < Sync!Rounds => calls[u] < Sync!Rounds
            /\ CallsCheck(u) => CallsCheck(u)'
            /\ CallsCheck(u)' => CallsCheck(u) \/ calls[u] < Sync!Rounds
    BY <1>0 DEF Onward, CallsCheck
  <2> QED BY <2>1, ElsewhereStep
<1> QED BY <1>1, <1>2, <1>3 DEF BankInv

\* Worker w leaves its call, or goes on in it.
LEMMA InsideStep ==
    ASSUME SyncInv, CheckInv, NEW w \in Workers, calls[w] < Sync!Rounds, UNCHANGED <<check, calls>>,
           \A u \in Workers : u # w => at'[u] = at[u]
    PROVE  CheckInv'
<1>1. \A u \in Workers :
            /\ calls'[u] < Sync!Rounds => calls[u] < Sync!Rounds
            /\ CallsCheck(u) => CallsCheck(u)'
            /\ CallsCheck(u)' => CallsCheck(u) \/ calls[u] < Sync!Rounds
  BY RoundsNat DEF CallsCheck, SyncInv, Sync!TypeOK
<1> QED BY <1>1, ElsewhereStep

\* Calls of a round are of that round.
LEMMA SameRound ==
    ASSUME SyncInv, NEW w \in Workers, at[w] = "run"
    PROVE  calls[w] = round /\ \A u \in Workers : calls[u] <= round /\ (at[u] = "run" => calls[u] = round)
<1>1. Open /\ status \in {"Run", "Abort"} BY StageOf
<1>2. round \in Nat BY DEF SyncInv, Sync!TypeOK
<1> QED BY <1>1, <1>2 DEF SyncInv, Stages, Calling

LEMMA LeaveBankStep ==
    ASSUME SyncInv, BankInv, NEW w \in Workers, Bank!Leave(w), UNCHANGED <<segments, calls>>,
           NEW to, at' = [at EXCEPT ![w] = to]
    PROVE  BankInv'
<1>1. tx'[w] = "out" /\ \A u \in Workers : u # w => tx'[u] = tx[u] /\ at'[u] = at[u]
  BY DEF Bank!Leave, Bank!Go, BankInv, BankTypes, SyncInv, Sync!TypeOK
<1>2. BankTypes' BY DEF Bank!Leave, Bank!Go, BankInv, BankTypes, Txs
<1>3. Linked(segments)' BY DEF BankInv, Linked, MoneyOf, AccountsOf, Worths, Counts, Worth
<1>4. InTheBank' BY <1>1 DEF BankInv, InTheBank, Opened, New
<1> QED BY <1>2, <1>3, <1>4 DEF BankInv

\* The bank is opened, as often as there are workers; all find it as it was opened.
LEMMA DoInitStep ==
    ASSUME SyncInv, BankInv, CheckInv, NEW w \in Workers, DoInit(w)
    PROVE  /\ BankInv' /\ CheckInv'
           /\ UNCHANGED outcome \/ Sync!Return(w, "ok")
<1>0. at[w] = "run" /\ calls[w] = 1 /\ calls[w] < Sync!Rounds /\ UNCHANGED check
  BY RoundsNat DEF DoInit, CallsInit
<1>1. \A u \in Workers : calls[u] <= 1 BY <1>0, SameRound
<1>2. segments \in {New, Opened} BY <1>1 DEF BankInv, InTheBank
<1>3. CASE Bank!InitWrite(w) /\ UNCHANGED sync
  <2>1. UNCHANGED <<at, calls, outcome>> BY <1>3 DEF sync
  <2>2. segments' = Opened
    <3> DEFINE a == [i \in 1..nbaccounts |-> init_balance]
    <3>1. segments' = [segments EXCEPT ![1].accounts = a] BY <1>3 DEF Bank!InitWrite
    <3>2. CASE segments = New
      <4> DEFINE r == [parity |-> 0, accounts |-> <<>>]
      <4>1. [r EXCEPT !.accounts = a] = [parity |-> 0, accounts |-> a] OBVIOUS
      <4>2. segments = <<r>> /\ segments[1] = r BY <3>2 DEF New
      <4>3. segments' = [segments EXCEPT ![1] = [r EXCEPT !.accounts = a]] BY <3>1, <4>2
      <4> HIDE DEF a, r
      <4>4. segments' = <<[parity |-> 0, accounts |-> a]>> BY <4>1, <4>2, <4>3
      <4> QED BY <4>4 DEF Opened, a
    <3>3. CASE segments = Opened BY <3>1, <3>3 DEF Opened
    <3> QED BY <1>2, <3>2, <3>3
  <2>3. Linked(segments') BY <2>2, OpenedLinked
  <2>4. tx' = [tx EXCEPT ![w] = "init_check"] /\ UNCHANGED <<left, size, send_id, recv_id>>
    BY <1>3 DEF Bank!InitWrite, Bank!Go, Bank!locals
  <2>5. BankTypes' BY <2>4 DEF BankInv, BankTypes, Txs
  <2>6. InTheBank'
    <3>1. \A u \in Workers : tx'[u] # "out" => tx[u] # "out" \/ u = w BY <2>4 DEF BankInv, BankTypes
    <3>2. \A u \in Workers : tx'[u] = "init_check" => tx[u] = "init_check" \/ u = w
      BY <2>4 DEF BankInv, BankTypes
    <3>3. segments' \in {New', Opened'} /\ segments' = Opened' BY <2>2 DEF New, Opened
    <3> QED BY <1>0, <2>1, <3>1, <3>2, <3>3 DEF BankInv, InTheBank
  <2>7. CheckInv' BY <1>0, <2>1, InsideStep
  <2>8. Linked(segments)' BY <2>3 DEF Linked, MoneyOf, AccountsOf, Worths, Counts, Worth
  <2> QED BY <2>1, <2>5, <2>6, <2>7, <2>8 DEF BankInv
<1>4. CASE Bank!InitCheck(w) /\ Sync!Return(w, Error(Bank!InitCorrect))
  <2>1. segments = Opened /\ UNCHANGED segments BY <1>4 DEF Bank!InitCheck, BankInv, InTheBank
  <2>2. Bank!InitCorrect BY <2>1 DEF Bank!InitCorrect, Opened
  <2>3. Sync!Return(w, "ok") BY <1>4, <2>2 DEF Error
  <2>4. BankInv'
    <3>1. at' = [at EXCEPT ![w] = "count"] /\ UNCHANGED <<segments, calls>>
      BY <2>1, <2>3 DEF Sync!Return, Sync!Go
    <3>2. Bank!Leave(w) BY <1>4 DEF Bank!InitCheck
    <3> QED BY <3>1, <3>2, LeaveBankStep
  <2>5. CheckInv' BY <1>0, <2>3, InsideStep DEF Sync!Return, Sync!Go, Sync!TypeOK, SyncInv
  <2> QED BY <2>3, <2>4, <2>5
<1> QED BY <1>3, <1>4 DEF DoInit


\* The calls of run keep the money together, and find it so.
LEMMA DoRunStep ==
    ASSUME SyncInv, BankInv, CheckInv, NEW w \in Workers, DoRun(w)
    PROVE  /\ BankInv' /\ CheckInv'
           /\ UNCHANGED outcome \/ Sync!Return(w, "ok")
<1>0. at[w] = "run" /\ calls[w] > 1 /\ calls[w] < Sync!Rounds /\ UNCHANGED check
  BY RoundsNat DEF DoRun, CallsRun
<1>1. \A u \in Workers : tx[u] # "init_check" BY <1>0, SameRound DEF BankInv, InTheBank
<1>2. Bank!Consistent BY SameMoney DEF BankInv
<1>3. ASSUME UNCHANGED sync, Linked(segments'), BankTypes', NEW to \in Txs \ {"init_check"}, Bank!Go(w, to)
      PROVE  /\ BankInv' /\ CheckInv' /\ UNCHANGED outcome
  <2>1. UNCHANGED <<at, calls, outcome>> BY <1>3 DEF sync
  <2>2. tx'[w] = to /\ \A u \in Workers : u # w => tx'[u] = tx[u]
    BY <1>3 DEF Bank!Go, BankInv, BankTypes
  <2>3. InTheBank'
    <3>1. calls[w] \in Int BY DEF SyncInv, Sync!TypeOK
    <3>2. ~(\A u \in Workers : calls'[u] <= 1) BY <1>0, <2>1, <3>1
    <3>3. \A u \in Workers : tx'[u] # "init_check" BY <1>1, <1>3, <2>2
    <3>4. \A u \in Workers : tx'[u] # "out" => at'[u] = "run" /\ calls'[u] < Sync!Rounds'
      BY <1>0, <2>1, <2>2 DEF BankInv, InTheBank, Sync!Rounds
    <3> QED BY <3>2, <3>3, <3>4 DEF InTheBank
  <2>4. Linked(segments)' BY <1>3 DEF Linked, MoneyOf, AccountsOf, Worths, Counts, Worth
  <2>5. CheckInv' BY <1>0, <2>1, InsideStep
  <2> QED BY <1>3, <2>1, <2>3, <2>4, <2>5 DEF BankInv
<1>4. CASE (Bank!BeginRun(w) \/ Bank!Run(w)) /\ UNCHANGED sync
  <2>1. Linked(segments') /\ BankTypes' /\ \E to \in Txs \ {"init_check"} : Bank!Go(w, to)
    BY <1>4, RunTypes DEF BankInv
  <2> QED BY <1>3, <1>4, <2>1
<1>5. CASE Bank!Long(w) /\ IF Bank!Consistent THEN UNCHANGED sync ELSE Sync!Return(w, "error")
  <2>1. /\ UNCHANGED sync /\ Bank!Go(w, "pick") /\ UNCHANGED <<segments, left, send_id, recv_id>>
        /\ size' = [size EXCEPT ![w] = Bank!Accounts]
    BY <1>2, <1>5 DEF Bank!Long
  <2>2. Bank!Accounts \in Nat
    <3>1. Linked(segments) BY DEF BankInv
    <3> QED BY <3>1, LastOf, SameMoney
  <2>3. BankTypes' BY <2>1, <2>2 DEF BankInv, BankTypes, Txs, Bank!Go
  <2>4. Linked(segments') BY <2>1 DEF BankInv
  <2>5. "pick" \in Txs \ {"init_check"} BY DEF Txs
  <2> QED BY <1>3, <2>1, <2>3, <2>4, <2>5
<1>6. CASE Bank!LastLong(w) /\ Sync!Return(w, Error(Bank!Consistent))
  <2>1. Sync!Return(w, "ok") BY <1>2, <1>6 DEF Error
  <2>2. at' = [at EXCEPT ![w] = "count"] /\ UNCHANGED <<segments, calls>> /\ Bank!Leave(w)
    BY <1>6, <2>1 DEF Sync!Return, Sync!Go, Bank!LastLong
  <2>3. BankInv' BY <2>2, LeaveBankStep
  <2>4. CheckInv' BY <1>0, <2>2, InsideStep DEF Sync!TypeOK, SyncInv
  <2> QED BY <2>1, <2>3, <2>4
<1> QED BY <1>4, <1>5, <1>6 DEF DoRun

\* The check does not touch the bank, and finds its counter at 0 at its end.
LEMMA DoCheckBankStep ==
    ASSUME SyncInv, BankInv, CheckInv, Passing, NEW w \in Workers, DoCheck(w)
    PROVE  /\ BankInv' /\ CheckInv'
           /\ UNCHANGED outcome \/ Sync!Return(w, "ok")
<1>0. at \in [Workers -> Places] BY DEF SyncInv, Sync!TypeOK, Places
<1>1. CheckInv' BY <1>0, DoCheckStep
<1>2. UNCHANGED outcome \/ Sync!Return(w, "ok")
  <2>1. CASE (Check!Begin(w) \/ Check!Run(w)) /\ UNCHANGED sync BY <2>1 DEF sync
  <2>2. CASE Check!Final(w) /\ Sync!Return(w, Error(Check!FoundCorrect(w)))
    <3>1. Check!FoundCorrect(w) BY <2>2, FoundZero DEF Check!Final
    <3> QED BY <2>2, <3>1 DEF Error
  <2> QED BY <2>1, <2>2 DEF DoCheck
<1>3. tx[w] = "out" /\ UNCHANGED bank
  BY RoundsNat DEF DoCheck, CallsCheck, BankInv, InTheBank
<1>4. calls' = calls /\ \A u \in Workers : u # w => at'[u] = at[u]
  <2>1. CASE UNCHANGED sync BY <2>1 DEF sync
  <2>2. ASSUME NEW what, Sync!Return(w, what) PROVE calls' = calls /\ \A u \in Workers : u # w => at'[u] = at[u]
    BY <1>0, <2>2 DEF Sync!Return, Sync!Go
  <2> QED BY <2>1, <2>2 DEF DoCheck
<1>5. BankInv'
  <2>1. BankTypes' BY <1>3 DEF bank, BankInv, BankTypes
  <2>2. Linked(segments)' BY <1>3 DEF bank, BankInv, Linked, MoneyOf, AccountsOf, Worths, Counts, Worth
  <2>3. InTheBank' BY <1>3, <1>4 DEF bank, BankInv, InTheBank, Opened, New
  <2> QED BY <2>1, <2>2, <2>3 DEF BankInv
<1> QED BY <1>1, <1>2, <1>5

\* A worker is thrown out of a transaction, with what it had in its locals.
LEMMA ThrowStep ==
    ASSUME SyncInv, BankInv, CheckInv, NEW w \in Workers, Throw(w)
    PROVE  BankInv' /\ CheckInv' /\ Sync!Return(w, "exception")
<1>1. at \in [Workers -> Places] BY DEF SyncInv, Sync!TypeOK, Places
<1>2. CheckInv' BY <1>1, ThrowCheckStep DEF BankInv, InTheBank
<1>3. Sync!Return(w, "exception") /\ Bank!Leave(w) /\ UNCHANGED segments BY DEF Throw
<1>4. at' = [at EXCEPT ![w] = "error"] /\ calls' = calls BY <1>3 DEF Sync!Return, Sync!Go
<1>5. BankInv' BY <1>3, <1>4, LeaveBankStep
<1> QED BY <1>2, <1>3, <1>5

-----------------------------------------------------------------------------
(* The invariant of the whole *)

GradingInv == SyncInv /\ BarrierOfCheck!IInv /\ BankInv /\ CheckInv /\ NoFalseAlarm

LEMMA BarrierPasses ==
    ASSUME BarrierOfCheck!IInv
    PROVE  Passing
<1>1. /\ place \in [Workers -> {"out", "open", "wait_open", "leave", "close", "wait_close"}]
      /\ syncs \in [Workers -> Nat]
  BY DEF BarrierOfCheck!IInv, BarrierOfCheck!Types, BarrierOfCheck!Places
<1>2. \A t, u \in Workers : place[t] \notin {"open", "wait_open"} => syncs[t] <= syncs[u]
  <2>1. BarrierOfCheck!IsFiniteSet(Workers)
    BY WorkersAssumption DEF IsFiniteSet, BarrierOfCheck!IsFiniteSet
  <2>2. BarrierOfCheck!NobodyPassesAlone BY <2>1, BarrierOfCheck!InvHolds
  <2> QED BY <2>2 DEF BarrierOfCheck!NobodyPassesAlone
<1>3. \A t, u \in Workers : syncs[t] <= syncs[u] + 1
  <2>1. PICK n \in Nat : BarrierOfCheck!InRound(n)
    BY DEF BarrierOfCheck!IInv, BarrierOfCheck!Rounds
  <2>2. \A t \in Workers : syncs[t] \in {n, n + 1} BY <2>1 DEF BarrierOfCheck!InRound
  <2> QED BY <2>2
<1> QED BY <1>1, <1>2, <1>3 DEF Passing

LEMMA GradingInit == Init => GradingInv
<1> SUFFICES ASSUME Init PROVE GradingInv
  OBVIOUS
<1>1. SyncInv BY InitSync DEF Init
<1>2. BarrierOfCheck!IInv
  <2>1. BarrierOfCheck!IsFiniteSet(Workers)
    BY WorkersAssumption DEF IsFiniteSet, BarrierOfCheck!IsFiniteSet
  <2>2. BarrierOfCheck!Init
    BY DEF Init, Check!Init, Check!Barrier!Init, BarrierOfCheck!Init
  <2> QED BY <2>1, <2>2, BarrierOfCheck!InitInv
<1>3. BankInv
  <2>1. segments = New BY DEF Init, Bank!Init, New
  <2>2. BankTypes BY DEF Init, Bank!Init, BankTypes, Txs
  <2>3. \A w \in Workers : tx[w] = "out" BY DEF Init, Bank!Init
  <2>4. InTheBank BY <2>1, <2>3 DEF InTheBank
  <2> QED BY <2>1, <2>2, <2>4, NewLinked DEF BankInv
<1>4. CheckInv
  <2>1. calls = [w \in Workers |-> 0] /\ pc = [w \in Workers |-> "out"] /\ syncs = [w \in Workers |-> 0]
        /\ place = [w \in Workers |-> "out"] /\ at = [w \in Workers |-> "wait"]
    BY DEF Init, Sync!Init, Check!Init, Check!Barrier!Init
  <2>2. Check!init_counter \in Nat BY Grid, OutstandingSet
  <2>3. CheckTypes
    <3>1. counter = 0 /\ todo = [w \in Workers |-> 0] /\ last = [w \in Workers |-> 0]
          /\ correct = [w \in Workers |-> TRUE]
      BY DEF Init, Check!Init
    <3> QED BY <2>1, <2>2, <3>1 DEF CheckTypes, Pcs
  <2>4. InTheCheck BY <2>1, RoundsNat DEF InTheCheck, CallsCheck
  <2>5. AtBarriers BY <2>1 DEF AtBarriers
  <2>6. Counting BY <2>1 DEF Counting, Initialized
  <2> QED BY <2>3, <2>4, <2>5, <2>6 DEF CheckInv
<1>5. NoFalseAlarm BY DEF Init, Sync!Init, NoFalseAlarm
<1> QED BY <1>1, <1>2, <1>3, <1>4, <1>5 DEF GradingInv

\* The outcome of a call is no error, and it is forgotten between two calls.
LEMMA OutcomeKept ==
    ASSUME SyncInv, NoFalseAlarm,
           \/ UNCHANGED outcome
           \/ \E w \in Workers : Sync!Between(w) \/ Sync!Return(w, "ok") \/ Sync!Return(w, "exception")
    PROVE  NoFalseAlarm'
<1>0. outcome \in [Workers -> {"none", "ok", "error", "exception"}] BY DEF SyncInv, Sync!TypeOK
<1>1. CASE UNCHANGED outcome BY <1>1 DEF NoFalseAlarm
<1>2. ASSUME NEW w, NEW what, what # "error", outcome' = [outcome EXCEPT ![w] = what] PROVE NoFalseAlarm'
  BY <1>0, <1>2 DEF NoFalseAlarm
<1>3. ASSUME NEW w \in Workers, Sync!Between(w) PROVE NoFalseAlarm'
  <2>1. UNCHANGED outcome \/ outcome' = [outcome EXCEPT ![w] = "none"]
    BY <1>3 DEF Sync!Between, Sync!SeeWait, Sync!SeeQuit, Sync!Arrive, Sync!Reset, Sync!StartRun,
                Sync!SeeRun, Sync!StoreError, Sync!Abort, Sync!Count, Sync!ResetDone, Sync!Verdict,
                Sync!StopClock, Sync!Raise, Sync!Leave
  <2> QED BY <1>1, <1>2, <2>1
<1>4. ASSUME NEW w \in Workers, NEW what \in {"ok", "exception"}, Sync!Return(w, what) PROVE NoFalseAlarm'
  BY <1>2, <1>4 DEF Sync!Return
<1> QED BY <1>1, <1>3, <1>4

LEMMA GradingNext == GradingInv /\ [Next]_vars => GradingInv'
<1> SUFFICES ASSUME GradingInv, [Next]_vars PROVE GradingInv'
  OBVIOUS
<1> USE DEF GradingInv
<1>1. SyncInv' BY GradingStep, NextSync
<1>2. BarrierOfCheck!IInv'
  <2>1. BarrierOfCheck!IsFiniteSet(Workers)
    BY WorkersAssumption DEF IsFiniteSet, BarrierOfCheck!IsFiniteSet
  <2>2. [BarrierOfCheck!Next]_(BarrierOfCheck!vars) BY BarrierStep
  <2> QED BY <2>1, <2>2, BarrierOfCheck!NextInv
<1>3. Passing BY BarrierPasses
<1>4. BankInv' /\ CheckInv' /\ NoFalseAlarm'
  <2>1. CASE Sync!Master /\ UNCHANGED <<bank, check, thrown>>
    <3>1. BankInv' /\ CheckInv' BY <2>1, BetweenOnward, OnwardStep
    <3>2. UNCHANGED outcome
      BY <2>1 DEF Sync!Master, Sync!Notify, Sync!StartClock, Sync!Wait, Sync!TimeOut, Sync!Collect,
                  Sync!Quit, Sync!Join
    <3> QED BY <3>1, <3>2, OutcomeKept
  <2>2. ASSUME NEW w \in Workers, Sync!Between(w) /\ UNCHANGED <<bank, check, thrown>>
        PROVE  BankInv' /\ CheckInv' /\ NoFalseAlarm'
    <3>1. BankInv' /\ CheckInv' BY <2>2, BetweenOnward, OnwardStep
    <3> QED BY <2>2, <3>1, OutcomeKept
  <2>3. ASSUME NEW w \in Workers, DoInit(w) \/ DoRun(w) \/ DoCheck(w)
        PROVE  BankInv' /\ CheckInv' /\ NoFalseAlarm'
    <3>1. BankInv' /\ CheckInv' /\ (UNCHANGED outcome \/ Sync!Return(w, "ok"))
      BY <1>3, <2>3, DoInitStep, DoRunStep, DoCheckBankStep
    <3> QED BY <3>1, OutcomeKept
  <2>4. ASSUME NEW w \in Workers, Throw(w) PROVE BankInv' /\ CheckInv' /\ NoFalseAlarm'
    <3>1. BankInv' /\ CheckInv' /\ Sync!Return(w, "exception") BY <2>4, ThrowStep
    <3> QED BY <3>1, OutcomeKept
  <2>5. CASE UNCHANGED vars
    <3>1. UNCHANGED <<at, calls, outcome>> /\ UNCHANGED <<bank, check>> BY <2>5 DEF vars, sync
    <3>2. Onward BY <3>1 DEF Onward, SyncInv, Sync!TypeOK
    <3> QED BY <3>1, <3>2, OnwardStep, OutcomeKept
  <2> QED BY <2>1, <2>2, <2>3, <2>4, <2>5 DEF Next, Worker
<1> QED BY <1>1, <1>2, <1>4

THEOREM GradingInvariant == Spec => []GradingInv
BY GradingInit, GradingNext, PTL DEF Spec

\* No money is made or lost, and the list stays one alloc_tx can shrink: for any
\* number of workers, accounts and transactions, and any money.
THEOREM MoneyStaysConserved == Spec => []MoneyConserved
<1>1. GradingInv => MoneyConserved BY SameMoney DEF GradingInv, BankInv, MoneyConserved
<1> QED BY <1>1, GradingInvariant, PTL

\* A library that keeps its promise is never reported to have broken it.
THEOREM NeverAFalseAlarm == Spec => []NoFalseAlarm
<1>1. GradingInv => NoFalseAlarm BY DEF GradingInv
<1> QED BY <1>1, GradingInvariant, PTL

\* Every member of the measure, the bank and the check keeps its type.
THEOREM GradingTypes == Spec => []TypeOK
<1>1. GradingInv => TypeOK
  <2> SUFFICES ASSUME GradingInv PROVE TypeOK
    OBVIOUS
  <2>1. Sync!TypeOK BY DEF GradingInv, SyncInv
  <2>2. Bank!TypeOK
    <3>1. segments \in Seq([parity : Int, accounts : Seq(Int)]) /\ segments # <<>>
      <4>1. segments \in Seq(Segment) /\ Len(segments) > 0 BY DEF GradingInv, BankInv, Linked
      <4>2. \A seg \in Segment : seg \in [parity : Int, accounts : Seq(Int)]
        <5> SUFFICES ASSUME NEW seg \in Segment PROVE seg \in [parity : Int, accounts : Seq(Int)]
          OBVIOUS
        <5>1. seg.parity \in Int /\ seg.accounts \in Seq(Nat) BY DEF Segment
        <5>2. seg.accounts \in Seq(Int) BY <5>1, NatInt
        <5>3. seg = [parity |-> seg.parity, accounts |-> seg.accounts] BY DEF Segment
        <5> QED BY <5>1, <5>2, <5>3
      <4>3. Len(segments) \in Nat /\ segments = [s \in 1..Len(segments) |-> segments[s]]
            /\ \A s \in 1..Len(segments) : segments[s] \in Segment
        BY <4>1
      <4>4. \A s \in 1..Len(segments) : segments[s] \in [parity : Int, accounts : Seq(Int)]
        BY <4>2, <4>3
      <4> DEFINE T == [parity : Int, accounts : Seq(Int)]
      <4> HIDE DEF T
      <4>5. \A s \in 1..Len(segments) : segments[s] \in T BY <4>4 DEF T
      <4>6. segments \in Seq(T) BY <4>3, <4>5
      <4> QED BY <4>1, <4>6 DEF T
    <3> QED BY <3>1 DEF GradingInv, BankInv, BankTypes, Txs, Bank!TypeOK
  <2>3. Check!TypeOK
    <3>1. Check!Barrier!TypeOK
      <4>1. /\ mode \in {"enter", "leave"} /\ syncs \in [Workers -> Nat]
            /\ place \in [Workers -> {"out", "open", "wait_open", "leave", "close", "wait_close"}]
        BY DEF GradingInv, BarrierOfCheck!IInv, BarrierOfCheck!Types, BarrierOfCheck!Places
      <4>2. step \in 0..Check!Barrier!cardinal
        <5> DEFINE S == BarrierOfCheck!Inside
        <5>1. step = Cardinality(S)
          BY DEF GradingInv, BarrierOfCheck!IInv, BarrierOfCheck!Counted, BarrierOfCheck!Cardinality, Cardinality
        <5>2. S \subseteq Workers BY DEF BarrierOfCheck!Inside
        <5>3. IsFiniteSet(Workers) BY WorkersAssumption
        <5>4. Check!Barrier!cardinal = Cardinality(Workers)
          BY DEF Check!Barrier!cardinal, Check!Barrier!Cardinality, Cardinality
        <5> HIDE DEF S
        <5>5. /\ Cardinality(S) \in Nat /\ Cardinality(Workers) \in Nat
              /\ Cardinality(S) <= Cardinality(Workers)
          BY <5>2, <5>3, FS_Subset, FS_CardinalityType
        <5> QED BY <5>1, <5>4, <5>5
      <4> QED BY <4>1, <4>2 DEF Check!Barrier!TypeOK
    <3>2. CheckTypes BY DEF GradingInv, CheckInv
    <3>3. correct \in [Workers -> BOOLEAN]
      <4>1. correct \in [Workers -> {TRUE}] BY <3>2 DEF CheckTypes
      <4> QED BY <4>1
    <3> QED BY <3>1, <3>2, <3>3 DEF Check!TypeOK, CheckTypes, Pcs
  <2> QED BY <2>1, <2>2, <2>3 DEF TypeOK
<1> QED BY <1>1, GradingInvariant, PTL

=============================================================================
