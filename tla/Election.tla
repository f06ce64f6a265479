------------------------------ MODULE Election ------------------------------
(***************************************************************************)
(* sync-examples/election1.c to election4.c: in each round every thread    *)
(* tries to become its leader.  In election1 leader is a plain int, read   *)
(* and written as the atomic one of election3 is: the race is the same.    *)
(***************************************************************************)
EXTENDS Program

ElectionPrograms == {"election1", "election2", "election3", "election4"}

VARIABLES
    leader,      \* of each round, 0 for none
    nb_leaders   \* threads that take themselves for the leader of the round

electionVars == <<program, steps, verdict, lock, leader, nb_leaders>>

Fst == CASE program = "election2" -> "acquire"
         [] program = "election4" -> "cas"
         [] OTHER                 -> "test"

ElectionData ==
    /\ leader = [n \in 0..(RUNS - 1) |-> 0]
    /\ nb_leaders = [n \in 0..(RUNS - 1) |-> 0]

ElectionInit ==
    /\ program \in ElectionPrograms
    /\ Start(Threads, Fst)
    /\ lock_init
    /\ ElectionData

-----------------------------------------------------------------------------
\* The tid main gives to the thread it creates i-th.
tid(i) == i + 1

OnlyRounds == UNCHANGED <<leader, nb_leaders>>

\* if (leader[r] == 0), with the step taken otherwise.
Test(i, Otherwise) ==
    /\ OnlyRounds
    /\ \/ Go(i, "test", "set") /\ leader[r[i]] = 0
       \/ Otherwise /\ leader[r[i]] # 0

Set(i) ==
    /\ Go(i, "set", "announce")
    /\ leader' = [leader EXCEPT ![r[i]] = tid(i)]
    /\ UNCHANGED nb_leaders

Announce(i) ==
    /\ nb_leaders' = [nb_leaders EXCEPT ![r[i]] = @ + 1]
    /\ UNCHANGED leader

Elected == Verdict(\A n \in DOMAIN nb_leaders : nb_leaders[n] = 1) /\ OnlyRounds

-----------------------------------------------------------------------------
\* Each is one step of main or of the thread created i-th.
unsynchronized(i) ==
    \/ Elected
    \/ /\ UNCHANGED <<verdict, lock>>
       /\ \/ Test(i, NextRound(i, "test", Fst, 1))
          \/ Set(i)
          \/ NextRound(i, "announce", Fst, 1) /\ Announce(i)

election1(i) == unsynchronized(i)

election2(i) ==
    \/ Elected
    \/ /\ UNCHANGED verdict
       /\ \/ Go(i, "acquire", "test") /\ lock_acquire(i) /\ OnlyRounds
          \/ (Test(i, Go(i, "test", "release")) \/ Set(i)) /\ UNCHANGED lock
          \/ Go(i, "announce", "release") /\ Announce(i) /\ UNCHANGED lock
          \/ NextRound(i, "release", Fst, 1) /\ lock_release(i) /\ OnlyRounds

election3(i) == unsynchronized(i)

\* Fault: the result of the compare-and-swap is not looked at.
election4_unlooked(i) ==
    \/ Elected
    \/ /\ UNCHANGED <<verdict, lock>>
       /\ \/ /\ Go(i, "cas", "announce")
             /\ leader' = [leader EXCEPT ![r[i]] = IF @ = 0 THEN tid(i) ELSE @]
             /\ UNCHANGED nb_leaders
          \/ NextRound(i, "announce", Fst, 1) /\ Announce(i)

election4(i) ==
    \/ Elected
    \/ /\ UNCHANGED <<verdict, lock>>
       /\ \/ NextRound(i, "cas", Fst, 1) /\ leader[r[i]] # 0 /\ OnlyRounds
          \/ /\ Go(i, "cas", "announce")
             /\ leader[r[i]] = 0
             /\ leader' = [leader EXCEPT ![r[i]] = tid(i)]
             /\ UNCHANGED nb_leaders
          \/ NextRound(i, "announce", Fst, 1) /\ Announce(i)

ElectionStep(i) ==
    /\ UNCHANGED program
    /\ \/ program = "election1" /\ election1(i)
       \/ program = "election2" /\ election2(i)
       \/ program = "election3" /\ election3(i)
       \/ program = "election4" /\ election4(i)

-----------------------------------------------------------------------------
ElectionTypeOK ==
    /\ leader \in [0..(RUNS - 1) -> 0..THREADS]
    /\ nb_leaders \in [0..(RUNS - 1) -> 0..THREADS]

\* No round of the programs the source calls correct ever has two leaders, and
\* its leader is the one thread that takes itself for it.
OneLeader ==
    program \in {"election2", "election4"} =>
        \A n \in 0..(RUNS - 1) :
            LET announcing == {i \in Threads : pc[i] = "announce" /\ r[i] = n} IN
            /\ nb_leaders[n] + Cardinality(announcing) <= 1
            /\ \A i \in announcing : leader[n] = tid(i)

=============================================================================
