------------------------------- MODULE Parts -------------------------------
(***************************************************************************)
(* The parts small enough to be checked side by side: one of them runs, as *)
(* chosen in the initial state.  They are the example programs, two parts  *)
(* of the STM that stand alone (the lock of a word, the segment table),    *)
(* the use a worker makes of a library, and the driver around the measure. *)
(***************************************************************************)
EXTENDS Counter, Election, ProducerConsumer, Driver

CONSTANTS
    Quarter, MaxVersion,                           \* of VersionedLock
    Callers,                                       \* of SegmentTable: its threads
    InitialSegments, IndexRange, MaxAllocations,
    MaxOperations                                  \* of Transactional

ASSUME QuarterAssumption == Quarter \in Nat \ {0}
ASSUME VersionAssumption == MaxVersion \in Nat /\ MaxVersion < Quarter
ASSUME CallersAssumption == Nobody \notin Callers
ASSUME TableAssumption == InitialSegments \in Nat \ {0} /\ IndexRange \in Nat \ {0, 1}
ASSUME BoundsAssumption == MaxAllocations \in Nat /\ MaxOperations \in Nat

VARIABLES
    v, lock_pc, cur, target,
    n_segments, MAX_SEGMENTS, allocating_lock, member, buffers, table_pc, array, new_index,
    base, name, calls, returned, freed, disturbed,
    library, mode, at, operations, doing, aborted, raised, handle

VLock == INSTANCE VersionedLock WITH pc <- lock_pc
Table == INSTANCE SegmentTable WITH pc <- table_pc, Threads <- Callers
Interface == INSTANCE Transactional

counterPart  == <<counters, locals, flag>>
electionPart == <<leader, nb_leaders>>
proconPart   == <<data, counts, seen, known, spurious>>
programPart  == <<steps, verdict, lock, counterPart, electionPart, proconPart>>
lockPart     == <<v, lock_pc, cur, target>>
tablePart    == <<n_segments, MAX_SEGMENTS, allocating_lock, member, buffers, table_pc, array,
                  new_index, base, name, calls, returned, freed, disturbed>>
interfacePart == <<library, mode, at, operations, doing, aborted, raised, handle>>

vars == <<program, programPart, lockPart, tablePart, interfacePart, driverVars>>

-----------------------------------------------------------------------------
Init ==
    /\ \/ CounterInit \/ ElectionInit \/ ProconInit
       \/ /\ program \in {"versioned_lock", "table", "interface", "driver"}
          /\ Start({}, "joined") /\ lock_init
    /\ CounterData /\ ElectionData /\ ProconData
    /\ VLock!Init /\ Table!Init /\ Interface!Init /\ DriverInit
    /\ program # "interface" => library = "any" /\ mode = "ro"

NoProgram == UNCHANGED <<program, programPart>>
OnlyPrograms == UNCHANGED <<lockPart, tablePart, interfacePart, driverVars>>

CountingThread(t) ==
    program \in CounterPrograms /\ CounterStep(t)
        /\ UNCHANGED <<electionPart, proconPart>> /\ OnlyPrograms

Candidate(i) ==
    program \in ElectionPrograms /\ ElectionStep(i)
        /\ UNCHANGED <<counterPart, proconPart>> /\ OnlyPrograms

Side(s) ==
    program \in ProconPrograms /\ ProconStep(s)
        /\ UNCHANGED <<counterPart, electionPart>> /\ OnlyPrograms

SpuriousWakeup(s) ==
    program = "procon4" /\ Spurious(s)
        /\ UNCHANGED <<counterPart, electionPart>> /\ OnlyPrograms

TheLock ==
    program = "versioned_lock" /\ VLock!Next /\ NoProgram
        /\ UNCHANGED <<tablePart, interfacePart, driverVars>>

TheTable ==
    program = "table" /\ Table!Next /\ NoProgram
        /\ UNCHANGED <<lockPart, interfacePart, driverVars>>

Worker ==
    program = "interface" /\ Interface!Next /\ NoProgram
        /\ UNCHANGED <<lockPart, tablePart, driverVars>>

TheDriver ==
    program = "driver" /\ DriverNext /\ NoProgram
        /\ UNCHANGED <<lockPart, tablePart, interfacePart>>

Next ==
    \/ \E t \in Threads : CountingThread(t) \/ Candidate(t)
    \/ \E s \in Sides : Side(s) \/ SpuriousWakeup(s)
    \/ TheLock \/ TheTable \/ Worker \/ TheDriver

Spec == Init /\ [][Next]_vars

-----------------------------------------------------------------------------
\* A store is seen in the end by a thread that keeps loading.
FreshLoad(s) ==
    program = "procon3" /\ LoadUntil(s, other_until(s)) /\ UNCHANGED program
        /\ UNCHANGED <<counterPart, electionPart>> /\ OnlyPrograms

\* A driver step with the others still.
Driving(A) ==
    program = "driver" /\ status = "running" /\ A /\ NoProgram
        /\ UNCHANGED <<lockPart, tablePart, interfacePart>>

\* Every thread is scheduled; wait_for notices that its time is over; a worker
\* goes on with its closure.  No library has to return.
Fairness ==
    /\ \A t \in Threads : WF_vars(CountingThread(t)) /\ WF_vars(Candidate(t))
    /\ \A s \in Sides : WF_vars(Side(s)) /\ WF_vars(FreshLoad(s))
    /\ WF_vars(Worker)
    /\ WF_vars(Driving(Proceed))
    /\ WF_vars(Driving(Notify))
    /\ WF_vars(Driving(WakeUp("late")))

FairSpec == Spec /\ Fairness

-----------------------------------------------------------------------------
TypeOK ==
    /\ program \in CounterPrograms => CounterTypeOK
    /\ ElectionTypeOK /\ ProconTypeOK
    /\ VLock!TypeOK /\ Table!TypeOK /\ Interface!TypeOK /\ DriverTypeOK

\* Between a lock and its unlock there is one thread, for each of the five locks
\* of the repository that are not the reference library's: the mutex of lock.c,
\* the playground's Lock, the spinlock, and the lock of a word.
MutualExclusion ==
    /\ program \in CounterPrograms => CounterExclusion
    /\ program \in {"procon2", "procon4"} => \A s \in Sides : Locking(s) <=> holder = s
    /\ VLock!MutualExclusion

\* The programs the source calls correct end with the verdict it promises: every
\* increment counted, one leader in each round, every datum consumed whole.
LooksCorrect ==
    /\ program \in Correct \cup {"election2", "election4"} => verdict # "wrong"
    /\ ConsumedWhole
    /\ OneLeader

\* The lock of a word is atomic for its users.
ImplementsAtomicLock == VLock!ImplementsAtomicLock

\* The table of segments, under two threads: see SegmentTable.
TableHoldsSegment == Table!TableHoldsSegment
IndexingSafe == Table!IndexingSafe
CapacityMatches == Table!CapacityMatches

\* The worker's use of the library, see Transactional.
EndedOnce == Interface!EndedOnce

\* Every program comes to its end, and main prints its verdict; so does a worker
\* under the reference library, and the driver though a library may hang in its
\* creation, its destruction or a measure with a maximum.  Left out are: procon2,
\* whose busy waiting may keep an unfair mutex from the other side; a worker of a
\* library that aborts; a driver that stays, for ever, in the first measure, which
\* has no maximum, or in the join of a thread it takes to be through, woken early.
Over ==
    \/ verdict # "none"
    \/ program \in {"procon2", "versioned_lock", "table"}
    \/ program = "interface" /\ (library # "reference" \/ Interface!Finished)
    \/ program = "driver" /\ (status # "running" \/ Untimed \/ woken = "early")

ProgramsEnd == <>[]Over

=============================================================================
