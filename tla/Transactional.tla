--------------------------- MODULE Transactional ---------------------------
(***************************************************************************)
(* How a worker uses a library (grading/transactional.hpp): the loop of    *)
(* transactional repeats a closure until it commits, class Transaction     *)
(* begins in its constructor and ends in its destructor, and exceptions    *)
(* lead from a refused call to the destructor and on.  Transactions share  *)
(* nothing here but the library: one worker stands for each.               *)
(***************************************************************************)
EXTENDS Naturals, Sequences

CONSTANT MaxOperations     \* bound: operations a closure makes in one attempt

VARIABLES
    library,   \* the library under the worker
    mode,      \* "ro" or "rw"
    at,        \* where the worker is
    operations, \* of the closure in this attempt
    doing,     \* the calls of the library the current operation has left to make
    aborted,   \* member of Transaction
    raised,    \* the exception in flight
    handle     \* tx, as the library sees it

transaction == <<operations, doing, aborted>>
vars == <<library, mode, at, transaction, raised, handle>>

Libraries == {"358982", "reference", "template", "any"}

Init ==
    /\ library \in Libraries
    /\ mode \in {"ro", "rw"}
    /\ at = "begin" /\ handle = "none"
    /\ operations = 0 /\ doing = <<>> /\ aborted = FALSE
    /\ raised = "none"

-----------------------------------------------------------------------------
(* What a library may answer to a call *)

\* Any library that does what include/tm.h allows.
tm_h(call) == CASE call = "begin" -> {"ok", "invalid"}
                [] call = "alloc" -> {"ok", "nomem", "abort"}
                [] OTHER          -> {"ok", "abort"}

\* It never refuses a write, an allocation or a free, and a read-only
\* transaction that has come to its end commits.
dual_stm(call) == IF call = "read" \/ (call = "end" /\ mode = "rw")
                  THEN {"ok", "abort"} ELSE {"ok"}

reference(call) == CASE call = "begin" -> {"ok", "invalid"}
                     [] call = "alloc" -> {"ok", "nomem"}
                     [] OTHER          -> {"ok"}

\* What is left to write of it refuses everything.
template(call) == IF call = "begin" THEN {"ok"} ELSE {"abort"}

answers(call) == CASE library = "any"       -> tm_h(call)
                   [] library = "358982"    -> dual_stm(call)
                   [] library = "reference" -> reference(call)
                   [] library = "template"  -> template(call)

\* What the library makes of a transaction: one it has aborted or committed is
\* gone, and a call of it touches freed memory.
Handle(call, answer) ==
    CASE call = "begin" -> IF answer = "ok" THEN "open" ELSE "none"
      [] call # "begin" /\ handle # "open" -> "misused"
      [] OTHER -> CASE answer = "abort" -> "aborted"
                    [] answer # "abort" /\ call = "end" -> "committed"
                    [] OTHER -> "open"

-----------------------------------------------------------------------------
(* Transaction *)

\* The constructor of Transaction throws TransactionBegin: nothing is destroyed.
Begin == \E answer \in answers("begin") :
    /\ at = "begin"
    /\ handle' = Handle("begin", answer)
    /\ operations' = 0 /\ doing' = <<>> /\ aborted' = FALSE
    /\ raised' = IF answer = "ok" THEN "none" ELSE "begin"
    /\ at' = IF answer = "ok" THEN "closure" ELSE "thrown"
    /\ UNCHANGED <<library, mode>>

Shared_alloc == <<"alloc", "write">>
Shared_free == <<"read", "free", "write">>

\* The closure goes on with an operation of Shared.
Operation ==
    /\ at = "closure" /\ doing = <<>>
    /\ operations < MaxOperations
    /\ operations' = operations + 1
    /\ doing' \in {<<"read">>} \cup
                  IF mode = "rw" THEN {<<"write">>, Shared_alloc, Shared_free} ELSE {}
    /\ UNCHANGED <<library, mode, at, aborted, raised, handle>>

\* Fault: a refused allocation leaves aborted as it is.
Refused_alloc(call, answer) == answer = "abort" /\ call # "alloc"

\* A refused call sets aborted before it throws TransactionRetry.
Refused(call, answer) == answer = "abort"

\* read, write, alloc and free: TransactionAlloc leaves aborted as it is.
Call ==
    /\ at = "closure" /\ doing # <<>>
    /\ \E answer \in answers(Head(doing)) :
          /\ handle' = Handle(Head(doing), answer)
          /\ aborted' = Refused(Head(doing), answer)
          /\ raised' = CASE answer = "ok"    -> "none"
                         [] answer = "abort" -> "retry"
                         [] answer = "nomem" -> "alloc"
          /\ at' = IF answer = "ok" THEN "closure" ELSE "destroy"
          /\ doing' = IF answer = "ok" THEN Tail(doing) ELSE <<>>
    /\ UNCHANGED <<library, mode, operations>>

Return ==
    /\ at = "closure" /\ doing = <<>>
    /\ at' = "destroy"
    /\ UNCHANGED <<library, mode, transaction, raised, handle>>

\* The destructor ends what was not aborted, also while TransactionAlloc is on its
\* way: a second exception then terminates the process.
DestroyEnd == \E answer \in answers("end") :
    /\ at = "destroy" /\ ~aborted
    /\ handle' = Handle("end", answer)
    /\ IF answer = "ok" THEN UNCHANGED raised ELSE raised' = "retry"
    /\ at' = IF answer = "abort" /\ raised # "none" THEN "terminated" ELSE "leave"
    /\ UNCHANGED <<library, mode, transaction>>

DestroyAborted ==
    /\ at = "destroy" /\ aborted
    /\ at' = "leave"
    /\ UNCHANGED <<library, mode, transaction, raised, handle>>

\* The loop of transactional: a retry begins again, anything else goes to the
\* caller.
Leave ==
    /\ at = "leave"
    /\ at' = CASE raised = "none"  -> "returned"
               [] raised = "retry" -> "begin"
               [] OTHER            -> "thrown"
    /\ UNCHANGED <<library, mode, transaction, raised, handle>>

Next ==
    \/ Begin \/ Operation \/ Call \/ Return
    \/ DestroyEnd \/ DestroyAborted \/ Leave

-----------------------------------------------------------------------------
TypeOK ==
    /\ at \in {"begin", "closure", "destroy", "leave", "returned", "thrown", "terminated"}
    /\ operations \in 0..MaxOperations
    /\ doing \in Seq({"read", "write", "alloc", "free"}) /\ Len(doing) <= 3
    /\ aborted \in BOOLEAN
    /\ raised \in {"none", "begin", "retry", "alloc"}
    /\ handle \in {"none", "open", "aborted", "committed", "misused"}

\* Whatever call is refused, the library is used by its contract: no call of a
\* transaction that is over, which is freed memory; none left open, whose locks
\* would stay; what returns has committed; and only an allocation without memory
\* followed by a commit that fails ends the process.
EndedOnce ==
    /\ handle # "misused"
    /\ handle = "open" => at \in {"closure", "destroy"}
    /\ at = "begin" => handle \in {"none", "aborted"}
    /\ at = "returned" => handle = "committed"
    /\ at = "terminated" => library = "any" /\ handle = "aborted"

\* Under the reference library, which aborts nothing, the loop is left; the
\* template never lets go of a worker whose transaction began.
Finished == at \in {"returned", "thrown"}

=============================================================================
