---------------------------- MODULE BoundedQueue ----------------------------
(***************************************************************************)
(* What a producer and a consumer sharing a circular buffer promise: every *)
(* datum is taken once, whole, in the order they were put.                 *)
(***************************************************************************)
EXTENDS Integers, Sequences

CONSTANTS Size, Data(_)    \* the capacity; the k-th datum put

VARIABLES queue, taken

Init == queue = <<>> /\ taken = <<>>

Put ==
    /\ Len(queue) < Size
    /\ queue' = Append(queue, Data(Len(taken) + Len(queue) + 1))
    /\ UNCHANGED taken

Take ==
    /\ queue # <<>>
    /\ taken' = Append(taken, Head(queue))
    /\ queue' = Tail(queue)

Spec == Init /\ [][Put \/ Take]_<<queue, taken>>

=============================================================================
