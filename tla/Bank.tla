-------------------------------- MODULE Bank --------------------------------
(***************************************************************************)
(* The bank of grading/workload.hpp: what a worker does in init and run,   *)
(* each transaction repeated by the loop of transactional.hpp until it     *)
(* commits.  The library is the one include/tm.h describes: a transaction  *)
(* reads one state of the memory, takes effect at once when it commits,    *)
(* and may be aborted at any read and at its end.  An attempt is a step:   *)
(* it has committed, or it was aborted and may leave traces in what the    *)
(* closure captures.                                                       *)
(***************************************************************************)
EXTENDS Integers, Sequences, FiniteSets

CONSTANTS
    Workers,
    nbaccounts,      \* accounts of the first segment, and room in any segment
    init_balance,
    nbtxperwrk       \* transactions per worker and run

VARIABLES
    segments,    \* the linked segments: the accounts counted in each, and the parity
    tx,          \* the transaction a worker is about to make or to repeat
    todo,        \* cntr, down
    size,        \* count: the number of accounts the worker knows of
    send_id, recv_id

vars == <<segments, tx, todo, size, send_id, recv_id>>

-----------------------------------------------------------------------------
\* What the first k members of s add up to, for every k.
Totals(s) == LET sum[k \in 0..Len(s)] == IF k = 0 THEN 0 ELSE sum[k - 1] + s[k] IN sum

TotalOf(s) == Totals(s)[Len(s)]

count(s) == Len(segments[s].accounts)

\* The number of accounts a transaction sees that follows all the links.
Accounts == TotalOf([s \in DOMAIN segments |-> count(s)])

Money == TotalOf([s \in DOMAIN segments |-> segments[s].parity + TotalOf(segments[s].accounts)])

Last == Len(segments)

Nowhere == <<0, 0>>

\* The search of short_tx for one account, after the first k segments: what is
\* left of its index, and the place where it was found.
Search(id) ==
    LET after[k \in 0..Last] ==
            IF k = 0 THEN [id |-> id, found |-> Nowhere]
            ELSE LET s == after[k - 1]
                 IN  IF s.found # Nowhere THEN s
                     ELSE IF s.id < count(k) THEN [s EXCEPT !.found = <<k, s.id + 1>>]
                     ELSE [s EXCEPT !.id = @ - count(k)]
    IN after

Place(id) == Search(id)[Last].found

Balance(place) == segments[place[1]].accounts[place[2]]

\* Fault: the receiver's balance is read before the sender's has been written.
MovedStale(from, to) ==
    IF Balance(from) > 0
      THEN [segments EXCEPT ![from[1]].accounts[from[2]] = Balance(from) - 1,
                            ![to[1]].accounts[to[2]] = Balance(to) + 1]
      ELSE segments

\* One unit from an account to an account, potentially the same, if it has one.
Moved(from, to) ==
    IF Balance(from) > 0
      THEN LET paid == [segments EXCEPT ![from[1]].accounts[from[2]] = @ - 1]
           IN  [paid EXCEPT ![to[1]].accounts[to[2]] = @ + 1]
      ELSE segments

-----------------------------------------------------------------------------
\* The region is new: the first word of the first segment, its count, is 0.
Init ==
    /\ segments = <<[parity |-> 0, accounts |-> <<>>]>>
    /\ tx = [w \in Workers |-> "out"]
    /\ todo = [w \in Workers |-> 0]
    /\ size = [w \in Workers |-> 0]
    /\ send_id = [w \in Workers |-> 0]
    /\ recv_id = [w \in Workers |-> 0]

Go(w, to) == tx' = [tx EXCEPT ![w] = to]

\* A call of init or run is over: its locals go out of scope.
Leave(w) ==
    /\ Go(w, "out")
    /\ todo' = [todo EXCEPT ![w] = 0]
    /\ size' = [size EXCEPT ![w] = 0]
    /\ send_id' = [send_id EXCEPT ![w] = 0]
    /\ recv_id' = [recv_id EXCEPT ![w] = 0]

locals == <<todo, size, send_id, recv_id>>

-----------------------------------------------------------------------------
(* init *)

InitWrite(w) ==
    /\ tx[w] = "out"
    /\ segments' = [segments EXCEPT ![1].accounts = [i \in 1..nbaccounts |-> init_balance]]
    /\ Go(w, "init_check")
    /\ UNCHANGED locals

\* It returns whether the first account has been found with its balance.
InitCheck(w) ==
    /\ tx[w] = "init_check"
    /\ Leave(w)
    /\ UNCHANGED segments

InitCorrect == segments[1].accounts[1] = init_balance

-----------------------------------------------------------------------------
(* run *)

BeginRun(w) ==
    /\ tx[w] = "out"
    /\ todo' = [todo EXCEPT ![w] = nbtxperwrk]
    /\ size' = [size EXCEPT ![w] = nbaccounts]
    /\ Go(w, "pick")
    /\ UNCHANGED <<segments, send_id, recv_id>>

Pick(w, kind) ==
    /\ tx[w] = "pick"
    /\ todo[w] > 0
    /\ todo' = [todo EXCEPT ![w] = @ - 1]
    /\ Go(w, kind)
    /\ UNCHANGED <<segments, size, send_id, recv_id>>

\* long_tx, the sum of all balances: it returns whether the money is all there,
\* and run returns at once when it is not.
Consistent ==
    /\ \A s \in DOMAIN segments : \A i \in 1..count(s) : segments[s].accounts[i] >= 0
    /\ Money = init_balance * Accounts

Long(w) ==
    /\ tx[w] = "long"
    /\ IF Consistent
         THEN /\ size' = [size EXCEPT ![w] = Accounts]
              /\ Go(w, "pick")
              /\ UNCHANGED <<todo, send_id, recv_id>>
         ELSE Leave(w)
    /\ UNCHANGED segments

\* The last long transaction, after which run returns what it returned.
LastLong(w) ==
    /\ tx[w] = "pick"
    /\ todo[w] = 0
    /\ Leave(w)
    /\ UNCHANGED segments

\* alloc_tx: above the trigger, any number, the last account goes ...
Surplus == Accounts > 2

NewParity == segments[Last].parity + segments[Last].accounts[count(Last)] - init_balance

RemoveAccount(w) ==
    /\ tx[w] = "alloc"
    /\ Surplus
    /\ count(Last) > 1
    /\ segments' = [segments EXCEPT ![Last] =
                        [parity |-> NewParity, accounts |-> SubSeq(@.accounts, 1, count(Last) - 1)]]
    /\ Go(w, "pick")
    /\ UNCHANGED locals

\* Fault: the parity of the segment is freed with it.
FreeSegmentParity(w) ==
    /\ tx[w] = "alloc"
    /\ Surplus
    /\ count(Last) = 1
    /\ segments' = SubSeq(segments, 1, Last - 1)
    /\ Go(w, "pick")
    /\ UNCHANGED locals

\* ... and its segment with it, if it was the only one there.
FreeSegment(w) ==
    /\ tx[w] = "alloc"
    /\ Surplus
    /\ count(Last) = 1
    /\ segments' = [SubSeq(segments, 1, Last - 1) EXCEPT ![Last - 1].parity = @ + NewParity]
    /\ Go(w, "pick")
    /\ UNCHANGED locals

\* Otherwise an account is added, where there is room for it ...
AddAccount(w) ==
    /\ tx[w] = "alloc"
    /\ count(Last) < nbaccounts
    /\ segments' = [segments EXCEPT ![Last].accounts = Append(@, init_balance)]
    /\ Go(w, "pick")
    /\ UNCHANGED locals

\* ... or in a new segment.
AllocSegment(w) ==
    /\ tx[w] = "alloc"
    /\ count(Last) = nbaccounts
    /\ segments' = Append(segments, [parity |-> 0, accounts |-> <<init_balance>>])
    /\ Go(w, "pick")
    /\ UNCHANGED locals

\* short_tx is called, with accounts among those the worker knows of.
Draw(w, send, recv) ==
    /\ tx[w] = "draw"
    /\ send_id' = [send_id EXCEPT ![w] = send]
    /\ recv_id' = [recv_id EXCEPT ![w] = recv]
    /\ Go(w, "short")
    /\ UNCHANGED <<segments, todo, size>>

\* One of the accounts is gone, or both are there.
ShortCommit(w) ==
    /\ tx[w] = "short"
    /\ LET from == Place(send_id[w])
           to   == Place(recv_id[w])
       IN  \/ /\ Nowhere \in {from, to}
              /\ Go(w, "draw")
              /\ UNCHANGED segments
           \/ /\ Nowhere \notin {from, to}
              /\ segments' = Moved(from, to)
              /\ Go(w, "pick")
    /\ send_id' = [send_id EXCEPT ![w] = 0]
    /\ recv_id' = [recv_id EXCEPT ![w] = 0]
    /\ UNCHANGED <<todo, size>>

\* An attempt that was aborted behind k segments: the closure has captured the
\* indexes by reference, and the next attempt starts with what is left of them.
ShortAbort(w, k) ==
    /\ tx[w] = "short"
    /\ send_id' = [send_id EXCEPT ![w] = Search(@)[k].id]
    /\ recv_id' = [recv_id EXCEPT ![w] = Search(@)[k].id]
    /\ UNCHANGED <<segments, tx, todo, size>>

-----------------------------------------------------------------------------
\* Worker w is inside a transaction that tm_begin or tm_alloc may refuse.
Transacting(w) ==
    \/ tx[w] \in {"init_check", "long", "alloc", "short"}
    \/ tx[w] = "pick" /\ todo[w] = 0

\* The call of run, until it returns; a long transaction apart, which may end it.
Run(w) ==
    \/ \E kind \in {"long", "alloc", "draw"} : Pick(w, kind)
    \/ RemoveAccount(w) \/ FreeSegment(w) \/ AddAccount(w) \/ AllocSegment(w)
    \/ \E send, recv \in 0..(size[w] - 1) : Draw(w, send, recv)
    \/ ShortCommit(w)
    \/ \E k \in 0..Last : ShortAbort(w, k)

-----------------------------------------------------------------------------
TypeOK ==
    /\ segments \in Seq([parity : Int, accounts : Seq(Int)]) /\ segments # <<>>
    /\ tx \in [Workers -> {"out", "init_check", "pick", "long", "alloc", "draw", "short"}]
    /\ todo \in [Workers -> 0..nbtxperwrk]
    /\ size \in [Workers -> Nat] /\ send_id \in [Workers -> Nat] /\ recv_id \in [Workers -> Nat]

\* Whatever is transferred, removed and freed, no money is made or lost, no
\* account is overdrawn, and the list stays one that alloc_tx can shrink: no
\* segment but the last has room, and none is empty once the bank is open.
MoneyConserved ==
    /\ Consistent
    /\ \A s \in DOMAIN segments : s # Last => count(s) = nbaccounts
    /\ count(Last) = 0 => Last = 1

=============================================================================
