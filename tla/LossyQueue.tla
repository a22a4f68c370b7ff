------------------------------ MODULE LossyQueue ------------------------------
(***************************************************************************)
(* What an emitter promises about its stream: messages appear on it in the *)
(* order in which they were handed over.  A message may appear more than   *)
(* once, though not after a later one was taken up, and it may get lost.   *)
(* What was not handed over never appears.                                 *)
(***************************************************************************)
EXTENDS Naturals, Sequences

VARIABLES
    made,       \* messages are numbered from 1 as they are made
    waiting,    \* messages handed over and not settled, oldest first
    delivered   \* what has appeared on the stream

Init == made = 0 /\ waiting = <<>> /\ delivered = <<>>

Extends(s, t) == Len(t) >= Len(s) /\ \A i \in 1..Len(s) : t[i] = s[i]
Increasing(s) == \A i, j \in 1..Len(s) : i < j => s[i] < s[j]

\* Messages are made, here or elsewhere; those handed over here are new.
Put ==
    /\ made' \in Nat /\ made' >= made
    /\ waiting' \in Seq(Nat)
    /\ Extends(waiting, waiting') /\ Increasing(waiting')
    /\ \A i \in (Len(waiting) + 1)..Len(waiting') : waiting'[i] \in (made + 1)..made'
    /\ UNCHANGED delivered

\* The oldest message appears.  It may be settled thereby.
Deliver ==
    /\ waiting # <<>>
    /\ delivered' = Append(delivered, Head(waiting))
    /\ waiting' \in {waiting, Tail(waiting)}
    /\ UNCHANGED made

\* The oldest message is settled without appearing again.
Settle ==
    /\ waiting # <<>>
    /\ waiting' = Tail(waiting)
    /\ UNCHANGED <<made, delivered>>

\* Everything that waits is abandoned.
Abandon ==
    /\ waiting' = <<>>
    /\ UNCHANGED <<made, delivered>>

Next == Put \/ Deliver \/ Settle \/ Abandon

Spec == Init /\ [][Next]_<<made, waiting, delivered>>

\* The stream holds messages in the order of their making, and none that
\* still has older ones before it.
InOrder == \A i, j \in 1..Len(delivered) : i < j => delivered[i] <= delivered[j]
=============================================================================
