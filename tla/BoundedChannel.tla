--------------------------- MODULE BoundedChannel ---------------------------
(***************************************************************************)
(* What the pipeline's buffer promises (the comment at its declaration):   *)
(* items come out in the order they went in, an item is turned away only   *)
(* when the buffer is full, it is counted then, and no more items wait     *)
(* than MaxQueue and one for each producer that looks for room in one step *)
(* and puts in another (Late).                                             *)
(***************************************************************************)
EXTENDS Integers, Sequences

CONSTANTS
    Items,
    MaxQueue,   \* capacity
    Late        \* producers that look for room and put in two steps

VARIABLES
    pending,    \* the items that wait, oldest first
    taken,      \* the items handed to a consumer, in order
    shed        \* the items turned away

Init == pending = <<>> /\ taken = <<>> /\ shed = {}

Accept(i) ==
    /\ Len(pending) < MaxQueue + Late
    /\ pending' = Append(pending, i)
    /\ UNCHANGED <<taken, shed>>

Shed(i) ==
    /\ Len(pending) >= MaxQueue
    /\ shed' = shed \cup {i}
    /\ UNCHANGED <<pending, taken>>

Take ==
    /\ pending # <<>>
    /\ taken' = Append(taken, Head(pending))
    /\ pending' = Tail(pending)
    /\ UNCHANGED shed

(* A restart forgets what waits. *)
Forget == pending' = <<>> /\ UNCHANGED <<taken, shed>>

Next == Take \/ Forget \/ \E i \in Items : Accept(i) \/ Shed(i)

Spec == Init /\ [][Next]_<<pending, taken, shed>>
=============================================================================
