---------------------------- MODULE MessageStream ----------------------------
(* What the reader of a response stream is promised.  The messages that       *)
(* arrived become readable one by one, in the order of their arrival, until   *)
(* the stream is shut: those still under way then are lost.  What became      *)
(* readable is taken once and in that order, and the end comes after it.      *)
EXTENDS Naturals, Sequences

VARIABLES
    arrived,    \* how many messages arrived and could be read
    readable,   \* how many of them became readable
    taken,      \* the messages the reader took, by their numbers
    shut,       \* nothing becomes readable any more
    over        \* the reader was told that there are no more

Init == arrived = 0 /\ readable = 0 /\ taken = <<>> /\ shut = FALSE /\ over = FALSE

Arrive == arrived' = arrived + 1 /\ UNCHANGED <<readable, taken, shut, over>>

Deliver ==
    /\ ~shut
    /\ readable < arrived
    /\ readable' = readable + 1
    /\ UNCHANGED <<arrived, taken, shut, over>>

(* A message that finds none before it is readable as it arrives. *)
ArriveReadable ==
    /\ ~shut
    /\ readable = arrived
    /\ arrived' = arrived + 1
    /\ readable' = readable + 1
    /\ UNCHANGED <<taken, shut, over>>

Take ==
    /\ ~over
    /\ Len(taken) < readable
    /\ taken' = Append(taken, Len(taken) + 1)
    /\ UNCHANGED <<arrived, readable, shut, over>>

Shut == shut' = TRUE /\ UNCHANGED <<arrived, readable, taken, over>>

End ==
    /\ shut
    /\ Len(taken) = readable
    /\ over' = TRUE
    /\ UNCHANGED <<arrived, readable, taken, shut>>

Next == Arrive \/ Deliver \/ ArriveReadable \/ Take \/ Shut \/ End

Spec == Init /\ [][Next]_<<arrived, readable, taken, shut, over>>
=============================================================================
