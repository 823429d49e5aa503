----------------------------- MODULE LossyQueue -----------------------------
(***************************************************************************)
(* What a connection to the image server promises for the replies of the   *)
(* OCR program: it may refuse or lose any of them, but those it delivers   *)
(* arrive whole, once and in the order they were handed over.              *)
(***************************************************************************)
EXTENDS Integers, Sequences

CONSTANT MaxReplies  \* bound: how many replies are handed over

VARIABLES offered,   \* how many replies were handed over; they are 1, 2, ...
          queue,     \* those of them that can still be delivered
          delivered  \* the replies that were delivered

vars == <<offered, queue, delivered>>

Init == offered = 0 /\ queue = {} /\ delivered = <<>>

Offer ==
  /\ offered < MaxReplies
  /\ offered' = offered + 1
  /\ queue' \in {queue, queue \cup {offered'}}
  /\ UNCHANGED delivered

Deliver ==
  \E m \in queue :
    /\ \A n \in queue : m <= n
    /\ queue' = queue \ {m}
    /\ delivered' = Append(delivered, m)
    /\ UNCHANGED offered

Lose ==
  /\ queue' \in SUBSET queue
  /\ UNCHANGED <<offered, delivered>>

Next == Offer \/ Deliver \/ Lose

Spec == Init /\ [][Next]_vars
=============================================================================
