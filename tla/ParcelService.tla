--------------------------- MODULE ParcelService ----------------------------
(***************************************************************************)
(* What the OCR program promises the image server, without its threads,    *)
(* its pool or its queues: the images of a request are finished one by one *)
(* in any order; when all of them are, and not before, the request gets    *)
(* one reply, which is sent or, without a connection, lost.                *)
(***************************************************************************)
EXTENDS Integers

CONSTANTS Requests,   \* the requests that may come
          MaxImages   \* the most images a request has

VARIABLES images,     \* the number of images of a request; 0 before it comes
          finished,   \* the images of a request that are finished
          outcome     \* what became of the reply to a request

vars == <<images, finished, outcome>>

ImagesOf(r) == 0..(images[r] - 1)

Init ==
  /\ images = [r \in Requests |-> 0]
  /\ finished = [r \in Requests |-> {}]
  /\ outcome = [r \in Requests |-> "none"]

Receive(r) ==
  /\ images[r] = 0
  /\ \E n \in 1..MaxImages : images' = [images EXCEPT ![r] = n]
  /\ UNCHANGED <<finished, outcome>>

Finish(r) ==
  /\ \E i \in ImagesOf(r) \ finished[r] : finished' = [finished EXCEPT ![r] = @ \cup {i}]
  /\ UNCHANGED <<images, outcome>>

Reply(r) ==
  /\ images[r] > 0
  /\ finished[r] = ImagesOf(r)
  /\ outcome[r] = "none"
  /\ \E o \in {"sent", "lost"} : outcome' = [outcome EXCEPT ![r] = o]
  /\ UNCHANGED <<images, finished>>

Next == \E r \in Requests : Receive(r) \/ Finish(r) \/ Reply(r)

Spec == Init /\ [][Next]_vars
=============================================================================
