---------------------------- MODULE NewestMessages ----------------------------
(***************************************************************************)
(* What the ring of received messages promises: a queue that never refuses *)
(* a message.  When it is full it gives up its oldest one, and only then;  *)
(* the rest come out in the order they went in, each of them once.         *)
(***************************************************************************)
EXTENDS Naturals, Sequences

CONSTANT Capacity   \* how many messages it holds

VARIABLES queue,    \* the messages that can still be taken
          taken,    \* the messages taken
          dropped   \* how many were given up

vars == <<queue, taken, dropped>>

Init == queue = << >> /\ taken = << >> /\ dropped = 0

Push ==
  /\ queue' # << >>
  /\ LET m == queue'[Len(queue')]
     IN IF Len(queue) = Capacity
        THEN queue' = Append(Tail(queue), m) /\ dropped' = dropped + 1
        ELSE queue' = Append(queue, m) /\ UNCHANGED dropped
  /\ UNCHANGED taken

Take ==
  /\ queue # << >>
  /\ taken' = Append(taken, Head(queue))
  /\ queue' = Tail(queue)
  /\ UNCHANGED dropped

Next == Push \/ Take

Spec == Init /\ [][Next]_vars
=============================================================================
