--------------------------- MODULE MCImgprcQueue ---------------------------
(* ImgprcQueue on small instances. *)
EXTENDS ImgprcQueue, TLC

Symmetry == Permutations(Workers) \cup Permutations(Senders)

\* No picture; one, without a path or of the side; two, the first being the top view.
SomeMessages == {[images |-> 0, paths |-> 0, top |-> FALSE],
                 [images |-> 1, paths |-> 0, top |-> TRUE],
                 [images |-> 1, paths |-> 1, top |-> FALSE],
                 [images |-> 2, paths |-> 2, top |-> FALSE]}

TwoPictures == {[images |-> 2, paths |-> 2, top |-> FALSE]}

\* Two pictures announced, one path.
PathMissing == {[images |-> 2, paths |-> 1, top |-> FALSE]}
=============================================================================
