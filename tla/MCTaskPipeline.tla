--------------------------- MODULE MCTaskPipeline ---------------------------
(* TaskPipeline on small instances. *)
EXTENDS TaskPipeline, TLC

\* The postcodes and the detectors are interchangeable.
Symmetry == Permutations(Postcodes) \cup Permutations(Detectors)

\* Requests whose image number and path list agree.
PlainMessages == {[images |-> n, paths |-> n] : n \in 1..MaxImages}

\* Only the longest: for the merge.
LongMessages == {[images |-> MaxImages, paths |-> MaxImages]}

\* Also an empty request, and image numbers that disagree with the path list.
AllMessages == {[images |-> 0, paths |-> 0], [images |-> 1, paths |-> 1],
                [images |-> 1, paths |-> 2], [images |-> 2, paths |-> 1]}

AllKinds == {"STD", "WIN", "ARB", "HDW"}
NoArb == {"STD", "WIN", "HDW"}

\* What the detector finds: nothing or an arbitrary tag; tags of every standing; a
\* window tag, with or without another one.
FewTags == {{}, {"ARB"}}
MergeTags == {{"STD"}, {"ARB"}, {"LOT"}, {"HDW"}, {"HDW", "WIN"}}
WindowOnly == {{"WIN"}}
LiveTags == {{"WIN", "ARB"}}
=============================================================================
