------------------------------- MODULE TagBoxes -------------------------------
(***************************************************************************)
(* The choice among the boxes a tag detector finds (TagDetector): boxes of *)
(* one class that overlap too much are taken for the same tag, and only    *)
(* the first of them is kept.                                              *)
(***************************************************************************)
EXTENDS Integers, SequencesExt

CONSTANTS Place,           \* where a box may lie
          Class,           \* the classes of tags, numbers
          Overlaps(_, _)   \* the boxes at two places overlap by more than the threshold

ASSUME TagBoxesAssumption ==
  /\ Class \subseteq Nat
  /\ \A p, q \in Place : Overlaps(p, q) \in BOOLEAN /\ Overlaps(p, q) = Overlaps(q, p)

Box == [at : Place, cls : Class]

\* Every box takes away those behind it that overlap it.
nms_rotated_rect(boxes) ==
  LET keep(kept, box) ==
        IF \E k \in ToSet(kept) : Overlaps(k.at, box.at) THEN kept ELSE Append(kept, box)
  IN FoldLeft(keep, <<>>, boxes)

\* The orders the sort by class may leave: it is not stable.
SortedByClass(boxes) ==
  LET order == {p \in [DOMAIN boxes -> DOMAIN boxes] : ToSet(p) = DOMAIN boxes}
  IN {s \in {[i \in DOMAIN boxes |-> boxes[p[i]]] : p \in order} :
        \A i \in 2..Len(s) : s[i - 1].cls >= s[i].cls}

\* Mutant: the group of a class is taken one box short.
GroupShort(boxes, i, same) == SubSeq(boxes, i - same, i - 1)

\* The boxes of one class in front of position i, same being one less than their number.
Group(boxes, i, same) == SubSeq(boxes, i - same - 1, i - 1)

\* The group in front of position i ends, and the one of the box there begins.
EndGroup(boxes, was, i) ==
  LET rest == IF was.same = 0 THEN <<boxes[i - 1]>>
              ELSE nms_rotated_rect(Group(boxes, i, was.same))
  IN [rects |-> was.rects \o rest,
      class_ids |-> was.class_ids \o [j \in DOMAIN rest |-> was.cls],
      same |-> 0,
      cls |-> IF i > Len(boxes) THEN was.cls ELSE boxes[i].cls]

\* The loop over the sorted boxes; cls is the class of the group being counted, and the
\* end of the boxes ends a group as another class does.
MergeGroups(boxes) ==
  LET loop[i \in 1..(Len(boxes) + 1)] ==
        IF i = 1 THEN [rects |-> <<>>, class_ids |-> <<>>, same |-> 0, cls |-> boxes[1].cls]
        ELSE IF i > Len(boxes) \/ boxes[i].cls # loop[i - 1].cls
             THEN EndGroup(boxes, loop[i - 1], i)
             ELSE [loop[i - 1] EXCEPT !.same = @ + 1]
      end == loop[Len(boxes) + 1]
  IN [rects |-> end.rects, class_ids |-> end.class_ids]

\* What may be left of the boxes.
nms_multi_class(boxes) ==
  IF Len(boxes) <= 1 THEN {[rects |-> boxes, class_ids |-> [i \in DOMAIN boxes |-> boxes[i].cls]]}
  ELSE {MergeGroups(s) : s \in SortedByClass(boxes)}
=============================================================================
