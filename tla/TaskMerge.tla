----------------------------- MODULE TaskMerge ------------------------------
(***************************************************************************)
(* How the phase-2 main program (OCR_MainWoker) combines the results of    *)
(* the images of one parcel and turns the result into a reply: pure        *)
(* operators on TaskData records.                                          *)
(*                                                                         *)
(* A TaskData record keeps the fields that decide the reply:               *)
(*   img    pSrcMat is set: the image was loaded                           *)
(*   tags   the kinds of tag the detector found (m_is_get_..._tag)         *)
(*   num    m_postcodeNum           kind   m_postcode_of_tag_type          *)
(*   codes  m_chsOcrPostcode, as the sequence its ';' separates            *)
(*   index  m_PostcodeIndextImage                                          *)
(***************************************************************************)
EXTENDS Integers, Sequences

CONSTANT UseStrictMode    \* m_param.use_strict_mode

ASSUME StrictAssumption == UseStrictMode \in BOOLEAN

\* enum TAG_INDEX
Kinds == {"STD", "ARB", "HDW", "WIN", "LOT"}

\* The order in which _merge_tasks tries the kinds; it has no case for LOT.
MergeRank == [STD |-> 1, WIN |-> 2, ARB |-> 3, HDW |-> 4]

\* After the window tags strict mode gives up.
MergedKinds == IF UseStrictMode THEN {"STD", "WIN"} ELSE DOMAIN MergeRank

\* `new TaskData()'
BlankData == [img |-> FALSE, tags |-> {}, num |-> 0, kind |-> "STD",
              codes |-> <<>>, index |-> 0]

\* The tasks of S that count in the merge.
Candidates(S, data) == {p \in S : data[p].num # 0 /\ data[p].kind \in MergedKinds}

\* Those of the kind that is merged: the first kind that has any.
Leaders(S, data) ==
  {p \in Candidates(S, data) :
     \A q \in Candidates(S, data) : MergeRank[data[p].kind] <= MergeRank[data[q].kind]}

\* p is the first of S in the pool, whose order is pos.
IsFirstOf(p, S, pos) == p \in S /\ \A q \in S : pos[p] <= pos[q]

\* Mutant: only the first two images of the group are compared.
MergedDataPair(p, G, data, pos, sub) ==
  LET others == {q \in G : data[q].codes # data[p].codes /\ pos[q] = pos[p] + 1}
      tagged == [data[p] EXCEPT !.index = sub]
  IN  IF others = {}
      THEN tagged
      ELSE LET q == CHOOSE q \in others : IsFirstOf(q, others, pos)
           IN  [tagged EXCEPT !.codes = @ \o data[q].codes, !.num = @ + 1]

\* merge_same_type_task: the record of task p, the first of the group G, after the
\* merge: the first different postcode is added and ends the loop.
MergedData(p, G, data, pos, sub) ==
  LET others == {q \in G : data[q].codes # data[p].codes}
      tagged == [data[p] EXCEPT !.index = sub]
  IN  IF others = {}
      THEN tagged
      ELSE LET q == CHOOSE q \in others : IsFirstOf(q, others, pos)
           IN  [tagged EXCEPT !.codes = @ \o data[q].codes, !.num = @ + 1]

\* _convert_task2msg: result codes 1 (one postcode), 11 (no image), 12 (no postcode),
\* 13 (several postcodes); the image index is only sent with result 1.
ResultCode(d) == CASE d.num = 1 -> 1
                   [] d.num > 1 -> 13
                   [] d.num = 0 /\ d.img -> 12
                   [] d.num = 0 /\ ~d.img -> 11

Reply(r, d) == [req |-> r, res |-> ResultCode(d),
                index |-> IF ResultCode(d) = 1 THEN d.index ELSE 0,
                codes |-> d.codes]

=============================================================================
