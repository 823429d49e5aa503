------------------------ MODULE TaskPipelineReplies ------------------------
(***************************************************************************)
(* What the replies of TaskPipeline say: a reply reports what OCR read on  *)
(* the images of its request, and the operator's images get no more        *)
(* replies than there are images. For every number of requests, images and *)
(* threads, every set of postcodes and tags, and both values of            *)
(* use_strict_mode.                                                        *)
(***************************************************************************)
EXTENDS TaskPipelineProofs

USE DEF Req, Requests

-----------------------------------------------------------------------------
(* The inductive invariant for what a reply says. Until its request is     *)
(* merged, a task's record says what was read on its image; the merged     *)
(* record makes a reply that reports all that was read, and nothing is     *)
(* read on a request any more once it is merged.                           *)

\* The package thread has merged the tasks of a request into p and not passed it on yet.
Merged(p) == pc["package"] = "erase" /\ hold["package"] = p

\* The record of a task that waits for its merge says what was read on its image.
Recorded(p) ==
  /\ data[p].index = 0
  /\ reads[p] = NoRead => data[p].num = 0
  /\ reads[p] # NoRead => /\ data[p].num = 1
                          /\ data[p].kind = reads[p][1]
                          /\ data[p].codes = <<reads[p][2]>>

\* The tasks of requests that wait for their merge.
Unmerged == {p \in Tasks : /\ Req(p) # 0
                           /\ st[p] \notin {"NONE", "SEND_TASK"}
                           /\ ~Merged(p)}

RecordsOK == \A p \in Unmerged : Recorded(p)

\* What was read was read on an image of a request that has come.
ReadsOK ==
  \A p \in Tasks : Req(p) # 0 /\ reads[p] # NoRead =>
    Pushed(p) /\ p[2] < total[Req(p)]

\* The tasks of a request are in the pool in the order of its images.
OrderOK ==
  /\ \A p \in Tasks : st[p] # "NONE" => pos[p] <= pushed
  /\ \A p, q \in Tasks :
       /\ Req(p) # 0 /\ Req(q) = Req(p) /\ p[2] < q[2]
       /\ st[p] # "NONE" /\ st[q] # "NONE"
       => pos[p] < pos[q]

\* The record of a merged task makes a reply that reports what was read.
MergedReports ==
  \A p \in Tasks :
    Req(p) # 0 /\ (st[p] = "SEND_TASK" \/ Merged(p)) =>
      Reports(ReadOf(Req(p)), Reply(Req(p), data[p]))

\* The reply was made from the record the send thread still has.
SentOK ==
  pc["send"] = "erase" => sent = Reply(Req(hold["send"]), data[hold["send"]])

\* The invariant.
ReadInv == WholeInv /\ RecordsOK /\ ReadsOK /\ OrderOK /\ MergedReports /\ SentOK

\* ReadInv holds at the start.
LEMMA ReadInit == Init => ReadInv
<1> SUFFICES ASSUME Init
             PROVE  ReadInv
  OBVIOUS
<1>1. WholeInv
  BY WholeInit
<1>2. /\ \A p \in Tasks : st[p] = "NONE" /\ reads[p] = NoRead
      /\ pc["package"] # "erase" /\ pc["send"] # "erase"
  BY LastThreads DEF Init
<1> QED
  BY <1>1, <1>2 DEF ReadInv, RecordsOK, Unmerged, ReadsOK, OrderOK, MergedReports, Merged,
                    SentOK

\* Nobody but the package and the send thread works on a task of a merged request.
LEMMA MergedAlone ==
  ASSUME WholeInv, NEW t \in Threads, t # "package", t # "send", pc[t] = "work",
         NEW p \in Tasks, Req(p) # 0, st[p] = "SEND_TASK" \/ Merged(p)
  PROVE  Req(hold[t]) # Req(p)
<1>0. WorkInv /\ TypeOK
  BY DEF WholeInv, WorkInv
<1>1. hold[t] \in Owned(t) /\ hold[t] \in Tasks
  BY <1>0 DEF Owned, Busy, TypeOK
<1>2. st[hold[t]] \notin {"NONE", "SEND_TASK"}
  BY <1>0, <1>1, ClaimedStates DEF WorkInv, OwnedStaysInStage
<1>3. CASE st[p] = "SEND_TASK"
  BY <1>1, <1>2, <1>3 DEF WholeInv, PackagedWhole, InState
<1>4. CASE Merged(p)
  <2>1. pc["package"] = "erase" /\ hold["package"] = p
    BY <1>4 DEF Merged
  <2>2. OnlyLeft(Req(p), stem \cup {p})
    BY <2>1 DEF WholeInv, MergedOK
  <2>3. Owned("package") = stem \cup {p}
    BY <2>1 DEF Owned, Busy
  <2>4. hold[t] \notin Owned("package")
    BY <1>0, <1>1, LastThreads DEF WorkInv, ExclusiveWork
  <2> QED
    BY <1>1, <1>2, <2>2, <2>3, <2>4 DEF OnlyLeft
<1> QED
  BY <1>3, <1>4

\* What was read of a request depends on its tasks only.
LEMMA ReadOfKept ==
  ASSUME NEW r, \A q \in Tasks : Req(q) = r => reads'[q] = reads[q]
  PROVE  ReadOf(r)' = ReadOf(r)
BY DEF ReadOf

\* Nothing was read beyond the images that have come.
LEMMA ReadsKept ==
  ASSUME ReadInv, [Next]_vars,
         \A q \in Tasks : Req(q) # 0 /\ reads'[q] # reads[q] =>
           reads'[q] = NoRead \/ (Pushed(q) /\ q[2] < total[Req(q)])
  PROVE  ReadsOK'
<1>1. ASSUME NEW q \in Tasks, Req(q) # 0, reads'[q] # NoRead
      PROVE  Pushed(q)' /\ q[2] < total'[Req(q)]
  <2>1. Pushed(q) /\ q[2] < total[Req(q)]
    BY <1>1 DEF ReadInv, ReadsOK
  <2> QED
    BY <1>1, <2>1, PushedKept DEF ReadInv, WholeInv, WorkInv
<1> QED
  BY <1>1 DEF ReadsOK

\* Tasks that stay in the pool stay in their order.
LEMMA OrderKept ==
  ASSUME OrderOK, pushed' = pushed,
         \A p \in Tasks : st'[p] # "NONE" => st[p] # "NONE" /\ pos'[p] = pos[p]
  PROVE  OrderOK'
BY DEF OrderOK

\* A step that merges nothing and reads nothing on merged requests.
LEMMA MergedKept ==
  ASSUME MergedReports,
         \A p \in Tasks : Req(p) # 0 /\ (st'[p] = "SEND_TASK" \/ Merged(p)') =>
           /\ st[p] = "SEND_TASK" \/ Merged(p)
           /\ data'[p] = data[p]
           /\ \A q \in Tasks : Req(q) = Req(p) => reads'[q] = reads[q]
  PROVE  MergedReports'
<1>1. ASSUME NEW p \in Tasks, Req(p) # 0, st'[p] = "SEND_TASK" \/ Merged(p)'
      PROVE  Reports(ReadOf(Req(p))', Reply(Req(p), data'[p]))
  <2>1. st[p] = "SEND_TASK" \/ Merged(p)
    BY <1>1
  <2>2. data'[p] = data[p]
    BY <1>1
  <2>3. ReadOf(Req(p))' = ReadOf(Req(p))
    BY <1>1, ReadOfKept
  <2> QED
    BY <1>1, <2>1, <2>2, <2>3 DEF MergedReports
<1> QED
  BY <1>1 DEF MergedReports, Reports, Reply, ResultCode

\* A thread that finishes a task, with or without a postcode.
LEMMA FinishReads ==
  ASSUME ReadInv, [Next]_vars, NEW t \in Threads, t # "package", t # "send",
         pc[t] = "work", NEW s, s # "SEND_TASK", NEW d, FinishTask(t, s, d),
         NEW h \in Tasks, h = hold[t],
         \A q \in Tasks : q # h => reads'[q] = reads[q],
         Req(h) # 0 /\ Recorded(h) => Recorded(h)'
  PROVE  ReadInv'
<1>0. WholeInv /\ WorkInv /\ TypeOK
  BY DEF ReadInv, WholeInv, WorkInv
<1>1. /\ st' = [st EXCEPT ![h] = IF @ = "NONE" THEN "NONE" ELSE s]
      /\ data' = [data EXCEPT ![h] = d]
      /\ pc' = [pc EXCEPT ![t] = "acquire"]
      /\ hold' = [hold EXCEPT ![t] = NoTask]
      /\ UNCHANGED <<pos, pushed, sent>>
  BY DEF FinishTask, UpdateOneTask, Release, replyVars
<1>2. /\ \A u \in {"package", "send"} : pc'[u] = pc[u] /\ hold'[u] = hold[u]
      /\ \A p \in Tasks : Merged(p)' <=> Merged(p)
  BY <1>0, <1>1, LastThreads DEF TypeOK, Merged
<1>3. /\ \A p \in Tasks : st'[p] # "NONE" => st[p] # "NONE"
      /\ \A p \in Tasks : st'[p] = "SEND_TASK" => p # h /\ st[p] = "SEND_TASK"
      /\ \A p \in Tasks : p # h => st'[p] = st[p] /\ data'[p] = data[p]
  BY <1>0, <1>1 DEF TypeOK
<1>4. h \in Owned(t) /\ st[h] \notin {"NONE", "SEND_TASK"}
  BY <1>0, ClaimedStates DEF Owned, Busy, WorkInv, OwnedStaysInStage
<1>5. ~Merged(h)
  BY <1>0, <1>4, LastThreads DEF Merged, Owned, Busy, WorkInv, ExclusiveWork
<1>6. WholeInv'
  BY <1>0, WholeStep
<1>7. RecordsOK'
  <2>1. ASSUME NEW p \in Unmerged'
        PROVE  Recorded(p)'
    <3>1. p \in Tasks /\ Req(p) # 0
      BY DEF Unmerged
    <3>2. CASE p = h
      <4>1. Recorded(h)
        BY <1>4, <1>5, <3>1, <3>2 DEF ReadInv, RecordsOK, Unmerged
      <4> QED
        BY <3>1, <3>2, <4>1
    <3>3. CASE p # h
      <4>1. p \in Unmerged
        BY <1>2, <1>3, <3>3 DEF Unmerged
      <4> QED
        BY <1>3, <3>1, <3>3, <4>1 DEF ReadInv, RecordsOK, Recorded
    <3> QED
      BY <3>2, <3>3
  <2> QED
    BY <2>1 DEF RecordsOK
<1>8. ReadsOK'
  <2>1. Req(h) # 0 => Pushed(h) /\ h[2] < total[Req(h)]
    BY <1>0, <1>4 DEF WorkInv, PoolOK
  <2> QED
    BY <2>1, ReadsKept
<1>9. OrderOK'
  BY <1>1, <1>3, OrderKept DEF ReadInv
<1>10. MergedReports'
  <2>1. ASSUME NEW p \in Tasks, Req(p) # 0, st'[p] = "SEND_TASK" \/ Merged(p)'
        PROVE  /\ st[p] = "SEND_TASK" \/ Merged(p)
               /\ data'[p] = data[p]
               /\ \A q \in Tasks : Req(q) = Req(p) => reads'[q] = reads[q]
    <3>1. st[p] = "SEND_TASK" \/ Merged(p)
      BY <1>2, <1>3, <2>1
    <3>2. Req(h) # Req(p)
      BY <1>0, <2>1, <3>1, MergedAlone
    <3> QED
      BY <1>3, <3>1, <3>2
  <2> QED
    BY <2>1, MergedKept DEF ReadInv
<1>11. SentOK'
  <2>1. pc["send"] = "erase" => hold["send"] # h /\ hold["send"] \in Tasks
    BY <1>0, <1>4, LastThreads DEF Owned, Busy, WorkInv, ExclusiveWork, TypeOK
  <2> QED
    BY <1>1, <1>2, <1>3, <2>1 DEF ReadInv, SentOK
<1> QED
  BY <1>6, <1>7, <1>8, <1>9, <1>10, <1>11 DEF ReadInv

\* The triple that ReadOf has for a task on which a postcode was read.
ReadOn(p) == <<Sub(p), reads[p][1], reads[p][2]>>

\* A recorded task and what was read on its image.
LEMMA RecordedRead ==
  ASSUME TypeOK, NEW p \in Tasks, Recorded(p)
  PROVE  /\ data[p].num # 0 <=> reads[p] # NoRead
         /\ reads[p] # NoRead => /\ data[p].num = 1
                                 /\ ReadOn(p) = <<Sub(p), data[p].kind, reads[p][2]>>
                                 /\ data[p].codes = <<reads[p][2]>>
                                 /\ data[p].kind \in Kinds
<1>1. data[p] \in DataRecords
  BY DEF TypeOK
<1> QED
  BY <1>1 DEF Recorded, ReadOn, DataRecords

\* If a postcode counts, some task leads the merge.
LEMMA LeadersExist ==
  ASSUME NEW S, NEW c \in Candidates(S, data)
  PROVE  Leaders(S, data) # {}
<1> DEFINE C == Candidates(S, data)
           f == [q \in C |-> MergeRank[data[q].kind]]
<1>1. f \in [C -> Nat]
  <2>1. ASSUME NEW q \in C
        PROVE  MergeRank[data[q].kind] \in Nat
    BY DEF Candidates, MergedKinds, MergeRank
  <2> QED
    BY <2>1
<1>2. PICK q \in C : \A y \in C : f[q] <= f[y]
  <2> HIDE DEF f
  <2>1. C \subseteq C /\ C # {}
    OBVIOUS
  <2> QED
    BY ONLY <1>1, <2>1, LeastValue
<1> QED
  BY <1>2 DEF Leaders

\* The reply of a task that stands for its request as it is, or of a merged one.
LEMMA ReplyResult ==
  ASSUME NEW r, NEW d \in DataRecords
  PROVE  /\ Reply(r, d).codes = d.codes
         /\ d.num = 1 => Reply(r, d).res = 1 /\ Reply(r, d).index = d.index
         /\ d.num = 2 => Reply(r, d).res = 13
         /\ d.num = 0 => Reply(r, d).res \in {11, 12}
<1>1. /\ d.num = 1 => ResultCode(d) = 1
      /\ d.num = 2 => ResultCode(d) = 13
      /\ d.num = 0 => ResultCode(d) \in {11, 12}
  BY DEF ResultCode, DataRecords
<1> QED
  BY <1>1 DEF Reply

\* The merged record of a group of recorded tasks reports what was read on their images.
LEMMA MergeReports ==
  ASSUME TypeOK, NEW r \in Requests, NEW S \in SUBSET Tasks,
         \A q \in S : Req(q) = r /\ Recorded(q),
         \A q \in Tasks : Req(q) = r /\ reads[q] # NoRead => q \in S,
         \A p, q \in S : p[2] < q[2] => pos[p] < pos[q],
         NEW p0 \in S, Sub(p0) = 0,
         NEW m, NEW G, G = Leaders(S, data),
         IsFirstOf(m, IF G = {} THEN S ELSE G, pos)
  PROVE  Reports(ReadOf(r),
                 Reply(r, IF G = {} THEN data[m]
                          ELSE MergedData(m, G, data, pos, Sub(m))))
<1> DEFINE R == ReadOf(r)
           counted == {x \in R : x[2] \in MergedKinds}
           best == Best(R)
<1>0. /\ \A q \in S : q[2] \in Nat /\ Sub(q) = q[2] /\ pos[q] \in Nat
      /\ r # 0
  BY TaskName DEF Sub, TypeOK
<1>1. R = {ReadOn(q) : q \in {q \in S : reads[q] # NoRead}}
  BY DEF ReadOf, ReadOn
<1>2. \A q \in S : /\ data[q].num # 0 <=> reads[q] # NoRead
                   /\ reads[q] # NoRead => /\ data[q].num = 1
                                           /\ ReadOn(q)[1] = Sub(q)
                                           /\ ReadOn(q)[2] = data[q].kind
                                           /\ ReadOn(q)[3] = reads[q][2]
                                           /\ data[q].codes = <<reads[q][2]>>
                                           /\ data[q].kind \in Kinds
  BY RecordedRead DEF ReadOn
<1>3. counted = {ReadOn(q) : q \in Candidates(S, data)}
  BY <1>1, <1>2 DEF Candidates
<1>4. G \subseteq Candidates(S, data) /\ Candidates(S, data) \subseteq S
  BY DEF Leaders, Candidates
<1>5. \A q \in Candidates(S, data) : reads[q] # NoRead /\ ReadOn(q)[2] = data[q].kind
  BY <1>2, <1>4 DEF Candidates
<1>6. best = {ReadOn(q) : q \in G}
  <2>0. best = {x \in counted : \A y \in counted : MergeRank[x[2]] <= MergeRank[y[2]]}
    BY DEF Best
  <2>1. ASSUME NEW q \in Candidates(S, data)
        PROVE  q \in G <=> \A y \in counted : MergeRank[ReadOn(q)[2]] <= MergeRank[y[2]]
    BY <1>3, <1>5 DEF Leaders
  <2>2. \A x \in best : \E q \in Candidates(S, data) : x = ReadOn(q)
    BY <1>3, <2>0
  <2>3. \A x \in best : \E q \in G : x = ReadOn(q)
    BY <2>0, <2>1, <2>2
  <2>4. \A q \in G : ReadOn(q) \in best
    BY <1>3, <1>4, <2>0, <2>1
  <2> QED
    BY <2>3, <2>4
<1>7. CASE G = {}
  <2>1. m \in S /\ \A q \in S : pos[m] <= pos[q]
    BY <1>7 DEF IsFirstOf
  <2>2. Sub(m) = 0
    <3>1. ~(p0[2] < m[2])
      BY <1>0, <2>1
    <3> QED
      BY <1>0, <2>1, <3>1
  <2>3. Candidates(S, data) = {} /\ counted = {} /\ best = {}
    BY <1>3, <1>6, <1>7, LeadersExist
  <2>4. data[m] \in DataRecords
    BY <2>1 DEF TypeOK
  <2>5. CASE reads[m] = NoRead
    <3>1. Reply(r, data[m]).res \in {11, 12}
      BY <1>2, <2>1, <2>4, <2>5, ReplyResult DEF DataRecords
    <3>2. ASSUME NEW q \in S, Sub(q) = 0
          PROVE  q = m
      <4>1. q = <<r, q[2]>> /\ m = <<r, m[2]>>
        BY <1>0, <2>1 DEF Tasks, DebugTasks
      <4> QED
        BY <1>0, <2>1, <2>2, <3>2, <4>1
    <3>3. \A x \in R : x[1] # 0
      BY <1>1, <1>2, <2>5, <3>2
    <3> QED
      BY <1>7, <2>3, <3>1, <3>3 DEF Reports
  <2>6. CASE reads[m] # NoRead
    <3>1. /\ Reply(r, data[m]).res = 1
          /\ Reply(r, data[m]).codes[1] = reads[m][2]
      BY <1>2, <2>1, <2>4, <2>6, ReplyResult
    <3>2. ReadOn(m) = <<0, data[m].kind, reads[m][2]>> /\ ReadOn(m) \in R
      BY <1>1, <2>1, <2>2, <2>6, RecordedRead
    <3>3. data[m].kind \in Kinds \ MergedKinds
      BY <1>2, <2>1, <2>3, <2>6 DEF Candidates
    <3> QED
      BY <1>7, <2>3, <3>1, <3>2, <3>3 DEF Reports
  <2> QED
    BY <2>5, <2>6
<1>8. CASE G # {}
  <2> DEFINE others == {q \in G : data[q].codes # data[m].codes}
             d == MergedData(m, G, data, pos, Sub(m))
             c == reads[m][2]
  <2>1. m \in G /\ m \in S /\ m \in Tasks
    BY <1>4, <1>8 DEF IsFirstOf
  <2>2. \A q \in G : /\ q \in S /\ reads[q] # NoRead /\ ReadOn(q)[3] = reads[q][2]
                      /\ ReadOn(q)[1] = Sub(q)
                      /\ data[q].codes = <<reads[q][2]>> /\ data[q].num = 1
    BY <1>2, <1>4, <1>5
  <2>3. ReadOn(m) \in best
    BY <1>6, <2>1
  <2>4. d \in DataRecords
    BY <1>0, <1>4, <2>1, MergedDataType DEF TypeOK
  <2>5. data[m] \in DataRecords
    BY <2>1 DEF TypeOK
  <2>6. CASE others = {}
    <3>1. d = [data[m] EXCEPT !.index = Sub(m)]
      BY <2>6 DEF MergedData
    <3>2. d.num = 1 /\ d.index = Sub(m) /\ d.codes = <<c>>
      BY <2>1, <2>2, <2>5, <3>1 DEF DataRecords
    <3> HIDE DEF d
    <3>3. /\ Reply(r, d).res = 1 /\ Reply(r, d).index = Sub(m)
          /\ Reply(r, d).codes[1] = c
      BY <2>4, <3>2, ReplyResult
    <3>4. {x[3] : x \in best} = {c}
      <4>1. \A q \in G : ReadOn(q)[3] = c
        BY <2>1, <2>2, <2>6
      <4>2. \A x \in best : x[3] = c
        BY <1>6, <4>1
      <4> QED
        BY <2>3, <4>2
    <3>5. ReadOn(m)[1] = Sub(m)
      BY <2>1, <2>2
    <3> HIDE DEF best, c, R
    <3>6. Reports(R, Reply(r, d))
      BY <2>3, <3>3, <3>4, <3>5 DEF Reports, best
    <3> QED
      BY <1>8, <3>6 DEF R, d
  <2>7. CASE others # {}
    <3> DEFINE tagged == [data[m] EXCEPT !.index = Sub(m)]
    <3>1. PICK q \in others : d = [tagged EXCEPT !.codes = @ \o data[q].codes, !.num = @ + 1]
      <4>1. others \in SUBSET Tasks
        BY <1>4
      <4>2. \E x \in others : IsFirstOf(x, others, pos)
        BY ONLY <2>7, <4>1, FirstExists, TypeOK DEF TypeOK
      <4>3. (CHOOSE q \in others : IsFirstOf(q, others, pos)) \in others
        BY <4>2
      <4> QED
        BY <2>7, <4>3 DEF MergedData
    <3> DEFINE e == reads[q][2]
    <3>2. /\ q \in G /\ q \in S /\ ReadOn(q) \in best /\ ReadOn(q)[3] = e
          /\ data[q].codes = <<e>> /\ e # c
      BY <1>6, <2>1, <2>2, <3>1
    <3>3. c \in Postcodes /\ e \in Postcodes
      BY <2>1, <2>2, <3>2, NullAssumption DEF TypeOK
    <3>4. tagged \in DataRecords /\ tagged.num = 1 /\ tagged.codes = <<c>>
      BY <2>1, <2>2, <2>5, <1>0 DEF DataRecords
    <3> HIDE DEF tagged, e, c, best, R
    <3>5. d.num = 2 /\ d.codes = <<c>> \o <<e>>
      BY <3>1, <3>2, <3>4 DEF DataRecords
    <3>6. (<<c>> \o <<e>>)[1] = c /\ (<<c>> \o <<e>>)[2] = e
      BY <3>3
    <3> HIDE DEF d
    <3>7. /\ Reply(r, d).res = 13
          /\ Reply(r, d).codes[1] = c /\ Reply(r, d).codes[2] = e
      BY <2>4, <3>5, <3>6, ReplyResult
    <3>8. ReadOn(m)[3] = c
      BY <2>1, <2>2 DEF c
    <3>9. Reports(R, Reply(r, d))
      BY <2>3, <3>2, <3>7, <3>8 DEF Reports, best
    <3> QED
      BY <1>8, <3>9 DEF R, d
  <2> QED
    BY <2>6, <2>7
<1> QED
  BY <1>7, <1>8

\* A step that moves tasks between stages or erases them.
LEMMA QuietReads ==
  ASSUME ReadInv, [Next]_vars, UNCHANGED <<pushed, sent, reads>>,
         \A p \in Tasks : st'[p] # "NONE" =>
           st[p] # "NONE" /\ data'[p] = data[p] /\ pos'[p] = pos[p],
         \A p \in Tasks : st'[p] # "NONE" => (st'[p] = "SEND_TASK" <=> st[p] = "SEND_TASK"),
         \A p \in Tasks : Merged(p)' <=> Merged(p),
         pc'["send"] = "erase" => pc["send"] = "erase" /\ hold'["send"] = hold["send"],
         pc["send"] = "erase" => data'[hold["send"]] = data[hold["send"]]
  PROVE  ReadInv'
<1>0. WholeInv /\ WorkInv /\ TypeOK
  BY DEF ReadInv, WholeInv, WorkInv
<1>1. WholeInv'
  BY <1>0, WholeStep
<1>2. RecordsOK'
  <2>1. ASSUME NEW p \in Unmerged'
        PROVE  Recorded(p)'
    <3>1. p \in Unmerged /\ data'[p] = data[p] /\ reads'[p] = reads[p]
      BY DEF Unmerged
    <3> QED
      BY <3>1 DEF ReadInv, RecordsOK, Recorded
  <2> QED
    BY <2>1 DEF RecordsOK
<1>3. ReadsOK'
  BY ReadsKept
<1>4. OrderOK'
  BY OrderKept DEF ReadInv
<1>5. ASSUME NEW p \in Tasks, Req(p) # 0, Merged(p)
      PROVE  st'[p] # "NONE"
  <2>1. Merged(p)'
    BY <1>5
  <2>2. pc'["package"] = "erase" /\ hold'["package"] = p
    BY <2>1 DEF Merged
  <2>3. p \in Owned("package")'
    BY <2>2 DEF Owned, Busy
  <2>4. st'[p] \in Claimed("package")
    BY <1>1, <2>3, LastThreads DEF WholeInv, WorkInv, OwnedStaysInStage
  <2> QED
    BY <2>4, LastThreads
<1>6. MergedReports'
  BY <1>5, MergedKept DEF ReadInv
<1>7. SentOK'
  BY DEF ReadInv, SentOK
<1> QED
  BY <1>1, <1>2, <1>3, <1>4, <1>6, <1>7 DEF ReadInv

\* Merging the tasks of a request.
LEMMA MergeReads ==
  ASSUME ReadInv, PackageMerge
  PROVE  ReadInv'
<1> DEFINE S == StemOf(hold["package"])
           G == Leaders(S, data)
<1>0. WholeInv /\ WorkInv /\ TypeOK /\ [Next]_vars
  BY LastThreads DEF ReadInv, WholeInv, WorkInv, Next, ThreadStep
<1>1. PICK m \in S : /\ IsFirstOf(m, IF G = {} THEN S ELSE G, pos)
                     /\ data' = IF G = {} THEN data
                                ELSE [data EXCEPT ![m] = MergedData(m, G, data, pos, Sub(m))]
                     /\ hold' = [hold EXCEPT !["package"] = m]
  BY DEF PackageMerge
<1>2. /\ pc["package"] = "work" /\ pc' = [pc EXCEPT !["package"] = "erase"]
      /\ UNCHANGED <<st, pos, pushed, total, recv, sent, reads>>
      /\ Cardinality(S) >= TotalOf(hold["package"])
  BY DEF PackageMerge, Working, inputVars, replyVars
<1>3. /\ hold'["package"] = m /\ pc'["package"] = "erase"
      /\ hold'["send"] = hold["send"] /\ pc'["send"] = pc["send"]
      /\ hold["package"] \in Tasks
  BY <1>0, <1>1, <1>2, LastThreads DEF TypeOK
<1>4. /\ \A q \in S : q \in Tasks /\ st[q] = "PACKAGE" /\ Req(q) = Req(m)
      /\ Req(m) = Req(hold["package"]) /\ m \in Tasks
  BY <1>1 DEF StemOf
<1>5. \A p \in Tasks : (Merged(p)' <=> p = m) /\ ~Merged(p)
  BY <1>2, <1>3 DEF Merged
<1>6. \A p \in Tasks : p # m => data'[p] = data[p]
  BY <1>0, <1>1 DEF TypeOK
<1>7. data'[m] = IF G = {} THEN data[m] ELSE MergedData(m, G, data, pos, Sub(m))
  BY <1>0, <1>1, <1>4 DEF TypeOK
<1>8. WholeInv'
  BY <1>0, WholeStep
<1>9. RecordsOK'
  <2>1. ASSUME NEW p \in Unmerged'
        PROVE  Recorded(p)'
    <3>1. p \in Unmerged /\ data'[p] = data[p] /\ reads'[p] = reads[p]
      BY <1>2, <1>5, <1>6 DEF Unmerged
    <3> QED
      BY <3>1 DEF ReadInv, RecordsOK, Recorded
  <2> QED
    BY <2>1 DEF RecordsOK
<1>10. ReadsOK'
  BY <1>0, <1>2, ReadsKept
<1>11. OrderOK'
  BY <1>2, OrderKept DEF ReadInv
<1>12. ASSUME Req(m) # 0
       PROVE  Reports(ReadOf(Req(m)), Reply(Req(m), data'[m]))
  <2> DEFINE r == Req(m)
  <2>1. r \in Requests
    BY <1>4, <1>12, TaskName
  <2>2. S = Images(r)
    BY <1>0, <1>2, <1>3, <1>4, <1>12, StemIsWhole DEF TotalOf
  <2>3. total[r] \in Nat
    BY <1>0, <2>1, BoundsAssumption DEF TypeOK
  <2>4. \A q \in S : Req(q) = r /\ Recorded(q)
    BY <1>4, <1>5, <1>12 DEF ReadInv, RecordsOK, Unmerged
  <2>5. ASSUME NEW q \in Tasks, Req(q) = r, reads[q] # NoRead
        PROVE  q \in S
    <3>1. q[2] < total[r]
      BY <1>12, <2>5 DEF ReadInv, ReadsOK
    <3>2. q = <<r, q[2]>> /\ q[2] \in Nat
      BY <1>12, <2>5, BoundsAssumption DEF Tasks, DebugTasks
    <3> QED
      BY <2>2, <2>3, <3>1, <3>2 DEF Images
  <2>6. \A p, q \in S : p[2] < q[2] => pos[p] < pos[q]
    BY <1>4, <1>12 DEF ReadInv, OrderOK
  <2>7. <<r, 0>> \in S /\ Sub(<<r, 0>>) = 0
    <3>1. m = <<r, m[2]>> /\ m[2] \in 0..(total[r] - 1)
      BY <1>1, <2>2 DEF Images
    <3> QED
      BY <1>12, <2>2, <2>3, <3>1 DEF Images, Sub
  <2>8. S \in SUBSET Tasks
    BY <1>4
  <2> HIDE DEF r, S, G
  <2>9. G = Leaders(S, data)
    BY DEF G
  <2> QED
    BY <1>0, <1>1, <1>7, <2>1, <2>4, <2>5, <2>6, <2>7, <2>8, <2>9, MergeReports DEF r
<1>13. MergedReports'
  <2>1. ASSUME NEW p \in Tasks, Req(p) # 0, st'[p] = "SEND_TASK" \/ Merged(p)'
        PROVE  Reports(ReadOf(Req(p))', Reply(Req(p), data'[p]))
    <3>1. ReadOf(Req(p))' = ReadOf(Req(p))
      BY <1>2, ReadOfKept
    <3>2. CASE p = m
      BY <1>12, <2>1, <3>1, <3>2
    <3>3. CASE p # m
      BY <1>2, <1>5, <1>6, <2>1, <3>1, <3>3 DEF ReadInv, MergedReports
    <3> QED
      BY <3>2, <3>3
  <2> QED
    BY <2>1 DEF MergedReports, Reports, Best, Reply, ResultCode
<1>14. SentOK'
  <2>1. pc["send"] = "erase" => hold["send"] # m
    <3>1. m \in Owned("package")'
      BY <1>3 DEF Owned, Busy
    <3>2. pc["send"] = "erase" => hold["send"] \in Owned("send")'
      BY <1>3 DEF Owned, Busy
    <3> QED
      BY <1>8, <3>1, <3>2, LastThreads DEF WholeInv, WorkInv, ExclusiveWork
  <2>2. pc["send"] = "erase" => hold["send"] \in Tasks
    BY <1>0, LastThreads DEF TypeOK
  <2> QED
    BY <1>2, <1>3, <1>6, <2>1, <2>2 DEF ReadInv, SentOK
<1> QED
  BY <1>8, <1>9, <1>10, <1>11, <1>13, <1>14 DEF ReadInv

\* The merged task is passed on to the send thread.
LEMMA DoneReads ==
  ASSUME ReadInv, PackageDone
  PROVE  ReadInv'
<1>0. WholeInv /\ WorkInv /\ TypeOK /\ [Next]_vars
  BY LastThreads DEF ReadInv, WholeInv, WorkInv, Next, ThreadStep
<1>1. PICK m \in Tasks : m = hold["package"] /\ pc["package"] = "erase"
  BY <1>0, LastThreads DEF PackageDone, TypeOK
<1>2. /\ UpdateOneTask(m, "SEND_TASK")
      /\ pc' = [pc EXCEPT !["package"] = "acquire"]
      /\ hold' = [hold EXCEPT !["package"] = NoTask]
      /\ UNCHANGED <<pos, pushed, data, sent, reads>>
  BY <1>1 DEF PackageDone, Release, replyVars
<1>3. \A p \in Tasks : st'[p] = IF p = m THEN IF st[m] = "NONE" THEN "NONE" ELSE "SEND_TASK"
                                ELSE st[p]
  BY <1>0, <1>2 DEF UpdateOneTask, TypeOK
<1>4. \A p \in Tasks : (Merged(p) <=> p = m) /\ ~Merged(p)'
  BY <1>0, <1>1, <1>2, LastThreads DEF Merged, TypeOK
<1>5. pc'["send"] = pc["send"] /\ hold'["send"] = hold["send"]
  BY <1>0, <1>2, LastThreads DEF TypeOK
<1>6. WholeInv'
  BY <1>0, WholeStep
<1>7. RecordsOK'
  <2>1. ASSUME NEW p \in Unmerged'
        PROVE  Recorded(p)'
    <3>1. p \in Unmerged /\ data'[p] = data[p] /\ reads'[p] = reads[p]
      BY <1>2, <1>3, <1>4 DEF Unmerged
    <3> QED
      BY <3>1 DEF ReadInv, RecordsOK, Recorded
  <2> QED
    BY <2>1 DEF RecordsOK
<1>8. ReadsOK'
  BY <1>0, <1>2, ReadsKept
<1>9. OrderOK'
  BY <1>2, <1>3, OrderKept DEF ReadInv
<1>10. MergedReports'
  BY <1>2, <1>3, <1>4, MergedKept DEF ReadInv
<1>11. SentOK'
  BY <1>2, <1>5 DEF ReadInv, SentOK
<1> QED
  BY <1>6, <1>7, <1>8, <1>9, <1>10, <1>11 DEF ReadInv

\* The reply is generated from the record of the send thread's task.
LEMMA ReplyReads ==
  ASSUME ReadInv, SendReply
  PROVE  ReadInv'
<1>0. WholeInv /\ WorkInv /\ TypeOK /\ [Next]_vars
  BY LastThreads DEF ReadInv, WholeInv, WorkInv, Next, ThreadStep
<1>1. /\ sent' = Reply(Req(hold["send"]), data[hold["send"]])
      /\ pc' = [pc EXCEPT !["send"] = "erase"]
      /\ UNCHANGED <<st, pos, pushed, data, hold, reads>>
  BY DEF SendReply, taskVars
<1>2. \A p \in Tasks : Merged(p)' <=> Merged(p)
  BY <1>0, <1>1, LastThreads DEF Merged, TypeOK
<1>3. WholeInv'
  BY <1>0, WholeStep
<1>4. RecordsOK'
  BY <1>1, <1>2 DEF ReadInv, RecordsOK, Unmerged, Recorded
<1>5. ReadsOK'
  BY <1>0, <1>1, ReadsKept
<1>6. OrderOK'
  BY <1>1, OrderKept DEF ReadInv
<1>7. MergedReports'
  BY <1>1, <1>2, MergedKept DEF ReadInv
<1>8. SentOK'
  BY <1>1 DEF SentOK, Reply, ResultCode
<1> QED
  BY <1>3, <1>4, <1>5, <1>6, <1>7, <1>8 DEF ReadInv

\* The answered task is erased, and what was read of its request is forgotten.
LEMMA EraseReads ==
  ASSUME ReadInv, SendErase
  PROVE  ReadInv'
<1>0. WholeInv /\ WorkInv /\ TypeOK /\ [Next]_vars
  BY LastThreads DEF ReadInv, WholeInv, WorkInv, Next, ThreadStep
<1>1. PICK h \in Tasks : h = hold["send"] /\ pc["send"] = "erase"
  BY <1>0, LastThreads DEF SendErase, TypeOK
<1>2. /\ st' = [st EXCEPT ![h] = "NONE"]
      /\ pos' = [pos EXCEPT ![h] = 0]
      /\ data' = [data EXCEPT ![h] = BlankData]
      /\ reads' = [q \in Tasks |-> IF Req(q) = Req(h) THEN NoRead ELSE reads[q]]
      /\ pc' = [pc EXCEPT !["send"] = "acquire"]
      /\ hold' = [hold EXCEPT !["send"] = NoTask]
      /\ UNCHANGED pushed
  BY <1>1 DEF SendErase, EraseOneTask, Release
<1>3. /\ st'[h] = "NONE"
      /\ \A p \in Tasks : p # h => /\ st'[p] = st[p] /\ pos'[p] = pos[p] /\ data'[p] = data[p]
      /\ \A p \in Tasks : Req(p) # Req(h) => reads'[p] = reads[p]
      /\ \A p \in Tasks : Req(p) = Req(h) => reads'[p] = NoRead
  BY <1>0, <1>2 DEF TypeOK
<1>4. \A p \in Tasks : Merged(p)' <=> Merged(p)
  BY <1>0, <1>2, LastThreads DEF Merged, TypeOK
<1>5. h \in Owned("send") /\ st[h] = "SEND_TASK"
  <2>1. h \in Owned("send")
    BY <1>1 DEF Owned, Busy
  <2> QED
    BY <1>0, <2>1, LastThreads DEF WorkInv, OwnedStaysInStage
<1>6. \A p \in Tasks : Req(p) # 0 /\ st'[p] # "NONE" => Req(p) # Req(h)
  BY <1>0, <1>3, <1>5 DEF WholeInv, PackagedWhole, InState
<1>7. WholeInv'
  BY <1>0, WholeStep
<1>8. RecordsOK'
  <2>1. ASSUME NEW p \in Unmerged'
        PROVE  Recorded(p)'
    <3>1. p \in Tasks /\ p # h /\ p \in Unmerged /\ reads'[p] = reads[p]
      BY <1>3, <1>4, <1>6 DEF Unmerged
    <3> QED
      BY <1>3, <3>1 DEF ReadInv, RecordsOK, Recorded
  <2> QED
    BY <2>1 DEF RecordsOK
<1>9. ReadsOK'
  BY <1>0, <1>3, ReadsKept
<1>10. OrderOK'
  BY <1>2, <1>3, OrderKept DEF ReadInv
<1>11. MergedReports'
  <2>1. ASSUME NEW p \in Tasks, Req(p) # 0, st'[p] = "SEND_TASK" \/ Merged(p)'
        PROVE  p # h /\ st'[p] # "NONE"
    <3>1. CASE st'[p] = "SEND_TASK"
      BY <1>3, <3>1
    <3>2. CASE Merged(p)'
      <4>1. p \in Owned("package")'
        BY <3>2 DEF Merged, Owned, Busy
      <4>2. st'[p] \in Claimed("package")
        BY <1>7, <4>1, LastThreads DEF WholeInv, WorkInv, OwnedStaysInStage
      <4> QED
        BY <1>3, <4>2, LastThreads
    <3> QED
      BY <2>1, <3>1, <3>2
  <2> QED
    BY <1>3, <1>4, <1>6, <2>1, MergedKept DEF ReadInv
<1>12. SentOK'
  BY <1>0, <1>2, LastThreads DEF SentOK, TypeOK
<1> QED
  BY <1>7, <1>8, <1>9, <1>10, <1>11, <1>12 DEF ReadInv

\* A task that is pushed comes last, with nothing read on it.
LEMMA StartReads ==
  ASSUME ReadInv, [Next]_vars, NEW n \in Tasks, NEW d,
         st[n] = "NONE", reads[n] = NoRead \/ Req(n) = 0, d.num = 0, d.index = 0,
         st' = [st EXCEPT ![n] = "OPEN"],
         pos' = [pos EXCEPT ![n] = pushed + 1],
         pushed' = pushed + 1,
         data' = [data EXCEPT ![n] = d],
         UNCHANGED <<pc, hold, sent, reads>>,
         \A q \in Tasks : Req(q) = Req(n) /\ Req(n) # 0 /\ st[q] # "NONE" => q[2] < n[2]
  PROVE  ReadInv'
<1>0. WholeInv /\ WorkInv /\ TypeOK
  BY DEF ReadInv, WholeInv, WorkInv
<1>1. /\ st'[n] = "OPEN" /\ pos'[n] = pushed + 1 /\ data'[n] = d
      /\ \A p \in Tasks : p # n => /\ st'[p] = st[p] /\ pos'[p] = pos[p] /\ data'[p] = data[p]
      /\ pushed \in Nat
  BY <1>0 DEF TypeOK
<1>2. \A p : Merged(p)' <=> Merged(p)
  BY DEF Merged
<1>3. \A t \in Threads : n \notin Owned(t)
  BY <1>0, ClaimedStates DEF WorkInv, OwnedStaysInStage
<1>4. ~Merged(n) /\ (pc["send"] = "erase" => hold["send"] # n /\ hold["send"] \in Tasks)
  BY <1>0, <1>3, LastThreads DEF Merged, Owned, Busy, TypeOK
<1>5. WholeInv'
  BY <1>0, WholeStep
<1>6. RecordsOK'
  <2>1. ASSUME NEW p \in Unmerged'
        PROVE  Recorded(p)'
    <3>1. p \in Tasks /\ Req(p) # 0
      BY DEF Unmerged
    <3>2. CASE p = n
      BY <1>1, <3>1, <3>2 DEF Recorded
    <3>3. CASE p # n
      BY <1>1, <1>2, <3>1, <3>3 DEF Unmerged, ReadInv, RecordsOK, Recorded
    <3> QED
      BY <3>2, <3>3
  <2> QED
    BY <2>1 DEF RecordsOK
<1>7. ReadsOK'
  BY ReadsKept
<1>8. OrderOK'
  <2>1. ASSUME NEW p \in Tasks, st'[p] # "NONE"
        PROVE  pos'[p] <= pushed' /\ (p # n => pos'[p] < pushed')
    <3>1. \A q \in Tasks : pos[q] \in Nat
      BY <1>0 DEF TypeOK
    <3> QED
      BY <1>1, <2>1, <3>1 DEF ReadInv, OrderOK
  <2>2. ASSUME NEW p \in Tasks, NEW q \in Tasks, Req(p) # 0, Req(q) = Req(p), p[2] < q[2],
               st'[p] # "NONE", st'[q] # "NONE"
        PROVE  pos'[p] < pos'[q]
    <3>1. CASE p = n
      <4>1. q # n /\ st[q] # "NONE"
        <5>1. p[2] \in Nat
          BY <2>2, BoundsAssumption DEF Tasks, DebugTasks
        <5> QED
          BY <1>1, <2>2, <3>1, <5>1
      <4>2. q[2] < p[2]
        BY <2>2, <3>1, <4>1
      <4>3. p[2] \in Nat /\ q[2] \in Nat
        BY <2>2, BoundsAssumption DEF Tasks, DebugTasks
      <4> QED
        BY <2>2, <4>2, <4>3
    <3>2. CASE p # n /\ q = n
      BY <1>1, <2>1, <2>2, <3>2
    <3>3. CASE p # n /\ q # n
      BY <1>1, <2>2, <3>3 DEF ReadInv, OrderOK
    <3> QED
      BY <3>1, <3>2, <3>3
  <2> QED
    BY <2>1, <2>2 DEF OrderOK
<1>9. MergedReports'
  <2>1. ASSUME NEW p \in Tasks, Req(p) # 0, st'[p] = "SEND_TASK" \/ Merged(p)'
        PROVE  p # n
    BY <1>1, <1>2, <1>4, <2>1
  <2> QED
    BY <1>1, <1>2, <2>1, MergedKept DEF ReadInv
<1>10. SentOK'
  BY <1>1, <1>4 DEF ReadInv, SentOK
<1> QED
  BY <1>5, <1>6, <1>7, <1>8, <1>9, <1>10 DEF ReadInv

\* Every step of a thread.
LEMMA ThreadReads ==
  ASSUME ReadInv, NEW t \in Threads, ThreadStep(t)
  PROVE  ReadInv'
<1>0. WholeInv /\ WorkInv /\ TypeOK /\ [Next]_vars
  BY DEF ReadInv, WholeInv, WorkInv, Next
<1>h. pc[t] = "work" => hold[t] \in Tasks
  BY <1>0 DEF TypeOK
<1>1. CASE Acquire(t)
  <2>1. PICK p \in Tasks :
          /\ IsFirst(p, Stage(t))
          /\ hold' = [hold EXCEPT ![t] = p]
          /\ \/ t \in Loaders /\ st' = [st EXCEPT ![p] = "IS_LOAD_IMAGE"]
             \/ t \in Detectors /\ st' = [st EXCEPT ![p] = "IS_DETECTION"]
             \/ t \in SingleThreads /\ UNCHANGED st
    BY <1>1 DEF Acquire
  <2>2. /\ pc[t] = "acquire" /\ pc' = [pc EXCEPT ![t] = "work"]
        /\ UNCHANGED <<pos, pushed, data, sent, reads>>
    BY <1>1 DEF Acquire, replyVars
  <2>3. st[p] \in Stage(t)
    BY <2>1 DEF IsFirst, IsFirstOf, InState
  <2>4. t \in Loaders \cup Detectors => st[p] \notin {"NONE", "SEND_TASK"}
    BY <2>3, ThreadAssumption DEF Stage, SingleThreads
  <2>5. /\ \A q \in Tasks : st'[q] # "NONE" => st[q] # "NONE"
        /\ \A q \in Tasks : st'[q] = "SEND_TASK" <=> st[q] = "SEND_TASK"
    BY <1>0, <2>1, <2>4 DEF TypeOK
  <2>6. \A u \in {"package", "send"} :
          pc'[u] = "erase" <=> pc[u] = "erase"
    BY <1>0, <2>2, LastThreads DEF TypeOK
  <2>7. \A u \in {"package", "send"} : pc[u] = "erase" => hold'[u] = hold[u]
    BY <1>0, <2>1, <2>2, LastThreads DEF TypeOK
  <2> QED
    BY <1>0, <2>2, <2>5, <2>6, <2>7, QuietReads DEF Merged
<1>2. CASE WaitForTask(t)
  <2>1. /\ pc[t] = "acquire" /\ pc' = [pc EXCEPT ![t] = "waiting"]
        /\ UNCHANGED <<st, pos, pushed, data, hold, sent, reads>>
    BY <1>2 DEF WaitForTask, taskVars, replyVars
  <2>2. \A u \in {"package", "send"} : pc'[u] = "erase" <=> pc[u] = "erase"
    BY <1>0, <2>1, LastThreads DEF TypeOK
  <2> QED
    BY <1>0, <2>1, <2>2, QuietReads DEF Merged
<1>3. CASE LoadImage(t)
  <2>1. /\ pc[t] = "work" /\ t # "package" /\ t # "send" /\ reads' = reads
        /\ \/ FinishTask(t, "PACKAGE", data[hold[t]])
           \/ FinishTask(t, "CUT_PARCEL", [data[hold[t]] EXCEPT !.img = TRUE])
    BY <1>3, FinishingThread DEF LoadImage, Working
  <2>2. PICK h \in Tasks : h = hold[t]
    BY <1>h, <2>1
  <2>3. data[h] \in DataRecords
    BY <1>0 DEF TypeOK
  <2>4. CASE FinishTask(t, "PACKAGE", data[hold[t]])
    <3>1. data'[h] = data[h]
      BY <1>0, <2>2, <2>4 DEF FinishTask, TypeOK
    <3>2. Recorded(h) => Recorded(h)'
      BY <2>1, <3>1 DEF Recorded
    <3> QED
      BY <1>0, <2>1, <2>2, <2>4, <3>2, FinishReads
  <2>5. CASE FinishTask(t, "CUT_PARCEL", [data[hold[t]] EXCEPT !.img = TRUE])
    <3>1. data'[h] = [data[h] EXCEPT !.img = TRUE]
      BY <1>0, <2>2, <2>5 DEF FinishTask, TypeOK
    <3>2. Recorded(h) => Recorded(h)'
      BY <2>1, <2>3, <3>1 DEF Recorded, DataRecords
    <3> QED
      BY <1>0, <2>1, <2>2, <2>5, <3>2, FinishReads
  <2> QED
    BY <2>1, <2>4, <2>5
<1>4. CASE (t = "cut" /\ NoParcel) \/ ReadNothing(t)
  <2>1. /\ pc[t] = "work" /\ t # "package" /\ t # "send" /\ reads' = reads
        /\ FinishTask(t, "PACKAGE", data[hold[t]])
    BY <1>4, FinishingThread DEF NoParcel, ReadNothing, Working
  <2>2. PICK h \in Tasks : h = hold[t]
    BY <1>h, <2>1
  <2>3. data'[h] = data[h]
    BY <1>0, <2>1, <2>2 DEF FinishTask, TypeOK
  <2>4. Recorded(h) => Recorded(h)'
    BY <2>1, <2>3 DEF Recorded
  <2> QED
    BY <1>0, <2>1, <2>2, <2>4, FinishReads
<1>5. CASE t = "cut" /\ CutParcel
  <2>1. PICK h \in Tasks : h = hold["cut"] /\ pc["cut"] = "work"
    BY <1>5, <1>h DEF CutParcel, Working
  <2>2. /\ st' = [st EXCEPT ![h] = IF @ = "NONE" THEN "NONE" ELSE "DETECTION"]
        /\ pc' = [pc EXCEPT !["cut"] = "notify"]
        /\ UNCHANGED <<pos, pushed, data, hold, sent, reads>>
    BY <1>5, <2>1 DEF CutParcel, UpdateOneTask, replyVars
  <2>3. st[h] \in Claimed(t)
    BY <1>0, <1>5, <2>1 DEF WorkInv, OwnedStaysInStage, Owned, Busy
  <2>4. st[h] # "SEND_TASK"
    BY <1>5, <2>3, ClaimedStates
  <2>5. /\ \A q \in Tasks : st'[q] # "NONE" => st[q] # "NONE"
        /\ \A q \in Tasks : st'[q] = "SEND_TASK" <=> st[q] = "SEND_TASK"
    BY <1>0, <2>2, <2>4 DEF TypeOK
  <2>6. \A u \in {"package", "send"} : pc'[u] = pc[u]
    BY <1>0, <2>2, LastThreads DEF TypeOK
  <2> QED
    BY <1>0, <2>2, <2>5, <2>6, QuietReads DEF Merged
<1>6. CASE t = "cut" /\ NotifyDetector
  <2>1. /\ UNCHANGED <<st, pos, pushed, data, sent, reads>>
        /\ hold' = [hold EXCEPT !["cut"] = NoTask]
        /\ pc' = Wake(hold["cut"], [pc EXCEPT !["cut"] = "acquire"])
    BY <1>6 DEF NotifyDetector, taskVars, replyVars
  <2>2. \A u \in {"package", "send"} :
          hold'[u] = hold[u] /\ (pc'[u] = "erase" <=> pc[u] = "erase")
    BY <1>0, <2>1, LastThreads DEF Wake, TypeOK
  <2> QED
    BY <1>0, <2>1, <2>2, QuietReads DEF Merged
<1>7. CASE DetectTags(t)
  <2>1. PICK tags \in TagSets : \E s \in Routes(tags) :
          FinishTask(t, s, [data[hold[t]] EXCEPT !.tags = tags])
    BY <1>7 DEF DetectTags
  <2>2. PICK s \in Routes(tags) : FinishTask(t, s, [data[hold[t]] EXCEPT !.tags = tags])
    BY <2>1
  <2>3. s # "SEND_TASK"
    BY InputAssumption DEF Routes, RouteState, Enabled, Kinds
  <2>4. pc[t] = "work" /\ t # "package" /\ t # "send" /\ reads' = reads
    BY <1>7, FinishingThread DEF DetectTags, Working
  <2>5. PICK h \in Tasks : h = hold[t]
    BY <1>h, <2>4
  <2>6. data'[h] = [data[h] EXCEPT !.tags = tags] /\ data[h] \in DataRecords
    BY <1>0, <2>2, <2>5 DEF FinishTask, TypeOK
  <2>7. Recorded(h) => Recorded(h)'
    BY <2>4, <2>6 DEF Recorded, DataRecords
  <2> QED
    BY <1>0, <2>2, <2>3, <2>4, <2>5, <2>7, FinishReads
<1>8. ASSUME NEW code \in Postcodes, ReadPostcode(t, code)
      PROVE  ReadInv'
  <2>1. pc[t] = "work" /\ t # "package" /\ t # "send"
    BY <1>8, FinishingThread DEF ReadPostcode, Working
  <2>2. PICK h \in Tasks : h = hold[t]
    BY <1>h, <2>1
  <2> DEFINE k == KindRead(t, data[h].tags)
             d == [data[h] EXCEPT !.num = 1, !.kind = k, !.codes = <<code>>]
  <2>3. FinishTask(t, "PACKAGE", d) /\ reads' = [reads EXCEPT ![h] = <<k, code>>]
    BY <1>8, <2>2 DEF ReadPostcode
  <2> HIDE DEF k
  <2>4. data'[h] = d /\ data[h] \in DataRecords /\ reads'[h] = <<k, code>>
    BY <1>0, <2>2, <2>3 DEF FinishTask, TypeOK
  <2>5. <<k, code>> # NoRead
    <3>1. k \in Kinds
      BY DEF k, KindRead, ArbKind, Kinds
    <3> QED
      BY <3>1, NullAssumption
  <2>6. Recorded(h) => Recorded(h)'
    BY <2>4, <2>5 DEF Recorded, DataRecords
  <2>7. \A q \in Tasks : q # h => reads'[q] = reads[q]
    BY <1>0, <2>3 DEF TypeOK
  <2> QED
    BY <1>0, <2>1, <2>2, <2>3, <2>6, <2>7, FinishReads
<1>9. CASE t = "package" /\ PackageNotReady
  <2>1. /\ UNCHANGED <<st, pos, pushed, data, sent, reads>>
        /\ pc["package"] = "work"
        /\ pc' = [pc EXCEPT !["package"] = "acquire"]
        /\ hold' = [hold EXCEPT !["package"] = NoTask]
    BY <1>9 DEF PackageNotReady, Working, Release, taskVars, replyVars
  <2>2. /\ pc'["send"] = pc["send"] /\ hold'["send"] = hold["send"]
        /\ pc'["package"] = "acquire"
    BY <1>0, <2>1, LastThreads DEF TypeOK
  <2> QED
    BY <1>0, <2>1, <2>2, QuietReads DEF Merged
<1>10. CASE t = "package" /\ PackageErase
  <2>1. PICK p \in stem : EraseOneTask(p)
    BY <1>10 DEF PackageErase
  <2>2. /\ UNCHANGED <<pushed, pc, hold, sent, reads>>
        /\ p \in Tasks /\ p \in Owned("package")
    BY <1>0, <1>10 DEF PackageErase, replyVars, Owned, TypeOK
  <2>3. /\ st'[p] = "NONE"
        /\ \A q \in Tasks : q # p => /\ st'[q] = st[q] /\ pos'[q] = pos[q]
                                     /\ data'[q] = data[q]
    BY <1>0, <2>1, <2>2 DEF EraseOneTask, TypeOK
  <2>4. pc["send"] = "erase" => hold["send"] # p /\ hold["send"] \in Tasks
    BY <1>0, <2>2, LastThreads DEF WorkInv, ExclusiveWork, Owned, Busy, TypeOK
  <2>5. /\ \A q \in Tasks : st'[q] # "NONE" =>
             /\ st[q] # "NONE" /\ data'[q] = data[q] /\ pos'[q] = pos[q]
             /\ st'[q] = "SEND_TASK" <=> st[q] = "SEND_TASK"
        /\ \A q \in Tasks : Merged(q)' <=> Merged(q)
    BY <2>2, <2>3 DEF Merged
  <2> QED
    BY <1>0, <2>2, <2>3, <2>4, <2>5, QuietReads
<1> QED
  BY <1>1, <1>2, <1>3, <1>4, <1>5, <1>6, <1>7, <1>8, <1>9, <1>10,
     MergeReads, DoneReads, ReplyReads, EraseReads
  DEF ThreadStep

\* Every step of a producer.
LEMMA ProducerReads ==
  ASSUME ReadInv, Producing
  PROVE  ReadInv'
<1>0. WholeInv /\ WorkInv /\ TypeOK /\ [Next]_vars
  BY DEF ReadInv, WholeInv, WorkInv, Next, Producing
<1>1. CASE StartSubtask
  <2>1. /\ recv.pc = "start"
        /\ StartOneTask(RecvTask)
        /\ UNCHANGED <<pc, hold, sent, reads>>
    BY <1>1 DEF StartSubtask, threadVars, replyVars
  <2>2. PICK n \in Tasks : n = RecvTask
    BY <1>0, <2>1, RecvTaskName
  <2>3. /\ Req(n) = recv.req /\ n[2] = recv.img /\ Sub(n) = recv.img
        /\ recv.req \in Nat /\ recv.req # 0 /\ recv.img \in Nat
    BY <1>0, <2>1, <2>2, RecvTaskName, BoundsAssumption
  <2>4. st[n] = "NONE"
    BY <1>0, <2>1, <2>2, NotPushedNone
  <2>5. ~Pushed(n)
    BY <2>1, <2>3 DEF Pushed
  <2>6. reads[n] = NoRead
    BY <2>3, <2>5 DEF ReadInv, ReadsOK
  <2>7. ASSUME NEW q \in Tasks, Req(q) = Req(n), st[q] # "NONE"
        PROVE  q[2] < n[2]
    <3>1. Pushed(q)
      BY <1>0, <2>3, <2>7 DEF WorkInv, PoolOK
    <3>2. Sub(q) = q[2]
      BY <2>3, <2>7 DEF Sub
    <3> QED
      BY <2>1, <2>3, <2>7, <3>1, <3>2 DEF Pushed
  <2>8. BlankData.num = 0 /\ BlankData.index = 0
    BY DEF BlankData
  <2>9. /\ st' = [st EXCEPT ![n] = "OPEN"]
        /\ pos' = [pos EXCEPT ![n] = pushed + 1]
        /\ pushed' = pushed + 1
        /\ data' = [data EXCEPT ![n] = BlankData]
    BY <2>1, <2>2 DEF StartOneTask
  <2> QED
    BY <1>0, <2>1, <2>4, <2>6, <2>7, <2>8, <2>9, StartReads
<1>2. CASE StartDebugTask
  <2> DEFINE d == [BlankData EXCEPT !.img = TRUE]
  <2>1. /\ gui.pc = "idle" /\ gui.img < MaxDebug
        /\ UNCHANGED <<pc, hold, sent, reads>>
    BY <1>2 DEF StartDebugTask, threadVars, replyVars
  <2>2. PICK n \in Tasks : n = DebugTask /\ Req(n) = 0
    <3>1. gui.img \in 0..(MaxDebug - 1)
      BY <1>0, <2>1, BoundsAssumption DEF TypeOK
    <3>2. DebugTask \in Tasks
      BY <3>1 DEF DebugTask, Tasks, DebugTasks
    <3>3. Req(DebugTask) = 0
      BY DEF DebugTask
    <3> QED
      BY <3>2, <3>3
  <2>3. st[n] = "NONE"
    BY <1>0, <2>1, <2>2, NotPushedNone
  <2>4. d.num = 0 /\ d.index = 0
    BY DEF BlankData
  <2>5. /\ st' = [st EXCEPT ![n] = "OPEN"]
        /\ pos' = [pos EXCEPT ![n] = pushed + 1]
        /\ pushed' = pushed + 1
        /\ data' = [data EXCEPT ![n] = d]
    BY <1>2, <2>2 DEF StartDebugTask
  <2> HIDE DEF d
  <2> QED
    BY <1>0, <2>1, <2>2, <2>3, <2>4, <2>5, StartReads
<1>3. CASE LoadSubtask \/ CutDebugTask
  <2>1. PICK n \in Tasks, s \in {"LOAD_IMAGE", "CUT_PARCEL"} :
          st' = [st EXCEPT ![n] = IF @ = "NONE" THEN "NONE" ELSE s] /\ st[n] = "OPEN"
    <3>1. CASE LoadSubtask
      <4>1. RecvTask \in Tasks /\ st[RecvTask] = "OPEN"
        BY <1>0, <3>1, RecvTaskName DEF LoadSubtask, WorkInv, PoolOK
      <4> QED
        BY <3>1, <4>1 DEF LoadSubtask, UpdateOneTask
    <3>2. CASE CutDebugTask
      <4>1. DebugTask \in Tasks /\ st[DebugTask] = "OPEN"
        BY <1>0, <3>2, DebugTaskName DEF CutDebugTask, WorkInv, PoolOK
      <4> QED
        BY <3>2, <4>1 DEF CutDebugTask, UpdateOneTask
    <3> QED
      BY <1>3, <3>1, <3>2
  <2>2. UNCHANGED <<pos, pushed, data, pc, hold, sent, reads>>
    BY <1>3 DEF LoadSubtask, CutDebugTask, threadVars, replyVars
  <2>3. /\ \A q \in Tasks : st'[q] # "NONE" => st[q] # "NONE"
        /\ \A q \in Tasks : st'[q] = "SEND_TASK" <=> st[q] = "SEND_TASK"
    BY <1>0, <2>1 DEF TypeOK
  <2> QED
    BY <1>0, <2>2, <2>3, QuietReads DEF Merged
<1>4. CASE (\E msg \in Messages : RecvRequest(msg)) \/ NotifyLoader \/ ReadPastPaths
  <2>1. UNCHANGED <<st, pos, pushed, data, hold, sent, reads>>
    BY <1>4 DEF RecvRequest, NotifyLoader, ReadPastPaths, taskVars, threadVars, replyVars
  <2>2. \A u \in {"package", "send"} : pc'[u] = "erase" <=> pc[u] = "erase"
    BY <1>4, LastThreads DEF RecvRequest, NotifyLoader, Wake, ReadPastPaths, threadVars
  <2> QED
    BY <1>0, <2>1, <2>2, QuietReads DEF Merged
<1> QED
  BY <1>1, <1>2, <1>3, <1>4 DEF Producing, RecvStep

\* Every step keeps ReadInv.
LEMMA ReadStep == ReadInv /\ [Next]_vars => ReadInv'
<1> SUFFICES ASSUME ReadInv, [Next]_vars
             PROVE  ReadInv'
  OBVIOUS
<1>1. CASE UNCHANGED vars
  <2>1. UNCHANGED <<st, pos, pushed, data, pc, hold, sent, reads>>
    BY <1>1 DEF vars, taskVars, threadVars, replyVars
  <2> QED
    BY <2>1, QuietReads DEF Merged
<1> QED
  BY <1>1, ProducerReads, ThreadReads DEF Next, Producing

\* ReadInv always holds.
LEMMA ReadInvariant == Spec => []ReadInv
BY ReadInit, ReadStep, PTL DEF Spec

\* The send thread's reply reports what was read.
LEMMA RepliesFaithful == ReadInv => ReplyReportsReads
<1> SUFFICES ASSUME ReadInv, pc["send"] = "erase", sent.req # 0
             PROVE  Reports(ReadOf(sent.req), sent)
  BY DEF ReplyReportsReads
<1>0. WorkInv /\ TypeOK
  BY DEF ReadInv, WholeInv, WorkInv
<1>1. PICK h \in Tasks : h = hold["send"]
  BY <1>0, LastThreads DEF TypeOK
<1>2. sent = Reply(Req(h), data[h]) /\ sent.req = Req(h)
  <2>1. sent = Reply(Req(h), data[h])
    BY <1>1 DEF ReadInv, SentOK
  <2> QED
    BY <2>1 DEF Reply
<1>3. st[h] = "SEND_TASK"
  <2>1. h \in Owned("send")
    BY <1>1 DEF Owned, Busy
  <2> QED
    BY <1>0, <2>1, LastThreads DEF WorkInv, OwnedStaysInStage
<1> QED
  BY <1>2, <1>3 DEF ReadInv, MergedReports

(* A reply reports what OCR read on the images of its request, for every   *)
(* number of images and every order in which they finish, in both modes    *)
(* of the merge.                                                           *)
THEOREM RepliesReportReads == Spec => []ReplyReportsReads
BY ReadInvariant, RepliesFaithful, PTL

-----------------------------------------------------------------------------
(* The operator's images. Every one of them is in the pool or has been     *)
(* erased, and a reply is given for an image that is in the pool and that  *)
(* the send thread erases next: replies and images in the pool together    *)
(* are never more than the images that were pushed.                        *)

\* The operator's images in the pool, without the one that was just answered.
Unanswered == {p \in Tasks : /\ Req(p) = 0
                             /\ st[p] # "NONE"
                             /\ ~(pc["send"] = "erase" /\ hold["send"] = p)}

DebugPushed == gui.img + (IF gui.pc = "cut" THEN 1 ELSE 0)

DebugOK == /\ IsFiniteSet(Unanswered)
           /\ answers[0] + lost[0] + Cardinality(Unanswered) <= DebugPushed

\* The inductive invariant for the operator's images.
DebugInv == WorkInv /\ DebugOK

\* The numbers in it.
LEMMA DebugNumbers ==
  ASSUME TypeOK
  PROVE  answers[0] \in Nat /\ lost[0] \in Nat /\ DebugPushed \in Nat
<1>1. answers[0] \in Nat /\ lost[0] \in Nat
  BY DEF TypeOK
<1>2. gui.img \in Nat
  BY BoundsAssumption DEF TypeOK
<1> QED
  BY <1>1, <1>2 DEF DebugPushed

\* A step that answers nothing and adds no image.
LEMMA DebugKept ==
  ASSUME TypeOK, TypeOK', DebugOK, Unanswered' \subseteq Unanswered,
         UNCHANGED <<answers, lost>>, DebugPushed' = DebugPushed
  PROVE  DebugOK'
<1> DEFINE U == Unanswered
           V == Unanswered'
<1>1. IsFiniteSet(U) /\ V \subseteq U
  BY DEF DebugOK
<1>2. IsFiniteSet(V) /\ Cardinality(V) <= Cardinality(U)
  BY ONLY <1>1, FS_Subset
<1>3. Cardinality(V) \in Nat /\ Cardinality(U) \in Nat
  BY ONLY <1>1, <1>2, FS_CardinalityType
<1>4. answers[0] + lost[0] + Cardinality(U) <= DebugPushed
  BY DEF DebugOK
<1> HIDE DEF U, V
<1>5. answers[0] + lost[0] + Cardinality(V) <= DebugPushed
  BY <1>2, <1>3, <1>4, DebugNumbers
<1> QED
  BY <1>2, <1>5 DEF DebugOK, V

\* A step of the pool that answers nothing and adds no image.
LEMMA DebugQuiet ==
  ASSUME TypeOK, TypeOK', DebugOK, UNCHANGED <<answers, lost>>, DebugPushed' = DebugPushed,
         \A p \in Tasks : Req(p) = 0 /\ st'[p] # "NONE" => st[p] # "NONE",
         pc["send"] = "erase" =>
           \/ pc'["send"] = "erase" /\ hold'["send"] = hold["send"]
           \/ st'[hold["send"]] = "NONE"
  PROVE  DebugOK'
<1>1. Unanswered' \subseteq Unanswered
  BY DEF Unanswered
<1> QED
  BY <1>1, DebugKept

\* A reply to one of the operator's images takes that image from those unanswered.
LEMMA DebugReply ==
  ASSUME WorkInv, TypeOK', DebugOK, SendReply
  PROVE  DebugOK'
<1>0. TypeOK
  BY DEF WorkInv
<1>1. PICK h \in Tasks : h = hold["send"] /\ pc["send"] = "work"
  BY <1>0, LastThreads DEF SendReply, Working, TypeOK
<1>2. /\ UNCHANGED <<st, hold, gui>> /\ pc' = [pc EXCEPT !["send"] = "erase"]
      /\ \/ answers' = [answers EXCEPT ![Req(h)] = @ + 1] /\ UNCHANGED lost
         \/ lost' = [lost EXCEPT ![Req(h)] = @ + 1] /\ UNCHANGED answers
  BY <1>1 DEF SendReply, taskVars, inputVars
<1>3. pc'["send"] = "erase" /\ hold'["send"] = h
  BY <1>0, <1>1, <1>2, LastThreads DEF TypeOK
<1>4. Unanswered' = Unanswered \ {h}
  BY <1>1, <1>2, <1>3 DEF Unanswered
<1>5. DebugPushed' = DebugPushed
  BY <1>2 DEF DebugPushed
<1>6. st[h] # "NONE"
  <2>1. h \in Owned("send")
    BY <1>1 DEF Owned, Busy
  <2> QED
    BY <2>1, LastThreads DEF WorkInv, OwnedStaysInStage
<1>7. CASE Req(h) = 0
  <2> DEFINE U == Unanswered
             V == Unanswered'
  <2>1. h \in U
    BY <1>1, <1>6, <1>7 DEF Unanswered
  <2>2. IsFiniteSet(U)
    BY DEF DebugOK
  <2>3. V = U \ {h}
    BY <1>4
  <2>4. IsFiniteSet(V) /\ Cardinality(V) = Cardinality(U) - 1
    BY ONLY <2>1, <2>2, <2>3, FS_RemoveElement
  <2>5. Cardinality(U) \in Nat /\ Cardinality(V) \in Nat
    BY ONLY <2>2, <2>4, FS_CardinalityType
  <2>6. answers[0] + lost[0] + Cardinality(U) <= DebugPushed
    BY DEF DebugOK
  <2>7. answers'[0] + lost'[0] = answers[0] + lost[0] + 1
    <3>1. answers \in [{0} \cup Requests -> Nat] /\ lost \in [{0} \cup Requests -> Nat]
      BY <1>0 DEF TypeOK
    <3>2. \/ answers' = [answers EXCEPT ![0] = @ + 1] /\ lost' = lost
          \/ lost' = [lost EXCEPT ![0] = @ + 1] /\ answers' = answers
      BY <1>2, <1>7
    <3> QED
      BY ONLY <3>1, <3>2
  <2> HIDE DEF U, V
  <2>8. answers'[0] + lost'[0] + Cardinality(V) <= DebugPushed'
    BY <1>0, <1>5, <2>4, <2>5, <2>6, <2>7, DebugNumbers
  <2> QED
    BY <2>4, <2>8 DEF DebugOK, V
<1>8. CASE Req(h) # 0
  <2>1. answers'[0] = answers[0] /\ lost'[0] = lost[0]
    BY <1>0, <1>2, <1>8 DEF TypeOK
  <2>2. Unanswered' = Unanswered
    BY <1>4, <1>8 DEF Unanswered
  <2> QED
    BY <1>5, <2>1, <2>2 DEF DebugOK
<1> QED
  BY <1>7, <1>8

\* An image the operator pushes is one more of those unanswered.
LEMMA DebugStart ==
  ASSUME TypeOK, TypeOK', DebugOK, StartDebugTask
  PROVE  DebugOK'
<1> DEFINE U == Unanswered
           V == Unanswered'
           n == DebugTask
<1>1. /\ gui.pc = "idle" /\ gui' = [gui EXCEPT !.pc = "cut"]
      /\ UNCHANGED <<pc, hold, answers, lost>>
      /\ st' = [st EXCEPT ![n] = "OPEN"]
  BY DEF StartDebugTask, threadVars, replyVars
<1>2. gui'.pc = "cut" /\ gui'.img = gui.img /\ gui.img \in Nat
  BY <1>1, BoundsAssumption DEF TypeOK
<1>3. V \subseteq U \cup {n}
  BY <1>1 DEF Unanswered, TypeOK
<1>4. IsFiniteSet(U)
  BY DEF DebugOK
<1> HIDE DEF U, V, n
<1>5. /\ IsFiniteSet(U \cup {n})
      /\ Cardinality(U \cup {n}) \in {Cardinality(U), Cardinality(U) + 1}
  BY ONLY <1>4, FS_AddElement
<1>6. IsFiniteSet(V) /\ Cardinality(V) <= Cardinality(U \cup {n})
  BY ONLY <1>3, <1>5, FS_Subset
<1>7. Cardinality(U) \in Nat /\ Cardinality(V) \in Nat
  BY ONLY <1>4, <1>6, FS_CardinalityType
<1>8. Cardinality(V) <= Cardinality(U) + 1
  BY ONLY <1>5, <1>6, <1>7
<1>9. DebugPushed' = DebugPushed + 1
  BY <1>1, <1>2 DEF DebugPushed
<1>10. answers[0] + lost[0] + Cardinality(U) <= DebugPushed
  BY DEF DebugOK, U
<1>11. answers'[0] + lost'[0] + Cardinality(V) <= DebugPushed'
  BY <1>1, <1>7, <1>8, <1>9, <1>10, DebugNumbers
<1> QED
  BY <1>6, <1>11 DEF DebugOK, V

\* Every step keeps DebugInv.
LEMMA DebugStep == DebugInv /\ [Next]_vars => DebugInv'
<1> SUFFICES ASSUME DebugInv, [Next]_vars
             PROVE  DebugInv'
  OBVIOUS
<1>0. WorkInv /\ TypeOK /\ DebugOK /\ WorkInv' /\ TypeOK'
  BY WorkStep DEF DebugInv, WorkInv
<1>s. "send" \in Threads
  BY LastThreads
<1>1. ASSUME NEW t \in Threads, ThreadStep(t), ~(t = "send" /\ SendReply)
      PROVE  DebugOK'
  <2>1. \A p \in Tasks : st'[p] # "NONE" => st[p] # "NONE"
    BY <1>0, <1>1, ThreadSafe DEF ReadyMoved
  <2>2. UNCHANGED gui
    BY <1>1, ThreadInputs
  <2>3. UNCHANGED <<answers, lost>>
    BY <1>1
    DEF ThreadStep, Acquire, WaitForTask, LoadImage, NoParcel, CutParcel, NotifyDetector,
        DetectTags, ReadNothing, ReadPostcode, PackageNotReady, PackageMerge, PackageErase,
        PackageDone, SendErase, FinishTask, replyVars
  <2>4. CASE t = "send" /\ SendErase
    <3>1. hold["send"] \in Tasks /\ st' = [st EXCEPT ![hold["send"]] = "NONE"]
      BY <1>0, <1>s, <2>4 DEF SendErase, EraseOneTask, TypeOK
    <3>2. st'[hold["send"]] = "NONE"
      BY <1>0, <3>1 DEF TypeOK
    <3> QED
      BY <1>0, <2>1, <2>2, <2>3, <3>2, DebugQuiet DEF DebugPushed
  <2>5. CASE ~(t = "send" /\ SendErase)
    <3>1. pc["send"] = "erase" => pc'["send"] = "erase" /\ hold'["send"] = hold["send"]
      <4>1. CASE t = "send"
        BY <1>0, <1>1, <1>s, <2>5, <4>1, FinishingThread
        DEF ThreadStep, Acquire, WaitForTask, LoadImage, DetectTags, ReadNothing,
            ReadPostcode, Working
      <4>2. CASE t # "send"
        <5>1. CASE t = "cut" /\ NotifyDetector
          BY <1>0, <1>s, <5>1 DEF NotifyDetector, Wake, TypeOK
        <5>2. CASE ~(t = "cut" /\ NotifyDetector)
          <6>1. /\ hold' = hold \/ \E h : hold' = [hold EXCEPT ![t] = h]
                /\ pc' = pc \/ \E s : pc' = [pc EXCEPT ![t] = s]
            BY <1>1, <4>2, <5>2
            DEF ThreadStep, Acquire, WaitForTask, LoadImage, NoParcel, CutParcel,
                DetectTags, ReadNothing, ReadPostcode, PackageNotReady, PackageMerge,
                PackageErase, PackageDone, FinishTask, Release
          <6> QED
            BY <1>0, <1>s, <4>2, <6>1 DEF TypeOK
        <5> QED
          BY <5>1, <5>2
      <4> QED
        BY <4>1, <4>2
    <3> QED
      BY <1>0, <2>1, <2>2, <2>3, <3>1, DebugQuiet DEF DebugPushed
  <2> QED
    BY <2>4, <2>5
<1>2. ASSUME Producing, ~StartDebugTask
      PROVE  DebugOK'
  <2>1. UNCHANGED <<hold, answers, lost>>
    BY <1>2 DEF Producing, RecvRequest, RecvStep, StartSubtask, LoadSubtask, NotifyLoader,
                ReadPastPaths, CutDebugTask, threadVars, replyVars
  <2>2. pc["send"] = "erase" => pc'["send"] = "erase"
    BY <1>2, <1>s
    DEF Producing, RecvRequest, RecvStep, StartSubtask, LoadSubtask, NotifyLoader, Wake,
        ReadPastPaths, CutDebugTask, threadVars
  <2>3. DebugPushed' = DebugPushed
    <3>1. CASE CutDebugTask
      <4>1. gui.pc = "cut" /\ gui' = [pc |-> "idle", img |-> gui.img + 1] /\ gui.img \in Nat
        BY <1>0, <3>1, BoundsAssumption DEF CutDebugTask, TypeOK
      <4> QED
        BY <4>1 DEF DebugPushed
    <3>2. CASE UNCHANGED gui
      BY <3>2 DEF DebugPushed
    <3> QED
      BY <1>2, <3>1, <3>2 DEF Producing, RecvRequest, RecvStep, StartSubtask, LoadSubtask,
                              NotifyLoader, ReadPastPaths
  <2>4. \A p \in Tasks : Req(p) = 0 /\ st'[p] # "NONE" => st[p] # "NONE"
    <3>1. CASE StartSubtask
      <4>1. st' = [st EXCEPT ![RecvTask] = "OPEN"] /\ recv.pc = "start"
        BY <3>1 DEF StartSubtask, StartOneTask
      <4>2. Req(RecvTask) # 0
        BY <1>0, <4>1, RecvTaskName, BoundsAssumption
      <4> QED
        BY <1>0, <4>1, <4>2 DEF TypeOK
    <3>2. CASE LoadSubtask \/ CutDebugTask
      BY <1>0, <3>2 DEF LoadSubtask, CutDebugTask, UpdateOneTask, TypeOK
    <3>3. CASE UNCHANGED st
      BY <3>3
    <3> QED
      BY <1>2, <3>1, <3>2, <3>3 DEF Producing, RecvRequest, RecvStep, NotifyLoader,
                                    ReadPastPaths, taskVars
  <2> QED
    BY <1>0, <2>1, <2>2, <2>3, <2>4, DebugQuiet
<1>3. ASSUME UNCHANGED vars
      PROVE  DebugOK'
  <2>1. UNCHANGED <<st, gui, pc, hold, answers, lost>>
    BY <1>3 DEF vars, taskVars, inputVars, threadVars, replyVars
  <2> QED
    BY <1>0, <2>1 DEF DebugOK, DebugPushed, Unanswered
<1>4. ASSUME SendReply \/ StartDebugTask
      PROVE  DebugOK'
  BY <1>0, <1>4, DebugReply, DebugStart
<1>5. DebugOK'
  BY <1>1, <1>2, <1>3, <1>4 DEF Next, Producing
<1> QED
  BY <1>0, <1>5 DEF DebugInv

(* The operator's images, which all have one task id and may be merged     *)
(* with one another, never get more replies than images were pushed.       *)
THEOREM DebugReplies == Spec => []DebugRepliesBounded
<1>1. Init => DebugInv
  <2> SUFFICES ASSUME Init
               PROVE  DebugOK
    BY WorkInit DEF DebugInv
  <2>1. Unanswered = {}
    BY DEF Init, Unanswered
  <2>2. answers[0] = 0 /\ lost[0] = 0 /\ DebugPushed = 0
    BY DEF Init, DebugPushed
  <2> QED
    BY <2>1, <2>2, FS_EmptySet DEF DebugOK
<1>2. DebugInv => DebugRepliesBounded
  <2> SUFFICES ASSUME DebugInv
               PROVE  answers[0] + lost[0] <= DebugPushed
    BY DEF DebugRepliesBounded, DebugPushed
  <2>1. Cardinality(Unanswered) \in Nat
    BY FS_CardinalityType DEF DebugInv, DebugOK
  <2> QED
    BY <2>1, DebugNumbers DEF DebugInv, DebugOK, WorkInv
<1> QED
  BY <1>1, <1>2, DebugStep, PTL DEF Spec
=============================================================================
