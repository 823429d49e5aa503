------------------------- MODULE TaskPipelineProofs -------------------------
(***************************************************************************)
(* Theorems about TaskPipeline, for every number of requests, images,      *)
(* threads and every set of postcodes and tags.                            *)
(***************************************************************************)
EXTENDS TaskPipeline, FiniteSetTheorems, WellFoundedInduction, TLAPS

USE DEF Req, Requests

-----------------------------------------------------------------------------
(* Lemmas on the operators of the model.                                   *)

\* A function to the natural numbers has a least value on a set that is not empty.
LEMMA LeastValue ==
  ASSUME NEW S, NEW f \in [S -> Nat], NEW T, T \subseteq S, T # {}
  PROVE  \E x \in T : \A y \in T : f[x] <= f[y]
<1> DEFINE R == {rs \in Nat \X Nat : rs[1] < rs[2]}
           V == {f[x] : x \in T}
<1>1. IsWellFoundedOn(R, Nat)
  BY NatLessThanWellFounded DEF OpToRel
<1>2. PICK m \in V : \A n \in V : ~(<<n, m>> \in R)
  <2>1. V \subseteq Nat /\ V # {}
    OBVIOUS
  <2> QED
    BY ONLY <1>1, <2>1, WFMin
<1>3. PICK x \in T : f[x] = m
  OBVIOUS
<1>4. ASSUME NEW y \in T
      PROVE  f[x] <= f[y]
  <2>1. f[y] \in V /\ f[y] \in Nat /\ m \in Nat
    OBVIOUS
  <2>2. ~(<<f[y], m>> \in R)
    BY <1>2, <2>1
  <2>3. ~(f[y] < m)
    BY <2>1, <2>2
  <2> QED
    BY <1>3, <2>1, <2>3
<1> QED
  BY <1>4

\* Some task of the pool comes first.
LEMMA FirstExists ==
  ASSUME pos \in [Tasks -> Nat], NEW S \in SUBSET Tasks, S # {}
  PROVE  \E p \in S : IsFirstOf(p, S, pos)
BY LeastValue DEF IsFirstOf

\* `new TaskData()` is a task record.
LEMMA BlankDataType == BlankData \in DataRecords
BY DEF BlankData, DataRecords, Kinds

\* Merging the results of a group of tasks gives a task record.
LEMMA MergedDataType ==
  ASSUME NEW p \in Tasks, NEW G \in SUBSET Tasks, NEW i \in Nat,
         data \in [Tasks -> DataRecords], pos \in [Tasks -> Nat]
  PROVE  MergedData(p, G, data, pos, i) \in DataRecords
<1> DEFINE others == {q \in G : data[q].codes # data[p].codes}
           tagged == [data[p] EXCEPT !.index = i]
           q == CHOOSE q \in others : IsFirstOf(q, others, pos)
<1>1. tagged \in DataRecords
  BY DEF DataRecords
<1>2. CASE others = {}
  BY <1>1, <1>2 DEF MergedData
<1>3. CASE others # {}
  <2>1. MergedData(p, G, data, pos, i) = [tagged EXCEPT !.codes = @ \o data[q].codes,
                                                        !.num = @ + 1]
    BY <1>3 DEF MergedData
  <2>2. \E x \in others : IsFirstOf(x, others, pos)
    <3>1. others \in SUBSET Tasks
      OBVIOUS
    <3> QED
      BY ONLY <1>3, <3>1, FirstExists, pos \in [Tasks -> Nat]
  <2>3. q \in others
    BY <2>2
  <2>4. data[q] \in DataRecords
    BY <2>3
  <2> HIDE DEF q, tagged
  <2>5. tagged.codes \in Seq(Postcodes) /\ tagged.num \in Nat
    BY ONLY <1>1 DEF DataRecords
  <2>6. data[q].codes \in Seq(Postcodes)
    BY ONLY <2>4 DEF DataRecords
  <2>7. tagged.codes \o data[q].codes \in Seq(Postcodes) /\ tagged.num + 1 \in Nat
    BY ONLY <2>5, <2>6
  <2>8. [tagged EXCEPT !.codes = @ \o data[q].codes, !.num = @ + 1] \in DataRecords
    BY ONLY <1>1, <2>7 DEF DataRecords
  <2> QED
    BY ONLY <2>1, <2>8
<1> QED
  BY <1>2, <1>3

\* A reply has a result code and an image index.
LEMMA ReplyType ==
  ASSUME NEW r \in Nat, NEW d \in DataRecords
  PROVE  Reply(r, d) \in [req : Nat, res : Nat, index : Nat, codes : Seq(Postcodes)]
<1>1. ResultCode(d) \in Nat
  BY DEF ResultCode, DataRecords
<1> QED
  BY <1>1 DEF Reply, DataRecords

\* Waking threads up changes only their step.
LEMMA WakeType ==
  ASSUME NEW S, NEW f \in [Threads -> S], "acquire" \in S, NEW p
  PROVE  Wake(p, f) \in [Threads -> S]
BY DEF Wake

\* A task is named by its request and its image.
LEMMA TaskName ==
  ASSUME NEW p \in Tasks
  PROVE  /\ Req(p) \in {0} \cup Requests
         /\ Req(p) \in Nat
         /\ Sub(p) \in Nat
BY BoundsAssumption DEF Tasks, DebugTasks, Sub

-----------------------------------------------------------------------------
(* The type invariant.                                                     *)

\* The initial values have their types.
LEMMA TypeInit == Init => TypeOK
<1> SUFFICES ASSUME Init
             PROVE  TypeOK
  OBVIOUS
<1>1. /\ st \in [Tasks -> TaskStates]
      /\ pos \in [Tasks -> Nat]
      /\ pushed \in Nat
      /\ data \in [Tasks -> DataRecords]
  BY BlankDataType DEF Init, TaskStates
<1>2. /\ total \in [Requests -> 0..MaxImages]
      /\ recv \in RecvRecords
      /\ recv.pc \notin {"start", "load", "notify"}
      /\ gui \in [pc : {"idle", "cut"}, img : 0..MaxDebug]
      /\ gui.pc = "idle"
  BY BoundsAssumption DEF Init, RecvRecords
<1>3. /\ pc \in [Threads -> {"acquire", "waiting", "work", "notify", "erase", "gone"}]
      /\ hold \in [Threads -> Tasks \cup {NoTask}]
      /\ \A t \in Threads : pc[t] \notin {"work", "notify", "erase"}
      /\ stem \subseteq Tasks
  BY DEF Init
<1>4. /\ answers \in [{0} \cup Requests -> Nat]
      /\ lost \in [{0} \cup Requests -> Nat]
      /\ sent \in [req : Nat, res : Nat, index : Nat, codes : Seq(Postcodes)]
      /\ reads \in [Tasks -> (Kinds \X Postcodes) \cup {NoRead}]
  BY DEF Init, NoReply
<1> QED
  BY <1>1, <1>2, <1>3, <1>4 DEF TypeOK

\* The step of a thread that is done with its task.
LEMMA FinishTaskType ==
  ASSUME TypeOK, NEW t \in Threads, NEW s \in TaskStates,
         NEW d, hold[t] \in Tasks => d \in DataRecords,
         FinishTask(t, s, d), reads' \in [Tasks -> (Kinds \X Postcodes) \cup {NoRead}]
  PROVE  TypeOK'
BY DEF TypeOK, FinishTask, UpdateOneTask, Release, inputVars, replyVars

\* Every step keeps the types.
LEMMA TypeStep == TypeOK /\ [Next]_vars => TypeOK'
<1> SUFFICES ASSUME TypeOK, [Next]_vars
             PROVE  TypeOK'
  OBVIOUS
<1>0. /\ recv \in RecvRecords
      /\ recv.pc \in {"start", "load", "notify"} => recv.req > 0 /\ recv.img < total[recv.req]
      /\ total \in [Requests -> 0..MaxImages]
  BY DEF TypeOK
<1>t. /\ st \in [Tasks -> TaskStates]
      /\ pos \in [Tasks -> Nat]
      /\ pushed \in Nat
      /\ data \in [Tasks -> DataRecords]
  BY DEF TypeOK
<1>1. ASSUME NEW msg \in Messages, RecvRequest(msg)
      PROVE  TypeOK'
  <2> DEFINE n == Larger(msg.images, msg.paths)
  <2>1. n \in 0..MaxImages /\ msg.paths \in Nat
    BY InputAssumption, BoundsAssumption DEF Larger
  <2>2. /\ recv.req < MaxRequests
        /\ recv' = [pc |-> IF n = 0 THEN "recv" ELSE "start",
                    req |-> recv.req + 1, img |-> 0, paths |-> msg.paths]
        /\ total' = [total EXCEPT ![recv.req + 1] = n]
    BY <1>1 DEF RecvRequest
  <2> HIDE DEF n
  <2>3. /\ total' \in [Requests -> 0..MaxImages]
        /\ recv' \in RecvRecords
        /\ recv'.pc \in {"start", "load", "notify"} =>
             recv'.req > 0 /\ recv'.img < total'[recv'.req]
    BY <1>0, <2>1, <2>2, BoundsAssumption DEF RecvRecords
  <2>4. UNCHANGED <<taskVars, gui, threadVars, replyVars, reads>>
    BY <1>1 DEF RecvRequest
  <2> QED
    BY <2>3, <2>4 DEF TypeOK, taskVars, threadVars, replyVars
<1>2. CASE StartSubtask
  <2>1. /\ recv' \in RecvRecords
        /\ recv'.pc \in {"start", "load", "notify"} =>
             recv'.req > 0 /\ recv'.img < total[recv'.req]
    BY <1>0, <1>2 DEF StartSubtask, RecvRecords
  <2>2. /\ st' \in [Tasks -> TaskStates]
        /\ pos' \in [Tasks -> Nat]
        /\ pushed' \in Nat
        /\ data' \in [Tasks -> DataRecords]
    <3> DEFINE p == RecvTask
    <3>1. /\ st' = [st EXCEPT ![p] = "OPEN"]
          /\ pos' = [pos EXCEPT ![p] = pushed + 1]
          /\ pushed' = pushed + 1
          /\ data' = [data EXCEPT ![p] = BlankData]
      BY <1>2 DEF StartSubtask, StartOneTask
    <3> HIDE DEF p
    <3>2. "OPEN" \in TaskStates
      BY DEF TaskStates
    <3>3. st' \in [Tasks -> TaskStates]
      BY ONLY <1>t, <3>1, <3>2
    <3>4. pushed' \in Nat /\ pos' \in [Tasks -> Nat]
      <4>1. pushed' \in Nat
        BY ONLY <1>t, <3>1
      <4>2. pos' = [pos EXCEPT ![p] = pushed']
        BY ONLY <3>1
      <4> QED
        BY ONLY <1>t, <4>1, <4>2
    <3>5. data' \in [Tasks -> DataRecords]
      BY ONLY <1>t, <3>1, <3>2, BlankDataType
    <3> QED
      BY <3>3, <3>4, <3>5
  <2>3. UNCHANGED <<total, gui, threadVars, replyVars, reads>>
    BY <1>2 DEF StartSubtask
  <2> QED
    BY <2>1, <2>2, <2>3 DEF TypeOK, threadVars, replyVars
<1>3. CASE LoadSubtask
  BY <1>3 DEF TypeOK, RecvRecords, LoadSubtask, UpdateOneTask, TaskStates, threadVars, replyVars
<1>4. CASE NotifyLoader
  <2>1. pc' \in [Threads -> {"acquire", "waiting", "work", "notify", "erase", "gone"}]
    BY <1>4, WakeType DEF NotifyLoader, TypeOK
  <2>2. \A t \in Threads : pc'[t] \in {"work", "notify", "erase"} => hold[t] \in Tasks
    BY <1>4 DEF NotifyLoader, TypeOK, Wake
  <2>3. /\ recv' \in RecvRecords
        /\ recv'.pc \in {"start", "load", "notify"} =>
             recv'.req > 0 /\ recv'.img < total[recv'.req]
    <3>1. /\ recv.pc = "notify"
          /\ recv' = [recv EXCEPT !.pc = IF recv.img + 1 < total[recv.req] THEN "start"
                                         ELSE "recv",
                                  !.img = @ + 1]
      BY <1>4 DEF NotifyLoader
    <3>2. recv.req \in Requests /\ total[recv.req] \in 0..MaxImages
      BY <1>0, <3>1, BoundsAssumption DEF RecvRecords
    <3>3. recv.img + 1 \in 0..MaxImages
      BY <1>0, <3>1, <3>2, BoundsAssumption DEF RecvRecords
    <3> QED
      BY <1>0, <3>1, <3>2, <3>3, BoundsAssumption DEF RecvRecords
  <2> QED
    BY <1>4, <2>1, <2>2, <2>3 DEF NotifyLoader, TypeOK, taskVars, replyVars
<1>5. CASE ReadPastPaths
  BY <1>5 DEF TypeOK, RecvRecords, ReadPastPaths, taskVars, threadVars, replyVars
<1>6. CASE StartDebugTask
  <2>1. [BlankData EXCEPT !.img = TRUE] \in DataRecords
    BY BlankDataType DEF DataRecords
  <2>2. /\ st' \in [Tasks -> TaskStates]
        /\ pos' \in [Tasks -> Nat]
        /\ pushed' \in Nat
        /\ data' \in [Tasks -> DataRecords]
    <3> DEFINE p == DebugTask
               d == [BlankData EXCEPT !.img = TRUE]
    <3>1. /\ st' = [st EXCEPT ![p] = "OPEN"]
          /\ pos' = [pos EXCEPT ![p] = pushed + 1]
          /\ pushed' = pushed + 1
          /\ data' = [data EXCEPT ![p] = d]
      BY <1>6 DEF StartDebugTask
    <3> HIDE DEF p, d
    <3>2. "OPEN" \in TaskStates /\ d \in DataRecords
      BY <2>1 DEF TaskStates, d
    <3>3. st' \in [Tasks -> TaskStates]
      BY ONLY <1>t, <3>1, <3>2
    <3>4. pushed' \in Nat /\ pos' \in [Tasks -> Nat]
      <4>1. pushed' \in Nat
        BY ONLY <1>t, <3>1
      <4>2. pos' = [pos EXCEPT ![p] = pushed']
        BY ONLY <3>1
      <4> QED
        BY ONLY <1>t, <4>1, <4>2
    <3>5. data' \in [Tasks -> DataRecords]
      BY ONLY <1>t, <3>1, <3>2
    <3> QED
      BY <3>3, <3>4, <3>5
  <2>3. /\ gui' \in [pc : {"idle", "cut"}, img : 0..MaxDebug]
        /\ gui'.img < MaxDebug
    BY <1>6 DEF StartDebugTask, TypeOK
  <2>4. UNCHANGED <<total, recv, threadVars, replyVars, reads>>
    BY <1>6 DEF StartDebugTask
  <2> QED
    BY <2>2, <2>3, <2>4 DEF TypeOK, threadVars, replyVars
<1>7. CASE CutDebugTask
  <2>1. st' \in [Tasks -> TaskStates]
    BY <1>7 DEF CutDebugTask, UpdateOneTask, TypeOK, TaskStates
  <2>2. /\ gui' \in [pc : {"idle", "cut"}, img : 0..MaxDebug]
        /\ gui'.pc = "idle"
    <3>1. gui.img + 1 \in 0..MaxDebug
      BY <1>7, BoundsAssumption DEF CutDebugTask, TypeOK
    <3> QED
      BY <1>7, <3>1 DEF CutDebugTask
  <2>3. UNCHANGED <<pos, pushed, data, total, recv, threadVars, replyVars, reads>>
    BY <1>7 DEF CutDebugTask
  <2>4. recv'.pc \in {"start", "load", "notify"} => recv'.req > 0 /\ recv'.img < total'[recv'.req]
    BY <2>3 DEF TypeOK
  <2>5. \A t \in Threads : pc'[t] \in {"work", "notify", "erase"} => hold'[t] \in Tasks
    BY <2>3 DEF TypeOK, threadVars
  <2> QED
    BY <2>1, <2>2, <2>3, <2>4, <2>5 DEF TypeOK, threadVars, replyVars
<1>8. ASSUME NEW t \in Threads, ThreadStep(t)
      PROVE  TypeOK'
  <2>1. CASE Acquire(t)
    <3>1. PICK p \in Tasks :
            /\ hold' = [hold EXCEPT ![t] = p]
            /\ st' \in {st, [st EXCEPT ![p] = "IS_LOAD_IMAGE"],
                       [st EXCEPT ![p] = "IS_DETECTION"]}
      BY <2>1 DEF Acquire
    <3>2. st' \in [Tasks -> TaskStates]
      BY <3>1 DEF TypeOK, TaskStates
    <3>3. pc' = [pc EXCEPT ![t] = "work"]
      BY <2>1 DEF Acquire
    <3>4. \A u \in Threads : pc'[u] \in {"work", "notify", "erase"} => hold'[u] \in Tasks
      BY <3>1, <3>3 DEF TypeOK
    <3>5. UNCHANGED <<pos, pushed, data, inputVars, stem, replyVars, reads>>
      BY <2>1 DEF Acquire
    <3> QED
      BY <1>8, <3>1, <3>2, <3>3, <3>4, <3>5 DEF TypeOK, inputVars, replyVars
  <2>2. CASE WaitForTask(t)
    BY <1>8, <2>2 DEF TypeOK, WaitForTask, taskVars, inputVars, replyVars
  <2>3. CASE LoadImage(t)
    <3>1. hold[t] \in Tasks => /\ data[hold[t]] \in DataRecords
                             /\ [data[hold[t]] EXCEPT !.img = TRUE] \in DataRecords
      <4> SUFFICES ASSUME hold[t] \in Tasks
                   PROVE  /\ data[hold[t]] \in DataRecords
                          /\ [data[hold[t]] EXCEPT !.img = TRUE] \in DataRecords
        OBVIOUS
      <4>1. data[hold[t]] \in DataRecords
        BY DEF TypeOK
      <4> QED
        BY <4>1 DEF DataRecords
    <3>2. reads' \in [Tasks -> (Kinds \X Postcodes) \cup {NoRead}]
      BY <2>3 DEF LoadImage, TypeOK
    <3>3. {"PACKAGE", "CUT_PARCEL"} \subseteq TaskStates
      BY DEF TaskStates
    <3>4. CASE FinishTask(t, "PACKAGE", data[hold[t]])
      BY <3>1, <3>2, <3>3, <3>4, FinishTaskType
    <3>5. CASE FinishTask(t, "CUT_PARCEL", [data[hold[t]] EXCEPT !.img = TRUE])
      BY <3>1, <3>2, <3>3, <3>5, FinishTaskType
    <3> QED
      BY <2>3, <3>4, <3>5 DEF LoadImage
  <2>4. CASE t = "cut" /\ NoParcel
    <3>1. hold[t] \in Tasks => data[hold[t]] \in DataRecords
      BY DEF TypeOK
    <3>2. reads' \in [Tasks -> (Kinds \X Postcodes) \cup {NoRead}]
      BY <2>4 DEF NoParcel, TypeOK
    <3>3. "PACKAGE" \in TaskStates
      BY DEF TaskStates
    <3> QED
      BY <2>4, <3>1, <3>2, <3>3, FinishTaskType DEF NoParcel
  <2>5. CASE t = "cut" /\ CutParcel
    BY <2>5 DEF TypeOK, CutParcel, Working, UpdateOneTask, TaskStates, inputVars, replyVars
  <2>6. CASE t = "cut" /\ NotifyDetector
    <3> DEFINE W == {"acquire", "waiting", "work", "notify", "erase", "gone"}
               pcs == [pc EXCEPT !["cut"] = "acquire"]
    <3>1. pcs \in [Threads -> W]
      BY DEF TypeOK
    <3>2. pc' \in [Threads -> W]
      BY <2>6, <3>1, WakeType DEF NotifyDetector
    <3>3. \A u \in Threads : pc'[u] \in {"work", "notify", "erase"} =>
                             u # "cut" /\ pc[u] = pc'[u]
      BY <1>8, <2>6, <3>1 DEF NotifyDetector, Wake, TypeOK
    <3> QED
      BY <2>6, <3>2, <3>3 DEF TypeOK, NotifyDetector, taskVars, inputVars, replyVars
  <2>7. CASE DetectTags(t)
    <3>0. PICK tags \in TagSets : \E s \in Routes(tags) :
            FinishTask(t, s, [data[hold[t]] EXCEPT !.tags = tags])
      BY <2>7 DEF DetectTags
    <3>1. PICK s \in Routes(tags) : FinishTask(t, s, [data[hold[t]] EXCEPT !.tags = tags])
      BY <3>0
    <3>2. hold[t] \in Tasks => [data[hold[t]] EXCEPT !.tags = tags] \in DataRecords
      <4> SUFFICES ASSUME hold[t] \in Tasks
                   PROVE  [data[hold[t]] EXCEPT !.tags = tags] \in DataRecords
        OBVIOUS
      <4>1. data[hold[t]] \in DataRecords /\ tags \in SUBSET Kinds
        BY InputAssumption DEF TypeOK
      <4> QED
        BY <4>1 DEF DataRecords
    <3>3. s \in TaskStates
      BY InputAssumption DEF Routes, RouteState, Enabled, Kinds, TaskStates
    <3>4. reads' \in [Tasks -> (Kinds \X Postcodes) \cup {NoRead}]
      BY <2>7 DEF DetectTags, TypeOK
    <3> QED
      BY <3>1, <3>2, <3>3, <3>4, FinishTaskType
  <2>8. CASE ReadNothing(t)
    <3>1. hold[t] \in Tasks => data[hold[t]] \in DataRecords
      BY DEF TypeOK
    <3>2. reads' \in [Tasks -> (Kinds \X Postcodes) \cup {NoRead}]
      BY <2>8 DEF ReadNothing, TypeOK
    <3>3. "PACKAGE" \in TaskStates
      BY DEF TaskStates
    <3> QED
      BY <2>8, <3>1, <3>2, <3>3, FinishTaskType DEF ReadNothing
  <2>9. ASSUME NEW code \in Postcodes, ReadPostcode(t, code)
        PROVE  TypeOK'
    <3> DEFINE p == hold[t]
               k == KindRead(t, data[p].tags)
               d == [data[p] EXCEPT !.num = 1, !.kind = k, !.codes = <<code>>]
    <3>1. k \in Kinds
      BY DEF KindRead, ArbKind, Kinds
    <3>2. p \in Tasks => d \in DataRecords
      <4> SUFFICES ASSUME p \in Tasks
                   PROVE  d \in DataRecords
        OBVIOUS
      <4>1. data[p] \in DataRecords
        BY DEF TypeOK
      <4>2. <<code>> \in Seq(Postcodes)
        OBVIOUS
      <4> HIDE DEF k, p
      <4> QED
        BY <3>1, <4>1, <4>2 DEF DataRecords
    <3>3. FinishTask(t, "PACKAGE", d) /\ reads' = [reads EXCEPT ![p] = <<k, code>>]
      BY <2>9 DEF ReadPostcode
    <3>4. reads' \in [Tasks -> (Kinds \X Postcodes) \cup {NoRead}]
      BY <3>1, <3>3 DEF TypeOK
    <3>5. "PACKAGE" \in TaskStates
      BY DEF TaskStates
    <3> QED
      BY <3>2, <3>3, <3>4, <3>5, FinishTaskType
  <2>10. CASE t = "package" /\ PackageNotReady
    BY <2>10
    DEF TypeOK, PackageNotReady, Working, Release, taskVars, inputVars, replyVars
  <2>11. CASE t = "package" /\ PackageMerge
    <3> DEFINE S == StemOf(hold["package"])
               G == Leaders(S, data)
    <3>1. S \subseteq Tasks /\ G \subseteq Tasks
      BY DEF StemOf, Leaders, Candidates
    <3>2. PICK p \in S :
            /\ data' = IF G = {} THEN data
                       ELSE [data EXCEPT ![p] = MergedData(p, G, data, pos, Sub(p))]
            /\ hold' = [hold EXCEPT !["package"] = p]
            /\ stem' = S \ {p}
      BY <2>11 DEF PackageMerge
    <3>3. MergedData(p, G, data, pos, Sub(p)) \in DataRecords
      BY <3>1, MergedDataType, TaskName DEF TypeOK
    <3>4. data' \in [Tasks -> DataRecords]
      BY <3>1, <3>2, <3>3 DEF TypeOK
    <3>5. UNCHANGED <<st, pos, pushed, inputVars, replyVars, reads>>
      BY <2>11 DEF PackageMerge
    <3>6. pc' = [pc EXCEPT !["package"] = "erase"]
      BY <2>11 DEF PackageMerge
    <3>7. p \in Tasks /\ stem' \subseteq Tasks
      BY <3>1, <3>2
    <3> HIDE DEF S, G
    <3> QED
      BY <3>2, <3>4, <3>5, <3>6, <3>7 DEF TypeOK, inputVars, replyVars
  <2>12. CASE t = "package" /\ PackageErase
    BY <2>12, BlankDataType
    DEF TypeOK, PackageErase, EraseOneTask, TaskStates, inputVars, replyVars
  <2>13. CASE t = "package" /\ PackageDone
    BY <2>13
    DEF TypeOK, PackageDone, UpdateOneTask, Release, TaskStates, inputVars, replyVars
  <2>14. CASE t = "send" /\ SendReply
    <3> DEFINE p == hold["send"]
    <3>1. p \in Tasks
      BY <1>8, <2>14 DEF SendReply, Working, TypeOK
    <3>2. Reply(Req(p), data[p]) \in [req : Nat, res : Nat, index : Nat, codes : Seq(Postcodes)]
      BY <3>1, TaskName, ReplyType DEF TypeOK
    <3>3. /\ answers' \in [{0} \cup Requests -> Nat]
          /\ lost' \in [{0} \cup Requests -> Nat]
      <4>1. /\ answers \in [{0} \cup Requests -> Nat]
            /\ lost \in [{0} \cup Requests -> Nat]
        BY DEF TypeOK
      <4>2. /\ \/ answers' = answers
               \/ answers' = [answers EXCEPT ![Req(p)] = @ + 1]
            /\ \/ lost' = lost
               \/ lost' = [lost EXCEPT ![Req(p)] = @ + 1]
        BY <2>14 DEF SendReply
      <4> HIDE DEF p
      <4> QED
        BY <4>1, <4>2
    <3> QED
      BY <2>14, <3>1, <3>2, <3>3 DEF TypeOK, SendReply, taskVars, inputVars
  <2>15. CASE t = "send" /\ SendErase
    BY <2>15, BlankDataType
    DEF TypeOK, SendErase, EraseOneTask, Release, NoReply, TaskStates, inputVars
  <2> QED
    BY <1>8, <2>1, <2>2, <2>3, <2>4, <2>5, <2>6, <2>7, <2>8, <2>9, <2>10, <2>11, <2>12,
       <2>13, <2>14, <2>15
    DEF ThreadStep
<1>9. CASE UNCHANGED vars
  BY <1>9 DEF TypeOK, vars, taskVars, inputVars, threadVars, replyVars
<1> QED
  BY <1>1, <1>2, <1>3, <1>4, <1>5, <1>6, <1>7, <1>8, <1>9 DEF Next, RecvStep

(* Every variable has its type in every reachable state: in particular the *)
(* split of a request stays within its images and a thread that works has  *)
(* a task.                                                                 *)
THEOREM TypeCorrect == Spec => []TypeOK
BY TypeInit, TypeStep, PTL DEF Spec

-----------------------------------------------------------------------------
(* Exclusive work. The two properties about it are inductive together with *)
(* facts on the pool: a task in the pool has been pushed, and nobody but   *)
(* its producer moves it before it is ready to be loaded or cut.           *)

\* Where the tasks of the pool come from.
PoolOK ==
  /\ \A p \in Tasks : st[p] # "NONE" =>
       \/ Req(p) # 0 /\ Pushed(p) /\ p[2] < total[Req(p)]
       \/ Req(p) = 0 /\ (p[2] < gui.img \/ (p[2] = gui.img /\ gui.pc = "cut"))
  /\ recv.pc = "load" => st[RecvTask] = "OPEN"
  /\ gui.pc = "cut" => st[DebugTask] = "OPEN"

\* The tasks the package thread has to erase belong to the request of its mtask.
StemOK ==
  /\ stem # {} => pc["package"] = "erase"
  /\ \A q \in stem : Req(q) = Req(hold["package"]) /\ q # hold["package"]

\* The inductive invariant for exclusive work.
WorkInv == TypeOK /\ PoolOK /\ StemOK /\ ExclusiveWork /\ OwnedStaysInStage

\* No thread gets a task, and no thread's task is moved while it works on it.
OwnedKept ==
  \A u \in Threads : /\ Owned(u)' \subseteq Owned(u)
                     /\ \A p \in Owned(u)' : st'[p] = st[p]

\* A step that leaves the owned tasks alone keeps them exclusive.
LEMMA OwnedKeptSafe ==
  ASSUME WorkInv, OwnedKept
  PROVE  ExclusiveWork' /\ OwnedStaysInStage'
BY DEF WorkInv, OwnedKept, ExclusiveWork, OwnedStaysInStage

\* Every thread asks for states of its own.
LEMMA StagesDisjoint ==
  ASSUME NEW t \in Threads, NEW u \in Threads, t # u
  PROVE  Stage(t) \cap Claimed(u) = {}
BY ThreadAssumption DEF Threads, SingleThreads, Stage, Claimed, ArbStates

\* A task waits for nobody before it is ready, and is erased or moved by nobody but
\* the thread that works on it.
LEMMA ClaimedStates ==
  ASSUME NEW t \in Threads
  PROVE  /\ Claimed(t) \cup Stage(t) \subseteq TaskStates \ {"NONE", "OPEN"}
         /\ t # "send" => "SEND_TASK" \notin Claimed(t) \cup Stage(t)
BY ThreadAssumption DEF Threads, SingleThreads, Stage, Claimed, ArbStates, TaskStates

\* A producer's step, and a step that touches no task, keep what threads own.
LEMMA SameWork ==
  ASSUME WorkInv, UNCHANGED <<hold, stem>>,
         \A t \in Threads : Busy(t)' = Busy(t),
         \A p \in Tasks : st'[p] = st[p] \/ st[p] \in {"NONE", "OPEN"}
  PROVE  OwnedKept
<1>1. ASSUME NEW u \in Threads
      PROVE  Owned(u)' = Owned(u)
  BY DEF Owned
<1>2. ASSUME NEW u \in Threads, NEW p \in Owned(u)
      PROVE  st'[p] = st[p]
  <2>1. p \in Tasks
    BY DEF WorkInv, TypeOK, Owned, Busy
  <2>2. st[p] \notin {"NONE", "OPEN"}
    BY ClaimedStates DEF WorkInv, OwnedStaysInStage
  <2> QED
    BY <2>1, <2>2
<1> QED
  BY <1>1, <1>2 DEF OwnedKept

\* A thread that gives its task up, whatever it does to it, keeps what others own.
LEMMA GiveUp ==
  ASSUME WorkInv, NEW t \in Threads, NEW p \in Owned(t), NEW s,
         st' = [st EXCEPT ![p] = s],
         Owned(t)' \subseteq Owned(t) \ {p},
         \A u \in Threads \ {t} : Owned(u)' \subseteq Owned(u)
  PROVE  OwnedKept
<1>1. ASSUME NEW u \in Threads, NEW q \in Owned(u)'
      PROVE  q \in Owned(u) /\ st'[q] = st[q]
  <2>1. q \in Owned(u) /\ q # p
    BY <1>1 DEF WorkInv, ExclusiveWork
  <2>2. q \in Tasks
    BY <2>1 DEF WorkInv, TypeOK, Owned, Busy
  <2> QED
    BY <2>1, <2>2 DEF WorkInv, TypeOK
<1> QED
  BY <1>1 DEF OwnedKept

\* The threads that finish a task own nothing else.
LEMMA FinishOwned ==
  ASSUME WorkInv, NEW t \in Threads, t # "package", pc[t] = "work", NEW s, NEW d,
         FinishTask(t, s, d)
  PROVE  OwnedKept /\ hold[t] \in Owned(t) /\ \E z : st' = [st EXCEPT ![hold[t]] = z]
<1>1. hold[t] \in Owned(t)
  BY DEF Owned, Busy
<1>2. Owned(t)' = {}
  BY DEF Owned, Busy, FinishTask, Release, WorkInv, TypeOK
<1>3. \A u \in Threads \ {t} : Owned(u)' \subseteq Owned(u)
  BY DEF Owned, Busy, FinishTask, Release, WorkInv, TypeOK
<1>4. PICK z : st' = [st EXCEPT ![hold[t]] = z]
  BY DEF FinishTask, UpdateOneTask
<1> QED
  BY <1>1, <1>2, <1>3, <1>4, GiveUp

\* The threads that finish tasks: all but the package and the send thread.
LEMMA FinishingThread ==
  ASSUME NEW t \in Threads,
         t \in Loaders \/ t \in Detectors \/ t = "cut" \/ t \in OcrThreads
  PROVE  t # "package" /\ t # "send"
BY ThreadAssumption, InputAssumption DEF SingleThreads, OcrThreads

\* A stage thread moves only tasks that are in the pool and ready.
ReadyMoved == \A p \in Tasks : st'[p] # st[p] => st[p] \notin {"NONE", "OPEN"}

\* A thread that is done with its task gives it up.
LEMMA FinishSafe ==
  ASSUME WorkInv, NEW t \in Threads, t # "package", pc[t] = "work", NEW s, NEW d,
         FinishTask(t, s, d)
  PROVE  ExclusiveWork' /\ OwnedStaysInStage' /\ StemOK' /\ ReadyMoved
<1>1. ExclusiveWork' /\ OwnedStaysInStage'
  BY FinishOwned, OwnedKeptSafe
<1>2. StemOK'
  BY DEF FinishTask, Release, WorkInv, TypeOK, StemOK
<1>3. st[hold[t]] \notin {"NONE", "OPEN"}
  BY FinishOwned, ClaimedStates DEF WorkInv, OwnedStaysInStage
<1>4. ReadyMoved
  BY <1>3, FinishOwned DEF ReadyMoved, WorkInv, TypeOK
<1> QED
  BY <1>1, <1>2, <1>4

\* A thread that takes a task is the only one that has it.
LEMMA AcquireSafe ==
  ASSUME WorkInv, NEW t \in Threads, Acquire(t)
  PROVE  ExclusiveWork' /\ OwnedStaysInStage' /\ StemOK' /\ ReadyMoved
<1>1. PICK p \in Tasks :
        /\ IsFirst(p, Stage(t))
        /\ hold' = [hold EXCEPT ![t] = p]
        /\ \/ t \in Loaders /\ st' = [st EXCEPT ![p] = "IS_LOAD_IMAGE"]
           \/ t \in Detectors /\ st' = [st EXCEPT ![p] = "IS_DETECTION"]
           \/ t \in SingleThreads /\ UNCHANGED st
  BY DEF Acquire
<1>2. pc[t] = "acquire" /\ pc' = [pc EXCEPT ![t] = "work"] /\ UNCHANGED stem
  BY DEF Acquire
<1>3. st[p] \in Stage(t)
  BY <1>1 DEF IsFirst, IsFirstOf, InState
<1>4. t = "package" => stem = {}
  BY <1>2 DEF WorkInv, StemOK
<1>5. Owned(t)' = {p}
  BY <1>1, <1>2, <1>4 DEF Owned, Busy, WorkInv, TypeOK
<1>6. \A u \in Threads \ {t} : Owned(u)' = Owned(u)
  BY <1>1, <1>2 DEF Owned, Busy, WorkInv, TypeOK
<1>7. \A u \in Threads \ {t} : p \notin Owned(u)
  BY <1>3, StagesDisjoint DEF WorkInv, OwnedStaysInStage
<1>8. \A q \in Tasks : q # p => st'[q] = st[q]
  BY <1>1 DEF WorkInv, TypeOK
<1>9. st'[p] \in Claimed(t)
  BY <1>1, <1>3, ThreadAssumption DEF Claimed, Stage, SingleThreads, WorkInv, TypeOK
<1>10. ExclusiveWork'
  BY <1>5, <1>6, <1>7 DEF ExclusiveWork, WorkInv
<1>11. OwnedStaysInStage'
  <2>1. ASSUME NEW u \in Threads \ {t}, NEW q \in Owned(u)
        PROVE  st'[q] \in Claimed(u)
    <3>1. q \in Tasks /\ q # p
      BY <1>7 DEF WorkInv, TypeOK, Owned, Busy
    <3> QED
      BY <1>8, <3>1 DEF WorkInv, OwnedStaysInStage
  <2> QED
    BY <1>5, <1>6, <1>9, <2>1 DEF OwnedStaysInStage
<1>12. StemOK'
  BY <1>1, <1>2, <1>4 DEF StemOK, WorkInv, TypeOK
<1>13. ReadyMoved
  BY <1>3, <1>8, ClaimedStates DEF ReadyMoved
<1> QED
  BY <1>10, <1>11, <1>12, <1>13

\* The packaging thread merges into one of the tasks it collected.
LEMMA MergeSafe ==
  ASSUME WorkInv, PackageMerge
  PROVE  ExclusiveWork' /\ OwnedStaysInStage' /\ StemOK' /\ ReadyMoved
<1> DEFINE S == StemOf(hold["package"])
<1>1. PICK p \in S : hold' = [hold EXCEPT !["package"] = p] /\ stem' = S \ {p}
  BY DEF PackageMerge
<1>2. pc["package"] = "work" /\ pc' = [pc EXCEPT !["package"] = "erase"] /\ st' = st
  BY DEF PackageMerge, Working
<1>3. "package" \in Threads /\ Claimed("package") = {"PACKAGE"}
  BY ThreadAssumption DEF Threads, SingleThreads, Claimed, Stage
<1>4. \A q \in S : q \in Tasks /\ st[q] = "PACKAGE" /\ Req(q) = Req(hold["package"])
  BY DEF StemOf
<1>5. Owned("package")' = S
  BY <1>1, <1>2, <1>3 DEF Owned, Busy, WorkInv, TypeOK
<1>6. \A u \in Threads \ {"package"} : Owned(u)' = Owned(u)
  BY <1>1, <1>2 DEF Owned, Busy, WorkInv, TypeOK
<1>7. \A u \in Threads \ {"package"} : Owned(u) \cap S = {}
  <2>1. ASSUME NEW u \in Threads \ {"package"}, NEW q \in Owned(u), q \in S
        PROVE  FALSE
    <3>1. "PACKAGE" \in Claimed(u)
      BY <1>4, <2>1 DEF WorkInv, OwnedStaysInStage
    <3>2. "PACKAGE" \in Stage("package")
      BY ThreadAssumption DEF Stage, SingleThreads
    <3> QED
      BY <1>3, <3>1, <3>2, StagesDisjoint
  <2> QED
    BY <2>1
<1>8. ExclusiveWork'
  BY <1>5, <1>6, <1>7 DEF ExclusiveWork, WorkInv
<1>9. OwnedStaysInStage'
  BY <1>2, <1>3, <1>4, <1>5, <1>6 DEF OwnedStaysInStage, WorkInv
<1>10. StemOK'
  BY <1>1, <1>2, <1>3, <1>4 DEF StemOK, WorkInv, TypeOK
<1>11. ReadyMoved
  BY <1>2 DEF ReadyMoved
<1> QED
  BY <1>8, <1>9, <1>10, <1>11

\* The package thread erases the tasks of stem and lets go of its mtask.
LEMMA PackageSafe ==
  ASSUME WorkInv, PackageNotReady \/ PackageErase \/ PackageDone
  PROVE  ExclusiveWork' /\ OwnedStaysInStage' /\ StemOK' /\ ReadyMoved
<1>0. "package" \in Threads
  BY DEF Threads, SingleThreads
<1>1. CASE PackageNotReady
  <2>1. OwnedKept
    BY <1>1 DEF PackageNotReady, Working, Release, taskVars, OwnedKept, Owned, Busy,
                WorkInv, TypeOK
  <2>2. StemOK' /\ ReadyMoved
    BY <1>1 DEF PackageNotReady, Working, Release, taskVars, WorkInv, StemOK, ReadyMoved
  <2> QED
    BY <2>1, <2>2, OwnedKeptSafe
<1>2. CASE PackageErase
  <2>1. PICK p \in stem : EraseOneTask(p) /\ stem' = stem \ {p}
    BY <1>2 DEF PackageErase
  <2>2. p \in Owned("package") /\ st' = [st EXCEPT ![p] = "NONE"]
    BY <2>1 DEF Owned, EraseOneTask
  <2>3. UNCHANGED <<pc, hold>>
    BY <1>2 DEF PackageErase
  <2>4. p # hold["package"]
    BY <2>1 DEF WorkInv, StemOK
  <2>5. Owned("package")' = Owned("package") \ {p}
    BY <2>1, <2>3, <2>4 DEF Owned, Busy
  <2>6. \A u \in Threads \ {"package"} : Owned(u)' = Owned(u)
    BY <2>1, <2>3 DEF Owned, Busy
  <2>7. OwnedKept
    BY <1>0, <2>2, <2>5, <2>6, GiveUp
  <2>8. StemOK'
    BY <2>1, <2>3 DEF WorkInv, StemOK
  <2>9. st[p] \notin {"NONE", "OPEN"}
    BY <1>0, <2>2, ClaimedStates DEF WorkInv, OwnedStaysInStage
  <2>10. ReadyMoved
    BY <2>2, <2>9 DEF ReadyMoved, WorkInv, TypeOK
  <2> QED
    BY <2>7, <2>8, <2>10, OwnedKeptSafe
<1>3. CASE PackageDone
  <2> DEFINE p == hold["package"]
  <2>1. p \in Owned("package")
    BY <1>3 DEF PackageDone, Owned, Busy
  <2>2. PICK z : st' = [st EXCEPT ![p] = z]
    BY <1>3 DEF PackageDone, UpdateOneTask
  <2>3. /\ stem = {}
        /\ stem' = stem
        /\ pc' = [pc EXCEPT !["package"] = "acquire"]
        /\ hold' = [hold EXCEPT !["package"] = NoTask]
    BY <1>3 DEF PackageDone, Release
  <2>4. Owned("package")' = {}
    BY <1>0, <2>3 DEF Owned, Busy, WorkInv, TypeOK
  <2>5. \A u \in Threads \ {"package"} : Owned(u)' = Owned(u)
    BY <2>3 DEF Owned, Busy, WorkInv, TypeOK
  <2>6. OwnedKept
    BY <1>0, <2>1, <2>2, <2>4, <2>5, GiveUp
  <2>7. StemOK'
    BY <2>3 DEF StemOK
  <2>8. st[p] \notin {"NONE", "OPEN"}
    BY <1>0, <2>1, ClaimedStates DEF WorkInv, OwnedStaysInStage
  <2>9. ReadyMoved
    BY <2>2, <2>8 DEF ReadyMoved, WorkInv, TypeOK
  <2> QED
    BY <2>6, <2>7, <2>9, OwnedKeptSafe
<1> QED
  BY <1>1, <1>2, <1>3

\* The send thread erases the task it has answered.
LEMMA SendSafe ==
  ASSUME WorkInv, SendReply \/ SendErase
  PROVE  ExclusiveWork' /\ OwnedStaysInStage' /\ StemOK' /\ ReadyMoved
<1>0. "send" \in Threads
  BY DEF Threads, SingleThreads
<1>1. CASE SendReply
  <2>1. /\ UNCHANGED <<st, hold, stem>>
        /\ pc["send"] = "work"
        /\ pc' = [pc EXCEPT !["send"] = "erase"]
    BY <1>1 DEF SendReply, Working, taskVars
  <2>2. \A t \in Threads : Busy(t)' = Busy(t)
    BY <2>1 DEF Busy, WorkInv, TypeOK
  <2>3. OwnedKept
    BY <2>1, <2>2, SameWork
  <2>4. StemOK' /\ ReadyMoved
    BY <2>1 DEF WorkInv, TypeOK, StemOK, ReadyMoved
  <2> QED
    BY <2>3, <2>4, OwnedKeptSafe
<1>2. CASE SendErase
  <2> DEFINE p == hold["send"]
  <2>1. p \in Owned("send")
    BY <1>2 DEF SendErase, Owned, Busy
  <2>2. /\ st' = [st EXCEPT ![p] = "NONE"]
        /\ stem' = stem
        /\ pc' = [pc EXCEPT !["send"] = "acquire"]
        /\ hold' = [hold EXCEPT !["send"] = NoTask]
    BY <1>2 DEF SendErase, EraseOneTask, Release
  <2>3. Owned("send")' = {}
    BY <1>0, <2>2 DEF Owned, Busy, WorkInv, TypeOK
  <2>4. \A u \in Threads \ {"send"} : Owned(u)' = Owned(u)
    BY <2>2 DEF Owned, Busy, WorkInv, TypeOK
  <2>5. OwnedKept
    BY <1>0, <2>1, <2>2, <2>3, <2>4, GiveUp
  <2>6. StemOK'
    BY <2>2 DEF WorkInv, TypeOK, StemOK
  <2>7. st[p] \notin {"NONE", "OPEN"}
    BY <1>0, <2>1, ClaimedStates DEF WorkInv, OwnedStaysInStage
  <2>8. ReadyMoved
    BY <2>2, <2>7 DEF ReadyMoved, WorkInv, TypeOK
  <2> QED
    BY <2>5, <2>6, <2>8, OwnedKeptSafe
<1> QED
  BY <1>1, <1>2

\* The cut thread hands its task to the detector in two steps.
LEMMA CutSafe ==
  ASSUME WorkInv, CutParcel \/ NotifyDetector
  PROVE  ExclusiveWork' /\ OwnedStaysInStage' /\ StemOK' /\ ReadyMoved
<1>0. "cut" \in Threads /\ "package" \in Threads
  BY DEF Threads, SingleThreads
<1>1. CASE CutParcel
  <2> DEFINE p == hold["cut"]
  <2>1. p \in Owned("cut")
    BY <1>1 DEF CutParcel, Working, Owned, Busy
  <2>2. PICK z : st' = [st EXCEPT ![p] = z]
    BY <1>1 DEF CutParcel, UpdateOneTask
  <2>3. UNCHANGED <<hold, stem>> /\ pc' = [pc EXCEPT !["cut"] = "notify"]
    BY <1>1 DEF CutParcel
  <2>4. Owned("cut")' = {}
    BY <1>0, <2>3 DEF Owned, Busy, WorkInv, TypeOK
  <2>5. \A u \in Threads \ {"cut"} : Owned(u)' = Owned(u)
    BY <2>3 DEF Owned, Busy, WorkInv, TypeOK
  <2>6. OwnedKept
    BY <1>0, <2>1, <2>2, <2>4, <2>5, GiveUp
  <2>7. StemOK'
    BY <2>3 DEF WorkInv, TypeOK, StemOK
  <2>8. st[p] \notin {"NONE", "OPEN"}
    BY <1>0, <2>1, ClaimedStates DEF WorkInv, OwnedStaysInStage
  <2>9. ReadyMoved
    BY <2>2, <2>8 DEF ReadyMoved, WorkInv, TypeOK
  <2> QED
    BY <2>6, <2>7, <2>9, OwnedKeptSafe
<1>2. CASE NotifyDetector
  <2>1. /\ UNCHANGED <<st, stem>>
        /\ pc["cut"] = "notify"
        /\ hold' = [hold EXCEPT !["cut"] = NoTask]
    BY <1>2 DEF NotifyDetector, taskVars
  <2>2. \A t \in Threads :
          pc'[t] = pc[t] \/ (pc[t] \notin {"work", "erase"} /\ pc'[t] = "acquire")
    BY <1>0, <1>2, <2>1 DEF NotifyDetector, Wake, WorkInv, TypeOK
  <2>3. pc'["cut"] = "acquire"
    BY <1>0, <1>2 DEF NotifyDetector, Wake, WorkInv, TypeOK
  <2>4. \A t \in Threads : Owned(t)' = Owned(t)
    BY <2>1, <2>2, <2>3 DEF Owned, Busy, WorkInv, TypeOK
  <2>5. OwnedKept
    BY <2>1, <2>4 DEF OwnedKept
  <2>6. StemOK' /\ ReadyMoved
    BY <1>0, <2>1, <2>2 DEF WorkInv, TypeOK, StemOK, ReadyMoved
  <2> QED
    BY <2>5, <2>6, OwnedKeptSafe
<1> QED
  BY <1>1, <1>2

\* Every step of a thread keeps the work exclusive.
LEMMA ThreadSafe ==
  ASSUME WorkInv, NEW t \in Threads, ThreadStep(t)
  PROVE  ExclusiveWork' /\ OwnedStaysInStage' /\ StemOK' /\ ReadyMoved
<1>1. CASE Acquire(t)
  BY <1>1, AcquireSafe
<1>2. CASE WaitForTask(t)
  <2>1. UNCHANGED <<st, hold, stem>> /\ pc[t] = "acquire" /\ pc' = [pc EXCEPT ![t] = "waiting"]
    BY <1>2 DEF WaitForTask, taskVars
  <2>2. \A u \in Threads : Busy(u)' = Busy(u)
    BY <2>1 DEF Busy, WorkInv, TypeOK
  <2>3. OwnedKept
    BY <2>1, <2>2, SameWork
  <2>4. StemOK' /\ ReadyMoved
    BY <2>1 DEF WorkInv, TypeOK, StemOK, ReadyMoved
  <2> QED
    BY <2>3, <2>4, OwnedKeptSafe
<1>3. CASE LoadImage(t)
  BY <1>3, FinishSafe, FinishingThread DEF LoadImage, Working
<1>4. CASE t = "cut" /\ NoParcel
  BY <1>4, FinishSafe DEF NoParcel, Working
<1>5. CASE DetectTags(t)
  BY <1>5, FinishSafe, FinishingThread DEF DetectTags, Working
<1>6. CASE ReadNothing(t)
  BY <1>6, FinishSafe, FinishingThread DEF ReadNothing, Working
<1>7. ASSUME NEW code \in Postcodes, ReadPostcode(t, code)
      PROVE  ExclusiveWork' /\ OwnedStaysInStage' /\ StemOK' /\ ReadyMoved
  BY <1>7, FinishSafe, FinishingThread DEF ReadPostcode, Working
<1> QED
  BY <1>1, <1>2, <1>3, <1>4, <1>5, <1>6, <1>7, CutSafe, PackageSafe, MergeSafe, SendSafe
  DEF ThreadStep

\* The stage threads leave the producers alone.
LEMMA ThreadInputs ==
  ASSUME NEW t \in Threads, ThreadStep(t)
  PROVE  UNCHANGED <<total, recv, gui>>
BY DEF ThreadStep, Acquire, WaitForTask, LoadImage, NoParcel, CutParcel, NotifyDetector,
       DetectTags, ReadNothing, ReadPostcode, PackageNotReady, PackageMerge, PackageErase,
       PackageDone, SendReply, SendErase, FinishTask, inputVars

\* The task that thread_recv_msg pushes belongs to the request it splits.
LEMMA RecvTaskName ==
  ASSUME TypeOK, recv.pc \in {"start", "load", "notify"}
  PROVE  /\ RecvTask \in Tasks
         /\ Req(RecvTask) = recv.req /\ RecvTask[2] = recv.img /\ Sub(RecvTask) = recv.img
         /\ recv.req \in Requests /\ recv.img \in Nat /\ recv.img < total[recv.req]
<1>1. recv.req \in Requests /\ recv.img \in Nat /\ recv.img < total[recv.req]
  BY BoundsAssumption DEF TypeOK, RecvRecords
<1>2. total[recv.req] \in 0..MaxImages
  BY <1>1 DEF TypeOK
<1>3. RecvTask \in Tasks
  BY <1>1, <1>2, BoundsAssumption DEF RecvTask, Tasks
<1> QED
  BY <1>1, <1>3, BoundsAssumption DEF RecvTask, Sub

\* Before a task is pushed it is not in the pool.
LEMMA NotPushedNone ==
  ASSUME WorkInv
  PROVE  /\ recv.pc = "start" => st[RecvTask] = "NONE"
         /\ gui.pc = "idle" /\ gui.img < MaxDebug => st[DebugTask] = "NONE"
<1>1. ASSUME recv.pc = "start"
      PROVE  st[RecvTask] = "NONE"
  <2>1. ~Pushed(RecvTask) /\ Req(RecvTask) # 0 /\ RecvTask \in Tasks
    BY <1>1, RecvTaskName, BoundsAssumption DEF WorkInv, Pushed
  <2> QED
    BY <2>1 DEF WorkInv, PoolOK
<1>2. ASSUME gui.pc = "idle", gui.img < MaxDebug
      PROVE  st[DebugTask] = "NONE"
  <2>1. DebugTask \in Tasks /\ Req(DebugTask) = 0 /\ DebugTask[2] = gui.img
    BY <1>2, BoundsAssumption DEF DebugTask, Tasks, DebugTasks, WorkInv, TypeOK
  <2>2. gui.img \in Nat
    BY DEF WorkInv, TypeOK
  <2> QED
    BY <1>2, <2>1, <2>2 DEF WorkInv, PoolOK
<1> QED
  BY <1>1, <1>2

Producing == \/ \E msg \in Messages : RecvRequest(msg)
             \/ RecvStep
             \/ ReadPastPaths
             \/ StartDebugTask
             \/ CutDebugTask

\* The producers move only tasks that are not ready yet.
LEMMA ProducerSafe ==
  ASSUME WorkInv, Producing
  PROVE  ExclusiveWork' /\ OwnedStaysInStage' /\ StemOK'
<1>1. UNCHANGED <<hold, stem>>
  BY DEF Producing, RecvRequest, RecvStep, StartSubtask, LoadSubtask, NotifyLoader,
         ReadPastPaths, StartDebugTask, CutDebugTask, threadVars
<1>2. \A t \in Threads :
        pc'[t] = pc[t] \/ (pc[t] \notin {"work", "erase"} /\ pc'[t] = "acquire")
  BY DEF Producing, RecvRequest, RecvStep, StartSubtask, LoadSubtask, NotifyLoader, Wake,
         ReadPastPaths, StartDebugTask, CutDebugTask, threadVars
<1>3. \A p \in Tasks : st'[p] = st[p] \/ st[p] \in {"NONE", "OPEN"}
  <2>1. CASE StartSubtask
    <3>1. st' = [st EXCEPT ![RecvTask] = "OPEN"] /\ recv.pc = "start"
      BY <2>1 DEF StartSubtask, StartOneTask
    <3> QED
      BY <3>1, NotPushedNone DEF WorkInv, TypeOK
  <2>2. CASE LoadSubtask
    <3>1. PICK z : st' = [st EXCEPT ![RecvTask] = z]
      BY <2>2 DEF LoadSubtask, UpdateOneTask
    <3>2. st[RecvTask] = "OPEN"
      BY <2>2 DEF LoadSubtask, WorkInv, PoolOK
    <3> QED
      BY <3>1, <3>2 DEF WorkInv, TypeOK
  <2>3. CASE StartDebugTask
    <3>1. st' = [st EXCEPT ![DebugTask] = "OPEN"] /\ st[DebugTask] = "NONE"
      BY <2>3, NotPushedNone DEF StartDebugTask
    <3> QED
      BY <3>1 DEF WorkInv, TypeOK
  <2>4. CASE CutDebugTask
    <3>1. PICK z : st' = [st EXCEPT ![DebugTask] = z]
      BY <2>4 DEF CutDebugTask, UpdateOneTask
    <3>2. st[DebugTask] = "OPEN"
      BY <2>4 DEF CutDebugTask, WorkInv, PoolOK
    <3> QED
      BY <3>1, <3>2 DEF WorkInv, TypeOK
  <2>5. CASE UNCHANGED st
    BY <2>5
  <2> QED
    BY <2>1, <2>2, <2>3, <2>4, <2>5
    DEF Producing, RecvStep, RecvRequest, NotifyLoader, ReadPastPaths, taskVars
<1>4. \A t \in Threads : Busy(t)' = Busy(t)
  BY <1>2 DEF Busy
<1>5. OwnedKept
  BY <1>1, <1>3, <1>4, SameWork
<1>6. StemOK'
  <2>1. "package" \in Threads
    BY DEF Threads, SingleThreads
  <2> QED
    BY <1>1, <1>2, <2>1 DEF WorkInv, StemOK
<1> QED
  BY <1>5, <1>6, OwnedKeptSafe

\* A task that was pushed counts as pushed for good, and its request keeps its total.
LEMMA PushedKept ==
  ASSUME TypeOK, [Next]_vars
  PROVE  /\ recv.req <= recv'.req
         /\ \A r \in Requests : r <= recv.req => total'[r] = total[r]
         /\ \A p \in Tasks : Req(p) # 0 /\ Pushed(p) =>
              Pushed(p)' /\ total'[Req(p)] = total[Req(p)]
<1>0. /\ \A p \in Tasks : Req(p) \in Nat /\ Sub(p) \in Nat
      /\ recv.req \in Nat /\ recv.img \in Nat
      /\ total \in [Requests -> 0..MaxImages]
  <2>1. \A p \in Tasks : Req(p) \in Nat /\ Sub(p) \in Nat
    BY TaskName
  <2>2. /\ recv.req \in Nat /\ recv.img \in Nat
        /\ total \in [Requests -> 0..MaxImages]
    BY BoundsAssumption DEF TypeOK, RecvRecords
  <2> QED
    BY <2>1, <2>2
<1>1. CASE \E msg \in Messages : RecvRequest(msg)
  <2>1. PICK n, msg : /\ recv.pc = "recv"
                      /\ recv' = [pc |-> IF n = 0 THEN "recv" ELSE "start",
                                  req |-> recv.req + 1, img |-> 0, paths |-> msg]
                      /\ total' = [total EXCEPT ![recv.req + 1] = n]
    BY <1>1 DEF RecvRequest
  <2>2. ASSUME NEW p \in Tasks, Req(p) # 0, Pushed(p)
        PROVE  Pushed(p)' /\ total'[Req(p)] = total[Req(p)]
    <3>1. Req(p) <= recv.req
      BY <1>0, <2>2 DEF Pushed
    <3>2. Req(p) \in Requests
      BY <2>2, TaskName
    <3>3. Pushed(p)'
      BY <1>0, <2>1, <3>1 DEF Pushed, Sub
    <3> QED
      BY <1>0, <2>1, <3>1, <3>2, <3>3
  <2>3. ASSUME NEW r \in Requests, r <= recv.req
        PROVE  total'[r] = total[r]
    BY <1>0, <2>1, <2>3
  <2> QED
    BY <1>0, <2>1, <2>2, <2>3
<1>2. CASE StartSubtask
  BY <1>0, <1>2 DEF StartSubtask, Pushed, Sub, TypeOK, RecvRecords
<1>3. CASE LoadSubtask
  BY <1>0, <1>3 DEF LoadSubtask, Pushed, Sub, TypeOK, RecvRecords
<1>4. CASE NotifyLoader
  <2>1. /\ recv.pc = "notify" /\ recv'.req = recv.req /\ recv'.img = recv.img + 1
        /\ total' = total
    BY <1>4 DEF NotifyLoader, TypeOK, RecvRecords
  <2> QED
    BY <1>0, <2>1 DEF Pushed, Sub
<1>5. CASE ReadPastPaths
  BY <1>0, <1>5 DEF ReadPastPaths, Pushed, Sub, TypeOK, RecvRecords
<1>6. CASE UNCHANGED <<recv, total>>
  BY <1>0, <1>6 DEF Pushed, Sub
<1> QED
  BY <1>1, <1>2, <1>3, <1>4, <1>5, <1>6, ThreadInputs
  DEF Next, RecvStep, StartDebugTask, CutDebugTask, vars, inputVars

\* The image the operator pushes is one of the debug tasks.
LEMMA DebugTaskName ==
  ASSUME TypeOK, gui.pc = "cut"
  PROVE  DebugTask \in Tasks /\ Req(DebugTask) = 0 /\ gui.img \in Nat
BY BoundsAssumption DEF DebugTask, Tasks, DebugTasks, TypeOK

\* A step on the pool keeps what is said of the pool.
LEMMA PoolStep ==
  ASSUME WorkInv, [Next]_vars
  PROVE  PoolOK'
<1>0. \A p \in Tasks : Req(p) # 0 /\ Pushed(p) =>
        Pushed(p)' /\ total'[Req(p)] = total[Req(p)]
  BY PushedKept DEF WorkInv
<1>1. CASE \E t \in Threads : ThreadStep(t)
  <2>1. ReadyMoved
    BY <1>1, ThreadSafe
  <2>2. UNCHANGED <<total, recv, gui>>
    BY <1>1, ThreadInputs
  <2>3. \A p \in Tasks : /\ st'[p] # "NONE" => st[p] # "NONE"
                         /\ st[p] = "OPEN" => st'[p] = "OPEN"
    BY <2>1 DEF ReadyMoved
  <2>4. recv.pc = "load" => RecvTask \in Tasks
    BY RecvTaskName DEF WorkInv
  <2>5. gui.pc = "cut" => DebugTask \in Tasks
    BY DebugTaskName DEF WorkInv
  <2>6. /\ recv'.pc = "load" => st'[RecvTask'] = "OPEN"
        /\ gui'.pc = "cut" => st'[DebugTask'] = "OPEN"
    BY <2>2, <2>3, <2>4, <2>5 DEF WorkInv, PoolOK, RecvTask, DebugTask
  <2> QED
    <3>1. ASSUME NEW p \in Tasks, st'[p] # "NONE"
          PROVE  \/ Req(p) # 0 /\ Pushed(p)' /\ p[2] < total'[Req(p)]
                 \/ Req(p) = 0 /\ (p[2] < gui'.img \/ (p[2] = gui'.img /\ gui'.pc = "cut"))
      <4>1. st[p] # "NONE"
        BY <2>3, <3>1
      <4>2. \/ Req(p) # 0 /\ Pushed(p) /\ p[2] < total[Req(p)]
            \/ Req(p) = 0 /\ (p[2] < gui.img \/ (p[2] = gui.img /\ gui.pc = "cut"))
        BY <4>1 DEF WorkInv, PoolOK
      <4>3. Req(p) # 0 /\ Pushed(p) => Pushed(p)'
        BY <1>0
      <4> QED
        BY <2>2, <4>2, <4>3
    <3> QED
      BY <2>6, <3>1 DEF PoolOK
<1>2. CASE \E msg \in Messages : RecvRequest(msg)
  <2>1. UNCHANGED <<st, gui>> /\ recv'.pc # "load"
    BY <1>2 DEF RecvRequest, taskVars
  <2> QED
    BY <1>0, <2>1 DEF WorkInv, PoolOK, DebugTask
<1>3. CASE StartSubtask
  <2>1. /\ recv.pc = "start" /\ recv' = [recv EXCEPT !.pc = "load"]
        /\ st' = [st EXCEPT ![RecvTask] = "OPEN"]
        /\ UNCHANGED <<total, gui>>
    BY <1>3 DEF StartSubtask, StartOneTask
  <2>2. /\ recv'.pc = "load" /\ recv'.req = recv.req /\ recv'.img = recv.img
        /\ RecvTask' = RecvTask
    BY <2>1 DEF RecvTask, WorkInv, TypeOK, RecvRecords
  <2>3. /\ RecvTask \in Tasks
        /\ \A p \in Tasks : p = RecvTask => Req(p) # 0 /\ Pushed(p)' /\ p[2] < total[Req(p)]
    BY <2>1, <2>2, RecvTaskName, BoundsAssumption DEF WorkInv, Pushed, Sub
  <2>4. st'[RecvTask'] = "OPEN"
    BY <2>1, <2>2, <2>3 DEF WorkInv, TypeOK
  <2>5. gui.pc = "cut" => st'[DebugTask] = "OPEN"
    BY <2>1, DebugTaskName DEF WorkInv, TypeOK, PoolOK
  <2>6. \A p \in Tasks : p # RecvTask => st'[p] = st[p]
    BY <2>1 DEF WorkInv, TypeOK
  <2>7. DebugTask' = DebugTask
    BY <2>1 DEF DebugTask
  <2>8. \A p \in Tasks : st'[p] # "NONE" /\ Req(p) # 0 => Pushed(p)' /\ p[2] < total'[Req(p)]
    BY <1>0, <2>1, <2>3, <2>6 DEF WorkInv, PoolOK
  <2>9. \A p \in Tasks : st'[p] # "NONE" /\ Req(p) = 0 =>
          p[2] < gui.img \/ (p[2] = gui.img /\ gui.pc = "cut")
    BY <2>3, <2>6 DEF WorkInv, PoolOK
  <2> QED
    BY <2>1, <2>4, <2>5, <2>7, <2>8, <2>9 DEF PoolOK
<1>4. CASE LoadSubtask \/ NotifyLoader \/ ReadPastPaths
  <2>1. /\ UNCHANGED <<total, gui>> /\ recv'.pc # "load"
        /\ \/ UNCHANGED st
           \/ /\ recv.pc = "load"
              /\ \E z : st' = [st EXCEPT ![RecvTask] = z]
    BY <1>4 DEF LoadSubtask, NotifyLoader, ReadPastPaths, UpdateOneTask, taskVars, WorkInv,
                TypeOK, RecvRecords
  <2>2. recv.pc = "load" => RecvTask \in Tasks /\ Req(RecvTask) # 0
    BY RecvTaskName DEF WorkInv
  <2>3. \A p \in Tasks : st'[p] # "NONE" => st[p] # "NONE"
    BY <2>1 DEF WorkInv, TypeOK, PoolOK
  <2>4. gui.pc = "cut" => st'[DebugTask] = "OPEN"
    BY <2>1, <2>2, DebugTaskName DEF WorkInv, TypeOK, PoolOK
  <2> QED
    BY <1>0, <2>1, <2>3, <2>4 DEF WorkInv, PoolOK, DebugTask
<1>5. CASE StartDebugTask
  <2>1. /\ UNCHANGED <<total, recv>>
        /\ st' = [st EXCEPT ![DebugTask] = "OPEN"]
        /\ gui.pc = "idle" /\ gui' = [gui EXCEPT !.pc = "cut"] /\ gui.img < MaxDebug
    BY <1>5 DEF StartDebugTask
  <2>2. /\ DebugTask \in Tasks /\ Req(DebugTask) = 0 /\ DebugTask[2] = gui.img
        /\ gui'.pc = "cut" /\ gui'.img = gui.img /\ DebugTask' = DebugTask
    BY <2>1, BoundsAssumption DEF DebugTask, Tasks, DebugTasks, WorkInv, TypeOK
  <2>3. st'[DebugTask'] = "OPEN" /\ \A p \in Tasks : p # DebugTask => st'[p] = st[p]
    BY <2>1, <2>2 DEF WorkInv, TypeOK
  <2>4. recv.pc = "load" => st'[RecvTask] = "OPEN"
    BY <2>2, <2>3, RecvTaskName DEF WorkInv, PoolOK
  <2>5. \A p \in Tasks : st'[p] # "NONE" => p = DebugTask \/ st[p] # "NONE"
    BY <2>3
  <2> QED
    BY <1>0, <2>1, <2>2, <2>3, <2>4, <2>5 DEF WorkInv, PoolOK, RecvTask
<1>6. CASE CutDebugTask
  <2>1. /\ UNCHANGED <<total, recv>>
        /\ gui.pc = "cut" /\ gui'.pc = "idle" /\ gui'.img = gui.img + 1
    BY <1>6 DEF CutDebugTask
  <2>2. PICK z : st' = [st EXCEPT ![DebugTask] = z]
    BY <1>6 DEF CutDebugTask, UpdateOneTask
  <2>3. DebugTask \in Tasks /\ Req(DebugTask) = 0 /\ gui.img \in Nat
    BY <2>1, DebugTaskName DEF WorkInv
  <2>4. \A p \in Tasks : st'[p] # "NONE" => st[p] # "NONE"
    BY <2>1, <2>2 DEF WorkInv, TypeOK, PoolOK
  <2>5. recv.pc = "load" => st'[RecvTask] = "OPEN"
    BY <2>2, <2>3, RecvTaskName DEF WorkInv, TypeOK, PoolOK
  <2>6. \A p \in Tasks : Req(p) = 0 /\ st'[p] # "NONE" => p[2] < gui'.img
    <3>1. \A p \in Tasks : Req(p) = 0 => p[2] \in Nat
      BY BoundsAssumption DEF Tasks, DebugTasks
    <3> QED
      BY <2>1, <2>3, <2>4, <3>1 DEF WorkInv, PoolOK
  <2> QED
    BY <1>0, <2>1, <2>4, <2>5, <2>6 DEF WorkInv, PoolOK, RecvTask
<1>7. CASE UNCHANGED vars
  BY <1>7 DEF vars, taskVars, inputVars, WorkInv, PoolOK, Pushed, RecvTask, DebugTask
<1> QED
  BY <1>1, <1>2, <1>3, <1>4, <1>5, <1>6, <1>7 DEF Next, RecvStep

\* WorkInv holds at the start.
LEMMA WorkInit == Init => WorkInv
<1> SUFFICES ASSUME Init
             PROVE  WorkInv
  OBVIOUS
<1>1. TypeOK
  BY TypeInit
<1>2. PoolOK /\ StemOK
  BY DEF Init, PoolOK, StemOK
<1>3. \A t \in Threads : Owned(t) = {}
  BY DEF Init, Owned, Busy
<1> QED
  BY <1>1, <1>2, <1>3 DEF WorkInv, ExclusiveWork, OwnedStaysInStage

\* Every step keeps WorkInv.
LEMMA WorkStep == WorkInv /\ [Next]_vars => WorkInv'
<1> SUFFICES ASSUME WorkInv, [Next]_vars
             PROVE  WorkInv'
  OBVIOUS
<1>1. TypeOK' /\ PoolOK'
  BY TypeStep, PoolStep DEF WorkInv
<1>2. CASE Producing
  BY <1>1, <1>2, ProducerSafe DEF WorkInv
<1>3. CASE \E t \in Threads : ThreadStep(t)
  BY <1>1, <1>3, ThreadSafe DEF WorkInv
<1>4. CASE UNCHANGED vars
  <2>1. UNCHANGED <<st, pc, hold, stem>>
    BY <1>4 DEF vars, taskVars, threadVars
  <2> QED
    BY <1>1, <2>1 DEF WorkInv, StemOK, ExclusiveWork, OwnedStaysInStage, Owned, Busy
<1> QED
  BY <1>2, <1>3, <1>4 DEF Next, Producing

\* WorkInv always holds.
LEMMA WorkInvariant == Spec => []WorkInv
BY WorkInit, WorkStep, PTL DEF Spec

(* No two threads ever work on the same task, for any number of loader and *)
(* detector threads, although the other threads leave a task they take in  *)
(* the state in which they found it.                                       *)
THEOREM WorkIsExclusive == Spec => []ExclusiveWork
BY WorkInvariant, PTL DEF WorkInv

(* A task that a thread works on, or that the package thread has still to  *)
(* erase, is in the pool, in the state that thread asked for.              *)
THEOREM WorkStaysInStage == Spec => []OwnedStaysInStage
BY WorkInvariant, PTL DEF WorkInv

-----------------------------------------------------------------------------
(* One reply per request. Once the package thread has counted a task for   *)
(* every image of a request, all of them have been pushed, and nothing of  *)
(* the request is left but what it erases, then its mtask, then nothing.   *)

\* Only the tasks of S are left of request r.
OnlyLeft(r, S) == \A p \in Tasks : Req(p) = r /\ st[p] # "NONE" => p \in S

\* An answered request has no task left.
AnsweredOK ==
  \A r \in Requests : answers[r] + lost[r] > 0 =>
    /\ r <= recv.req
    /\ AllPushed(r)
    /\ OnlyLeft(r, IF pc["send"] = "erase" THEN {hold["send"]} ELSE {})

\* A packaged request has its merged task only.
MergedOK ==
  pc["package"] = "erase" /\ Req(hold["package"]) # 0 =>
    /\ AllPushed(Req(hold["package"]))
    /\ OnlyLeft(Req(hold["package"]), stem \cup {hold["package"]})

\* The inductive invariant for whole and single replies.
WholeInv == WorkInv /\ AtMostOneReply /\ PackagedWhole /\ AnsweredOK /\ MergedOK

\* The names of the tasks of a request.
Images(r) == {r} \X (0..(total[r] - 1))

\* A request announced with n images has n names of tasks.
LEMMA ImagesCardinality ==
  ASSUME TypeOK, NEW r \in Requests
  PROVE  IsFiniteSet(Images(r)) /\ Cardinality(Images(r)) = total[r]
<1> DEFINE n == total[r]
           f == [i \in 0..(n - 1) |-> <<r, i>>]
<1>1. n \in Nat
  BY BoundsAssumption DEF TypeOK
<1>2. f \in Bijection(0..(n - 1), Images(r))
  <2>1. f \in [0..(n - 1) -> Images(r)]
    BY DEF Images
  <2>2. \A i, j \in 0..(n - 1) : f[i] = f[j] => i = j
    OBVIOUS
  <2>3. \A p \in Images(r) : \E i \in 0..(n - 1) : f[i] = p
    BY DEF Images
  <2> QED
    BY <2>1, <2>2, <2>3 DEF Bijection, Injection, Surjection, IsInjective
<1>3. IsFiniteSet(0..(n - 1)) /\ Cardinality(0..(n - 1)) = n
  <2> HIDE DEF n
  <2>1. n - 1 \in Int /\ 0 \in Int
    BY <1>1
  <2>2. /\ IsFiniteSet(0..(n - 1))
        /\ Cardinality(0..(n - 1)) = IF 0 > n - 1 THEN 0 ELSE (n - 1) - 0 + 1
    BY <2>1, FS_Interval
  <2> QED
    BY <1>1, <2>2
<1> QED
  BY <1>2, <1>3, FS_Bijection DEF ExistsBijection

\* If there are as many tasks to package as the request has images, they are its images.
LEMMA StemIsWhole ==
  ASSUME WorkInv, NEW p \in Tasks, Req(p) # 0, Cardinality(StemOf(p)) >= total[Req(p)]
  PROVE  StemOf(p) = Images(Req(p))
<1> DEFINE r == Req(p)
<1>1. r \in Requests
  BY TaskName
<1>2. IsFiniteSet(Images(r)) /\ Cardinality(Images(r)) = total[r]
  BY <1>1, ImagesCardinality DEF WorkInv
<1>3. total[r] \in Nat
  BY <1>1, BoundsAssumption DEF WorkInv, TypeOK
<1>4. StemOf(p) \subseteq Images(r)
  <2>1. ASSUME NEW q \in StemOf(p)
        PROVE  q \in Images(r)
    <3>1. q \in Tasks /\ Req(q) = r /\ st[q] = "PACKAGE"
      BY DEF StemOf
    <3>2. q[2] < total[r]
      BY <3>1 DEF WorkInv, PoolOK
    <3>3. q = <<r, q[2]>> /\ q[2] \in Nat
      BY <3>1, BoundsAssumption DEF Tasks, DebugTasks
    <3> QED
      BY <1>3, <3>2, <3>3 DEF Images
  <2> QED
    BY <2>1
<1>5. IsFiniteSet(StemOf(p)) /\ Cardinality(StemOf(p)) <= Cardinality(Images(r))
  BY <1>2, <1>4, FS_Subset
<1>6. Cardinality(StemOf(p)) \in Nat
  BY <1>5, FS_CardinalityType
<1>7. Cardinality(StemOf(p)) = Cardinality(Images(r))
  BY <1>2, <1>3, <1>5, <1>6
<1> QED
  BY <1>2, <1>4, <1>7, FS_Subset

\* All of a request stays pushed.
LEMMA AllPushedKept ==
  ASSUME TypeOK, [Next]_vars, NEW r \in Requests, r <= recv.req, AllPushed(r)
  PROVE  r <= recv'.req /\ AllPushed(r)'
<1>1. total'[r] = total[r] /\ total[r] \in 0..MaxImages /\ r # 0
  <2>1. total'[r] = total[r]
    BY PushedKept
  <2>2. total[r] \in 0..MaxImages
    BY DEF TypeOK
  <2>3. r # 0
    BY BoundsAssumption DEF Requests
  <2> QED
    BY <2>1, <2>2, <2>3
<1>2. ASSUME NEW i \in 0..(total[r] - 1)
      PROVE  Pushed(<<r, i>>)'
  <2>1. <<r, i>> \in Tasks /\ Req(<<r, i>>) # 0
    BY <1>1, BoundsAssumption DEF Tasks
  <2>2. Pushed(<<r, i>>)
    BY DEF AllPushed
  <2> QED
    BY <2>1, <2>2, PushedKept
<1>3. recv.req \in Nat /\ recv'.req \in Nat
  <2>1. TypeOK'
    BY TypeStep
  <2>2. recv \in RecvRecords /\ recv' \in RecvRecords
    BY <2>1 DEF TypeOK
  <2> QED
    BY <2>2, BoundsAssumption DEF RecvRecords
<1> QED
  BY <1>1, <1>2, <1>3, PushedKept DEF AllPushed

\* A task in the pool belongs to a request that has come.
LEMMA PoolRequest ==
  ASSUME WorkInv, NEW p \in Tasks, Req(p) # 0, st[p] # "NONE"
  PROVE  Req(p) \in Requests /\ Req(p) <= recv.req
<1>1. Pushed(p)
  BY DEF WorkInv, PoolOK
<1>2. recv \in RecvRecords
  BY DEF WorkInv, TypeOK
<1>3. recv.req \in Nat
  BY <1>2, BoundsAssumption DEF RecvRecords
<1>4. Req(p) \in Requests
  BY TaskName
<1> QED
  BY <1>1, <1>3, <1>4, BoundsAssumption DEF Pushed, Requests

\* A step that answers nothing, merges nothing and adds no task to a request that is
\* pushed as a whole keeps the facts on replies.
LEMMA WholeKept ==
  ASSUME WholeInv, [Next]_vars, UNCHANGED <<answers, lost>>,
         \A p \in Tasks : Req(p) # 0 /\ st[p] = "NONE" /\ st'[p] # "NONE" =>
           ~AllPushed(Req(p)),
         \A p \in Tasks : st'[p] = "SEND_TASK" => st[p] = "SEND_TASK",
         pc["send"] = "erase" =>
           \/ pc'["send"] = "erase" /\ hold'["send"] = hold["send"]
           \/ st'[hold["send"]] = "NONE",
         pc'["package"] = "erase" =>
           /\ pc["package"] = "erase"
           /\ hold'["package"] = hold["package"]
           /\ \A q \in stem : q \in stem' \/ st'[q] = "NONE"
  PROVE  WholeInv'
<1>0. WorkInv /\ TypeOK /\ WorkInv'
  BY WorkStep DEF WholeInv, WorkInv
<1>1. ASSUME NEW p \in Tasks, Req(p) # 0, st'[p] # "NONE", AllPushed(Req(p))
      PROVE  st[p] # "NONE"
  BY <1>1
<1>2. ASSUME NEW r \in Requests, r <= recv.req, AllPushed(r)
      PROVE  r <= recv'.req /\ AllPushed(r)'
  BY <1>0, <1>2, AllPushedKept
<1>3. AtMostOneReply'
  BY DEF WholeInv, AtMostOneReply
<1>4. PackagedWhole'
  <2>1. ASSUME NEW p \in Tasks, st'[p] = "SEND_TASK", Req(p) # 0
        PROVE  AllPushed(Req(p))' /\ \A q \in Tasks : Req(q) = Req(p) /\ q # p => st'[q] = "NONE"
    <3>1. st[p] = "SEND_TASK"
      BY <2>1
    <3>2. AllPushed(Req(p)) /\ \A q \in Tasks : Req(q) = Req(p) /\ q # p => st[q] = "NONE"
      BY <2>1, <3>1 DEF WholeInv, PackagedWhole, InState
    <3>3. Req(p) \in Requests /\ Req(p) <= recv.req
      BY <1>0, <2>1, <3>1, PoolRequest
    <3> QED
      BY <1>1, <1>2, <2>1, <3>2, <3>3
  <2> QED
    BY <2>1 DEF PackagedWhole, InState
<1>5. AnsweredOK'
  <2>1. ASSUME NEW r \in Requests, answers[r] + lost[r] > 0
        PROVE  /\ r <= recv'.req
               /\ AllPushed(r)'
               /\ \A p \in Tasks : Req(p) = r /\ st'[p] # "NONE" =>
                    pc'["send"] = "erase" /\ p = hold'["send"]
    <3>1. /\ r <= recv.req
          /\ AllPushed(r)
          /\ \A p \in Tasks : Req(p) = r /\ st[p] # "NONE" =>
               pc["send"] = "erase" /\ p = hold["send"]
      BY <2>1 DEF WholeInv, AnsweredOK, OnlyLeft
    <3>2. r # 0
      OBVIOUS
    <3>3. \A p \in Tasks : Req(p) = r /\ st'[p] # "NONE" => st[p] # "NONE"
      BY <1>1, <3>1, <3>2
    <3> QED
      BY <1>2, <3>1, <3>3
  <2> QED
    BY <2>1 DEF AnsweredOK, OnlyLeft
<1>6. MergedOK'
  <2>1. ASSUME pc'["package"] = "erase", Req(hold'["package"]) # 0
        PROVE  /\ AllPushed(Req(hold["package"]))'
               /\ \A p \in Tasks : Req(p) = Req(hold["package"]) /\ st'[p] # "NONE" =>
                    p \in stem' \cup {hold["package"]}
    <3>1. pc["package"] = "erase" /\ hold'["package"] = hold["package"]
      BY <2>1
    <3> DEFINE m == hold["package"]
    <3>2. m \in Tasks /\ st[m] # "NONE"
      <4>1. "package" \in Threads
        BY DEF Threads, SingleThreads
      <4>2. m \in Owned("package") /\ m \in Tasks
        BY <1>0, <3>1, <4>1 DEF Owned, Busy, TypeOK
      <4> QED
        BY <1>0, <4>1, <4>2, ClaimedStates DEF WorkInv, OwnedStaysInStage
    <3>3. Req(m) \in Requests /\ Req(m) <= recv.req /\ Req(m) # 0
      BY <1>0, <2>1, <3>1, <3>2, PoolRequest
    <3>4. /\ AllPushed(Req(m))
          /\ \A p \in Tasks : Req(p) = Req(m) /\ st[p] # "NONE" => p \in stem \cup {m}
      BY <3>1, <3>3 DEF WholeInv, MergedOK, OnlyLeft
    <3>5. ASSUME NEW p \in Tasks, Req(p) = Req(m), st'[p] # "NONE"
          PROVE  p \in stem' \cup {m}
      <4>1. p \in stem \cup {m}
        BY <1>1, <3>3, <3>4, <3>5
      <4> QED
        BY <2>1, <3>5, <4>1
    <3>6. ASSUME NEW r \in Requests, r = Req(m)
          PROVE  AllPushed(r)'
      BY <1>2, <3>3, <3>4, <3>6
    <3> QED
      BY <3>1, <3>3, <3>5, <3>6
  <2> QED
    BY <2>1 DEF MergedOK, OnlyLeft
<1> QED
  BY <1>0, <1>3, <1>4, <1>5, <1>6 DEF WholeInv

\* The package and the send thread are two of the threads.
LEMMA LastThreads ==
  /\ {"package", "send"} \subseteq Threads
  /\ Claimed("package") = {"PACKAGE"}
  /\ Claimed("send") = {"SEND_TASK"}
BY ThreadAssumption DEF Threads, SingleThreads, Claimed, Stage

\* PackageMerge finds the whole request.
LEMMA MergeWhole ==
  ASSUME WholeInv, PackageMerge
  PROVE  WholeInv'
<1> DEFINE p == hold["package"]
           S == StemOf(p)
<1>0. WorkInv /\ TypeOK /\ WorkInv' /\ [Next]_vars
  BY WorkStep, LastThreads DEF WholeInv, WorkInv, Next, ThreadStep
<1>1. PICK m \in S : hold' = [hold EXCEPT !["package"] = m] /\ stem' = S \ {m}
  BY DEF PackageMerge
<1>2. /\ pc["package"] = "work" /\ pc' = [pc EXCEPT !["package"] = "erase"]
      /\ UNCHANGED <<st, total, recv, answers, lost>>
      /\ Cardinality(S) >= TotalOf(p)
  BY DEF PackageMerge, Working, inputVars, replyVars
<1>3. hold'["package"] = m /\ hold'["send"] = hold["send"] /\ pc'["send"] = pc["send"]
  BY <1>0, <1>1, <1>2, LastThreads DEF TypeOK
<1>4. p \in Tasks /\ Req(m) = Req(p) /\ m \in Tasks
  BY <1>0, <1>1, <1>2, LastThreads DEF TypeOK, StemOf
<1>5. UNCHANGED <<st, answers, lost>> /\ (\A r \in Requests : AllPushed(r)' = AllPushed(r))
  BY <1>2 DEF AllPushed, Pushed, Sub
<1>6. AtMostOneReply' /\ AnsweredOK'
  BY <1>2, <1>3, <1>5 DEF WholeInv, AtMostOneReply, AnsweredOK, OnlyLeft
<1>7. PackagedWhole'
  BY <1>2 DEF WholeInv, PackagedWhole, InState, AllPushed, Pushed
<1>8. ASSUME Req(p) # 0
      PROVE  /\ AllPushed(Req(p))
             /\ \A q \in Tasks : Req(q) = Req(p) /\ st[q] # "NONE" => q \in S
  <2>1. S = Images(Req(p))
    BY <1>0, <1>2, <1>4, <1>8, StemIsWhole DEF TotalOf
  <2>2. ASSUME NEW i \in 0..(total[Req(p)] - 1)
        PROVE  Pushed(<<Req(p), i>>)
    <3>1. <<Req(p), i>> \in S
      BY <2>1 DEF Images
    <3>2. <<Req(p), i>> \in Tasks /\ st[<<Req(p), i>>] = "PACKAGE"
      BY <3>1 DEF StemOf
    <3> QED
      BY <1>0, <1>8, <3>2 DEF WorkInv, PoolOK
  <2>3. ASSUME NEW q \in Tasks, Req(q) = Req(p), st[q] # "NONE"
        PROVE  q \in S
    <3>1. q[2] < total[Req(p)]
      BY <1>0, <1>8, <2>3 DEF WorkInv, PoolOK
    <3>2. q = <<Req(p), q[2]>> /\ q[2] \in Nat /\ total[Req(p)] \in Nat
      <4>1. q = <<Req(p), q[2]>> /\ q[2] \in Nat
        BY <2>3, BoundsAssumption DEF Tasks, DebugTasks
      <4>2. Req(p) \in Requests
        BY <1>4, <1>8, TaskName
      <4>3. total \in [Requests -> 0..MaxImages]
        BY <1>0 DEF TypeOK
      <4> QED
        BY ONLY <4>1, <4>2, <4>3, BoundsAssumption
    <3> QED
      BY ONLY <2>1, <3>1, <3>2 DEF Images
  <2> QED
    BY <2>2, <2>3 DEF AllPushed
<1>9. MergedOK'
  <2>1. ASSUME Req(m) # 0
        PROVE  /\ AllPushed(Req(m))'
               /\ \A q \in Tasks : Req(q) = Req(m) /\ st[q] # "NONE" => q \in stem' \cup {m}
    <3>1. Req(m) \in Requests
      BY <1>4, <2>1, TaskName
    <3>2. AllPushed(Req(m)) /\ \A q \in Tasks : Req(q) = Req(m) /\ st[q] # "NONE" => q \in S
      BY <1>4, <1>8, <2>1
    <3> QED
      BY <1>1, <1>5, <3>1, <3>2
  <2>2. st' = st
    BY <1>2
  <2> QED
    BY <1>3, <2>1, <2>2 DEF MergedOK, OnlyLeft
<1> QED
  BY <1>0, <1>6, <1>7, <1>9 DEF WholeInv

\* PackageDone passes on the only task that is left of the request.
LEMMA DoneWhole ==
  ASSUME WholeInv, PackageDone
  PROVE  WholeInv'
<1> DEFINE m == hold["package"]
<1>0. WorkInv /\ TypeOK /\ WorkInv' /\ [Next]_vars
  BY WorkStep, LastThreads DEF WholeInv, WorkInv, Next, ThreadStep
<1>1. /\ pc["package"] = "erase" /\ stem = {}
      /\ pc' = [pc EXCEPT !["package"] = "acquire"]
      /\ hold' = [hold EXCEPT !["package"] = NoTask]
      /\ UNCHANGED <<total, recv, answers, lost>>
      /\ UpdateOneTask(m, "SEND_TASK")
  BY DEF PackageDone, Release, inputVars, replyVars
<1>2. m \in Tasks /\ st[m] = "PACKAGE"
  <2>1. m \in Owned("package") /\ m \in Tasks
    BY <1>0, <1>1, LastThreads DEF Owned, Busy, TypeOK
  <2> QED
    BY <1>0, <2>1, LastThreads DEF WorkInv, OwnedStaysInStage
<1>3. \A q \in Tasks : st'[q] = IF q = m THEN "SEND_TASK" ELSE st[q]
  BY <1>0, <1>1, <1>2 DEF UpdateOneTask, TypeOK
<1>4. /\ pc'["package"] = "acquire"
      /\ pc'["send"] = pc["send"] /\ hold'["send"] = hold["send"]
  BY <1>0, <1>1, LastThreads DEF TypeOK
<1>5. \A r \in Requests : AllPushed(r)' = AllPushed(r)
  BY <1>1 DEF AllPushed, Pushed, Sub
<1>6. AtMostOneReply' /\ MergedOK'
  BY <1>1, <1>4 DEF WholeInv, AtMostOneReply, MergedOK
<1>7. AnsweredOK'
  <2>1. \A q \in Tasks : st'[q] # "NONE" <=> st[q] # "NONE"
    BY <1>2, <1>3
  <2>2. UNCHANGED <<recv, answers, lost>>
    BY <1>1
  <2> QED
    BY <1>4, <1>5, <2>1, <2>2 DEF WholeInv, AnsweredOK, OnlyLeft
<1>8. PackagedWhole'
  <2>1. ASSUME NEW q \in Tasks, st'[q] = "SEND_TASK", Req(q) # 0
        PROVE  /\ AllPushed(Req(q))
               /\ \A u \in Tasks : Req(u) = Req(q) /\ u # q => st'[u] = "NONE"
    <3>1. CASE q = m
      BY <1>1, <1>3, <2>1, <3>1 DEF WholeInv, MergedOK, OnlyLeft
    <3>2. CASE q # m
      <4>1. st[q] = "SEND_TASK"
        BY <1>3, <2>1, <3>2
      <4>2. /\ AllPushed(Req(q))
            /\ \A u \in Tasks : Req(u) = Req(q) /\ u # q => st[u] = "NONE"
        BY <2>1, <4>1 DEF WholeInv, PackagedWhole, InState
      <4>3. Req(m) # Req(q)
        BY <1>2, <3>2, <4>2
      <4> QED
        BY <1>3, <4>2, <4>3
    <3> QED
      BY <3>1, <3>2
  <2>2. ASSUME NEW q \in Tasks, Req(q) # 0
        PROVE  Req(q) \in Requests
    BY <2>2, TaskName
  <2> QED
    BY <1>5, <2>1, <2>2 DEF PackagedWhole, InState
<1> QED
  BY <1>0, <1>6, <1>7, <1>8 DEF WholeInv

\* SendReply answers a request of which nothing else is left.
LEMMA ReplyWhole ==
  ASSUME WholeInv, SendReply
  PROVE  WholeInv'
<1> DEFINE p == hold["send"]
           r == Req(p)
<1>0. WorkInv /\ TypeOK /\ WorkInv' /\ [Next]_vars
  BY WorkStep, LastThreads DEF WholeInv, WorkInv, Next, ThreadStep
<1>1. /\ pc["send"] = "work" /\ pc' = [pc EXCEPT !["send"] = "erase"]
      /\ UNCHANGED <<st, hold, stem, total, recv>>
  BY DEF SendReply, Working, taskVars, inputVars
<1>2. \/ answers' = [answers EXCEPT ![r] = @ + 1] /\ lost' = lost
      \/ lost' = [lost EXCEPT ![r] = @ + 1] /\ answers' = answers
  BY DEF SendReply
<1>3. p \in Tasks /\ st[p] = "SEND_TASK"
  <2>1. p \in Owned("send") /\ p \in Tasks
    BY <1>0, <1>1, LastThreads DEF Owned, Busy, TypeOK
  <2> QED
    BY <1>0, <2>1, LastThreads DEF WorkInv, OwnedStaysInStage
<1>4. pc'["send"] = "erase" /\ hold'["send"] = p /\ pc'["package"] = pc["package"]
  BY <1>0, <1>1, LastThreads DEF TypeOK
<1>5. \A x \in Requests : AllPushed(x)' = AllPushed(x)
  BY <1>1 DEF AllPushed, Pushed, Sub
<1>6. \A x \in Requests : answers[x] \in Nat /\ lost[x] \in Nat
  BY <1>0 DEF TypeOK
<1>7. ASSUME NEW x \in Requests, x # r
      PROVE  answers'[x] = answers[x] /\ lost'[x] = lost[x]
  BY <1>0, <1>2, <1>7 DEF TypeOK
<1>8. ASSUME r \in Requests
      PROVE  /\ r <= recv.req
             /\ AllPushed(r)
             /\ \A q \in Tasks : Req(q) = r /\ st[q] # "NONE" => q = p
             /\ answers'[r] + lost'[r] = 1
  <2>1. r # 0
    BY <1>8
  <2>2. r <= recv.req
    BY <1>0, <1>3, <2>1, PoolRequest
  <2>3. AllPushed(r) /\ \A q \in Tasks : Req(q) = r /\ st[q] # "NONE" => q = p
    BY <1>3, <2>1 DEF WholeInv, PackagedWhole, InState
  <2>4. ~(answers[r] + lost[r] > 0)
    BY <1>1, <1>3, <1>8 DEF WholeInv, AnsweredOK, OnlyLeft
  <2>5. answers[r] = 0 /\ lost[r] = 0
    BY <1>6, <1>8, <2>4
  <2>6. r \in DOMAIN answers /\ r \in DOMAIN lost
    BY <1>0, <1>8 DEF TypeOK
  <2>7. answers'[r] + lost'[r] = 1
    BY <1>2, <2>5, <2>6
  <2> QED
    BY <2>2, <2>3, <2>7
<1>9. AtMostOneReply'
  <2>1. ASSUME NEW x \in Requests
        PROVE  answers'[x] + lost'[x] <= 1
    BY <1>7, <1>8 DEF WholeInv, AtMostOneReply
  <2> QED
    BY <2>1 DEF AtMostOneReply
<1>10. AnsweredOK'
  <2>1. ASSUME NEW x \in Requests, answers'[x] + lost'[x] > 0
        PROVE  /\ x <= recv.req
               /\ AllPushed(x)
               /\ \A q \in Tasks : Req(q) = x /\ st[q] # "NONE" => q = p
    <3>1. CASE x = r
      BY <1>8, <3>1
    <3>2. CASE x # r
      BY <1>1, <1>7, <2>1, <3>2 DEF WholeInv, AnsweredOK, OnlyLeft
    <3> QED
      BY <3>1, <3>2
  <2> QED
    BY <1>1, <1>4, <1>5, <2>1 DEF AnsweredOK, OnlyLeft
<1>11. PackagedWhole'
  BY <1>1 DEF WholeInv, PackagedWhole, InState, AllPushed, Pushed
<1>12. MergedOK'
  BY <1>1, <1>4 DEF WholeInv, MergedOK, OnlyLeft, AllPushed, Pushed
<1> QED
  BY <1>0, <1>9, <1>10, <1>11, <1>12 DEF WholeInv

\* WholeInv holds at the start.
LEMMA WholeInit == Init => WholeInv
<1> SUFFICES ASSUME Init
             PROVE  WholeInv
  OBVIOUS
<1>1. WorkInv
  BY WorkInit
<1>2. /\ \A p \in Tasks : st[p] = "NONE"
      /\ \A r \in Requests : answers[r] = 0 /\ lost[r] = 0
      /\ pc["package"] # "erase"
  BY LastThreads DEF Init
<1> QED
  BY <1>1, <1>2 DEF WholeInv, AtMostOneReply, PackagedWhole, InState, AnsweredOK, MergedOK

\* The steps of the threads before the package thread, and of the package thread
\* between two requests, answer and merge nothing.
LEMMA FinishWhole ==
  ASSUME WholeInv, [Next]_vars, NEW t \in Threads, t # "package", t # "send",
         NEW s \in TaskStates \ {"SEND_TASK"}, NEW d, FinishTask(t, s, d), ReadyMoved
  PROVE  WholeInv'
<1>0. TypeOK
  BY DEF WholeInv, WorkInv
<1>1. /\ st' = [st EXCEPT ![hold[t]] = IF @ = "NONE" THEN "NONE" ELSE s]
      /\ pc' = [pc EXCEPT ![t] = "acquire"]
      /\ hold' = [hold EXCEPT ![t] = NoTask]
      /\ UNCHANGED <<stem, answers, lost>>
  BY DEF FinishTask, UpdateOneTask, Release, replyVars
<1>2. \A u \in {"package", "send"} : pc'[u] = pc[u] /\ hold'[u] = hold[u]
  BY <1>0, <1>1, LastThreads DEF TypeOK
<1>3. \A p \in Tasks : st'[p] = "SEND_TASK" => st[p] = "SEND_TASK"
  BY <1>0, <1>1 DEF TypeOK
<1>4. \A p \in Tasks : st[p] = "NONE" => st'[p] = "NONE"
  BY DEF ReadyMoved
<1> QED
  BY <1>1, <1>2, <1>3, <1>4, WholeKept

\* Every step of a thread keeps WholeInv.
LEMMA ThreadWhole ==
  ASSUME WholeInv, NEW t \in Threads, ThreadStep(t)
  PROVE  WholeInv'
<1>0. WorkInv /\ TypeOK /\ [Next]_vars
  BY DEF WholeInv, WorkInv, Next
<1>1. ReadyMoved
  BY <1>0, ThreadSafe
<1>2. \A p \in Tasks : st[p] = "NONE" => st'[p] = "NONE"
  BY <1>1 DEF ReadyMoved
<1>3. {"PACKAGE", "CUT_PARCEL"} \subseteq TaskStates \ {"SEND_TASK"}
  BY DEF TaskStates
<1>4. CASE Acquire(t)
  <2>1. /\ pc[t] = "acquire" /\ pc' = [pc EXCEPT ![t] = "work"]
        /\ \E p : hold' = [hold EXCEPT ![t] = p]
        /\ \/ UNCHANGED st
           \/ \E p, s : s # "SEND_TASK" /\ st' = [st EXCEPT ![p] = s]
        /\ UNCHANGED <<stem, answers, lost>>
    BY <1>4 DEF Acquire, replyVars
  <2>2. \A u \in {"package", "send"} :
          /\ pc[u] = "erase" => pc'[u] = "erase" /\ hold'[u] = hold[u]
          /\ pc'[u] = "erase" => pc[u] = "erase" /\ hold'[u] = hold[u]
    BY <1>0, <2>1, LastThreads DEF TypeOK
  <2>3. \A p \in Tasks : st'[p] = "SEND_TASK" => st[p] = "SEND_TASK"
    BY <1>0, <2>1 DEF TypeOK
  <2> QED
    BY <1>0, <1>2, <2>1, <2>2, <2>3, WholeKept
<1>5. CASE WaitForTask(t)
  <2>1. /\ pc[t] = "acquire" /\ pc' = [pc EXCEPT ![t] = "waiting"]
        /\ UNCHANGED <<st, hold, stem, answers, lost>>
    BY <1>5 DEF WaitForTask, taskVars, replyVars
  <2>2. \A u \in {"package", "send"} : pc[u] = "erase" <=> pc'[u] = "erase"
    BY <1>0, <2>1, LastThreads DEF TypeOK
  <2> QED
    BY <1>0, <2>1, <2>2, WholeKept
<1>6. CASE LoadImage(t)
  BY <1>0, <1>1, <1>3, <1>6, FinishWhole, FinishingThread DEF LoadImage
<1>7. CASE t = "cut" /\ NoParcel
  BY <1>0, <1>1, <1>3, <1>7, FinishWhole DEF NoParcel
<1>8. CASE t = "cut" /\ CutParcel
  <2>1. /\ st' = [st EXCEPT ![hold["cut"]] = IF @ = "NONE" THEN "NONE" ELSE "DETECTION"]
        /\ pc' = [pc EXCEPT !["cut"] = "notify"]
        /\ UNCHANGED <<hold, stem, answers, lost>>
    BY <1>8 DEF CutParcel, UpdateOneTask, replyVars
  <2>2. \A u \in {"package", "send"} : pc'[u] = pc[u]
    BY <1>0, <2>1, LastThreads DEF TypeOK
  <2>3. \A p \in Tasks : st'[p] = "SEND_TASK" => st[p] = "SEND_TASK"
    BY <1>0, <2>1 DEF TypeOK
  <2> QED
    BY <1>0, <1>2, <2>1, <2>2, <2>3, WholeKept
<1>9. CASE t = "cut" /\ NotifyDetector
  <2>1. /\ UNCHANGED <<st, stem, answers, lost>>
        /\ hold' = [hold EXCEPT !["cut"] = NoTask]
        /\ pc' = Wake(hold["cut"], [pc EXCEPT !["cut"] = "acquire"])
    BY <1>9 DEF NotifyDetector, taskVars, replyVars
  <2>2. \A u \in {"package", "send"} :
          hold'[u] = hold[u] /\ (pc[u] = "erase" <=> pc'[u] = "erase")
    BY <1>0, <2>1, LastThreads DEF Wake, TypeOK
  <2> QED
    BY <1>0, <2>1, <2>2, WholeKept
<1>10. CASE DetectTags(t)
  <2>1. PICK tags \in TagSets : \E s \in Routes(tags) :
          FinishTask(t, s, [data[hold[t]] EXCEPT !.tags = tags])
    BY <1>10 DEF DetectTags
  <2>2. PICK s \in Routes(tags) : FinishTask(t, s, [data[hold[t]] EXCEPT !.tags = tags])
    BY <2>1
  <2>3. s \in TaskStates \ {"SEND_TASK"}
    BY InputAssumption DEF Routes, RouteState, Enabled, Kinds, TaskStates
  <2>4. t # "package" /\ t # "send"
    BY <1>10, FinishingThread DEF DetectTags
  <2> QED
    BY <1>0, <1>1, <2>2, <2>3, <2>4, FinishWhole
<1>11. CASE ReadNothing(t)
  BY <1>0, <1>1, <1>3, <1>11, FinishWhole, FinishingThread DEF ReadNothing
<1>12. ASSUME NEW code \in Postcodes, ReadPostcode(t, code)
       PROVE  WholeInv'
  BY <1>0, <1>1, <1>3, <1>12, FinishWhole, FinishingThread DEF ReadPostcode
<1>13. CASE t = "package" /\ PackageNotReady
  <2>1. /\ UNCHANGED <<st, stem, answers, lost>>
        /\ pc["package"] = "work"
        /\ pc' = [pc EXCEPT !["package"] = "acquire"]
        /\ hold' = [hold EXCEPT !["package"] = NoTask]
    BY <1>13 DEF PackageNotReady, Working, Release, taskVars, replyVars
  <2>2. /\ pc'["send"] = pc["send"] /\ hold'["send"] = hold["send"]
        /\ pc'["package"] = "acquire"
    BY <1>0, <2>1, LastThreads DEF TypeOK
  <2> QED
    BY <1>0, <2>1, <2>2, WholeKept
<1>14. CASE t = "package" /\ PackageErase
  <2>1. PICK p \in stem : st' = [st EXCEPT ![p] = "NONE"] /\ stem' = stem \ {p}
    BY <1>14 DEF PackageErase, EraseOneTask
  <2>2. UNCHANGED <<pc, hold, answers, lost>>
    BY <1>14 DEF PackageErase, replyVars
  <2>3. \A q \in stem : q \in stem' \/ st'[q] = "NONE"
    BY <1>0, <2>1 DEF TypeOK
  <2>4. \A q \in Tasks : st'[q] = "SEND_TASK" => st[q] = "SEND_TASK"
    BY <1>0, <2>1 DEF TypeOK
  <2> QED
    BY <1>0, <1>2, <2>2, <2>3, <2>4, WholeKept
<1>15. CASE t = "send" /\ SendErase
  <2>1. /\ pc["send"] = "erase"
        /\ st' = [st EXCEPT ![hold["send"]] = "NONE"]
        /\ pc' = [pc EXCEPT !["send"] = "acquire"]
        /\ hold' = [hold EXCEPT !["send"] = NoTask]
        /\ UNCHANGED <<stem, answers, lost>>
    BY <1>15 DEF SendErase, EraseOneTask, Release
  <2>2. /\ pc'["package"] = pc["package"] /\ hold'["package"] = hold["package"]
        /\ hold["send"] \in Tasks
    BY <1>0, <2>1, LastThreads DEF TypeOK
  <2>3. st'[hold["send"]] = "NONE"
    BY <1>0, <2>1, <2>2 DEF TypeOK
  <2>4. \A q \in Tasks : st'[q] = "SEND_TASK" => st[q] = "SEND_TASK"
    BY <1>0, <2>1 DEF TypeOK
  <2> QED
    BY <1>0, <1>2, <2>1, <2>2, <2>3, <2>4, WholeKept
<1> QED
  BY <1>4, <1>5, <1>6, <1>7, <1>8, <1>9, <1>10, <1>11, <1>12, <1>13, <1>14, <1>15,
     MergeWhole, DoneWhole, ReplyWhole
  DEF ThreadStep

\* Every step keeps WholeInv.
LEMMA WholeStep == WholeInv /\ [Next]_vars => WholeInv'
<1> SUFFICES ASSUME WholeInv, [Next]_vars
             PROVE  WholeInv'
  OBVIOUS
<1>0. WorkInv /\ TypeOK
  BY DEF WholeInv, WorkInv
<1>1. CASE \E t \in Threads : ThreadStep(t)
  BY <1>1, ThreadWhole
<1>2. CASE Producing \/ UNCHANGED vars
  <2>1. UNCHANGED <<hold, stem, answers, lost>>
    BY <1>2 DEF Producing, RecvRequest, RecvStep, StartSubtask, LoadSubtask, NotifyLoader,
                ReadPastPaths, StartDebugTask, CutDebugTask, threadVars, replyVars, vars
  <2>2. \A u \in {"package", "send"} : pc[u] = "erase" <=> pc'[u] = "erase"
    BY <1>2, LastThreads
    DEF Producing, RecvRequest, RecvStep, StartSubtask, LoadSubtask, NotifyLoader, Wake,
        ReadPastPaths, StartDebugTask, CutDebugTask, threadVars, vars
  <2>3. \A p \in Tasks : st'[p] = "SEND_TASK" => st[p] = "SEND_TASK"
    BY <1>0, <1>2
    DEF Producing, RecvRequest, RecvStep, StartSubtask, StartOneTask, LoadSubtask,
        UpdateOneTask, NotifyLoader, ReadPastPaths, StartDebugTask, CutDebugTask, taskVars,
        vars, TypeOK
  <2>4. ASSUME NEW p \in Tasks, Req(p) # 0, st[p] = "NONE", st'[p] # "NONE"
        PROVE  ~AllPushed(Req(p))
    <3>1. StartSubtask \/ LoadSubtask \/ StartDebugTask \/ CutDebugTask
      BY <1>2, <2>4
      DEF Producing, RecvRequest, RecvStep, NotifyLoader, ReadPastPaths, taskVars, vars
    <3>2. CASE StartSubtask
      <4>1. p = RecvTask /\ recv.pc = "start"
        BY <1>0, <2>4, <3>2 DEF StartSubtask, StartOneTask, TypeOK
      <4>2. ~Pushed(<<Req(p), recv.img>>) /\ recv.img \in 0..(total[Req(p)] - 1)
        <5>1. /\ recv.req \in Requests /\ recv.img \in Nat
              /\ recv.img < total[recv.req] /\ Req(p) = recv.req
          BY <1>0, <4>1, RecvTaskName
        <5>2. total[recv.req] \in Nat /\ recv.req # 0
          BY <1>0, <5>1, BoundsAssumption DEF TypeOK
        <5>3. ~Pushed(<<recv.req, recv.img>>)
          BY <4>1, <5>1, <5>2, BoundsAssumption DEF Pushed, Sub
        <5> QED
          BY <5>1, <5>2, <5>3
      <4> QED
        BY <4>2 DEF AllPushed
    <3>3. CASE LoadSubtask
      BY <1>0, <2>4, <3>3 DEF LoadSubtask, UpdateOneTask, TypeOK
    <3>4. CASE StartDebugTask
      <4>1. p = DebugTask
        BY <1>0, <2>4, <3>4 DEF StartDebugTask, TypeOK
      <4> QED
        BY <2>4, <4>1 DEF DebugTask
    <3>5. CASE CutDebugTask
      BY <1>0, <2>4, <3>5 DEF CutDebugTask, UpdateOneTask, TypeOK
    <3> QED
      BY <3>1, <3>2, <3>3, <3>4, <3>5
  <2> QED
    BY <2>1, <2>2, <2>3, <2>4, WholeKept
<1> QED
  BY <1>1, <1>2 DEF Next, Producing

\* WholeInv always holds.
LEMMA WholeInvariant == Spec => []WholeInv
BY WholeInit, WholeStep, PTL DEF Spec

(* A request gets at most one reply, whatever its number of images and the *)
(* order in which the threads finish them.                                 *)
THEOREM OneReply == Spec => []AtMostOneReply
BY WholeInvariant, PTL DEF WholeInv

(* When a task is handed to the send thread, every image of its request    *)
(* has been pushed and no other task of the request is in the pool.        *)
THEOREM RequestsPackagedWhole == Spec => []PackagedWhole
BY WholeInvariant, PTL DEF WholeInv

-----------------------------------------------------------------------------
(* No wake-up is lost. The invariant is inductive as it stands: a task     *)
(* becomes ready in the step in which its thread gets to the notification, *)
(* no thread goes to wait while a task is ready, and the notification      *)
(* finds the task still ready or somebody has taken it.                    *)

\* The threads that wait, and the states they wait for.
WaitingKept ==
  /\ \A t \in Loaders \cup Detectors : pc'[t] = "waiting" => pc[t] = "waiting"
  /\ \A p \in Tasks : st'[p] = "LOAD_IMAGE" => st[p] = "LOAD_IMAGE"
  /\ \A p \in Tasks : st'[p] = "DETECTION" => st[p] = "DETECTION"

\* A step after which nobody new waits and nothing new is ready loses no wake-up, if
\* those who are about to notify still are.
LEMMA WakeupKept ==
  ASSUME NoLostWakeup, WaitingKept,
         recv.pc = "notify" /\ Alive' => recv'.pc = "notify" /\ RecvTask' = RecvTask,
         Alive' => Alive,
         pc["cut"] = "notify" => pc'["cut"] = "notify" /\ hold'["cut"] = hold["cut"]
  PROVE  NoLostWakeup'
BY DEF NoLostWakeup, WaitingKept, InState

\* A thread that is done with its task makes it ready for another thread, but never for
\* a loader or a detector.
LEMMA FinishWakes ==
  ASSUME TypeOK, NoLostWakeup, NEW t \in Threads, pc[t] = "work", NEW s, NEW d,
         s \notin {"LOAD_IMAGE", "DETECTION"},
         FinishTask(t, s, d)
  PROVE  NoLostWakeup'
<1>1. /\ hold[t] \in Tasks
      /\ st' = [st EXCEPT ![hold[t]] = IF @ = "NONE" THEN "NONE" ELSE s]
      /\ pc' = [pc EXCEPT ![t] = "acquire"]
      /\ hold' = [hold EXCEPT ![t] = NoTask]
      /\ recv' = recv
  BY DEF TypeOK, FinishTask, UpdateOneTask, Release, inputVars
<1>2. WaitingKept
  BY <1>1 DEF WaitingKept, TypeOK, Threads
<1>3. /\ pc["cut"] = "notify" => pc'["cut"] = "notify" /\ hold'["cut"] = hold["cut"]
  BY <1>1 DEF TypeOK, Threads, SingleThreads
<1>4. (recv.pc = "notify" => recv'.pc = "notify" /\ RecvTask' = RecvTask) /\ (Alive' => Alive)
  BY <1>1 DEF RecvTask, Alive
<1> QED
  BY <1>2, <1>3, <1>4, WakeupKept

\* The states to which the detector moves a task.
LEMMA RouteStates ==
  ASSUME NEW tags \in TagSets, NEW s \in Routes(tags)
  PROVE  s \notin {"LOAD_IMAGE", "DETECTION"}
BY InputAssumption DEF Routes, RouteState, Enabled, Kinds

\* The two threads that wait go to wait only if no task is ready for them.
LEMMA WaitWakes ==
  ASSUME TypeOK, NoLostWakeup, NEW t \in Threads, WaitForTask(t)
  PROVE  NoLostWakeup'
<1>1. /\ t \in Loaders \cup Detectors
      /\ InState(Stage(t)) = {}
      /\ pc' = [pc EXCEPT ![t] = "waiting"]
      /\ UNCHANGED <<st, recv, hold>>
  BY DEF WaitForTask, taskVars, inputVars
<1>s. /\ t \in Loaders => Stage(t) = {"LOAD_IMAGE"}
      /\ t \in Detectors => Stage(t) = {"DETECTION"}
  BY ThreadAssumption DEF Stage, SingleThreads
<1>2. t \in Loaders => InState({"LOAD_IMAGE"}) = {}
  BY <1>1, <1>s
<1>3. t \in Detectors => InState({"DETECTION"}) = {}
  BY <1>1, <1>s
<1>4. \A u \in Threads : u # t => pc'[u] = pc[u]
  BY <1>1 DEF TypeOK
<1>5. pc'["cut"] = pc["cut"]
  BY <1>1, <1>4, ThreadAssumption DEF Threads, SingleThreads
<1>6. /\ InState({"LOAD_IMAGE"})' = InState({"LOAD_IMAGE"})
      /\ InState({"DETECTION"})' = InState({"DETECTION"})
      /\ Alive' = Alive /\ RecvTask' = RecvTask
  BY <1>1 DEF InState, Alive, RecvTask
<1>7. \A u \in Loaders : \A p \in InState({"LOAD_IMAGE"}) :
        pc'[u] = "waiting" /\ Alive => recv.pc = "notify" /\ p = RecvTask
  BY <1>2, <1>4 DEF NoLostWakeup, Threads
<1>8. \A u \in Detectors : \A p \in InState({"DETECTION"}) :
        pc'[u] = "waiting" => pc["cut"] = "notify" /\ p = hold["cut"]
  BY <1>3, <1>4 DEF NoLostWakeup, Threads
<1> QED
  BY <1>1, <1>5, <1>6, <1>7, <1>8 DEF NoLostWakeup

\* The notification of a task wakes everybody who waits for it.
LEMMA NotifyWakes ==
  ASSUME TypeOK, NEW p \in Tasks, NEW pcs, NEW t \in Threads, Wake(p, pcs)[t] = "waiting"
  PROVE  /\ pcs[t] = "waiting"
         /\ t \in Loaders => st[p] # "LOAD_IMAGE"
         /\ t \in Detectors => st[p] # "DETECTION"
BY DEF Wake

\* The cut thread makes a task ready for the detector and then notifies it.
LEMMA CutWakes ==
  ASSUME TypeOK, NoLostWakeup, CutParcel \/ NotifyDetector
  PROVE  NoLostWakeup'
<1>0. "cut" \in Threads /\ "cut" \notin Loaders \cup Detectors
  BY ThreadAssumption DEF Threads, SingleThreads
<1>1. CASE CutParcel
  <2>1. /\ hold["cut"] \in Tasks /\ pc["cut"] = "work"
        /\ st' = [st EXCEPT ![hold["cut"]] = IF @ = "NONE" THEN "NONE" ELSE "DETECTION"]
        /\ pc' = [pc EXCEPT !["cut"] = "notify"]
        /\ UNCHANGED <<recv, hold>>
    BY <1>0, <1>1 DEF CutParcel, Working, UpdateOneTask, TypeOK, inputVars
  <2>2. pc'["cut"] = "notify" /\ \A t \in Loaders \cup Detectors : pc'[t] = pc[t]
    BY <1>0, <2>1 DEF TypeOK, Threads
  <2>3. \A p \in Tasks : /\ st'[p] = "LOAD_IMAGE" => st[p] = "LOAD_IMAGE"
                         /\ st'[p] = "DETECTION" => st[p] = "DETECTION" \/ p = hold["cut"]
    BY <2>1 DEF TypeOK
  <2>4. Alive' = Alive /\ RecvTask' = RecvTask
    BY <2>1 DEF Alive, RecvTask
  <2> QED
    BY <2>1, <2>2, <2>3, <2>4 DEF NoLostWakeup, InState
<1>2. CASE NotifyDetector
  <2> DEFINE p == hold["cut"]
             pcs == [pc EXCEPT !["cut"] = "acquire"]
  <2>1. /\ pc["cut"] = "notify" /\ p \in Tasks
        /\ pc' = Wake(p, pcs)
        /\ UNCHANGED <<st, recv>>
    BY <1>0, <1>2 DEF NotifyDetector, TypeOK, taskVars, inputVars
  <2>2. \A t \in Loaders \cup Detectors : pcs[t] = pc[t]
    BY <1>0 DEF TypeOK, Threads
  <2> HIDE DEF p, pcs
  <2>3. \A t \in Loaders \cup Detectors :
          pc'[t] = "waiting" =>
            pc[t] = "waiting" /\ (t \in Detectors => st[p] # "DETECTION")
    BY <2>1, <2>2, NotifyWakes DEF Threads
  <2>4. Alive' = Alive /\ RecvTask' = RecvTask
    BY <2>1 DEF Alive, RecvTask
  <2>5. \A t \in Loaders : \A q \in InState({"LOAD_IMAGE"}) :
          pc'[t] = "waiting" /\ Alive => recv.pc = "notify" /\ q = RecvTask
    BY <2>3 DEF NoLostWakeup
  <2>6. \A t \in Detectors : \A q \in InState({"DETECTION"}) : pc'[t] # "waiting"
    BY <2>3 DEF NoLostWakeup, InState, p
  <2>7. /\ InState({"LOAD_IMAGE"})' = InState({"LOAD_IMAGE"})
        /\ InState({"DETECTION"})' = InState({"DETECTION"})
    BY <2>1 DEF InState
  <2> QED
    BY <2>1, <2>4, <2>5, <2>6, <2>7 DEF NoLostWakeup
<1> QED
  BY <1>1, <1>2

\* Every step of a thread.
LEMMA ThreadWakes ==
  ASSUME TypeOK, NoLostWakeup, NEW t \in Threads, ThreadStep(t)
  PROVE  NoLostWakeup'
<1>0. UNCHANGED recv
  BY ThreadInputs
<1>a. Alive' = Alive /\ RecvTask' = RecvTask
  BY <1>0 DEF Alive, RecvTask
<1>1. CASE Acquire(t)
  <2>1. PICK p \in Tasks :
          /\ hold' = [hold EXCEPT ![t] = p]
          /\ st' \in {st, [st EXCEPT ![p] = "IS_LOAD_IMAGE"], [st EXCEPT ![p] = "IS_DETECTION"]}
    BY <1>1 DEF Acquire
  <2>2. pc[t] = "acquire" /\ pc' = [pc EXCEPT ![t] = "work"]
    BY <1>1 DEF Acquire
  <2>3. WaitingKept
    BY <2>1, <2>2 DEF WaitingKept, TypeOK, Threads
  <2>4. pc["cut"] = "notify" => pc'["cut"] = "notify" /\ hold'["cut"] = hold["cut"]
    BY <2>1, <2>2 DEF TypeOK, Threads, SingleThreads
  <2> QED
    BY <1>0, <1>a, <2>3, <2>4, WakeupKept
<1>2. CASE WaitForTask(t)
  BY <1>2, WaitWakes
<1>3. CASE LoadImage(t)
  BY <1>3, FinishWakes DEF LoadImage, Working
<1>4. CASE t = "cut" /\ NoParcel
  BY <1>4, FinishWakes DEF NoParcel, Working
<1>5. CASE t = "cut" /\ (CutParcel \/ NotifyDetector)
  BY <1>5, CutWakes
<1>6. CASE DetectTags(t)
  <2>1. PICK tags \in TagSets : \E s \in Routes(tags) :
          FinishTask(t, s, [data[hold[t]] EXCEPT !.tags = tags])
    BY <1>6 DEF DetectTags
  <2> QED
    BY <1>6, <2>1, RouteStates, FinishWakes DEF DetectTags, Working
<1>7. CASE ReadNothing(t)
  BY <1>7, FinishWakes DEF ReadNothing, Working
<1>8. ASSUME NEW code \in Postcodes, ReadPostcode(t, code)
      PROVE  NoLostWakeup'
  BY <1>8, FinishWakes DEF ReadPostcode, Working
<1>9. CASE \/ t = "package" /\ (PackageNotReady \/ PackageMerge \/ PackageErase \/ PackageDone)
           \/ t = "send" /\ (SendReply \/ SendErase)
  <2>1. /\ \A u \in Threads : u # t => pc'[u] = pc[u] /\ hold'[u] = hold[u]
        /\ pc'[t] # "waiting"
    BY <1>9 DEF PackageNotReady, PackageMerge, PackageErase, PackageDone, SendReply, SendErase,
                Release, TypeOK
  <2>2. \A p \in Tasks : st'[p] \in {st[p], "NONE", "SEND_TASK"}
    <3>1. \/ st' = st
          \/ \E p \in Tasks : \E s \in {"NONE", "SEND_TASK"} : st' = [st EXCEPT ![p] = s]
      <4>1. CASE PackageErase
        BY <4>1 DEF PackageErase, EraseOneTask, TypeOK
      <4>2. CASE t = "package" /\ PackageDone
        <5>1. hold["package"] \in Tasks
          BY <4>2 DEF PackageDone, TypeOK
        <5> QED
          BY <4>2, <5>1 DEF PackageDone, UpdateOneTask
      <4>3. CASE t = "send" /\ SendErase
        <5>1. hold["send"] \in Tasks
          BY <4>3 DEF SendErase, TypeOK
        <5> QED
          BY <4>3, <5>1 DEF SendErase, EraseOneTask
      <4>4. CASE PackageNotReady \/ PackageMerge \/ SendReply
        BY <4>4 DEF PackageNotReady, PackageMerge, SendReply, taskVars
      <4> QED
        BY <1>9, <4>1, <4>2, <4>3, <4>4
    <3> QED
      BY <3>1 DEF TypeOK
  <2>3. t \in {"package", "send"} /\ "cut" \in Threads
    BY <1>9 DEF Threads, SingleThreads
  <2>4. WaitingKept
    BY <2>1, <2>2 DEF WaitingKept, Threads
  <2> QED
    BY <1>0, <1>a, <2>1, <2>3, <2>4, WakeupKept
<1> QED
  BY <1>1, <1>2, <1>3, <1>4, <1>5, <1>6, <1>7, <1>8, <1>9 DEF ThreadStep

\* Every step of a producer.
LEMMA ProducerWakes ==
  ASSUME TypeOK, NoLostWakeup, Producing
  PROVE  NoLostWakeup'
<1>0. "cut" \in Threads /\ "cut" \notin Loaders \cup Detectors
  BY ThreadAssumption DEF Threads, SingleThreads
<1>1. ASSUME NEW msg \in Messages, RecvRequest(msg)
      PROVE  NoLostWakeup'
  <2>1. recv.pc = "recv" /\ UNCHANGED <<st, pc, hold>>
    BY <1>1 DEF RecvRequest, taskVars, threadVars
  <2>2. Alive
    BY <2>1 DEF Alive
  <2>3. WaitingKept
    BY <2>1 DEF WaitingKept
  <2> QED
    BY <2>1, <2>2, <2>3, WakeupKept
<1>2. CASE StartSubtask
  <2>1. recv.pc = "start" /\ UNCHANGED <<pc, hold>> /\ st' = [st EXCEPT ![RecvTask] = "OPEN"]
    BY <1>2 DEF StartSubtask, StartOneTask, threadVars
  <2>2. Alive
    BY <2>1 DEF Alive
  <2>3. WaitingKept
    BY <2>1 DEF WaitingKept, TypeOK
  <2> QED
    BY <2>1, <2>2, <2>3, WakeupKept
<1>3. CASE LoadSubtask
  <2>1. /\ recv.pc = "load" /\ recv' = [recv EXCEPT !.pc = "notify"]
        /\ st' = [st EXCEPT ![RecvTask] = IF @ = "NONE" THEN "NONE" ELSE "LOAD_IMAGE"]
        /\ UNCHANGED <<pc, hold>>
    BY <1>3 DEF LoadSubtask, UpdateOneTask, threadVars
  <2>2. recv'.pc = "notify" /\ RecvTask' = RecvTask /\ Alive
    BY <2>1 DEF TypeOK, RecvRecords, RecvTask, Alive
  <2>3. \A p \in Tasks : /\ st'[p] = "LOAD_IMAGE" => st[p] = "LOAD_IMAGE" \/ p = RecvTask
                         /\ st'[p] = "DETECTION" => st[p] = "DETECTION"
    BY <2>1 DEF TypeOK
  <2> QED
    BY <2>1, <2>2, <2>3 DEF NoLostWakeup, InState
<1>4. CASE NotifyLoader
  <2>1. /\ recv.pc = "notify" /\ pc' = Wake(RecvTask, pc) /\ UNCHANGED <<st, hold>>
    BY <1>4 DEF NotifyLoader, taskVars
  <2>2. RecvTask \in Tasks /\ Alive
    BY <2>1, RecvTaskName DEF Alive
  <2>3. \A t \in Threads :
          pc'[t] = "waiting" =>
            pc[t] = "waiting" /\ (t \in Loaders => st[RecvTask] # "LOAD_IMAGE")
    BY <2>1, <2>2, NotifyWakes
  <2>4. pc["cut"] = "notify" => pc'["cut"] = "notify"
    BY <1>0, <2>1 DEF Wake
  <2>5. \A t \in Loaders : \A p \in InState({"LOAD_IMAGE"}) : pc'[t] # "waiting"
    BY <2>1, <2>2, <2>3 DEF NoLostWakeup, InState, Threads
  <2>6. \A t \in Detectors : \A p \in InState({"DETECTION"}) :
          pc'[t] = "waiting" => pc'["cut"] = "notify" /\ p = hold["cut"]
    BY <2>3, <2>4 DEF NoLostWakeup, Threads
  <2>7. /\ InState({"LOAD_IMAGE"})' = InState({"LOAD_IMAGE"})
        /\ InState({"DETECTION"})' = InState({"DETECTION"})
    BY <2>1 DEF InState
  <2> QED
    BY <2>1, <2>5, <2>6, <2>7 DEF NoLostWakeup
<1>5. CASE ReadPastPaths
  <2>1. recv.pc = "start" /\ UNCHANGED <<st, pc, hold>>
    BY <1>5 DEF ReadPastPaths, taskVars, threadVars
  <2>2. Alive
    BY <2>1 DEF Alive
  <2>3. WaitingKept
    BY <2>1 DEF WaitingKept
  <2> QED
    BY <2>1, <2>2, <2>3, WakeupKept
<1>6. CASE StartDebugTask \/ CutDebugTask
  <2>1. /\ \E s \in {"OPEN", "NONE", "CUT_PARCEL"} : st' = [st EXCEPT ![DebugTask] = s]
        /\ UNCHANGED <<recv, pc, hold>>
    BY <1>6 DEF StartDebugTask, CutDebugTask, UpdateOneTask, threadVars
  <2>2. WaitingKept
    BY <2>1 DEF WaitingKept, TypeOK
  <2>3. Alive' = Alive /\ RecvTask' = RecvTask
    BY <2>1 DEF Alive, RecvTask
  <2> QED
    BY <2>1, <2>2, <2>3, WakeupKept
<1> QED
  BY <1>1, <1>2, <1>3, <1>4, <1>5, <1>6 DEF Producing, RecvStep

\* Every step.
LEMMA WakeupStep == TypeOK /\ NoLostWakeup /\ [Next]_vars => NoLostWakeup'
<1> SUFFICES ASSUME TypeOK, NoLostWakeup, [Next]_vars
             PROVE  NoLostWakeup'
  OBVIOUS
<1>1. CASE UNCHANGED vars
  <2>1. UNCHANGED <<st, recv, pc, hold>>
    BY <1>1 DEF vars, taskVars, inputVars, threadVars
  <2> QED
    BY <2>1 DEF NoLostWakeup, InState, Alive, RecvTask
<1> QED
  BY <1>1, ProducerWakes, ThreadWakes DEF Next, Producing

(* Reading the state of a task again after the unlock loses no wake-up,    *)
(* for any number of loader and detector threads: while one waits and a    *)
(* task is ready for it, the thread that moved the task has its            *)
(* notification still before it.                                           *)
THEOREM WakeupsArrive == Spec => []NoLostWakeup
<1>1. Init => NoLostWakeup
  BY DEF Init, NoLostWakeup, InState
<1> QED
  BY <1>1, TypeCorrect, WakeupStep, PTL DEF Spec

-----------------------------------------------------------------------------
(* The pipeline implements ParcelService. Receiving a request is Receive   *)
(* if it has images, finishing an image is Finish, generating a reply is   *)
(* Reply; every other step leaves the service as it is.                    *)

-----------------------------------------------------------------------------
(* What the producer has done with the requests.                           *)

\* What thread_recv_msg has done with the requests: between two of them it is through
\* with the images of the last one, and no later one has come.
InputOK ==
  /\ recv.pc = "recv" /\ recv.req \in Requests => recv.img >= total[recv.req]
  /\ \A r \in Requests : r > recv.req => total[r] = 0

ServiceInv == WholeInv /\ InputOK

\* The producer and the requests, with their types.
LEMMA InputTypes ==
  ASSUME TypeOK
  PROVE  /\ recv.req \in Nat /\ recv.img \in Nat /\ recv \in RecvRecords
         /\ \A r \in Requests : r \in Nat /\ r # 0 /\ total[r] \in Nat /\ total[r] <= MaxImages
         /\ total \in [Requests -> 0..MaxImages]
<1>1. recv \in RecvRecords /\ total \in [Requests -> 0..MaxImages]
  BY DEF TypeOK
<1>2. recv.req \in Nat /\ recv.img \in Nat
  BY <1>1, BoundsAssumption DEF RecvRecords
<1>3. ASSUME NEW r \in Requests
      PROVE  r \in Nat /\ r # 0 /\ total[r] \in Nat /\ total[r] <= MaxImages
  <2>1. total[r] \in 0..MaxImages
    BY <1>1
  <2>2. r \in Nat /\ r # 0
    BY ONLY BoundsAssumption, r \in Requests
  <2> QED
    BY ONLY <2>1, <2>2, BoundsAssumption
<1> QED
  BY <1>1, <1>2, <1>3

\* What a message does to the producer and the requests.
LEMMA RequestComes ==
  ASSUME TypeOK, NEW msg \in Messages, RecvRequest(msg)
  PROVE  \E n \in 0..MaxImages :
           /\ recv.pc = "recv" /\ recv.req < MaxRequests
           /\ recv'.pc \in {"recv", "start"} /\ (recv'.pc = "recv" <=> n = 0)
           /\ recv'.req = recv.req + 1 /\ recv'.img = 0
           /\ total' = [total EXCEPT ![recv.req + 1] = n]
           /\ UNCHANGED <<st, answers, lost>>
<1> DEFINE n == Larger(msg.images, msg.paths)
<1>1. n \in 0..MaxImages
  BY InputAssumption, BoundsAssumption DEF Larger
<1>2. /\ recv.pc = "recv" /\ recv.req < MaxRequests
      /\ recv' = [pc |-> IF n = 0 THEN "recv" ELSE "start",
                  req |-> recv.req + 1, img |-> 0, paths |-> msg.paths]
      /\ total' = [total EXCEPT ![recv.req + 1] = n]
      /\ UNCHANGED <<st, answers, lost>>
  BY DEF RecvRequest, taskVars, replyVars
<1> HIDE DEF n
<1> QED
  BY <1>1, <1>2

\* InputOK holds at the start.
LEMMA InputInit == Init => InputOK
BY BoundsAssumption DEF Init, InputOK

\* Every step keeps InputOK.
LEMMA InputStep == TypeOK /\ InputOK /\ [Next]_vars => InputOK'
<1> SUFFICES ASSUME TypeOK, InputOK, [Next]_vars
             PROVE  InputOK'
  OBVIOUS
<1>1. ASSUME NEW msg \in Messages, RecvRequest(msg)
      PROVE  InputOK'
  <2>1. PICK n \in 0..MaxImages :
          /\ recv.req < MaxRequests
          /\ recv'.pc = "recv" <=> n = 0
          /\ recv'.req = recv.req + 1 /\ recv'.img = 0
          /\ total' = [total EXCEPT ![recv.req + 1] = n]
    BY <1>1, RequestComes
  <2>2. recv.req + 1 \in Requests
    BY <2>1, InputTypes, BoundsAssumption DEF Requests
  <2>3. recv'.pc = "recv" => recv'.img >= total'[recv'.req]
    BY <2>1, <2>2, InputTypes
  <2>4. ASSUME NEW r \in Requests, r > recv.req + 1
        PROVE  total'[r] = 0
    <3>1. r > recv.req /\ r # recv.req + 1
      BY <2>4, InputTypes
    <3> QED
      BY <2>1, <3>1, InputTypes DEF InputOK
  <2> QED
    BY <2>1, <2>3, <2>4 DEF InputOK
<1>2. CASE StartSubtask
  BY <1>2 DEF StartSubtask, InputOK, TypeOK, RecvRecords
<1>3. CASE LoadSubtask
  BY <1>3 DEF LoadSubtask, InputOK, TypeOK, RecvRecords
<1>4. CASE NotifyLoader
  <2>1. /\ recv'.pc = IF recv.img + 1 < total[recv.req] THEN "start" ELSE "recv"
        /\ recv'.img = recv.img + 1
        /\ recv'.req = recv.req
        /\ total' = total
    BY <1>4, InputTypes DEF NotifyLoader, RecvRecords
  <2>2. recv'.pc = "recv" /\ recv.req \in Requests => recv'.img >= total[recv.req]
    BY <2>1, InputTypes
  <2> QED
    BY <2>1, <2>2 DEF InputOK
<1>5. CASE ReadPastPaths
  BY <1>5 DEF ReadPastPaths, InputOK, TypeOK, RecvRecords
<1>6. CASE UNCHANGED <<recv, total>>
  BY <1>6 DEF InputOK
<1> QED
  BY <1>1, <1>2, <1>3, <1>4, <1>5, <1>6, ThreadInputs
  DEF Next, RecvStep, StartDebugTask, CutDebugTask, vars, inputVars

\* ServiceInv always holds.
LEMMA ServiceInvariant == Spec => []ServiceInv
<1>1. Init => InputOK
  BY InputInit
<1>2. WholeInv /\ InputOK /\ [Next]_vars => InputOK'
  BY InputStep DEF WholeInv, WorkInv
<1> QED
  BY <1>1, <1>2, WholeInvariant, PTL DEF Spec, ServiceInv

-----------------------------------------------------------------------------
(* The images of the requests, and the steps seen from the service.        *)

\* The names of the images of a request.
LEMMA ImageName ==
  ASSUME NEW r \in Requests, NEW i \in 0..(MaxImages - 1)
  PROVE  <<r, i>> \in Tasks /\ Req(<<r, i>>) = r /\ Sub(<<r, i>>) = i
<1>1. Req(<<r, i>>) = r /\ r # 0
  BY BoundsAssumption
<1>2. Sub(<<r, i>>) = i
  BY <1>1 DEF Sub
<1>3. <<r, i>> \in Requests \X (0..(MaxImages - 1))
  OBVIOUS
<1> QED
  BY <1>1, <1>2, <1>3 DEF Tasks

\* What it is for an image to be pushed.
LEMMA ImagePushed ==
  ASSUME NEW r \in Requests, NEW i \in 0..(MaxImages - 1)
  PROVE  /\ Pushed(<<r, i>>) <=>
              \/ r < recv.req
              \/ /\ r = recv.req
                 /\ i < recv.img \/ (i = recv.img /\ recv.pc \in {"load", "notify"})
         /\ Pushed(<<r, i>>)' <=>
              \/ r < recv'.req
              \/ /\ r = recv'.req
                 /\ i < recv'.img \/ (i = recv'.img /\ recv'.pc \in {"load", "notify"})
BY ImageName DEF Pushed

\* The images that have come are among the possible ones.
LEMMA ImageBound ==
  ASSUME TypeOK, NEW r \in Requests, NEW i \in 0..(total[r] - 1)
  PROVE  i \in 0..(MaxImages - 1) /\ r # 0 /\ i \in Nat
BY InputTypes, BoundsAssumption

\* A step that finishes no image and answers nothing leaves the service as it is.
LEMMA ServiceIdle ==
  ASSUME UNCHANGED <<total, answers, lost>>,
         \A r \in Requests : \A i \in 0..(total[r] - 1) :
           Finished(<<r, i>>)' <=> Finished(<<r, i>>)
  PROVE  UNCHANGED Service!vars
<1>1. \A r \in Requests :
        {i \in 0..(total[r] - 1) : Finished(<<r, i>>)'} =
        {i \in 0..(total[r] - 1) : Finished(<<r, i>>)}
  OBVIOUS
<1> QED
  BY <1>1 DEF Service!vars

\* In the service an image is finished.
LEMMA ServiceFinishes ==
  ASSUME UNCHANGED <<total, answers, lost>>,
         NEW x \in Requests, NEW j \in 0..(total[x] - 1),
         ~Finished(<<x, j>>), Finished(<<x, j>>)',
         \A r \in Requests : \A i \in 0..(total[r] - 1) :
           <<r, i>> # <<x, j>> => (Finished(<<r, i>>)' <=> Finished(<<r, i>>))
  PROVE  Service!Finish(x)
<1> DEFINE F(r) == {i \in 0..(total[r] - 1) : Finished(<<r, i>>)}
           G(r) == {i \in 0..(total[r] - 1) : Finished(<<r, i>>)'}
<1>1. \A r \in Requests : r # x => G(r) = F(r)
  <2>1. ASSUME NEW r \in Requests, r # x
        PROVE  G(r) = F(r)
    <3>1. \A i \in 0..(total[r] - 1) : <<r, i>> # <<x, j>>
      BY <2>1
    <3> QED
      BY <3>1
  <2> QED
    BY <2>1
<1>2. G(x) = F(x) \cup {j} /\ j \notin F(x)
  OBVIOUS
<1>3. [r \in Requests |-> G(r)] =
        [[r \in Requests |-> F(r)] EXCEPT ![x] = F(x) \cup {j}]
  <2> HIDE DEF F, G
  <2> QED
    BY <1>1, <1>2
<1> QED
  BY <1>2, <1>3 DEF Service!Finish, Service!ImagesOf

\* The arrival of a request.
LEMMA RequestServes ==
  ASSUME ServiceInv, NEW msg \in Messages, RecvRequest(msg)
  PROVE  (\E r \in Requests : Service!Receive(r)) \/ UNCHANGED Service!vars
<1>0. WorkInv /\ TypeOK /\ InputOK
  BY DEF ServiceInv, WholeInv, WorkInv
<1>1. PICK n \in 0..MaxImages :
        /\ recv.pc = "recv" /\ recv.req < MaxRequests
        /\ recv'.pc \in {"recv", "start"} /\ (recv'.pc = "recv" <=> n = 0)
        /\ recv'.req = recv.req + 1 /\ recv'.img = 0
        /\ total' = [total EXCEPT ![recv.req + 1] = n]
        /\ UNCHANGED <<st, answers, lost>>
  BY <1>0, RequestComes
<1>2. PICK x \in Requests :
        /\ x = recv.req + 1 /\ x > recv.req /\ x # 0
        /\ recv'.req = x /\ recv.req \in Nat
        /\ total[x] = 0 /\ total' = [total EXCEPT ![x] = n] /\ total'[x] = n
  <2>1. recv.req + 1 \in Requests /\ recv.req \in Nat
    BY <1>0, <1>1, InputTypes, BoundsAssumption
  <2>2. total[recv.req + 1] = 0 /\ total'[recv.req + 1] = n
    BY <1>0, <1>1, <2>1, InputTypes DEF InputOK
  <2>3. recv.req + 1 > recv.req /\ recv.req + 1 # 0
    BY <2>1
  <2> QED
    BY ONLY <1>1, <2>1, <2>2, <2>3, Zenon
<1>3. ASSUME NEW r \in Requests, NEW i \in 0..(total[r] - 1)
      PROVE  Finished(<<r, i>>)' <=> Finished(<<r, i>>)
  <2>1. i \in 0..(MaxImages - 1) /\ i \in Nat /\ r \in Nat /\ recv.req \in Nat
    BY <1>0, ImageBound, InputTypes
  <2>2. r <= recv.req
    <3>1. total[r] # 0
      BY <1>0, InputTypes
    <3> QED
      BY <2>1, <3>1, <1>0 DEF InputOK
  <2>3. r = recv.req => i < recv.img
    BY <1>0, <1>1, <2>1, InputTypes DEF InputOK
  <2>4. Pushed(<<r, i>>)
    BY <2>1, <2>2, <2>3, ImagePushed
  <2>5. Pushed(<<r, i>>)'
    BY <1>1, <2>1, <2>2, ImagePushed
  <2> QED
    BY <1>1, <2>4, <2>5 DEF Finished
<1>4. ASSUME NEW i \in 0..(n - 1)
      PROVE  ~Finished(<<x, i>>)'
  <2>1. i \in 0..(MaxImages - 1) /\ i \in Nat
    BY BoundsAssumption
  <2>2. recv.req \in Nat
    BY <1>0, InputTypes
  <2>3. ~Pushed(<<x, i>>)
    <3>1. ~(x < recv.req \/ x = recv.req)
      BY <1>2
    <3> QED
      BY <1>2, <2>1, <3>1, ImagePushed
  <2>4. st[<<x, i>>] = "NONE"
    <3>1. <<x, i>> \in Tasks /\ Req(<<x, i>>) # 0
      BY <1>2, <2>1, ImageName, BoundsAssumption
    <3> QED
      BY <1>0, <2>3, <3>1 DEF WorkInv, PoolOK
  <2>5. ~Pushed(<<x, i>>)'
    <3>1. recv'.req = x /\ recv'.img = 0 /\ recv'.pc \notin {"load", "notify"}
      BY <1>1, <1>2
    <3>2. ~(x < recv'.req) /\ ~(i < recv'.img)
      BY <1>2, <2>1, <3>1
    <3> QED
      BY <1>2, <2>1, <3>1, <3>2, ImagePushed
  <2>6. st'[<<x, i>>] = "NONE"
    BY <1>1, <2>4
  <2> QED
    BY <2>5, <2>6 DEF Finished
<1>5. CASE n = 0
  <2>1. total' = total
    BY <1>0, <1>1, <1>2, <1>5, InputTypes
  <2> QED
    BY <1>1, <1>3, <2>1, ServiceIdle
<1>6. CASE n # 0
  <2> DEFINE F(r) == {i \in 0..(total[r] - 1) : Finished(<<r, i>>)}
             G(r) == {i \in 0..(total'[r] - 1) : Finished(<<r, i>>)'}
  <2>1. ASSUME NEW r \in Requests
        PROVE  G(r) = F(r)
    <3>1. CASE r = x
      <4>1. F(x) = {}
        BY <1>2
      <4>2. G(x) = {}
        BY <1>2, <1>4
      <4> QED
        BY <3>1, <4>1, <4>2
    <3>2. CASE r # x
      <4>1. total'[r] = total[r]
        BY <1>0, <1>1, <1>2, <3>2, InputTypes
      <4> QED
        BY <1>3, <4>1
    <3> QED
      BY <3>1, <3>2
  <2>2. [r \in Requests |-> G(r)] = [r \in Requests |-> F(r)]
    <3> HIDE DEF F, G
    <3> QED
      BY <2>1
  <2>3. n \in 1..MaxImages /\ total' = [total EXCEPT ![x] = n]
    BY <1>2, <1>6
  <2>4. Service!Receive(x)
    BY <1>1, <1>2, <2>2, <2>3 DEF Service!Receive
  <2> QED
    BY <1>2, <2>4
<1> QED
  BY <1>5, <1>6

\* A request's task that is in the pool was pushed.
LEMMA PoolPushed ==
  ASSUME WorkInv, NEW p \in Tasks, Req(p) # 0, st[p] # "NONE"
  PROVE  Pushed(p)
BY DEF WorkInv, PoolOK

-----------------------------------------------------------------------------
(* The steps of the producers and of the threads.                          *)

\* The states of a task that has been through its stages, or is gone.
Settled == {"NONE", "PACKAGE", "SEND_TASK"}

\* A thread's step that settles no task of a request finishes nothing.
LEMMA NothingFinished ==
  ASSUME ServiceInv, UNCHANGED <<recv, total, answers, lost>>,
         \A p \in Tasks : Req(p) # 0 =>
           /\ st[p] = "NONE" => st'[p] = "NONE"
           /\ st[p] \in Settled <=> st'[p] \in Settled
  PROVE  UNCHANGED Service!vars
<1>0. WorkInv /\ TypeOK
  BY DEF ServiceInv, WholeInv, WorkInv
<1>1. ASSUME NEW p \in Tasks, Req(p) # 0
      PROVE  Finished(p)' <=> Finished(p)
  <2>1. st[p] # "NONE" => Pushed(p)
    BY <1>0, <1>1, PoolPushed
  <2>2. Pushed(p)' <=> Pushed(p)
    BY DEF Pushed, Sub
  <2>3. /\ st[p] = "NONE" => st'[p] = "NONE"
        /\ st[p] \in Settled <=> st'[p] \in Settled
    BY <1>1
  <2> QED
    BY <2>1, <2>2, <2>3 DEF Finished, Settled
<1>2. \A r \in Requests : \A i \in 0..(total[r] - 1) :
        Finished(<<r, i>>)' <=> Finished(<<r, i>>)
  <2>1. ASSUME NEW r \in Requests, NEW i \in 0..(total[r] - 1)
        PROVE  Finished(<<r, i>>)' <=> Finished(<<r, i>>)
    BY <1>0, <1>1, ImageBound, ImageName
  <2> QED
    BY <2>1
<1> QED
  BY <1>2, ServiceIdle

\* Two tasks of requests with the same numbers are one task.
LEMMA TaskPair ==
  ASSUME NEW p \in Tasks, NEW q \in Tasks, Req(p) # 0, Req(p) = Req(q), Sub(p) = Sub(q)
  PROVE  p = q
<1>1. p[2] = q[2] /\ p = <<p[1], p[2]>> /\ q = <<q[1], q[2]>>
  BY DEF Sub, Tasks, DebugTasks
<1> QED
  BY <1>1

\* The producers' other steps finish nothing.
LEMMA ProducerServes ==
  ASSUME ServiceInv, RecvStep \/ ReadPastPaths \/ StartDebugTask \/ CutDebugTask
  PROVE  UNCHANGED Service!vars
<1>0. WorkInv /\ TypeOK /\ TypeOK' /\ [Next]_vars
  BY TypeStep DEF ServiceInv, WholeInv, WorkInv, Next
<1>1. UNCHANGED <<total, answers, lost>>
  BY DEF RecvStep, StartSubtask, LoadSubtask, NotifyLoader, ReadPastPaths, StartDebugTask,
         CutDebugTask, replyVars
\* A task that is new was not pushed yet, or is not of a request.
<1>2. ASSUME NEW p \in Tasks, Req(p) # 0
      PROVE  Finished(p)' <=> Finished(p)
  <2>1. st[p] # "NONE" => Pushed(p)
    BY <1>0, <1>2, PoolPushed
  <2>2. Pushed(p) => Pushed(p)'
    BY <1>0, <1>2, PushedKept
  <2>3. CASE StartSubtask
    <3>1. /\ st' = [st EXCEPT ![RecvTask] = "OPEN"]
          /\ recv.pc = "start" /\ recv' = [recv EXCEPT !.pc = "load"]
      BY <2>3 DEF StartSubtask, StartOneTask
    <3>2. RecvTask \in Tasks /\ st[RecvTask] = "NONE"
      BY <1>0, <3>1, RecvTaskName, NotPushedNone
    <3>3. ~Pushed(RecvTask)
      BY <1>0, <3>1, RecvTaskName, InputTypes DEF Pushed
    <3>4. CASE p = RecvTask
      BY <1>0, <3>1, <3>2, <3>3, <3>4 DEF Finished, TypeOK
    <3>5. CASE p # RecvTask
      <4>1. st'[p] = st[p]
        BY <1>0, <3>1, <3>5 DEF TypeOK
      <4>2. Pushed(p)' => Pushed(p)
        <5>1. /\ recv'.req = recv.req /\ recv'.img = recv.img /\ recv'.pc = "load"
          BY <1>0, <3>1, InputTypes DEF RecvRecords
        <5>2. ~(Req(p) = recv.req /\ Sub(p) = recv.img)
          BY <1>0, <1>2, <3>1, <3>5, RecvTaskName, TaskPair
        <5> QED
          BY <5>1, <5>2, <3>1 DEF Pushed, Sub
      <4> QED
        BY <2>2, <4>1, <4>2 DEF Finished
    <3> QED
      BY <3>4, <3>5
  <2>4. CASE LoadSubtask
    <3>1. /\ recv.pc = "load" /\ recv' = [recv EXCEPT !.pc = "notify"]
          /\ st' = [st EXCEPT ![RecvTask] = IF @ = "NONE" THEN "NONE" ELSE "LOAD_IMAGE"]
      BY <2>4 DEF LoadSubtask, UpdateOneTask
    <3>2. st[RecvTask] = "OPEN"
      BY <1>0, <3>1 DEF WorkInv, PoolOK
    <3>3. st'[p] = st[p] \/ (st[p] = "OPEN" /\ st'[p] = "LOAD_IMAGE")
      BY <1>0, <3>1, <3>2 DEF TypeOK
    <3>4. Pushed(p)' <=> Pushed(p)
      BY <1>0, <3>1, InputTypes DEF RecvRecords, Pushed, Sub
    <3> QED
      BY <3>3, <3>4 DEF Finished
  <2>5. CASE NotifyLoader
    <3>1. /\ recv.pc = "notify" /\ recv'.req = recv.req /\ recv'.img = recv.img + 1
          /\ recv'.pc \in {"start", "recv"} /\ st' = st
      BY <1>0, <2>5, InputTypes DEF NotifyLoader, RecvRecords, taskVars
    <3>2. Pushed(p)' <=> Pushed(p)
      <4>1. Sub(p) \in Nat /\ recv.img \in Nat
        BY <1>0, TaskName, InputTypes
      <4> QED
        BY <3>1, <4>1 DEF Pushed, Sub
    <3> QED
      BY <3>1, <3>2 DEF Finished
  <2>6. CASE ReadPastPaths
    <3>1. /\ recv.pc = "start" /\ recv' = [recv EXCEPT !.pc = "crashed"] /\ st' = st
      BY <2>6 DEF ReadPastPaths, taskVars
    <3>2. Pushed(p)' <=> Pushed(p)
      BY <1>0, <3>1, InputTypes DEF RecvRecords, Pushed, Sub
    <3> QED
      BY <3>1, <3>2 DEF Finished
  <2>7. CASE StartDebugTask \/ CutDebugTask
    <3>1. p # DebugTask
      BY <1>2 DEF DebugTask
    <3>2. recv' = recv /\ st'[p] = st[p]
      BY <1>0, <2>7, <3>1 DEF StartDebugTask, CutDebugTask, UpdateOneTask, TypeOK
    <3> QED
      BY <3>2 DEF Finished, Pushed, Sub
  <2> QED
    BY <2>3, <2>4, <2>5, <2>6, <2>7 DEF RecvStep
<1>3. \A r \in Requests : \A i \in 0..(total[r] - 1) :
        Finished(<<r, i>>)' <=> Finished(<<r, i>>)
  <2>1. ASSUME NEW r \in Requests, NEW i \in 0..(total[r] - 1)
        PROVE  Finished(<<r, i>>)' <=> Finished(<<r, i>>)
    BY <1>0, <1>2, ImageBound, ImageName
  <2> QED
    BY <2>1
<1> QED
  BY <1>1, <1>3, ServiceIdle

\* A stage thread that is through with a task finishes its image, or nothing.
LEMMA FinishServes ==
  ASSUME ServiceInv, NEW t \in Threads, t # "package", t # "send", pc[t] = "work",
         NEW s \in TaskStates \ {"NONE", "SEND_TASK"}, NEW d, FinishTask(t, s, d)
  PROVE  (\E r \in Requests : Service!Finish(r)) \/ UNCHANGED Service!vars
<1>0. WorkInv /\ TypeOK
  BY DEF ServiceInv, WholeInv, WorkInv
<1>1. PICK p \in Tasks : p = hold[t]
  BY <1>0 DEF TypeOK
<1>2. st[p] \notin Settled
  <2>1. st[p] \in Claimed(t)
    BY <1>0, <1>1, FinishOwned DEF WorkInv, OwnedStaysInStage
  <2>2. "PACKAGE" \notin Claimed(t)
    BY LastThreads, ThreadAssumption DEF Claimed, Stage, ArbStates, Threads, SingleThreads
  <2> QED
    BY <2>1, <2>2, ClaimedStates DEF Settled
<1>3. /\ \A q \in Tasks : st'[q] = IF q = p THEN s ELSE st[q]
      /\ UNCHANGED <<recv, total, answers, lost>>
  BY <1>0, <1>1, <1>2
  DEF FinishTask, UpdateOneTask, inputVars, replyVars, TypeOK, Settled
<1>4. CASE Req(p) = 0 \/ s # "PACKAGE"
  <2>1. \A q \in Tasks : Req(q) # 0 =>
          /\ st[q] = "NONE" => st'[q] = "NONE"
          /\ st[q] \in Settled <=> st'[q] \in Settled
    BY <1>2, <1>3, <1>4 DEF Settled
  <2> QED
    BY <1>3, <2>1, NothingFinished
<1>5. CASE Req(p) # 0 /\ s = "PACKAGE"
  <2>1. PICK x \in Requests : \E i \in 0..(total[x] - 1) : p = <<x, i>>
    <3>1. Req(p) \in Requests /\ p[2] < total[Req(p)]
      BY <1>0, <1>2, <1>5, TaskName DEF WorkInv, PoolOK, Settled
    <3>2. p[2] \in Nat /\ p = <<Req(p), p[2]>>
      BY <1>5, BoundsAssumption DEF Tasks, DebugTasks
    <3>3. p[2] \in 0..(total[Req(p)] - 1)
      BY <1>0, <3>1, <3>2, InputTypes
    <3> QED
      BY <3>1, <3>2, <3>3
  <2>2. PICK j \in 0..(total[x] - 1) : p = <<x, j>>
    BY <2>1
  <2>3. ~Finished(p) /\ Finished(p)'
    BY <1>2, <1>3, <1>5 DEF Finished, Settled
  <2>4. ASSUME NEW r \in Requests, NEW i \in 0..(total[r] - 1), <<r, i>> # p
        PROVE  Finished(<<r, i>>)' <=> Finished(<<r, i>>)
    <3>1. <<r, i>> \in Tasks
      BY <1>0, ImageBound, ImageName
    <3>2. st'[<<r, i>>] = st[<<r, i>>]
      BY <1>3, <2>4, <3>1
    <3> QED
      BY <1>3, <3>2 DEF Finished, Pushed, Sub
  <2>5. Service!Finish(x)
    BY <1>3, <2>2, <2>3, <2>4, ServiceFinishes
  <2> QED
    BY <2>5
<1> QED
  BY <1>4, <1>5

\* The reply to a request is the service's Reply: all of its images are finished, and
\* it has had no reply.
LEMMA ReplyServes ==
  ASSUME ServiceInv, SendReply
  PROVE  (\E r \in Requests : Service!Reply(r)) \/ UNCHANGED Service!vars
<1>0. WorkInv /\ TypeOK /\ WholeInv
  BY DEF ServiceInv, WholeInv, WorkInv
<1>1. PICK p \in Tasks : p = hold["send"] /\ st[p] = "SEND_TASK"
  <2>1. pc["send"] = "work"
    BY DEF SendReply, Working
  <2>2. hold["send"] \in Owned("send") /\ hold["send"] \in Tasks
    BY <1>0, <2>1, LastThreads DEF Owned, Busy, TypeOK
  <2> QED
    BY <1>0, <2>2, LastThreads DEF WorkInv, OwnedStaysInStage
<1>2. PICK r \in {0} \cup Requests : r = Req(p)
  BY TaskName
<1>3. /\ UNCHANGED <<st, total, recv>>
      /\ pc["send"] = "work"
      /\ \/ answers' = [answers EXCEPT ![r] = @ + 1] /\ lost' = lost
         \/ lost' = [lost EXCEPT ![r] = @ + 1] /\ answers' = answers
  BY <1>1, <1>2 DEF SendReply, Working, taskVars, inputVars
<1>4. \A x \in Requests : x # r => answers'[x] = answers[x] /\ lost'[x] = lost[x]
  BY <1>0, <1>3 DEF TypeOK
<1> DEFINE F == [x \in Requests |-> {i \in 0..(total[x] - 1) : Finished(<<x, i>>)}]
           O == [x \in Requests |-> IF answers[x] > 0 THEN "sent"
                                     ELSE IF lost[x] > 0 THEN "lost" ELSE "none"]
<1>5. F' = F
  BY <1>3 DEF Finished, Pushed, Sub
<1>6. CASE r = 0
  <2>1. O' = O
    BY <1>4, <1>6
  <2> QED
    BY <1>3, <1>5, <2>1 DEF Service!vars
<1>7. CASE r \in Requests
  <2>1. r # 0
    BY <1>7, BoundsAssumption
  <2>2. AllPushed(r) /\ \A q \in Tasks : Req(q) = r /\ q # p => st[q] = "NONE"
    BY <1>0, <1>1, <1>2, <2>1 DEF WholeInv, PackagedWhole, InState
  <2>3. answers[r] = 0 /\ lost[r] = 0
    <3>1. ~(answers[r] + lost[r] > 0)
      BY <1>0, <1>1, <1>2, <1>3, <1>7 DEF WholeInv, AnsweredOK, OnlyLeft
    <3>2. answers[r] \in Nat /\ lost[r] \in Nat
      BY <1>0, <1>7 DEF TypeOK
    <3> QED
      BY <3>1, <3>2
  <2>4. F[r] = 0..(total[r] - 1)
    <3>1. ASSUME NEW i \in 0..(total[r] - 1)
          PROVE  Finished(<<r, i>>)
      <4>1. <<r, i>> \in Tasks /\ Req(<<r, i>>) = r
        BY <1>0, <1>7, ImageBound, ImageName
      <4>2. Pushed(<<r, i>>)
        BY <2>2 DEF AllPushed
      <4> QED
        BY <1>1, <2>2, <4>1, <4>2 DEF Finished
    <3> QED
      BY <1>7, <3>1
  <2>5. total[r] > 0
    <3>1. p[2] < total[r] /\ p[2] \in Nat
      BY <1>0, <1>1, <1>2, <2>1, TaskName DEF WorkInv, PoolOK, Tasks, DebugTasks
    <3> QED
      BY <1>0, <1>7, <3>1, InputTypes
  <2>6. O[r] = "none"
    BY <1>7, <2>3
  <2>7. \E o \in {"sent", "lost"} : O' = [O EXCEPT ![r] = o]
    <3>1. \A x \in Requests : x # r => O'[x] = O[x]
      BY <1>4
    <3>2. O'[r] \in {"sent", "lost"}
      BY <1>0, <1>3, <1>7, <2>3 DEF TypeOK
    <3>3. O' = [O EXCEPT ![r] = O'[r]]
      BY <1>7, <3>1
    <3> QED
      BY <3>2, <3>3
  <2>8. Service!Reply(r)
    BY <1>3, <1>5, <2>4, <2>5, <2>6, <2>7 DEF Service!Reply, Service!ImagesOf
  <2> QED
    BY <1>7, <2>8
<1> QED
  BY <1>6, <1>7

\* Every step of a thread is a step of the service, or leaves it as it is.
LEMMA ThreadServes ==
  ASSUME ServiceInv, NEW t \in Threads, ThreadStep(t)
  PROVE  \/ \E r \in Requests : Service!Finish(r) \/ Service!Reply(r)
         \/ UNCHANGED Service!vars
<1>0. WorkInv /\ TypeOK /\ WholeInv /\ [Next]_vars
  BY DEF ServiceInv, WholeInv, WorkInv, Next
<1>1. UNCHANGED <<recv, total>> /\ ReadyMoved
  BY <1>0, ThreadInputs, ThreadSafe
<1>2. {"PACKAGE", "CUT_PARCEL"} \subseteq TaskStates \ {"NONE", "SEND_TASK"}
  BY DEF TaskStates
<1>3. ASSUME UNCHANGED <<answers, lost>>,
             \A p \in Tasks : st[p] \in Settled <=> st'[p] \in Settled
      PROVE  UNCHANGED Service!vars
  BY <1>1, <1>3, NothingFinished DEF ReadyMoved
<1>4. CASE Acquire(t)
  <2> DEFINE C == {"IS_LOAD_IMAGE", "IS_DETECTION"}
             Claim(p, s) == IsFirst(p, Stage(t)) /\ st' = [st EXCEPT ![p] = s]
  <2>1. /\ UNCHANGED <<answers, lost>>
        /\ \/ UNCHANGED st
           \/ t \in Loaders \cup Detectors /\ \E p \in Tasks : \E s \in C : Claim(p, s)
    BY <1>4 DEF Acquire, replyVars
  <2>2. CASE UNCHANGED st
    BY <1>3, <2>1, <2>2
  <2>3. CASE t \in Loaders \cup Detectors /\ \E p \in Tasks : \E s \in C : Claim(p, s)
    <3>1. PICK p \in Tasks : \E s \in C : Claim(p, s)
      BY <2>3
    <3>2. PICK s \in C : Claim(p, s)
      BY <3>1
    <3>3. st[p] \in {"LOAD_IMAGE", "DETECTION"}
      BY <2>3, <3>2, ThreadAssumption
      DEF IsFirst, IsFirstOf, InState, Stage, SingleThreads, ArbStates
    <3>4. \A q \in Tasks : st[q] \in Settled <=> st'[q] \in Settled
      BY <1>0, <3>2, <3>3 DEF TypeOK, Settled
    <3> QED
      BY <1>3, <2>1, <3>4
  <2> QED
    BY <2>1, <2>2, <2>3
<1>5. CASE WaitForTask(t)
  BY <1>3, <1>5 DEF WaitForTask, taskVars, replyVars
<1>6. CASE LoadImage(t)
  <2>1. t # "package" /\ t # "send"
    BY <1>6, FinishingThread DEF LoadImage
  <2> QED
    BY <1>2, <1>6, <2>1, FinishServes DEF LoadImage, Working
<1>7. CASE t = "cut" /\ NoParcel
  BY <1>2, <1>7, FinishServes DEF NoParcel, Working
<1>8. CASE t = "cut" /\ CutParcel
  <2>1. /\ UNCHANGED <<answers, lost>> /\ pc["cut"] = "work"
        /\ st' = [st EXCEPT ![hold["cut"]] = IF @ = "NONE" THEN "NONE" ELSE "DETECTION"]
    BY <1>8 DEF CutParcel, UpdateOneTask, Working, replyVars
  <2>2. st[hold["cut"]] = "CUT_PARCEL"
    <3>1. hold["cut"] \in Owned("cut")
      BY <2>1 DEF Owned, Busy
    <3>2. "cut" \in Threads /\ Claimed("cut") = {"CUT_PARCEL"}
      BY <1>8, ThreadAssumption DEF Threads, SingleThreads, Claimed, Stage
    <3> QED
      BY <1>0, <3>1, <3>2 DEF WorkInv, OwnedStaysInStage
  <2>3. \A q \in Tasks : st[q] \in Settled <=> st'[q] \in Settled
    BY <1>0, <2>1, <2>2 DEF TypeOK, Settled
  <2> QED
    BY <1>3, <2>1, <2>3
<1>9. CASE t = "cut" /\ NotifyDetector
  BY <1>3, <1>9 DEF NotifyDetector, taskVars, replyVars
<1>10. CASE DetectTags(t)
  <2>1. PICK tags \in TagSets : \E s \in Routes(tags) :
          FinishTask(t, s, [data[hold[t]] EXCEPT !.tags = tags])
    BY <1>10 DEF DetectTags
  <2>2. PICK s \in Routes(tags) : FinishTask(t, s, [data[hold[t]] EXCEPT !.tags = tags])
    BY <2>1
  <2>3. s \in TaskStates \ {"NONE", "SEND_TASK"}
    BY InputAssumption DEF Routes, RouteState, Enabled, Kinds, TaskStates
  <2>4. t # "package" /\ t # "send" /\ pc[t] = "work"
    BY <1>10, FinishingThread DEF DetectTags, Working
  <2> QED
    BY <2>2, <2>3, <2>4, FinishServes
<1>11. CASE ReadNothing(t)
  <2>1. t # "package" /\ t # "send" /\ pc[t] = "work"
    BY <1>11, FinishingThread DEF ReadNothing, Working
  <2> QED
    BY <1>2, <1>11, <2>1, FinishServes DEF ReadNothing
<1>12. ASSUME NEW code \in Postcodes, ReadPostcode(t, code)
       PROVE  (\E r \in Requests : Service!Finish(r)) \/ UNCHANGED Service!vars
  <2>1. t # "package" /\ t # "send" /\ pc[t] = "work"
    BY <1>12, FinishingThread DEF ReadPostcode, Working
  <2> QED
    BY <1>2, <1>12, <2>1, FinishServes DEF ReadPostcode
<1>13. CASE t = "package" /\ (PackageNotReady \/ PackageMerge)
  BY <1>3, <1>13 DEF PackageNotReady, PackageMerge, taskVars, replyVars
<1>14. CASE t = "package" /\ PackageErase
  <2>1. PICK p \in stem : st' = [st EXCEPT ![p] = "NONE"]
    BY <1>14 DEF PackageErase, EraseOneTask
  <2>2. UNCHANGED <<answers, lost>>
    BY <1>14 DEF PackageErase, replyVars
  <2>3. st[p] = "PACKAGE"
    <3>1. p \in Owned("package")
      BY DEF Owned
    <3> QED
      BY <1>0, <3>1, LastThreads DEF WorkInv, OwnedStaysInStage
  <2>4. \A q \in Tasks : st[q] \in Settled <=> st'[q] \in Settled
    BY <1>0, <2>1, <2>3 DEF TypeOK, Settled
  <2> QED
    BY <1>3, <2>2, <2>4
<1>15. CASE t = "package" /\ PackageDone
  <2>1. /\ pc["package"] = "erase" /\ UNCHANGED <<answers, lost>>
        /\ st' = [st EXCEPT ![hold["package"]] = IF @ = "NONE" THEN "NONE" ELSE "SEND_TASK"]
    BY <1>15 DEF PackageDone, UpdateOneTask, replyVars
  <2>2. st[hold["package"]] = "PACKAGE"
    <3>1. hold["package"] \in Owned("package")
      BY <2>1 DEF Owned, Busy
    <3> QED
      BY <1>0, <3>1, LastThreads DEF WorkInv, OwnedStaysInStage
  <2>3. \A q \in Tasks : st[q] \in Settled <=> st'[q] \in Settled
    BY <1>0, <2>1, <2>2 DEF TypeOK, Settled
  <2> QED
    BY <1>3, <2>1, <2>3
<1>16. CASE t = "send" /\ SendErase
  <2>1. /\ pc["send"] = "erase" /\ UNCHANGED <<answers, lost>>
        /\ st' = [st EXCEPT ![hold["send"]] = "NONE"]
    BY <1>16 DEF SendErase, EraseOneTask
  <2>2. st[hold["send"]] = "SEND_TASK"
    <3>1. hold["send"] \in Owned("send")
      BY <2>1 DEF Owned, Busy
    <3> QED
      BY <1>0, <3>1, LastThreads DEF WorkInv, OwnedStaysInStage
  <2>3. \A q \in Tasks : st[q] \in Settled <=> st'[q] \in Settled
    BY <1>0, <2>1, <2>2 DEF TypeOK, Settled
  <2> QED
    BY <1>3, <2>1, <2>3
<1>17. CASE t = "send" /\ SendReply
  BY <1>17, ReplyServes
<1> QED
  BY <1>4, <1>5, <1>6, <1>7, <1>8, <1>9, <1>10, <1>11, <1>12, <1>13, <1>14, <1>15, <1>16,
     <1>17
  DEF ThreadStep

-----------------------------------------------------------------------------
(* The refinement.                                                         *)

\* Every step of the pipeline is a step of the service, or leaves it as it is.
LEMMA ServiceStep == ServiceInv /\ [Next]_vars => [Service!Next]_Service!vars
<1> SUFFICES ASSUME ServiceInv, [Next]_vars
             PROVE  Service!Next \/ UNCHANGED Service!vars
  OBVIOUS
<1>1. ASSUME NEW msg \in Messages, RecvRequest(msg)
      PROVE  Service!Next \/ UNCHANGED Service!vars
  BY <1>1, RequestServes DEF Service!Next
<1>2. CASE RecvStep \/ ReadPastPaths \/ StartDebugTask \/ CutDebugTask
  BY <1>2, ProducerServes
<1>3. ASSUME NEW t \in Threads, ThreadStep(t)
      PROVE  Service!Next \/ UNCHANGED Service!vars
  BY <1>3, ThreadServes DEF Service!Next
<1>4. CASE UNCHANGED vars
  BY <1>4, NothingFinished
  DEF vars, taskVars, inputVars, replyVars
<1> QED
  BY <1>1, <1>2, <1>3, <1>4 DEF Next

\* Before any request has come the service is in its initial state.
LEMMA ServiceInit == Init => Service!Init
<1> SUFFICES ASSUME Init
             PROVE  Service!Init
  OBVIOUS
<1>1. /\ total = [r \in Requests |-> 0]
      /\ \A r \in Requests : answers[r] = 0 /\ lost[r] = 0
  BY DEF Init
<1>2. \A r \in Requests : {i \in 0..(total[r] - 1) : Finished(<<r, i>>)} = {}
  BY <1>1
<1> QED
  BY <1>1, <1>2 DEF Service!Init

(* The pipeline implements ParcelService, for every number of requests,    *)
(* images and threads: the images of a request are finished one by one,    *)
(* and it is answered once, when all of them are.                          *)
THEOREM PipelineImplementsService == Spec => ImplementsService
BY ServiceInit, ServiceInvariant, ServiceStep, PTL DEF Spec, ImplementsService, Service!Spec
=============================================================================
