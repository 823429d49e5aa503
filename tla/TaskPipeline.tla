---------------------------- MODULE TaskPipeline ----------------------------
(***************************************************************************)
(* The phase-2 main program (class OCR_MainWoker): one thread per stage    *)
(* works on a shared pool of tasks, m_tasks_pool, under one mutex.         *)
(*                                                                         *)
(* thread_recv_msg splits a request of the image server into one task per  *)
(* image; each task is loaded, cut, searched for tags, read by the OCR     *)
(* thread of the tag found, and packaged; thread_package_tasks merges the  *)
(* tasks of a request into one and thread_send_msg answers the request.    *)
(* Every step below is one critical section, or the work a thread does     *)
(* between two of them.                                                    *)
(***************************************************************************)
EXTENDS TaskMerge, FiniteSets

CONSTANTS
  MaxRequests,  \* bound: how many requests the image server sends
  MaxImages,    \* bound: how many images a request has
  MaxDebug,     \* bound: how many images the operator pushes by hand
  MaxTasks,     \* bound: no request or image is taken that goes over so many tasks
  Messages,     \* the requests: image number and length of the path list
  Postcodes,    \* what OCR can read
  TagSets,      \* what the detector can find on one image
  Supported,    \* the kinds of tag switched on in system.ini
  Engines,      \* the OCR engines that start: a subset of {"std", "arb"}
  Loaders,      \* the threads running thread_load_image (num_loader)
  Detectors,    \* the threads running thread_detect_tags (num_detector)
  NoTask,       \* a thread holds no task
  NoRead        \* OCR has read nothing from an image

SingleThreads == {"cut", "std", "arb", "hwrt", "package", "send"}

ASSUME BoundsAssumption ==
  /\ MaxRequests \in Nat
  /\ MaxImages \in Nat
  /\ MaxDebug \in Nat
  /\ MaxTasks \in Nat

ASSUME InputAssumption ==
  /\ Messages \subseteq [images : 0..MaxImages, paths : 0..MaxImages]
  /\ TagSets \subseteq SUBSET Kinds
  /\ Supported \subseteq Kinds
  /\ Engines \subseteq {"std", "arb"}

ASSUME ThreadAssumption ==
  /\ Loaders \cap Detectors = {}
  /\ (Loaders \cup Detectors) \cap SingleThreads = {}

Requests == 1..MaxRequests

(* A task is named <<request, image>>: m_task_id and m_sub_task_id, both   *)
(* counted from the program's 1 and 0. Images pushed by the operator all   *)
(* have one m_task_id, here 0, and are told apart by their address.        *)
DebugTasks == {0} \X (0..(MaxDebug - 1))
Tasks == (Requests \X (0..(MaxImages - 1))) \cup DebugTasks

ASSUME NullAssumption == NoTask \notin Tasks /\ NoRead \notin (Kinds \X Postcodes)

Threads == Loaders \cup Detectors \cup SingleThreads

\* enum PROCESS_STATE; "NONE" is a task that is not in the pool.
TaskStates ==
  {"NONE", "OPEN", "LOAD_IMAGE", "IS_LOAD_IMAGE", "CUT_PARCEL", "DETECTION",
   "IS_DETECTION", "OCR_STD_TAG", "OCR_ARB_TAG", "OCR_WIN_TAG",
   "OCR_HANDWRITE_BOX", "OCR_LOTTERY_TAG", "PACKAGE", "SEND_TASK"}

VARIABLES
  st,         \* m_flag_state of every task
  pos,        \* the order of the tasks in m_tasks_pool
  pushed,     \* how many tasks have been pushed into the pool
  data,       \* the other fields of every task
  total,      \* m_image_total_num of the tasks of a request
  recv,       \* thread_recv_msg: its step, request, image and path count
  gui,        \* the operator's push_debug_image: its step and image
  pc,         \* the step of every other thread
  hold,       \* the task a thread works on: its ptask
  stem,       \* thread_package_tasks: the merged tasks still to be erased
  answers,    \* how many replies of a request were given to the client
  lost,       \* how many replies of a request were discarded
  sent,       \* the reply the send thread has just generated
  reads       \* what OCR read from an image, until its request is answered

taskVars == <<st, pos, pushed, data>>
inputVars == <<total, recv, gui>>
threadVars == <<pc, hold, stem>>
replyVars == <<answers, lost, sent>>
vars == <<taskVars, inputVars, threadVars, replyVars, reads>>

NoReply == [req |-> 0, res |-> 0, index |-> 0, codes |-> <<>>]

-----------------------------------------------------------------------------
(* The pool.                                                               *)

Req(p) == p[1]
Sub(p) == IF Req(p) = 0 THEN 0 ELSE p[2]
TotalOf(p) == IF Req(p) = 0 THEN 1 ELSE total[Req(p)]

InState(S) == {p \in Tasks : st[p] \in S}

\* __check_one_task: p is the first task of the pool in one of the states S.
IsFirst(p, S) == IsFirstOf(p, InState(S), pos)

\* _start_one_task
StartOneTask(p) ==
  /\ st' = [st EXCEPT ![p] = "OPEN"]
  /\ pos' = [pos EXCEPT ![p] = pushed + 1]
  /\ pushed' = pushed + 1
  /\ data' = [data EXCEPT ![p] = BlankData]

\* _update_one_task_sp up to its unlock: nothing happens to a task not in the pool.
UpdateOneTask(p, s) == st' = [st EXCEPT ![p] = IF @ = "NONE" THEN "NONE" ELSE s]

\* _erase_one_task and __destroy_one_task
EraseOneTask(p) ==
  /\ st' = [st EXCEPT ![p] = "NONE"]
  /\ pos' = [pos EXCEPT ![p] = 0]
  /\ data' = [data EXCEPT ![p] = BlankData]

\* The end of _update_one_task_sp: the state is read again, without the lock, and
\* every thread that waits for that state is woken up. pcs is pc with the caller's step.
Wake(p, pcs) ==
  LET woken == CASE st[p] = "LOAD_IMAGE" -> Loaders
                 [] st[p] = "DETECTION" -> Detectors
                 [] OTHER -> {}
  IN  [t \in Threads |-> IF t \in woken /\ pcs[t] = "waiting" THEN "acquire" ELSE pcs[t]]

-----------------------------------------------------------------------------
(* thread_recv_msg and push_debug_image: the two producers.                *)

\* Reading past the end of the path list may end the process.
Alive == recv.pc # "crashed"

Larger(m, n) == IF m >= n THEN m ELSE n

\* The tasks pushed so far and those of the request that is being split (for the bound).
Committed ==
  pushed + CASE recv.pc = "start" -> total[recv.req] - recv.img
             [] recv.pc \in {"load", "notify"} -> total[recv.req] - recv.img - 1
             [] OTHER -> 0

\* A valid C4 message; an invalid one is ignored. The larger of the two counts wins.
RecvRequest(msg) ==
  /\ recv.pc = "recv"
  /\ recv.req < MaxRequests
  /\ LET r == recv.req + 1
         n == Larger(msg.images, msg.paths)
     IN  /\ Committed + n <= MaxTasks
         /\ recv' = [pc |-> IF n = 0 THEN "recv" ELSE "start",
                     req |-> r, img |-> 0, paths |-> msg.paths]
         /\ total' = [total EXCEPT ![r] = n]
  /\ UNCHANGED <<taskVars, gui, threadVars, replyVars, reads>>

RecvTask == <<recv.req, recv.img>>

StartSubtask ==
  /\ recv.pc = "start"
  /\ StartOneTask(RecvTask)
  /\ recv' = [recv EXCEPT !.pc = "load"]
  /\ UNCHANGED <<total, gui, threadVars, replyVars, reads>>

\* img_pathes_vec[i] with i past its end: undefined. It may yield some string, which
\* StartSubtask covers, or end the process.
ReadPastPaths ==
  /\ recv.pc = "start"
  /\ recv.img >= recv.paths
  /\ recv' = [recv EXCEPT !.pc = "crashed"]
  /\ UNCHANGED <<taskVars, total, gui, threadVars, replyVars, reads>>

LoadSubtask ==
  /\ recv.pc = "load"
  /\ UpdateOneTask(RecvTask, "LOAD_IMAGE")
  /\ recv' = [recv EXCEPT !.pc = "notify"]
  /\ UNCHANGED <<pos, pushed, data, total, gui, threadVars, replyVars, reads>>

\* Mutant: the loader is not woken up.
NotifyLoaderSilent ==
  /\ recv.pc = "notify"
  /\ recv' = [recv EXCEPT !.pc = IF recv.img + 1 < total[recv.req] THEN "start" ELSE "recv",
                          !.img = @ + 1]
  /\ UNCHANGED <<taskVars, total, gui, threadVars, replyVars, reads>>

\* Mutant: the loop over the images runs once too often.
NotifyLoaderOneMore ==
  /\ recv.pc = "notify"
  /\ pc' = Wake(RecvTask, pc)
  /\ recv' = [recv EXCEPT !.pc = IF recv.img + 1 <= total[recv.req] THEN "start" ELSE "recv",
                          !.img = @ + 1]
  /\ UNCHANGED <<taskVars, total, gui, hold, stem, replyVars, reads>>

NotifyLoader ==
  /\ recv.pc = "notify"
  /\ pc' = Wake(RecvTask, pc)
  /\ recv' = [recv EXCEPT !.pc = IF recv.img + 1 < total[recv.req] THEN "start" ELSE "recv",
                          !.img = @ + 1]
  /\ UNCHANGED <<taskVars, total, gui, hold, stem, replyVars, reads>>

DebugTask == <<0, gui.img>>

\* push_debug_image: the image is read before the task is pushed.
StartDebugTask ==
  /\ Alive
  /\ gui.pc = "idle"
  /\ gui.img < MaxDebug
  /\ Committed < MaxTasks
  /\ st' = [st EXCEPT ![DebugTask] = "OPEN"]
  /\ pos' = [pos EXCEPT ![DebugTask] = pushed + 1]
  /\ pushed' = pushed + 1
  /\ data' = [data EXCEPT ![DebugTask] = [BlankData EXCEPT !.img = TRUE]]
  /\ gui' = [gui EXCEPT !.pc = "cut"]
  /\ UNCHANGED <<total, recv, threadVars, replyVars, reads>>

CutDebugTask ==
  /\ Alive
  /\ gui.pc = "cut"
  /\ UpdateOneTask(DebugTask, "CUT_PARCEL")
  /\ gui' = [pc |-> "idle", img |-> gui.img + 1]
  /\ UNCHANGED <<pos, pushed, data, total, recv, threadVars, replyVars, reads>>

-----------------------------------------------------------------------------
(* The stage threads.                                                      *)

ArbStates == {"OCR_ARB_TAG", "OCR_WIN_TAG", "OCR_LOTTERY_TAG"}

\* The states a thread asks _acquire_one_task for.
Stage(t) == CASE t \in Loaders -> {"LOAD_IMAGE"}
              [] t \in Detectors -> {"DETECTION"}
              [] t = "cut" -> {"CUT_PARCEL"}
              [] t = "std" -> {"OCR_STD_TAG"}
              [] t = "arb" -> ArbStates
              [] t = "hwrt" -> {"OCR_HANDWRITE_BOX"}
              [] t = "package" -> {"PACKAGE"}
              [] t = "send" -> {"SEND_TASK"}

\* The state in which a thread keeps the task it works on: only the loader and the
\* detector mark a task as taken.
Claimed(t) == CASE t \in Loaders -> {"IS_LOAD_IMAGE"}
                [] t \in Detectors -> {"IS_DETECTION"}
                [] OTHER -> Stage(t)

\* Mutant: the loader and the detector leave the task as it is, as the others do.
AcquireUnclaimed(t) ==
  /\ Alive
  /\ pc[t] = "acquire"
  /\ \E p \in Tasks :
       /\ IsFirst(p, Stage(t))
       /\ hold' = [hold EXCEPT ![t] = p]
       /\ UNCHANGED st
  /\ pc' = [pc EXCEPT ![t] = "work"]
  /\ UNCHANGED <<pos, pushed, data, inputVars, stem, replyVars, reads>>

\* _acquire_one_task when there is a task to take.
Acquire(t) ==
  /\ Alive
  /\ pc[t] = "acquire"
  /\ \E p \in Tasks :
       /\ IsFirst(p, Stage(t))
       /\ hold' = [hold EXCEPT ![t] = p]
       /\ \/ t \in Loaders /\ st' = [st EXCEPT ![p] = "IS_LOAD_IMAGE"]
          \/ t \in Detectors /\ st' = [st EXCEPT ![p] = "IS_DETECTION"]
          \/ t \in SingleThreads /\ UNCHANGED st
  /\ pc' = [pc EXCEPT ![t] = "work"]
  /\ UNCHANGED <<pos, pushed, data, inputVars, stem, replyVars, reads>>

\* _acquire_one_task when there is none: the loader and the detector wait for a
\* notification; the other threads sleep and ask again, which changes nothing.
WaitForTask(t) ==
  /\ Alive
  /\ t \in Loaders \cup Detectors
  /\ pc[t] = "acquire"
  /\ InState(Stage(t)) = {}
  /\ pc' = [pc EXCEPT ![t] = "waiting"]
  /\ UNCHANGED <<taskVars, inputVars, hold, stem, replyVars, reads>>

\* A thread is done with its task.
Release(t, next) ==
  /\ pc' = [pc EXCEPT ![t] = next]
  /\ hold' = [hold EXCEPT ![t] = NoTask]

\* The task moves on to state s with data d.
FinishTask(t, s, d) ==
  /\ UpdateOneTask(hold[t], s)
  /\ data' = [data EXCEPT ![hold[t]] = d]
  /\ Release(t, "acquire")
  /\ UNCHANGED <<pos, pushed, inputVars, stem, replyVars>>

Working(t) == Alive /\ pc[t] = "work"

\* thread_load_image: the file is read, or cannot be.
LoadImage(t) ==
  /\ t \in Loaders
  /\ Working(t)
  /\ \/ FinishTask(t, "PACKAGE", data[hold[t]])
     \/ FinishTask(t, "CUT_PARCEL", [data[hold[t]] EXCEPT !.img = TRUE])
  /\ UNCHANGED reads

\* thread_cut_parcel when it finds no parcel.
NoParcel ==
  /\ Working("cut")
  /\ FinishTask("cut", "PACKAGE", data[hold["cut"]])
  /\ UNCHANGED reads

\* thread_cut_parcel when it finds one (or the image is cropped, or the cut throws):
\* the task is updated, and the detector notified in a step of its own.
CutParcel ==
  /\ Working("cut")
  /\ UpdateOneTask(hold["cut"], "DETECTION")
  /\ pc' = [pc EXCEPT !["cut"] = "notify"]
  /\ UNCHANGED <<pos, pushed, data, inputVars, hold, stem, replyVars, reads>>

NotifyDetector ==
  /\ Alive
  /\ pc["cut"] = "notify"
  /\ pc' = Wake(hold["cut"], [pc EXCEPT !["cut"] = "acquire"])
  /\ hold' = [hold EXCEPT !["cut"] = NoTask]
  /\ UNCHANGED <<taskVars, inputVars, stem, replyVars, reads>>

\* m_param.is_ocr_lottery_tag is 1 and not a parameter of system.ini.
Enabled == Supported \cup {"LOT"}

RouteRank == [STD |-> 1, LOT |-> 2, WIN |-> 3, ARB |-> 4, HDW |-> 5]
RouteState == [STD |-> "OCR_STD_TAG", LOT |-> "OCR_LOTTERY_TAG", WIN |-> "OCR_WIN_TAG",
               ARB |-> "OCR_ARB_TAG", HDW |-> "OCR_HANDWRITE_BOX"]

\* thread_detect_tags: the tag that is read, of those that are found and switched on.
Routes(tags) ==
  IF tags \cap Enabled = {}
  THEN {"PACKAGE"}
  ELSE {RouteState[k] : k \in {k \in tags \cap Enabled :
                                 \A l \in tags \cap Enabled : RouteRank[k] <= RouteRank[l]}}

DetectTags(t) ==
  /\ t \in Detectors
  /\ Working(t)
  /\ \E tags \in TagSets : \E s \in Routes(tags) :
       FinishTask(t, s, [data[hold[t]] EXCEPT !.tags = tags])
  /\ UNCHANGED reads

\* thread_ocr_arb_tag looks at the tags that were found, not at the state.
ArbKind(tags) == CASE "LOT" \in tags -> "LOT"
                   [] "LOT" \notin tags /\ "WIN" \in tags -> "WIN"
                   [] OTHER -> "ARB"

\* The kind of tag an OCR thread notes with the postcode: thread_ocr_std_tag (870),
\* thread_ocr_hwrt_box (1298), or thread_ocr_arb_tag (1011, 1046, 1092, 1136).
KindRead(t, tags) == CASE t = "std" -> "STD"
                       [] t = "hwrt" -> "HDW"
                       [] OTHER -> ArbKind(tags)

\* The OCR threads that were started and have not returned: thread_ocr_std_tag and
\* thread_ocr_arb_tag return when their engine does not start.
OcrThreads == (Engines \cap {"std"})
              \cup (IF "ARB" \in Supported THEN Engines \cap {"arb"} ELSE {})
              \cup (IF "HDW" \in Supported THEN {"hwrt"} ELSE {})

\* thread_ocr_std_tag, thread_ocr_arb_tag, thread_ocr_hwrt_box: no postcode is read ...
ReadNothing(t) ==
  /\ t \in OcrThreads
  /\ Working(t)
  /\ FinishTask(t, "PACKAGE", data[hold[t]])
  /\ UNCHANGED reads

\* ... or one is.
ReadPostcode(t, code) ==
  /\ t \in OcrThreads
  /\ Working(t)
  /\ LET p == hold[t]
         k == KindRead(t, data[p].tags)
     IN  /\ FinishTask(t, "PACKAGE",
                       [data[p] EXCEPT !.num = 1, !.kind = k, !.codes = <<code>>])
         /\ reads' = [reads EXCEPT ![p] = <<k, code>>]

-----------------------------------------------------------------------------
(* thread_package_tasks and thread_send_msg.                               *)

\* _acquire_stem_tasks
StemOf(p) == {q \in Tasks : Req(q) = Req(p) /\ st[q] = "PACKAGE"}

\* Not every image of the request is ready: sleep and ask again.
PackageNotReady ==
  /\ Working("package")
  /\ Cardinality(StemOf(hold["package"])) < TotalOf(hold["package"])
  /\ Release("package", "acquire")
  /\ UNCHANGED <<taskVars, inputVars, stem, replyVars, reads>>

\* Mutant: a request is packaged when one image is still missing.
PackageMergeEarly ==
  /\ Working("package")
  /\ Cardinality(StemOf(hold["package"])) + 1 >= TotalOf(hold["package"])
  /\ LET S == StemOf(hold["package"])
         G == Leaders(S, data)
     IN  \E p \in S :
           /\ IsFirstOf(p, IF G = {} THEN S ELSE G, pos)
           /\ data' = IF G = {} THEN data
                      ELSE [data EXCEPT ![p] = MergedData(p, G, data, pos, Sub(p))]
           /\ hold' = [hold EXCEPT !["package"] = p]
           /\ stem' = S \ {p}
  /\ pc' = [pc EXCEPT !["package"] = "erase"]
  /\ UNCHANGED <<st, pos, pushed, inputVars, replyVars, reads>>

\* Mutant: the merged task is erased with the others.
PackageMergeEraseAll ==
  /\ Working("package")
  /\ Cardinality(StemOf(hold["package"])) >= TotalOf(hold["package"])
  /\ LET S == StemOf(hold["package"])
         G == Leaders(S, data)
     IN  \E p \in S :
           /\ IsFirstOf(p, IF G = {} THEN S ELSE G, pos)
           /\ data' = IF G = {} THEN data
                      ELSE [data EXCEPT ![p] = MergedData(p, G, data, pos, Sub(p))]
           /\ hold' = [hold EXCEPT !["package"] = p]
           /\ stem' = S
  /\ pc' = [pc EXCEPT !["package"] = "erase"]
  /\ UNCHANGED <<st, pos, pushed, inputVars, replyVars, reads>>

\* All are: they are merged into one of them, mtask, which hold keeps from here on.
PackageMerge ==
  /\ Working("package")
  /\ Cardinality(StemOf(hold["package"])) >= TotalOf(hold["package"])
  /\ LET S == StemOf(hold["package"])
         G == Leaders(S, data)
     IN  \E p \in S :
           /\ IsFirstOf(p, IF G = {} THEN S ELSE G, pos)
           /\ data' = IF G = {} THEN data
                      ELSE [data EXCEPT ![p] = MergedData(p, G, data, pos, Sub(p))]
           /\ hold' = [hold EXCEPT !["package"] = p]
           /\ stem' = S \ {p}
  /\ pc' = [pc EXCEPT !["package"] = "erase"]
  /\ UNCHANGED <<st, pos, pushed, inputVars, replyVars, reads>>

\* The other tasks are erased one by one, in the order of the pool.
PackageErase ==
  /\ Alive
  /\ pc["package"] = "erase"
  /\ \E p \in stem :
       /\ IsFirstOf(p, stem, pos)
       /\ EraseOneTask(p)
       /\ stem' = stem \ {p}
  /\ UNCHANGED <<pushed, inputVars, pc, hold, replyVars, reads>>

PackageDone ==
  /\ Alive
  /\ pc["package"] = "erase"
  /\ stem = {}
  /\ UpdateOneTask(hold["package"], "SEND_TASK")
  /\ Release("package", "acquire")
  /\ UNCHANGED <<pos, pushed, data, inputVars, stem, replyVars, reads>>

\* The reply is generated, and handed to the client if there is a connection just then
\* (m_is_connected: the client's threads change it at any time). If not it is lost.
SendReply ==
  /\ Working("send")
  /\ LET p == hold["send"]
     IN  /\ sent' = Reply(Req(p), data[p])
         /\ \/ answers' = [answers EXCEPT ![Req(p)] = @ + 1] /\ UNCHANGED lost
            \/ lost' = [lost EXCEPT ![Req(p)] = @ + 1] /\ UNCHANGED answers
  /\ pc' = [pc EXCEPT !["send"] = "erase"]
  /\ UNCHANGED <<taskVars, inputVars, hold, stem, reads>>

\* Mutant: the task of a reply that could not be sent is kept and sent again.
SendEraseIfSent ==
  /\ Alive
  /\ pc["send"] = "erase"
  /\ LET p == hold["send"]
     IN  /\ IF answers[Req(p)] > 0 THEN EraseOneTask(p) ELSE UNCHANGED <<st, pos, data>>
         /\ reads' = [q \in Tasks |-> IF Req(q) = Req(p) THEN NoRead ELSE reads[q]]
  /\ sent' = NoReply
  /\ Release("send", "acquire")
  /\ UNCHANGED <<pushed, inputVars, stem, answers, lost>>

\* The task is erased whether its reply was sent or not.
SendErase ==
  /\ Alive
  /\ pc["send"] = "erase"
  /\ LET p == hold["send"]
     IN  /\ EraseOneTask(p)
         /\ reads' = [q \in Tasks |-> IF Req(q) = Req(p) THEN NoRead ELSE reads[q]]
  /\ sent' = NoReply
  /\ Release("send", "acquire")
  /\ UNCHANGED <<pushed, inputVars, stem, answers, lost>>

-----------------------------------------------------------------------------

Init ==
  /\ st = [p \in Tasks |-> "NONE"]
  /\ pos = [p \in Tasks |-> 0]
  /\ pushed = 0
  /\ data = [p \in Tasks |-> BlankData]
  /\ total = [r \in Requests |-> 0]
  /\ recv = [pc |-> "recv", req |-> 0, img |-> 0, paths |-> 0]
  /\ gui = [pc |-> "idle", img |-> 0]
  /\ pc = [t \in Threads |-> IF t \in {"std", "arb", "hwrt"} \ OcrThreads
                             THEN "gone" ELSE "acquire"]
  /\ hold = [t \in Threads |-> NoTask]
  /\ stem = {}
  /\ answers = [r \in {0} \cup Requests |-> 0]
  /\ lost = [r \in {0} \cup Requests |-> 0]
  /\ sent = NoReply
  /\ reads = [p \in Tasks |-> NoRead]

RecvStep == StartSubtask \/ LoadSubtask \/ NotifyLoader

\* A step of any other thread.
ThreadStep(t) ==
  \/ Acquire(t)
  \/ WaitForTask(t)
  \/ LoadImage(t)
  \/ t = "cut" /\ (NoParcel \/ CutParcel \/ NotifyDetector)
  \/ DetectTags(t)
  \/ ReadNothing(t)
  \/ \E code \in Postcodes : ReadPostcode(t, code)
  \/ t = "package" /\ (PackageNotReady \/ PackageMerge \/ PackageErase \/ PackageDone)
  \/ t = "send" /\ (SendReply \/ SendErase)

Next ==
  \/ \E msg \in Messages : RecvRequest(msg)
  \/ RecvStep
  \/ ReadPastPaths
  \/ StartDebugTask
  \/ CutDebugTask
  \/ \E t \in Threads : ThreadStep(t)

Spec == Init /\ [][Next]_vars

(* Every thread that is running is scheduled again and again, and a push   *)
(* that the operator has begun ends. Requests and pushes need not come.    *)
Fairness ==
  /\ WF_vars(RecvStep)
  /\ WF_vars(CutDebugTask)
  /\ \A t \in Threads : WF_vars(ThreadStep(t))

LiveSpec == Spec /\ Fairness
-----------------------------------------------------------------------------
(* Properties.                                                             *)

DataRecords == [img : BOOLEAN, tags : SUBSET Kinds, num : Nat, kind : Kinds,
                codes : Seq(Postcodes), index : Nat]
RecvRecords == [pc : {"recv", "start", "load", "notify", "crashed"},
                req : 0..MaxRequests, img : 0..MaxImages, paths : Nat]

(* Every variable has its type; the producers stay within the images they  *)
(* push, and a thread that works or notifies has a task.                   *)
TypeOK ==
  /\ st \in [Tasks -> TaskStates]
  /\ pos \in [Tasks -> Nat]
  /\ pushed \in Nat
  /\ data \in [Tasks -> DataRecords]
  /\ total \in [Requests -> 0..MaxImages]
  /\ recv \in RecvRecords
  /\ recv.pc \in {"start", "load", "notify"} => recv.req > 0 /\ recv.img < total[recv.req]
  /\ gui \in [pc : {"idle", "cut"}, img : 0..MaxDebug]
  /\ gui.pc = "cut" => gui.img < MaxDebug
  /\ pc \in [Threads -> {"acquire", "waiting", "work", "notify", "erase", "gone"}]
  /\ hold \in [Threads -> Tasks \cup {NoTask}]
  /\ \A t \in Threads : pc[t] \in {"work", "notify", "erase"} => hold[t] \in Tasks
  /\ stem \subseteq Tasks
  /\ answers \in [{0} \cup Requests -> Nat]
  /\ lost \in [{0} \cup Requests -> Nat]
  /\ sent \in [req : Nat, res : Nat, index : Nat, codes : Seq(Postcodes)]
  /\ reads \in [Tasks -> (Kinds \X Postcodes) \cup {NoRead}]

\* A thread works on its task (the cut thread's notification only reads it).
Busy(t) == pc[t] \in {"work", "erase"}

\* The tasks a thread may read and write: the package thread's are its mtask and those
\* it has still to erase.
Owned(t) == (IF Busy(t) THEN {hold[t]} ELSE {}) \cup (IF t = "package" THEN stem ELSE {})

(* No two threads ever work on the same task, although most stages leave   *)
(* the task in the state in which they found it (_acquire_one_task).       *)
ExclusiveWork == \A t, u \in Threads : t # u => Owned(t) \cap Owned(u) = {}

(* A task that a thread works on is in the pool, in the state of that      *)
(* thread's stage: nobody has erased or moved it (no use after free).      *)
OwnedStaysInStage == \A t \in Threads : \A p \in Owned(t) : st[p] \in Claimed(t)

(* Reading the state after the unlock in _update_one_task_sp loses no      *)
(* wake-up: while a thread waits and there is a task for it, the thread    *)
(* that moved the task is about to notify.                                 *)
NoLostWakeup ==
  /\ \A t \in Loaders : \A p \in InState({"LOAD_IMAGE"}) :
       pc[t] = "waiting" /\ Alive => recv.pc = "notify" /\ p = RecvTask
  /\ \A t \in Detectors : \A p \in InState({"DETECTION"}) :
       pc[t] = "waiting" => pc["cut"] = "notify" /\ p = hold["cut"]

(* A request is answered at most once: its images are merged before any of *)
(* them gets to the send thread.                                           *)
AtMostOneReply == \A r \in Requests : answers[r] + lost[r] <= 1

\* thread_recv_msg has pushed task p of a request.
Pushed(p) ==
  \/ Req(p) < recv.req
  \/ /\ Req(p) = recv.req
     /\ Sub(p) < recv.img \/ (Sub(p) = recv.img /\ recv.pc \in {"load", "notify"})

AllPushed(r) == \A i \in 0..(total[r] - 1) : Pushed(<<r, i>>)

(* A request gets to the send thread as a whole: all of its images were    *)
(* pushed and all but the one that carries the result have been erased.    *)
PackagedWhole ==
  \A p \in InState({"SEND_TASK"}) :
    Req(p) # 0 => /\ AllPushed(Req(p))
                  /\ \A q \in Tasks : Req(q) = Req(p) /\ q # p => st[q] = "NONE"

\* What OCR read on the images of request r: triples of image, kind and postcode.
ReadOf(r) == {<<Sub(p), reads[p][1], reads[p][2]>> :
                p \in {p \in Tasks : Req(p) = r /\ reads[p] # NoRead}}

\* Of the postcodes R that were read on the images of a request, those that count and
\* have the highest standing.
Best(R) ==
  LET counted == {x \in R : x[2] \in MergedKinds}
  IN  {x \in counted : \A y \in counted : MergeRank[x[2]] <= MergeRank[y[2]]}

\* What a reply may say of them.
Reports(R, reply) ==
  CASE reply.res = 1 /\ Best(R) # {} ->
         /\ {x[3] : x \in Best(R)} = {reply.codes[1]}
         /\ \E x \in Best(R) : x[1] = reply.index
    [] reply.res = 1 /\ Best(R) = {} ->
         \E k \in Kinds \ MergedKinds : <<0, k, reply.codes[1]>> \in R
    [] reply.res = 13 -> /\ reply.codes[1] # reply.codes[2]
                         /\ {reply.codes[1], reply.codes[2]} \subseteq {x[3] : x \in Best(R)}
    [] OTHER -> Best(R) = {} /\ \A x \in R : x[1] # 0

(* The reply reports what OCR read. One postcode: it was read on the image *)
(* the index names, and no other image disagrees in a tag of the same      *)
(* standing or has one of a higher standing. Several: two images disagree. *)
(* None: no image has a postcode that counts. A postcode of a kind that    *)
(* _merge_tasks leaves out (a lottery tag; in strict mode also arbitrary   *)
(* and handwritten ones) is sent only when nothing counts and it is on the *)
(* first image: then the first task stands for the request as it is.       *)
ReplyReportsReads ==
  pc["send"] = "erase" /\ sent.req # 0 => Reports(ReadOf(sent.req), sent)

(* Every request with an image is answered, or its answer is discarded for *)
(* want of a connection, and none of its tasks stays in the pool.          *)
EveryRequestAnswered ==
  \A r \in Requests :
    (total[r] > 0) ~> /\ answers[r] + lost[r] = 1
                      /\ \A p \in Tasks : Req(p) = r => st[p] = "NONE"

\* A task has been through all of its stages: it waits to be packaged, or is gone.
Finished(p) == \/ st[p] \in {"PACKAGE", "SEND_TASK"}
               \/ st[p] = "NONE" /\ Pushed(p)

Service == INSTANCE ParcelService WITH
  images <- total,
  finished <- [r \in Requests |-> {i \in 0..(total[r] - 1) : Finished(<<r, i>>)}],
  outcome <- [r \in Requests |-> IF answers[r] > 0 THEN "sent"
                                 ELSE IF lost[r] > 0 THEN "lost" ELSE "none"]

(* The pipeline keeps the promise of ParcelService: no reply before all    *)
(* the images of its request are finished, and no second one.              *)
ImplementsService == Service!Spec

(* Images pushed by the operator never produce more replies than there are *)
(* images, although all of them have one m_task_id and may be merged.      *)
DebugRepliesBounded ==
  answers[0] + lost[0] <= gui.img + (IF gui.pc = "cut" THEN 1 ELSE 0)
=============================================================================
