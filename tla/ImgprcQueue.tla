---------------------------- MODULE ImgprcQueue -----------------------------
(***************************************************************************)
(* The queue of the phase-1 program, CImgprcOCRInstanceView::m_Tasks, with *)
(* the message timer that fills it, the worker threads that read its       *)
(* pictures, and the callbacks of the reply timer that empty it.           *)
(*                                                                         *)
(* Every operation on m_Tasks is one critical section and one action here. *)
(* There is no packaging thread: a worker that finishes a picture looks    *)
(* whether its request is complete, and if it is, merges it, in four       *)
(* critical sections (collect, then advance, or delete and push).          *)
(***************************************************************************)
EXTENDS Integers, Sequences, FiniteSets, Functions, FiniteSetsExt

CONSTANTS
  Workers,         \* the threads of ImageProcessThread
  Senders,         \* the callbacks of the reply timer that may run at once
  MaxRequests,     \* bound: requests the image server sends
  Messages,        \* what a request may be: [images, paths: Nat, top: BOOLEAN]
  Finds,           \* how many postcodes a picture may show
  Run_OCR_on_handwrite_box,
  Run_OCR_on_unknown_tag,
  DistinctTicks,   \* no two requests are received on one tick of GetTickCount
  MaxFailures,     \* bound: sends after which GetLastError is not 0
  MaxBreaks,       \* bound: broken connections
  NoTask

Requests == 1..MaxRequests
Types == {"TAG", "HWBOX", "UNKNOWN_TAG"}          \* m_processType
Results == {"NONE", "OK", "NO_IMAGE", "NO_POSTCODE", "MUL_POSTCODE"}

ASSUME QueueAssumption ==
  /\ MaxRequests \in Nat
  /\ Messages \subseteq [images : Nat, paths : Nat, top : BOOLEAN]
  /\ Finds \subseteq Nat
  /\ {Run_OCR_on_handwrite_box, Run_OCR_on_unknown_tag, DistinctTicks} \subseteq BOOLEAN
  /\ MaxFailures \in Nat /\ MaxBreaks \in Nat
  /\ IsFiniteSet(Workers) /\ IsFiniteSet(Senders)

\* A postcode read: on picture `index', while its task was of type `type'.
Codes == Nat \X Types \X Nat

\* An ImgprcTask. m_chsOcrPostcode and m_postcodeNum are one set of codes.
Task == [request : Requests, trigger : Nat, index : Nat, total : Nat, path : BOOLEAN,
         top : BOOLEAN, state : {"UNPROCESS", "PROCESSING", "WAIT_PACKAGE", "PROCESSED"},
         type : Types, codes : SUBSET Codes, result : Results, at : Nat, mat : BOOLEAN]

VARIABLES
  m_Tasks,           \* the vector, a function on increasing positions
  pushed,            \* the position of the last push_back
  message,           \* the messages received, in order
  trigger,           \* m_dwTimeTrigger of each of them
  next,              \* the next subtask of the last message to push
  pc, task,          \* the workers and their local mtask
  mats,              \* the pictures in a worker's waitPackageTasks
  spc, reply,        \* the callbacks of the reply timer and their local mTask
  m_bClientSockState,
  breaks,            \* connections broken so far
  replied,           \* replies that left, by request
  packaged,          \* packaged tasks pushed, by request
  failed,            \* sends reported as failed, by request
  scans,             \* <<request, index, type>> already worked on
  reads,             \* <<request, code>> read so far
  freed              \* <<request, index>> whose pSrcMat was deleted

queueVars == <<m_Tasks, pushed>>
recvVars == <<message, trigger, next>>
workerVars == <<pc, task, mats>>
senderVars == <<spc, reply>>
linkVars == <<m_bClientSockState, breaks>>
history == <<replied, packaged, failed, scans, reads, freed>>
vars == <<queueVars, recvVars, workerVars, senderVars, linkVars, history>>

(***************************************************************************)
(* The vector: positions only grow, so the order of the positions is the   *)
(* order of the elements, and erasing keeps it.                            *)
(***************************************************************************)
First(positions) == Min(positions)

Of(t) == {k \in DOMAIN m_Tasks : m_Tasks[k].trigger = t}

InState(s) == {k \in DOMAIN m_Tasks : m_Tasks[k].state = s}

PushBack(t) ==
  /\ pushed' = pushed + 1
  /\ m_Tasks' = [k \in DOMAIN m_Tasks \cup {pushed + 1} |->
                   IF k = pushed + 1 THEN t ELSE m_Tasks[k]]

\* DelAnImageProcessTask: everything with the trigger goes.
Erase(t) ==
  /\ m_Tasks' = Restrict(m_Tasks, DOMAIN m_Tasks \ Of(t))
  /\ UNCHANGED pushed

Init ==
  /\ m_Tasks = << >>
  /\ pushed = 0
  /\ message = << >>
  /\ trigger = << >>
  /\ next = 0
  /\ pc = [w \in Workers |-> "get"]
  /\ task = [w \in Workers |-> NoTask]
  /\ mats = [w \in Workers |-> {}]
  /\ spc = [s \in Senders |-> "take"]
  /\ reply = [s \in Senders |-> NoTask]
  /\ m_bClientSockState = TRUE
  /\ breaks = 0
  /\ replied = [r \in Requests |-> 0]
  /\ packaged = [r \in Requests |-> 0]
  /\ failed = [r \in Requests |-> 0]
  /\ scans = {}
  /\ reads = {}
  /\ freed = {}

(***************************************************************************)
(* Requests                                                                *)
(***************************************************************************)
\* SplitTask: the number of subtasks of a message, ...
Pieces(m) == IF m.images <= 1 THEN m.images ELSE Min({m.images, m.paths})

\* ... and one of them. They are copies of the task as the message announced it.
SubTask(r, i) ==
  [request |-> r, trigger |-> trigger[r], index |-> i, total |-> message[r].images,
   path |-> message[r].paths > 0,
   top |-> IF message[r].images = 1 THEN message[r].top ELSE i = 0,
   state |-> "UNPROCESS", type |-> "TAG", codes |-> {}, result |-> "NONE", at |-> 0,
   mat |-> FALSE]

\* The request received last.
Last == Len(message)

\* All subtasks of a request are in the queue, or have been.
Complete(r) == r < Last \/ (r = Last /\ next = Pieces(message[r]))

\* TCPClientTask and ProcessOneRMes, up to the first PushAnImageProcessTask.
ProcessOneRMes(m) ==
  /\ m_bClientSockState
  /\ Last < MaxRequests
  /\ Last > 0 => Complete(Last)
  /\ message' = Append(message, m)
  /\ \E sametick \in BOOLEAN :
       /\ sametick => Last > 0 /\ ~DistinctTicks
       /\ trigger' = Append(trigger, IF sametick THEN trigger[Last] ELSE Last + 1)
  /\ next' = 0
  /\ UNCHANGED <<queueVars, workerVars, senderVars, linkVars, history>>

\* One turn of the loop: the workers may start on it before the next is pushed.
PushAnImageProcessTask ==
  /\ Last > 0 /\ ~Complete(Last)
  /\ PushBack(SubTask(Last, next))
  /\ next' = next + 1
  /\ UNCHANGED <<message, trigger, workerVars, senderVars, linkVars, history>>

(***************************************************************************)
(* Workers                                                                 *)
(***************************************************************************)
\* ImagesProcessing is over: its local variables are gone.
Return(w) ==
  /\ pc' = [pc EXCEPT ![w] = "get"]
  /\ task' = [task EXCEPT ![w] = NoTask]
  /\ mats' = [mats EXCEPT ![w] = {}]

\* Mutant: the task in the queue is not marked.
GetWithoutMark(w) ==
  LET t == m_Tasks[First(InState("UNPROCESS"))]
  IN /\ pc[w] = "get"
     /\ InState("UNPROCESS") # {}
     /\ pc' = [pc EXCEPT ![w] = "work"]
     /\ task' = [task EXCEPT ![w] = [t EXCEPT !.state = "PROCESSING"]]
     /\ UNCHANGED <<queueVars, recvVars, mats, senderVars, linkVars, history>>

GetAnImageProcessTask(w) ==
  LET k == First(InState("UNPROCESS"))
      t == [m_Tasks[k] EXCEPT !.state = "PROCESSING"]
  IN /\ pc[w] = "get"
     /\ InState("UNPROCESS") # {}
     /\ m_Tasks' = [m_Tasks EXCEPT ![k] = t]
     /\ pc' = [pc EXCEPT ![w] = "work"]
     /\ task' = [task EXCEPT ![w] = t]
     /\ UNCHANGED <<pushed, recvVars, mats, senderVars, linkVars, history>>

\* OnAnImageProcessTaskOver: the first task with the same trigger and index becomes t.
TaskOver(t) ==
  LET same == {k \in Of(t.trigger) : m_Tasks[k].index = t.index}
      over == [t EXCEPT !.state = IF t.total = 1 THEN "PROCESSED" ELSE "WAIT_PACKAGE"]
  IN m_Tasks' = IF same = {} THEN m_Tasks ELSE [m_Tasks EXCEPT ![First(same)] = over]

\* CopyImageFilesFromServer finds no path: the task is over, unread and unpackaged.
SkipTask(w) ==
  /\ pc[w] = "work"
  /\ ~task[w].path
  /\ TaskOver([task[w] EXCEPT !.result = "NO_IMAGE"])
  /\ Return(w)
  /\ UNCHANGED <<pushed, recvVars, senderVars, linkVars, history>>

ResultOf(codes) == IF codes = {} THEN "NO_POSTCODE"
                   ELSE IF Cardinality(codes) = 1 THEN "OK" ELSE "MUL_POSTCODE"

\* Handwriting boxes and unknown tags are looked for on the top view only.
CodesFound(t) ==
  LET most == IF t.type = "TAG" \/ t.top THEN Finds ELSE {0}
  IN {{<<t.index, t.type, j>> : j \in 1..n} : n \in most}

\* PorcessTask: the picture cannot be loaded (a loaded one is kept in pSrcMat), or it
\* is read.
Processed(t) ==
  (IF t.mat THEN {} ELSE {[t EXCEPT !.result = "NO_IMAGE"]})
  \cup {[t EXCEPT !.mat = TRUE, !.codes = @ \cup found, !.at = t.index,
                  !.result = ResultOf(t.codes \cup found)] : found \in CodesFound(t)}

\* Mutant: every picture is released as soon as it is read.
FinishAndRelease(w) ==
  /\ pc[w] = "work"
  /\ task[w].path
  /\ \E t \in Processed(task[w]) :
       /\ TaskOver(t)
       /\ reads' = reads \cup {<<t.request, c>> : c \in t.codes}
       /\ freed' = freed \cup (IF t.mat THEN {<<t.request, t.index>>} ELSE {})
       /\ IF t.total = 1
          THEN Return(w)
          ELSE /\ pc' = [pc EXCEPT ![w] = "collect"]
               /\ task' = [task EXCEPT ![w] = t]
               /\ UNCHANGED mats
  /\ scans' = scans \cup {<<task[w].request, task[w].index, task[w].type>>}
  /\ UNCHANGED <<pushed, recvVars, senderVars, linkVars, replied, packaged, failed>>

\* PorcessTask, OnAnImageProcessTaskOver and, for a request of one picture, ReleaseMat.
FinishTask(w) ==
  /\ pc[w] = "work"
  /\ task[w].path
  /\ \E t \in Processed(task[w]) :
       /\ TaskOver(t)
       /\ reads' = reads \cup {<<t.request, c>> : c \in t.codes}
       /\ IF t.total = 1
          THEN /\ Return(w)
               /\ freed' = freed \cup (IF t.mat THEN {<<t.request, t.index>>} ELSE {})
          ELSE /\ pc' = [pc EXCEPT ![w] = "collect"]
               /\ task' = [task EXCEPT ![w] = t]
               /\ UNCHANGED <<mats, freed>>
  /\ scans' = scans \cup {<<task[w].request, task[w].index, task[w].type>>}
  /\ UNCHANGED <<pushed, recvVars, senderVars, linkVars, replied, packaged, failed>>

\* GetWaitPackageTasks
WaitPackageTasks(t) ==
  {k \in Of(t.trigger) : m_Tasks[k].state = "WAIT_PACKAGE" /\ m_Tasks[k].type = t.type}

\* Mutant: the result of merging is not marked as processed.
MergeKeepsState(ts) ==
  LET first == First(DOMAIN ts)
      codes == UNION {ts[k].codes : k \in DOMAIN ts}
  IN [ts[first] EXCEPT !.codes = codes, !.result = ResultOf(codes)]

MergeHomoTasks(ts) ==
  LET first == First(DOMAIN ts)
      others == DOMAIN ts \ {first}
      coded == {k \in others : ts[k].codes # {}}
      codes == UNION {ts[k].codes : k \in DOMAIN ts}
  IN [ts[first] EXCEPT
        !.codes = codes,
        !.at = IF coded = {} THEN @ ELSE ts[Max(coded)].index + 1,
        !.result = IF codes = {} /\ \E k \in others : ts[k].result = "NO_IMAGE"
                   THEN "NO_IMAGE" ELSE ResultOf(codes),
        !.state = "PROCESSED"]

\* Mutant: the last type follows itself as a type of its own.
NextWithoutEnd(type) ==
  CASE type = "TAG" -> "HWBOX"
    [] type = "HWBOX" -> "UNKNOWN_TAG"
    [] OTHER -> "NONE"

GetNextProcessType(type) ==
  CASE type = "TAG" /\ Run_OCR_on_handwrite_box -> "HWBOX"
    [] type = "HWBOX" /\ Run_OCR_on_unknown_tag -> "UNKNOWN_TAG"
    [] OTHER -> "OVER"

\* Some picture of the request is not finished: whoever finishes it will package.
LeaveToOthers(w) ==
  /\ pc[w] = "collect"
  /\ Cardinality(WaitPackageTasks(task[w])) < task[w].total
  /\ Return(w)
  /\ UNCHANGED <<queueVars, recvVars, senderVars, linkVars, history>>

\* Mutant: one picture may be missing.
MergeOneShort(w) ==
  LET ready == WaitPackageTasks(task[w])
      merged == MergeHomoTasks(Restrict(m_Tasks, ready))
  IN /\ pc[w] = "collect"
     /\ Cardinality(ready) >= task[w].total - 1
     /\ ready # {}
     /\ task' = [task EXCEPT ![w] = merged]
     /\ IF GetNextProcessType(merged.type) # "OVER" /\ merged.codes = {}
        THEN /\ pc' = [pc EXCEPT ![w] = "advance"]
             /\ UNCHANGED mats
        ELSE /\ pc' = [pc EXCEPT ![w] = "delete"]
             /\ mats' = [mats EXCEPT ![w] = {<<m_Tasks[k].request, m_Tasks[k].index>> :
                                               k \in {i \in ready : m_Tasks[i].mat}}]
     /\ UNCHANGED <<queueVars, recvVars, senderVars, linkVars, history>>

\* All are finished: the worker has its own copies of them from here on.
MergeTasks(w) ==
  LET ready == WaitPackageTasks(task[w])
      merged == MergeHomoTasks(Restrict(m_Tasks, ready))
  IN /\ pc[w] = "collect"
     /\ Cardinality(ready) >= task[w].total
     /\ task' = [task EXCEPT ![w] = merged]
     /\ IF GetNextProcessType(merged.type) # "OVER" /\ merged.codes = {}
        THEN /\ pc' = [pc EXCEPT ![w] = "advance"]
             /\ UNCHANGED mats
        ELSE /\ pc' = [pc EXCEPT ![w] = "delete"]
             /\ mats' = [mats EXCEPT ![w] = {<<m_Tasks[k].request, m_Tasks[k].index>> :
                                               k \in {i \in ready : m_Tasks[i].mat}}]
     /\ UNCHANGED <<queueVars, recvVars, senderVars, linkVars, history>>

\* Mutant: tasks that another worker already advanced start over.
AdvanceAll(w) ==
  /\ pc[w] = "advance"
  /\ m_Tasks' = [k \in DOMAIN m_Tasks |->
                   IF m_Tasks[k].trigger = task[w].trigger
                   THEN [m_Tasks[k] EXCEPT !.type = GetNextProcessType(task[w].type),
                                           !.state = "UNPROCESS"]
                   ELSE m_Tasks[k]]
  /\ Return(w)
  /\ UNCHANGED <<pushed, recvVars, senderVars, linkVars, history>>

\* Mutant: the tasks get the next type but are not offered to the workers again.
AdvanceKeepsState(w) ==
  /\ pc[w] = "advance"
  /\ m_Tasks' = [k \in DOMAIN m_Tasks |->
                   IF m_Tasks[k].trigger = task[w].trigger /\ m_Tasks[k].type = task[w].type
                   THEN [m_Tasks[k] EXCEPT !.type = GetNextProcessType(task[w].type)]
                   ELSE m_Tasks[k]]
  /\ Return(w)
  /\ UNCHANGED <<pushed, recvVars, senderVars, linkVars, history>>

ChangeTasksProcessType(w) ==
  /\ pc[w] = "advance"
  /\ m_Tasks' = [k \in DOMAIN m_Tasks |->
                   IF m_Tasks[k].trigger = task[w].trigger /\ m_Tasks[k].type = task[w].type
                   THEN [m_Tasks[k] EXCEPT !.type = GetNextProcessType(task[w].type),
                                           !.state = "UNPROCESS"]
                   ELSE m_Tasks[k]]
  /\ Return(w)
  /\ UNCHANGED <<pushed, recvVars, senderVars, linkVars, history>>

DelAnImageProcessTask(w) ==
  /\ pc[w] = "delete"
  /\ Erase(task[w].trigger)
  /\ pc' = [pc EXCEPT ![w] = "push"]
  /\ UNCHANGED <<recvVars, task, mats, senderVars, linkVars, history>>

\* PushAnImageProcessTask(mtask), then ReleaseMat of every picture.
PushPackaged(w) ==
  /\ pc[w] = "push"
  /\ PushBack(task[w])
  /\ packaged' = [packaged EXCEPT ![task[w].request] = @ + 1]
  /\ freed' = freed \cup mats[w]
  /\ Return(w)
  /\ UNCHANGED <<recvVars, senderVars, linkVars, replied, failed, scans, reads>>

(***************************************************************************)
(* Replies: TimeFunctionImg. A callback that takes longer than the period  *)
(* of the timer is joined by another one.                                  *)
(***************************************************************************)
GetAnFinishedImageProcessTask(s) ==
  /\ spc[s] = "take"
  /\ m_bClientSockState
  /\ InState("PROCESSED") # {}
  /\ reply' = [reply EXCEPT ![s] = m_Tasks[First(InState("PROCESSED"))]]
  /\ spc' = [spc EXCEPT ![s] = "send"]
  /\ UNCHANGED <<queueVars, recvVars, workerVars, linkVars, history>>

Failures == SumFunction(failed)

\* Mutant: what could not be sent is deleted too.
SendIgnoresError(s) ==
  LET r == reply[s].request
  IN /\ spc[s] = "send"
     /\ \E sent, error \in BOOLEAN :
          /\ ~sent => error
          /\ error => Failures < MaxFailures
          /\ replied' = [replied EXCEPT ![r] = IF sent THEN @ + 1 ELSE @]
          /\ failed' = [failed EXCEPT ![r] = IF error THEN @ + 1 ELSE @]
          /\ spc' = [spc EXCEPT ![s] = "delete"]
     /\ UNCHANGED <<queueVars, recvVars, workerVars, reply, linkVars, packaged, scans, reads,
                    freed>>

\* Mutant: what was sent is not deleted.
SendKeepsTask(s) ==
  LET r == reply[s].request
  IN /\ spc[s] = "send"
     /\ replied[r] < 2 * Cardinality(Senders) * (Max({1, packaged[r]}) + failed[r])
     /\ replied' = [replied EXCEPT ![r] = @ + 1]
     /\ spc' = [spc EXCEPT ![s] = "take"]
     /\ reply' = [reply EXCEPT ![s] = NoTask]
     /\ UNCHANGED <<queueVars, recvVars, workerVars, linkVars, packaged, failed, scans, reads,
                    freed>>

\* m_ClientSock.Send; the callback believes GetLastError, which Send does not reset: any
\* earlier call that failed on this thread of the timer's pool may show in it.
Send(s) ==
  LET r == reply[s].request
  IN /\ spc[s] = "send"
     /\ \E sent, error \in BOOLEAN :
          /\ ~sent => error
          /\ error => Failures < MaxFailures
          /\ replied' = [replied EXCEPT ![r] = IF sent THEN @ + 1 ELSE @]
          /\ failed' = [failed EXCEPT ![r] = IF error THEN @ + 1 ELSE @]
          /\ spc' = [spc EXCEPT ![s] = IF error THEN "take" ELSE "delete"]
          /\ reply' = [reply EXCEPT ![s] = IF error THEN NoTask ELSE @]
     /\ UNCHANGED <<queueVars, recvVars, workerVars, linkVars, packaged, scans, reads, freed>>

DelAnAnsweredTask(s) ==
  /\ spc[s] = "delete"
  /\ Erase(reply[s].trigger)
  /\ spc' = [spc EXCEPT ![s] = "take"]
  /\ reply' = [reply EXCEPT ![s] = NoTask]
  /\ UNCHANGED <<recvVars, workerVars, linkVars, history>>

(***************************************************************************)
(* ClientSocketonTimer notices that the connection is gone, or makes it    *)
(* again.                                                                  *)
(***************************************************************************)
Disconnected ==
  /\ m_bClientSockState
  /\ breaks < MaxBreaks
  /\ m_bClientSockState' = FALSE
  /\ breaks' = breaks + 1
  /\ UNCHANGED <<queueVars, recvVars, workerVars, senderVars, history>>

Connected ==
  /\ ~m_bClientSockState
  /\ m_bClientSockState' = TRUE
  /\ UNCHANGED <<queueVars, recvVars, workerVars, senderVars, breaks, history>>

WorkerStep(w) ==
  \/ GetAnImageProcessTask(w)
  \/ SkipTask(w)
  \/ FinishTask(w)
  \/ LeaveToOthers(w)
  \/ MergeTasks(w)
  \/ ChangeTasksProcessType(w)
  \/ DelAnImageProcessTask(w)
  \/ PushPackaged(w)

SenderStep(s) ==
  \/ GetAnFinishedImageProcessTask(s)
  \/ Send(s)
  \/ DelAnAnsweredTask(s)

Next ==
  \/ \E m \in Messages : ProcessOneRMes(m)
  \/ PushAnImageProcessTask
  \/ \E w \in Workers : WorkerStep(w)
  \/ \E s \in Senders : SenderStep(s)
  \/ Disconnected
  \/ Connected

Spec == Init /\ [][Next]_vars

\* Threads and timers go on; the connection is made again; failures are finite.
Fairness ==
  /\ WF_vars(PushAnImageProcessTask)
  /\ \A w \in Workers : WF_vars(WorkerStep(w))
  /\ \A s \in Senders : WF_vars(SenderStep(s))
  /\ WF_vars(Connected)

LiveSpec == Spec /\ Fairness

(***************************************************************************)
(* Properties                                                              *)
(***************************************************************************)
\* The program counters say what the local variables hold.
TypeOK ==
  /\ pushed \in Nat
  /\ DOMAIN m_Tasks \subseteq 1..pushed
  /\ \A k \in DOMAIN m_Tasks : m_Tasks[k] \in Task
  /\ message \in Seq(Messages) /\ Last <= MaxRequests
  /\ trigger \in Seq(Nat) /\ Len(trigger) = Last
  /\ next \in Nat
  /\ pc \in [Workers -> {"get", "work", "collect", "advance", "delete", "push"}]
  /\ task \in [Workers -> Task \cup {NoTask}]
  /\ \A w \in Workers : pc[w] # "get" => task[w] \in Task
  /\ mats \in [Workers -> SUBSET (Requests \X Nat)]
  /\ spc \in [Senders -> {"take", "send", "delete"}]
  /\ reply \in [Senders -> Task \cup {NoTask}]
  /\ \A s \in Senders : spc[s] # "take" => reply[s] \in Task
  /\ m_bClientSockState \in BOOLEAN
  /\ breaks \in 0..MaxBreaks
  /\ {replied, packaged, failed} \subseteq [Requests -> Nat]
  /\ scans \subseteq Requests \X Nat \X Types
  /\ reads \subseteq Requests \X Codes
  /\ freed \subseteq Requests \X Nat

(* A task a worker works on is in the queue and marked, and no other worker *)
(* has it: the lock is not held while the picture is read, and the other   *)
(* workers move, delete and merge the tasks of the same request meanwhile. *)
ExclusiveWork ==
  \A w \in Workers : pc[w] = "work" =>
    /\ \E k \in DOMAIN m_Tasks : m_Tasks[k] = task[w]
    /\ \A v \in Workers \ {w} :
         pc[v] = "work" => <<task[v].request, task[v].index>>
                             # <<task[w].request, task[w].index>>

(* No picture is read twice for the same type, although two workers may    *)
(* both find a request complete and both move it to the next type.         *)
ScannedOnce ==
  \A w \in Workers : pc[w] = "work" =>
    <<task[w].request, task[w].index, task[w].type>> \notin scans

\* The subtasks of a request that are in the queue, by index.
InQueue(r) == {m_Tasks[k].index : k \in {i \in DOMAIN m_Tasks : m_Tasks[i].request = r}}

(* Until a request is answered, it is in the queue with all its pictures,  *)
(* or packaged, or a worker is about to push it packaged.                  *)
NoRequestLost ==
  \A r \in 1..Last : Complete(r) /\ replied[r] = 0 /\ Pieces(message[r]) > 0 =>
    \/ InQueue(r) = 0..(Pieces(message[r]) - 1)
    \/ \E k \in InState("PROCESSED") : m_Tasks[k].request = r
    \/ \E w \in Workers : pc[w] = "push" /\ task[w].request = r

(* What is sent for a request is what was read on all of its pictures, and *)
(* no picture is left out: every one was worked on for the type the        *)
(* request ended with.                                                     *)
Reports(t) ==
  /\ t.codes = {x[2] : x \in {y \in reads : y[1] = t.request}}
  /\ \A i \in 0..(t.total - 1) : t.path => <<t.request, i, t.type>> \in scans
  /\ (t.result = "OK" <=> Cardinality(t.codes) = 1)
  /\ (t.result = "MUL_POSTCODE" <=> Cardinality(t.codes) > 1)
  /\ (t.at > 0 => \E c \in t.codes : c[1] = t.at - 1)

ReplyReportsReads == \A k \in InState("PROCESSED") : Reports(m_Tasks[k])

(* A picture is not freed while a task that is still to be worked on, or   *)
(* is being worked on, has it.                                             *)
PicturesAlive ==
  \A k \in DOMAIN m_Tasks : m_Tasks[k].mat /\ m_Tasks[k].state # "PROCESSED" =>
    <<m_Tasks[k].request, m_Tasks[k].index>> \notin freed

(* More than one reply has a reason: another worker packaged the request   *)
(* too, a send was taken for a failure, or two callbacks overlapped.       *)
RepliesBounded ==
  \A r \in Requests :
    replied[r] <= Cardinality(Senders) * (Max({1, packaged[r]}) + failed[r])

(* A request gets one reply.                                               *)
AnsweredOnce == \A r \in Requests : replied[r] <= 1

(* Every request the code splits into subtasks is answered.                *)
EveryRequestAnswered ==
  \A r \in Requests :
    (r <= Last /\ Pieces(message[r]) > 0) ~> replied[r] > 0

(* What was answered leaves the queue: in the end nothing stays in it.     *)
QueueDrained == <>[](m_Tasks = << >>)
=============================================================================
