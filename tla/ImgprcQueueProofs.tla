------------------------ MODULE ImgprcQueueProofs ---------------------------
(***************************************************************************)
(* Theorems about ImgprcQueue, for every number of workers, callbacks,     *)
(* requests and pictures, and for both settings of the handwriting and the *)
(* unknown tags.                                                           *)
(***************************************************************************)
EXTENDS ImgprcQueue, FiniteSetTheorems, WellFoundedInduction, TLAPS

-----------------------------------------------------------------------------
(* Lemmas on the operators of the model.                                   *)

\* The least element of a set of natural numbers is an element of it.
LEMMA MinInSet ==
  ASSUME NEW S \in SUBSET Nat, S # {}
  PROVE  Min(S) \in S /\ \A y \in S : Min(S) <= y
<1> DEFINE R == {rs \in Nat \X Nat : rs[1] < rs[2]}
<1>1. IsWellFoundedOn(R, Nat)
  BY NatLessThanWellFounded DEF OpToRel
<1>2. PICK m \in S : \A n \in S : ~(<<n, m>> \in R)
  BY ONLY <1>1, S \subseteq Nat, S # {}, WFMin
<1>3. ASSUME NEW n \in S PROVE m <= n
  <2>1. ~(<<n, m>> \in R) /\ n \in Nat /\ m \in Nat
    BY <1>2
  <2>2. ~(n < m)
    BY ONLY <2>1
  <2> QED
    BY ONLY <2>1, <2>2
<1> DEFINE Least(x) == \A y \in S : x <= y
<1>4. \E x \in S : Least(x)
  BY <1>3
<1>5. Min(S) = CHOOSE x \in S : Least(x)
  BY DEF Min
<1>6. Min(S) \in S /\ Least(Min(S))
  <2> HIDE DEF Least
  <2> QED
    BY ONLY <1>4, <1>5
<1> QED
  BY <1>6

\* The greatest element of a set of numbers up to n is an element of it.
LEMMA MaxInSet ==
  ASSUME NEW n \in Nat, NEW S \in SUBSET (1..n), S # {}
  PROVE  Max(S) \in S
<1> DEFINE T == {n - x : x \in S}
<1>1. T \in SUBSET Nat /\ T # {}
  <2>1. ASSUME NEW x \in S PROVE n - x \in Nat
    OBVIOUS
  <2>2. PICK x \in S : TRUE
    OBVIOUS
  <2>3. n - x \in T
    BY ONLY <2>2
  <2> QED
    BY ONLY <2>1, <2>3
<1>2. PICK x \in S : Min(T) = n - x
  BY <1>1, MinInSet
<1>3. \A y \in S : x >= y
  <2>1. ASSUME NEW y \in S PROVE x >= y
    <3>1. n - y \in T
      OBVIOUS
    <3>2. Min(T) <= n - y
      <4> HIDE DEF T
      <4> QED
        BY ONLY <1>1, <3>1, MinInSet
    <3>3. n - x <= n - y
      BY ONLY <1>2, <3>2
    <3> QED
      BY <3>3
  <2> QED
    BY <2>1
<1> QED
  BY <1>3 DEF Max

\* The number of subtasks is never more than the number of pictures announced.
LEMMA PiecesBound ==
  ASSUME QueueAssumption, NEW m \in Messages
  PROVE  Pieces(m) \in Nat /\ m.images \in Nat /\ Pieces(m) <= m.images
<1>1. m.images \in Nat /\ m.paths \in Nat
  BY DEF QueueAssumption
<1>2. Min({m.images, m.paths}) \in {m.images, m.paths}
      /\ Min({m.images, m.paths}) <= m.images
  BY <1>1, MinInSet
<1> QED
  BY <1>1, <1>2 DEF Pieces

\* A set of codes gives one of the results.
LEMMA ResultOfType == \A codes : ResultOf(codes) \in Results
BY DEF ResultOf, Results

\* A task with another state is a task.
Restated(t, s) == [t EXCEPT !.state = s]

\* Only the state changes.
LEMMA RestatedType ==
  ASSUME NEW t \in Task,
         NEW s \in {"UNPROCESS", "PROCESSING", "WAIT_PACKAGE", "PROCESSED"}
  PROVE  /\ Restated(t, s) \in Task
         /\ Restated(t, s).state = s
         /\ Restated(t, s).request = t.request /\ Restated(t, s).trigger = t.trigger
         /\ Restated(t, s).index = t.index /\ Restated(t, s).total = t.total
         /\ Restated(t, s).type = t.type /\ Restated(t, s).codes = t.codes
         /\ Restated(t, s).mat = t.mat
BY DEF Task, Restated

\* What reading a picture makes of its task.
LEMMA ProcessedFields ==
  ASSUME QueueAssumption, NEW t \in Task, NEW u \in Processed(t)
  PROVE  /\ u \in Task
         /\ u.state = t.state /\ u.request = t.request /\ u.trigger = t.trigger
         /\ u.index = t.index /\ u.total = t.total /\ u.type = t.type
<1>1. CASE u = [t EXCEPT !.result = "NO_IMAGE"]
  BY <1>1 DEF Task, Results
<1>2. ASSUME NEW found \in CodesFound(t),
             u = [t EXCEPT !.mat = TRUE, !.codes = @ \cup found, !.at = t.index,
                           !.result = ResultOf(t.codes \cup found)]
      PROVE  u \in Task /\ u.state = t.state /\ u.request = t.request
             /\ u.trigger = t.trigger /\ u.index = t.index /\ u.total = t.total
             /\ u.type = t.type
  <2>1. t.index \in Nat /\ t.type \in Types /\ t.codes \in SUBSET Codes
    BY DEF Task
  <2>2. found \in SUBSET Codes
    <3>1. PICK n \in Nat \cup {0} : found = {<<t.index, t.type, j>> : j \in 1..n}
      BY <2>1 DEF CodesFound, QueueAssumption
    <3> QED
      BY <2>1, <3>1 DEF Codes
  <2>3. t.codes \cup found \in SUBSET Codes
    BY <2>1, <2>2
  <2>4. ResultOf(t.codes \cup found) \in Results
    BY ResultOfType
  <2> HIDE DEF Codes
  <2> QED
    BY <1>2, <2>1, <2>3, <2>4 DEF Task
<1> QED
  BY <1>1, <1>2 DEF Processed

-----------------------------------------------------------------------------
(* Type correctness.                                                       *)

\* The parts of TypeOK.
QueueTypes ==
  /\ pushed \in Nat
  /\ DOMAIN m_Tasks \subseteq 1..pushed
  /\ \A k \in DOMAIN m_Tasks : m_Tasks[k] \in Task

RecvTypes ==
  /\ message \in Seq(Messages) /\ Last <= MaxRequests
  /\ trigger \in Seq(Nat) /\ Len(trigger) = Last
  /\ next \in Nat

WorkerTypes ==
  /\ pc \in [Workers -> {"get", "work", "collect", "advance", "delete", "push"}]
  /\ task \in [Workers -> Task \cup {NoTask}]
  /\ \A w \in Workers : pc[w] # "get" => task[w] \in Task
  /\ mats \in [Workers -> SUBSET (Requests \X Nat)]

SenderTypes ==
  /\ spc \in [Senders -> {"take", "send", "delete"}]
  /\ reply \in [Senders -> Task \cup {NoTask}]
  /\ \A s \in Senders : spc[s] # "take" => reply[s] \in Task

LinkTypes == m_bClientSockState \in BOOLEAN /\ breaks \in 0..MaxBreaks

HistoryTypes ==
  /\ replied \in [Requests -> Nat]
  /\ packaged \in [Requests -> Nat]
  /\ failed \in [Requests -> Nat]
  /\ scans \subseteq Requests \X Nat \X Types
  /\ reads \subseteq Requests \X Codes
  /\ freed \subseteq Requests \X Nat

\* TypeOK, by the components of the state.
Parts ==
  QueueTypes /\ RecvTypes /\ WorkerTypes /\ SenderTypes /\ LinkTypes /\ HistoryTypes

\* TypeOK is its parts, now and in the next state.
LEMMA TypeParts == (TypeOK <=> Parts) /\ (TypeOK' <=> Parts')
BY DEF Parts, TypeOK, QueueTypes, RecvTypes, WorkerTypes, SenderTypes, LinkTypes, HistoryTypes

\* What is needed of the numbers of pictures: a task is one of at least one.
Counted ==
  /\ Last > 0 => next <= Pieces(message[Last])
  /\ \A k \in DOMAIN m_Tasks : m_Tasks[k].total > 0
  /\ \A w \in Workers : pc[w] # "get" => task[w].total > 0

\* The types, as an inductive invariant (with MayAdvance, below).
TypeInv == TypeOK /\ Counted

\* The first of some positions of the vector is one of them.
LEMMA FirstIn ==
  ASSUME QueueTypes, NEW S \in SUBSET DOMAIN m_Tasks, S # {}
  PROVE  First(S) \in S
<1>1. S \in SUBSET Nat
  BY DEF QueueTypes
<1> QED
  BY <1>1, MinInSet DEF First

\* push_back
LEMMA PushedBack ==
  ASSUME QueueTypes, NEW t \in Task, PushBack(t)
  PROVE  /\ QueueTypes'
         /\ DOMAIN m_Tasks' = DOMAIN m_Tasks \cup {pushed + 1}
         /\ pushed + 1 \notin DOMAIN m_Tasks
         /\ m_Tasks'[pushed + 1] = t
         /\ \A k \in DOMAIN m_Tasks : m_Tasks'[k] = m_Tasks[k]
<1>1. pushed \in Nat /\ pushed' = pushed + 1 /\ pushed + 1 \notin DOMAIN m_Tasks
  BY DEF QueueTypes, PushBack
<1>2. DOMAIN m_Tasks' = DOMAIN m_Tasks \cup {pushed + 1} /\ m_Tasks'[pushed + 1] = t
  BY DEF PushBack
<1>3. \A k \in DOMAIN m_Tasks : m_Tasks'[k] = m_Tasks[k]
  BY <1>1 DEF PushBack
<1>4. DOMAIN m_Tasks' \subseteq 1..pushed'
  BY <1>1, <1>2 DEF QueueTypes
<1>5. \A k \in DOMAIN m_Tasks' : m_Tasks'[k] \in Task
  BY <1>2, <1>3 DEF QueueTypes
<1> QED
  BY <1>1, <1>2, <1>3, <1>4, <1>5 DEF QueueTypes

\* erase
LEMMA Erased ==
  ASSUME QueueTypes, NEW t, Erase(t)
  PROVE  /\ QueueTypes' /\ pushed' = pushed
         /\ DOMAIN m_Tasks' = {k \in DOMAIN m_Tasks : m_Tasks[k].trigger # t}
         /\ \A k \in DOMAIN m_Tasks' : m_Tasks'[k] = m_Tasks[k]
<1>1. DOMAIN m_Tasks' = {k \in DOMAIN m_Tasks : m_Tasks[k].trigger # t}
  BY DEF Erase, Of, Restrict
<1>2. \A k \in DOMAIN m_Tasks' : m_Tasks'[k] = m_Tasks[k]
  BY <1>1 DEF Erase, Of, Restrict
<1> QED
  BY <1>1, <1>2 DEF Erase, QueueTypes

\* What OnAnImageProcessTaskOver writes into the queue.
Over(t) == [t EXCEPT !.state = IF t.total = 1 THEN "PROCESSED" ELSE "WAIT_PACKAGE"]

\* Position k holds the task that t is a copy of.
IsFor(k, t) == m_Tasks[k].trigger = t.trigger /\ m_Tasks[k].index = t.index

\* It changes one task with the same trigger and index, if there is one.
LEMMA Overwritten ==
  ASSUME QueueTypes, NEW t \in Task, TaskOver(t)
  PROVE  \/ /\ \A k \in DOMAIN m_Tasks : ~IsFor(k, t)
            /\ m_Tasks' = m_Tasks
         \/ \E p \in DOMAIN m_Tasks :
              /\ IsFor(p, t)
              /\ DOMAIN m_Tasks' = DOMAIN m_Tasks
              /\ m_Tasks'[p] = Over(t)
              /\ \A k \in DOMAIN m_Tasks \ {p} : m_Tasks'[k] = m_Tasks[k]
<1> DEFINE same == {k \in Of(t.trigger) : m_Tasks[k].index = t.index}
<1>1. m_Tasks' = IF same = {} THEN m_Tasks ELSE [m_Tasks EXCEPT ![First(same)] = Over(t)]
  BY DEF TaskOver, Over
<1>2. same = {k \in DOMAIN m_Tasks : IsFor(k, t)}
  BY DEF Of, IsFor
<1>3. same # {} => First(same) \in same
  <2>1. same \in SUBSET DOMAIN m_Tasks
    BY <1>2
  <2> HIDE DEF same
  <2> QED
    BY <2>1, FirstIn
<1> HIDE DEF same
<1> QED
  BY <1>1, <1>2, <1>3

\* The overwritten task is a task.
LEMMA OverType ==
  ASSUME NEW t \in Task
  PROVE  /\ Over(t) \in Task
         /\ Over(t).state = (IF t.total = 1 THEN "PROCESSED" ELSE "WAIT_PACKAGE")
         /\ Over(t).request = t.request /\ Over(t).trigger = t.trigger
         /\ Over(t).index = t.index /\ Over(t).total = t.total /\ Over(t).type = t.type
         /\ Over(t).codes = t.codes /\ Over(t).mat = t.mat
<1> DEFINE s == IF t.total = 1 THEN "PROCESSED" ELSE "WAIT_PACKAGE"
<1>1. s \in {"UNPROCESS", "PROCESSING", "WAIT_PACKAGE", "PROCESSED"}
  OBVIOUS
<1>2. Over(t) = Restated(t, s)
  BY DEF Over, Restated
<1> HIDE DEF s
<1>3. /\ Over(t) \in Task /\ Over(t).state = s
      /\ Over(t).request = t.request /\ Over(t).trigger = t.trigger
      /\ Over(t).index = t.index /\ Over(t).total = t.total /\ Over(t).type = t.type
      /\ Over(t).codes = t.codes /\ Over(t).mat = t.mat
  BY <1>1, <1>2, RestatedType
<1> QED
  BY <1>3 DEF s

\* A task with merged results is a task.
WithResults(t, codes, at, result) ==
  [t EXCEPT !.codes = codes, !.at = at, !.result = result, !.state = "PROCESSED"]

\* Only the results and the state change.
LEMMA WithResultsType ==
  ASSUME NEW t \in Task, NEW codes \in SUBSET Codes, NEW at \in Nat, NEW result \in Results,
         NEW u, u = WithResults(t, codes, at, result)
  PROVE  /\ u \in Task /\ u.state = "PROCESSED" /\ u.codes = codes
         /\ u.type = t.type /\ u.trigger = t.trigger
         /\ u.request = t.request /\ u.index = t.index /\ u.total = t.total
BY DEF Task, WithResults

\* Merging finished tasks of one request and type gives a task of that request and type,
\* with the codes of all of them.
LEMMA Merged ==
  ASSUME QueueTypes, NEW t \in Task, t.total > 0,
         Cardinality(WaitPackageTasks(t)) >= t.total,
         NEW merged, merged = MergeHomoTasks(Restrict(m_Tasks, WaitPackageTasks(t)))
  PROVE  /\ merged \in Task
         /\ merged.state = "PROCESSED" /\ merged.type = t.type /\ merged.trigger = t.trigger
         /\ merged.codes = UNION {m_Tasks[k].codes : k \in WaitPackageTasks(t)}
         /\ \E k \in WaitPackageTasks(t) :
              /\ merged.request = m_Tasks[k].request /\ merged.index = m_Tasks[k].index
              /\ merged.total = m_Tasks[k].total
<1> DEFINE ready == WaitPackageTasks(t)
           ts == Restrict(m_Tasks, ready)
           first == First(DOMAIN ts)
           others == DOMAIN ts \ {first}
           coded == {k \in others : ts[k].codes # {}}
           codes == UNION {ts[k].codes : k \in DOMAIN ts}
           at == IF coded = {} THEN ts[first].at ELSE ts[Max(coded)].index + 1
           result == IF codes = {} /\ \E k \in others : ts[k].result = "NO_IMAGE"
                     THEN "NO_IMAGE" ELSE ResultOf(codes)
<1>1. ready \in SUBSET DOMAIN m_Tasks
      /\ \A k \in ready : m_Tasks[k].trigger = t.trigger /\ m_Tasks[k].type = t.type
  BY DEF WaitPackageTasks, Of
<1>2. ready # {}
  <2>1. t.total \in Nat
    BY DEF Task
  <2> QED
    BY <2>1, FS_EmptySet
<1> HIDE DEF ready
<1>3. DOMAIN ts = ready /\ \A k \in ready : ts[k] = m_Tasks[k] /\ ts[k] \in Task
  BY <1>1 DEF Restrict, QueueTypes
<1>4. first \in ready
  BY <1>1, <1>2, <1>3, FirstIn
<1>5. codes = UNION {m_Tasks[k].codes : k \in ready}
  BY <1>3
<1>6. codes \in SUBSET Codes
  <2>1. \A k \in ready : ts[k].codes \in SUBSET Codes
    BY <1>3 DEF Task
  <2> QED
    BY <2>1, <1>3
<1>7. at \in Nat
  <2>1. CASE coded = {}
    BY <2>1, <1>3, <1>4 DEF Task
  <2>2. CASE coded # {}
    <3>1. coded \in SUBSET (1..pushed) /\ pushed \in Nat /\ coded \subseteq ready
      BY <1>1, <1>3 DEF QueueTypes
    <3>2. Max(coded) \in ready
      <4> HIDE DEF coded
      <4> QED
        BY <2>2, <3>1, MaxInSet
    <3>3. ts[Max(coded)].index \in Nat
      BY <3>2, <1>3 DEF Task
    <3> QED
      BY <2>2, <3>3
  <2> QED
    BY <2>1, <2>2
<1>8. result \in Results
  BY ResultOfType DEF Results
<1>9. merged = WithResults(ts[first], codes, at, result)
  BY DEF MergeHomoTasks, WithResults, ready
<1>10. ts[first] \in Task
  BY <1>3, <1>4
<1> HIDE DEF ts, first, others, coded, codes, at, result
<1>11. /\ merged \in Task
       /\ merged.state = "PROCESSED" /\ merged.codes = codes
       /\ merged.type = ts[first].type /\ merged.trigger = ts[first].trigger
       /\ merged.request = ts[first].request /\ merged.index = ts[first].index
       /\ merged.total = ts[first].total
  BY <1>6, <1>7, <1>8, <1>9, <1>10, WithResultsType
<1> QED
  BY <1>1, <1>3, <1>4, <1>5, <1>11 DEF ready

\* What a step leaves alone keeps its type.
LEMMA TypesKept ==
  /\ QueueTypes /\ UNCHANGED queueVars => QueueTypes'
  /\ RecvTypes /\ UNCHANGED recvVars => RecvTypes'
  /\ WorkerTypes /\ UNCHANGED workerVars => WorkerTypes'
  /\ SenderTypes /\ UNCHANGED senderVars => SenderTypes'
  /\ LinkTypes /\ UNCHANGED linkVars => LinkTypes'
  /\ HistoryTypes /\ UNCHANGED history => HistoryTypes'
BY DEF QueueTypes, RecvTypes, WorkerTypes, SenderTypes, LinkTypes, HistoryTypes, Last,
       queueVars, recvVars, workerVars, senderVars, linkVars, history

\* The first position with a state has it.
LEMMA FirstInState ==
  ASSUME QueueTypes, NEW s, InState(s) # {}
  PROVE  First(InState(s)) \in DOMAIN m_Tasks /\ m_Tasks[First(InState(s))].state = s
<1>1. InState(s) \in SUBSET DOMAIN m_Tasks
  BY DEF InState
<1>2. First(InState(s)) \in InState(s)
  BY <1>1, FirstIn
<1> QED
  BY <1>2 DEF InState

\* One lemma for each action: it keeps the types.
LEMMA InitTypes == Init => TypeInv
<1> SUFFICES ASSUME Init PROVE TypeInv
  OBVIOUS
<1>1. QueueTypes
  BY DEF Init, QueueTypes
<1>2. RecvTypes
  BY QueueAssumption DEF Init, RecvTypes, Last, QueueAssumption
<1>3. WorkerTypes /\ SenderTypes
  BY DEF Init, WorkerTypes, SenderTypes
<1>4. LinkTypes /\ HistoryTypes
  BY QueueAssumption DEF Init, LinkTypes, HistoryTypes, QueueAssumption
<1>5. Counted
  BY DEF Init, Counted, Last
<1> QED
  BY <1>1, <1>2, <1>3, <1>4, <1>5, TypeParts DEF Parts, TypeInv

\* Receiving a request, and pushing its subtasks.
LEMMA ReceiveTypes ==
  ASSUME TypeInv, NEW m \in Messages, ProcessOneRMes(m)
  PROVE  TypeInv'
<1>1. QueueTypes' /\ WorkerTypes' /\ SenderTypes' /\ LinkTypes' /\ HistoryTypes'
  BY TypesKept, TypeParts DEF Parts, TypeInv, ProcessOneRMes
<1>2. RecvTypes /\ Last \in Nat /\ Last < MaxRequests
  BY TypeParts DEF Parts, TypeInv, RecvTypes, ProcessOneRMes, Last
<1>3. message' = Append(message, m) /\ Len(message') = Last + 1 /\ next' = 0
      /\ message'[Last + 1] = m
  BY <1>2 DEF ProcessOneRMes, RecvTypes, Last
<1>4. PICK n \in Nat : trigger' = Append(trigger, n)
  BY <1>2 DEF ProcessOneRMes, RecvTypes, Last
<1>5. RecvTypes'
  BY <1>2, <1>3, <1>4, QueueAssumption DEF RecvTypes, Last, QueueAssumption
<1>6. Counted'
  <2>1. next' <= Pieces(message'[Last'])
    BY <1>2, <1>3, PiecesBound, QueueAssumption DEF Last
  <2> QED
    BY <2>1 DEF Counted, TypeInv, ProcessOneRMes, queueVars, workerVars
<1> QED
  BY <1>1, <1>5, <1>6, TypeParts DEF Parts, TypeInv

\* A subtask of a message is a task.
LEMMA PushTypes ==
  ASSUME TypeInv, PushAnImageProcessTask
  PROVE  /\ TypeInv'
         /\ SubTask(Last, next) \in Task
         /\ Last \in Requests /\ message[Last] \in Messages
         /\ next < Pieces(message[Last]) /\ Pieces(message[Last]) \in Nat
         /\ message[Last].images \in Nat /\ Pieces(message[Last]) <= message[Last].images
<1>1. WorkerTypes' /\ SenderTypes' /\ LinkTypes' /\ HistoryTypes'
  BY TypesKept, TypeParts DEF Parts, TypeInv, PushAnImageProcessTask
<1>2. QueueTypes /\ RecvTypes /\ Last \in Nat /\ Last > 0 /\ Counted
  BY TypeParts DEF Parts, TypeInv, RecvTypes, PushAnImageProcessTask, Last
<1>3. Last \in Requests /\ message[Last] \in Messages
  BY <1>2 DEF RecvTypes, Last, Requests
<1>4. /\ Pieces(message[Last]) \in Nat /\ message[Last].images \in Nat
      /\ Pieces(message[Last]) <= message[Last].images
  BY <1>3, PiecesBound, QueueAssumption
<1>5. next < Pieces(message[Last])
  BY <1>2, <1>4 DEF PushAnImageProcessTask, Complete, Counted, RecvTypes
<1>6. SubTask(Last, next) \in Task
  <2>1. trigger[Last] \in Nat /\ next \in Nat
    BY <1>2, <1>3 DEF RecvTypes, Last
  <2>2. message[Last].top \in BOOLEAN /\ (message[Last].paths > 0) \in BOOLEAN
    BY <1>3, QueueAssumption DEF QueueAssumption
  <2> QED
    BY <1>3, <1>4, <2>1, <2>2 DEF SubTask, Task, Types, Results
<1>7. SubTask(Last, next).total > 0
  BY <1>2, <1>4, <1>5 DEF SubTask, RecvTypes
<1>8. PushBack(SubTask(Last, next)) /\ next' = next + 1 /\ message' = message
      /\ trigger' = trigger /\ pc' = pc /\ task' = task
  BY DEF PushAnImageProcessTask, workerVars
<1>9. RecvTypes'
  BY <1>2, <1>8 DEF RecvTypes, Last
<1>10. QueueTypes' /\ \A k \in DOMAIN m_Tasks' : m_Tasks'[k].total > 0
  BY <1>2, <1>6, <1>7, <1>8, PushedBack DEF Counted
<1>11. Counted'
  BY <1>2, <1>4, <1>5, <1>8, <1>10 DEF Counted, Last, RecvTypes
<1> QED
  BY <1>1, <1>3, <1>4, <1>5, <1>6, <1>9, <1>10, <1>11, TypeParts DEF Parts, TypeInv

\* Taking a task, and finishing it.
LEMMA GetTypes ==
  ASSUME TypeInv, NEW w \in Workers, GetAnImageProcessTask(w)
  PROVE  TypeInv'
<1> DEFINE k == First(InState("UNPROCESS"))
           t == Restated(m_Tasks[k], "PROCESSING")
<1>1. RecvTypes' /\ SenderTypes' /\ LinkTypes' /\ HistoryTypes'
  BY TypesKept, TypeParts DEF Parts, TypeInv, GetAnImageProcessTask
<1>2. QueueTypes /\ WorkerTypes /\ Counted
  BY TypeParts DEF Parts, TypeInv
<1>3. k \in DOMAIN m_Tasks
  BY <1>2, FirstInState DEF GetAnImageProcessTask
<1>4. t \in Task /\ t.total > 0
  BY <1>2, <1>3, RestatedType DEF QueueTypes, Counted
<1>5. /\ m_Tasks' = [m_Tasks EXCEPT ![k] = t] /\ pushed' = pushed
      /\ pc' = [pc EXCEPT ![w] = "work"] /\ task' = [task EXCEPT ![w] = t]
      /\ mats' = mats /\ message' = message /\ next' = next
  BY DEF GetAnImageProcessTask, Restated, recvVars
<1> HIDE DEF k, t
<1>6. QueueTypes'
  BY <1>2, <1>3, <1>4, <1>5 DEF QueueTypes
<1>7. WorkerTypes'
  BY <1>2, <1>4, <1>5 DEF WorkerTypes
<1>8. Counted'
  BY <1>2, <1>3, <1>4, <1>5 DEF Counted, Last, WorkerTypes
<1> QED
  BY <1>1, <1>6, <1>7, <1>8, TypeParts DEF Parts, TypeInv

\* OnAnImageProcessTaskOver keeps the queue typed and its tasks counted.
LEMMA OverwrittenTypes ==
  ASSUME QueueTypes, Counted, NEW t \in Task, t.total > 0, TaskOver(t), pushed' = pushed
  PROVE  QueueTypes' /\ \A k \in DOMAIN m_Tasks' : m_Tasks'[k].total > 0
<1>1. Over(t) \in Task /\ Over(t).total > 0
  BY OverType
<1> QED
  BY <1>1, Overwritten DEF QueueTypes, Counted

\* No path: only the results change.
LEMMA SkipTypes ==
  ASSUME TypeInv, NEW w \in Workers, SkipTask(w)
  PROVE  TypeInv'
<1> DEFINE t == [task[w] EXCEPT !.result = "NO_IMAGE"]
<1>1. RecvTypes' /\ SenderTypes' /\ LinkTypes' /\ HistoryTypes'
  BY TypesKept, TypeParts DEF Parts, TypeInv, SkipTask
<1>2. QueueTypes /\ WorkerTypes /\ Counted
  BY TypeParts DEF Parts, TypeInv
<1>3. task[w] \in Task /\ task[w].total > 0
  BY <1>2 DEF SkipTask, WorkerTypes, Counted
<1>4. t \in Task /\ t.total > 0
  BY <1>3 DEF Task, Results
<1>5. TaskOver(t) /\ pushed' = pushed /\ Return(w) /\ message' = message /\ next' = next
  BY DEF SkipTask, recvVars
<1> HIDE DEF t
<1>6. QueueTypes' /\ \A k \in DOMAIN m_Tasks' : m_Tasks'[k].total > 0
  BY <1>2, <1>4, <1>5, OverwrittenTypes
<1>7. WorkerTypes'
  BY <1>2, <1>5 DEF WorkerTypes, Return
<1>8. Counted'
  BY <1>2, <1>5, <1>6 DEF Counted, Last, WorkerTypes, Return
<1> QED
  BY <1>1, <1>6, <1>7, <1>8, TypeParts DEF Parts, TypeInv

\* A picture is read or cannot be loaded.
LEMMA FinishTypes ==
  ASSUME TypeInv, NEW w \in Workers, FinishTask(w)
  PROVE  TypeInv'
<1>1. RecvTypes' /\ SenderTypes' /\ LinkTypes'
  BY TypesKept, TypeParts DEF Parts, TypeInv, FinishTask
<1>2. QueueTypes /\ WorkerTypes /\ HistoryTypes /\ Counted
  BY TypeParts DEF Parts, TypeInv
<1>3. task[w] \in Task /\ task[w].total > 0
  BY <1>2 DEF FinishTask, WorkerTypes, Counted
<1>4. PICK t \in Processed(task[w]) :
        /\ TaskOver(t)
        /\ reads' = reads \cup {<<t.request, c>> : c \in t.codes}
        /\ IF t.total = 1
           THEN /\ Return(w)
                /\ freed' = freed \cup (IF t.mat THEN {<<t.request, t.index>>} ELSE {})
           ELSE /\ pc' = [pc EXCEPT ![w] = "collect"]
                /\ task' = [task EXCEPT ![w] = t]
                /\ UNCHANGED <<mats, freed>>
  BY DEF FinishTask
<1>5. t \in Task /\ t.total > 0
  BY <1>3, QueueAssumption, ProcessedFields
<1>6. QueueTypes' /\ \A k \in DOMAIN m_Tasks' : m_Tasks'[k].total > 0
  BY <1>2, <1>4, <1>5, OverwrittenTypes DEF FinishTask
<1>7. WorkerTypes'
  BY <1>2, <1>4, <1>5 DEF WorkerTypes, Return
<1>8. HistoryTypes'
  <2>1. scans' \subseteq Requests \X Nat \X Types
    <3>1. task[w].request \in Requests /\ task[w].index \in Nat /\ task[w].type \in Types
      BY <1>3 DEF Task
    <3> QED
      BY <1>2, <3>1 DEF FinishTask, HistoryTypes
  <2>2. t.request \in Requests /\ t.codes \in SUBSET Codes /\ t.index \in Nat
    BY <1>5 DEF Task
  <2>3. reads' \subseteq Requests \X Codes
    BY <1>2, <1>4, <2>2 DEF HistoryTypes
  <2>4. freed' \subseteq Requests \X Nat
    BY <1>2, <1>4, <2>2 DEF HistoryTypes
  <2> QED
    BY <1>2, <2>1, <2>3, <2>4 DEF FinishTask, HistoryTypes
<1>9. Counted'
  BY <1>2, <1>4, <1>5, <1>6 DEF Counted, Last, WorkerTypes, Return, FinishTask, recvVars
<1> QED
  BY <1>1, <1>6, <1>7, <1>8, <1>9, TypeParts DEF Parts, TypeInv

\* Packaging.
LEMMA LeaveTypes ==
  ASSUME TypeInv, NEW w \in Workers, LeaveToOthers(w)
  PROVE  TypeInv'
<1>1. QueueTypes' /\ RecvTypes' /\ SenderTypes' /\ LinkTypes' /\ HistoryTypes'
  BY TypesKept, TypeParts DEF Parts, TypeInv, LeaveToOthers
<1>2. WorkerTypes'
  BY TypeParts DEF Parts, TypeInv, WorkerTypes, LeaveToOthers, Return
<1>3. Counted'
  BY TypeParts DEF Parts, TypeInv, WorkerTypes, Counted, Last, LeaveToOthers, Return,
     queueVars, recvVars
<1> QED
  BY <1>1, <1>2, <1>3, TypeParts DEF Parts, TypeInv

\* The merged task is a task.
LEMMA MergeTypes ==
  ASSUME TypeInv, NEW w \in Workers, MergeTasks(w)
  PROVE  TypeInv'
<1> DEFINE ready == WaitPackageTasks(task[w])
           merged == MergeHomoTasks(Restrict(m_Tasks, ready))
<1>1. QueueTypes' /\ RecvTypes' /\ SenderTypes' /\ LinkTypes' /\ HistoryTypes'
  BY TypesKept, TypeParts DEF Parts, TypeInv, MergeTasks
<1>2. QueueTypes /\ WorkerTypes /\ Counted
  BY TypeParts DEF Parts, TypeInv
<1>3. task[w] \in Task /\ task[w].total > 0 /\ Cardinality(ready) >= task[w].total
  BY <1>2 DEF MergeTasks, WorkerTypes, Counted
<1>4. merged \in Task
      /\ \E k \in ready : merged.request = m_Tasks[k].request /\ merged.total = m_Tasks[k].total
  BY <1>2, <1>3, Merged
<1>5. ready \subseteq DOMAIN m_Tasks
  BY DEF WaitPackageTasks, Of
<1>6. merged.total > 0
  BY <1>2, <1>4, <1>5 DEF Counted
<1>7. PICK p \in {"advance", "delete"} :
        pc' = [pc EXCEPT ![w] = p] /\ task' = [task EXCEPT ![w] = merged]
  BY DEF MergeTasks
<1>8. mats' \in [Workers -> SUBSET (Requests \X Nat)]
  <2> DEFINE kept == {<<m_Tasks[k].request, m_Tasks[k].index>> : k \in {i \in ready : m_Tasks[i].mat}}
  <2>1. kept \in SUBSET (Requests \X Nat)
    <3>1. \A k \in ready : m_Tasks[k].request \in Requests /\ m_Tasks[k].index \in Nat
      BY <1>2, <1>5 DEF QueueTypes, Task
    <3> QED
      BY <3>1
  <2>2. mats' = mats \/ mats' = [mats EXCEPT ![w] = kept]
    BY DEF MergeTasks
  <2> QED
    BY <1>2, <2>1, <2>2 DEF WorkerTypes
<1> HIDE DEF ready, merged
<1>9. WorkerTypes'
  BY <1>2, <1>4, <1>7, <1>8 DEF WorkerTypes
<1>10. Counted'
  BY <1>2, <1>4, <1>6, <1>7 DEF Counted, Last, WorkerTypes, MergeTasks, queueVars, recvVars
<1> QED
  BY <1>1, <1>9, <1>10, TypeParts DEF Parts, TypeInv

\* ChangeTasksProcessType: the task at each position, afterwards.
Advanced(t, by) ==
  IF t.trigger = by.trigger /\ t.type = by.type
  THEN [t EXCEPT !.type = GetNextProcessType(by.type), !.state = "UNPROCESS"] ELSE t

\* A task of the next type is a task, because there is a next type.
LEMMA AdvancedType ==
  ASSUME NEW t \in Task, NEW by \in Task, GetNextProcessType(by.type) # "OVER"
  PROVE  LET u == Advanced(t, by)
         IN /\ u \in Task
            /\ u.request = t.request /\ u.trigger = t.trigger /\ u.index = t.index
            /\ u.total = t.total /\ u.codes = t.codes /\ u.mat = t.mat
            /\ ~(t.trigger = by.trigger /\ t.type = by.type) => u = t
            /\ t.trigger = by.trigger /\ t.type = by.type =>
                 u.type = GetNextProcessType(by.type) /\ u.state = "UNPROCESS"
<1>1. GetNextProcessType(by.type) \in Types
  BY DEF GetNextProcessType, Types
<1> QED
  BY <1>1 DEF Advanced, Task

\* The type of a request that a worker is about to advance has a next one.
MayAdvance == \A w \in Workers : pc[w] = "advance" => GetNextProcessType(task[w].type) # "OVER"

\* The tasks move to the next type.
LEMMA AdvanceTypes ==
  ASSUME TypeInv, MayAdvance, NEW w \in Workers, ChangeTasksProcessType(w)
  PROVE  TypeInv'
<1>1. RecvTypes' /\ SenderTypes' /\ LinkTypes' /\ HistoryTypes'
  BY TypesKept, TypeParts DEF Parts, TypeInv, ChangeTasksProcessType
<1>2. QueueTypes /\ WorkerTypes /\ Counted
  BY TypeParts DEF Parts, TypeInv
<1>3. task[w] \in Task /\ GetNextProcessType(task[w].type) # "OVER"
  BY <1>2 DEF ChangeTasksProcessType, WorkerTypes, MayAdvance
<1>4. m_Tasks' = [k \in DOMAIN m_Tasks |-> Advanced(m_Tasks[k], task[w])]
  BY DEF ChangeTasksProcessType, Advanced
<1>5. QueueTypes' /\ \A k \in DOMAIN m_Tasks' : m_Tasks'[k].total > 0
  <2>1. DOMAIN m_Tasks' = DOMAIN m_Tasks /\ pushed' = pushed
        /\ \A k \in DOMAIN m_Tasks : m_Tasks'[k] = Advanced(m_Tasks[k], task[w])
    BY <1>4 DEF ChangeTasksProcessType
  <2>2. ASSUME NEW k \in DOMAIN m_Tasks
        PROVE  m_Tasks'[k] \in Task /\ m_Tasks'[k].total > 0
    <3>1. m_Tasks[k] \in Task /\ m_Tasks[k].total > 0
      BY <1>2 DEF QueueTypes, Counted
    <3> QED
      BY <1>3, <2>1, <3>1, AdvancedType
  <2> QED
    BY <1>2, <2>1, <2>2 DEF QueueTypes
<1>6. WorkerTypes'
  BY <1>2 DEF WorkerTypes, ChangeTasksProcessType, Return
<1>7. Counted'
  BY <1>2, <1>5 DEF Counted, Last, WorkerTypes, ChangeTasksProcessType, Return, recvVars
<1> QED
  BY <1>1, <1>5, <1>6, <1>7, TypeParts DEF Parts, TypeInv

\* The pictures of the request leave the queue.
LEMMA DeleteTypes ==
  ASSUME TypeInv, NEW w \in Workers, DelAnImageProcessTask(w)
  PROVE  TypeInv'
<1>1. RecvTypes' /\ SenderTypes' /\ LinkTypes' /\ HistoryTypes'
  BY TypesKept, TypeParts DEF Parts, TypeInv, DelAnImageProcessTask
<1>2. QueueTypes /\ WorkerTypes /\ Counted
  BY TypeParts DEF Parts, TypeInv
<1>3. QueueTypes' /\ \A k \in DOMAIN m_Tasks' : m_Tasks'[k].total > 0
  BY <1>2, Erased DEF DelAnImageProcessTask, Counted
<1>4. WorkerTypes'
  BY <1>2 DEF WorkerTypes, DelAnImageProcessTask
<1>5. Counted'
  BY <1>2, <1>3 DEF Counted, Last, WorkerTypes, DelAnImageProcessTask, recvVars
<1> QED
  BY <1>1, <1>3, <1>4, <1>5, TypeParts DEF Parts, TypeInv

\* The merged task joins the queue.
LEMMA PackagedTypes ==
  ASSUME TypeInv, NEW w \in Workers, PushPackaged(w)
  PROVE  TypeInv'
<1>1. RecvTypes' /\ SenderTypes' /\ LinkTypes'
  BY TypesKept, TypeParts DEF Parts, TypeInv, PushPackaged
<1>2. QueueTypes /\ WorkerTypes /\ HistoryTypes /\ Counted
  BY TypeParts DEF Parts, TypeInv
<1>3. task[w] \in Task /\ task[w].total > 0
  BY <1>2 DEF PushPackaged, WorkerTypes, Counted
<1>4. QueueTypes' /\ \A k \in DOMAIN m_Tasks' : m_Tasks'[k].total > 0
  BY <1>2, <1>3, PushedBack DEF PushPackaged, Counted
<1>5. WorkerTypes'
  BY <1>2 DEF WorkerTypes, PushPackaged, Return
<1>6. Counted'
  BY <1>2, <1>4 DEF Counted, Last, WorkerTypes, PushPackaged, Return, recvVars
<1>7. HistoryTypes'
  <2>1. task[w].request \in Requests /\ mats[w] \in SUBSET (Requests \X Nat)
    BY <1>2, <1>3 DEF Task, WorkerTypes
  <2> QED
    BY <1>2, <2>1 DEF PushPackaged, HistoryTypes
<1> QED
  BY <1>1, <1>4, <1>5, <1>6, <1>7, TypeParts DEF Parts, TypeInv

\* Replies, and the connection.
LEMMA SenderStepTypes ==
  ASSUME TypeInv, NEW s \in Senders, SenderStep(s)
  PROVE  TypeInv'
<1>1. RecvTypes' /\ WorkerTypes' /\ LinkTypes' /\ pc' = pc /\ task' = task
      /\ message' = message /\ next' = next
  BY TypesKept, TypeParts
  DEF Parts, TypeInv, SenderStep, GetAnFinishedImageProcessTask, Send, DelAnAnsweredTask,
      workerVars, recvVars
<1>2. QueueTypes /\ SenderTypes /\ HistoryTypes /\ Counted
  BY TypeParts DEF Parts, TypeInv
<1>3. CASE GetAnFinishedImageProcessTask(s)
  <2>1. m_Tasks[First(InState("PROCESSED"))] \in Task
    BY <1>2, <1>3, FirstInState DEF GetAnFinishedImageProcessTask, QueueTypes
  <2>2. QueueTypes' /\ HistoryTypes' /\ m_Tasks' = m_Tasks
    BY <1>2, <1>3, TypesKept DEF GetAnFinishedImageProcessTask, queueVars
  <2>3. SenderTypes'
    BY <1>2, <1>3, <2>1 DEF GetAnFinishedImageProcessTask, SenderTypes
  <2> QED
    BY <1>1, <1>2, <2>2, <2>3, TypeParts DEF Parts, TypeInv, Counted, Last
<1>4. CASE Send(s)
  <2>1. QueueTypes' /\ m_Tasks' = m_Tasks
    BY <1>2, <1>4, TypesKept DEF Send, queueVars
  <2>2. SenderTypes'
    BY <1>2, <1>4 DEF Send, SenderTypes
  <2>3. reply[s].request \in Requests
    BY <1>2, <1>4 DEF Send, SenderTypes, Task
  <2>4. HistoryTypes'
    <3>1. PICK sent, error \in BOOLEAN :
            /\ replied' = [replied EXCEPT ![reply[s].request] = IF sent THEN @ + 1 ELSE @]
            /\ failed' = [failed EXCEPT ![reply[s].request] = IF error THEN @ + 1 ELSE @]
      BY <1>4 DEF Send
    <3>2. replied' \in [Requests -> Nat] /\ failed' \in [Requests -> Nat]
      BY <1>2, <2>3, <3>1 DEF HistoryTypes
    <3> QED
      BY <1>2, <1>4, <3>2 DEF Send, HistoryTypes
  <2> QED
    BY <1>1, <1>2, <2>1, <2>2, <2>4, TypeParts DEF Parts, TypeInv, Counted, Last
<1>5. CASE DelAnAnsweredTask(s)
  <2>1. QueueTypes' /\ \A k \in DOMAIN m_Tasks' : m_Tasks'[k].total > 0
    BY <1>2, <1>5, Erased DEF DelAnAnsweredTask, Counted
  <2>2. SenderTypes' /\ HistoryTypes'
    BY <1>2, <1>5, TypesKept DEF DelAnAnsweredTask, SenderTypes
  <2> QED
    BY <1>1, <1>2, <2>1, <2>2, TypeParts DEF Parts, TypeInv, Counted, Last
<1> QED
  BY <1>3, <1>4, <1>5 DEF SenderStep

\* The connection breaks or comes back.
LEMMA LinkStepTypes ==
  ASSUME TypeInv, Disconnected \/ Connected
  PROVE  TypeInv'
<1>1. QueueTypes' /\ RecvTypes' /\ WorkerTypes' /\ SenderTypes' /\ HistoryTypes'
  BY TypesKept, TypeParts DEF Parts, TypeInv, Disconnected, Connected
<1>2. LinkTypes'
  <2>1. breaks \in 0..MaxBreaks /\ MaxBreaks \in Nat
    BY TypeParts, QueueAssumption DEF Parts, TypeInv, LinkTypes, QueueAssumption
  <2>2. breaks' \in 0..MaxBreaks
    BY <2>1 DEF Disconnected, Connected
  <2>3. m_bClientSockState' \in BOOLEAN
    BY DEF Disconnected, Connected
  <2> QED
    BY <2>2, <2>3 DEF LinkTypes
<1>3. Counted'
  BY DEF TypeInv, Counted, Last, Disconnected, Connected, queueVars, recvVars, workerVars
<1> QED
  BY <1>1, <1>2, <1>3, TypeParts DEF Parts, TypeInv

\* Only MergeTasks starts to advance, and only when there is a next type.
LEMMA MayAdvanceStep ==
  ASSUME TypeInv, MayAdvance, [Next]_vars
  PROVE  MayAdvance'
<1> SUFFICES ASSUME NEW v \in Workers, pc'[v] = "advance"
             PROVE  GetNextProcessType(task'[v].type) # "OVER"
  BY DEF MayAdvance
<1>1. WorkerTypes
  BY TypeParts DEF Parts, TypeInv
<1>2. CASE UNCHANGED <<pc, task>>
  BY <1>2 DEF MayAdvance
<1>3. ASSUME NEW w \in Workers, WorkerStep(w)
      PROVE  GetNextProcessType(task'[v].type) # "OVER"
  <2>1. CASE MergeTasks(w) /\ v = w
    BY <1>1, <2>1 DEF MergeTasks, WorkerTypes
  <2>2. CASE v # w
    BY <1>1, <1>3, <2>2
    DEF WorkerStep, GetAnImageProcessTask, SkipTask, FinishTask, LeaveToOthers, MergeTasks,
        ChangeTasksProcessType, DelAnImageProcessTask, PushPackaged, Return, WorkerTypes,
        MayAdvance
  <2>3. CASE ~MergeTasks(w) /\ v = w
    BY <1>1, <1>3, <2>3
    DEF WorkerStep, GetAnImageProcessTask, SkipTask, FinishTask, LeaveToOthers,
        ChangeTasksProcessType, DelAnImageProcessTask, PushPackaged, Return, WorkerTypes
  <2> QED
    BY <2>1, <2>2, <2>3
<1> QED
  BY <1>2, <1>3
  DEF Next, ProcessOneRMes, PushAnImageProcessTask, SenderStep, GetAnFinishedImageProcessTask,
      Send, DelAnAnsweredTask, Disconnected, Connected, vars, workerVars

\* A step keeps the types.
LEMMA StepTypes ==
  ASSUME TypeInv, MayAdvance, [Next]_vars
  PROVE  TypeInv'
<1>1. CASE UNCHANGED vars
  <2>1. Parts'
    BY <1>1, TypesKept, TypeParts DEF Parts, TypeInv, vars
  <2> QED
    BY <1>1, <2>1, TypeParts
    DEF TypeInv, Counted, Last, vars, queueVars, recvVars, workerVars
<1>2. ASSUME NEW w \in Workers, WorkerStep(w)
      PROVE  TypeInv'
  BY <1>2, GetTypes, SkipTypes, FinishTypes, LeaveTypes, MergeTypes, AdvanceTypes, DeleteTypes,
     PackagedTypes DEF WorkerStep
<1> QED
  BY <1>1, <1>2, ReceiveTypes, PushTypes, SenderStepTypes, LinkStepTypes DEF Next

(* The program counters and the local variables of the workers and of the  *)
(* callbacks agree, and every index into the vector is one of its          *)
(* positions: the variables always have their types.                       *)
THEOREM TypeCorrect == Spec => []TypeOK
<1>1. Init => TypeInv /\ MayAdvance
  BY InitTypes DEF Init, MayAdvance
<1>2. TypeInv /\ MayAdvance /\ [Next]_vars => (TypeInv /\ MayAdvance)'
  BY StepTypes, MayAdvanceStep
<1>3. TypeInv => TypeOK
  BY DEF TypeInv
<1> QED
  BY <1>1, <1>2, <1>3, PTL DEF Spec

-----------------------------------------------------------------------------
(* Safety. The requests are told apart by their ticks.                     *)

\* The order of the types: a request only ever moves up.
Rank(type) == CASE type = "TAG" -> 0 [] type = "HWBOX" -> 1 [] OTHER -> 2

\* The subtasks of request r pushed so far.
Pushed(r) == IF r < Last THEN Pieces(message[r]) ELSE next

\* The positions of the tasks of request r.
Entries(r) == {k \in DOMAIN m_Tasks : m_Tasks[k].request = r}

\* Nothing of the request is left to be worked on, and nothing will come.
Closed(r) == Complete(r) /\ \A k \in Entries(r) : m_Tasks[k].state = "PROCESSED"

\* Requests are told apart by their ticks.
Numbered ==
  /\ \A r \in 1..Last : trigger[r] = r
  /\ Last > 0 => next <= Pieces(message[Last])

\* What every copy of a task says of its request.
Fits(t) ==
  /\ t.request \in 1..Last
  /\ t.trigger = t.request
  /\ t.total = message[t.request].images
  /\ t.index < Pushed(t.request)

\* Every copy of a task fits, wherever it is.
AllFit ==
  /\ \A k \in DOMAIN m_Tasks : Fits(m_Tasks[k])
  /\ \A w \in Workers : pc[w] # "get" => Fits(task[w])
  /\ \A s \in Senders : spc[s] # "take" => Fits(reply[s])

\* The task at k is of one picture that is still to be read or merged.
Unmerged(k) == m_Tasks[k].state # "PROCESSED"

\* Two copies of the task of one picture.
Same(t, u) == t.request = u.request /\ t.index = u.index

\* A picture has one task in the queue until its request is merged.
OneEach ==
  \A j, k \in DOMAIN m_Tasks :
    Unmerged(j) /\ Unmerged(k) /\ Same(m_Tasks[j], m_Tasks[k]) => j = k

\* Where there is a merged task, nothing of its request is left to be worked on.
ProcessedIsClosed ==
  \A k \in DOMAIN m_Tasks : ~Unmerged(k) => Closed(m_Tasks[k].request)

\* A task being worked on is in the queue as it was taken, and one worker has it.
Working ==
  /\ \A w \in Workers : pc[w] = "work" =>
       task[w].state = "PROCESSING" /\ \E k \in DOMAIN m_Tasks : m_Tasks[k] = task[w]
  /\ \A v, w \in Workers :
       pc[v] = "work" /\ pc[w] = "work" /\ Same(task[v], task[w]) => v = w

\* What is still of the type that found nothing is waiting, with no codes. Whoever
\* advanced the request before has moved it up.
Advancing ==
  \A w \in Workers : pc[w] = "advance" =>
    /\ Complete(task[w].request)
    /\ \A k \in Entries(task[w].request) :
         /\ Rank(m_Tasks[k].type) >= Rank(task[w].type)
         /\ m_Tasks[k].type = task[w].type =>
              m_Tasks[k].state = "WAIT_PACKAGE" /\ m_Tasks[k].codes = {}

\* What a worker that is about to delete saw is still there, unless another one deleted it.
AsMerged(t) ==
  /\ \A k \in Entries(t.request) : m_Tasks[k].state = "WAIT_PACKAGE" /\ m_Tasks[k].type = t.type
  /\ \/ GetNextProcessType(t.type) = "OVER"
     \/ \E k \in Entries(t.request) : m_Tasks[k].codes # {}

\* Two workers may merge one request; the second one then deletes merged tasks only,
\* and nobody still advances it.
Packaging ==
  /\ \A w \in Workers : pc[w] = "delete" => Closed(task[w].request) \/ AsMerged(task[w])
  /\ \A w \in Workers : pc[w] = "push" => Closed(task[w].request)
  /\ \A w \in Workers : pc[w] \in {"delete", "push"} =>
       /\ task[w].state = "PROCESSED"
       /\ Complete(task[w].request)
       /\ \A x \in mats[w] : x[1] = task[w].request
       /\ \A v \in Workers : pc[v] = "advance" /\ task[v].request = task[w].request =>
            Rank(task[v].type) < Rank(task[w].type)

\* What is being sent is closed, and deleted only after a reply.
Sending ==
  \A s \in Senders : spc[s] # "take" =>
    /\ Closed(reply[s].request)
    /\ spc[s] = "delete" => replied[reply[s].request] > 0

\* A picture that was read has moved up, or waits to be merged.
Scanned ==
  \A x \in scans :
    /\ x[1] \in 1..Last /\ x[2] < Pushed(x[1])
    /\ \A k \in Entries(x[1]) : m_Tasks[k].index = x[2] /\ Unmerged(k) =>
         /\ Rank(x[3]) <= Rank(m_Tasks[k].type)
         /\ m_Tasks[k].state # "WAIT_PACKAGE" => Rank(x[3]) < Rank(m_Tasks[k].type)

\* Pictures are freed only of closed requests.
Freed == \A x \in freed : x[1] \in 1..Last /\ Closed(x[1])

\* An unanswered request is in the queue whole, or merged, or about to be.
Kept ==
  \A r \in 1..Last : replied[r] = 0 =>
    \/ InQueue(r) = 0..(Pushed(r) - 1)
    \/ \E k \in Entries(r) : ~Unmerged(k)
    \/ \E w \in Workers : pc[w] = "push" /\ task[w].request = r

\* All of it; with the types, the inductive invariant.
Safe ==
  /\ Numbered
  /\ AllFit
  /\ OneEach
  /\ ProcessedIsClosed
  /\ Working
  /\ Advancing
  /\ Packaging
  /\ Sending
  /\ Scanned
  /\ Freed
  /\ Kept

\* The inductive invariant.
IInv == TypeInv /\ MayAdvance /\ Safe

\* The next type is one higher.
LEMMA RankOrder ==
  /\ \A a \in Types : Rank(a) \in Nat
  /\ \A a, b \in Types : Rank(a) = Rank(b) => a = b
  /\ \A a \in Types : GetNextProcessType(a) # "OVER" =>
       GetNextProcessType(a) \in Types /\ Rank(GetNextProcessType(a)) = Rank(a) + 1
<1>1. Rank("TAG") = 0 /\ Rank("HWBOX") = 1 /\ Rank("UNKNOWN_TAG") = 2
  BY DEF Rank
<1>2. /\ GetNextProcessType("TAG") \in {"HWBOX", "OVER"}
      /\ GetNextProcessType("HWBOX") \in {"UNKNOWN_TAG", "OVER"}
      /\ GetNextProcessType("UNKNOWN_TAG") = "OVER"
  BY DEF GetNextProcessType
<1> QED
  BY <1>1, <1>2 DEF Types

\* No more subtasks are pushed than there are pictures, and all of them when it is complete.
LEMMA PushedBound ==
  ASSUME TypeInv, Numbered, NEW r \in 1..Last
  PROVE  /\ Pushed(r) \in Nat /\ message[r].images \in Nat
         /\ Pushed(r) <= message[r].images
         /\ Pushed(r) = message[r].images => Complete(r)
         /\ Complete(r) => Pushed(r) = Pieces(message[r])
<1>1. RecvTypes /\ Last \in Nat
  BY TypeParts DEF Parts, TypeInv, RecvTypes, Last
<1>2. message[r] \in Messages
  BY <1>1 DEF RecvTypes, Last
<1>3. Pieces(message[r]) \in Nat /\ message[r].images \in Nat
      /\ Pieces(message[r]) <= message[r].images
  BY <1>2, PiecesBound, QueueAssumption
<1> QED
  BY <1>1, <1>3 DEF Pushed, Complete, Numbered, RecvTypes

\* What is known of the requests only grows.
LEMMA Grows ==
  ASSUME TypeInv, Numbered, [Next]_vars
  PROVE  /\ \A r \in 1..Last : r \in 1..Last' /\ message'[r] = message[r]
                               /\ Pushed(r)' >= Pushed(r)
         /\ \A r \in 1..Last : Complete(r) => Complete(r)'
         /\ \A t \in Task : Fits(t) => Fits(t)'
<1>1. RecvTypes /\ Last \in Nat /\ next \in Nat
  BY TypeParts DEF Parts, TypeInv, RecvTypes, Last
<1>2. \A r \in 1..Last : r \in 1..Last' /\ message'[r] = message[r]
                         /\ Pushed(r)' >= Pushed(r) /\ Pushed(r)' \in Int
                         /\ (Complete(r) => Complete(r)')
  <2> SUFFICES ASSUME NEW r \in 1..Last
               PROVE  r \in 1..Last' /\ message'[r] = message[r]
                      /\ Pushed(r)' >= Pushed(r) /\ Pushed(r)' \in Int
                      /\ (Complete(r) => Complete(r)')
    OBVIOUS
  <2>1. Pushed(r) \in Nat /\ Pieces(message[r]) \in Nat /\ r \in Nat
        /\ (Complete(r) => Pushed(r) = Pieces(message[r]))
    <3>1. message[r] \in Messages
      BY <1>1 DEF RecvTypes, Last
    <3> QED
      BY <3>1, PushedBound, PiecesBound, QueueAssumption
  <2>2. CASE UNCHANGED recvVars
    BY <2>1, <2>2, <1>1 DEF recvVars, Last, Pushed, Complete
  <2>3. CASE PushAnImageProcessTask
    BY <2>1, <2>3, <1>1 DEF PushAnImageProcessTask, Last, Pushed, Complete
  <2>4. ASSUME NEW m \in Messages, ProcessOneRMes(m)
        PROVE  r \in 1..Last' /\ message'[r] = message[r]
               /\ Pushed(r)' >= Pushed(r) /\ Pushed(r)' \in Int
               /\ (Complete(r) => Complete(r)')
    <3>1. message' = Append(message, m) /\ (r = Last => Complete(r))
      BY <2>4, <1>1 DEF ProcessOneRMes
    <3>2. Last' = Last + 1 /\ message'[r] = message[r] /\ r <= Last
      BY <3>1, <1>1 DEF Last, RecvTypes
    <3>3. Pushed(r)' = Pieces(message[r])
      BY <3>2, <1>1, <2>1 DEF Pushed
    <3> QED
      BY <3>1, <3>2, <3>3, <2>1, <1>1 DEF Complete, Pushed, Numbered
  <2> QED
    BY <2>2, <2>3, <2>4
    DEF Next, WorkerStep, SenderStep, GetAnImageProcessTask, SkipTask, FinishTask,
        LeaveToOthers, MergeTasks, ChangeTasksProcessType, DelAnImageProcessTask,
        PushPackaged, GetAnFinishedImageProcessTask, Send, DelAnAnsweredTask, Disconnected,
        Connected, vars
<1>3. ASSUME NEW t \in Task, Fits(t)
      PROVE  Fits(t)'
  <2>1. t.index \in Nat /\ Pushed(t.request) \in Nat
    BY <1>3, PushedBound DEF Task, Fits
  <2> QED
    BY <1>2, <1>3, <2>1 DEF Fits
<1> QED
  BY <1>2, <1>3

\* The invariant holds at the start.
LEMMA InitSafe == Init => Safe
<1> SUFFICES ASSUME Init PROVE Safe
  OBVIOUS
<1>1. Last = 0 /\ 1..Last = {} /\ DOMAIN m_Tasks = {} /\ scans = {} /\ freed = {}
  BY DEF Init, Last
<1>2. \A w \in Workers : pc[w] = "get"
  BY DEF Init
<1>3. \A s \in Senders : spc[s] = "take"
  BY DEF Init
<1>4. Numbered /\ AllFit /\ OneEach /\ ProcessedIsClosed
  BY <1>1, <1>2, <1>3 DEF Numbered, AllFit, OneEach, ProcessedIsClosed
<1>5. Working /\ Advancing /\ Packaging /\ Sending
  BY <1>2, <1>3 DEF Working, Advancing, Packaging, Sending
<1>6. Scanned /\ Freed /\ Kept
  BY <1>1 DEF Scanned, Freed, Kept
<1> QED
  BY <1>4, <1>5, <1>6 DEF Safe

\* A finished set of pictures is all of the request.
LEMMA AllReady ==
  ASSUME TypeInv, Safe, NEW t \in Task, Fits(t), t.total > 0,
         Cardinality(WaitPackageTasks(t)) >= t.total
  PROVE  /\ Complete(t.request)
         /\ WaitPackageTasks(t) = Entries(t.request)
         /\ WaitPackageTasks(t) # {}
<1> DEFINE r == t.request
           ready == WaitPackageTasks(t)
           U == {k \in Entries(r) : Unmerged(k)}
           f == [k \in U |-> m_Tasks[k].index]
           T == 0..(Pushed(r) - 1)
<1>1. QueueTypes /\ r \in 1..Last /\ t.trigger = r /\ t.total = message[r].images
      /\ t.total \in Nat
  BY TypeParts DEF Parts, TypeInv, Fits, Task
<1>2. \A k \in DOMAIN m_Tasks : Fits(m_Tasks[k]) /\ m_Tasks[k] \in Task
  BY <1>1 DEF Safe, AllFit, QueueTypes
<1>3. ready \subseteq U /\ U \subseteq Entries(r)
  BY <1>1, <1>2 DEF WaitPackageTasks, Of, Entries, Unmerged, Fits
<1>4. /\ Pushed(r) \in Nat /\ Pushed(r) <= t.total
      /\ Pushed(r) = t.total => Complete(r)
  BY <1>1, PushedBound DEF Safe
<1>5. f \in Injection(U, T)
  <2>1. ASSUME NEW k \in U PROVE m_Tasks[k].index \in T
    <3>1. m_Tasks[k].index \in Nat /\ m_Tasks[k].index < Pushed(r)
      BY <1>2 DEF Entries, Fits, Task
    <3> QED
      BY <3>1, <1>4
  <2>2. ASSUME NEW j \in U, NEW k \in U, f[j] = f[k] PROVE j = k
    BY <2>2 DEF Safe, OneEach, Entries, Same
  <2> QED
    BY <2>1, <2>2 DEF Injection, IsInjective
<1>6. IsFiniteSet(T) /\ Cardinality(T) = Pushed(r)
  <2>1. 0 \in Int /\ Pushed(r) - 1 \in Int
    BY <1>4
  <2>2. /\ IsFiniteSet(0..(Pushed(r) - 1))
        /\ Cardinality(0..(Pushed(r) - 1))
             = IF 0 > Pushed(r) - 1 THEN 0 ELSE Pushed(r) - 1 - 0 + 1
    BY ONLY <2>1, FS_Interval
  <2> QED
    BY <1>4, <2>2
<1> HIDE DEF T, f, U
<1>7. IsFiniteSet(U) /\ Cardinality(U) <= Pushed(r)
  BY <1>5, <1>6, FS_Injection
<1> HIDE DEF ready
<1>8. /\ IsFiniteSet(ready) /\ Cardinality(ready) <= Cardinality(U)
      /\ Cardinality(U) = Cardinality(ready) => U = ready
  BY <1>3, <1>7, FS_Subset
<1>9. Cardinality(U) \in Nat /\ Cardinality(ready) \in Nat /\ Cardinality(ready) >= t.total
  BY <1>7, <1>8, FS_CardinalityType DEF ready
<1>10. Cardinality(U) = Cardinality(ready) /\ Pushed(r) = t.total
  BY <1>1, <1>4, <1>7, <1>8, <1>9
<1>11. U = ready /\ Complete(r)
  BY <1>4, <1>8, <1>10
<1>12. ready # {}
  BY <1>1, <1>9, FS_EmptySet
<1>13. Entries(r) = ready
  <2>1. PICK j \in ready : TRUE
    BY <1>12
  <2>2. j \in Entries(r) /\ Unmerged(j)
    BY <1>11 DEF U
  <2>3. ~Closed(r)
    BY <2>2 DEF Closed, Unmerged
  <2>4. ASSUME NEW k \in Entries(r) PROVE Unmerged(k)
    BY <2>3 DEF Safe, ProcessedIsClosed, Entries
  <2> QED
    BY <1>3, <1>11, <2>4 DEF U
<1> QED
  BY <1>11, <1>12, <1>13 DEF ready

\* The part of Safe that is about the queue alone.
QueueSafe ==
  /\ Numbered
  /\ \A k \in DOMAIN m_Tasks : Fits(m_Tasks[k])
  /\ OneEach
  /\ ProcessedIsClosed

\* A step that leaves the queue and the requests alone.
LEMMA QuietQueue ==
  ASSUME Safe, UNCHANGED <<m_Tasks, recvVars>>
  PROVE  /\ QueueSafe'
         /\ \A r : /\ Closed(r)' = Closed(r) /\ Complete(r)' = Complete(r)
                   /\ Entries(r)' = Entries(r) /\ Pushed(r)' = Pushed(r)
                   /\ InQueue(r)' = InQueue(r)
         /\ \A t : Fits(t)' = Fits(t)
         /\ \A k : Unmerged(k)' = Unmerged(k)
         /\ Last' = Last
<1>1. Last' = Last
  BY DEF Last, recvVars
<1>2. \A r : Complete(r)' = Complete(r) /\ Entries(r)' = Entries(r) /\ Pushed(r)' = Pushed(r)
  BY <1>1 DEF Complete, Entries, Pushed, recvVars
<1>3. \A r : Closed(r)' = Closed(r) /\ InQueue(r)' = InQueue(r)
  BY <1>2 DEF Closed, InQueue
<1>4. \A t : Fits(t)' = Fits(t)
  BY <1>1, <1>2 DEF Fits, recvVars
<1>5. \A k : Unmerged(k)' = Unmerged(k)
  BY DEF Unmerged
<1>6. QueueSafe'
  BY <1>1, <1>3, <1>4, <1>5
  DEF Safe, AllFit, QueueSafe, Numbered, OneEach, ProcessedIsClosed, recvVars
<1> QED
  BY <1>1, <1>2, <1>3, <1>4, <1>5, <1>6

\* A step that changes the state of one task, and maybe its results.
OneChanged(p, t) ==
  /\ p \in DOMAIN m_Tasks /\ DOMAIN m_Tasks' = DOMAIN m_Tasks
  /\ m_Tasks'[p] = t
  /\ \A k \in DOMAIN m_Tasks \ {p} : m_Tasks'[k] = m_Tasks[k]
  /\ t.request = m_Tasks[p].request /\ t.trigger = m_Tasks[p].trigger
  /\ t.index = m_Tasks[p].index /\ t.total = m_Tasks[p].total /\ t.type = m_Tasks[p].type

\* What it leaves true of the queue.
LEMMA OneChangedQueue ==
  ASSUME TypeInv, Safe, UNCHANGED recvVars, NEW p, NEW t, OneChanged(p, t),
         Unmerged(p), t.state = "PROCESSED" => t.total = 1
  PROVE  /\ QueueSafe'
         /\ \A r : /\ Closed(r) => Closed(r)'
                   /\ Complete(r)' = Complete(r)
                   /\ Entries(r)' = Entries(r) /\ Pushed(r)' = Pushed(r)
                   /\ InQueue(r)' = InQueue(r)
         /\ \A u : Fits(u)' = Fits(u)
         /\ Last' = Last
<1>1. Last' = Last
  BY DEF Last, recvVars
<1>2. \A k \in DOMAIN m_Tasks : m_Tasks'[k].request = m_Tasks[k].request
        /\ m_Tasks'[k].trigger = m_Tasks[k].trigger /\ m_Tasks'[k].index = m_Tasks[k].index
        /\ m_Tasks'[k].total = m_Tasks[k].total /\ m_Tasks'[k].type = m_Tasks[k].type
  BY DEF OneChanged
<1>3. \A r : Complete(r)' = Complete(r) /\ Entries(r)' = Entries(r) /\ Pushed(r)' = Pushed(r)
             /\ InQueue(r)' = InQueue(r)
  <2>1. \A r : Complete(r)' = Complete(r) /\ Pushed(r)' = Pushed(r)
    BY <1>1 DEF Complete, Pushed, recvVars
  <2>2. ASSUME NEW r PROVE Entries(r)' = Entries(r)
    BY <1>2 DEF Entries, OneChanged
  <2>3. ASSUME NEW r PROVE InQueue(r)' = InQueue(r)
    <3>1. InQueue(r) = {m_Tasks[k].index : k \in Entries(r)}
      BY DEF InQueue, Entries
    <3>2. InQueue(r)' = {m_Tasks'[k].index : k \in Entries(r)'}
      BY DEF InQueue, Entries
    <3>3. \A k \in Entries(r) : m_Tasks'[k].index = m_Tasks[k].index
      BY <1>2 DEF Entries
    <3> QED
      BY <2>2, <3>1, <3>2, <3>3
  <2> QED
    BY <2>1, <2>2, <2>3
<1>4. \A u : Fits(u)' = Fits(u)
  BY <1>1, <1>3 DEF Fits, recvVars
<1>5. \A k \in DOMAIN m_Tasks \ {p} : Unmerged(k)' = Unmerged(k)
  BY DEF Unmerged, OneChanged
<1>6. \A r : Closed(r) => Closed(r)'
  <2> SUFFICES ASSUME NEW r, Closed(r) PROVE Closed(r)'
    OBVIOUS
  <2>1. p \notin Entries(r)
    BY DEF Closed, Unmerged
  <2> QED
    BY <1>3, <2>1 DEF Closed, OneChanged, Entries
<1>7. ASSUME ~Unmerged(p)'
      PROVE  Closed(t.request)'
  <2> DEFINE r == t.request
  <2>1. t.total = 1
    BY <1>7 DEF Unmerged, OneChanged
  <2>2. Fits(m_Tasks[p]) /\ r = m_Tasks[p].request /\ r \in 1..Last /\ message[r].images = 1
        /\ m_Tasks[p].index < Pushed(r)
    BY <2>1 DEF OneChanged, Safe, AllFit, Fits
  <2>3. m_Tasks[p].index \in Nat
    BY TypeParts DEF Parts, TypeInv, QueueTypes, OneChanged, Task
  <2>4. Pushed(r) = 1 /\ Complete(r)
    BY <2>2, <2>3, PushedBound DEF Safe
  <2>5. ASSUME NEW k \in Entries(r), k # p PROVE ~Unmerged(k)
    <3>1. k \in DOMAIN m_Tasks /\ m_Tasks[k].request = r /\ Fits(m_Tasks[k])
      BY <2>5 DEF Entries, Safe, AllFit
    <3>2. m_Tasks[k].index \in Nat
      BY <3>1, TypeParts DEF Parts, TypeInv, QueueTypes, Task
    <3>3. m_Tasks[k].index = 0 /\ m_Tasks[p].index = 0
      BY <2>2, <2>3, <2>4, <3>1, <3>2 DEF Fits
    <3> QED
      BY <2>2, <2>5, <3>1, <3>3 DEF Safe, OneEach, Same, OneChanged
  <2>6. \A k \in Entries(r)' : m_Tasks'[k].state = "PROCESSED"
    BY <1>3, <1>7, <2>5 DEF Entries, Unmerged, OneChanged
  <2> QED
    BY <1>3, <2>4, <2>6 DEF Closed
<1>8. ProcessedIsClosed'
  <2> SUFFICES ASSUME NEW k \in DOMAIN m_Tasks, ~Unmerged(k)'
               PROVE  Closed(m_Tasks[k].request)'
    BY DEF ProcessedIsClosed, OneChanged
  <2>1. CASE k = p
    BY <1>7, <2>1 DEF OneChanged
  <2>2. CASE k # p
    BY <1>2, <1>5, <1>6, <2>2 DEF Safe, ProcessedIsClosed
  <2> QED
    BY <2>1, <2>2
<1>9. OneEach'
  BY <1>2, <1>5 DEF Safe, OneEach, Same, OneChanged
<1>10. (\A k \in DOMAIN m_Tasks : Fits(m_Tasks[k]))'
  BY <1>2, <1>4 DEF Safe, AllFit, Fits, OneChanged
<1>11. Numbered'
  BY <1>1 DEF Safe, Numbered, recvVars
<1> QED
  BY <1>1, <1>3, <1>4, <1>6, <1>8, <1>9, <1>10, <1>11 DEF QueueSafe

\* The workers that have merged a request.
Packagers == {"advance", "delete", "push"}

\* A worker that only works on a picture does not disturb those that package.
LEMMA OneChangedOthers ==
  ASSUME TypeInv, Safe, UNCHANGED <<recvVars, senderVars, replied>>,
         NEW w \in Workers, NEW p, NEW t, OneChanged(p, t),
         m_Tasks[p].state \in {"UNPROCESS", "PROCESSING"},
         t.state = "PROCESSED" => t.total = 1,
         pc[w] \notin Packagers, pc'[w] \notin Packagers,
         \A v \in Workers \ {w} : pc'[v] = pc[v] /\ task'[v] = task[v] /\ mats'[v] = mats[v]
  PROVE  Advancing' /\ Packaging' /\ Sending' /\ Kept'
<1>1. Unmerged(p)
  BY DEF Unmerged
<1>2. /\ \A r : /\ Closed(r) => Closed(r)'
                /\ Complete(r)' = Complete(r)
                /\ Entries(r)' = Entries(r) /\ Pushed(r)' = Pushed(r)
                /\ InQueue(r)' = InQueue(r)
      /\ Last' = Last
  BY <1>1, OneChangedQueue
<1>3. \A r : \A k \in Entries(r) : m_Tasks'[k].type = m_Tasks[k].type
               /\ (k # p => m_Tasks'[k] = m_Tasks[k])
  BY DEF Entries, OneChanged
<1>4. Advancing'
  <2> SUFFICES ASSUME NEW v \in Workers, pc'[v] = "advance",
                      NEW k \in Entries(task[v].request)
               PROVE  /\ Complete(task[v].request)
                      /\ Rank(m_Tasks[k].type) >= Rank(task[v].type)
                      /\ m_Tasks[k].type = task[v].type =>
                           m_Tasks'[k].state = "WAIT_PACKAGE" /\ m_Tasks'[k].codes = {}
    <3>1. \A v \in Workers : pc'[v] = "advance" =>
            pc[v] = "advance" /\ task'[v] = task[v] /\ Complete(task[v].request)
      BY DEF Safe, Advancing, Packagers
    <3> QED
      BY <1>2, <1>3, <3>1 DEF Advancing
  <2>1. v # w /\ pc[v] = "advance"
    BY DEF Packagers
  <2>2. /\ Complete(task[v].request) /\ Rank(m_Tasks[k].type) >= Rank(task[v].type)
        /\ m_Tasks[k].type = task[v].type =>
             m_Tasks[k].state = "WAIT_PACKAGE" /\ m_Tasks[k].codes = {}
    BY <2>1 DEF Safe, Advancing
  <2>3. m_Tasks[k].type = task[v].type => k # p
    BY <2>2
  <2> QED
    BY <1>3, <2>2, <2>3
<1>5. Packaging'
  <2>1. \A v \in Workers : pc'[v] \in Packagers =>
          pc[v] = pc'[v] /\ task'[v] = task[v] /\ mats'[v] = mats[v]
    OBVIOUS
  <2>2. ASSUME NEW u, AsMerged(u) PROVE AsMerged(u)'
    <3>1. p \notin Entries(u.request)
      BY <2>2 DEF AsMerged
    <3> QED
      BY <1>2, <1>3, <2>2, <3>1 DEF AsMerged
  <2>3. ASSUME NEW v \in Workers, pc'[v] = "delete"
        PROVE  (Closed(task[v].request) \/ AsMerged(task[v]))'
    BY <1>2, <2>1, <2>2, <2>3 DEF Safe, Packaging, Packagers
  <2>4. ASSUME NEW v \in Workers, pc'[v] = "push"
        PROVE  Closed(task[v].request)'
    BY <1>2, <2>1, <2>4 DEF Safe, Packaging, Packagers
  <2>5. ASSUME NEW v \in Workers, pc'[v] \in {"delete", "push"}
        PROVE  /\ task'[v].state = "PROCESSED"
               /\ Complete(task[v].request)'
               /\ \A x \in mats'[v] : x[1] = task'[v].request
               /\ \A u \in Workers : pc'[u] = "advance" /\ task'[u].request = task'[v].request =>
                    Rank(task'[u].type) < Rank(task'[v].type)
    <3>1. pc[v] \in {"delete", "push"} /\ task'[v] = task[v] /\ mats'[v] = mats[v]
      BY <2>1, <2>5 DEF Packagers
    <3>2. \A u \in Workers : pc'[u] = "advance" => pc[u] = "advance" /\ task'[u] = task[u]
      BY <2>1 DEF Packagers
    <3> QED
      BY <1>2, <3>1, <3>2 DEF Safe, Packaging
  <2> QED
    BY <2>3, <2>4, <2>5 DEF Packaging
<1>6. Sending'
  BY <1>2 DEF Safe, Sending, senderVars
<1>7. Kept'
  <2> SUFFICES ASSUME NEW r \in 1..Last, replied[r] = 0
               PROVE  \/ InQueue(r)' = 0..(Pushed(r)' - 1)
                      \/ \E k \in Entries(r)' : ~Unmerged(k)'
                      \/ \E v \in Workers : pc'[v] = "push" /\ task'[v].request = r
    BY <1>2 DEF Kept
  <2>1. CASE InQueue(r) = 0..(Pushed(r) - 1)
    BY <1>2, <2>1
  <2>2. CASE \E k \in Entries(r) : ~Unmerged(k)
    <3>1. PICK k \in Entries(r) : ~Unmerged(k)
      BY <2>2
    <3>2. m_Tasks'[k] = m_Tasks[k]
      BY <1>1, <1>3, <3>1
    <3> QED
      BY <1>2, <3>1, <3>2 DEF Unmerged
  <2>3. CASE \E v \in Workers : pc[v] = "push" /\ task[v].request = r
    BY <2>3 DEF Packagers
  <2> QED
    BY <2>1, <2>2, <2>3 DEF Safe, Kept
<1> QED
  BY <1>4, <1>5, <1>6, <1>7

\* Taking a task: nobody else has it, because it was not marked.
LEMMA GetSafe ==
  ASSUME TypeInv, Safe, NEW w \in Workers, GetAnImageProcessTask(w)
  PROVE  Safe'
<1> DEFINE p == First(InState("UNPROCESS"))
           t == Restated(m_Tasks[p], "PROCESSING")
<1>1. QueueTypes /\ WorkerTypes
  BY TypeParts DEF Parts, TypeInv
<1>2. p \in DOMAIN m_Tasks /\ m_Tasks[p].state = "UNPROCESS" /\ m_Tasks[p] \in Task
  BY <1>1, FirstInState DEF GetAnImageProcessTask, QueueTypes
<1>3. /\ m_Tasks' = [m_Tasks EXCEPT ![p] = t]
      /\ pc[w] = "get" /\ pc' = [pc EXCEPT ![w] = "work"] /\ task' = [task EXCEPT ![w] = t]
      /\ UNCHANGED <<pushed, recvVars, mats, senderVars, linkVars, history>>
  BY DEF GetAnImageProcessTask, Restated
<1>4. /\ t.state = "PROCESSING" /\ t \in Task
      /\ t.request = m_Tasks[p].request /\ t.trigger = m_Tasks[p].trigger
      /\ t.index = m_Tasks[p].index /\ t.total = m_Tasks[p].total /\ t.type = m_Tasks[p].type
  BY <1>2, RestatedType
<1> HIDE DEF p, t
<1>5. OneChanged(p, t)
  BY <1>2, <1>3, <1>4 DEF OneChanged
<1>6. Unmerged(p)
  BY <1>2 DEF Unmerged
<1>7. /\ pc'[w] = "work" /\ task'[w] = t
      /\ \A v \in Workers \ {w} : pc'[v] = pc[v] /\ task'[v] = task[v] /\ mats'[v] = mats[v]
  BY <1>1, <1>3 DEF WorkerTypes
<1>8. /\ QueueSafe'
      /\ \A r : Closed(r) => Closed(r)'
      /\ \A r : Entries(r)' = Entries(r) /\ Pushed(r)' = Pushed(r)
      /\ \A u : Fits(u)' = Fits(u)
      /\ Last' = Last
  BY <1>3, <1>4, <1>5, <1>6, OneChangedQueue
<1>9. Advancing' /\ Packaging' /\ Sending' /\ Kept'
  BY <1>2, <1>3, <1>4, <1>5, <1>7, OneChangedOthers DEF Packagers, history
<1>10. AllFit'
  <2>1. Fits(t)
    BY <1>2, <1>4 DEF Safe, AllFit, Fits
  <2> QED
    BY <1>3, <1>7, <1>8, <2>1 DEF Safe, AllFit, QueueSafe, senderVars
<1>11. Working'
  <2>1. \A v \in Workers : pc[v] = "work" =>
          /\ task[v].state = "PROCESSING"
          /\ \E k \in DOMAIN m_Tasks \ {p} : m_Tasks[k] = task[v]
    BY <1>2 DEF Safe, Working
  <2>2. ASSUME NEW v \in Workers, pc'[v] = "work"
        PROVE  task'[v].state = "PROCESSING" /\ \E k \in DOMAIN m_Tasks' : m_Tasks'[k] = task'[v]
    BY <1>4, <1>5, <1>7, <2>1, <2>2 DEF OneChanged
  <2>3. ASSUME NEW v \in Workers, v # w, pc[v] = "work"
        PROVE  ~Same(task[v], t)
    <3>1. PICK k \in DOMAIN m_Tasks \ {p} : m_Tasks[k] = task[v]
      BY <2>1, <2>3
    <3>2. Unmerged(k)
      BY <2>1, <2>3, <3>1 DEF Unmerged
    <3> QED
      BY <1>2, <1>4, <1>6, <3>1, <3>2 DEF Safe, OneEach, Same
  <2>4. ASSUME NEW u \in Workers, NEW v \in Workers, pc'[u] = "work", pc'[v] = "work",
               Same(task'[u], task'[v])
        PROVE  u = v
    <3>1. CASE u = w
      BY <1>7, <2>3, <2>4, <3>1 DEF Same
    <3>2. CASE v = w
      BY <1>7, <2>3, <2>4, <3>2
    <3>3. CASE u # w /\ v # w
      BY <1>7, <2>4, <3>3 DEF Safe, Working
    <3> QED
      BY <3>1, <3>2, <3>3
  <2> QED
    BY <2>2, <2>4 DEF Working, Same
<1>12. Scanned'
  <2> SUFFICES ASSUME NEW x \in scans
               PROVE  /\ x[1] \in 1..Last /\ x[2] < Pushed(x[1])
                      /\ \A k \in Entries(x[1]) : m_Tasks'[k].index = x[2] /\ Unmerged(k)' =>
                           /\ Rank(x[3]) <= Rank(m_Tasks'[k].type)
                           /\ m_Tasks'[k].state # "WAIT_PACKAGE" =>
                                Rank(x[3]) < Rank(m_Tasks'[k].type)
    BY <1>3, <1>8 DEF Scanned, history
  <2>1. ASSUME NEW k \in Entries(x[1]), m_Tasks'[k].index = x[2], Unmerged(k)'
        PROVE  /\ Rank(x[3]) <= Rank(m_Tasks'[k].type)
               /\ m_Tasks'[k].state # "WAIT_PACKAGE" => Rank(x[3]) < Rank(m_Tasks'[k].type)
    <3>1. CASE k = p
      BY <1>2, <1>4, <1>5, <1>6, <2>1, <3>1 DEF Safe, Scanned, OneChanged
    <3>2. CASE k # p
      BY <1>5, <2>1, <3>2 DEF Safe, Scanned, OneChanged, Entries, Unmerged
    <3> QED
      BY <3>1, <3>2
  <2> QED
    BY <2>1 DEF Safe, Scanned
<1>13. Freed'
  BY <1>3, <1>8 DEF Safe, Freed, history
<1> QED
  BY <1>8, <1>9, <1>10, <1>11, <1>12, <1>13 DEF Safe, QueueSafe

\* Finishing a picture: the task of the worker is still in the queue, and only there.
LEMMA OwnTask ==
  ASSUME TypeInv, Safe, NEW w \in Workers, pc[w] = "work",
         NEW t \in Task, Same(t, task[w]), t.trigger = task[w].trigger,
         t.total = task[w].total, t.type = task[w].type, TaskOver(t)
  PROVE  \E p \in DOMAIN m_Tasks : m_Tasks[p] = task[w] /\ OneChanged(p, Over(t))
<1>1. QueueTypes
  BY TypeParts DEF Parts, TypeInv
<1>2. PICK k \in DOMAIN m_Tasks : m_Tasks[k] = task[w]
  BY DEF Safe, Working
<1>3. IsFor(k, t) /\ Unmerged(k) /\ ~Closed(m_Tasks[k].request)
  BY <1>2 DEF IsFor, Same, Safe, Working, Unmerged, Closed, Entries
<1>4. PICK p \in DOMAIN m_Tasks :
        /\ IsFor(p, t)
        /\ DOMAIN m_Tasks' = DOMAIN m_Tasks
        /\ m_Tasks'[p] = Over(t)
        /\ \A i \in DOMAIN m_Tasks \ {p} : m_Tasks'[i] = m_Tasks[i]
  BY <1>1, <1>2, <1>3, Overwritten
<1>5. m_Tasks[p].request = m_Tasks[k].request /\ m_Tasks[p].index = m_Tasks[k].index
  BY <1>2, <1>3, <1>4 DEF IsFor, Safe, AllFit, Fits
<1>6. Unmerged(p)
  BY <1>3, <1>5 DEF Safe, ProcessedIsClosed
<1>7. p = k
  BY <1>3, <1>5, <1>6 DEF Safe, OneEach, Same
<1> QED
  BY <1>2, <1>4, <1>7, OverType DEF OneChanged, Same

\* It changes nothing that others rely on.
LEMMA OverSafe ==
  ASSUME TypeInv, Safe, UNCHANGED <<recvVars, senderVars, replied>>,
         NEW w \in Workers, pc[w] = "work", pc'[w] \in {"get", "collect"},
         NEW t \in Task, Same(t, task[w]), t.trigger = task[w].trigger,
         t.total = task[w].total, t.type = task[w].type, TaskOver(t),
         pc'[w] = "collect" => task'[w] = t,
         \A v \in Workers \ {w} : pc'[v] = pc[v] /\ task'[v] = task[v] /\ mats'[v] = mats[v],
         scans' \subseteq scans \cup {<<t.request, t.index, t.type>>},
         freed' \subseteq freed \cup {<<t.request, t.index>>},
         freed' # freed => t.total = 1
  PROVE  Safe'
<1>1. QueueTypes /\ WorkerTypes
  BY TypeParts DEF Parts, TypeInv
<1>2. PICK p \in DOMAIN m_Tasks : m_Tasks[p] = task[w] /\ OneChanged(p, Over(t))
  BY OwnTask
<1>3. /\ m_Tasks[p].state = "PROCESSING" /\ Unmerged(p)
      /\ Over(t).state = (IF t.total = 1 THEN "PROCESSED" ELSE "WAIT_PACKAGE")
      /\ Over(t).request = t.request /\ Over(t).index = t.index /\ Over(t).type = t.type
      /\ m_Tasks'[p] = Over(t) /\ (Over(t).state = "PROCESSED" => Over(t).total = 1)
  BY <1>2, OverType DEF Safe, Working, Unmerged, OneChanged
<1>4. /\ QueueSafe'
      /\ \A r : Closed(r) => Closed(r)'
      /\ \A r : Entries(r)' = Entries(r) /\ Pushed(r)' = Pushed(r)
      /\ \A u : Fits(u)' = Fits(u)
      /\ Last' = Last
  BY <1>2, <1>3, OneChangedQueue
<1>5. Advancing' /\ Packaging' /\ Sending' /\ Kept'
  BY <1>2, <1>3, OneChangedOthers DEF Packagers
<1>6. Fits(t)
  BY <1>2 DEF Safe, AllFit, Fits, Same
<1>7. AllFit'
  BY <1>4, <1>6 DEF Safe, AllFit, QueueSafe, senderVars
<1>8. Working'
  <2>1. ASSUME NEW v \in Workers, pc'[v] = "work"
        PROVE  task'[v].state = "PROCESSING" /\ \E k \in DOMAIN m_Tasks' : m_Tasks'[k] = task'[v]
    <3>1. v # w /\ pc[v] = "work" /\ task'[v] = task[v]
      BY <2>1
    <3>2. PICK k \in DOMAIN m_Tasks : m_Tasks[k] = task[v]
      BY <3>1 DEF Safe, Working
    <3>3. k # p
      BY <1>2, <3>1, <3>2 DEF Safe, Working, Same
    <3> QED
      BY <1>2, <3>1, <3>2, <3>3 DEF Safe, Working, OneChanged
  <2>2. \A u, v \in Workers : pc'[u] = "work" /\ pc'[v] = "work" /\ Same(task'[u], task'[v])
          => u = v
    BY DEF Safe, Working
  <2> QED
    BY <2>1, <2>2 DEF Working, Same
<1>9. Scanned'
  <2> SUFFICES ASSUME NEW x \in scans'
               PROVE  /\ x[1] \in 1..Last /\ x[2] < Pushed(x[1])
                      /\ \A k \in Entries(x[1]) : m_Tasks'[k].index = x[2] /\ Unmerged(k)' =>
                           /\ Rank(x[3]) <= Rank(m_Tasks'[k].type)
                           /\ m_Tasks'[k].state # "WAIT_PACKAGE" =>
                                Rank(x[3]) < Rank(m_Tasks'[k].type)
    BY <1>4 DEF Scanned
  <2>1. CASE x \in scans
    <3>1. ASSUME NEW k \in Entries(x[1]), m_Tasks'[k].index = x[2], Unmerged(k)'
          PROVE  /\ Rank(x[3]) <= Rank(m_Tasks'[k].type)
                 /\ m_Tasks'[k].state # "WAIT_PACKAGE" => Rank(x[3]) < Rank(m_Tasks'[k].type)
      <4>1. CASE k = p
        <5>1. Rank(x[3]) < Rank(m_Tasks[p].type)
          <6>1. p \in Entries(x[1]) /\ m_Tasks[p].index = x[2]
            BY <1>2, <3>1, <4>1 DEF OneChanged
          <6> QED
            BY <1>3, <2>1, <6>1 DEF Safe, Scanned
        <5>2. m_Tasks'[p].type = m_Tasks[p].type
          BY <1>2, <1>3 DEF OneChanged
        <5>3. x[3] \in Types /\ m_Tasks[p].type \in Types
          BY <1>1, <2>1, TypeParts DEF Parts, TypeInv, HistoryTypes, QueueTypes, Task
        <5>4. Rank(x[3]) \in Nat /\ Rank(m_Tasks[p].type) \in Nat
          BY <5>3, RankOrder
        <5> QED
          BY <4>1, <5>1, <5>2, <5>4
      <4>2. CASE k # p
        BY <1>2, <2>1, <3>1, <4>2 DEF Safe, Scanned, OneChanged, Entries, Unmerged
      <4> QED
        BY <4>1, <4>2
    <3> QED
      BY <2>1, <3>1 DEF Safe, Scanned
  <2>2. CASE x = <<t.request, t.index, t.type>>
    <3>1. t.request \in 1..Last /\ t.index < Pushed(t.request)
      BY <1>6 DEF Fits
    <3>2. ASSUME NEW k \in Entries(t.request), m_Tasks'[k].index = t.index, Unmerged(k)'
          PROVE  k = p
      <4>1. ASSUME k # p PROVE FALSE
        <5>1. m_Tasks'[k] = m_Tasks[k] /\ k \in DOMAIN m_Tasks /\ Unmerged(k)
          BY <1>2, <3>2, <4>1 DEF OneChanged, Entries, Unmerged
        <5> QED
          BY <1>2, <1>3, <3>2, <4>1, <5>1 DEF Safe, OneEach, Same, Entries
      <4> QED
        BY <4>1
    <3>3. t.type \in Types /\ Rank(t.type) \in Nat
      BY RankOrder DEF Task
    <3>4. Unmerged(p)' => m_Tasks'[p].state = "WAIT_PACKAGE"
      BY <1>3 DEF Unmerged
    <3> QED
      BY <1>3, <2>2, <3>1, <3>2, <3>3, <3>4
  <2> QED
    BY <2>1, <2>2
<1>10. Freed'
  <2>1. t.total = 1 => Closed(t.request)'
    <3>1. ASSUME t.total = 1 PROVE ~Unmerged(p)'
      BY <1>3, <3>1 DEF Unmerged
    <3>2. ASSUME t.total = 1 PROVE Closed(m_Tasks[p].request)'
      BY <1>2, <1>4, <3>1, <3>2 DEF QueueSafe, ProcessedIsClosed, OneChanged
    <3> QED
      BY <1>3, <3>2
  <2>2. ASSUME NEW x \in freed' PROVE x[1] \in 1..Last /\ Closed(x[1])'
    BY <1>4, <1>6, <2>1, <2>2 DEF Safe, Freed, Fits
  <2> QED
    BY <1>4, <2>2 DEF Freed
<1> QED
  BY <1>4, <1>5, <1>7, <1>8, <1>9, <1>10 DEF Safe, QueueSafe

\* A task without a path is over.
LEMMA SkipSafe ==
  ASSUME TypeInv, Safe, NEW w \in Workers, SkipTask(w)
  PROVE  Safe'
<1> DEFINE t == [task[w] EXCEPT !.result = "NO_IMAGE"]
<1>1. WorkerTypes
  BY TypeParts DEF Parts, TypeInv
<1>2. task[w] \in Task /\ pc[w] = "work"
  BY <1>1 DEF SkipTask, WorkerTypes
<1>3. t \in Task /\ Same(t, task[w]) /\ t.trigger = task[w].trigger
      /\ t.total = task[w].total /\ t.type = task[w].type
  BY <1>2 DEF Task, Results, Same
<1>4. TaskOver(t) /\ UNCHANGED <<recvVars, senderVars, history>>
  BY DEF SkipTask
<1>5. pc'[w] = "get"
      /\ \A v \in Workers \ {w} : pc'[v] = pc[v] /\ task'[v] = task[v] /\ mats'[v] = mats[v]
  BY <1>1 DEF SkipTask, Return, WorkerTypes
<1> HIDE DEF t
<1> QED
  BY <1>2, <1>3, <1>4, <1>5, OverSafe DEF history

\* A picture was read, or could not be loaded.
LEMMA FinishSafe ==
  ASSUME TypeInv, Safe, NEW w \in Workers, FinishTask(w)
  PROVE  Safe'
<1>1. WorkerTypes
  BY TypeParts DEF Parts, TypeInv
<1>2. task[w] \in Task /\ pc[w] = "work"
  BY <1>1 DEF FinishTask, WorkerTypes
<1>3. PICK t \in Processed(task[w]) :
        /\ TaskOver(t)
        /\ IF t.total = 1
           THEN /\ Return(w)
                /\ freed' = freed \cup (IF t.mat THEN {<<t.request, t.index>>} ELSE {})
           ELSE /\ pc' = [pc EXCEPT ![w] = "collect"]
                /\ task' = [task EXCEPT ![w] = t]
                /\ UNCHANGED <<mats, freed>>
  BY DEF FinishTask
<1>4. t \in Task /\ Same(t, task[w]) /\ t.trigger = task[w].trigger
      /\ t.total = task[w].total /\ t.type = task[w].type
  BY <1>2, QueueAssumption, ProcessedFields DEF Same
<1>5. scans' = scans \cup {<<t.request, t.index, t.type>>}
  BY <1>4 DEF FinishTask, Same
<1>6. /\ pc'[w] \in {"get", "collect"} /\ (pc'[w] = "collect" => task'[w] = t)
      /\ \A v \in Workers \ {w} : pc'[v] = pc[v] /\ task'[v] = task[v] /\ mats'[v] = mats[v]
  BY <1>1, <1>3 DEF Return, WorkerTypes
<1>7. freed' \subseteq freed \cup {<<t.request, t.index>>} /\ (freed' # freed => t.total = 1)
  BY <1>3
<1>8. UNCHANGED <<recvVars, senderVars, replied>>
  BY DEF FinishTask
<1> QED
  BY <1>2, <1>3, <1>4, <1>5, <1>6, <1>7, <1>8, OverSafe

\* Steps of the link, and steps that change nothing.
LEMMA QuietSafe ==
  ASSUME Safe, UNCHANGED <<queueVars, recvVars, workerVars, senderVars, replied, scans, freed>>
  PROVE  Safe'
<1>1. /\ QueueSafe'
      /\ \A r : /\ Closed(r)' = Closed(r) /\ Complete(r)' = Complete(r)
                /\ Entries(r)' = Entries(r) /\ Pushed(r)' = Pushed(r)
                /\ InQueue(r)' = InQueue(r)
      /\ \A t : Fits(t)' = Fits(t)
      /\ \A k : Unmerged(k)' = Unmerged(k)
      /\ Last' = Last
  BY QuietQueue DEF queueVars
<1>2. AllFit' /\ Working' /\ Advancing' /\ Sending'
  BY <1>1 DEF Safe, AllFit, QueueSafe, Working, Advancing, Sending, queueVars, workerVars,
              senderVars
<1>3. Packaging'
  <2>1. \A t : AsMerged(t)' = AsMerged(t)
    BY <1>1 DEF AsMerged, queueVars
  <2> QED
    BY <1>1, <2>1 DEF Safe, Packaging, workerVars
<1>4. Scanned' /\ Freed' /\ Kept'
  BY <1>1 DEF Safe, Scanned, Freed, Kept, queueVars, workerVars
<1> QED
  BY <1>1, <1>2, <1>3, <1>4 DEF Safe, QueueSafe

\* A worker that leaves the packaging to others.
LEMMA LeaveSafe ==
  ASSUME TypeInv, Safe, NEW w \in Workers, LeaveToOthers(w)
  PROVE  Safe'
<1>1. pc[w] = "collect" /\ pc'[w] = "get"
      /\ \A v \in Workers \ {w} : pc'[v] = pc[v] /\ task'[v] = task[v] /\ mats'[v] = mats[v]
  BY TypeParts DEF Parts, TypeInv, WorkerTypes, LeaveToOthers, Return
<1>2. UNCHANGED <<m_Tasks, recvVars, senderVars, replied, scans, freed>>
  BY DEF LeaveToOthers, queueVars, history
<1>3. /\ QueueSafe'
      /\ \A r : /\ Closed(r)' = Closed(r) /\ Complete(r)' = Complete(r)
                /\ Entries(r)' = Entries(r) /\ Pushed(r)' = Pushed(r)
                /\ InQueue(r)' = InQueue(r)
      /\ \A t : Fits(t)' = Fits(t)
      /\ \A k : Unmerged(k)' = Unmerged(k)
      /\ Last' = Last
  BY <1>2, QuietQueue
<1>4. \A v \in Workers : pc'[v] # "get" => v # w /\ pc'[v] = pc[v] /\ task'[v] = task[v]
                                           /\ mats'[v] = mats[v]
  BY <1>1
<1>5. AllFit' /\ Working' /\ Sending'
  BY <1>2, <1>3, <1>4 DEF Safe, AllFit, QueueSafe, Working, Sending, senderVars
<1>6. Advancing'
  BY <1>2, <1>3, <1>4 DEF Safe, Advancing
<1>7. Packaging'
  <2>1. \A t : AsMerged(t)' = AsMerged(t)
    BY <1>2, <1>3 DEF AsMerged
  <2> QED
    BY <1>3, <1>4, <2>1 DEF Safe, Packaging
<1>8. Scanned' /\ Freed'
  BY <1>2, <1>3 DEF Safe, Scanned, Freed
<1>9. Kept'
  BY <1>1, <1>2, <1>3, <1>4 DEF Safe, Kept
<1> QED
  BY <1>3, <1>5, <1>6, <1>7, <1>8, <1>9 DEF Safe, QueueSafe

\* Merging: all of the request is there, and those that merged it before agree on what to do.
LEMMA MergeSafe ==
  ASSUME TypeInv, MayAdvance, Safe, NEW w \in Workers, MergeTasks(w)
  PROVE  Safe'
<1> DEFINE t == task[w]
           ready == WaitPackageTasks(t)
           merged == MergeHomoTasks(Restrict(m_Tasks, ready))
           r == t.request
<1>1. QueueTypes /\ WorkerTypes
  BY TypeParts DEF Parts, TypeInv
<1>2. t \in Task /\ t.total > 0 /\ Fits(t) /\ Cardinality(ready) >= t.total
  BY <1>1 DEF MergeTasks, WorkerTypes, TypeInv, Counted, Safe, AllFit
<1>3. Complete(r) /\ ready = Entries(r) /\ ready # {}
  BY <1>2, AllReady
<1>4. \A k \in Entries(r) : /\ k \in DOMAIN m_Tasks /\ m_Tasks[k] \in Task
                            /\ m_Tasks[k].state = "WAIT_PACKAGE" /\ m_Tasks[k].type = t.type
                            /\ Fits(m_Tasks[k]) /\ m_Tasks[k].request = r
  BY <1>1, <1>3 DEF WaitPackageTasks, Of, Entries, QueueTypes, Safe, AllFit
<1>5. /\ merged \in Task /\ merged.state = "PROCESSED" /\ merged.type = t.type
      /\ merged.request = r /\ Fits(merged)
      /\ merged.codes = UNION {m_Tasks[k].codes : k \in Entries(r)}
  <2>1. /\ merged \in Task
        /\ merged.state = "PROCESSED" /\ merged.type = t.type /\ merged.trigger = t.trigger
        /\ merged.codes = UNION {m_Tasks[k].codes : k \in ready}
        /\ \E k \in ready :
             /\ merged.request = m_Tasks[k].request /\ merged.index = m_Tasks[k].index
             /\ merged.total = m_Tasks[k].total
    BY <1>1, <1>2, Merged
  <2> HIDE DEF ready, merged
  <2> QED
    BY <1>2, <1>3, <1>4, <2>1 DEF Fits
<1>6. ~Closed(r)
  BY <1>3, <1>4 DEF Closed
<1>7. /\ pc[w] = "collect" /\ task' = [task EXCEPT ![w] = merged]
      /\ \/ /\ GetNextProcessType(merged.type) # "OVER" /\ merged.codes = {}
            /\ pc' = [pc EXCEPT ![w] = "advance"] /\ mats' = mats
         \/ /\ ~(GetNextProcessType(merged.type) # "OVER" /\ merged.codes = {})
            /\ pc' = [pc EXCEPT ![w] = "delete"]
            /\ mats' = [mats EXCEPT ![w] = {<<m_Tasks[k].request, m_Tasks[k].index>> :
                                              k \in {i \in ready : m_Tasks[i].mat}}]
      /\ UNCHANGED <<m_Tasks, recvVars, senderVars, replied, scans, freed>>
  BY DEF MergeTasks, queueVars, history
<1>8. /\ QueueSafe'
      /\ \A q : /\ Closed(q)' = Closed(q) /\ Complete(q)' = Complete(q)
                /\ Entries(q)' = Entries(q) /\ Pushed(q)' = Pushed(q)
                /\ InQueue(q)' = InQueue(q)
      /\ \A u : Fits(u)' = Fits(u)
      /\ \A k : Unmerged(k)' = Unmerged(k)
      /\ Last' = Last
  BY <1>7, QuietQueue
<1>9. \A u : AsMerged(u)' = AsMerged(u)
  BY <1>7, <1>8 DEF AsMerged
<1>10. task'[w] = merged
       /\ \A v \in Workers \ {w} : pc'[v] = pc[v] /\ task'[v] = task[v] /\ mats'[v] = mats[v]
  BY <1>1, <1>7 DEF WorkerTypes
<1> HIDE DEF merged, r, t
<1>11. AllFit' /\ Sending'
  BY <1>5, <1>7, <1>8, <1>10 DEF Safe, AllFit, QueueSafe, Sending, senderVars
<1>12. pc'[w] # "work" /\ pc'[w] # "push"
  BY <1>1, <1>7 DEF WorkerTypes
<1>13. Working'
  BY <1>7, <1>10, <1>12 DEF Safe, Working, Same
<1>14. Scanned' /\ Freed'
  BY <1>7, <1>8 DEF Safe, Scanned, Freed
<1>15. Kept'
  <2>1. \A v \in Workers : pc[v] = "push" => pc'[v] = "push" /\ task'[v] = task[v]
    BY <1>7, <1>10
  <2> QED
    BY <1>7, <1>8, <2>1 DEF Safe, Kept
<1>16. CASE /\ GetNextProcessType(merged.type) # "OVER" /\ merged.codes = {}
            /\ pc' = [pc EXCEPT ![w] = "advance"] /\ mats' = mats
  <2>1. pc'[w] = "advance"
    BY <1>1, <1>16 DEF WorkerTypes
  <2>2. \A k \in Entries(r) : m_Tasks[k].codes = {}
    BY <1>5, <1>16
  <2>3. Rank(t.type) \in Nat
    BY <1>2, RankOrder DEF Task
  <2>4. Advancing'
    <3>1. ASSUME NEW v \in Workers, v # w, pc'[v] = "advance"
          PROVE  /\ Complete(task'[v].request)
                 /\ \A k \in Entries(task'[v].request) :
                      /\ Rank(m_Tasks[k].type) >= Rank(task'[v].type)
                      /\ m_Tasks[k].type = task'[v].type =>
                           m_Tasks[k].state = "WAIT_PACKAGE" /\ m_Tasks[k].codes = {}
      BY <1>10, <3>1 DEF Safe, Advancing
    <3>2. /\ Complete(task'[w].request)
          /\ \A k \in Entries(task'[w].request) :
               /\ Rank(m_Tasks[k].type) >= Rank(task'[w].type)
               /\ m_Tasks[k].type = task'[w].type =>
                    m_Tasks[k].state = "WAIT_PACKAGE" /\ m_Tasks[k].codes = {}
      BY <1>3, <1>4, <1>5, <1>10, <2>2, <2>3
    <3>3. \A v \in Workers : pc'[v] = "advance" =>
            /\ Complete(task'[v].request)
            /\ \A k \in Entries(task'[v].request) :
                 /\ Rank(m_Tasks[k].type) >= Rank(task'[v].type)
                 /\ m_Tasks[k].type = task'[v].type =>
                      m_Tasks[k].state = "WAIT_PACKAGE" /\ m_Tasks[k].codes = {}
      BY <3>1, <3>2
    <3> QED
      BY <1>7, <1>8, <3>3 DEF Advancing
  <2>5. ASSUME NEW u \in Workers, pc[u] \in {"delete", "push"}, task[u].request = r
        PROVE  FALSE
    <3>1. AsMerged(task[u]) /\ pc[u] = "delete"
      BY <1>6, <2>5 DEF Safe, Packaging
    <3>2. task[u].type = t.type
      BY <1>3, <1>4, <2>5, <3>1 DEF AsMerged
    <3> QED
      BY <1>5, <1>16, <2>2, <2>5, <3>1, <3>2 DEF AsMerged
  <2>6. Packaging'
    <3>1. \A u \in Workers : pc'[u] \in {"delete", "push"} =>
            u # w /\ pc[u] = pc'[u] /\ task'[u] = task[u] /\ mats'[u] = mats[u]
      BY <1>10, <2>1
    <3>2. ASSUME NEW u \in Workers, NEW v \in Workers, pc'[u] \in {"delete", "push"},
                 pc'[v] = "advance", task'[v].request = task'[u].request
          PROVE  Rank(task'[v].type) < Rank(task'[u].type)
      <4>1. CASE v = w
        BY <1>5, <1>10, <2>5, <3>1, <3>2, <4>1
      <4>2. CASE v # w
        BY <1>10, <3>1, <3>2, <4>2 DEF Safe, Packaging
      <4> QED
        BY <4>1, <4>2
    <3>3. \A u \in Workers : pc'[u] \in {"delete", "push"} =>
            /\ task'[u].state = "PROCESSED" /\ Complete(task'[u].request)
            /\ \A x \in mats'[u] : x[1] = task'[u].request
      BY <3>1 DEF Safe, Packaging
    <3>4. \A u \in Workers :
            /\ pc'[u] = "delete" => Closed(task'[u].request) \/ AsMerged(task'[u])
            /\ pc'[u] = "push" => Closed(task'[u].request)
      BY <3>1 DEF Safe, Packaging
    <3> QED
      BY <1>8, <1>9, <3>2, <3>3, <3>4 DEF Packaging
  <2> QED
    BY <1>8, <1>11, <1>13, <1>14, <1>15, <2>4, <2>6 DEF Safe, QueueSafe
<1>17. CASE /\ ~(GetNextProcessType(merged.type) # "OVER" /\ merged.codes = {})
            /\ pc' = [pc EXCEPT ![w] = "delete"]
            /\ mats' = [mats EXCEPT ![w] = {<<m_Tasks[k].request, m_Tasks[k].index>> :
                                              k \in {i \in ready : m_Tasks[i].mat}}]
  <2>1. pc'[w] = "delete" /\ \A x \in mats'[w] : x[1] = r
    BY <1>1, <1>3, <1>4, <1>17 DEF WorkerTypes
  <2>2. AsMerged(merged)
    BY <1>4, <1>5, <1>17 DEF AsMerged
  <2>3. \A v \in Workers : pc'[v] = "advance" => v # w /\ pc[v] = "advance" /\ task'[v] = task[v]
    BY <1>10, <2>1
  <2>4. Advancing'
    BY <1>7, <1>8, <2>3 DEF Safe, Advancing
  <2>5. ASSUME NEW v \in Workers, pc[v] = "advance", task[v].request = r
        PROVE  Rank(task[v].type) < Rank(t.type)
    <3>1. PICK k \in Entries(r) : TRUE
      BY <1>3
    <3>2. Rank(t.type) >= Rank(task[v].type)
      BY <1>4, <2>5, <3>1 DEF Safe, Advancing
    <3>3. t.type # task[v].type
      <4>1. ASSUME t.type = task[v].type PROVE FALSE
        <5>1. \A j \in Entries(r) : m_Tasks[j].codes = {}
          BY <1>4, <2>5, <4>1 DEF Safe, Advancing
        <5>2. merged.codes = {}
          BY <1>5, <5>1
        <5> QED
          BY <1>5, <1>17, <2>5, <4>1, <5>2 DEF MayAdvance
      <4> QED
        BY <4>1
    <3>4. t.type \in Types /\ task[v].type \in Types
      BY <1>1, <1>2, <2>5 DEF Task, WorkerTypes
    <3> QED
      BY <3>2, <3>3, <3>4, RankOrder
  <2>6. Packaging'
    <3>1. \A u \in Workers \ {w} : pc'[u] = pc[u] /\ task'[u] = task[u] /\ mats'[u] = mats[u]
      BY <1>10
    <3>2. ASSUME NEW u \in Workers, NEW v \in Workers, pc'[u] \in {"delete", "push"},
                 pc'[v] = "advance", task'[v].request = task'[u].request
          PROVE  Rank(task'[v].type) < Rank(task'[u].type)
      <4>1. CASE u = w
        BY <1>5, <1>10, <2>3, <2>5, <3>2, <4>1
      <4>2. CASE u # w
        BY <2>3, <3>1, <3>2, <4>2 DEF Safe, Packaging
      <4> QED
        BY <4>1, <4>2
    <3>3. \A u \in Workers : pc'[u] \in {"delete", "push"} =>
            /\ task'[u].state = "PROCESSED" /\ Complete(task'[u].request)
            /\ \A x \in mats'[u] : x[1] = task'[u].request
      BY <1>3, <1>5, <1>10, <2>1, <3>1 DEF Safe, Packaging
    <3>4. \A u \in Workers :
            /\ pc'[u] = "delete" => Closed(task'[u].request) \/ AsMerged(task'[u])
            /\ pc'[u] = "push" => Closed(task'[u].request)
      BY <1>10, <2>1, <2>2, <3>1 DEF Safe, Packaging
    <3> QED
      BY <1>8, <1>9, <3>2, <3>3, <3>4 DEF Packaging
  <2> QED
    BY <1>8, <1>11, <1>13, <1>14, <1>15, <2>4, <2>6 DEF Safe, QueueSafe
<1> QED
  BY <1>7, <1>16, <1>17

\* Advancing: what still has the type is merged and without a code; the rest is left alone.
LEMMA AdvanceSafe ==
  ASSUME TypeInv, MayAdvance, Safe, NEW w \in Workers, ChangeTasksProcessType(w)
  PROVE  Safe'
<1> DEFINE by == task[w]
           moved == {k \in Entries(by.request) : m_Tasks[k].type = by.type}
<1>1. QueueTypes /\ WorkerTypes /\ HistoryTypes
  BY TypeParts DEF Parts, TypeInv
<1>2. /\ pc[w] = "advance" /\ by \in Task /\ Fits(by)
      /\ GetNextProcessType(by.type) # "OVER"
  BY <1>1 DEF ChangeTasksProcessType, WorkerTypes, MayAdvance, Safe, AllFit
<1>3. /\ m_Tasks' = [k \in DOMAIN m_Tasks |-> Advanced(m_Tasks[k], by)]
      /\ Return(w) /\ UNCHANGED <<pushed, recvVars, senderVars, linkVars, history>>
  BY DEF ChangeTasksProcessType, Advanced
<1>4. /\ pc'[w] = "get"
      /\ \A v \in Workers \ {w} : pc'[v] = pc[v] /\ task'[v] = task[v] /\ mats'[v] = mats[v]
  BY <1>1, <1>3 DEF Return, WorkerTypes
<1>5. \A k \in DOMAIN m_Tasks : m_Tasks[k] \in Task /\ Fits(m_Tasks[k])
  BY <1>1 DEF QueueTypes, Safe, AllFit
<1>6. \A k \in moved : /\ k \in DOMAIN m_Tasks /\ m_Tasks[k].request = by.request
                       /\ m_Tasks[k].type = by.type
                       /\ m_Tasks[k].state = "WAIT_PACKAGE"
  BY <1>2 DEF Safe, Advancing, Entries
<1>7. \A k \in DOMAIN m_Tasks :
        k \in moved <=> m_Tasks[k].trigger = by.trigger /\ m_Tasks[k].type = by.type
  BY <1>2, <1>5 DEF Entries, Fits
<1> HIDE DEF moved, by
<1>8. /\ DOMAIN m_Tasks' = DOMAIN m_Tasks
      /\ \A k \in DOMAIN m_Tasks :
           /\ k \notin moved => m_Tasks'[k] = m_Tasks[k]
           /\ k \in moved => /\ m_Tasks'[k].state = "UNPROCESS"
                             /\ m_Tasks'[k].type = GetNextProcessType(by.type)
           /\ m_Tasks'[k].request = m_Tasks[k].request
           /\ m_Tasks'[k].trigger = m_Tasks[k].trigger
           /\ m_Tasks'[k].index = m_Tasks[k].index
           /\ m_Tasks'[k].total = m_Tasks[k].total
  <2>1. DOMAIN m_Tasks' = DOMAIN m_Tasks
        /\ \A k \in DOMAIN m_Tasks : m_Tasks'[k] = Advanced(m_Tasks[k], by)
    BY <1>3
  <2> QED
    BY <1>2, <1>5, <1>7, <2>1, AdvancedType
<1>9. \A k \in DOMAIN m_Tasks : Unmerged(k)' = Unmerged(k)
  BY <1>6, <1>8 DEF Unmerged
<1>10. Last' = Last
  BY <1>3 DEF Last, recvVars
<1>11. \A r : /\ Complete(r)' = Complete(r) /\ Pushed(r)' = Pushed(r)
              /\ Entries(r)' = Entries(r) /\ InQueue(r)' = InQueue(r)
  <2>1. \A r : Complete(r)' = Complete(r) /\ Pushed(r)' = Pushed(r)
    BY <1>3, <1>10 DEF Complete, Pushed, recvVars
  <2>2. \A r : Entries(r)' = Entries(r)
    BY <1>8 DEF Entries
  <2>3. ASSUME NEW r PROVE InQueue(r)' = InQueue(r)
    <3>1. InQueue(r) = {m_Tasks[k].index : k \in Entries(r)}
      BY DEF InQueue, Entries
    <3>2. InQueue(r)' = {m_Tasks'[k].index : k \in Entries(r)'}
      BY DEF InQueue, Entries
    <3>3. \A k \in Entries(r) : m_Tasks'[k].index = m_Tasks[k].index
      BY <1>8 DEF Entries
    <3> QED
      BY <2>2, <3>1, <3>2, <3>3
  <2> QED
    BY <2>1, <2>2, <2>3
<1>12. \A r : Closed(r)' = Closed(r)
  BY <1>9, <1>11 DEF Closed, Unmerged, Entries
<1>13. \A u : Fits(u)' = Fits(u)
  BY <1>3, <1>10, <1>11 DEF Fits, recvVars
<1>14. Numbered' /\ OneEach' /\ ProcessedIsClosed'
  <2>1. Numbered'
    BY <1>3, <1>10 DEF Safe, Numbered, recvVars
  <2>2. OneEach'
    BY <1>8, <1>9 DEF Safe, OneEach, Same
  <2>3. ProcessedIsClosed'
    BY <1>8, <1>9, <1>12 DEF Safe, ProcessedIsClosed
  <2> QED
    BY <2>1, <2>2, <2>3
<1>15. AllFit'
  <2>1. (\A k \in DOMAIN m_Tasks : Fits(m_Tasks[k]))'
    BY <1>5, <1>8, <1>13 DEF Fits
  <2> QED
    BY <1>3, <1>4, <1>13, <2>1 DEF Safe, AllFit, senderVars
<1>16. Working'
  <2>1. ASSUME NEW v \in Workers, pc'[v] = "work"
        PROVE  task'[v].state = "PROCESSING" /\ \E k \in DOMAIN m_Tasks' : m_Tasks'[k] = task'[v]
    <3>1. v # w /\ pc[v] = "work" /\ task'[v] = task[v]
      BY <1>4, <2>1
    <3>2. PICK k \in DOMAIN m_Tasks : m_Tasks[k] = task[v] /\ task[v].state = "PROCESSING"
      BY <3>1 DEF Safe, Working
    <3> QED
      BY <1>6, <1>8, <3>1, <3>2
  <2> QED
    BY <1>4, <2>1 DEF Safe, Working, Same
<1>17. GetNextProcessType(by.type) \in Types /\ Rank(by.type) \in Nat
       /\ Rank(GetNextProcessType(by.type)) = Rank(by.type) + 1
  BY <1>2, RankOrder DEF Task
<1>18. Advancing'
  <2>1. ASSUME NEW v \in Workers, v # w, pc[v] = "advance", NEW k \in Entries(task[v].request)
        PROVE  /\ Rank(m_Tasks'[k].type) >= Rank(task[v].type)
               /\ m_Tasks'[k].type = task[v].type =>
                    m_Tasks'[k].state = "WAIT_PACKAGE" /\ m_Tasks'[k].codes = {}
    <3>1. Rank(m_Tasks[k].type) >= Rank(task[v].type) /\ k \in DOMAIN m_Tasks
      BY <2>1 DEF Safe, Advancing, Entries
    <3>2. CASE k \in moved
      <4>1. task[v].type \in Types /\ Rank(task[v].type) \in Nat
        BY <1>1, <2>1, RankOrder DEF WorkerTypes, Task
      <4>2. Rank(m_Tasks'[k].type) > Rank(task[v].type)
        BY <1>6, <1>8, <1>17, <3>1, <3>2, <4>1
      <4>3. Rank(m_Tasks'[k].type) \in Nat
        BY <1>8, <1>17, <3>1, <3>2
      <4>4. m_Tasks'[k].type # task[v].type
        BY <4>1, <4>2
      <4> QED
        BY <4>1, <4>2, <4>3, <4>4
    <3>3. CASE k \notin moved
      BY <1>8, <2>1, <3>1, <3>3 DEF Safe, Advancing
    <3> QED
      BY <3>2, <3>3
  <2>2. \A v \in Workers : pc'[v] = "advance" =>
          /\ v # w /\ pc[v] = "advance" /\ task'[v] = task[v] /\ Complete(task[v].request)
    BY <1>4 DEF Safe, Advancing
  <2> QED
    BY <1>11, <2>1, <2>2 DEF Advancing
<1>19. Packaging'
  <2>1. \A v \in Workers : pc'[v] # "get" =>
          v # w /\ pc[v] = pc'[v] /\ task'[v] = task[v] /\ mats'[v] = mats[v]
    BY <1>4
  <2>2. ASSUME NEW v \in Workers, pc[v] = "delete", AsMerged(task[v])
        PROVE  AsMerged(task[v])'
    <3>1. v # w /\ task'[v] = task[v]
      BY <1>2, <1>4, <2>2
    <3>2. ASSUME NEW k \in Entries(task[v].request) PROVE m_Tasks'[k] = m_Tasks[k]
      <4>1. k \in DOMAIN m_Tasks /\ m_Tasks[k].type = task[v].type
            /\ m_Tasks[k].request = task[v].request
        BY <2>2 DEF AsMerged, Entries
      <4>2. k \notin moved
        <5>1. ASSUME k \in moved PROVE FALSE
          <6>1. task[w].request = task[v].request /\ task[w].type = task[v].type
            BY <1>6, <4>1, <5>1 DEF by
          <6>2. Rank(task[w].type) < Rank(task[v].type)
            BY <1>2, <2>2, <6>1 DEF Safe, Packaging
          <6> QED
            BY <1>17, <6>1, <6>2 DEF by
        <5> QED
          BY <5>1
      <4> QED
        BY <1>8, <4>1, <4>2
    <3> QED
      BY <1>11, <2>2, <3>1, <3>2 DEF AsMerged
  <2>3. ASSUME NEW v \in Workers, pc'[v] = "delete"
        PROVE  (Closed(task[v].request) \/ AsMerged(task[v]))'
    <3>1. pc[v] = "delete" /\ task'[v] = task[v]
      BY <2>1, <2>3
    <3>2. Closed(task[v].request) \/ AsMerged(task[v])
      BY <3>1 DEF Safe, Packaging
    <3>3. Closed(task[v].request) => Closed(task[v].request)'
      BY <1>12, <3>1
    <3> QED
      BY <2>2, <3>1, <3>2, <3>3
  <2>4. ASSUME NEW v \in Workers, pc'[v] = "push" PROVE Closed(task[v].request)'
    BY <1>12, <2>1, <2>4 DEF Safe, Packaging
  <2>5. \A v \in Workers : pc'[v] \in {"delete", "push"} =>
          /\ task'[v].state = "PROCESSED"
          /\ Complete(task'[v].request)
          /\ \A x \in mats'[v] : x[1] = task'[v].request
          /\ \A u \in Workers : pc'[u] = "advance" /\ task'[u].request = task'[v].request =>
               Rank(task'[u].type) < Rank(task'[v].type)
    BY <2>1 DEF Safe, Packaging
  <2> QED
    BY <1>11, <2>3, <2>4, <2>5 DEF Packaging
<1>20. Sending'
  BY <1>3, <1>12 DEF Safe, Sending, senderVars, history
<1>21. Scanned'
  <2>1. ASSUME NEW x \in scans, NEW k \in Entries(x[1]), m_Tasks[k].index = x[2], Unmerged(k)
        PROVE  /\ Rank(x[3]) <= Rank(m_Tasks'[k].type)
               /\ m_Tasks'[k].state # "WAIT_PACKAGE" => Rank(x[3]) < Rank(m_Tasks'[k].type)
    <3>1. /\ Rank(x[3]) <= Rank(m_Tasks[k].type)
          /\ m_Tasks[k].state # "WAIT_PACKAGE" => Rank(x[3]) < Rank(m_Tasks[k].type)
          /\ k \in DOMAIN m_Tasks
      BY <2>1 DEF Safe, Scanned, Entries
    <3>2. x[3] \in Types /\ Rank(x[3]) \in Nat
      BY <1>1, RankOrder DEF HistoryTypes
    <3>3. CASE k \in moved
      BY <1>6, <1>8, <1>17, <3>1, <3>2, <3>3
    <3>4. CASE k \notin moved
      BY <1>8, <3>1, <3>4
    <3> QED
      BY <3>3, <3>4
  <2>2. \A x \in scans : x[1] \in 1..Last /\ x[2] < Pushed(x[1])
    BY DEF Safe, Scanned
  <2>3. scans' = scans
    BY <1>3 DEF history
  <2>4. \A k \in DOMAIN m_Tasks : m_Tasks'[k].index = m_Tasks[k].index
    BY <1>8
  <2>5. \A r : \A k \in Entries(r) : k \in DOMAIN m_Tasks
    BY DEF Entries
  <2> QED
    BY <1>9, <1>10, <1>11, <2>1, <2>2, <2>3, <2>4, <2>5 DEF Scanned
<1>22. Freed'
  BY <1>3, <1>10, <1>12 DEF Safe, Freed, history
<1>23. Kept'
  <2>1. \A r : \A k \in Entries(r) : k \in DOMAIN m_Tasks
    BY DEF Entries
  <2>2. \A v \in Workers : pc[v] = "push" => pc'[v] = "push" /\ task'[v] = task[v]
    BY <1>2, <1>4
  <2> QED
    BY <1>3, <1>9, <1>10, <1>11, <2>1, <2>2 DEF Safe, Kept, history
<1> QED
  BY <1>14, <1>15, <1>16, <1>18, <1>19, <1>20, <1>21, <1>22, <1>23 DEF Safe

\* Deleting a request whose tasks are all merged, or answered.
ErasedOf(r) ==
  /\ DOMAIN m_Tasks' = {k \in DOMAIN m_Tasks : m_Tasks[k].request # r}
  /\ \A k \in DOMAIN m_Tasks' : m_Tasks'[k] = m_Tasks[k]

\* What it leaves true of the queue.
LEMMA ErasedQueue ==
  ASSUME Safe, UNCHANGED recvVars, NEW r, ErasedOf(r), Complete(r)
  PROVE  /\ QueueSafe'
         /\ Closed(r)'
         /\ Entries(r)' = {}
         /\ \A q : /\ Closed(q) => Closed(q)'
                   /\ Complete(q)' = Complete(q) /\ Pushed(q)' = Pushed(q)
                   /\ q # r => Entries(q)' = Entries(q) /\ InQueue(q)' = InQueue(q)
         /\ \A u : Fits(u)' = Fits(u)
         /\ \A k \in DOMAIN m_Tasks' : Unmerged(k)' = Unmerged(k)
         /\ Last' = Last
<1>1. Last' = Last
  BY DEF Last, recvVars
<1>2. \A q : Complete(q)' = Complete(q) /\ Pushed(q)' = Pushed(q)
  BY <1>1 DEF Complete, Pushed, recvVars
<1>3. Entries(r)' = {} /\ \A q : Entries(q)' \subseteq Entries(q)
  BY DEF Entries, ErasedOf
<1>4. \A q : q # r => Entries(q)' = Entries(q)
  BY DEF Entries, ErasedOf
<1>5. ASSUME NEW q, q # r PROVE InQueue(q)' = InQueue(q)
  <2>1. InQueue(q) = {m_Tasks[k].index : k \in Entries(q)}
    BY DEF InQueue, Entries
  <2>2. InQueue(q)' = {m_Tasks'[k].index : k \in Entries(q)'}
    BY DEF InQueue, Entries
  <2>3. \A k \in Entries(q) : m_Tasks'[k].index = m_Tasks[k].index
    BY <1>5 DEF Entries, ErasedOf
  <2> QED
    BY <1>4, <1>5, <2>1, <2>2, <2>3
<1>6. Closed(r)'
  BY <1>2, <1>3 DEF Closed
<1>7. \A q : Closed(q) => Closed(q)'
  BY <1>2, <1>3 DEF Closed, ErasedOf, Entries
<1>8. \A u : Fits(u)' = Fits(u)
  BY <1>1, <1>2 DEF Fits, recvVars
<1>9. \A k \in DOMAIN m_Tasks' : Unmerged(k)' = Unmerged(k)
  BY DEF Unmerged, ErasedOf
<1>10. QueueSafe'
  <2>1. Numbered'
    BY <1>1 DEF Safe, Numbered, recvVars
  <2>2. (\A k \in DOMAIN m_Tasks : Fits(m_Tasks[k]))'
    BY <1>8 DEF Safe, AllFit, ErasedOf, Fits
  <2>3. OneEach'
    BY <1>9 DEF Safe, OneEach, Same, ErasedOf
  <2>4. ProcessedIsClosed'
    BY <1>7, <1>9 DEF Safe, ProcessedIsClosed, ErasedOf
  <2> QED
    BY <2>1, <2>2, <2>3, <2>4 DEF QueueSafe
<1> QED
  BY <1>1, <1>2, <1>3, <1>4, <1>5, <1>6, <1>7, <1>8, <1>9, <1>10

\* What the other threads rely on survives the deletion.
LEMMA ErasedOthers ==
  ASSUME Safe, UNCHANGED recvVars, NEW r, ErasedOf(r), Complete(r),
         \A k \in Entries(r) : m_Tasks[k].state # "PROCESSING",
         UNCHANGED <<task, mats, scans, freed>>,
         \A v \in Workers :
           \/ pc'[v] = pc[v]
           \/ pc'[v] = "push" /\ pc[v] = "delete" /\ task[v].request = r
  PROVE  Working' /\ Advancing' /\ Packaging' /\ Scanned' /\ Freed'
<1>1. /\ Closed(r)'
      /\ Entries(r)' = {}
      /\ \A q : /\ Closed(q) => Closed(q)'
                /\ Complete(q)' = Complete(q) /\ Pushed(q)' = Pushed(q)
                /\ q # r => Entries(q)' = Entries(q)
      /\ \A k \in DOMAIN m_Tasks' : Unmerged(k)' = Unmerged(k)
      /\ Last' = Last
  BY ErasedQueue
<1>2. \A q : \A k \in Entries(q)' : k \in DOMAIN m_Tasks' /\ k \in Entries(q)
                                    /\ m_Tasks'[k] = m_Tasks[k]
  BY DEF Entries, ErasedOf
<1>3. Working'
  <2>1. ASSUME NEW v \in Workers, pc'[v] = "work"
        PROVE  task[v].state = "PROCESSING" /\ \E k \in DOMAIN m_Tasks' : m_Tasks'[k] = task[v]
    <3>1. PICK k \in DOMAIN m_Tasks : m_Tasks[k] = task[v] /\ task[v].state = "PROCESSING"
      BY <2>1 DEF Safe, Working
    <3>2. m_Tasks[k].request # r
      BY <3>1 DEF Entries
    <3> QED
      BY <3>1, <3>2 DEF ErasedOf
  <2> QED
    BY <2>1 DEF Safe, Working, Same
<1>4. Advancing'
  BY <1>1, <1>2 DEF Safe, Advancing
<1>5. Packaging'
  <2>1. ASSUME NEW v \in Workers, AsMerged(task[v])
        PROVE  Closed(task[v].request)' \/ AsMerged(task[v])'
    <3>1. CASE task[v].request = r
      BY <1>1, <3>1
    <3>2. CASE task[v].request # r
      BY <1>1, <1>2, <2>1, <3>2 DEF AsMerged
    <3> QED
      BY <3>1, <3>2
  <2>2. ASSUME NEW v \in Workers, pc'[v] = "delete"
        PROVE  (Closed(task[v].request) \/ AsMerged(task[v]))'
    BY <1>1, <2>1, <2>2 DEF Safe, Packaging
  <2>3. ASSUME NEW v \in Workers, pc'[v] = "push" PROVE Closed(task[v].request)'
    <3>1. CASE task[v].request = r
      BY <1>1, <3>1
    <3>2. CASE pc[v] = "push"
      BY <1>1, <3>2 DEF Safe, Packaging
    <3> QED
      BY <2>3, <3>1, <3>2
  <2>4. \A v \in Workers : pc'[v] \in {"delete", "push"} => pc[v] \in {"delete", "push"}
    OBVIOUS
  <2>5. \A v \in Workers : pc'[v] = "advance" => pc[v] = "advance"
    OBVIOUS
  <2> QED
    BY <1>1, <2>2, <2>3, <2>4, <2>5 DEF Safe, Packaging
<1>6. Scanned'
  BY <1>1, <1>2 DEF Safe, Scanned
<1>7. Freed'
  BY <1>1 DEF Safe, Freed
<1> QED
  BY <1>3, <1>4, <1>5, <1>6, <1>7

\* A worker deletes the pictures of the request it merged.
LEMMA DeleteSafe ==
  ASSUME TypeInv, Safe, NEW w \in Workers, DelAnImageProcessTask(w)
  PROVE  Safe'
<1>0. PICK r : r = task[w].request
  OBVIOUS
<1>1. QueueTypes /\ WorkerTypes
  BY TypeParts DEF Parts, TypeInv
<1>2. pc[w] = "delete" /\ Fits(task[w]) /\ Complete(r)
  BY <1>0 DEF DelAnImageProcessTask, Safe, AllFit, Packaging
<1>3. ErasedOf(r)
  <2>1. Erase(task[w].trigger) /\ task[w].trigger = r
    BY <1>0, <1>2 DEF DelAnImageProcessTask, Fits
  <2>2. \A k \in DOMAIN m_Tasks : m_Tasks[k].trigger = m_Tasks[k].request
    BY DEF Safe, AllFit, Fits
  <2> QED
    BY <1>1, <2>1, <2>2, Erased DEF ErasedOf
<1>4. \A k \in Entries(r) : m_Tasks[k].state # "PROCESSING"
  BY <1>0, <1>2 DEF Safe, Packaging, Closed, AsMerged
<1>5. /\ pc'[w] = "push" /\ \A v \in Workers \ {w} : pc'[v] = pc[v]
      /\ UNCHANGED <<task, mats, recvVars, senderVars, replied, scans, freed>>
  BY <1>1 DEF DelAnImageProcessTask, WorkerTypes, history
<1>6. /\ QueueSafe'
      /\ \A q : /\ Closed(q) => Closed(q)'
                /\ Pushed(q)' = Pushed(q)
                /\ q # r => Entries(q)' = Entries(q) /\ InQueue(q)' = InQueue(q)
      /\ \A u : Fits(u)' = Fits(u)
      /\ \A k \in DOMAIN m_Tasks' : Unmerged(k)' = Unmerged(k)
      /\ Last' = Last
  BY <1>2, <1>3, <1>5, ErasedQueue
<1>7. Working' /\ Advancing' /\ Packaging' /\ Scanned' /\ Freed'
  <2>1. \A v \in Workers :
          \/ pc'[v] = pc[v]
          \/ pc'[v] = "push" /\ pc[v] = "delete" /\ task[v].request = r
    BY <1>0, <1>2, <1>5
  <2>2. UNCHANGED <<task, mats, scans, freed>> /\ UNCHANGED recvVars
    BY <1>5
  <2> QED
    BY ONLY Safe, <1>2, <1>3, <1>4, <2>1, <2>2, ErasedOthers
<1>8. AllFit' /\ Sending'
  BY <1>2, <1>5, <1>6 DEF Safe, AllFit, QueueSafe, Sending, senderVars
<1>9. Kept'
  <2>1. ASSUME NEW q \in 1..Last, replied[q] = 0, q # r
        PROVE  \/ InQueue(q)' = 0..(Pushed(q)' - 1)
               \/ \E k \in Entries(q)' : ~Unmerged(k)'
               \/ \E v \in Workers : pc'[v] = "push" /\ task[v].request = q
    <3>1. \A k \in Entries(q)' : k \in DOMAIN m_Tasks'
      BY DEF Entries
    <3>2. \A v \in Workers : pc[v] = "push" => pc'[v] = "push"
      BY <1>5
    <3> QED
      BY <1>6, <2>1, <3>1, <3>2 DEF Safe, Kept
  <2>2. pc'[w] = "push" /\ task[w].request = r
    BY <1>0, <1>5
  <2> QED
    BY <1>5, <1>6, <2>1, <2>2 DEF Kept
<1> QED
  BY <1>6, <1>7, <1>8, <1>9 DEF Safe, QueueSafe

\* push_back of a merged task.
LEMMA PackagedSafe ==
  ASSUME TypeInv, Safe, NEW w \in Workers, PushPackaged(w)
  PROVE  Safe'
<1>0. PICK t, n : t = task[w] /\ n = pushed + 1
  OBVIOUS
<1>1. QueueTypes /\ WorkerTypes
  BY TypeParts DEF Parts, TypeInv
<1>2. /\ pc[w] = "push" /\ t \in Task /\ Fits(t) /\ t.state = "PROCESSED"
      /\ Closed(t.request) /\ Complete(t.request)
      /\ \A x \in mats[w] : x[1] = t.request
      /\ \A v \in Workers : pc[v] = "advance" /\ task[v].request = t.request =>
           Rank(task[v].type) < Rank(t.type)
  BY <1>0, <1>1 DEF PushPackaged, WorkerTypes, Safe, AllFit, Packaging
<1>3. /\ DOMAIN m_Tasks' = DOMAIN m_Tasks \cup {n}
      /\ n \notin DOMAIN m_Tasks /\ m_Tasks'[n] = t
      /\ \A k \in DOMAIN m_Tasks : m_Tasks'[k] = m_Tasks[k]
  BY <1>0, <1>1, <1>2, PushedBack DEF PushPackaged
<1>4. /\ pc'[w] = "get" /\ UNCHANGED <<recvVars, senderVars, replied, scans>>
      /\ freed' = freed \cup mats[w]
      /\ \A v \in Workers \ {w} : pc'[v] = pc[v] /\ task'[v] = task[v] /\ mats'[v] = mats[v]
  BY <1>1 DEF PushPackaged, Return, WorkerTypes
<1>5. Last' = Last
  BY <1>4 DEF Last, recvVars
<1>6. \A q : Complete(q)' = Complete(q) /\ Pushed(q)' = Pushed(q)
  BY <1>4, <1>5 DEF Complete, Pushed, recvVars
<1>7. ~Unmerged(n)' /\ \A k \in DOMAIN m_Tasks : Unmerged(k)' = Unmerged(k)
  BY <1>2, <1>3 DEF Unmerged
<1>8. \A q : Entries(q)' = Entries(q) \cup (IF q = t.request THEN {n} ELSE {})
  BY <1>3 DEF Entries
<1>9. \A q : Closed(q) => Closed(q)'
  <2> SUFFICES ASSUME NEW q, Closed(q) PROVE Closed(q)'
    OBVIOUS
  <2>1. \A k \in Entries(q)' : m_Tasks'[k].state = "PROCESSED"
    BY <1>2, <1>3, <1>8 DEF Closed, Entries
  <2> QED
    BY <1>6, <2>1 DEF Closed
<1>10. \A u : Fits(u)' = Fits(u)
  BY <1>4, <1>5, <1>6 DEF Fits, recvVars
<1>11. Numbered' /\ OneEach' /\ ProcessedIsClosed'
  <2>1. Numbered'
    BY <1>4, <1>5 DEF Safe, Numbered, recvVars
  <2>2. OneEach'
    BY <1>3, <1>7 DEF Safe, OneEach, Same
  <2>3. ProcessedIsClosed'
    BY <1>2, <1>3, <1>7, <1>9 DEF Safe, ProcessedIsClosed
  <2> QED
    BY <2>1, <2>2, <2>3
<1>12. AllFit'
  <2>1. (\A k \in DOMAIN m_Tasks : Fits(m_Tasks[k]))'
    BY <1>2, <1>3, <1>10 DEF Safe, AllFit
  <2> QED
    BY <1>4, <1>10, <2>1 DEF Safe, AllFit, senderVars
<1>13. Working'
  BY <1>3, <1>4 DEF Safe, Working, Same
<1>14. Advancing'
  <2>1. ASSUME NEW v \in Workers, v # w, pc[v] = "advance", NEW k \in Entries(task[v].request)'
        PROVE  /\ Rank(m_Tasks'[k].type) >= Rank(task[v].type)
               /\ m_Tasks'[k].type = task[v].type =>
                    m_Tasks'[k].state = "WAIT_PACKAGE" /\ m_Tasks'[k].codes = {}
    <3>0. task'[v] = task[v]
      BY <1>4, <2>1
    <3>1. CASE k = n
      <4>1. task[v].request = t.request
        BY <1>8, <2>1, <3>0, <3>1, <1>3 DEF Entries
      <4>2. Rank(task[v].type) < Rank(t.type) /\ task[v].type \in Types /\ t.type \in Types
        BY <1>1, <1>2, <2>1, <4>1 DEF WorkerTypes, Task
      <4>3. Rank(task[v].type) \in Nat /\ Rank(t.type) \in Nat
        BY <4>2, RankOrder
      <4>4. t.type # task[v].type
        BY <4>2, <4>3
      <4> QED
        BY <1>3, <3>1, <4>2, <4>3, <4>4
    <3>2. CASE k # n
      <4>1. k \in Entries(task[v].request) /\ m_Tasks'[k] = m_Tasks[k]
        BY <1>3, <2>1, <3>0, <3>2 DEF Entries
      <4> QED
        BY <2>1, <4>1 DEF Safe, Advancing
    <3> QED
      BY <3>1, <3>2
  <2>2. \A v \in Workers : pc'[v] = "advance" =>
          v # w /\ pc[v] = "advance" /\ task'[v] = task[v] /\ Complete(task[v].request)
    BY <1>4 DEF Safe, Advancing
  <2> QED
    BY <1>6, <2>1, <2>2 DEF Advancing
<1>15. Packaging'
  <2>1. \A v \in Workers : pc'[v] # "get" =>
          v # w /\ pc[v] = pc'[v] /\ task'[v] = task[v] /\ mats'[v] = mats[v]
    BY <1>4
  <2>2. ASSUME NEW v \in Workers, pc'[v] = "delete"
        PROVE  (Closed(task[v].request) \/ AsMerged(task[v]))'
    <3>1. pc[v] = "delete" /\ task'[v] = task[v]
      BY <2>1, <2>2
    <3>2. CASE Closed(task[v].request)
      BY <1>9, <3>1, <3>2
    <3>3. CASE AsMerged(task[v]) /\ task[v].request # t.request
      <4>1. Entries(task[v].request)' = Entries(task[v].request)
        BY <1>8, <3>1, <3>3
      <4>2. \A k \in Entries(task[v].request) : m_Tasks'[k] = m_Tasks[k]
        BY <1>3 DEF Entries
      <4> QED
        BY <3>1, <3>3, <4>1, <4>2 DEF AsMerged
    <3>4. CASE task[v].request = t.request
      BY <1>2, <1>9, <3>1, <3>4
    <3> QED
      BY <3>1, <3>2, <3>3, <3>4 DEF Safe, Packaging
  <2>3. ASSUME NEW v \in Workers, pc'[v] = "push" PROVE Closed(task[v].request)'
    BY <1>9, <2>1, <2>3 DEF Safe, Packaging
  <2>4. \A v \in Workers : pc'[v] \in {"delete", "push"} =>
          /\ task'[v].state = "PROCESSED"
          /\ Complete(task'[v].request)
          /\ \A x \in mats'[v] : x[1] = task'[v].request
          /\ \A u \in Workers : pc'[u] = "advance" /\ task'[u].request = task'[v].request =>
               Rank(task'[u].type) < Rank(task'[v].type)
    BY <2>1 DEF Safe, Packaging
  <2> QED
    BY <1>6, <2>2, <2>3, <2>4 DEF Packaging
<1>16. Sending'
  BY <1>4, <1>9 DEF Safe, Sending, senderVars
<1>17. Scanned'
  <2>1. \A q : \A k \in Entries(q)' : Unmerged(k)' =>
          k \in Entries(q) /\ Unmerged(k) /\ m_Tasks'[k] = m_Tasks[k]
    BY <1>3, <1>7, <1>8 DEF Entries
  <2> QED
    BY <1>4, <1>5, <1>6, <2>1 DEF Safe, Scanned
<1>18. Freed'
  <2>1. t.request \in 1..Last
    BY <1>2 DEF Fits
  <2> QED
    BY <1>2, <1>4, <1>5, <1>9, <2>1 DEF Safe, Freed
<1>19. Kept'
  <2>1. ASSUME NEW q \in 1..Last, replied[q] = 0, q # t.request
        PROVE  \/ InQueue(q)' = 0..(Pushed(q)' - 1)
               \/ \E k \in Entries(q)' : ~Unmerged(k)'
               \/ \E v \in Workers : pc'[v] = "push" /\ task'[v].request = q
    <3>1. InQueue(q)' = InQueue(q)
      <4>1. InQueue(q) = {m_Tasks[k].index : k \in Entries(q)}
        BY DEF InQueue, Entries
      <4>2. InQueue(q)' = {m_Tasks'[k].index : k \in Entries(q)'}
        BY DEF InQueue, Entries
      <4>3. Entries(q)' = Entries(q)
        BY <1>8, <2>1
      <4>4. \A k \in Entries(q) : m_Tasks'[k].index = m_Tasks[k].index
        BY <1>3 DEF Entries
      <4> QED
        BY <4>1, <4>2, <4>3, <4>4
    <3>2. \A k \in Entries(q) : k \in DOMAIN m_Tasks /\ k \in Entries(q)'
      BY <1>8 DEF Entries
    <3>3. \A v \in Workers : pc[v] = "push" /\ task[v].request = q =>
            pc'[v] = "push" /\ task'[v].request = q
      BY <1>0, <1>4, <2>1
    <3> QED
      BY <1>6, <1>7, <2>1, <3>1, <3>2, <3>3 DEF Safe, Kept
  <2>2. n \in Entries(t.request)' /\ ~Unmerged(n)'
    BY <1>7, <1>8
  <2>3. ASSUME NEW q \in 1..Last, replied[q] = 0
        PROVE  \/ InQueue(q)' = 0..(Pushed(q)' - 1)
               \/ \E k \in Entries(q)' : ~Unmerged(k)'
               \/ \E v \in Workers : pc'[v] = "push" /\ task'[v].request = q
    <3>1. CASE q = t.request
      BY <2>2, <3>1
    <3>2. CASE q # t.request
      BY <2>1, <2>3, <3>2
    <3> QED
      BY <3>1, <3>2
  <2> QED
    BY <1>4, <1>5, <2>3 DEF Kept
<1> QED
  BY <1>11, <1>12, <1>13, <1>14, <1>15, <1>16, <1>17, <1>18, <1>19 DEF Safe

\* push_back of a subtask: its request is not complete, so no thread packages or answers it.
LEMMA PushSafe ==
  ASSUME TypeInv, Safe, PushAnImageProcessTask
  PROVE  Safe'
<1>0. PICK t, n, r : t = SubTask(Last, next) /\ n = pushed + 1 /\ r = Last
  OBVIOUS
<1>1. /\ QueueTypes /\ RecvTypes /\ Last \in Nat
      /\ t \in Task /\ r \in 1..Last /\ next < Pieces(message[r]) /\ next \in Nat
  BY <1>0, PushTypes, TypeParts
  DEF Parts, TypeInv, RecvTypes, Last, Requests
<1>2. /\ DOMAIN m_Tasks' = DOMAIN m_Tasks \cup {n}
      /\ n \notin DOMAIN m_Tasks /\ m_Tasks'[n] = t
      /\ \A k \in DOMAIN m_Tasks : m_Tasks'[k] = m_Tasks[k]
  BY <1>0, <1>1, PushedBack DEF PushAnImageProcessTask
<1>3. /\ UNCHANGED <<message, trigger, workerVars, senderVars, linkVars, history>>
      /\ next' = next + 1 /\ ~Complete(r)
  BY <1>0 DEF PushAnImageProcessTask
<1>4. /\ t.request = r /\ t.trigger = r /\ t.index = next /\ t.total = message[r].images
      /\ t.state = "UNPROCESS" /\ t.type = "TAG"
  BY <1>0, <1>1 DEF SubTask, Safe, Numbered
<1>5. Last' = Last
  BY <1>3 DEF Last
<1>6. /\ \A q : Complete(q) => Complete(q)'
      /\ Pushed(r) = next /\ Pushed(r)' = next + 1
      /\ \A q \in 1..Last : q # r => Pushed(q)' = Pushed(q)
  BY <1>0, <1>1, <1>3, <1>5 DEF Complete, Pushed
<1>7. Unmerged(n)' /\ \A k \in DOMAIN m_Tasks : Unmerged(k)' = Unmerged(k)
  BY <1>2, <1>4 DEF Unmerged
<1>8. \A q : Entries(q)' = Entries(q) \cup (IF q = r THEN {n} ELSE {})
  BY <1>2, <1>4 DEF Entries
<1>9. ASSUME NEW q, Closed(q) PROVE Closed(q)'
  <2>1. q # r
    BY <1>3, <1>9 DEF Closed
  <2>2. \A k \in Entries(q)' : m_Tasks'[k].state = "PROCESSED"
    BY <1>2, <1>8, <1>9, <2>1 DEF Closed, Entries
  <2> QED
    BY <1>6, <1>9, <2>2 DEF Closed
<1>10. \A u \in Task : Fits(u) => Fits(u)'
  BY Grows DEF Safe, Next
<1>11. AllFit'
  <2>1. Fits(t)'
    BY <1>1, <1>3, <1>4, <1>5, <1>6 DEF Fits
  <2>2. (\A k \in DOMAIN m_Tasks : Fits(m_Tasks[k]))'
    BY <1>1, <1>2, <1>10, <2>1 DEF Safe, AllFit, QueueTypes
  <2>3. WorkerTypes /\ SenderTypes
    BY TypeParts DEF Parts, TypeInv
  <2> QED
    BY <1>3, <1>10, <2>2, <2>3
    DEF Safe, AllFit, workerVars, senderVars, WorkerTypes, SenderTypes
<1>12. \A k \in DOMAIN m_Tasks : m_Tasks[k].request = r => m_Tasks[k].index < next
  BY <1>6 DEF Safe, AllFit, Fits
<1>13. Numbered' /\ OneEach' /\ ProcessedIsClosed'
  <2>1. Numbered'
    <3>1. Pieces(message[r]) \in Nat
      BY <1>0, PushTypes
    <3> QED
      BY <1>0, <1>1, <1>3, <1>5, <3>1 DEF Safe, Numbered
  <2>2. ASSUME NEW j \in DOMAIN m_Tasks', NEW k \in DOMAIN m_Tasks', Unmerged(j)', Unmerged(k)',
               m_Tasks'[j].request = m_Tasks'[k].request, m_Tasks'[j].index = m_Tasks'[k].index
        PROVE  j = k
    <3>1. CASE j \in DOMAIN m_Tasks /\ k \in DOMAIN m_Tasks
      BY <1>2, <1>7, <2>2, <3>1 DEF Safe, OneEach, Same
    <3>2. CASE j = n /\ k \in DOMAIN m_Tasks
      BY <1>1, <1>2, <1>4, <1>12, <2>2, <3>2
    <3>3. CASE k = n /\ j \in DOMAIN m_Tasks
      BY <1>1, <1>2, <1>4, <1>12, <2>2, <3>3
    <3> QED
      BY <1>2, <3>1, <3>2, <3>3
  <2>3. OneEach'
    BY <2>2 DEF OneEach, Same
  <2>4. ProcessedIsClosed'
    BY <1>2, <1>7, <1>9 DEF Safe, ProcessedIsClosed
  <2> QED
    BY <2>1, <2>3, <2>4
<1>14. Working'
  BY <1>2, <1>3 DEF Safe, Working, Same, workerVars
<1>15. ASSUME NEW v \in Workers, pc[v] \in Packagers
       PROVE  task[v].request # r /\ Entries(task[v].request)' = Entries(task[v].request)
  <2>1. Complete(task[v].request)
    BY <1>15 DEF Packagers, Safe, Advancing, Packaging
  <2>2. task[v].request # r
    BY <1>3, <2>1
  <2>3. Entries(task[v].request)' = Entries(task'[v].request)
    BY <1>8, <1>3, <2>2 DEF workerVars
  <2> QED
    BY <1>3, <2>2, <2>3 DEF workerVars
<1>16. \A q : \A k \in Entries(q) : m_Tasks'[k] = m_Tasks[k]
  BY <1>2 DEF Entries
<1>17. Advancing'
  <2>1. ASSUME NEW v \in Workers, pc'[v] = "advance"
        PROVE  /\ Complete(task[v].request)'
               /\ \A k \in Entries(task[v].request)' :
                    /\ Rank(m_Tasks'[k].type) >= Rank(task'[v].type)
                    /\ m_Tasks'[k].type = task'[v].type =>
                         m_Tasks'[k].state = "WAIT_PACKAGE" /\ m_Tasks'[k].codes = {}
    <3>1. pc[v] = "advance" /\ task'[v] = task[v] /\ pc[v] \in Packagers
      BY <1>3, <2>1 DEF workerVars, Packagers
    <3> QED
      BY <1>6, <1>15, <1>16, <3>1 DEF Safe, Advancing
  <2> QED
    BY <2>1 DEF Advancing
<1>18. Packaging'
  <2>1. ASSUME NEW v \in Workers, pc'[v] = "delete"
        PROVE  (Closed(task[v].request) \/ AsMerged(task[v]))'
    <3>1. pc[v] = "delete" /\ task'[v] = task[v] /\ pc[v] \in Packagers
      BY <1>3, <2>1 DEF workerVars, Packagers
    <3>2. CASE Closed(task[v].request)
      BY <1>9, <3>1, <3>2
    <3>3. CASE AsMerged(task[v])
      BY <1>15, <1>16, <3>1, <3>3 DEF AsMerged
    <3> QED
      BY <3>1, <3>2, <3>3 DEF Safe, Packaging
  <2>2. ASSUME NEW v \in Workers, pc'[v] = "push" PROVE Closed(task[v].request)'
    BY <1>3, <1>9, <2>2 DEF Safe, Packaging, workerVars
  <2>3. \A v \in Workers : pc'[v] \in {"delete", "push"} =>
          /\ task'[v].state = "PROCESSED"
          /\ Complete(task'[v].request)
          /\ \A x \in mats'[v] : x[1] = task'[v].request
          /\ \A u \in Workers : pc'[u] = "advance" /\ task'[u].request = task'[v].request =>
               Rank(task'[u].type) < Rank(task'[v].type)
    BY <1>3 DEF Safe, Packaging, workerVars
  <2> QED
    BY <1>6, <2>1, <2>2, <2>3 DEF Packaging
<1>19. Sending'
  BY <1>3, <1>9 DEF Safe, Sending, senderVars, history
<1>20. Scanned'
  <2>1. ASSUME NEW x \in scans
        PROVE  /\ x[1] \in 1..Last /\ x[2] < Pushed(x[1])'
               /\ \A k \in Entries(x[1])' : m_Tasks'[k].index = x[2] => k \in Entries(x[1])
    <3>1. x[1] \in 1..Last /\ x[2] < Pushed(x[1]) /\ x[2] \in Nat
      BY TypeParts DEF Safe, Scanned, Parts, TypeInv, HistoryTypes
    <3>2. Pushed(x[1])' = Pushed(x[1]) \/ x[1] = r
      BY <1>6, <3>1
    <3>3. x[2] < Pushed(x[1])'
      BY <1>1, <1>6, <3>1, <3>2
    <3>4. x[1] = r => x[2] # next
      BY <1>1, <1>6, <3>1
    <3> QED
      BY <1>2, <1>4, <1>8, <3>1, <3>3, <3>4
  <2>2. scans' = scans
    BY <1>3 DEF history
  <2>3. \A q : \A k \in Entries(q) : k \in DOMAIN m_Tasks
    BY DEF Entries
  <2> QED
    BY <1>5, <1>7, <1>16, <2>1, <2>2, <2>3 DEF Safe, Scanned
<1>21. Freed'
  BY <1>3, <1>5, <1>9 DEF Safe, Freed, history
<1>22. Kept'
  <2>1. \A q : InQueue(q)' = InQueue(q) \cup (IF q = r THEN {next} ELSE {})
    <3>1. \A q : InQueue(q) = {m_Tasks[k].index : k \in Entries(q)}
      BY DEF InQueue, Entries
    <3>2. \A q : InQueue(q)' = {m_Tasks'[k].index : k \in Entries(q)'}
      BY DEF InQueue, Entries
    <3>3. m_Tasks'[n].index = next
      BY <1>2, <1>4
    <3> QED
      BY <1>8, <1>16, <3>1, <3>2, <3>3
  <2>2. \A q : \A k \in Entries(q) : k \in DOMAIN m_Tasks /\ k \in Entries(q)'
    BY <1>8 DEF Entries
  <2>3. ASSUME NEW q \in 1..Last, replied[q] = 0, q # r
        PROVE  \/ InQueue(q)' = 0..(Pushed(q)' - 1)
               \/ \E k \in Entries(q)' : ~Unmerged(k)'
               \/ \E v \in Workers : pc'[v] = "push" /\ task'[v].request = q
    <3>1. InQueue(q)' = InQueue(q) /\ Pushed(q)' = Pushed(q)
      BY <1>6, <2>1, <2>3
    <3> QED
      BY <1>3, <1>7, <2>2, <2>3, <3>1 DEF Safe, Kept, workerVars
  <2>4. ASSUME replied[r] = 0
        PROVE  InQueue(r)' = 0..(Pushed(r)' - 1)
    <3>1. ~\E k \in Entries(r) : ~Unmerged(k)
      BY <1>3 DEF Safe, ProcessedIsClosed, Entries, Closed
    <3>2. ~\E v \in Workers : pc[v] = "push" /\ task[v].request = r
      BY <1>15 DEF Packagers
    <3>3. InQueue(r) = 0..(next - 1)
      BY <1>1, <1>6, <2>4, <3>1, <3>2 DEF Safe, Kept
    <3>4. InQueue(r)' = 0..(next - 1) \cup {next}
      BY <2>1, <3>3
    <3>5. Pushed(r)' - 1 = next
      BY <1>1, <1>6
    <3>6. \A i \in Nat : 0..(i - 1) \cup {i} = 0..i
      OBVIOUS
    <3> QED
      BY ONLY <1>1, <3>4, <3>5, <3>6
  <2>5. ASSUME NEW q \in 1..Last, replied[q] = 0
        PROVE  \/ InQueue(q)' = 0..(Pushed(q)' - 1)
               \/ \E k \in Entries(q)' : ~Unmerged(k)'
               \/ \E v \in Workers : pc'[v] = "push" /\ task'[v].request = q
    BY <2>3, <2>4, <2>5
  <2>6. replied' = replied
    BY <1>3 DEF history
  <2> QED
    BY <1>5, <2>5, <2>6 DEF Kept
<1> QED
  BY <1>11, <1>13, <1>14, <1>17, <1>18, <1>19, <1>20, <1>21, <1>22 DEF Safe

\* A new request: nothing of it is in the queue yet, and nobody works on it.
LEMMA ReceiveSafe ==
  ASSUME DistinctTicks = TRUE, TypeInv, Safe, NEW m \in Messages, ProcessOneRMes(m)
  PROVE  Safe'
<1>0. PICK r : r = Last + 1
  OBVIOUS
<1>1. /\ QueueTypes /\ RecvTypes /\ WorkerTypes /\ SenderTypes /\ Last \in Nat
      /\ scans \subseteq Requests \X Nat \X Types
  BY TypeParts DEF Parts, TypeInv, RecvTypes, HistoryTypes, Last
<1>2. /\ message' = Append(message, m) /\ next' = 0
      /\ Last > 0 => Complete(Last)
      /\ UNCHANGED <<queueVars, workerVars, senderVars, history>>
  BY DEF ProcessOneRMes
<1>3. trigger' = Append(trigger, Last + 1)
  BY DEF ProcessOneRMes
<1>4. Last' = Last + 1
  BY <1>1, <1>2 DEF Last, RecvTypes
<1>5. /\ \A q \in 1..Last : Complete(q) => Complete(q)'
      /\ \A t \in Task : Fits(t) => Fits(t)'
  BY Grows DEF Safe, Next
<1>6. ASSUME NEW q \in 1..Last PROVE Pushed(q)' = Pushed(q)
  <2>1. Complete(q)
    BY <1>1, <1>2 DEF Complete
  <2>2. message'[q] = message[q]
    BY <1>1, <1>2 DEF Last, RecvTypes
  <2>3. Pushed(q)' = Pieces(message[q])
    BY <1>1, <1>4, <2>2 DEF Pushed
  <2> QED
    BY <2>1, <2>3, PushedBound DEF Safe
<1>7. Pushed(r)' = 0
  BY <1>0, <1>1, <1>2, <1>4 DEF Pushed
<1>8. \A q : Entries(q)' = Entries(q) /\ InQueue(q)' = InQueue(q)
  BY <1>2 DEF Entries, InQueue, queueVars
<1>9. \A k : Unmerged(k)' = Unmerged(k)
  BY <1>2 DEF Unmerged, queueVars
<1>10. \A q \in 1..Last : Closed(q) => Closed(q)'
  BY <1>2, <1>5, <1>8 DEF Closed, queueVars
<1>11. \A k \in DOMAIN m_Tasks : m_Tasks[k] \in Task /\ m_Tasks[k].request \in 1..Last
  BY <1>1 DEF QueueTypes, Safe, AllFit, Fits
<1>12. /\ \A w \in Workers : pc[w] # "get" => task[w] \in Task /\ task[w].request \in 1..Last
       /\ \A s \in Senders : spc[s] # "take" => reply[s] \in Task /\ reply[s].request \in 1..Last
  BY <1>1 DEF WorkerTypes, SenderTypes, Safe, AllFit, Fits
<1>13. Numbered'
  <2>1. \A q \in 1..Last' : trigger'[q] = q
    BY <1>1, <1>3, <1>4 DEF Safe, Numbered, RecvTypes
  <2>2. message'[Last'] = m /\ Pieces(m) \in Nat
    BY <1>1, <1>2, <1>4, PiecesBound, QueueAssumption DEF Last, RecvTypes
  <2> QED
    BY <1>2, <2>1, <2>2 DEF Numbered
<1>14. AllFit'
  BY <1>1, <1>2, <1>5, <1>11, <1>12 DEF Safe, AllFit, queueVars, workerVars, senderVars
<1>15. OneEach' /\ Working'
  BY <1>2, <1>9 DEF Safe, OneEach, Working, Same, queueVars, workerVars
<1>16. ProcessedIsClosed'
  BY <1>2, <1>9, <1>10, <1>11 DEF Safe, ProcessedIsClosed, queueVars
<1>17. Advancing'
  BY <1>2, <1>5, <1>8, <1>12 DEF Safe, Advancing, queueVars, workerVars
<1>18. Packaging'
  <2>1. \A t : AsMerged(t)' = AsMerged(t)
    BY <1>2, <1>8 DEF AsMerged, queueVars
  <2> QED
    BY <1>2, <1>5, <1>10, <1>12, <2>1 DEF Safe, Packaging, workerVars
<1>19. Sending'
  BY <1>2, <1>10, <1>12 DEF Safe, Sending, senderVars, history
<1>20. Scanned'
  <2>1. \A x \in scans : x[1] \in 1..Last' /\ Pushed(x[1])' = Pushed(x[1])
    BY <1>1, <1>4, <1>6 DEF Safe, Scanned
  <2> QED
    BY <1>2, <1>8, <1>9, <2>1 DEF Safe, Scanned, queueVars, history
<1>21. Freed'
  BY <1>1, <1>2, <1>4, <1>10 DEF Safe, Freed, history
<1>22. Kept'
  <2>1. ASSUME NEW q \in 1..Last, replied[q] = 0
        PROVE  \/ InQueue(q)' = 0..(Pushed(q)' - 1)
               \/ \E k \in Entries(q)' : ~Unmerged(k)'
               \/ \E v \in Workers : pc'[v] = "push" /\ task'[v].request = q
    BY <1>2, <1>6, <1>8, <1>9, <2>1 DEF Safe, Kept, workerVars
  <2>2. InQueue(r)' = 0..(Pushed(r)' - 1)
    <3>1. Entries(r) = {}
      BY <1>0, <1>1, <1>11 DEF Entries
    <3>2. InQueue(r)' = {}
      BY <1>8, <3>1 DEF InQueue, Entries
    <3>3. \A n \in Int : n = 0 => 0..(n - 1) = {}
      OBVIOUS
    <3> QED
      BY ONLY <1>7, <3>2, <3>3
  <2>3. replied' = replied
    BY <1>2 DEF history
  <2>4. \A q \in 1..Last' : q \in 1..Last \/ q = r
    BY <1>0, <1>1, <1>4
  <2> QED
    BY <2>1, <2>2, <2>3, <2>4 DEF Kept
<1> QED
  BY <1>13, <1>14, <1>15, <1>16, <1>17, <1>18, <1>19, <1>20, <1>21, <1>22 DEF Safe

\* The reply timer takes a merged task: its request is closed.
LEMMA TakeSafe ==
  ASSUME TypeInv, Safe, NEW s \in Senders, GetAnFinishedImageProcessTask(s)
  PROVE  Safe'
<1>1. QueueTypes /\ SenderTypes
  BY TypeParts DEF Parts, TypeInv
<1>2. UNCHANGED <<m_Tasks, recvVars, workerVars, replied, scans, freed>>
  BY DEF GetAnFinishedImageProcessTask, queueVars, history
<1>3. /\ QueueSafe'
      /\ \A r : /\ Closed(r)' = Closed(r) /\ Complete(r)' = Complete(r)
                /\ Entries(r)' = Entries(r) /\ Pushed(r)' = Pushed(r)
                /\ InQueue(r)' = InQueue(r)
      /\ \A t : Fits(t)' = Fits(t)
      /\ \A k : Unmerged(k)' = Unmerged(k)
      /\ Last' = Last
  BY <1>2, QuietQueue
<1>4. PICK k \in DOMAIN m_Tasks : m_Tasks[k].state = "PROCESSED" /\ reply'[s] = m_Tasks[k]
  BY <1>1, FirstInState DEF GetAnFinishedImageProcessTask, SenderTypes
<1>5. Fits(reply'[s]) /\ Closed(reply'[s].request) /\ spc'[s] = "send"
  BY <1>1, <1>4 DEF Safe, AllFit, ProcessedIsClosed, Unmerged, SenderTypes,
                    GetAnFinishedImageProcessTask
<1>6. \A u \in Senders \ {s} : spc'[u] = spc[u] /\ reply'[u] = reply[u]
  BY <1>1 DEF GetAnFinishedImageProcessTask, SenderTypes
<1>7. AllFit'
  <2>1. \A u \in Senders : spc'[u] # "take" => Fits(reply'[u])
    BY <1>5, <1>6 DEF Safe, AllFit
  <2>2. \A w \in Workers : pc'[w] # "get" => Fits(task'[w])
    BY <1>2 DEF Safe, AllFit, workerVars
  <2> QED
    BY <1>2, <1>3, <2>1, <2>2 DEF Safe, AllFit
<1>8. Sending'
  <2>1. \A u \in Senders : spc'[u] # "take" =>
          /\ Closed(reply'[u].request)
          /\ spc'[u] = "delete" => replied[reply'[u].request] > 0
    BY <1>5, <1>6 DEF Safe, Sending
  <2> QED
    BY <1>2, <1>3, <2>1 DEF Sending
<1>9. Working' /\ Advancing'
  BY <1>2, <1>3 DEF Safe, Working, Advancing, workerVars
<1>10. Packaging'
  <2>1. \A t : AsMerged(t)' = AsMerged(t)
    BY <1>2, <1>3 DEF AsMerged
  <2> QED
    BY <1>2, <1>3, <2>1 DEF Safe, Packaging, workerVars
<1>11. Scanned' /\ Freed' /\ Kept'
  BY <1>2, <1>3 DEF Safe, Scanned, Freed, Kept, workerVars
<1> QED
  BY <1>3, <1>7, <1>8, <1>9, <1>10, <1>11 DEF Safe, QueueSafe

\* Only a task that was sent at least once is going to be deleted.
LEMMA SendSafe ==
  ASSUME TypeInv, Safe, NEW s \in Senders, Send(s)
  PROVE  Safe'
<1>0. PICK r : r = reply[s].request
  OBVIOUS
<1>1. SenderTypes /\ HistoryTypes
  BY TypeParts DEF Parts, TypeInv
<1>2. UNCHANGED <<m_Tasks, recvVars, workerVars, scans, freed>>
  BY DEF Send, queueVars
<1>3. /\ QueueSafe'
      /\ \A q : /\ Closed(q)' = Closed(q) /\ Complete(q)' = Complete(q)
                /\ Entries(q)' = Entries(q) /\ Pushed(q)' = Pushed(q)
                /\ InQueue(q)' = InQueue(q)
      /\ \A t : Fits(t)' = Fits(t)
      /\ \A k : Unmerged(k)' = Unmerged(k)
      /\ Last' = Last
  BY <1>2, QuietQueue
<1>4. spc[s] = "send" /\ Fits(reply[s]) /\ Closed(r) /\ reply[s] \in Task /\ r \in Requests
  BY <1>0, <1>1 DEF Send, Safe, AllFit, Sending, SenderTypes, Task
<1>5. PICK sent, error \in BOOLEAN :
        /\ ~sent => error
        /\ replied' = [replied EXCEPT ![r] = IF sent THEN @ + 1 ELSE @]
        /\ spc' = [spc EXCEPT ![s] = IF error THEN "take" ELSE "delete"]
        /\ reply' = [reply EXCEPT ![s] = IF error THEN NoTask ELSE @]
  BY <1>0 DEF Send
<1>6. /\ \A q \in Requests : replied'[q] \in Nat /\ replied'[q] >= replied[q]
      /\ sent => replied'[r] > 0
  BY <1>1, <1>4, <1>5 DEF HistoryTypes
<1>7. \A u \in Senders \ {s} : spc'[u] = spc[u] /\ reply'[u] = reply[u]
  BY <1>1, <1>5 DEF SenderTypes
<1>8. spc'[s] # "take" => spc'[s] = "delete" /\ reply'[s] = reply[s] /\ sent
  BY <1>1, <1>5 DEF SenderTypes
<1>9. AllFit'
  <2>1. \A u \in Senders : spc'[u] # "take" => Fits(reply'[u])
    BY <1>4, <1>7, <1>8 DEF Safe, AllFit
  <2>2. \A w \in Workers : pc'[w] # "get" => Fits(task'[w])
    BY <1>2 DEF Safe, AllFit, workerVars
  <2> QED
    BY <1>2, <1>3, <2>1, <2>2 DEF Safe, AllFit
<1>10. Sending'
  <2>1. ASSUME NEW u \in Senders, spc'[u] # "take"
        PROVE  /\ Closed(reply'[u].request)
               /\ spc'[u] = "delete" => replied'[reply'[u].request] > 0
    <3>1. CASE u = s
      BY <1>0, <1>4, <1>6, <1>8, <2>1, <3>1
    <3>2. CASE u # s
      <4>1. spc'[u] = spc[u] /\ reply'[u] = reply[u] /\ reply[u] \in Task
        BY <1>1, <1>7, <2>1, <3>2 DEF SenderTypes
      <4>2. reply[u].request \in Requests
        BY <4>1 DEF Task
      <4>3. /\ Closed(reply[u].request)
            /\ spc[u] = "delete" => replied[reply[u].request] > 0
        BY <2>1, <4>1 DEF Safe, Sending
      <4>4. replied[reply[u].request] \in Nat
        BY <1>1, <4>2 DEF HistoryTypes
      <4> QED
        BY <1>6, <4>1, <4>2, <4>3, <4>4
    <3> QED
      BY <3>1, <3>2
  <2> QED
    BY <1>3, <2>1 DEF Sending
<1>11. Working' /\ Advancing'
  BY <1>2, <1>3 DEF Safe, Working, Advancing, workerVars
<1>12. Packaging'
  <2>1. \A t : AsMerged(t)' = AsMerged(t)
    BY <1>2, <1>3 DEF AsMerged
  <2> QED
    BY <1>2, <1>3, <2>1 DEF Safe, Packaging, workerVars
<1>13. Scanned' /\ Freed'
  BY <1>2, <1>3 DEF Safe, Scanned, Freed
<1>14. Kept'
  <2>1. ASSUME NEW q \in 1..Last, replied'[q] = 0 PROVE replied[q] = 0
    <3>1. RecvTypes /\ Last \in Nat
      BY TypeParts DEF Parts, TypeInv, RecvTypes, Last
    <3>2. q \in Requests
      BY <3>1, QueueAssumption DEF RecvTypes, Requests, QueueAssumption
    <3>3. replied[q] \in Nat
      BY <1>1, <3>2 DEF HistoryTypes
    <3> QED
      BY <1>6, <2>1, <3>2, <3>3
  <2> QED
    BY <1>2, <1>3, <2>1 DEF Safe, Kept, workerVars
<1> QED
  BY <1>3, <1>9, <1>10, <1>11, <1>12, <1>13, <1>14 DEF Safe, QueueSafe

\* Deleting a task that was answered.
LEMMA AnsweredSafe ==
  ASSUME TypeInv, Safe, NEW s \in Senders, DelAnAnsweredTask(s)
  PROVE  Safe'
<1>0. PICK r : r = reply[s].request
  OBVIOUS
<1>1. QueueTypes /\ SenderTypes /\ HistoryTypes
  BY TypeParts DEF Parts, TypeInv
<1>2. spc[s] = "delete" /\ Fits(reply[s]) /\ Closed(r) /\ Complete(r) /\ replied[r] > 0
  BY <1>0, <1>1 DEF DelAnAnsweredTask, Safe, AllFit, Sending, Closed, SenderTypes
<1>3. ErasedOf(r)
  <2>1. Erase(reply[s].trigger) /\ reply[s].trigger = r
    BY <1>0, <1>2 DEF DelAnAnsweredTask, Fits
  <2>2. \A k \in DOMAIN m_Tasks : m_Tasks[k].trigger = m_Tasks[k].request
    BY DEF Safe, AllFit, Fits
  <2> QED
    BY <1>1, <2>1, <2>2, Erased DEF ErasedOf
<1>4. \A k \in Entries(r) : m_Tasks[k].state # "PROCESSING"
  BY <1>2 DEF Closed
<1>5. /\ spc'[s] = "take" /\ \A u \in Senders \ {s} : spc'[u] = spc[u] /\ reply'[u] = reply[u]
      /\ UNCHANGED <<recvVars, workerVars, replied, scans, freed>>
  BY <1>1 DEF DelAnAnsweredTask, SenderTypes, history
<1>6. /\ QueueSafe'
      /\ \A q : /\ Closed(q) => Closed(q)'
                /\ Pushed(q)' = Pushed(q)
                /\ q # r => Entries(q)' = Entries(q) /\ InQueue(q)' = InQueue(q)
      /\ \A u : Fits(u)' = Fits(u)
      /\ \A k \in DOMAIN m_Tasks' : Unmerged(k)' = Unmerged(k)
      /\ Last' = Last
  BY <1>2, <1>3, <1>5, ErasedQueue
<1>7. Working' /\ Advancing' /\ Packaging' /\ Scanned' /\ Freed'
  <2>1. UNCHANGED <<pc, task, mats, scans, freed>> /\ UNCHANGED recvVars
    BY <1>5 DEF workerVars
  <2>2. \A v \in Workers :
          \/ pc'[v] = pc[v]
          \/ pc'[v] = "push" /\ pc[v] = "delete" /\ task[v].request = r
    BY <2>1
  <2>3. UNCHANGED <<task, mats, scans, freed>>
    BY <2>1
  <2> QED
    BY ONLY Safe, <1>2, <1>3, <1>4, <2>1, <2>2, <2>3, ErasedOthers
<1>8. AllFit' /\ Sending'
  <2>1. \A u \in Senders : spc'[u] # "take" =>
          u # s /\ spc[u] = spc'[u] /\ reply'[u] = reply[u]
    BY <1>5
  <2>2. AllFit'
    BY <1>5, <1>6, <2>1 DEF Safe, AllFit, QueueSafe, workerVars
  <2>3. Sending'
    BY <1>5, <1>6, <2>1 DEF Safe, Sending
  <2> QED
    BY <2>2, <2>3
<1>9. Kept'
  <2>1. ASSUME NEW q \in 1..Last, replied[q] = 0
        PROVE  \/ InQueue(q)' = 0..(Pushed(q)' - 1)
               \/ \E k \in Entries(q)' : ~Unmerged(k)'
               \/ \E v \in Workers : pc[v] = "push" /\ task[v].request = q
    <3>1. \A k \in Entries(q)' : k \in DOMAIN m_Tasks'
      BY DEF Entries
    <3>2. q # r
      BY <1>2, <2>1
    <3> QED
      BY <1>6, <2>1, <3>1, <3>2 DEF Safe, Kept
  <2> QED
    BY <1>5, <1>6, <2>1 DEF Kept, workerVars
<1> QED
  BY <1>6, <1>7, <1>8, <1>9 DEF Safe, QueueSafe

\* Every step keeps the invariant.
LEMMA StepSafe ==
  ASSUME DistinctTicks = TRUE, TypeInv, MayAdvance, Safe, [Next]_vars
  PROVE  Safe'
<1>1. ASSUME NEW m \in Messages, ProcessOneRMes(m) PROVE Safe'
  BY <1>1, ReceiveSafe
<1>2. CASE PushAnImageProcessTask
  BY <1>2, PushSafe
<1>3. ASSUME NEW w \in Workers, WorkerStep(w) PROVE Safe'
  BY <1>3, GetSafe, SkipSafe, FinishSafe, LeaveSafe, MergeSafe, AdvanceSafe, DeleteSafe,
     PackagedSafe DEF WorkerStep
<1>4. ASSUME NEW s \in Senders, SenderStep(s) PROVE Safe'
  BY <1>4, TakeSafe, SendSafe, AnsweredSafe DEF SenderStep
<1>5. CASE Disconnected \/ Connected \/ UNCHANGED vars
  BY <1>5, QuietSafe DEF Disconnected, Connected, vars, history
<1> QED
  BY <1>1, <1>2, <1>3, <1>4, <1>5 DEF Next

\* The inductive invariant, when no two requests share a tick.
LEMMA Invariance == DistinctTicks = TRUE => (Spec => []IInv)
<1> SUFFICES ASSUME DistinctTicks = TRUE PROVE Spec => []IInv
  OBVIOUS
<1>1. Init => IInv
  BY InitTypes, InitSafe DEF Init, MayAdvance, IInv
<1>2. IInv /\ [Next]_vars => IInv'
  BY StepTypes, MayAdvanceStep, StepSafe DEF IInv
<1> QED
  BY <1>1, <1>2, PTL DEF Spec

(* While a picture is read without the lock, its task stays in the queue   *)
(* as the worker took it, and no other worker reads the same picture, as   *)
(* long as no two requests are received on one tick.                       *)
THEOREM WorkIsExclusive == DistinctTicks = TRUE => (Spec => []ExclusiveWork)
<1> SUFFICES ASSUME DistinctTicks = TRUE PROVE Spec => []ExclusiveWork
  OBVIOUS
<1>1. IInv => ExclusiveWork
  <2> SUFFICES ASSUME IInv, NEW w \in Workers, pc[w] = "work"
               PROVE  /\ \E k \in DOMAIN m_Tasks : m_Tasks[k] = task[w]
                      /\ \A v \in Workers \ {w} : pc[v] = "work" => ~Same(task[v], task[w])
    BY DEF ExclusiveWork, Same
  <2> QED
    BY DEF IInv, Safe, Working
<1> QED
  BY <1>1, Invariance, PTL

(* No picture is read twice for one type, although several workers may     *)
(* find the same request complete and move it to the next type.            *)
THEOREM NothingScannedTwice == DistinctTicks = TRUE => (Spec => []ScannedOnce)
<1> SUFFICES ASSUME DistinctTicks = TRUE PROVE Spec => []ScannedOnce
  OBVIOUS
<1>1. IInv => ScannedOnce
  <2> SUFFICES ASSUME IInv, NEW w \in Workers, pc[w] = "work",
                      <<task[w].request, task[w].index, task[w].type>> \in scans
               PROVE  FALSE
    BY DEF ScannedOnce
  <2>1. PICK k \in DOMAIN m_Tasks : m_Tasks[k] = task[w] /\ task[w].state = "PROCESSING"
    BY DEF IInv, Safe, Working
  <2>2. k \in Entries(task[w].request) /\ Unmerged(k)
    BY <2>1 DEF Entries, Unmerged
  <2>3. Rank(task[w].type) < Rank(task[w].type)
    BY <2>1, <2>2 DEF IInv, Safe, Scanned
  <2>4. task[w].type \in Types
    BY TypeParts DEF IInv, TypeInv, Parts, WorkerTypes, Task
  <2>5. Rank(task[w].type) \in Nat
    BY <2>4, RankOrder
  <2> QED
    BY <2>3, <2>5
<1> QED
  BY <1>1, Invariance, PTL

(* A request that is not answered yet is never lost: not between the       *)
(* deletion of its pictures and the push of the merged task, not when two  *)
(* workers merge it, and not when the reply cannot be sent.                *)
THEOREM RequestsStay == DistinctTicks = TRUE => (Spec => []NoRequestLost)
<1> SUFFICES ASSUME DistinctTicks = TRUE PROVE Spec => []NoRequestLost
  OBVIOUS
<1>1. IInv => NoRequestLost
  <2> SUFFICES ASSUME IInv, NEW r \in 1..Last, Complete(r), replied[r] = 0
               PROVE  \/ InQueue(r) = 0..(Pieces(message[r]) - 1)
                      \/ \E k \in InState("PROCESSED") : m_Tasks[k].request = r
                      \/ \E w \in Workers : pc[w] = "push" /\ task[w].request = r
    BY DEF NoRequestLost
  <2>1. Pushed(r) = Pieces(message[r])
    BY PushedBound DEF IInv, Safe
  <2>2. \A k \in Entries(r) : ~Unmerged(k) => k \in InState("PROCESSED") /\ m_Tasks[k].request = r
    BY DEF Entries, Unmerged, InState
  <2> QED
    BY <2>1, <2>2 DEF IInv, Safe, Kept
<1> QED
  BY <1>1, Invariance, PTL

(* No picture is freed while a task that still needs it has it, whichever  *)
(* of the workers that merged the request frees it first.                  *)
THEOREM NoPictureFreedEarly == DistinctTicks = TRUE => (Spec => []PicturesAlive)
<1> SUFFICES ASSUME DistinctTicks = TRUE PROVE Spec => []PicturesAlive
  OBVIOUS
<1>1. IInv => PicturesAlive
  <2> SUFFICES ASSUME IInv, NEW k \in DOMAIN m_Tasks, m_Tasks[k].state # "PROCESSED",
                      <<m_Tasks[k].request, m_Tasks[k].index>> \in freed
               PROVE  FALSE
    BY DEF PicturesAlive
  <2>1. Closed(m_Tasks[k].request)
    BY DEF IInv, Safe, Freed
  <2>2. k \in Entries(m_Tasks[k].request)
    BY DEF Entries
  <2> QED
    BY <2>1, <2>2 DEF Closed
<1> QED
  BY <1>1, Invariance, PTL
=============================================================================
