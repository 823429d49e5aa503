------------------------ MODULE ImgprcQueueReplies --------------------------
(***************************************************************************)
(* Theorems about what the phase-1 program replies: that a reply tells     *)
(* what was read on all of the pictures of its request, and how many       *)
(* replies a request can get.  Like the theorems of ImgprcQueueProofs they *)
(* hold for every number of workers, callbacks, requests and pictures, as  *)
(* long as no two requests are received on one tick.                       *)
(***************************************************************************)
EXTENDS ImgprcQueueProofs

-----------------------------------------------------------------------------
(* What is replied.                                                        *)

\* The codes of request r among those read.
ReadOf(r, read) == {x[2] : x \in {y \in read : y[1] = r}}

\* What is known of a task that is not merged yet. While it is worked on it has no code;
\* when it waits, it has those of its own picture, which was scanned for its type.
AsRead(t, scanned) ==
  /\ t.state # "WAIT_PACKAGE" => t.codes = {}
  /\ t.state = "WAIT_PACKAGE" => <<t.request, t.index, t.type>> \in scanned
  /\ IsFiniteSet(t.codes)
  /\ \A c \in t.codes : c[1] = t.index
  /\ t.at \in {0, t.index}
  /\ t.total # 1 => t.path

EntriesRead == \A k \in DOMAIN m_Tasks : Unmerged(k) => AsRead(m_Tasks[k], scans)

\* The queue has every code read of a request, until the request is merged.
Collected ==
  /\ \A x \in reads : x[1] \in 1..Last
  /\ \A r \in 1..Last :
       Closed(r) \/ ReadOf(r, reads) = UNION {m_Tasks[k].codes : k \in Entries(r)}

\* The pictures of a request stand in the queue in their order.
InOrder ==
  \A j, k \in DOMAIN m_Tasks :
    /\ Unmerged(j) /\ Unmerged(k)
    /\ m_Tasks[j].request = m_Tasks[k].request /\ m_Tasks[j].index < m_Tasks[k].index
    => j < k

\* Reports, of any task and for any history.
Tells(t, read, scanned) ==
  /\ t.codes = ReadOf(t.request, read)
  /\ \A i \in 0..(t.total - 1) : t.path => <<t.request, i, t.type>> \in scanned
  /\ (t.result = "OK" <=> Cardinality(t.codes) = 1)
  /\ (t.result = "MUL_POSTCODE" <=> Cardinality(t.codes) > 1)
  /\ (t.at > 0 => \E c \in t.codes : c[1] = t.at - 1)

\* What is merged tells what was read, in the queue and on its way there.
Packagings == {"delete", "push"}

Reported ==
  /\ \A k \in DOMAIN m_Tasks : ~Unmerged(k) => Tells(m_Tasks[k], reads, scans)
  /\ \A w \in Workers : pc[w] \in Packagings => Tells(task[w], reads, scans)

\* All of it; with IInv, the inductive invariant.
ReadSafe == EntriesRead /\ Collected /\ InOrder /\ Reported

\* The reports of the model are those.
LEMMA ReportsTell == \A t : Reports(t) <=> Tells(t, reads, scans)
BY DEF Reports, Tells, ReadOf

\* A report stays true as long as nothing more is read of its request.
LEMMA TellsStill ==
  ASSUME NEW t, NEW read, NEW more, NEW scanned, NEW since,
         Tells(t, read, scanned), ReadOf(t.request, more) = ReadOf(t.request, read),
         scanned \subseteq since
  PROVE  Tells(t, more, since)
BY DEF Tells

\* What a task has read stays read.
LEMMA AsReadStill ==
  ASSUME NEW t, NEW scanned, NEW since, AsRead(t, scanned), scanned \subseteq since
  PROVE  AsRead(t, since)
BY DEF AsRead

\* A finite set of codes and its result.
LEMMA ResultOfCodes ==
  ASSUME NEW codes, IsFiniteSet(codes)
  PROVE  /\ ResultOf(codes) = "OK" <=> Cardinality(codes) = 1
         /\ ResultOf(codes) = "MUL_POSTCODE" <=> Cardinality(codes) > 1
         /\ codes = {} => Cardinality(codes) = 0
<1>1. Cardinality(codes) \in Nat /\ (Cardinality(codes) = 0 <=> codes = {})
  BY FS_CardinalityType, FS_EmptySet
<1> QED
  BY <1>1 DEF ResultOf

\* A request of one picture has one task in the queue.
LEMMA Alone ==
  ASSUME TypeInv, Safe, NEW p \in DOMAIN m_Tasks, Unmerged(p), m_Tasks[p].total = 1
  PROVE  Entries(m_Tasks[p].request) = {p} /\ m_Tasks[p].index = 0
<1>1. PICK r : r = m_Tasks[p].request
  OBVIOUS
<1>2. Fits(m_Tasks[p]) /\ r \in 1..Last /\ message[r].images = 1
  BY <1>1 DEF Safe, AllFit, Fits
<1>3. Pushed(r) \in Nat /\ Pushed(r) <= 1
  BY <1>2, PushedBound DEF Safe
<1>4. ASSUME NEW k \in Entries(r) PROVE k \in DOMAIN m_Tasks /\ m_Tasks[k].index = 0
                                        /\ m_Tasks[k].request = r /\ Unmerged(k)
  <2>1. k \in DOMAIN m_Tasks /\ m_Tasks[k].request = r /\ m_Tasks[k] \in Task
    BY TypeParts DEF Parts, TypeInv, QueueTypes, Entries
  <2>2. m_Tasks[k].index \in Nat /\ m_Tasks[k].index < Pushed(r)
    BY <2>1 DEF Safe, AllFit, Fits, Task
  <2>3. ~Closed(r)
    BY <1>1 DEF Closed, Entries, Unmerged
  <2>4. Unmerged(k)
    BY <2>1, <2>3 DEF Safe, ProcessedIsClosed
  <2> QED
    BY <1>3, <2>1, <2>2, <2>4
<1>5. p \in Entries(r)
  BY <1>1 DEF Entries
<1>6. ASSUME NEW k \in Entries(r) PROVE k = p
  BY <1>4, <1>5 DEF Safe, OneEach, Same
<1> QED
  BY <1>1, <1>4, <1>5, <1>6

\* When as many pictures wait as the request has, every picture of it waits, and the
\* first of them stands first.
LEMMA AllWaiting ==
  ASSUME TypeInv, Safe, InOrder, NEW t \in Task, Fits(t), t.total > 0,
         Cardinality(WaitPackageTasks(t)) >= t.total
  PROVE  /\ IsFiniteSet(WaitPackageTasks(t))
         /\ \A i \in 0..(t.total - 1) : \E k \in WaitPackageTasks(t) : m_Tasks[k].index = i
         /\ m_Tasks[First(WaitPackageTasks(t))].index = 0
<1> DEFINE r == t.request
           ready == WaitPackageTasks(t)
           f == [k \in ready |-> m_Tasks[k].index]
           T == 0..(t.total - 1)
<1>1. QueueTypes /\ r \in 1..Last /\ t.total \in Nat /\ t.total = message[r].images
  BY TypeParts DEF Parts, TypeInv, Fits, Task
<1>2. ready = Entries(r) /\ ready # {} /\ Complete(r)
  BY AllReady
<1>3. \A k \in ready : /\ k \in DOMAIN m_Tasks /\ m_Tasks[k] \in Task /\ Fits(m_Tasks[k])
                       /\ Unmerged(k) /\ m_Tasks[k].request = r
  BY <1>1, <1>2 DEF WaitPackageTasks, Of, Unmerged, QueueTypes, Safe, AllFit, Entries
<1>4. Pushed(r) \in Nat /\ Pushed(r) <= t.total
  BY <1>1, PushedBound DEF Safe
<1> HIDE DEF ready
<1>5. f \in Injection(ready, T)
  <2>1. ASSUME NEW k \in ready PROVE m_Tasks[k].index \in T
    <3>1. m_Tasks[k].index \in Nat /\ m_Tasks[k].index < Pushed(r)
      BY <1>3 DEF Fits, Task
    <3> QED
      BY <1>1, <1>4, <3>1
  <2>2. ASSUME NEW j \in ready, NEW k \in ready, f[j] = f[k] PROVE j = k
    BY <1>3, <2>2 DEF Safe, OneEach, Same
  <2> QED
    BY <2>1, <2>2 DEF Injection, IsInjective
<1>6. IsFiniteSet(T) /\ Cardinality(T) = t.total
  <2>1. 0 \in Int /\ t.total - 1 \in Int
    BY <1>1
  <2>2. /\ IsFiniteSet(0..(t.total - 1))
        /\ Cardinality(0..(t.total - 1)) = IF 0 > t.total - 1 THEN 0 ELSE t.total - 1 - 0 + 1
    BY ONLY <2>1, FS_Interval
  <2> QED
    BY <1>1, <2>2
<1>7. \A i \in T : \E k \in ready : m_Tasks[k].index = i
  <2> HIDE DEF T, f
  <2>1. IsFiniteSet(ready) /\ Cardinality(ready) <= Cardinality(T)
        /\ (Cardinality(ready) = Cardinality(T) <=> f \in Surjection(ready, T))
    BY <1>5, <1>6, FS_Injection
  <2>2. Cardinality(ready) \in Nat /\ Cardinality(ready) >= t.total
    BY <2>1, FS_CardinalityType DEF ready
  <2>3. f \in Surjection(ready, T)
    BY <1>1, <1>6, <2>1, <2>2
  <2>4. \A i \in T : \E k \in ready : f[k] = i
    BY <2>3 DEF Surjection
  <2> QED
    BY <2>4 DEF f
<1>8. IsFiniteSet(ready)
  <2> HIDE DEF T, f
  <2> QED
    BY <1>5, <1>6, FS_Injection
<1>9. First(ready) \in ready /\ \A k \in ready : First(ready) <= k
  <2>1. ready \in SUBSET Nat
    BY <1>1, <1>3 DEF QueueTypes
  <2> QED
    BY <1>2, <2>1, MinInSet DEF First
<1>10. m_Tasks[First(ready)].index = 0
  <2>1. PICK k \in ready : m_Tasks[k].index = 0
    BY <1>1, <1>7
  <2>2. m_Tasks[First(ready)].index \in Nat /\ k \in Nat /\ First(ready) \in Nat
    BY <1>1, <1>3, <1>9, <2>1 DEF QueueTypes, Task
  <2>3. ~(0 < m_Tasks[First(ready)].index)
    <3>1. ASSUME 0 < m_Tasks[First(ready)].index PROVE FALSE
      <4>1. k < First(ready)
        BY <1>3, <1>9, <2>1, <3>1 DEF InOrder
      <4>2. First(ready) <= k
        BY <1>9
      <4> QED
        BY <2>2, <4>1, <4>2
    <3> QED
      BY <3>1
  <2> QED
    BY <2>2, <2>3
<1> QED
  BY <1>7, <1>8, <1>10 DEF ready

\* Merging the pictures of a request gives a task that reports them.
LEMMA MergedTells ==
  ASSUME TypeInv, Safe, ReadSafe, NEW t \in Task, Fits(t), t.total > 0,
         Cardinality(WaitPackageTasks(t)) >= t.total,
         NEW merged, merged = MergeHomoTasks(Restrict(m_Tasks, WaitPackageTasks(t)))
  PROVE  Tells(merged, reads, scans)
<1> DEFINE ready == WaitPackageTasks(t)
           ts == Restrict(m_Tasks, ready)
           first == First(DOMAIN ts)
           others == DOMAIN ts \ {first}
           coded == {k \in others : ts[k].codes # {}}
           codes == UNION {ts[k].codes : k \in DOMAIN ts}
           at == IF coded = {} THEN ts[first].at ELSE ts[Max(coded)].index + 1
           result == IF codes = {} /\ \E k \in others : ts[k].result = "NO_IMAGE"
                     THEN "NO_IMAGE" ELSE ResultOf(codes)
<1>1. QueueTypes /\ t.total \in Nat
  BY TypeParts DEF Parts, TypeInv, Task
<1>2. /\ ready = Entries(t.request) /\ ready # {} /\ IsFiniteSet(ready)
      /\ \A i \in 0..(t.total - 1) : \E k \in ready : m_Tasks[k].index = i
      /\ m_Tasks[First(ready)].index = 0
  BY AllReady, AllWaiting DEF ReadSafe
<1>3. \A k \in ready : /\ k \in DOMAIN m_Tasks /\ m_Tasks[k] \in Task /\ Fits(m_Tasks[k])
                       /\ m_Tasks[k].state = "WAIT_PACKAGE" /\ m_Tasks[k].type = t.type
                       /\ AsRead(m_Tasks[k], scans) /\ m_Tasks[k].request = t.request
  BY <1>1, <1>2 DEF WaitPackageTasks, Of, Unmerged, QueueTypes, Safe, AllFit, Entries, ReadSafe,
                    EntriesRead
<1>4. \A k \in ready : m_Tasks[k].total = t.total
  BY <1>3 DEF Fits
<1> HIDE DEF ready
<1>5. DOMAIN ts = ready /\ \A k \in ready : ts[k] = m_Tasks[k]
  BY <1>3 DEF Restrict
<1>6. first \in ready /\ ts[first].index = 0
  <2>1. ready \in SUBSET DOMAIN m_Tasks
    BY <1>3
  <2> QED
    BY <1>1, <1>2, <1>5, <2>1, FirstIn
<1>7. merged = WithResults(ts[first], codes, at, result)
  BY DEF MergeHomoTasks, WithResults, ready
<1>8. codes = ReadOf(t.request, reads)
  <2>1. ~Closed(t.request)
    BY <1>2, <1>3 DEF Closed
  <2>2. t.request \in 1..Last
    BY DEF Fits
  <2>3. codes = UNION {m_Tasks[k].codes : k \in ready}
    BY <1>5
  <2> QED
    BY <1>2, <2>1, <2>2, <2>3 DEF ReadSafe, Collected
<1>9. IsFiniteSet(codes)
  <2> DEFINE g == [k \in ready |-> ts[k].codes]
             C == {ts[k].codes : k \in ready}
  <2>1. g \in Surjection(ready, C)
    BY DEF Surjection
  <2>2. \A c \in C : IsFiniteSet(c)
    BY <1>3, <1>5 DEF AsRead
  <2>3. codes = UNION C
    BY <1>5
  <2> HIDE DEF C, g, codes
  <2>4. IsFiniteSet(C)
    BY <1>2, <2>1, FS_Surjection
  <2> QED
    BY <2>2, <2>3, <2>4, FS_UNION
<1>10. at > 0 => \E c \in codes : c[1] = at - 1
  <2>1. CASE coded = {}
    <3>1. m_Tasks[first].at \in {0, m_Tasks[first].index}
      BY <1>3, <1>6 DEF AsRead
    <3>2. at = m_Tasks[first].at /\ m_Tasks[first].index = 0
      BY <1>5, <1>6, <2>1
    <3> HIDE DEF at, codes, first
    <3> QED
      BY <3>1, <3>2
  <2>2. CASE coded # {}
    <3>1. coded \in SUBSET (1..pushed) /\ pushed \in Nat /\ coded \subseteq ready
      BY <1>1, <1>3, <1>5 DEF QueueTypes
    <3>2. Max(coded) \in coded
      <4> HIDE DEF coded
      <4> QED
        BY <2>2, <3>1, MaxInSet
    <3>3. PICK k \in ready : k = Max(coded) /\ ts[k].codes # {}
      BY <3>1, <3>2
    <3>4. PICK c \in ts[k].codes : TRUE
      BY <3>3
    <3>5. c \in codes /\ c[1] = ts[k].index
      <4>1. c \in codes
        BY <1>5, <3>3, <3>4
      <4>2. AsRead(m_Tasks[k], scans) /\ c \in m_Tasks[k].codes /\ ts[k] = m_Tasks[k]
        <5> HIDE DEF ts
        <5> QED
          BY <1>3, <1>5, <3>3, <3>4
      <4> HIDE DEF codes, ts
      <4> QED
        BY <4>1, <4>2 DEF AsRead
    <3>6. ts[k].index \in Nat
      BY <1>3, <1>5, <3>3 DEF Task
    <3>7. at = ts[k].index + 1
      BY <2>2, <3>3
    <3> HIDE DEF at, codes
    <3> QED
      BY <3>5, <3>6, <3>7
  <2> QED
    BY <2>1, <2>2
<1>11. /\ result = "OK" <=> Cardinality(codes) = 1
       /\ result = "MUL_POSTCODE" <=> Cardinality(codes) > 1
  <2>1. /\ ResultOf(codes) = "OK" <=> Cardinality(codes) = 1
        /\ ResultOf(codes) = "MUL_POSTCODE" <=> Cardinality(codes) > 1
        /\ codes = {} => Cardinality(codes) = 0
    <3> HIDE DEF codes
    <3> QED
      BY <1>9, ResultOfCodes
  <2> HIDE DEF codes
  <2> QED
    BY <2>1
<1>12. /\ merged.codes = codes /\ merged.at = at /\ merged.result = result
       /\ merged.request = t.request /\ merged.type = t.type /\ merged.total = t.total
  <2>1. ts[first] \in Task /\ ts[first].request = t.request /\ ts[first].type = t.type
        /\ ts[first].total = t.total
    BY <1>3, <1>4, <1>5, <1>6
  <2> HIDE DEF ts, first, codes, at, result
  <2> QED
    BY <1>7, <2>1 DEF WithResults, Task
<1>13. \A i \in 0..(t.total - 1) : <<t.request, i, t.type>> \in scans
  <2>1. \A k \in ready : <<t.request, m_Tasks[k].index, t.type>> \in scans
    <3> SUFFICES ASSUME NEW k \in ready PROVE <<t.request, m_Tasks[k].index, t.type>> \in scans
      OBVIOUS
    <3>1. AsRead(m_Tasks[k], scans) /\ m_Tasks[k].state = "WAIT_PACKAGE"
          /\ m_Tasks[k].request = t.request /\ m_Tasks[k].type = t.type
      BY <1>3
    <3> QED
      BY <3>1 DEF AsRead
  <2> HIDE DEF ts, first, others, coded, codes, at, result
  <2> QED
    BY <1>2, <2>1
<1> HIDE DEF ts, first, others, coded, codes, at, result
<1> QED
  BY <1>8, <1>10, <1>11, <1>12, <1>13 DEF Tells

\* A worker that packages has what it had, or has just merged it.
KeepsReports ==
  \A v \in Workers : pc'[v] \in Packagings =>
    \/ pc[v] \in Packagings /\ task'[v] = task[v]
    \/ Tells(task'[v], reads, scans)

\* A step that leaves the queue and the pictures alone.
LEMMA QuietReads ==
  ASSUME Safe, ReadSafe, UNCHANGED <<m_Tasks, recvVars, reads, scans>>, KeepsReports
  PROVE  ReadSafe'
<1>1. /\ \A r : Closed(r)' = Closed(r) /\ Entries(r)' = Entries(r)
      /\ \A k : Unmerged(k)' = Unmerged(k)
      /\ Last' = Last
  BY QuietQueue
<1>2. reads' = reads /\ scans' = scans
  OBVIOUS
<1>3. EntriesRead' /\ InOrder'
  BY <1>1, <1>2 DEF ReadSafe, EntriesRead, InOrder
<1>4. Collected'
  BY <1>1, <1>2 DEF ReadSafe, Collected
<1>5. Reported'
  <2>1. \A k \in DOMAIN m_Tasks' : ~Unmerged(k)' => Tells(m_Tasks'[k], reads', scans')
    BY <1>1, <1>2 DEF ReadSafe, Reported
  <2>2. \A v \in Workers : pc'[v] \in Packagings => Tells(task'[v], reads', scans')
    BY <1>2 DEF ReadSafe, Reported, KeepsReports
  <2> QED
    BY <2>1, <2>2 DEF Reported
<1> QED
  BY <1>3, <1>4, <1>5 DEF ReadSafe

\* Reading more codes of request r.
ReadPlus(read, r, codes) == read \cup {<<r, c>> : c \in codes}

\* What a worker has read is read of its request alone.
LEMMA ReadMore ==
  ASSUME NEW read, NEW r, NEW codes, NEW more, more = ReadPlus(read, r, codes)
  PROVE  /\ \A q : q # r => ReadOf(q, more) = ReadOf(q, read)
         /\ ReadOf(r, more) = ReadOf(r, read) \cup codes
<1> DEFINE N == {<<r, c>> : c \in codes}
           M == {x[2] : x \in N}
<1>1. ASSUME NEW q, q # r PROVE ReadOf(q, more) = ReadOf(q, read)
  <2>1. {y \in more : y[1] = q} = {y \in read : y[1] = q}
    BY <1>1 DEF ReadPlus
  <2> QED
    BY <2>1 DEF ReadOf
<1>2. {y \in more : y[1] = r} = {y \in read : y[1] = r} \cup N
  BY DEF ReadPlus
<1>3. M = codes
  <2>1. \A x \in N : x[2] \in codes
    OBVIOUS
  <2>2. ASSUME NEW c \in codes PROVE c \in M
    <3>1. <<r, c>> \in N /\ <<r, c>>[2] = c
      OBVIOUS
    <3> HIDE DEF N
    <3> QED
      BY ONLY <3>1
  <2> HIDE DEF N
  <2> QED
    BY <2>1, <2>2
<1>4. ReadOf(r, more) = ReadOf(r, read) \cup codes
  <2> HIDE DEF N
  <2> QED
    BY <1>2, <1>3 DEF ReadOf
<1> QED
  BY <1>1, <1>4

\* A worker takes or finishes the task of a picture: what it read joins the codes of the
\* request, which was not merged before.
LEMMA OneChangedReads ==
  ASSUME TypeInv, Safe, ReadSafe, UNCHANGED recvVars, NEW p, NEW t, OneChanged(p, t),
         m_Tasks[p].state \in {"UNPROCESS", "PROCESSING"},
         t.state = "PROCESSED" => t.total = 1,
         reads' = ReadPlus(reads, t.request, t.codes),
         scans \subseteq scans',
         t.state # "PROCESSED" => AsRead(t, scans'),
         t.state = "PROCESSED" => Tells(t, reads', scans'),
         \A v \in Workers : pc'[v] \in Packagings => pc[v] \in Packagings /\ task'[v] = task[v]
  PROVE  ReadSafe'
<1>0. PICK r : r = t.request
  OBVIOUS
<1>1. /\ p \in DOMAIN m_Tasks /\ DOMAIN m_Tasks' = DOMAIN m_Tasks /\ m_Tasks'[p] = t
      /\ \A k \in DOMAIN m_Tasks \ {p} : m_Tasks'[k] = m_Tasks[k]
      /\ m_Tasks[p].request = r /\ t.index = m_Tasks[p].index /\ t.request = r
  BY <1>0 DEF OneChanged
<1>2. Unmerged(p) /\ ~Closed(r) /\ p \in Entries(r)
  BY <1>1 DEF Unmerged, Closed, Entries
<1>3. m_Tasks[p].codes = {}
  BY <1>1, <1>2 DEF ReadSafe, EntriesRead, AsRead
<1>4. /\ \A q : Closed(q) => Closed(q)'
      /\ \A q : Entries(q)' = Entries(q)
      /\ Last' = Last
  BY <1>2, OneChangedQueue
<1>5. \A k \in DOMAIN m_Tasks \ {p} : Unmerged(k)' = Unmerged(k)
  BY <1>1 DEF Unmerged
<1>6. /\ \A q : q # r => ReadOf(q, reads') = ReadOf(q, reads)
      /\ ReadOf(r, reads') = ReadOf(r, reads) \cup t.codes
  BY <1>0, ReadMore
<1>8. \A u : Tells(u, reads, scans) /\ u.request # r => Tells(u, reads', scans')
  BY <1>6, TellsStill
<1>9. EntriesRead'
  <2> SUFFICES ASSUME NEW k \in DOMAIN m_Tasks, Unmerged(k)' PROVE AsRead(m_Tasks'[k], scans')
    BY <1>1 DEF EntriesRead
  <2>1. CASE k = p
    BY <1>1, <2>1 DEF Unmerged
  <2>2. CASE k # p
    BY <1>1, <1>5, <2>2, AsReadStill DEF ReadSafe, EntriesRead
  <2> QED
    BY <2>1, <2>2
<1>10. Collected'
  <2>1. r \in 1..Last
    BY <1>1 DEF Safe, AllFit, Fits
  <2>2. \A x \in reads' : x[1] \in 1..Last
    BY <1>0, <2>1 DEF ReadSafe, Collected, ReadPlus
  <2>3. ASSUME NEW q \in 1..Last, ~Closed(q)', q # r
        PROVE  ReadOf(q, reads') = UNION {m_Tasks'[k].codes : k \in Entries(q)}
    <3>1. \A k \in Entries(q) : m_Tasks'[k] = m_Tasks[k]
      BY <1>1, <2>3 DEF Entries
    <3>2. {m_Tasks'[k].codes : k \in Entries(q)} = {m_Tasks[k].codes : k \in Entries(q)}
      BY <3>1
    <3> QED
      BY <1>4, <1>6, <2>3, <3>2 DEF ReadSafe, Collected
  <2>4. ReadOf(r, reads') = UNION {m_Tasks'[k].codes : k \in Entries(r)}
    <3>1. ReadOf(r, reads) = UNION {m_Tasks[k].codes : k \in Entries(r)}
      BY <1>2, <2>1 DEF ReadSafe, Collected
    <3>2. \A k \in Entries(r) : k # p => m_Tasks'[k].codes = m_Tasks[k].codes
      BY <1>1 DEF Entries
    <3>3. UNION {m_Tasks'[k].codes : k \in Entries(r)}
            = (UNION {m_Tasks[k].codes : k \in Entries(r)}) \cup t.codes
      BY <1>1, <1>2, <1>3, <3>2
    <3> QED
      BY <1>6, <3>1, <3>3
  <2> QED
    BY <1>4, <2>2, <2>3, <2>4 DEF Collected
<1>11. InOrder'
  <2>1. \A k \in DOMAIN m_Tasks : m_Tasks'[k].request = m_Tasks[k].request
                                  /\ m_Tasks'[k].index = m_Tasks[k].index
    BY <1>1
  <2>2. \A k \in DOMAIN m_Tasks : Unmerged(k)' => Unmerged(k)
    BY <1>2, <1>5
  <2> QED
    BY <1>1, <2>1, <2>2 DEF ReadSafe, InOrder
<1>12. Reported'
  <2>1. ASSUME NEW k \in DOMAIN m_Tasks, ~Unmerged(k)' PROVE Tells(m_Tasks'[k], reads', scans')
    <3>1. CASE k = p
      BY <1>1, <2>1, <3>1 DEF Unmerged
    <3>2. CASE k # p
      <4>1. ~Unmerged(k) /\ m_Tasks'[k] = m_Tasks[k]
        BY <1>1, <1>5, <2>1, <3>2
      <4>2. m_Tasks[k].request # r
        BY <1>2, <4>1 DEF Safe, ProcessedIsClosed
      <4>3. Tells(m_Tasks[k], reads, scans)
        BY <4>1 DEF ReadSafe, Reported
      <4> QED
        BY <1>8, <4>1, <4>2, <4>3
    <3> QED
      BY <3>1, <3>2
  <2>2. ASSUME NEW v \in Workers, pc'[v] \in Packagings PROVE Tells(task'[v], reads', scans')
    <3>1. pc[v] \in Packagings /\ task'[v] = task[v]
      BY <2>2
    <3>2. Closed(task[v].request) \/ AsMerged(task[v])
      BY <3>1 DEF Packagings, Safe, Packaging
    <3>3. task[v].request # r
      BY <1>2, <3>2 DEF AsMerged
    <3>4. Tells(task[v], reads, scans)
      BY <3>1 DEF ReadSafe, Reported
    <3> QED
      BY <1>8, <3>1, <3>3, <3>4
  <2> QED
    BY <1>1, <2>1, <2>2 DEF Reported
<1> QED
  BY <1>9, <1>10, <1>11, <1>12 DEF ReadSafe

\* A worker takes a task: nothing is read yet.
LEMMA GetReads ==
  ASSUME TypeInv, Safe, ReadSafe, NEW w \in Workers, GetAnImageProcessTask(w)
  PROVE  ReadSafe'
<1> DEFINE p == First(InState("UNPROCESS"))
           t == Restated(m_Tasks[p], "PROCESSING")
<1>1. QueueTypes /\ WorkerTypes
  BY TypeParts DEF Parts, TypeInv
<1>2. p \in DOMAIN m_Tasks /\ m_Tasks[p].state = "UNPROCESS" /\ m_Tasks[p] \in Task
  BY <1>1, FirstInState DEF GetAnImageProcessTask, QueueTypes
<1>3. /\ m_Tasks' = [m_Tasks EXCEPT ![p] = t]
      /\ pc' = [pc EXCEPT ![w] = "work"] /\ task' = [task EXCEPT ![w] = t]
      /\ UNCHANGED <<recvVars, reads, scans>>
  BY DEF GetAnImageProcessTask, Restated, history
<1>4. AsRead(m_Tasks[p], scans)
  BY <1>2 DEF ReadSafe, EntriesRead, Unmerged
<1>5. /\ t \in Task /\ t.state = "PROCESSING"
      /\ t.request = m_Tasks[p].request /\ t.trigger = m_Tasks[p].trigger
      /\ t.index = m_Tasks[p].index /\ t.total = m_Tasks[p].total /\ t.type = m_Tasks[p].type
      /\ t.codes = m_Tasks[p].codes
  BY <1>2, RestatedType
<1>6. t.at = m_Tasks[p].at /\ t.path = m_Tasks[p].path
  BY <1>2 DEF Task, Restated
<1> HIDE DEF p, t
<1>7. OneChanged(p, t)
  BY <1>2, <1>3, <1>5 DEF OneChanged
<1>8. AsRead(t, scans) /\ t.codes = {}
  BY <1>2, <1>4, <1>5, <1>6 DEF AsRead
<1>9. reads' = ReadPlus(reads, t.request, t.codes)
  BY <1>3, <1>8 DEF ReadPlus
<1>10. \A v \in Workers : pc'[v] \in Packagings => pc[v] \in Packagings /\ task'[v] = task[v]
  BY <1>1, <1>3 DEF WorkerTypes, Packagings
<1> QED
  BY <1>2, <1>3, <1>5, <1>7, <1>8, <1>9, <1>10, OneChangedReads

\* A task without a path is over: it tells that nothing was read.
LEMMA SkipReads ==
  ASSUME TypeInv, Safe, ReadSafe, NEW w \in Workers, SkipTask(w)
  PROVE  ReadSafe'
<1>0. PICK t : t = [task[w] EXCEPT !.result = "NO_IMAGE"]
  OBVIOUS
<1>1. WorkerTypes
  BY TypeParts DEF Parts, TypeInv
<1>2. task[w] \in Task /\ pc[w] = "work" /\ ~task[w].path
  BY <1>1 DEF SkipTask, WorkerTypes
<1>3. /\ t \in Task /\ Same(t, task[w]) /\ t.trigger = task[w].trigger
      /\ t.total = task[w].total /\ t.type = task[w].type
      /\ t.codes = task[w].codes /\ t.result = "NO_IMAGE" /\ t.at = task[w].at /\ ~t.path
  BY <1>0, <1>2 DEF Task, Results, Same
<1>4. TaskOver(t) /\ UNCHANGED <<recvVars, reads, scans>>
  BY <1>0 DEF SkipTask, history
<1>5. PICK p \in DOMAIN m_Tasks : m_Tasks[p] = task[w] /\ OneChanged(p, Over(t))
  BY <1>2, <1>3, <1>4, OwnTask
<1>6. m_Tasks[p].state = "PROCESSING" /\ Unmerged(p) /\ AsRead(m_Tasks[p], scans)
  BY <1>2, <1>5 DEF Safe, Working, Unmerged, ReadSafe, EntriesRead
<1>7. t.total = 1 /\ t.codes = {}
  BY <1>2, <1>3, <1>5, <1>6 DEF AsRead
<1>8. Entries(m_Tasks[p].request) = {p} /\ m_Tasks[p].index = 0
  BY <1>3, <1>5, <1>6, <1>7, Alone
<1>9. /\ Over(t).state = "PROCESSED" /\ Over(t).total = 1
      /\ Over(t).request = t.request /\ Over(t).codes = {}
      /\ Over(t).at = t.at /\ ~Over(t).path /\ Over(t).result = "NO_IMAGE"
  BY <1>3, <1>7, OverType DEF Over, Task
<1>10. ReadOf(t.request, reads) = {}
  <2>1. t.request = m_Tasks[p].request /\ t.request \in 1..Last
    BY <1>3, <1>5 DEF Same, Safe, AllFit, Fits
  <2>2. ~Closed(t.request)
    BY <1>6, <1>8, <2>1 DEF Closed, Unmerged
  <2>3. ReadOf(t.request, reads) = UNION {m_Tasks[k].codes : k \in {p}}
    BY <1>8, <2>1, <2>2 DEF ReadSafe, Collected
  <2> QED
    BY <1>3, <1>5, <1>7, <2>3
<1>11. Tells(Over(t), reads, scans)
  <2>1. t.at = 0
    BY <1>3, <1>5, <1>6, <1>8 DEF AsRead
  <2>2. Cardinality({}) = 0
    BY FS_EmptySet
  <2> QED
    BY <1>9, <1>10, <2>1, <2>2 DEF Tells
<1>12. reads' = ReadPlus(reads, Over(t).request, Over(t).codes)
  BY <1>4, <1>9 DEF ReadPlus
<1>13. \A v \in Workers : pc'[v] \in Packagings => pc[v] \in Packagings /\ task'[v] = task[v]
  BY <1>1 DEF SkipTask, Return, WorkerTypes, Packagings
<1> QED
  BY <1>4, <1>5, <1>6, <1>9, <1>11, <1>12, <1>13, OneChangedReads

\* What reading a picture makes of the results of its task.
LEMMA ProcessedResults ==
  ASSUME QueueAssumption, NEW t \in Task, t.codes = {}, t.at \in {0, t.index},
         NEW u \in Processed(t)
  PROVE  /\ IsFiniteSet(u.codes) /\ \A c \in u.codes : c[1] = u.index
         /\ u.index = t.index /\ u.path = t.path
         /\ u.at \in {0, t.index}
         /\ u.result = "OK" <=> Cardinality(u.codes) = 1
         /\ u.result = "MUL_POSTCODE" <=> Cardinality(u.codes) > 1
<1>1. CASE u = [t EXCEPT !.result = "NO_IMAGE"]
  <2>1. /\ u.codes = {} /\ u.index = t.index /\ u.path = t.path /\ u.at = t.at
        /\ u.result = "NO_IMAGE"
    BY <1>1 DEF Task
  <2> QED
    BY <2>1, FS_EmptySet
<1>2. ASSUME NEW found \in CodesFound(t),
             u = [t EXCEPT !.mat = TRUE, !.codes = @ \cup found, !.at = t.index,
                           !.result = ResultOf(t.codes \cup found)]
      PROVE  /\ IsFiniteSet(u.codes) /\ \A c \in u.codes : c[1] = u.index
             /\ u.index = t.index /\ u.path = t.path
             /\ u.at \in {0, t.index}
             /\ u.result = "OK" <=> Cardinality(u.codes) = 1
             /\ u.result = "MUL_POSTCODE" <=> Cardinality(u.codes) > 1
  <2>1. PICK n \in Nat : found = {<<t.index, t.type, j>> : j \in 1..n}
    BY DEF CodesFound, QueueAssumption
  <2>2. IsFiniteSet(found)
    <3> DEFINE f == [j \in 1..n |-> <<t.index, t.type, j>>]
    <3>1. f \in Surjection(1..n, found)
      BY <2>1 DEF Surjection
    <3>2. IsFiniteSet(1..n)
      BY FS_Interval
    <3> HIDE DEF f
    <3> QED
      BY <3>1, <3>2, FS_Surjection
  <2>3. \A c \in found : c[1] = t.index
    BY <2>1
  <2>4. t.codes \cup found = found
    OBVIOUS
  <2>5. /\ u.codes = found /\ u.index = t.index /\ u.path = t.path /\ u.at = t.index
        /\ u.result = ResultOf(found)
    <3> HIDE DEF Codes
    <3> QED
      BY <1>2, <2>4 DEF Task
  <2> QED
    BY <2>2, <2>3, <2>5, ResultOfCodes
<1> QED
  BY <1>1, <1>2 DEF Processed

\* A worker has finished a picture. The only one of its request is reported right away.
LEMMA FinishReads ==
  ASSUME TypeInv, Safe, ReadSafe, NEW w \in Workers, FinishTask(w)
  PROVE  ReadSafe'
<1>1. WorkerTypes
  BY TypeParts DEF Parts, TypeInv
<1>2. task[w] \in Task /\ pc[w] = "work"
  BY <1>1 DEF FinishTask, WorkerTypes
<1>3. PICK t \in Processed(task[w]) :
        /\ TaskOver(t)
        /\ reads' = ReadPlus(reads, t.request, t.codes)
        /\ IF t.total = 1
           THEN /\ Return(w)
                /\ freed' = freed \cup (IF t.mat THEN {<<t.request, t.index>>} ELSE {})
           ELSE /\ pc' = [pc EXCEPT ![w] = "collect"]
                /\ task' = [task EXCEPT ![w] = t]
                /\ UNCHANGED <<mats, freed>>
  BY DEF FinishTask, ReadPlus
<1>4. t \in Task /\ Same(t, task[w]) /\ t.trigger = task[w].trigger
      /\ t.total = task[w].total /\ t.type = task[w].type
  BY <1>2, QueueAssumption, ProcessedFields DEF Same
<1>5. PICK p \in DOMAIN m_Tasks : m_Tasks[p] = task[w] /\ OneChanged(p, Over(t))
  BY <1>2, <1>3, <1>4, OwnTask
<1>6. m_Tasks[p].state = "PROCESSING" /\ Unmerged(p) /\ AsRead(m_Tasks[p], scans)
  BY <1>2, <1>5 DEF Safe, Working, Unmerged, ReadSafe, EntriesRead
<1>7. /\ IsFiniteSet(t.codes) /\ \A c \in t.codes : c[1] = t.index
      /\ t.at \in {0, t.index} /\ t.path = m_Tasks[p].path
      /\ t.result = "OK" <=> Cardinality(t.codes) = 1
      /\ t.result = "MUL_POSTCODE" <=> Cardinality(t.codes) > 1
  <2>1. task[w].codes = {} /\ task[w].at \in {0, task[w].index}
    BY <1>5, <1>6 DEF AsRead
  <2>2. t.index = task[w].index
    BY <1>4 DEF Same
  <2> QED
    BY <1>2, <1>5, <2>1, <2>2, QueueAssumption, ProcessedResults
<1>8. scans' = scans \cup {<<t.request, t.index, t.type>>}
  BY <1>4 DEF FinishTask, Same
<1>9. UNCHANGED recvVars
  BY DEF FinishTask
<1>10. \A v \in Workers : pc'[v] \in Packagings => pc[v] \in Packagings /\ task'[v] = task[v]
  <2>1. CASE t.total = 1
    BY <1>1, <1>3, <2>1 DEF Return, WorkerTypes, Packagings
  <2>2. CASE t.total # 1
    BY <1>1, <1>3, <2>2 DEF WorkerTypes, Packagings
  <2> QED
    BY <2>1, <2>2
<1>11. /\ Over(t).request = t.request /\ Over(t).index = t.index /\ Over(t).type = t.type
       /\ Over(t).total = t.total /\ Over(t).codes = t.codes /\ Over(t).result = t.result
       /\ Over(t).at = t.at /\ Over(t).path = t.path
       /\ Over(t).state = (IF t.total = 1 THEN "PROCESSED" ELSE "WAIT_PACKAGE")
  BY <1>4, OverType DEF Over, Task
<1>12. ASSUME t.total # 1 PROVE AsRead(Over(t), scans')
  <2>1. t.path
    BY <1>4, <1>5, <1>6, <1>7, <1>12 DEF AsRead
  <2> QED
    BY <1>7, <1>8, <1>11, <1>12, <2>1 DEF AsRead
<1>13. ASSUME t.total = 1 PROVE Tells(Over(t), reads', scans')
  <2>1. Entries(m_Tasks[p].request) = {p} /\ m_Tasks[p].index = 0
    BY <1>4, <1>5, <1>6, <1>13, Alone
  <2>2. t.request = m_Tasks[p].request /\ t.request \in 1..Last /\ t.index = 0
    BY <1>4, <1>5, <2>1 DEF Same, Safe, AllFit, Fits
  <2>3. ~Closed(t.request)
    BY <1>6, <2>1, <2>2 DEF Closed, Unmerged
  <2>4. ReadOf(t.request, reads) = UNION {m_Tasks[k].codes : k \in {p}}
    BY <2>1, <2>2, <2>3 DEF ReadSafe, Collected
  <2>5. ReadOf(t.request, reads) = {}
    BY <1>6, <2>4 DEF AsRead
  <2>6. ReadOf(t.request, reads') = t.codes
    BY <1>3, <2>5, ReadMore
  <2>7. \A i \in 0..(t.total - 1) : i = t.index
    BY <1>13, <2>2
  <2>8. t.at = 0
    BY <1>7, <2>2
  <2> QED
    BY <1>7, <1>8, <1>11, <2>6, <2>7, <2>8 DEF Tells
<1> QED
  BY <1>3, <1>5, <1>6, <1>8, <1>9, <1>10, <1>11, <1>12, <1>13, OneChangedReads

\* A worker that leaves the packaging to others, and one that merges.
LEMMA MergeReads ==
  ASSUME TypeInv, Safe, ReadSafe, NEW w \in Workers, MergeTasks(w)
  PROVE  ReadSafe'
<1>0. PICK merged : merged = MergeHomoTasks(Restrict(m_Tasks, WaitPackageTasks(task[w])))
  OBVIOUS
<1>1. WorkerTypes
  BY TypeParts DEF Parts, TypeInv
<1>2. /\ task[w] \in Task /\ task[w].total > 0 /\ Fits(task[w])
      /\ Cardinality(WaitPackageTasks(task[w])) >= task[w].total
  BY <1>1 DEF MergeTasks, WorkerTypes, TypeInv, Counted, Safe, AllFit
<1>3. Tells(merged, reads, scans)
  BY <1>0, <1>2, MergedTells
<1>4. /\ UNCHANGED <<m_Tasks, recvVars, reads, scans>>
      /\ task' = [task EXCEPT ![w] = merged]
      /\ \A v \in Workers \ {w} : pc'[v] = pc[v]
  BY <1>0, <1>1 DEF MergeTasks, queueVars, history, WorkerTypes
<1>5. task'[w] = merged /\ \A v \in Workers \ {w} : task'[v] = task[v]
  BY <1>1, <1>4 DEF WorkerTypes
<1>6. KeepsReports
  BY <1>3, <1>4, <1>5 DEF KeepsReports
<1> QED
  BY <1>4, <1>6, QuietReads

\* The tasks that move to the next type have no codes, and are to be read.
LEMMA AdvanceReads ==
  ASSUME TypeInv, MayAdvance, Safe, ReadSafe, NEW w \in Workers, ChangeTasksProcessType(w)
  PROVE  ReadSafe'
<1>0. PICK by : by = task[w]
  OBVIOUS
<1>1. QueueTypes /\ WorkerTypes
  BY TypeParts DEF Parts, TypeInv
<1>2. /\ pc[w] = "advance" /\ by \in Task /\ Fits(by)
      /\ GetNextProcessType(by.type) # "OVER"
  BY <1>0, <1>1 DEF ChangeTasksProcessType, WorkerTypes, MayAdvance, Safe, AllFit
<1>3. /\ m_Tasks' = [k \in DOMAIN m_Tasks |-> Advanced(m_Tasks[k], by)]
      /\ Return(w) /\ UNCHANGED <<recvVars, reads, scans>>
  BY <1>0 DEF ChangeTasksProcessType, Advanced, history
<1>4. DOMAIN m_Tasks' = DOMAIN m_Tasks
      /\ \A k \in DOMAIN m_Tasks : m_Tasks'[k] = Advanced(m_Tasks[k], by)
  BY <1>3
<1>5. ASSUME NEW k \in DOMAIN m_Tasks
      PROVE  /\ m_Tasks'[k].request = m_Tasks[k].request
             /\ m_Tasks'[k].index = m_Tasks[k].index
             /\ m_Tasks'[k].codes = m_Tasks[k].codes
             /\ (Unmerged(k)' <=> Unmerged(k))
             /\ ~Unmerged(k) => m_Tasks'[k] = m_Tasks[k]
             /\ Unmerged(k) => AsRead(m_Tasks'[k], scans)
  <2>1. m_Tasks[k] \in Task /\ Fits(m_Tasks[k]) /\ m_Tasks'[k] = Advanced(m_Tasks[k], by)
    BY <1>1, <1>4 DEF QueueTypes, Safe, AllFit
  <2>2. CASE m_Tasks[k].trigger = by.trigger /\ m_Tasks[k].type = by.type
    <3>1. k \in Entries(by.request)
      BY <1>2, <2>1, <2>2 DEF Fits, Entries
    <3>2. m_Tasks[k].state = "WAIT_PACKAGE" /\ m_Tasks[k].codes = {}
      BY <1>0, <1>2, <2>2, <3>1 DEF Safe, Advancing
    <3>3. AsRead(m_Tasks[k], scans)
      BY <3>2 DEF ReadSafe, EntriesRead, Unmerged
    <3>4. /\ m_Tasks'[k].request = m_Tasks[k].request /\ m_Tasks'[k].index = m_Tasks[k].index
          /\ m_Tasks'[k].codes = m_Tasks[k].codes /\ m_Tasks'[k].total = m_Tasks[k].total
          /\ m_Tasks'[k].state = "UNPROCESS"
      BY <1>2, <2>1, <2>2, AdvancedType
    <3>5. m_Tasks'[k].at = m_Tasks[k].at /\ m_Tasks'[k].path = m_Tasks[k].path
      BY <2>1, <2>2 DEF Advanced, Task
    <3> QED
      BY <3>2, <3>3, <3>4, <3>5 DEF AsRead, Unmerged
  <2>3. CASE ~(m_Tasks[k].trigger = by.trigger /\ m_Tasks[k].type = by.type)
    <3>1. m_Tasks'[k] = m_Tasks[k]
      BY <2>1, <2>3 DEF Advanced
    <3> QED
      BY <3>1 DEF Unmerged, ReadSafe, EntriesRead
  <2> QED
    BY <2>2, <2>3
<1>6. Last' = Last /\ \A r : Entries(r)' = Entries(r) /\ Complete(r)' = Complete(r)
  <2>1. Last' = Last
    BY <1>3 DEF Last, recvVars
  <2>2. \A r : Entries(r)' = Entries(r)
    BY <1>4, <1>5 DEF Entries
  <2>3. \A r : Complete(r)' = Complete(r)
    BY <1>3, <2>1 DEF Complete, recvVars
  <2> QED
    BY <2>1, <2>2, <2>3
<1>7. \A r : Closed(r) => Closed(r)'
  BY <1>5, <1>6 DEF Closed, Entries, Unmerged
<1>8. EntriesRead'
  BY <1>3, <1>4, <1>5 DEF EntriesRead
<1>9. Collected'
  <2>1. ASSUME NEW r PROVE UNION {m_Tasks'[k].codes : k \in Entries(r)}
                           = UNION {m_Tasks[k].codes : k \in Entries(r)}
    <3>1. \A k \in Entries(r) : m_Tasks'[k].codes = m_Tasks[k].codes
      BY <1>5 DEF Entries
    <3> QED
      BY <3>1
  <2> QED
    BY <1>3, <1>6, <1>7, <2>1 DEF ReadSafe, Collected
<1>10. InOrder'
  BY <1>4, <1>5 DEF ReadSafe, InOrder
<1>11. Reported'
  <2>1. \A v \in Workers : pc'[v] \in Packagings => pc[v] \in Packagings /\ task'[v] = task[v]
    BY <1>1, <1>3 DEF Return, WorkerTypes, Packagings
  <2>2. \A k \in DOMAIN m_Tasks' : ~Unmerged(k)' => Tells(m_Tasks'[k], reads, scans)
    BY <1>4, <1>5 DEF ReadSafe, Reported
  <2> QED
    BY <1>3, <2>1, <2>2 DEF ReadSafe, Reported
<1> QED
  BY <1>8, <1>9, <1>10, <1>11 DEF ReadSafe

\* A request leaves the queue: what is known of the others stays.
LEMMA ErasedReads ==
  ASSUME Safe, ReadSafe, UNCHANGED <<recvVars, reads, scans>>,
         NEW r, ErasedOf(r), Complete(r), KeepsReports
  PROVE  ReadSafe'
<1>1. /\ Closed(r)'
      /\ \A q : /\ Closed(q) => Closed(q)'
                /\ q # r => Entries(q)' = Entries(q)
      /\ \A k \in DOMAIN m_Tasks' : Unmerged(k)' = Unmerged(k)
      /\ Last' = Last
  BY ErasedQueue
<1>2. \A k \in DOMAIN m_Tasks' : k \in DOMAIN m_Tasks /\ m_Tasks'[k] = m_Tasks[k]
  BY DEF ErasedOf
<1>3. EntriesRead' /\ InOrder'
  BY <1>1, <1>2 DEF ReadSafe, EntriesRead, InOrder
<1>4. Collected'
  <2>1. ASSUME NEW q, q # r PROVE UNION {m_Tasks'[k].codes : k \in Entries(q)'}
                                  = UNION {m_Tasks[k].codes : k \in Entries(q)}
    <3>1. \A k \in Entries(q) : m_Tasks'[k] = m_Tasks[k]
      BY <2>1 DEF Entries, ErasedOf
    <3>2. Entries(q)' = Entries(q)
      BY <1>1, <2>1
    <3> QED
      BY <3>1, <3>2
  <2> QED
    BY <1>1, <2>1 DEF ReadSafe, Collected
<1>5. Reported'
  BY <1>1, <1>2 DEF ReadSafe, Reported, KeepsReports
<1> QED
  BY <1>3, <1>4, <1>5 DEF ReadSafe

\* A worker deletes the pictures it merged.
LEMMA DeleteReads ==
  ASSUME TypeInv, Safe, ReadSafe, NEW w \in Workers, DelAnImageProcessTask(w)
  PROVE  ReadSafe'
<1>0. PICK r : r = task[w].request
  OBVIOUS
<1>1. QueueTypes /\ WorkerTypes
  BY TypeParts DEF Parts, TypeInv
<1>2. pc[w] = "delete" /\ Fits(task[w]) /\ Complete(r)
  BY <1>0 DEF DelAnImageProcessTask, Safe, AllFit, Packaging
<1>3. ErasedOf(r)
  <2>1. Erase(task[w].trigger) /\ task[w].trigger = r
    BY <1>0, <1>2 DEF DelAnImageProcessTask, Fits
  <2>2. \A k \in DOMAIN m_Tasks : m_Tasks[k].trigger = m_Tasks[k].request
    BY DEF Safe, AllFit, Fits
  <2> QED
    BY <1>1, <2>1, <2>2, Erased DEF ErasedOf
<1>4. UNCHANGED <<recvVars, reads, scans>>
  BY DEF DelAnImageProcessTask, history
<1>5. KeepsReports
  <2>1. \A v \in Workers : pc'[v] \in Packagings => pc[v] \in Packagings /\ task'[v] = task[v]
    BY <1>1, <1>2 DEF DelAnImageProcessTask, WorkerTypes, Packagings
  <2> QED
    BY <2>1 DEF KeepsReports
<1> QED
  BY <1>2, <1>3, <1>4, <1>5, ErasedReads

\* A callback deletes what it answered.
LEMMA AnsweredReads ==
  ASSUME TypeInv, Safe, ReadSafe, NEW s \in Senders, DelAnAnsweredTask(s)
  PROVE  ReadSafe'
<1>0. PICK r : r = reply[s].request
  OBVIOUS
<1>1. QueueTypes
  BY TypeParts DEF Parts, TypeInv
<1>2. spc[s] = "delete" /\ Fits(reply[s]) /\ Complete(r)
  BY <1>0 DEF DelAnAnsweredTask, Safe, AllFit, Sending, Closed
<1>3. ErasedOf(r)
  <2>1. Erase(reply[s].trigger) /\ reply[s].trigger = r
    BY <1>0, <1>2 DEF DelAnAnsweredTask, Fits
  <2>2. \A k \in DOMAIN m_Tasks : m_Tasks[k].trigger = m_Tasks[k].request
    BY DEF Safe, AllFit, Fits
  <2> QED
    BY <1>1, <2>1, <2>2, Erased DEF ErasedOf
<1>4. UNCHANGED <<recvVars, reads, scans>>
  BY DEF DelAnAnsweredTask, history
<1>5. KeepsReports
  BY DEF DelAnAnsweredTask, workerVars, KeepsReports
<1> QED
  BY <1>2, <1>3, <1>4, <1>5, ErasedReads

\* The merged task joins the queue: it is reported, and its request was closed.
LEMMA PackagedReads ==
  ASSUME TypeInv, Safe, ReadSafe, NEW w \in Workers, PushPackaged(w)
  PROVE  ReadSafe'
<1>0. PICK t, n : t = task[w] /\ n = pushed + 1
  OBVIOUS
<1>1. QueueTypes /\ WorkerTypes
  BY TypeParts DEF Parts, TypeInv
<1>2. /\ pc[w] = "push" /\ t \in Task /\ t.state = "PROCESSED" /\ Closed(t.request)
      /\ Tells(t, reads, scans)
  BY <1>0, <1>1 DEF PushPackaged, WorkerTypes, Safe, Packaging, ReadSafe, Reported, Packagings
<1>3. /\ DOMAIN m_Tasks' = DOMAIN m_Tasks \cup {n}
      /\ n \notin DOMAIN m_Tasks /\ m_Tasks'[n] = t
      /\ \A k \in DOMAIN m_Tasks : m_Tasks'[k] = m_Tasks[k]
  BY <1>0, <1>1, <1>2, PushedBack DEF PushPackaged
<1>4. /\ UNCHANGED <<recvVars, reads, scans>>
      /\ \A v \in Workers : pc'[v] \in Packagings => pc[v] \in Packagings /\ task'[v] = task[v]
  BY <1>1 DEF PushPackaged, Return, WorkerTypes, Packagings
<1>5. Last' = Last /\ \A q : Complete(q)' = Complete(q)
  BY <1>4 DEF Last, Complete, recvVars
<1>6. ~Unmerged(n)' /\ \A k \in DOMAIN m_Tasks : Unmerged(k)' = Unmerged(k)
  BY <1>2, <1>3 DEF Unmerged
<1>7. \A q : Entries(q)' = Entries(q) \cup (IF q = t.request THEN {n} ELSE {})
  BY <1>3 DEF Entries
<1>8. \A q : Closed(q) => Closed(q)'
  <2> SUFFICES ASSUME NEW q, Closed(q) PROVE Closed(q)'
    OBVIOUS
  <2>1. \A k \in Entries(q)' : m_Tasks'[k].state = "PROCESSED"
    BY <1>2, <1>3, <1>7 DEF Closed, Entries
  <2> QED
    BY <1>5, <2>1 DEF Closed
<1>9. EntriesRead' /\ InOrder'
  BY <1>3, <1>4, <1>6 DEF ReadSafe, EntriesRead, InOrder
<1>10. Collected'
  <2>1. ASSUME NEW q, q # t.request PROVE UNION {m_Tasks'[k].codes : k \in Entries(q)'}
                                          = UNION {m_Tasks[k].codes : k \in Entries(q)}
    <3>1. Entries(q)' = Entries(q) /\ \A k \in Entries(q) : m_Tasks'[k] = m_Tasks[k]
      BY <1>3, <1>7, <2>1 DEF Entries
    <3> QED
      BY <3>1
  <2> QED
    BY <1>2, <1>4, <1>5, <1>8, <2>1 DEF ReadSafe, Collected
<1>11. Reported'
  BY <1>2, <1>3, <1>4, <1>6 DEF ReadSafe, Reported
<1> QED
  BY <1>9, <1>10, <1>11 DEF ReadSafe

\* A new subtask has no codes, and stands behind those pushed before it.
LEMMA PushReads ==
  ASSUME TypeInv, Safe, ReadSafe, PushAnImageProcessTask
  PROVE  ReadSafe'
<1>0. PICK t, n, r : t = SubTask(Last, next) /\ n = pushed + 1 /\ r = Last
  OBVIOUS
<1>1. /\ QueueTypes /\ RecvTypes /\ Last \in Nat /\ next \in Nat
      /\ t \in Task /\ r \in 1..Last /\ message[r] \in Messages /\ next < Pieces(message[r])
  BY <1>0, PushTypes, TypeParts
  DEF Parts, TypeInv, RecvTypes, Last, Requests
<1>2. /\ DOMAIN m_Tasks' = DOMAIN m_Tasks \cup {n}
      /\ n \notin DOMAIN m_Tasks /\ m_Tasks'[n] = t
      /\ \A k \in DOMAIN m_Tasks : m_Tasks'[k] = m_Tasks[k]
  BY <1>0, <1>1, PushedBack DEF PushAnImageProcessTask
<1>3. /\ UNCHANGED <<message, trigger, workerVars, senderVars, linkVars, history>>
      /\ next' = next + 1 /\ ~Complete(r)
  BY <1>0 DEF PushAnImageProcessTask
<1>4. /\ t.request = r /\ t.index = next /\ t.total = message[r].images
      /\ t.state = "UNPROCESS" /\ t.codes = {} /\ t.at = 0
      /\ message[r].paths > 0 => t.path
  BY <1>0 DEF SubTask
<1>5. t.total # 1 => t.path
  <2>1. message[r].images \in Nat /\ message[r].paths \in Nat
    BY <1>1, QueueAssumption DEF QueueAssumption
  <2>2. ASSUME message[r].images > 1 PROVE message[r].paths > 0
    <3>1. Pieces(message[r]) = Min({message[r].images, message[r].paths})
      BY <2>1, <2>2 DEF Pieces
    <3>2. Min({message[r].images, message[r].paths}) <= message[r].paths
          /\ Min({message[r].images, message[r].paths}) \in Nat
      BY <2>1, MinInSet
    <3> QED
      BY <1>1, <2>1, <3>1, <3>2
  <2>3. ASSUME message[r].images = 0 PROVE FALSE
    BY <1>1, <2>3 DEF Pieces
  <2>4. message[r].images # 1 => message[r].paths > 0
    BY <2>1, <2>2, <2>3
  <2> QED
    BY <1>4, <2>4
<1>6. AsRead(t, scans)
  BY <1>4, <1>5, FS_EmptySet DEF AsRead
<1>7. Last' = Last
  BY <1>3 DEF Last
<1>8. Unmerged(n)' /\ \A k \in DOMAIN m_Tasks : Unmerged(k)' = Unmerged(k)
  BY <1>2, <1>4 DEF Unmerged
<1>9. \A q : Entries(q)' = Entries(q) \cup (IF q = r THEN {n} ELSE {})
  BY <1>2, <1>4 DEF Entries
<1>10. ASSUME NEW q, Closed(q) PROVE Closed(q)'
  <2>1. q # r
    BY <1>3, <1>10 DEF Closed
  <2>2. \A k \in Entries(q)' : m_Tasks'[k].state = "PROCESSED"
    BY <1>2, <1>9, <1>10, <2>1 DEF Closed, Entries
  <2>3. Complete(q)'
    BY <1>0, <1>3, <1>7, <1>10, <2>1 DEF Closed, Complete
  <2> QED
    BY <2>2, <2>3 DEF Closed
<1>11. reads' = reads /\ scans' = scans
  BY <1>3 DEF history
<1>12. EntriesRead'
  BY <1>2, <1>6, <1>8, <1>11 DEF ReadSafe, EntriesRead
<1>13. Collected'
  <2>1. ASSUME NEW q PROVE UNION {m_Tasks'[k].codes : k \in Entries(q)'}
                           = UNION {m_Tasks[k].codes : k \in Entries(q)}
    <3>1. \A k \in Entries(q) : k # n /\ m_Tasks'[k] = m_Tasks[k]
      BY <1>2 DEF Entries
    <3>2. \A k \in Entries(q)' : k \in Entries(q) \/ m_Tasks'[k].codes = {}
      BY <1>2, <1>4, <1>9
    <3>3. Entries(q) \subseteq Entries(q)'
      BY <1>9
    <3> QED
      BY <3>1, <3>2, <3>3
  <2> QED
    BY <1>7, <1>10, <1>11, <2>1 DEF ReadSafe, Collected
<1>14. InOrder'
  <2>1. ASSUME NEW j \in DOMAIN m_Tasks', NEW k \in DOMAIN m_Tasks', Unmerged(j)', Unmerged(k)',
               m_Tasks'[j].request = m_Tasks'[k].request, m_Tasks'[j].index < m_Tasks'[k].index
        PROVE  j < k
    <3>1. CASE j = n
      <4>1. k # n
        BY <1>1, <1>2, <1>4, <2>1, <3>1
      <4>2. k \in DOMAIN m_Tasks /\ m_Tasks[k].request = r /\ next < m_Tasks[k].index
        BY <1>2, <1>4, <2>1, <3>1, <4>1
      <4>3. m_Tasks[k].index < Pushed(r) /\ m_Tasks[k].index \in Nat
        BY <1>1, <4>2 DEF Safe, AllFit, Fits, QueueTypes, Task
      <4>4. Pushed(r) = next
        BY <1>0, <1>1 DEF Pushed
      <4> QED
        BY <1>1, <4>2, <4>3, <4>4
    <3>2. CASE j # n /\ k = n
      <4>1. j \in 1..pushed /\ pushed \in Nat
        BY <1>1, <1>2, <2>1, <3>2 DEF QueueTypes
      <4> QED
        BY <1>0, <3>2, <4>1
    <3>3. CASE j # n /\ k # n
      BY <1>2, <1>8, <2>1, <3>3 DEF ReadSafe, InOrder
    <3> QED
      BY <3>1, <3>2, <3>3
  <2> QED
    BY <2>1 DEF InOrder
<1>15. Reported'
  BY <1>2, <1>3, <1>8, <1>11 DEF ReadSafe, Reported, workerVars
<1> QED
  BY <1>12, <1>13, <1>14, <1>15 DEF ReadSafe

\* Nothing is read of a new request, and nothing of it is in the queue.
LEMMA ReceiveReads ==
  ASSUME TypeInv, Safe, ReadSafe, NEW m \in Messages, ProcessOneRMes(m)
  PROVE  ReadSafe'
<1>0. PICK r : r = Last + 1
  OBVIOUS
<1>1. QueueTypes /\ RecvTypes /\ Last \in Nat
  BY TypeParts DEF Parts, TypeInv, RecvTypes, Last
<1>2. /\ message' = Append(message, m)
      /\ UNCHANGED <<queueVars, workerVars, senderVars, history>>
  BY DEF ProcessOneRMes
<1>3. Last' = Last + 1
  BY <1>1, <1>2 DEF Last, RecvTypes
<1>4. \A q \in 1..Last : Complete(q) => Complete(q)'
  BY Grows DEF Safe, Next
<1>5. \A q : Entries(q)' = Entries(q)
  BY <1>2 DEF Entries, queueVars
<1>6. \A k : Unmerged(k)' = Unmerged(k)
  BY <1>2 DEF Unmerged, queueVars
<1>7. \A q \in 1..Last : Closed(q) => Closed(q)'
  BY <1>2, <1>4, <1>5 DEF Closed, queueVars
<1>8. EntriesRead' /\ InOrder' /\ Reported'
  BY <1>2, <1>6 DEF ReadSafe, EntriesRead, InOrder, Reported, queueVars, workerVars, history
<1>9. Collected'
  <2>1. reads' = reads /\ m_Tasks' = m_Tasks
    BY <1>2 DEF history, queueVars
  <2>2. \A x \in reads : x[1] \in 1..Last
    BY DEF ReadSafe, Collected
  <2>3. ReadOf(r, reads) = {}
    BY <1>0, <1>1, <2>2 DEF ReadOf
  <2>4. Entries(r) = {}
    BY <1>0, <1>1 DEF Entries, Safe, AllFit, Fits
  <2>5. ReadOf(r, reads) = UNION {m_Tasks[k].codes : k \in Entries(r)}
    BY <2>3, <2>4
  <2>6. \A q \in 1..Last' : q = r \/ q \in 1..Last
    BY <1>0, <1>1, <1>3
  <2>7. \A x \in reads : x[1] \in 1..Last'
    BY <1>1, <1>3, <2>2
  <2> QED
    BY <1>5, <1>7, <2>1, <2>5, <2>6, <2>7 DEF ReadSafe, Collected
<1> QED
  BY <1>8, <1>9 DEF ReadSafe

\* Nothing is read at the start.
LEMMA InitReads == Init => ReadSafe
<1> SUFFICES ASSUME Init PROVE ReadSafe
  OBVIOUS
<1>1. Last = 0 /\ 1..Last = {} /\ DOMAIN m_Tasks = {} /\ reads = {}
  BY DEF Init, Last
<1>2. \A w \in Workers : pc[w] = "get"
  BY DEF Init
<1> QED
  BY <1>1, <1>2 DEF ReadSafe, EntriesRead, Collected, InOrder, Reported, Packagings

\* Every step keeps what is known of the reads.
LEMMA StepReads ==
  ASSUME TypeInv, MayAdvance, Safe, ReadSafe, [Next]_vars
  PROVE  ReadSafe'
<1>1. WorkerTypes
  BY TypeParts DEF Parts, TypeInv
<1>2. ASSUME NEW m \in Messages, ProcessOneRMes(m) PROVE ReadSafe'
  BY <1>2, ReceiveReads
<1>3. CASE PushAnImageProcessTask
  BY <1>3, PushReads
<1>4. ASSUME NEW w \in Workers, LeaveToOthers(w) PROVE ReadSafe'
  <2>1. UNCHANGED <<m_Tasks, recvVars, reads, scans>>
    BY <1>4 DEF LeaveToOthers, queueVars, history
  <2>2. KeepsReports
    BY <1>1, <1>4 DEF LeaveToOthers, Return, WorkerTypes, KeepsReports, Packagings
  <2> QED
    BY <2>1, <2>2, QuietReads
<1>5. ASSUME NEW w \in Workers, WorkerStep(w) PROVE ReadSafe'
  BY <1>4, <1>5, GetReads, SkipReads, FinishReads, MergeReads, AdvanceReads, DeleteReads,
     PackagedReads DEF WorkerStep
<1>6. ASSUME UNCHANGED <<m_Tasks, recvVars, workerVars, reads, scans>> PROVE ReadSafe'
  <2>1. KeepsReports
    BY <1>6 DEF KeepsReports, workerVars
  <2> QED
    BY <1>6, <2>1, QuietReads
<1>7. ASSUME NEW s \in Senders, SenderStep(s) PROVE ReadSafe'
  <2>1. CASE GetAnFinishedImageProcessTask(s)
    BY <1>6, <2>1 DEF GetAnFinishedImageProcessTask, queueVars, history
  <2>2. CASE Send(s)
    BY <1>6, <2>2 DEF Send, queueVars
  <2>3. CASE DelAnAnsweredTask(s)
    BY <2>3, AnsweredReads
  <2> QED
    BY <1>7, <2>1, <2>2, <2>3 DEF SenderStep
<1>8. CASE Disconnected \/ Connected \/ UNCHANGED vars
  BY <1>6, <1>8 DEF Disconnected, Connected, vars, queueVars, history
<1> QED
  BY <1>2, <1>3, <1>5, <1>7, <1>8 DEF Next

(* A reply tells what was read on all pictures of its request, and every   *)
(* picture was read for the type the request ended with.  It stays so      *)
(* although the request is merged from copies made before its tasks are    *)
(* deleted, and although several workers may move it to the next type,     *)
(* merge it and push it.                                                   *)
THEOREM RepliesReportReads == DistinctTicks = TRUE => (Spec => []ReplyReportsReads)
<1> SUFFICES ASSUME DistinctTicks = TRUE PROVE Spec => []ReplyReportsReads
  OBVIOUS
<1>1. Init => IInv /\ ReadSafe
  BY InitTypes, InitSafe, InitReads DEF Init, MayAdvance, IInv
<1>2. IInv /\ ReadSafe /\ [Next]_vars => (IInv /\ ReadSafe)'
  BY StepTypes, MayAdvanceStep, StepSafe, StepReads DEF IInv
<1>3. IInv /\ ReadSafe => ReplyReportsReads
  BY ReportsTell DEF ReadSafe, Reported, ReplyReportsReads, InState, Unmerged
<1> QED
  BY <1>1, <1>2, <1>3, PTL DEF Spec

-----------------------------------------------------------------------------
(* How many replies a request gets.                                        *)

\* Request r is merged and in the queue: the callbacks may take it.
HasMerged(r) == \E k \in Entries(r) : ~Unmerged(k)

\* A callback is about to reply to request r, or may still take it.
MaySend(s, r) ==
  IF spc[s] # "take" /\ reply[s].request = r THEN spc[s] = "send" ELSE HasMerged(r)

Waiting(r) == {s \in Senders : MaySend(s, r)}

\* The times request r came into the queue merged.
Rounds(r) == packaged[r] + (IF message[r].images = 1 /\ Closed(r) THEN 1 ELSE 0)

\* Every callback may reply once each time the request comes, and once more after each
\* failure: what was replied is paid, and so is every callback that may still reply.
Paid(r) ==
  replied[r] + Cardinality(Waiting(r)) <= Cardinality(Senders) * Rounds(r) + failed[r]

Ledger ==
  /\ \A r \in 1..Last : Paid(r)
  /\ \A r \in 1..Last : message[r].images = 1 => packaged[r] = 0
  /\ \A w \in Workers : pc[w] \notin {"get", "work"} => task[w].total # 1
  /\ \A r \in Requests \ (1..Last) : replied[r] = 0 /\ packaged[r] = 0 /\ failed[r] = 0
  /\ Senders = {} => \A r \in Requests : failed[r] = 0

\* What a worker does to the queue when it takes or finishes a task.
LEMMA TaskStep ==
  ASSUME TypeInv, Safe, NEW w \in Workers,
         GetAnImageProcessTask(w) \/ SkipTask(w) \/ FinishTask(w)
  PROVE  \E p, t : /\ OneChanged(p, t)
                   /\ m_Tasks[p].state \in {"UNPROCESS", "PROCESSING"}
                   /\ t.state = "PROCESSED" => t.total = 1
<1>1. QueueTypes /\ WorkerTypes
  BY TypeParts DEF Parts, TypeInv
<1>2. CASE GetAnImageProcessTask(w)
  <2>0. PICK p : p = First(InState("UNPROCESS"))
    OBVIOUS
  <2>1. p \in DOMAIN m_Tasks /\ m_Tasks[p].state = "UNPROCESS" /\ m_Tasks[p] \in Task
    BY <1>1, <1>2, <2>0, FirstInState DEF GetAnImageProcessTask, QueueTypes
  <2>2. m_Tasks' = [m_Tasks EXCEPT ![p] = Restated(m_Tasks[p], "PROCESSING")]
    BY <1>2, <2>0 DEF GetAnImageProcessTask, Restated
  <2>3. OneChanged(p, Restated(m_Tasks[p], "PROCESSING"))
        /\ Restated(m_Tasks[p], "PROCESSING").state = "PROCESSING"
    BY <2>1, <2>2, RestatedType DEF OneChanged
  <2> QED
    BY <2>1, <2>3
<1>3. CASE SkipTask(w) \/ FinishTask(w)
  <2>1. task[w] \in Task /\ pc[w] = "work"
    BY <1>1, <1>3 DEF SkipTask, FinishTask, WorkerTypes
  <2>2. PICK t \in Task : /\ Same(t, task[w]) /\ t.trigger = task[w].trigger
                          /\ t.total = task[w].total /\ t.type = task[w].type
                          /\ TaskOver(t)
    <3>1. CASE SkipTask(w)
      <4>0. PICK t : t = [task[w] EXCEPT !.result = "NO_IMAGE"]
        OBVIOUS
      <4>1. t \in Task /\ Same(t, task[w]) /\ t.trigger = task[w].trigger
            /\ t.total = task[w].total /\ t.type = task[w].type
        BY <2>1, <4>0 DEF Task, Results, Same
      <4>2. TaskOver(t)
        BY <3>1, <4>0 DEF SkipTask
      <4> QED
        BY <4>1, <4>2
    <3>2. CASE FinishTask(w)
      <4>1. PICK t \in Processed(task[w]) : TaskOver(t)
        BY <3>2 DEF FinishTask
      <4>2. t \in Task /\ Same(t, task[w]) /\ t.trigger = task[w].trigger
            /\ t.total = task[w].total /\ t.type = task[w].type
        BY <2>1, QueueAssumption, ProcessedFields DEF Same
      <4> QED
        BY <4>1, <4>2
    <3> QED
      BY <1>3, <3>1, <3>2
  <2>3. PICK p \in DOMAIN m_Tasks : m_Tasks[p] = task[w] /\ OneChanged(p, Over(t))
    BY <2>1, <2>2, OwnTask
  <2>4. m_Tasks[p].state = "PROCESSING"
    BY <2>1, <2>3 DEF Safe, Working
  <2>5. Over(t).state = "PROCESSED" => Over(t).total = 1
    BY <2>2, OverType
  <2> QED
    BY <2>3, <2>4, <2>5
<1> QED
  BY <1>2, <1>3

\* What a step does to the merged tasks of a request: a request stays closed; a merged
\* task is new when the only picture of a request was read, or a worker pushes it.
MergedStep(r) ==
  /\ Closed(r) => Closed(r)'
  /\ HasMerged(r)' =>
       \/ HasMerged(r)
       \/ ~Closed(r) /\ Closed(r)' /\ message[r].images = 1
       \/ packaged'[r] = packaged[r] + 1

\* A step that leaves the queue alone, or moves tasks to another type.
LEMMA StillMerged ==
  ASSUME NEW r, Entries(r)' \subseteq Entries(r), Complete(r) => Complete(r)',
         \A k \in Entries(r)' : Unmerged(k)' = Unmerged(k)
  PROVE  MergedStep(r)
BY DEF MergedStep, Closed, HasMerged, Unmerged

\* A worker takes or finishes a task.
LEMMA OneChangedMerged ==
  ASSUME TypeInv, Safe, UNCHANGED recvVars, NEW p, NEW t, OneChanged(p, t),
         m_Tasks[p].state \in {"UNPROCESS", "PROCESSING"},
         t.state = "PROCESSED" => t.total = 1, NEW r
  PROVE  MergedStep(r)
<1>1. Unmerged(p) /\ p \in DOMAIN m_Tasks /\ p \in Entries(t.request)
  BY DEF Unmerged, OneChanged, Entries
<1>2. /\ QueueSafe'
      /\ Closed(r) => Closed(r)'
      /\ Entries(r)' = Entries(r)
  BY <1>1, OneChangedQueue
<1>3. \A k \in DOMAIN m_Tasks \ {p} : Unmerged(k)' = Unmerged(k)
  BY DEF OneChanged, Unmerged
<1>4. ASSUME HasMerged(r)', ~HasMerged(r)
      PROVE  ~Closed(r) /\ Closed(r)' /\ message[r].images = 1
  <2>1. PICK k \in Entries(r) : ~Unmerged(k)'
    BY <1>2, <1>4 DEF HasMerged
  <2>2. k = p
    BY <1>3, <1>4, <2>1 DEF HasMerged, Entries
  <2>3. t.request = r /\ t.total = 1
    BY <2>1, <2>2 DEF OneChanged, Unmerged, Entries
  <2>4. ~Closed(r) /\ message[r].images = 1
    BY <1>1, <2>3 DEF Closed, Unmerged, OneChanged, Safe, AllFit, Fits
  <2>5. Closed(r)'
    <3>1. Closed(m_Tasks[p].request)'
      BY <1>2, <2>1, <2>2 DEF QueueSafe, ProcessedIsClosed, OneChanged
    <3>2. m_Tasks'[p].request = r
      BY <2>3 DEF OneChanged
    <3> QED
      BY <3>1, <3>2 DEF Closed, Entries, Complete
  <2> QED
    BY <2>4, <2>5
<1> QED
  BY <1>2, <1>4 DEF MergedStep

\* Every step.
LEMMA EveryMergedStep ==
  ASSUME TypeInv, MayAdvance, Safe, [Next]_vars, NEW r \in 1..Last
  PROVE  MergedStep(r)
<1>1. QueueTypes /\ WorkerTypes /\ SenderTypes /\ RecvTypes
  BY TypeParts DEF Parts, TypeInv
<1>2. Complete(r) => Complete(r)'
  BY Grows DEF Safe
<1>3. ASSUME UNCHANGED <<m_Tasks>> PROVE MergedStep(r)
  <2>1. Entries(r)' = Entries(r) /\ \A k : Unmerged(k)' = Unmerged(k)
    BY <1>3 DEF Entries, Unmerged
  <2> QED
    BY <1>2, <2>1, StillMerged
<1>4. ASSUME NEW q, ErasedOf(q) PROVE MergedStep(r)
  <2>1. Entries(r)' \subseteq Entries(r) /\ \A k \in Entries(r)' : Unmerged(k)' = Unmerged(k)
    BY <1>4 DEF ErasedOf, Entries, Unmerged
  <2> QED
    BY <1>2, <2>1, StillMerged
<1>5. ASSUME NEW m \in Messages, ProcessOneRMes(m) PROVE MergedStep(r)
  BY <1>3, <1>5 DEF ProcessOneRMes, queueVars
<1>6. CASE PushAnImageProcessTask
  <2>0. PICK t, n : t = SubTask(Last, next) /\ n = pushed + 1
    OBVIOUS
  <2>1. t \in Task /\ t.state = "UNPROCESS" /\ t.request = Last
    BY <1>6, <2>0, PushTypes DEF SubTask
  <2>2. /\ DOMAIN m_Tasks' = DOMAIN m_Tasks \cup {n}
        /\ n \notin DOMAIN m_Tasks /\ m_Tasks'[n] = t
        /\ \A k \in DOMAIN m_Tasks : m_Tasks'[k] = m_Tasks[k]
    BY <1>1, <1>6, <2>0, <2>1, PushedBack DEF PushAnImageProcessTask
  <2>3. CASE r = Last
    <3>1. ~Closed(r)
      BY <1>6, <2>3 DEF PushAnImageProcessTask, Closed
    <3>2. HasMerged(r)' => HasMerged(r)
      BY <2>1, <2>2 DEF HasMerged, Entries, Unmerged
    <3> QED
      BY <3>1, <3>2 DEF MergedStep
  <2>4. CASE r # Last
    <3>1. Entries(r)' = Entries(r) /\ \A k \in Entries(r) : Unmerged(k)' = Unmerged(k)
      BY <2>1, <2>2, <2>4 DEF Entries, Unmerged
    <3> QED
      BY <1>2, <3>1, StillMerged
  <2> QED
    BY <2>3, <2>4
<1>7. ASSUME NEW w \in Workers, GetAnImageProcessTask(w) \/ SkipTask(w) \/ FinishTask(w)
      PROVE  MergedStep(r)
  <2>1. UNCHANGED recvVars
    BY <1>7 DEF GetAnImageProcessTask, SkipTask, FinishTask
  <2> QED
    BY <1>7, <2>1, TaskStep, OneChangedMerged
<1>8. ASSUME NEW w \in Workers, LeaveToOthers(w) \/ MergeTasks(w) PROVE MergedStep(r)
  BY <1>3, <1>8 DEF LeaveToOthers, MergeTasks, queueVars
<1>9. ASSUME NEW w \in Workers, ChangeTasksProcessType(w) PROVE MergedStep(r)
  <2>1. DOMAIN m_Tasks' = DOMAIN m_Tasks
        /\ \A k \in DOMAIN m_Tasks : m_Tasks'[k] = Advanced(m_Tasks[k], task[w])
    BY <1>9 DEF ChangeTasksProcessType, Advanced
  <2>2. pc[w] = "advance" /\ task[w] \in Task /\ GetNextProcessType(task[w].type) # "OVER"
        /\ Fits(task[w])
    BY <1>1, <1>9 DEF ChangeTasksProcessType, WorkerTypes, MayAdvance, Safe, AllFit
  <2>3. ASSUME NEW k \in DOMAIN m_Tasks
        PROVE  m_Tasks'[k].request = m_Tasks[k].request /\ Unmerged(k)' = Unmerged(k)
    <3>1. m_Tasks[k] \in Task /\ m_Tasks'[k] = Advanced(m_Tasks[k], task[w]) /\ Fits(m_Tasks[k])
      BY <1>1, <2>1 DEF QueueTypes, Safe, AllFit
    <3>2. CASE m_Tasks[k].trigger = task[w].trigger /\ m_Tasks[k].type = task[w].type
      <4>1. k \in Entries(task[w].request)
        BY <2>2, <3>1, <3>2 DEF Fits, Entries
      <4>2. m_Tasks[k].state = "WAIT_PACKAGE"
        BY <2>2, <3>2, <4>1 DEF Safe, Advancing
      <4>3. m_Tasks'[k].state = "UNPROCESS" /\ m_Tasks'[k].request = m_Tasks[k].request
        BY <2>2, <3>1, <3>2, AdvancedType
      <4> QED
        BY <4>2, <4>3 DEF Unmerged
    <3>3. CASE ~(m_Tasks[k].trigger = task[w].trigger /\ m_Tasks[k].type = task[w].type)
      BY <3>1, <3>3 DEF Advanced, Unmerged
    <3> QED
      BY <3>2, <3>3
  <2>4. Entries(r)' = Entries(r)
    BY <2>1, <2>3 DEF Entries
  <2>5. \A k \in Entries(r)' : Unmerged(k)' = Unmerged(k)
    BY <2>3, <2>4 DEF Entries
  <2> QED
    BY <1>2, <2>4, <2>5, StillMerged
<1>10. ASSUME NEW w \in Workers, DelAnImageProcessTask(w) PROVE MergedStep(r)
  <2>1. Erase(task[w].trigger) /\ Fits(task[w])
    BY <1>10 DEF DelAnImageProcessTask, Safe, AllFit
  <2>2. \A k \in DOMAIN m_Tasks : m_Tasks[k].trigger = m_Tasks[k].request
    BY DEF Safe, AllFit, Fits
  <2>3. ErasedOf(task[w].request)
    BY <1>1, <2>1, <2>2, Erased DEF ErasedOf, Fits
  <2> QED
    BY <1>4, <2>3
<1>11. ASSUME NEW w \in Workers, PushPackaged(w) PROVE MergedStep(r)
  <2>0. PICK t, n : t = task[w] /\ n = pushed + 1
    OBVIOUS
  <2>1. t \in Task /\ t.state = "PROCESSED" /\ pc[w] = "push"
    BY <1>1, <1>11, <2>0 DEF PushPackaged, WorkerTypes, Safe, Packaging
  <2>2. /\ DOMAIN m_Tasks' = DOMAIN m_Tasks \cup {n}
        /\ n \notin DOMAIN m_Tasks /\ m_Tasks'[n] = t
        /\ \A k \in DOMAIN m_Tasks : m_Tasks'[k] = m_Tasks[k]
    BY <1>1, <1>11, <2>0, <2>1, PushedBack DEF PushPackaged
  <2>3. CASE r = t.request
    <3>1. packaged \in [Requests -> Nat] /\ t.request \in Requests
      BY <2>1, TypeParts DEF Parts, TypeInv, HistoryTypes, Task
    <3>2. packaged'[r] = packaged[r] + 1
      BY <1>11, <2>0, <2>3, <3>1 DEF PushPackaged
    <3>3. Closed(r) => Closed(r)'
      BY <1>2, <2>1, <2>2 DEF Closed, Entries
    <3> QED
      BY <3>2, <3>3 DEF MergedStep
  <2>4. CASE r # t.request
    <3>1. Entries(r)' = Entries(r) /\ \A k \in Entries(r) : Unmerged(k)' = Unmerged(k)
      BY <2>2, <2>4 DEF Entries, Unmerged
    <3> QED
      BY <1>2, <3>1, StillMerged
  <2> QED
    BY <2>3, <2>4
<1>12. ASSUME NEW s \in Senders, SenderStep(s) PROVE MergedStep(r)
  <2>1. CASE GetAnFinishedImageProcessTask(s) \/ Send(s)
    BY <1>3, <2>1 DEF GetAnFinishedImageProcessTask, Send, queueVars
  <2>2. CASE DelAnAnsweredTask(s)
    <3>1. Erase(reply[s].trigger) /\ Fits(reply[s])
      BY <2>2 DEF DelAnAnsweredTask, Safe, AllFit
    <3>2. \A k \in DOMAIN m_Tasks : m_Tasks[k].trigger = m_Tasks[k].request
      BY DEF Safe, AllFit, Fits
    <3>3. ErasedOf(reply[s].request)
      BY <1>1, <3>1, <3>2, Erased DEF ErasedOf, Fits
    <3> QED
      BY <1>4, <3>3
  <2> QED
    BY <1>12, <2>1, <2>2 DEF SenderStep
<1>13. CASE Disconnected \/ Connected \/ UNCHANGED vars
  BY <1>3, <1>13 DEF Disconnected, Connected, vars, queueVars
<1> QED
  BY <1>5, <1>6, <1>7, <1>8, <1>9, <1>10, <1>11, <1>12, <1>13 DEF Next, WorkerStep

\* More rounds allow more replies.
LEMMA MoreRounds ==
  ASSUME NEW n \in Nat, NEW a \in Nat, NEW b \in Nat, a <= b
  PROVE  n * a \in Nat /\ n * b \in Nat /\ n * a <= n * b /\ n * (a + 1) = n * a + n
<1>1. PICK d \in Nat : b = a + d
  <2>1. b - a \in Nat /\ b = a + (b - a)
    OBVIOUS
  <2> QED
    BY <2>1
<1>2. n * (a + d) = n * a + n * d
  OBVIOUS
<1>3. n * d \in Nat /\ n * a \in Nat
  OBVIOUS
<1>4. n * (a + 1) = n * a + n
  OBVIOUS
<1> HIDE <1>2
<1>5. n * b = n * a + n * d
  BY <1>1, <1>2
<1> QED
  BY <1>3, <1>4, <1>5

\* The numbers of the ledger.
LEMMA LedgerNumbers ==
  ASSUME TypeInv, NEW r \in 1..Last
  PROVE  /\ r \in Requests
         /\ replied[r] \in Nat /\ failed[r] \in Nat /\ packaged[r] \in Nat
         /\ Rounds(r) \in Nat
         /\ Cardinality(Senders) \in Nat
         /\ IsFiniteSet(Waiting(r)) /\ Cardinality(Waiting(r)) \in Nat
         /\ Cardinality(Waiting(r)) <= Cardinality(Senders)
<1>1. RecvTypes /\ HistoryTypes /\ Last \in Nat
  BY TypeParts DEF Parts, TypeInv, RecvTypes, Last
<1>2. r \in Requests
  BY <1>1, QueueAssumption DEF RecvTypes, Requests, QueueAssumption
<1>3. replied[r] \in Nat /\ failed[r] \in Nat /\ packaged[r] \in Nat
  BY <1>1, <1>2 DEF HistoryTypes
<1>4. Rounds(r) \in Nat
  BY <1>3 DEF Rounds
<1>5. IsFiniteSet(Senders) /\ Waiting(r) \in SUBSET Senders
  BY QueueAssumption DEF QueueAssumption, Waiting
<1>6. Cardinality(Senders) \in Nat /\ IsFiniteSet(Waiting(r))
      /\ Cardinality(Waiting(r)) <= Cardinality(Senders)
  BY <1>5, FS_CardinalityType, FS_Subset
<1>7. Cardinality(Waiting(r)) \in Nat
  BY <1>6, FS_CardinalityType
<1> QED
  BY <1>2, <1>3, <1>4, <1>6, <1>7

\* The same, after a step.
LEMMA LedgerNumbersNext ==
  ASSUME TypeInv', NEW r \in 1..Last'
  PROVE  /\ replied'[r] \in Nat /\ failed'[r] \in Nat /\ packaged'[r] \in Nat
         /\ Rounds(r)' \in Nat
         /\ IsFiniteSet(Waiting(r)') /\ Cardinality(Waiting(r)') \in Nat
         /\ Cardinality(Waiting(r)') <= Cardinality(Senders)
<1>1. RecvTypes' /\ HistoryTypes' /\ Last' \in Nat
  BY TypeParts DEF Parts, TypeInv, RecvTypes, Last
<1>2. r \in Requests
  BY <1>1, QueueAssumption DEF RecvTypes, Requests, QueueAssumption
<1>3. replied'[r] \in Nat /\ failed'[r] \in Nat /\ packaged'[r] \in Nat
  BY <1>1, <1>2 DEF HistoryTypes
<1>4. Rounds(r)' \in Nat
  BY <1>3 DEF Rounds
<1>5. IsFiniteSet(Senders) /\ Waiting(r)' \in SUBSET Senders
  BY QueueAssumption DEF QueueAssumption, Waiting
<1>6. IsFiniteSet(Waiting(r)') /\ Cardinality(Waiting(r)') <= Cardinality(Senders)
  BY <1>5, FS_Subset
<1>7. Cardinality(Waiting(r)') \in Nat
  BY <1>6, FS_CardinalityType
<1> QED
  BY <1>3, <1>4, <1>6, <1>7

\* No callback more may reply, and nothing was replied.
LEMMA StillPaid ==
  ASSUME TypeInv, TypeInv', NEW r \in 1..Last, r \in 1..Last', Paid(r),
         Waiting(r)' \subseteq Waiting(r), Rounds(r) <= Rounds(r)',
         replied'[r] = replied[r], failed[r] <= failed'[r]
  PROVE  Paid(r)'
<1> DEFINE n == Cardinality(Senders)
           a == Rounds(r)
           b == Rounds(r)'
           c == Cardinality(Waiting(r))
           d == Cardinality(Waiting(r)')
<1>1. /\ replied[r] \in Nat /\ failed[r] \in Nat /\ a \in Nat /\ n \in Nat /\ c \in Nat
      /\ IsFiniteSet(Waiting(r))
  BY LedgerNumbers
<1>2. failed'[r] \in Nat /\ b \in Nat /\ d \in Nat
  BY LedgerNumbersNext
<1>3. d <= c
  BY <1>1, FS_Subset
<1>4. replied[r] + c <= n * a + failed[r] /\ a <= b
  BY DEF Paid
<1> HIDE DEF n, a, b, c, d
<1>5. n * a \in Nat /\ n * b \in Nat /\ n * a <= n * b
  BY <1>1, <1>2, <1>4, MoreRounds
<1>6. replied'[r] + d <= n * b + failed'[r]
  BY <1>1, <1>2, <1>3, <1>4, <1>5
<1> QED
  BY <1>6 DEF Paid, n, b, d

\* The request has come once more: every callback may reply to it.
LEMMA NewlyPaid ==
  ASSUME TypeInv, TypeInv', NEW r \in 1..Last, r \in 1..Last', Paid(r),
         Rounds(r) + 1 <= Rounds(r)', replied'[r] = replied[r], failed'[r] = failed[r]
  PROVE  Paid(r)'
<1> DEFINE n == Cardinality(Senders)
           a == Rounds(r)
           b == Rounds(r)'
           c == Cardinality(Waiting(r))
           d == Cardinality(Waiting(r)')
<1>1. replied[r] \in Nat /\ failed[r] \in Nat /\ a \in Nat /\ n \in Nat /\ c \in Nat
  BY LedgerNumbers
<1>2. b \in Nat /\ d \in Nat /\ d <= n
  BY LedgerNumbersNext
<1>3. replied[r] + c <= n * a + failed[r] /\ a + 1 <= b
  BY DEF Paid
<1> HIDE DEF n, a, b, c, d
<1>4. a \in Nat /\ a + 1 \in Nat /\ a <= a
  BY <1>1
<1>5. n * a \in Nat /\ n * (a + 1) = n * a + n
  BY <1>1, <1>4, MoreRounds
<1>6. n * (a + 1) <= n * b /\ n * b \in Nat
  BY <1>1, <1>2, <1>3, <1>4, MoreRounds
<1> DEFINE m == n * (a + 1)
           k == n * a
           l == n * b
<1>7. k \in Nat /\ m = k + n /\ m <= l /\ l \in Nat
  BY <1>5, <1>6
<1>8. replied[r] + c <= k + failed[r]
  BY <1>3
<1> HIDE DEF m, k, l
<1>9. replied[r] + d <= l + failed[r]
  BY <1>1, <1>2, <1>7, <1>8
<1>10. replied'[r] + d <= n * b + failed'[r]
  BY <1>9 DEF l
<1> QED
  BY <1>10 DEF Paid, n, b, d

\* A callback replies: it may not reply again, or a failure is paid for.
LEMMA RepliedPaid ==
  ASSUME TypeInv, TypeInv', NEW r \in 1..Last, r \in 1..Last', Paid(r),
         NEW s \in Waiting(r), Rounds(r)' = Rounds(r),
         replied'[r] \in {replied[r], replied[r] + 1},
         \/ Waiting(r)' \subseteq Waiting(r) \ {s} /\ failed'[r] = failed[r]
         \/ Waiting(r)' \subseteq Waiting(r) /\ failed'[r] = failed[r] + 1
  PROVE  Paid(r)'
<1> DEFINE k == Cardinality(Senders) * Rounds(r)
           c == Cardinality(Waiting(r))
           d == Cardinality(Waiting(r)')
<1>1. /\ replied[r] \in Nat /\ failed[r] \in Nat /\ c \in Nat
      /\ Rounds(r) \in Nat /\ Cardinality(Senders) \in Nat
      /\ IsFiniteSet(Waiting(r))
  BY LedgerNumbers
<1>2. d \in Nat
  BY LedgerNumbersNext
<1>3. k \in Nat
  BY <1>1
<1>4. \/ d <= c - 1 /\ failed'[r] = failed[r]
      \/ d <= c /\ failed'[r] = failed[r] + 1
  <2>1. CASE Waiting(r)' \subseteq Waiting(r) \ {s} /\ failed'[r] = failed[r]
    <3>1. IsFiniteSet(Waiting(r) \ {s}) /\ Cardinality(Waiting(r) \ {s}) = c - 1
      BY <1>1, FS_RemoveElement
    <3>2. d <= Cardinality(Waiting(r) \ {s})
      BY <2>1, <3>1, FS_Subset
    <3> QED
      BY <2>1, <3>1, <3>2
  <2>2. CASE Waiting(r)' \subseteq Waiting(r) /\ failed'[r] = failed[r] + 1
    <3>1. d <= c
      BY <1>1, <2>2, FS_Subset
    <3> QED
      BY <2>2, <3>1
  <2> QED
    BY <2>1, <2>2
<1>5. replied[r] + c <= k + failed[r]
  BY DEF Paid
<1> HIDE DEF k, c, d
<1>6. replied'[r] + d <= k + failed'[r]
  BY <1>1, <1>2, <1>3, <1>4, <1>5
<1> QED
  BY <1>6 DEF Paid, k, d


\* A step in which no callback replies.
LEMMA QuietPaid ==
  ASSUME TypeInv, TypeInv', NEW r \in 1..Last, r \in 1..Last', message'[r] = message[r],
         MergedStep(r), Paid(r), UNCHANGED <<spc, reply>>,
         replied'[r] = replied[r], failed'[r] = failed[r],
         packaged'[r] \in {packaged[r], packaged[r] + 1}
  PROVE  Paid(r)'
<1>1. packaged[r] \in Nat /\ packaged'[r] \in Nat /\ failed[r] \in Nat
  BY LedgerNumbers
<1>2. CASE HasMerged(r)' => HasMerged(r)
  <2>1. Waiting(r)' \subseteq Waiting(r)
    BY <1>2 DEF Waiting, MaySend
  <2>2. Rounds(r) <= Rounds(r)'
    BY <1>1 DEF Rounds, MergedStep
  <2>3. failed[r] <= failed'[r]
    BY <1>1
  <2> QED
    BY <2>1, <2>2, <2>3, StillPaid
<1>3. CASE HasMerged(r)' /\ ~HasMerged(r)
  <2>1. Rounds(r) + 1 <= Rounds(r)'
    BY <1>1, <1>3 DEF Rounds, MergedStep
  <2> QED
    BY <2>1, NewlyPaid
<1> QED
  BY <1>2, <1>3

\* A callback takes a merged task.
LEMMA TakePaid ==
  ASSUME TypeInv, TypeInv', NEW r \in 1..Last, r \in 1..Last', Paid(r),
         NEW s \in Senders, GetAnFinishedImageProcessTask(s)
  PROVE  Paid(r)'
<1>0. PICK k : k = First(InState("PROCESSED"))
  OBVIOUS
<1>1. QueueTypes /\ SenderTypes
  BY TypeParts DEF Parts, TypeInv
<1>2. k \in DOMAIN m_Tasks /\ m_Tasks[k].state = "PROCESSED"
  BY <1>0, <1>1, FirstInState DEF GetAnFinishedImageProcessTask
<1>3. /\ spc[s] = "take" /\ spc' = [spc EXCEPT ![s] = "send"]
      /\ reply' = [reply EXCEPT ![s] = m_Tasks[k]]
      /\ UNCHANGED <<m_Tasks, message, next, replied, packaged, failed>>
  BY <1>0 DEF GetAnFinishedImageProcessTask, queueVars, recvVars, history
<1>4. HasMerged(r)' <=> HasMerged(r)
  BY <1>3 DEF HasMerged, Entries, Unmerged
<1>5. ASSUME NEW x \in Senders, MaySend(x, r)' PROVE MaySend(x, r)
  <2>1. CASE x = s
    <3>1. spc'[s] = "send" /\ reply'[s] = m_Tasks[k]
      BY <1>1, <1>3 DEF SenderTypes
    <3>2. CASE m_Tasks[k].request = r
      <4>1. HasMerged(r)
        BY <1>2, <3>2 DEF HasMerged, Entries, Unmerged
      <4> QED
        BY <1>3, <2>1, <4>1 DEF MaySend
    <3>3. CASE m_Tasks[k].request # r
      <4>1. HasMerged(r)'
        BY <1>5, <2>1, <3>1, <3>3 DEF MaySend
      <4> QED
        BY <1>3, <1>4, <2>1, <4>1 DEF MaySend
    <3> QED
      BY <3>2, <3>3
  <2>2. CASE x # s
    <3>1. spc'[x] = spc[x] /\ reply'[x] = reply[x]
      BY <1>1, <1>3, <2>2 DEF SenderTypes
    <3> QED
      BY <1>4, <1>5, <3>1 DEF MaySend
  <2> QED
    BY <2>1, <2>2
<1>6. Waiting(r)' \subseteq Waiting(r)
  BY <1>5 DEF Waiting
<1>7. Rounds(r)' = Rounds(r) /\ Rounds(r) \in Nat
  <2>1. Rounds(r)' = Rounds(r)
    BY <1>3 DEF Rounds, Closed, Complete, Entries, Last
  <2> QED
    BY <2>1, LedgerNumbers
<1>8. Rounds(r) <= Rounds(r)' /\ replied'[r] = replied[r] /\ failed[r] <= failed'[r]
  BY <1>3, <1>7, LedgerNumbers
<1> QED
  BY <1>6, <1>8, StillPaid

\* A callback sends the reply, or thinks it did not.
LEMMA SendPaid ==
  ASSUME TypeInv, TypeInv', NEW r \in 1..Last, r \in 1..Last', Paid(r),
         NEW s \in Senders, Send(s)
  PROVE  Paid(r)'
<1>1. SenderTypes /\ HistoryTypes
  BY TypeParts DEF Parts, TypeInv
<1>2. PICK q : q = reply[s].request
  OBVIOUS
<1>3. PICK sent \in BOOLEAN, error \in BOOLEAN :
        /\ spc[s] = "send" /\ reply[s] \in Task /\ q \in Requests
        /\ replied' = [replied EXCEPT ![q] = IF sent THEN @ + 1 ELSE @]
        /\ failed' = [failed EXCEPT ![q] = IF error THEN @ + 1 ELSE @]
        /\ spc' = [spc EXCEPT ![s] = IF error THEN "take" ELSE "delete"]
        /\ reply' = [reply EXCEPT ![s] = IF error THEN NoTask ELSE @]
        /\ UNCHANGED <<m_Tasks, message, next, packaged>>
  <2>1. spc[s] = "send" /\ reply[s] \in Task /\ q \in Requests
    BY <1>1, <1>2 DEF Send, SenderTypes, Task
  <2> QED
    BY <1>2, <2>1 DEF Send, queueVars, recvVars
<1>4. HasMerged(r)' <=> HasMerged(r)
  BY <1>3 DEF HasMerged, Entries, Unmerged
<1>5. Rounds(r)' = Rounds(r)
  BY <1>3 DEF Rounds, Closed, Complete, Entries, Last
<1>6. \A x \in Senders \ {s} : spc'[x] = spc[x] /\ reply'[x] = reply[x]
  BY <1>1, <1>3 DEF SenderTypes
<1>7. \A x \in Senders \ {s} : MaySend(x, r)' <=> MaySend(x, r)
  BY <1>4, <1>6 DEF MaySend
<1>8. spc'[s] = (IF error THEN "take" ELSE "delete") /\ (~error => reply'[s] = reply[s])
  BY <1>1, <1>3 DEF SenderTypes
<1>9. r \in Requests /\ replied[r] \in Nat /\ failed[r] \in Nat /\ Rounds(r) \in Nat
  BY LedgerNumbers
<1>10. CASE r = q
  <2>1. MaySend(s, r) /\ s \in Waiting(r)
    BY <1>2, <1>3, <1>10 DEF MaySend, Waiting
  <2>2. replied'[r] \in {replied[r], replied[r] + 1}
        /\ failed'[r] = IF error THEN failed[r] + 1 ELSE failed[r]
    BY <1>1, <1>3, <1>9, <1>10 DEF HistoryTypes
  <2>3. Waiting(r)' \subseteq Waiting(r)
    BY <1>7, <2>1 DEF Waiting
  <2>4. ~error => s \notin Waiting(r)'
    BY <1>2, <1>3, <1>8, <1>10 DEF Waiting, MaySend
  <2>5. \/ Waiting(r)' \subseteq Waiting(r) \ {s} /\ failed'[r] = failed[r]
        \/ Waiting(r)' \subseteq Waiting(r) /\ failed'[r] = failed[r] + 1
    BY <2>2, <2>3, <2>4
  <2> QED
    BY <1>5, <2>1, <2>2, <2>5, RepliedPaid
<1>11. CASE r # q
  <2>1. MaySend(s, r)' <=> MaySend(s, r)
    BY <1>2, <1>3, <1>4, <1>8, <1>11 DEF MaySend
  <2>2. Waiting(r)' \subseteq Waiting(r)
    BY <1>7, <2>1 DEF Waiting
  <2>3. replied'[r] = replied[r] /\ failed'[r] = failed[r]
    BY <1>1, <1>3, <1>9, <1>11 DEF HistoryTypes
  <2>4. Rounds(r) <= Rounds(r)' /\ failed[r] <= failed'[r]
    BY <1>5, <1>9, <2>3
  <2> QED
    BY <2>2, <2>3, <2>4, StillPaid
<1> QED
  BY <1>10, <1>11

\* A callback deletes what it replied to: the request is gone from the queue.
LEMMA AnsweredPaid ==
  ASSUME TypeInv, TypeInv', Safe, NEW r \in 1..Last, r \in 1..Last', Paid(r),
         MergedStep(r), NEW s \in Senders, DelAnAnsweredTask(s)
  PROVE  Paid(r)'
<1>1. QueueTypes /\ SenderTypes
  BY TypeParts DEF Parts, TypeInv
<1>2. PICK q : q = reply[s].request
  OBVIOUS
<1>3. ErasedOf(q)
  <2>1. Erase(reply[s].trigger) /\ Fits(reply[s])
    BY DEF DelAnAnsweredTask, Safe, AllFit
  <2>2. \A k \in DOMAIN m_Tasks : m_Tasks[k].trigger = m_Tasks[k].request
    BY DEF Safe, AllFit, Fits
  <2> QED
    BY <1>1, <1>2, <2>1, <2>2, Erased DEF ErasedOf, Fits
<1>4. /\ HasMerged(r)' => HasMerged(r)
      /\ r = q => ~HasMerged(r)'
  BY <1>3 DEF ErasedOf, HasMerged, Entries, Unmerged
<1>5. /\ spc[s] = "delete" /\ spc'[s] = "take"
      /\ \A x \in Senders \ {s} : spc'[x] = spc[x] /\ reply'[x] = reply[x]
      /\ UNCHANGED <<message, replied, packaged, failed>>
  BY <1>1 DEF DelAnAnsweredTask, SenderTypes, recvVars, history
<1>6. MaySend(s, r)' => MaySend(s, r)
  BY <1>2, <1>4, <1>5 DEF MaySend
<1>7. \A x \in Senders \ {s} : MaySend(x, r)' => MaySend(x, r)
  BY <1>4, <1>5 DEF MaySend
<1>8. Waiting(r)' \subseteq Waiting(r)
  BY <1>6, <1>7 DEF Waiting
<1>9. packaged[r] \in Nat /\ failed[r] \in Nat
  BY LedgerNumbers
<1>10. Rounds(r) <= Rounds(r)' /\ replied'[r] = replied[r] /\ failed[r] <= failed'[r]
  BY <1>5, <1>9 DEF Rounds, MergedStep
<1> QED
  BY <1>8, <1>10, StillPaid

\* The first part of the ledger, for a request that is not new.
LEMMA PaidKept ==
  ASSUME IInv, IInv', Ledger, [Next]_vars, NEW r \in 1..Last
  PROVE  r \in 1..Last' /\ message'[r] = message[r] /\ Paid(r)'
<1>1. TypeInv /\ TypeInv' /\ MayAdvance /\ Safe
  BY DEF IInv
<1>2. r \in 1..Last' /\ message'[r] = message[r]
  BY <1>1, Grows DEF Safe
<1>3. Paid(r) /\ MergedStep(r)
  BY <1>1, EveryMergedStep DEF Ledger
<1>4. packaged[r] \in Nat
  BY <1>1, LedgerNumbers
<1>5. ASSUME UNCHANGED <<senderVars, replied, failed>>,
             packaged'[r] \in {packaged[r], packaged[r] + 1}
      PROVE  Paid(r)'
  BY <1>1, <1>2, <1>3, <1>5, QuietPaid DEF senderVars
<1>6. ASSUME UNCHANGED <<senderVars, replied, packaged, failed>> PROVE Paid(r)'
  BY <1>5, <1>6
<1>7. ASSUME NEW w \in Workers, PushPackaged(w) PROVE Paid(r)'
  <2>1. packaged' = [packaged EXCEPT ![task[w].request] = @ + 1] /\ HistoryTypes
    BY <1>1, <1>7, TypeParts DEF Parts, TypeInv, PushPackaged
  <2>2. packaged'[r] \in {packaged[r], packaged[r] + 1}
    BY <2>1 DEF HistoryTypes
  <2> QED
    BY <1>5, <1>7, <2>2 DEF PushPackaged
<1>8. ASSUME NEW w \in Workers, WorkerStep(w) PROVE Paid(r)'
  BY <1>6, <1>7, <1>8
  DEF WorkerStep, GetAnImageProcessTask, SkipTask, FinishTask, LeaveToOthers, MergeTasks,
      ChangeTasksProcessType, DelAnImageProcessTask, history
<1>9. ASSUME NEW s \in Senders, SenderStep(s) PROVE Paid(r)'
  BY <1>1, <1>2, <1>3, <1>9, TakePaid, SendPaid, AnsweredPaid DEF SenderStep
<1>10. ASSUME NEW m \in Messages, ProcessOneRMes(m) PROVE Paid(r)'
  BY <1>6, <1>10 DEF ProcessOneRMes, history
<1>11. CASE PushAnImageProcessTask \/ Disconnected \/ Connected
  BY <1>2, <1>6, <1>11 DEF PushAnImageProcessTask, Disconnected, Connected, history
<1>12. CASE UNCHANGED vars
  BY <1>2, <1>6, <1>12 DEF vars, history
<1> QED
  BY <1>2, <1>8, <1>9, <1>10, <1>11, <1>12 DEF Next

\* What a step does to the counters.
CountersStep ==
  \/ UNCHANGED <<replied, packaged, failed>>
  \/ /\ UNCHANGED <<replied, failed>>
     /\ \E w \in Workers :
          /\ pc[w] = "push"
          /\ packaged' = [packaged EXCEPT ![task[w].request] = @ + 1]
  \/ /\ UNCHANGED packaged
     /\ \E s \in Senders :
          /\ spc[s] = "send"
          /\ \A r \in Requests \ {reply[s].request} :
               replied'[r] = replied[r] /\ failed'[r] = failed[r]

\* Every step is of that kind.
LEMMA CountersOfStep == ASSUME TypeInv, [Next]_vars PROVE CountersStep
<1>1. HistoryTypes
  BY TypeParts DEF Parts, TypeInv
<1>2. ASSUME UNCHANGED history PROVE CountersStep
  BY <1>2 DEF history, CountersStep
<1>3. ASSUME NEW w \in Workers, SkipTask(w) \/ FinishTask(w) PROVE CountersStep
  BY <1>3 DEF SkipTask, FinishTask, history, CountersStep
<1>4. ASSUME NEW w \in Workers, PushPackaged(w) PROVE CountersStep
  BY <1>4 DEF PushPackaged, CountersStep
<1>5. ASSUME NEW s \in Senders, Send(s) PROVE CountersStep
  BY <1>1, <1>5 DEF Send, HistoryTypes, CountersStep
<1> QED
  BY <1>2, <1>3, <1>4, <1>5
  DEF Next, WorkerStep, SenderStep, ProcessOneRMes, PushAnImageProcessTask,
      GetAnImageProcessTask, LeaveToOthers, MergeTasks, ChangeTasksProcessType,
      DelAnImageProcessTask, GetAnFinishedImageProcessTask, DelAnAnsweredTask, Disconnected,
      Connected, vars

\* A request of one picture is never packaged.
OnePicture == \A r \in 1..Last : message[r].images = 1 => packaged[r] = 0

\* A task is merged only when it has several pictures.
SeveralPictures == \A w \in Workers : pc[w] \notin {"get", "work"} => task[w].total # 1

\* Nothing is counted for a request that has not come.
NotYet == \A r \in Requests \ (1..Last) : replied[r] = 0 /\ packaged[r] = 0 /\ failed[r] = 0

\* The parts of the ledger.
LEMMA LedgerParts ==
  /\ Ledger <=> /\ \A r \in 1..Last : Paid(r)
                /\ OnePicture /\ SeveralPictures /\ NotYet
                /\ Senders = {} => \A r \in Requests : failed[r] = 0
  /\ Ledger' <=> /\ (\A r \in 1..Last : Paid(r))'
                 /\ OnePicture' /\ SeveralPictures' /\ NotYet'
                 /\ (Senders = {} => \A r \in Requests : failed[r] = 0)'
BY DEF Ledger, OnePicture, SeveralPictures, NotYet

\* A worker goes on to package only a task of several pictures.
LEMMA SeveralStep ==
  ASSUME IInv, SeveralPictures, [Next]_vars
  PROVE  SeveralPictures'
<1>1. WorkerTypes /\ QueueTypes /\ TypeInv /\ Safe
  BY TypeParts DEF Parts, TypeInv, IInv
<1>2. ASSUME UNCHANGED <<pc, task>> PROVE SeveralPictures'
  BY <1>2 DEF SeveralPictures
<1>3. ASSUME NEW w \in Workers,
             \A v \in Workers \ {w} : pc'[v] = pc[v] /\ task'[v] = task[v],
             pc'[w] \notin {"get", "work"} => task'[w].total # 1
      PROVE  SeveralPictures'
  BY <1>3 DEF SeveralPictures
<1>4. ASSUME NEW w \in Workers, GetAnImageProcessTask(w) PROVE SeveralPictures'
  <2>1. \A v \in Workers \ {w} : pc'[v] = pc[v] /\ task'[v] = task[v]
    BY <1>1, <1>4 DEF GetAnImageProcessTask, WorkerTypes
  <2>2. pc'[w] = "work"
    BY <1>1, <1>4 DEF GetAnImageProcessTask, WorkerTypes
  <2> QED
    BY <1>3, <2>1, <2>2
<1>5. ASSUME NEW w \in Workers, Return(w) PROVE SeveralPictures'
  <2>1. \A v \in Workers \ {w} : pc'[v] = pc[v] /\ task'[v] = task[v]
    BY <1>1, <1>5 DEF Return, WorkerTypes
  <2>2. pc'[w] = "get"
    BY <1>1, <1>5 DEF Return, WorkerTypes
  <2> QED
    BY <1>3, <2>1, <2>2
<1>6. ASSUME NEW w \in Workers, FinishTask(w) PROVE SeveralPictures'
  <2>1. PICK t : \/ Return(w)
                 \/ /\ t.total # 1
                    /\ pc' = [pc EXCEPT ![w] = "collect"]
                    /\ task' = [task EXCEPT ![w] = t]
    BY <1>6 DEF FinishTask
  <2>2. CASE ~Return(w)
    <3>1. \A v \in Workers \ {w} : pc'[v] = pc[v] /\ task'[v] = task[v]
      BY <1>1, <2>1, <2>2 DEF WorkerTypes
    <3>2. task'[w] = t
      BY <1>1, <2>1, <2>2 DEF WorkerTypes
    <3> QED
      BY <1>3, <2>1, <2>2, <3>1, <3>2
  <2> QED
    BY <1>5, <2>2
<1>7. ASSUME NEW w \in Workers, MergeTasks(w) PROVE SeveralPictures'
  <2>1. PICK merged, p :
          /\ merged = MergeHomoTasks(Restrict(m_Tasks, WaitPackageTasks(task[w])))
          /\ task' = [task EXCEPT ![w] = merged]
          /\ pc' = [pc EXCEPT ![w] = p]
          /\ pc[w] = "collect"
          /\ Cardinality(WaitPackageTasks(task[w])) >= task[w].total
    BY <1>7 DEF MergeTasks
  <2>2. task[w] \in Task /\ task[w].total > 0 /\ task[w].total # 1 /\ Fits(task[w])
    BY <1>1, <2>1 DEF WorkerTypes, SeveralPictures, TypeInv, Counted, Safe, AllFit
  <2>3. PICK k \in WaitPackageTasks(task[w]) : merged.total = m_Tasks[k].total
    BY <1>1, <2>1, <2>2, Merged
  <2>4. m_Tasks[k].trigger = task[w].trigger /\ Fits(m_Tasks[k])
    BY <1>1, <2>3 DEF WaitPackageTasks, Of, Safe, AllFit
  <2>5. merged.total = task[w].total
    BY <2>2, <2>3, <2>4 DEF Fits
  <2>6. \A v \in Workers \ {w} : pc'[v] = pc[v] /\ task'[v] = task[v]
    BY <1>1, <2>1 DEF WorkerTypes
  <2>7. task'[w] = merged
    BY <1>1, <2>1 DEF WorkerTypes
  <2> QED
    BY <1>3, <2>2, <2>5, <2>6, <2>7
<1>8. ASSUME NEW w \in Workers, DelAnImageProcessTask(w) PROVE SeveralPictures'
  BY <1>1, <1>8 DEF DelAnImageProcessTask, WorkerTypes, SeveralPictures
<1>9. ASSUME NEW w \in Workers, WorkerStep(w) PROVE SeveralPictures'
  BY <1>4, <1>5, <1>6, <1>7, <1>8, <1>9
  DEF WorkerStep, SkipTask, LeaveToOthers, ChangeTasksProcessType, PushPackaged
<1>10. ASSUME UNCHANGED workerVars PROVE SeveralPictures'
  BY <1>2, <1>10 DEF workerVars
<1> QED
  BY <1>9, <1>10
  DEF Next, SenderStep, ProcessOneRMes, PushAnImageProcessTask, GetAnFinishedImageProcessTask,
      Send, DelAnAnsweredTask, Disconnected, Connected, vars

\* The ledger holds at the start.
LEMMA InitLedger == Init => Ledger
<1> SUFFICES ASSUME Init PROVE Ledger
  OBVIOUS
<1>1. Last = 0 /\ 1..Last = {}
  BY DEF Init, Last
<1>2. \A r \in Requests : replied[r] = 0 /\ packaged[r] = 0 /\ failed[r] = 0
  BY DEF Init
<1>3. \A w \in Workers : pc[w] = "get"
  BY DEF Init
<1> QED
  BY <1>1, <1>2, <1>3 DEF Ledger

\* Every step keeps it.
LEMMA StepLedger ==
  ASSUME IInv, IInv', Ledger, [Next]_vars
  PROVE  Ledger'
<1>1. TypeInv /\ TypeInv' /\ Safe
  BY DEF IInv
<1>2. /\ HistoryTypes /\ RecvTypes' /\ WorkerTypes /\ HistoryTypes' /\ SenderTypes
      /\ Last \in Nat /\ Last' \in Nat
  BY <1>1, TypeParts DEF Parts, TypeInv, RecvTypes, Last
<1>3. /\ \A r \in 1..Last : Paid(r)
      /\ OnePicture /\ SeveralPictures /\ NotYet
      /\ Senders = {} => \A r \in Requests : failed[r] = 0
  BY LedgerParts
<1>4. CountersStep
  BY <1>1, CountersOfStep
<1>5. ASSUME NEW w \in Workers, pc[w] = "push"
      PROVE  task[w].request \in 1..Last /\ message[task[w].request].images # 1
  BY <1>1, <1>3, <1>5 DEF Safe, AllFit, Fits, SeveralPictures
<1>6. ASSUME NEW s \in Senders, spc[s] = "send" PROVE reply[s].request \in 1..Last
  BY <1>1, <1>6 DEF Safe, AllFit, Fits
<1>7. 1..Last \subseteq 1..Last' /\ 1..Last' \subseteq Requests
  <2>1. \A r \in 1..Last : r \in 1..Last'
    BY PaidKept
  <2>2. 1..Last' \subseteq Requests
    BY <1>2, QueueAssumption DEF RecvTypes, Requests, QueueAssumption
  <2> QED
    BY <2>1, <2>2
<1>8. ASSUME NEW r \in Requests \ (1..Last)
      PROVE  replied'[r] = 0 /\ packaged'[r] = 0 /\ failed'[r] = 0
  <2>1. replied[r] = 0 /\ packaged[r] = 0 /\ failed[r] = 0
    BY <1>3 DEF NotYet
  <2> QED
    BY <1>2, <1>4, <1>5, <1>6, <2>1 DEF CountersStep, HistoryTypes
<1>9. NotYet'
  BY <1>7, <1>8 DEF NotYet
<1>10. OnePicture'
  <2> SUFFICES ASSUME NEW r \in 1..Last', message'[r].images = 1 PROVE packaged'[r] = 0
    BY DEF OnePicture
  <2>1. CASE r \in 1..Last
    <3>1. message[r].images = 1 /\ packaged[r] = 0
      BY <1>3, <2>1, PaidKept DEF OnePicture
    <3> QED
      BY <1>2, <1>4, <1>5, <1>7, <2>1, <3>1 DEF CountersStep, HistoryTypes
  <2>2. CASE r \notin 1..Last
    BY <1>7, <1>8, <2>2
  <2> QED
    BY <2>1, <2>2
<1>11. SeveralPictures'
  BY <1>3, SeveralStep
<1>12. ASSUME NEW r \in 1..Last', r \notin 1..Last PROVE Paid(r)'
  <2>1. replied'[r] = 0 /\ failed'[r] = 0
    BY <1>7, <1>8, <1>12
  <2>2. PICK m \in Messages : ProcessOneRMes(m)
    <3>1. Last' # Last
      BY <1>12
    <3> QED
      BY <3>1
      DEF Next, WorkerStep, SenderStep, PushAnImageProcessTask, GetAnImageProcessTask,
          SkipTask, FinishTask, LeaveToOthers, MergeTasks, ChangeTasksProcessType,
          DelAnImageProcessTask, PushPackaged, GetAnFinishedImageProcessTask, Send,
          DelAnAnsweredTask, Disconnected, Connected, vars, recvVars, Last
  <2>3. UNCHANGED <<m_Tasks, spc, reply>>
    BY <2>2 DEF ProcessOneRMes, queueVars, senderVars
  <2>4. Waiting(r)' = {}
    <3>1. \A k \in DOMAIN m_Tasks : m_Tasks[k].request # r
      BY <1>1, <1>12 DEF Safe, AllFit, Fits
    <3>2. \A s \in Senders : spc[s] # "take" => reply[s].request # r
      BY <1>1, <1>12 DEF Safe, AllFit, Fits
    <3> QED
      BY <2>3, <3>1, <3>2 DEF Waiting, MaySend, HasMerged, Entries
  <2>5. Cardinality(Waiting(r)') = 0
    BY <2>4, FS_EmptySet
  <2>6. Rounds(r)' \in Nat /\ Cardinality(Senders) \in Nat
    <3>1. Rounds(r)' \in Nat
      BY <1>1, LedgerNumbersNext
    <3>2. Cardinality(Senders) \in Nat
      BY QueueAssumption, FS_CardinalityType DEF QueueAssumption
    <3> QED
      BY <3>1, <3>2
  <2>7. Cardinality(Senders) * Rounds(r)' \in Nat
    BY <2>6
  <2>8. replied'[r] + Cardinality(Waiting(r)') <= Cardinality(Senders) * Rounds(r)' + failed'[r]
    BY <2>1, <2>5, <2>7
  <2> QED
    BY <2>8 DEF Paid
<1>13. (\A r \in 1..Last : Paid(r))'
  BY <1>12, PaidKept
<1>14. (Senders = {} => \A r \in Requests : failed[r] = 0)'
  BY <1>3, <1>4 DEF CountersStep
<1> QED
  BY <1>9, <1>10, <1>11, <1>13, <1>14, LedgerParts

\* The greater of 1 and a number of packages is no less than the rounds they count for.
LEMMA MaxOfOne ==
  ASSUME NEW p \in Nat
  PROVE  Max({1, p}) \in Nat /\ 1 <= Max({1, p}) /\ p <= Max({1, p})
<1> DEFINE S == {1, p}
<1>1. \E x \in S : \A y \in S : x >= y
  <2>1. CASE p <= 1
    BY <2>1
  <2>2. CASE p > 1
    BY <2>2
  <2> QED
    BY <2>1, <2>2
<1>2. Max(S) \in S /\ \A y \in S : Max(S) >= y
  <2> HIDE DEF S
  <2> QED
    BY <1>1 DEF Max
<1> QED
  BY <1>2

\* What the ledger allows is what is promised.
LEMMA Allowed ==
  ASSUME NEW n \in Nat, NEW a \in Nat, NEW m \in Nat, NEW f \in Nat, NEW x \in Nat,
         NEW y \in Nat, a <= m, n # 0 \/ f = 0, x + y <= n * a + f
  PROVE  x <= n * (m + f)
<1>1. n * a \in Nat /\ n * m \in Nat /\ n * a <= n * m
  BY MoreRounds
<1>2. n * (m + f) = n * m + n * f
  OBVIOUS
<1>3. f <= n * f /\ n * f \in Nat
  <2>1. CASE f = 0
    BY <2>1
  <2>2. CASE f # 0
    <3>1. n >= 1 /\ 1 <= n
      BY <2>2
    <3>2. f * 1 <= f * n
      BY <3>1, MoreRounds
    <3>3. f * 1 = f /\ f * n = n * f /\ n * f \in Nat
      OBVIOUS
    <3> QED
      BY <3>2, <3>3
  <2> QED
    BY <2>1, <2>2
<1> DEFINE na == n * a
           nm == n * m
           nf == n * f
           z == n * (m + f)
<1>4. na \in Nat /\ nm \in Nat /\ nf \in Nat /\ na <= nm /\ f <= nf /\ z = nm + nf
      /\ x + y <= na + f
  BY <1>1, <1>2, <1>3
<1> HIDE DEF na, nm, nf, z
<1>5. x <= z
  BY <1>4
<1> QED
  BY <1>5 DEF z

(* A request gets at most one reply of each callback for each time it came *)
(* into the queue merged and for each send that was taken for a failure,   *)
(* however the callbacks of the timer overlap.                             *)
THEOREM RepliesAreBounded == DistinctTicks = TRUE => (Spec => []RepliesBounded)
<1> SUFFICES ASSUME DistinctTicks = TRUE PROVE Spec => []RepliesBounded
  OBVIOUS
<1>1. Init => Ledger
  BY InitLedger
<1>2. IInv /\ IInv' /\ Ledger /\ [Next]_vars => Ledger'
  BY StepLedger
<1>3. IInv /\ Ledger => RepliesBounded
  <2> SUFFICES ASSUME IInv, Ledger, NEW r \in Requests
               PROVE  replied[r] <= Cardinality(Senders) * (Max({1, packaged[r]}) + failed[r])
    BY DEF RepliesBounded
  <2>1. TypeInv /\ HistoryTypes
    BY TypeParts DEF Parts, TypeInv, IInv
  <2>2. Cardinality(Senders) \in Nat /\ (Cardinality(Senders) = 0 => Senders = {})
    BY QueueAssumption, FS_CardinalityType, FS_EmptySet DEF QueueAssumption
  <2>3. replied[r] \in Nat /\ packaged[r] \in Nat /\ failed[r] \in Nat
    BY <2>1 DEF HistoryTypes
  <2>4. Max({1, packaged[r]}) \in Nat /\ 1 <= Max({1, packaged[r]})
        /\ packaged[r] <= Max({1, packaged[r]})
    BY <2>3, MaxOfOne
  <2>5. Cardinality(Senders) # 0 \/ failed[r] = 0
    BY <2>2 DEF Ledger
  <2>6. CASE r \in 1..Last
    <3>1. Rounds(r) \in Nat /\ Cardinality(Waiting(r)) \in Nat
      BY <2>1, <2>6, LedgerNumbers
    <3>2. replied[r] + Cardinality(Waiting(r))
            <= Cardinality(Senders) * Rounds(r) + failed[r]
      BY <2>6 DEF Ledger, Paid
    <3>3. Rounds(r) <= Max({1, packaged[r]})
      BY <2>3, <2>4, <2>6 DEF Ledger, Rounds
    <3> QED
      BY <2>2, <2>3, <2>4, <2>5, <3>1, <3>2, <3>3, Allowed
  <2>7. CASE r \notin 1..Last
    <3>1. replied[r] = 0 /\ failed[r] = 0
      BY <2>7 DEF Ledger
    <3>2. Cardinality(Senders) * (Max({1, packaged[r]}) + failed[r]) \in Nat
      BY <2>2, <2>3, <2>4
    <3> QED
      BY <3>1, <3>2
  <2> QED
    BY <2>6, <2>7
<1> QED
  BY <1>1, <1>2, <1>3, Invariance, PTL DEF Spec

=============================================================================
