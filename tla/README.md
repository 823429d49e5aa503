# A TLA+ model of the Thai post OCR programs

The repository holds the programs that read postcodes on pictures of parcels for
an *image server* (IMG) of the Thai post. The image server sends a request with
the paths of the one to five pictures of a parcel; the OCR program reads them and
answers with a postcode, or with the reason why there is none.

This directory holds TLA+ modules of the parts of the repository that have logic of
their own, TLC configurations that check them, and TLAPS proofs about them. The
paths below are relative to `src/`.

## Inventory

### Phase 2: the main program (`Source_include/MainWorker.*`, `Projects/ConsoleMainFrameV2`)

`OCR_MainWoker` keeps a vector of tasks, `m_tasks_pool`, under one mutex. A task
(`TaskData`) is one picture; its `m_flag_state` (`PROCESS_STATE`) says which stage is
next. One thread per stage looks for the first task in its state:

| thread | takes | gives |
| --- | --- | --- |
| `thread_recv_msg` | a message of the client | one task per picture, `OPEN` then `LOAD_IMAGE` |
| `thread_load_image` | `LOAD_IMAGE`, marks `IS_LOAD_IMAGE` | `CUT_PARCEL`, or `PACKAGE` if the file cannot be read |
| `thread_cut_parcel` | `CUT_PARCEL` | `DETECTION`, or `PACKAGE` if there is no parcel |
| `thread_detect_tags` | `DETECTION`, marks `IS_DETECTION` | the OCR state of a tag it found, or `PACKAGE` |
| `thread_ocr_std_tag` | `OCR_STD_TAG` | `PACKAGE` |
| `thread_ocr_arb_tag` | `OCR_ARB_TAG`, `OCR_WIN_TAG`, `OCR_LOTTERY_TAG` | `PACKAGE` |
| `thread_ocr_hwrt_box` | `OCR_HANDWRITE_BOX` | `PACKAGE` |
| `thread_package_tasks` | `PACKAGE`, when every picture of the request is there | one merged task in `SEND_TASK`, the others erased |
| `thread_send_msg` | `SEND_TASK` | a reply to the client if it is connected; the task is erased |

The operator's window (`THP_OCRDlg`) pushes pictures by hand (`push_debug_image`),
shows the counters and resets them.

*Hard:* the states are changed under the mutex, the work is done outside of it, on raw
pointers that another thread deletes later; most stages do not mark the task they
take; notifications are sent after the unlock; two threads need a wake-up, the others
poll. *Correct when:* no two threads share a task; none is freed or moved under a
thread; no wake-up is lost; a request is merged when all its pictures are done and not
before; it is answered once, with what was read; nothing stays in the pool for ever.

### Phase 2: the connection (`Source_include/CPTENetworkServer.*`)

`NetworkClient` has a receive and a send thread that connect again for ever, a queue of
received messages and one of messages to send, and cuts the byte stream into frames
(`:` ... CR LF). `NetworkServer` is the other side: one receive and one send thread for
each client, a queue of at most 512 messages for each. Messages are hexadecimal text
with a one-byte checksum. *Hard:* a reconnection in the middle of a frame, messages
queued for a dead connection, the order of starting threads and registering a client,
a flag that announces messages. *Correct when:* what is delivered is what was sent, in
order and once, and nothing that was accepted waits for ever.

### Phase 1 (`Projects/ImgprcOCRInstance3.0_0518/ImgprcOCRInstance`)

`CImgprcOCRInstanceView` keeps a vector of tasks, `m_Tasks`, under one critical section.
Three workers (`ImageProcessThread`) each take the first unprocessed task, load and read
its picture outside of the lock and put the result back; there is no packaging thread.
The worker that finds all pictures of a request waiting merges its copies of them, and
either moves the tasks in the queue on to the next *processing type* (standard tag, then
handwriting box, then arbitrary tag) or replaces them by one finished task. A timer sends
finished tasks to the image server and deletes them. `MPFCommuication` parses frames byte
by byte and keeps received messages in a ring of 240; the bytes come from the ring of
`FSock`. A second timer drives both and splits a request into tasks. A window timer
watches the connection and makes it again.

*Hard:* a worker's decision and its effect are four critical sections, so several workers
package the same request; a picture is shared by pointer between copies of a task; the
timers' callbacks may overlap; whether a reply was sent is taken from `GetLastError`;
requests are told apart by the tick they were received on; the parser's state outlives a
connection; the ring overtakes its reader. *Correct when:* no two workers read the same
picture, none is read twice for a type or freed while needed, no request is lost, each
reply says what was read, and what was accepted was sent and is handled. The copy in
`2.0_1103` is an earlier version of the same program.

### Not programs of their own

The recognition algorithms (`OcrAlgorithm`, `PostcodeAlgorithm*`, `CutParcelBox*`,
`yolo_v3`, ...) are sequential computations on pictures; the pipeline sees only their
outcomes. Two parts at their end are not numerical: how the postcode is taken out of the
text that was recognised, by scores, a small state machine and cuts by length, and which
of the overlapping boxes of a detector are kept. *Hard:* boundaries of scores, lengths
and groups, a text that is cut in the middle of a word, an unstable sort. *Correct when:*
the code reported was read, a clean code is not lost, and one box is left for each tag.
The rest is test programs, a COM stub, an unused data base wrapper, and
vendored libraries (`external_include`, `common`, `tinyxml2`, `wavelet2d`, `kiss_fft`,
`ThreadPool.h`). `PROJECT.json` lists them all with what is modelled of each.

## Plan

Modules, in the order they are written:

1. `TaskPipeline`, `TaskMerge`, `ParcelService` - the heart of the phase-2 program,
   and what it promises. *Done*, with nine theorems, the refinement one of them.
2. `MessageCodec`, `NetClient`, `LossyQueue` - coding and checksum, frames, queues and
   reconnection of `NetworkClient`, and the queue it promises. *Done*, with nine
   theorems, the refinement one of them.
3. `ImgprcQueue` - the phase-1 queue, its workers, the packaging and the reply timer.
   *Done*, with seven theorems.
4. `MPFComm`, `NewestMessages` - the phase-1 parser and its rings, and the queue the ring
   of messages promises. *Done*, with five theorems, the refinement one of them.
5. `PostcodeText`, `TagBoxes` - the postcode in a text and the choice among boxes, as pure
   operators. *Done*, with six theorems, those on messages included.

Every invariant and action property of the passing runs, and every refinement, is a
theorem (of the phase-1 queue, for the instances where no two requests share a tick). Left
to the model checker are the liveness properties. Next: an abstract promise of the phase-1
queue, as `ParcelService` is one of the pipeline, and its refinement.
Planned before and dropped: the counters of the window (`OcrStatistics`), which are only
displayed, and `NetworkServer`, of which no program creates an object.

## The modules

- `TaskMerge` - pure operators: `_merge_tasks`, `merge_same_type_task` and
  `_convert_task2msg` on records of the fields that decide the reply.
- `TaskPipeline` - the state machine. EXTENDS `TaskMerge`.
- `ParcelService` - what the image server is promised: the pictures of a request are
  finished in any order, and when all are, and not before, there is one reply.
- `MCTaskPipeline` - the small instances for TLC.
- `TaskPipelineProofs` - the theorems on the pipeline and their proofs, the refinement of
  `ParcelService` among them.
- `TaskPipelineReplies` - theorems on what it replies.
- `MessageCodec` - pure operators: hexadecimal text, checksum, `find_full_string`.
- `MessageCodecProofs` - lemmas on them, which the proofs about parsers use.
- `PostcodeText` - pure operators: the code on a standard tag, and on the others.
- `TagBoxes` - pure operators: `nms_multi_class` and `nms_rotated_rect`.
- `MCAlgorithms` - runs the three on all short inputs. `MCAlgorithmsProofs` - the theorems,
  for inputs of every length.
- `NetClient` - the connection. EXTENDS `MessageCodec`.
- `LossyQueue` - what the connection promises for replies: some are refused or lost, the
  others arrive whole, once and in order.
- `MCNetClient`, `NetClientProofs` - small instances; theorems.
- `ImgprcQueue` - the phase-1 queue with everything that touches it. `MCImgprcQueue`,
  `ImgprcQueueProofs` - small instances; theorems. `ImgprcQueueReplies` - theorems on
  what it replies.
- `MPFComm` - how phase 1 receives. EXTENDS `MessageCodec`, whose frames it shares.
- `NewestMessages` - a queue that gives up its oldest message when it is full.
- `MCMPFComm`, `MPFCommProofs` - small instance; theorems.

### State and actions of TaskPipeline

`st` is `m_flag_state` (`"NONE"`: not in the pool), `pos` the order of `m_tasks_pool`,
`data` the other fields of the tasks that matter, `total` is `m_image_total_num`. `recv`
and `gui` are the program counters of the two producers, `pc` and `hold` those of the
other threads and their local `ptask`; `stem` is what is left of the packager's vector
`tasks`. `answers`, `lost`, `sent` and `reads` record what happened, for the properties.

A step is a critical section, or the work between two of them. A thread that has
finished its work writes the task's fields and calls `_update_one_task_sp`; nobody else
looks at those fields until the state changes, so both are one step (`FinishTask`) - which
is what `ExclusiveWork` and `OwnedStaysInStage` justify. The *notification* at the end of
`_update_one_task_sp` reads the state once more after the unlock: it is a step of its own
(`NotifyLoader`, `NotifyDetector`) wherever it can wake somebody up, with `pc` of the
waiting threads as the condition variable. The detector and the loader go from
`"acquire"` to `"waiting"` only when there is nothing to do, in one critical section as
`wait` does. Spurious wake-ups are left out: they only return a thread to the check it
made before.

Reading past the end of the path list (`img_pathes_vec[i]`, line 432) is undefined: the
model goes on with some string, or stops (`ReadPastPaths`).

What is left to choice: the messages the image server sends (`Messages`), whether a
picture can be read, whether there is a parcel, the tags found (`TagSets`), the postcode
read or none, and whether the client is connected when a reply is generated.

`Loaders` and `Detectors` stand for `num_loader` and `num_detector`, which `initial`
sets to 1. The runs have two detectors where symmetry makes it affordable, since the
code is written for several.

### State and actions of NetClient

`rpc`, `binded`, `try_times` and `msgdata` are the receive thread; `spc`, `outgoing` (its
`msgdata`) and `try_send_num` the send thread. `link` is the TCP connection with the
socket's own flag: it is not `"down"` from a successful `Connect` until `Close`. After
`Break` the connection is dying until the receive thread closes it: a prefix of what was
on the way still arrives, then `Receive` throws, after a report of a timeout or not, while
`Send` may throw or take data that goes nowhere. `said`, `got` (the symbols received),
`pushed`, `carried`, `begun` and `heard` record what happened, for the properties.

What *arrives* is a sequence of symbols - digits of base `Base`, colon, CR, LF - since the
property is that the place where `Receive` cuts it makes no difference; one turn of the
parser's loop is one step, as it takes the lock once. What is *sent* is a sequence of
parts of numbered replies, since all that counts is which parts reach the same
connection. The two directions share only the connection.

The image server is external: it sends whole frames (`ServerSends`) and reads replies as
the receive thread does (`ServerHears`): the rest of a reply whose beginning went to an
earlier connection has no start marker and is ignored. Two threads use one socket object
without a lock; a `Send` that overlaps `Close` is modelled as one that fails.

### State and actions of ImgprcQueue

`m_Tasks` is the vector as a function on positions that only grow: `push_back` takes the
next one and erasing leaves a gap, so "the first" is the least position. `message`,
`trigger` and `next` are the receiving timer: the requests, the tick of each
(`m_dwTimeTrigger`), and the subtask `ProcessOneRMes` pushes next - the workers start on
the first one while the rest is still outside. `pc`, `task` and `mats` are the workers
and their local `mtask` and `waitPackageTasks`; `spc` and `reply` the callbacks of the
reply timer. `replied`, `packaged`, `failed`, `scans`, `reads` and `freed` record what
happened, for the properties.

Each critical section is an action. The work of a worker on a picture and
`OnAnImageProcessTaskOver` are one step (`FinishTask`), because the worker's copy is its
own until then - `ExclusiveWork` is the reason. `MergeTasks` is `GetWaitPackageTasks`, the
merge of the copies and the choice of what to do, since only the first touches the queue;
`ChangeTasksProcessType`, `DelAnImageProcessTask` and `PushPackaged` follow in steps of
their own, so that another worker may be anywhere in the same sequence.
`CopyImageFilesFromServer` only fails if the request has no path; such a task is over
without packaging (`SkipTask`).

A postcode is the picture, the type and a number, so that which picture gave what can be
told in the reply. The index a reply carries (`at`) counts from 0 if it is that of the
first picture of the merge, from 1 if it is a later one's (PorcessTask:370 and
MergeHomoTasks:1374); `Reports` in `ReplyReportsReads` says what holds of it.

A send leaves or does not, and `GetLastError` is 0 or not: it need not be 0 after a
success, as the error of any earlier call on the same thread of the pool stays visible, so
a reply that left may be taken for one that did not. `Senders` are the
callbacks that may run at once: `CreateTimerQueueTimer` is called with flags 0
(Timer.cpp:120), so a callback that takes longer than the period is joined by another.
The receiving timer is created the same way, but its callback only parses and pushes; it
is assumed to end within its period.

`DistinctTicks` says whether two requests may get the same `GetTickCount`. The code
treats it as an identity (`ImgprcTask.h:96`); all runs and theorems about requests assume
that it is one. With `FALSE`, `NoRequestLost` fails: one answer deletes both.

### State and actions of MPFComm

The image server writes frames (`SendRequest`) that arrive in chunks (`OnReceive`) in the
ring `RecBuf`. The callback `TCPClientTask` is `GetReceivedData`, one `AnalyseOneByte` per
symbol, and `GetOneMessage`, each a step, as bytes arrive meanwhile. The four states of
the parser are its four actions. A break loses what is on the wire; the rings and the
parser keep what they have. `m_uchsRevMesNow` keeps the bytes of the message before, as
the code does, and `Valid` looks at them. `sent`, `accepted`, `taken`, `dropped`, `missed`
record what happened.

### PostcodeText, TagBoxes

A text is a sequence of characters, of which the code tells apart the ten digits, the
hyphen, the blank, the end of line, "." and "," together, and all others. `StdTagPostcode`
is `postcodeStringScore`, `format_postcode` and what `thread_ocr_std_tag` does with the
result; the mode is not strict, as no program sets `use_strict_mode`. Scores are fractions
with denominators 96, 150 and 600, so counting in units of 1/2400 is exact; where a
product is just one half (a right half of five digits and three other characters) the
program's arithmetic is exact too. `ScanWords` is the loop of `format_results`, one step
for each character. `MergeGroups` is the loop of `nms_multi_class` with its count and
class; `SortedByClass` has every order the unstable sort may leave. Whether two boxes
overlap too much is external (OpenCV); in the run it is not transitive.

## The runs

The `pipeline_` runs use `MCTaskPipeline`, the `netclient_` runs `MCNetClient`, the
`queue_` runs `MCImgprcQueue`. `CHECK_DEADLOCK FALSE` because the system rests when the
bounded number of requests is done.

| run | instance | shows |
| --- | --- | --- |
| `pipeline_safety` | 2 requests, 1 or 2 images each (3 in all), also empty requests and counts that disagree with the paths; 2 detectors | `TypeOK`, `ExclusiveWork`, `OwnedStaysInStage`, `NoLostWakeup`, `AtMostOneReply`, `PackagedWhole`; implements `ParcelService` |
| `pipeline_results` | 1 request of 3 images or 2 operator images, 2 postcodes, tags of every kind | `ReplyReportsReads`, `DebugRepliesBounded` |
| `pipeline_live` | 2 requests, 3 images, all engines | `EveryRequestAnswered` |
| `pipeline_window_stuck` | WinTagSupport=1, ArbTagSupport=0 | a counterexample to `EveryRequestAnswered` |
| `algorithms` | messages: base 3, up to 3 bytes; texts: up to 5 pieces, each 1, 4, 5 or 6 digits or another character; up to 4 boxes at 4 places, 2 classes | `RoundTrip`, `WrongDigitRefused`; `StdCodeWasRead`, `LastWordIsCode`; `OneBoxPerTag` |
| `netclient_in` | base 2, 2 messages per connection, of 1 and 2 bytes; 1 break | `ParsedAsSent`, `OneWrongPerBreak`, `ConnectsFromLocalPort` |
| `netclient_out` | 3 replies of 2 parts, 2 breaks | `RepliesInOrder` (implements `LossyQueue`), `LostOnlyByBreaks`, `Reconnects`, `RepliesHeard` |
| `netclient_stale` | 1 message per connection, 1 break | a counterexample to `AcceptedWereSent` |
| `queue_safety` | 2 workers, 1 callback, 2 requests of 0 to 2 pictures, with and without path; 2 types, 1 failed send | `ExclusiveWork`, `ScannedOnce`, `NoRequestLost`, `ReplyReportsReads`, `PicturesAlive` |
| `queue_live` | 2 workers, 2 callbacks, 1 request of 2 pictures; 3 types, 1 send that is taken for a failure, whether it left or not, 1 break | `EveryRequestAnswered`, `QueueDrained`, `RepliesBounded` |
| `queue_twice` | 2 workers, 1 request of 2 pictures, nothing fails | a counterexample to `AnsweredOnce` |
| `mpf_comm` | base 2, 4 messages of 3 bytes, rings of 20 symbols and 3 messages, 1 break | `LengthInBounds`, `AcceptedWereSent`, `OneSwallowedPerBreak`, `EveryMessageHandled`, `RingsDrained`; implements `NewestMessages` |

One run of each module also checks its type invariant, `TypeOK`; in that of `NetClient` nothing is
sent, and that it holds of the send thread is a theorem (`TypeCorrect`).

*Why the bounds are enough.* Two requests are needed for one to overtake or block the
other, two images for a request that is not ready, three for a merge in which the
third image disagrees with the first and the second does not. `MaxTasks` bounds the sum
over all requests; a request is only taken if all of its tasks fit. Two postcodes are
enough to agree or disagree, since the merge only tests equality and stops at the first
difference.

For `NetClient`: two messages are needed for one chunk to end one frame and begin the
next, two lengths because a parser that is out of step with frames of one length may
look in step. One break leaves a rest of every length for the next connection. Three
replies let one be lost between two that are heard; two breaks let the rest of one go to
the next connection while another waits through it. `MaxTries` is 100 in the code and 2
here: a thread that gives up after the second failure shows the same interleavings. The
base only fixes how many values a byte has; base 2 has a byte for every case of the
checksum.

For `ImgprcQueue`: two workers and a request of two pictures are what it takes to package
twice; the second request lets an answer, a deletion or a merge reach the wrong tasks.
The two types of `queue_safety` are one change of type, the three of `queue_live` two.
One failed send is one retry, and one reply that left and is sent again. Codes are counted up to one per picture: the merge only
counts and joins them.

For `MPFComm`: a ring of 20 symbols holds two frames of 9 and wraps at every place; a
ring of 3 messages holds 2 and is overrun by the third, the fourth message wraps it. The
buffer of a message is just as long as the messages, so a write past it would show.

For the algorithms: five pieces are two runs of digits with a hyphen between them and
something else on either side or inside; runs of four, five and six are one below, at
and above the lengths of codes, and their sums are 9, 10 and 11; every digit tells its
place, so a code taken from the wrong place differs. Four boxes at four places form
chains of overlaps, so that which box comes first makes a difference.

*Fairness.* `LiveSpec` of `TaskPipeline` asks weak fairness of each thread and of a push that has begun:
they are threads of the operating system in endless loops that block only on the mutex,
on the two condition variables (where the model disables them), on the client's queue
(no request need come) and in sleeps of milliseconds. OCR and image loading
end: the calls that are known to throw are in `try` blocks. Not all are; `substr` at
MainWorker.cpp:865 is not, but a code that is reported has more than five characters
(`postcodeStringScore`), and the OpenCV calls outside of them are assumed not to throw. Weak fairness suffices: a task that is first in its state stays
so until its thread takes it. `LiveSpec` of `NetClient` asks weak fairness of its
threads and of the network's delivery, and strong fairness of `Bind` and `Connect`: both
are tried again every second and may fail, and that they do not fail for ever - the port
becomes free, the image server comes back - is an assumption about the environment.
Breaks are bounded (`MaxBreaks`), and each is noticed: a connection that dies silently
leaves `recv` waiting, as the code has no keep-alive. `LiveSpec` of `ImgprcQueue` asks
weak fairness of each worker and callback and of the pushes of a request - endless loops
and timers of the system - and of the reconnection, which is the same assumption about
the image server; failed sends are finite (`MaxFailures`). `LiveSpec` of `MPFComm` asks
it of the callback, of the arrival of what was written and of the reconnection.
`QueueDrained` and `RingsDrained` are about a bounded number of requests and messages.

### What the violations show

- `pipeline_window_stuck`: `thread_detect_tags` routes window tags by their own switch
  (MainWorker.cpp:621), but the thread that reads them is started only if the arbitrary
  tag is switched on (283). With the one on and the other off such a task stays for ever.
- `netclient_stale`: `msgdata` survives the reconnection (CPTENetworkServer.cpp:881). If
  the connection breaks between the CR and the LF of a message, the next message is
  glued to it and the pair passes the check. `OneWrongPerBreak` bounds the damage.
  `MPFComm` keeps its parser's state over a reconnection too, but has `AcceptedWereSent`:
  it goes back to the start at a character that cannot be there.
- `queue_twice`: `OnAnImageProcessTaskOver` and `GetWaitPackageTasks` are two critical
  sections (ImgprcOCRInstanceView.cpp:1028, 1041). Two workers that finish the last two
  pictures both count two, and both merge, delete and push. The second push follows the
  answer to the first: the image server is answered twice, and both release the same
  pictures (`PicturesAlive` is about pictures freed too early, not about this). `RepliesBounded` states what bounds the number of answers, and `ScannedOnce`
  and `NoRequestLost` that no harm is done to the queue.

Seen while modelling, without a run of their own:

- The index of the image with the postcode counts from 0 (MainWorker.cpp:1525), while 0
  means "not recognised" (MainWorker.h:142). Phase 1 has the same comment and both
  conventions (see above).
- `thread_ocr_arb_tag` reads a window tag although window tags are switched off
  (MainWorker.cpp:1025) if the image was routed to it for another tag.
- With `Postcode10Support=0` (the default of MainWorker.h:61; the ini file has 1) the
  digits behind a hyphen score 1 whatever they are (PostcodeAlgorithm_v1.cpp:1125), and the
  thread then keeps the last five characters (MainWorker.cpp:864): a reading of
  "12345-6789" is reported as "-6789", and one of "12345-123" as "2345-".
  `StdCodeWasRead` is stated for 1, and is false for 0.
- On arbitrary and lottery tags a hyphen counts as a digit (PostcodeAlgorithm_v1.cpp:1288),
  so a word of five hyphens is a code, and a word that the middle of the text cuts may
  become one; `LastWordIsCode` says just what is taken by `format_results`; without
  ten-digit support the thread still drops a code of ten (MainWorker.cpp:1042).
- A phase-1 request with fewer paths than pictures is split into as many tasks as it has
  paths, but these are copies made before the number was corrected
  (ImgprcOCRInstanceView.cpp:1320, 1330): they wait for pictures that do not exist, and
  the request is never answered (`PathMissing` of `MCImgprcQueue`).

- The lottery tag has no case in `_merge_tasks`, and in strict mode neither have the
  arbitrary tag and the handwriting box (MainWorker.cpp:1582). `ReplyReportsReads` states
  what follows: such a postcode is sent if it is on the first image and nothing that
  counts was read, since the first task then stands for the request as it is (1328). So
  strict mode does not keep to standard and window tags, as the comment at 1580 has it.

## The proofs

`TaskPipelineProofs` and `TaskPipelineReplies` prove for every
number of requests, images, operator images, loaders and detectors, and every set of
messages, tags, switches and engines:

| theorem | property |
| --- | --- |
| `TypeCorrect` | `Spec => []TypeOK` |
| `WorkIsExclusive` | `Spec => []ExclusiveWork` |
| `WorkStaysInStage` | `Spec => []OwnedStaysInStage` |
| `OneReply` | `Spec => []AtMostOneReply` |
| `RequestsPackagedWhole` | `Spec => []PackagedWhole` |
| `WakeupsArrive` | `Spec => []NoLostWakeup` |
| `RepliesReportReads` | `Spec => []ReplyReportsReads` |
| `DebugReplies` | `Spec => []DebugRepliesBounded` |
| `PipelineImplementsService` | `Spec => ImplementsService` |

The assumptions are those named in the modules (`BoundsAssumption`, `InputAssumption`,
`ThreadAssumption`, `NullAssumption`, `StrictAssumption`); TLC evaluates them in every
run.

*The first invariant* is `WorkInv`: `TypeOK`, `ExclusiveWork`, `OwnedStaysInStage`, and two
facts they need. `PoolOK`: every task in the pool was pushed by one of the two producers,
and is still `OPEN` when its producer is about to move it on; without it the producer
could move a task under a thread. `StemOK`: the packager's `stem` is empty unless it is
erasing, and holds only tasks of the request of its `mtask`, and not `mtask` itself. The
conjunction is inductive because a thread takes only tasks in the states of its own
stage, different stages have different states, and only loaders and detectors, of which
there may be several, mark what they take.

*The second* is `WholeInv`: `WorkInv`, `AtMostOneReply`, `PackagedWhole`, and two facts
about time. `AnsweredOK`: a request that was answered has no task in the pool but the
one being erased. `MergedOK`: while the packager erases, all of the request was pushed,
and every task of it that is still there is the merged one or in `stem`. The crux is
`StemIsWhole`: if as many tasks of a request are in `PACKAGE` as it has images, then,
there being only that many tasks, they are all of them - a cardinality argument that
needs the number of images not to change. `WholeKept` frames the actions that neither
finish a request nor push one of its images.

`NoLostWakeup` is inductive as it stands, given the types: a task becomes ready in the
very step in which its thread gets to the notification; no thread goes to wait while a
task is ready for it; and when the notification comes the task is still ready, and all
who wait are woken up, or somebody has taken it.

*What a reply says* rests on `ReadInv`: `WholeInv`, and how the record of a task comes by
what was read. `RecordsOK`: until it is merged, the task of a request has the postcode
that was read on its image, or none. `ReadsOK`: what was read was read on a pushed
image. `OrderOK`: the tasks of a request are in the pool in the order of its images -
without it the "first" of a kind could be a later image, and the index of the reply
wrong. `MergedReports`: the record of the task that was merged makes a reply that
reports, and `SentOK`: the send thread still has that record when it erases. The crux is
the merge itself (`WholeInv` says that it is given all images of the request): of each
kind, in the order of their standing, the first decides and the first that differs from
it is the second postcode. For the operator's pictures, which may be merged at any
time, `DebugInv` only counts: replies and tasks in the pool together never exceed the
pictures pushed.

*The refinement* maps a request to its number of images, the images whose task waits to
be packaged or is gone, and what became of its reply. It needs `WholeInv` and `InputOK`:
between two requests `thread_recv_msg` is through with the images of the last one, and
no later one has come - so a task that is not in the pool is told apart, one not pushed
yet from one that was erased. Each step is then one of three kinds. `RecvRequest` is
`Receive` (`RequestServes`) if the request has images. A thread that moves a task of a
request to `PACKAGE` finishes its image (`FinishServes`). `SendReply` is `Reply`
(`ReplyServes`), whose guard is `PackagedWhole` (all images finished) and `AnsweredOK`
(no earlier reply). Everything else settles no task and is a stutter
(`NothingFinished`): above all, erasing the merged tasks does not undo an image.

`NetClientProofs` proves, for every base, number of attempts, content and bound:

| theorem | property |
| --- | --- |
| `TypeCorrect` | `Spec => []TypeOK` |
| `BoundBeforeConnected` | `Spec => []ConnectsFromLocalPort` |
| `RepliesAreInOrder` | `Spec => RepliesInOrder`: the connection implements `LossyQueue` |
| `BreaksLoseOnly` | `Spec => LostOnlyByBreaks`: a connection that holds loses no reply |
| `StreamIsParsed` | `Spec => []ParsedAsSent` |
| `BreaksCostOne` | `Spec => []OneWrongPerBreak` |
| `SealedPasses` | the receiver's check accepts what the sender's code seals |
| `EncodedHasNoMarkers` | the text of a message has no character that begins or ends a frame |
| `DecodeUndoesEncode` | decoding gives back what was encoded |

Their assumptions are `BaseAssumption` and `ClientAssumption`. `BoundBeforeConnected` comes
from `BindInv`, which says where the receive thread may be while there is a connection, and
that `binded` is true only of a bound socket. `TypeCorrect` needs more than types
(`RecvTypes`): a thread that has not given up has counted fewer than `MaxTries` failures,
and none while the connection is up or its timeout has still to be reported.

The refinement rests on `SendInv`: the replies wait in the order they were handed over,
behind the one being sent (`QueueOrder`); the parts on the way are in the order of
replies and parts, behind the one heard last and before those still to be sent
(`WireOrder`); of a reply that was heard, no part is on the way any more (`HeardOrder`).
The queue of `LossyQueue` is the set of the replies that can still be heard whole, and
almost every step only makes it smaller (`Lose`): the proof has to show that no step
brings a reply back - that sending moves parts to the wire and never repeats one
(`SenderLoses`), and that hearing a part loses none of what it continues
(`HearingKeepsParts`). The two others are `PushReply`, which makes the newest reply
one that can be heard (`ProgramOffers`), and `ServerHears` of a last part, where the
reply is the least of those that can be heard, since whatever else can be heard has its
last part behind the one that is next (`NextIsLeast`, `HearingDelivers`).

`LossyQueue` may lose any reply at any time, so it says nothing of a step that should not
lose one. `BreaksLoseOnly` does, from the same `SendInv`: while the connection is up, what
leaves the queue is about to be sent whole, what leaves the send thread is on the wire, and
of a reply that is there whole, the part that is next continues the one heard last
(`NextContinues`) - otherwise a part between the two would be out of order.

*The parser.* `ParserInv` says that the receive thread is in step with the stream. There
are numbers `starts`, the places where the frames of this connection begin, such that what
was received and what is on the way are those frames, one behind the other (`Streamed`),
and the messages passed on are the first of them, while `msgdata` is the rest of what was
received - behind `c` symbols that an earlier connection left (`Cut`). What makes this
inductive: what is left over begins with a colon and has no line feed, unless the parser is
still at work, so the first end marker in `msgdata` is the end of the first frame not yet
passed on (`EndIs`), and cutting there leaves nothing of an earlier connection (`CutNext`);
the search for a start marker drops nothing (`NothingDropped`). `starts` and `c` are not in
the program: they are quantified, and the steps find new ones - `StreamGrows` for another
frame, `StreamBegins` for a new connection, where all of `msgdata` becomes `c`.
`BreaksCostOne` counts: the wrong messages accepted, the wrong texts that wait, and what is
`Pending` - something left over, and a connection that broke or is closed with a beginning
in `msgdata` - never exceed the breaks. A text that was cut out right is decoded to what was
sent (`DecodeUndoesEncode`), so only a wrong one can be accepted wrong.

`ImgprcQueueProofs` and `ImgprcQueueReplies` prove for every number of workers, callbacks and requests and every
set of messages:

| theorem | property |
| --- | --- |
| `TypeCorrect` | `Spec => []TypeOK` |
| `WorkIsExclusive` | `DistinctTicks = TRUE => (Spec => []ExclusiveWork)` |
| `NothingScannedTwice` | ... `ScannedOnce` |
| `RequestsStay` | ... `NoRequestLost` |
| `NoPictureFreedEarly` | ... `PicturesAlive` |
| `RepliesReportReads` (`ImgprcQueueReplies`) | ... `ReplyReportsReads` |
| `RepliesAreBounded` (`ImgprcQueueReplies`) | ... `RepliesBounded` |

`DistinctTicks` is a hypothesis because without it they are false. The inductive
invariant is `IInv`: types, that a worker only advances to a type there is
(`MayAdvance`), and `Safe`. A request is *closed* when it was received whole and all of
its tasks that are still in the queue are packaged; no step opens it again. Until then
each picture has one task that is not packaged (`OneEach`). Types only go up (`Rank`): a
worker that decided to advance a request finds either all tasks as it saw them, waiting
and without codes, or tasks that another worker has moved up, which it leaves alone
(`Advancing`). A worker that decided to delete finds the tasks as it saw them, or the
request closed by another (`Packaging`); nobody still advances that request from the same
type, which is why a packaged task is never offered to the workers again. A task that is
not waiting is of a type its picture was not read for (`Scanned`), and only pictures of
closed requests are freed (`Freed`). The other assumptions are `QueueAssumption`.

`RepliesReportReads` adds `ReadSafe` to it. `EntriesRead`: a task that waits has the codes
of its own picture, any other none. `Collected`: all codes read of a request are in its
tasks until it is closed - `ScannedOnce` is what keeps a picture that is read for a later
type from adding to codes already there. `InOrder`: its tasks stand in the order of their
pictures, so the first of a merge is the first picture. `Reported`: what is merged, in
the queue or still with a worker, tells what was read; this lasts, as nothing more is
read of a closed request. `RepliesAreBounded` adds `Ledger`, which keeps the account of a
request: the replies sent, and the callbacks that may still send one, never exceed
one for each callback each time the request came into the queue merged, and one for each
failure. A worker that pushes the request pays for all callbacks at once, whether or not
they ever take it.

`MPFCommProofs` proves, for every base, length of messages, number of breaks, content, and
size of either ring:

| theorem | property |
| --- | --- |
| `TypeCorrect` | `Spec => []TypeOK` |
| `BufferIsLongEnough` | `Spec => []LengthInBounds` |
| `AcceptedAreSent` | `Spec => []AcceptedWereSent` |
| `OneLostPerBreak` | `Spec => []OneSwallowedPerBreak` |
| `RingImplementsNewest` | `Spec => ImplementsNewest` |

*The parser.* `CommInv` looks at `Stream`, all symbols on their way: those the callback
has, those in the ring of bytes, those on the wire. It says that there is a label for
every one of them, and for the last one parsed: the message it belongs to, its place in
that message, and how many connections had broken by then (`Labelled`). From one symbol
to the next the place goes up by one, or a later message starts - and if the message
before was not at its end, a connection broke in between. The labels are not in the
program; they are quantified, and each action has to find new ones (the same for the
callback and the ring, one more at the end for `SendRequest`, a shorter stream for a
break). `ParserAt` then says what the parser knows: in the middle of a message it has
just the bytes of the message at whose place it is, and no others, whatever rests of
earlier messages are in `m_uchsRevMesNow` behind them - so it never has more than the
longest message has. `AcceptedAt` numbers the messages accepted, all of them before the
one it is in, and `SwallowedAt` counts those that ended in symbols and were not accepted:
no more than broken connections, and one less while the parser looks for the start of
the next after a piece. A colon inside a message, that is at the start of the next
connection, sends the parser back to `START`, which is why that message is lost and no
mixture is accepted. That a whole message passes the check is `SealedIsValid` of
`MessageCodecProofs`.

*The ring.* The crux of `RingImplementsNewest` is that `Window`, the rows between the two indices, follows an index
that moves up or wraps (`Following` and the lemmas on it): taking moves its start, pushing
its end, and pushing into a full ring both, which is why the oldest message and no other
is given up. The refinement needs no more of the parser than that it leaves the ring
alone unless it accepts; so it needs only what the two indices and the rows are as an
invariant.

`MCAlgorithmsProofs` proves, for every base, overlap relation, length of a message, number
of pieces of a text and number of boxes:

| theorem | property |
| --- | --- |
| `EncodedArrives` | `Spec => []RoundTrip` |
| `WrongIsRefused` | `Spec => []WrongDigitRefused` |
| `LastWordIsRead` | `Spec => []LastWordIsCode` |
| `StdCodeIsRead` | `Spec => []StdCodeWasRead`, which is about `Postcode10Support=1` |
| `OneBoxIsKept` | `Spec => []OneBoxPerTag` |
| `InputsAreTyped` | `Spec => []TypeOK` |

These are statements about functions; what the actions add is only that the inputs have
their types (`InputInv`) and that a text is that of its message or has one wrong digit
(`MessageInv`). The work is in the loops, each with an invariant over the positions it has
passed. Beside `BaseAssumption` and `BoundsAssumption` they assume of the boxes only what
`TagBoxes` names.

*Recursive functions.* The theorems of the library on recursion and induction take an
operator as a parameter, which the provers cannot instantiate. `MessageCodecProofs` states
them for functions and sets instead: every set of numbers has a least one (`LeastNumber`,
`AllNumbers`), and for a function `step` there is one that iterates it (`RecursionExists`)
- so a recursive definition, which is a `CHOOSE`, has the value its equation says
(`ScanExists`, `NmsIs`, `WithoutExists`). From it come the fold of a sequence (`FoldExists`),
that a sum of bytes is a number (`SumIsInt`), and what it is of a sequence with one element
changed (`TwoSums`).

*One wrong digit.* It changes one byte, by less than the base squared. In the
body it changes the sum by as much, and the code with it, which is the sum modulo the base
squared (`CodesDiffer`); in the code itself it changes the code but not the sum.

*The words.* At a separator, and at the end of the text, the loop knows the last code among
the words that ended (`LastKnownIs`); between them (`Since`), that `start` is true as long as the word has digits
and hyphens only, and that `count` is its length so far, or 0 if `start` is false. A word is known by where it begins and ends
(`WordsOfHalf`), and the last of several is the one that begins last (`LastCodeIs`).

*The boxes.* `nms_rotated_rect` keeps a box if none of those kept before overlaps it
(`KeptNext`), so a box that is not kept overlaps one that is. `nms_multi_class` goes over
the sorted boxes: behind each group, what is kept stands for all boxes of the groups in
front (`GroupEnds`, `GroupsAlong`). Two boxes of one class are never in two groups, since the
sort puts a class together, whatever it does within it.

*Standard tags.* A score is not 0 only if there is a run of so many digits
(`ScoreMeansDigits`, `RunIsThere`), hence what is cut out are digits in a row
(`DigitsAreGot`); of the two lengths behind a hyphen the one that is cut out has the greater
score, so not 0 (`HyphenatedIsRead`). A clean code has the whole score in every part, and
five digits score higher as five than as four (`CleanScores`).

*Only model-checked:* liveness under fairness, of all programs (`EveryRequestAnswered`,
`Reconnects`, `RepliesHeard`, `QueueDrained`, `EveryMessageHandled`, `RingsDrained`); it is out
of the prover's reach.

## Not modelled

The SF_EXPRESS branch of `NetworkClient` and its destructor (not used by the programs).
`NetworkServer`: no program of the repository creates one; `MainWorker.cpp` only calls its
static coding functions, which are in `MessageCodec`.
The contents of pictures and messages, logging, the time stamps, `m_requestType`, the
bar code and the queue length in the reply (copied, or read for display, without effect
on the control). The counters and lists both programs show: nothing but the display
depends on them. The read of a task's state after the unlock in `_update_one_task_sp`
of a task that was freed by then, which may happen whatever state it was moved to: `Wake`
reads the state as it is then, and wakes nobody if the task was erased.

Of phase 1: the ring of bytes of `FSock` is assumed never to be overrun, and `Receive` not
to fail in its notification (FSock.cpp:238 would take the failure for a length); the
message timer's callbacks are assumed not to overlap; a thread whose engine does not load
(ImgprcOCRInstanceView.cpp:106) is one worker less. Deletion of cached picture files: its
flag is always false.

The other recognition algorithms are sequential computations on pictures in floating point;
the models take every outcome the programs distinguish. Of the text of a postcode,
strict mode (never switched on) and the older copy in `PostcodeAlgorithm.cpp`. Most of the source in the
repository is third-party code (`external_include`, `common`, wavelets, FFT, tinyxml2) and
test programs; of the programs' own code, the map covers the parts with state that more
than one thread or message can reach. `PROJECT.json` lists all parts with the reason.
