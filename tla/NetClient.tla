----------------------------- MODULE NetClient ------------------------------
(***************************************************************************)
(* The connection of the OCR program to the image server: NetworkClient of *)
(* CPTENetworkServer. Its receive thread binds, connects, cuts the bytes   *)
(* it receives into messages and, when the connection dies, closes it and  *)
(* starts over. Its send thread sends the replies of a queue. The program  *)
(* takes messages with recv_message and hands over replies with            *)
(* send_message.                                                           *)
(*                                                                         *)
(* What arrives is modelled symbol by symbol, because where the stream is  *)
(* cut is what the receive thread must not depend on. What is sent is      *)
(* modelled as the parts of numbered replies, because only its being       *)
(* whole matters. The socket (EasySocket), the network and the image       *)
(* server are external.                                                    *)
(***************************************************************************)
EXTENDS MessageCodec

CONSTANTS
  BindsPort,   \* a local port is configured
  MaxTries,    \* the failures in a row after which a thread gives up: 100 in the code
  Contents,    \* the messages the image server sends, without the checksum
  MaxInputs,   \* bound: how many messages it sends over one connection
  MaxReplies,  \* bound: how many replies the program generates
  FrameParts,  \* bound: in how many pieces one reply can be sent
  MaxBreaks    \* bound: how often a connection breaks

ASSUME ClientAssumption ==
  /\ BindsPort \in BOOLEAN
  /\ MaxTries \in Nat /\ MaxTries > 1
  /\ Contents \subseteq Seq(Byte) \ {<<>>}
  /\ MaxInputs \in Nat
  /\ MaxReplies \in Nat
  /\ FrameParts \in Nat \ {0}
  /\ MaxBreaks \in Nat

VARIABLES
  \* The receive thread, client_process_recv.
  rpc,              \* where it is
  binded,           \* it has bound the socket
  try_times,        \* failed calls of Receive in a row
  msgdata,          \* what it has received and not yet cut off
  \* The send thread, client_process_send.
  spc,              \* where it is
  outgoing,         \* the reply it sends, and how many parts are left
  try_send_num,     \* failed calls of Send in a row
  \* NetworkClient, and the threads that call it.
  m_is_connected,
  m_messages_recv,
  m_messages_send,
  caller,           \* thread_send_msg: "pushing" between the check and the push
  replies,          \* how many replies it has generated
  accepted,         \* the messages thread_recv_msg took for valid
  \* The socket and the network.
  bound,            \* the socket has the configured port
  link,             \* the connection: "down", "up", or, until it is closed, "dying"; or
                    \* "timeout", when Receive has still to report that it timed out
  inbound,          \* what is on the way to the program
  outbound,         \* what is on the way to the image server
  breaks,           \* how often the connection broke
  \* What happened on this connection.
  said,             \* the messages the image server sent
  got,              \* the symbols the receive thread received
  pushed,           \* the texts it cut out of them
  carried,          \* it had something left in msgdata when it connected
  begun,            \* the last part of the reply the image server is receiving
  \* What happened on all connections.
  heard             \* the replies the image server received

receiver == <<rpc, binded, try_times, msgdata>>
sender == <<spc, outgoing, try_send_num>>
program == <<caller, replies, accepted>>
network == <<bound, link, inbound, outbound, breaks>>
history == <<said, got, pushed, carried, begun, heard>>
vars == <<receiver, sender, m_is_connected, m_messages_recv, m_messages_send,
          program, network, history>>

Part == [reply : 1..MaxReplies, part : 1..FrameParts]
NoPart == [reply |-> 0, part |-> 0]

TypeOK ==
  /\ rpc \in {"top", "connect", "connected", "receive", "parse", "close"}
  /\ binded \in BOOLEAN
  /\ try_times \in 0..MaxTries
  /\ msgdata \in Seq(Symbol)
  /\ spc \in {"check", "acquire", "send"}
  /\ outgoing \in [reply : 0..MaxReplies, rest : 0..FrameParts]
  /\ try_send_num \in 0..MaxTries
  /\ m_is_connected \in BOOLEAN
  /\ m_messages_recv \in Seq(Seq(Symbol))
  /\ m_messages_send \in Seq(1..MaxReplies)
  /\ caller \in {"idle", "pushing"}
  /\ replies \in 0..MaxReplies
  /\ accepted \in Seq(Seq(Byte))
  /\ bound \in BOOLEAN
  /\ link \in {"down", "up", "timeout", "dying"}
  /\ inbound \in Seq(Symbol)
  /\ outbound \in Seq(Part)
  /\ breaks \in 0..MaxBreaks
  /\ said \in Seq(Contents)
  /\ got \in Seq(Symbol)
  /\ pushed \in Seq(Seq(Symbol))
  /\ carried \in BOOLEAN
  /\ begun \in Part \cup {NoPart}
  /\ heard \in Seq(1..MaxReplies)

Init ==
  /\ rpc = "top" /\ binded = FALSE /\ try_times = 0 /\ msgdata = <<>>
  /\ spc = "check" /\ outgoing = [reply |-> 0, rest |-> 0] /\ try_send_num = 0
  /\ m_is_connected = FALSE /\ m_messages_recv = <<>> /\ m_messages_send = <<>>
  /\ caller = "idle" /\ replies = 0 /\ accepted = <<>>
  /\ bound = FALSE /\ link = "down" /\ inbound = <<>> /\ outbound = <<>> /\ breaks = 0
  /\ said = <<>> /\ got = <<>> /\ pushed = <<>> /\ carried = FALSE
  /\ begun = NoPart /\ heard = <<>>

(***************************************************************************)
(* The receive thread                                                      *)
(***************************************************************************)

\* The top of the loop when there is nothing to bind.
StartOver ==
  /\ rpc = "top"
  /\ binded \/ ~BindsPort
  /\ m_is_connected' = FALSE
  /\ rpc' = "connect"
  /\ UNCHANGED <<binded, try_times, msgdata, sender, m_messages_recv, m_messages_send,
                 program, network, history>>

\* The top of the loop with Bind, which fails on a socket that is bound.
Bind ==
  /\ rpc = "top"
  /\ ~binded /\ BindsPort
  /\ ~bound
  /\ m_is_connected' = FALSE
  /\ binded' = TRUE
  /\ bound' = TRUE
  /\ rpc' = "connect"
  /\ UNCHANGED <<try_times, msgdata, sender, m_messages_recv, m_messages_send,
                 program, link, inbound, outbound, breaks, history>>

\* The port is still in use; the loop sleeps and starts over.
BindFails ==
  /\ rpc = "top"
  /\ ~binded /\ BindsPort
  /\ m_is_connected' = FALSE
  /\ UNCHANGED <<receiver, sender, m_messages_recv, m_messages_send,
                 program, network, history>>

\* A new connection, on which nothing was said or heard yet.
Connect ==
  /\ rpc = "connect"
  /\ link' = "up"
  /\ rpc' = "connected"
  /\ said' = <<>>
  /\ got' = <<>>
  /\ pushed' = <<>>
  /\ carried' = (msgdata # <<>>)
  /\ begun' = NoPart
  /\ UNCHANGED <<binded, try_times, msgdata, sender, m_is_connected, m_messages_recv,
                 m_messages_send, program, bound, inbound, outbound, breaks, heard>>

\* No server; the socket is not closed, so it stays bound.
ConnectFails ==
  /\ rpc = "connect"
  /\ rpc' = "top"
  /\ UNCHANGED <<binded, try_times, msgdata, sender, m_is_connected, m_messages_recv,
                 m_messages_send, program, network, history>>

SetConnected ==
  /\ rpc = "connected"
  /\ m_is_connected' = TRUE
  /\ try_times' = 0
  /\ rpc' = "receive"
  /\ UNCHANGED <<binded, msgdata, sender, m_messages_recv, m_messages_send,
                 program, network, history>>

\* Receive returns what has arrived, or the beginning of it.
Receive ==
  /\ rpc = "receive"
  /\ \E k \in 1..Len(inbound) :
       /\ msgdata' = msgdata \o SubSeq(inbound, 1, k)
       /\ inbound' = SubSeq(inbound, k + 1, Len(inbound))
       /\ got' = got \o SubSeq(inbound, 1, k)
  /\ try_times' = 0
  /\ rpc' = "parse"
  /\ UNCHANGED <<binded, sender, m_is_connected, m_messages_recv, m_messages_send, program,
                 bound, link, outbound, breaks, said, pushed, carried, begun, heard>>

\* Receive throws ETimedOut: it is called again, whatever try_times is. The system reports
\* a timeout once.
ReceiveTimesOut ==
  /\ rpc = "receive"
  /\ link = "timeout" /\ inbound = <<>>
  /\ link' = "dying"
  /\ try_times' = try_times + 1
  /\ UNCHANGED <<rpc, binded, msgdata, sender, m_is_connected, m_messages_recv,
                 m_messages_send, program, bound, inbound, outbound, breaks, history>>

\* Mutant: one attempt too many.
ReceiveFailsOnceMore ==
  /\ rpc = "receive"
  /\ link = "dying" /\ inbound = <<>>
  /\ try_times' = try_times + 1
  /\ rpc' = IF try_times' <= MaxTries THEN "receive" ELSE "close"
  /\ UNCHANGED <<binded, msgdata, sender, m_is_connected, m_messages_recv, m_messages_send,
                 program, network, history>>

\* Mutant: the count of failures is reset by a failure too.
ReceiveFailsForEver ==
  /\ rpc = "receive"
  /\ link = "dying" /\ inbound = <<>>
  /\ try_times' = 0
  /\ rpc' = IF 1 < MaxTries THEN "receive" ELSE "close"
  /\ UNCHANGED <<binded, msgdata, sender, m_is_connected, m_messages_recv, m_messages_send,
                 program, network, history>>

\* Receive throws: the other side has closed, and everything that arrived was read.
ReceiveFails ==
  /\ rpc = "receive"
  /\ link = "dying" /\ inbound = <<>>
  /\ try_times' = try_times + 1
  /\ rpc' = IF try_times' < MaxTries THEN "receive" ELSE "close"
  /\ UNCHANGED <<binded, msgdata, sender, m_is_connected, m_messages_recv, m_messages_send,
                 program, network, history>>

\* msgdata from the first start marker on.
FromStart ==
  LET start == find_full_string(msgdata, start_c)
  IN IF start = 0 THEN <<>> ELSE SubSeq(msgdata, start, Len(msgdata))

EndOfFrame == find_full_string(FromStart, end_c)

\* Mutant: one message is cut off, and the rest has to wait for the next Receive.
ParseOnlyOne ==
  /\ rpc = "parse"
  /\ EndOfFrame # 0
  /\ LET text == SubSeq(FromStart, Len(start_c) + 1, EndOfFrame - 1)
         rest == SubSeq(FromStart, EndOfFrame + Len(end_c), Len(FromStart))
     IN /\ m_messages_recv' = Append(m_messages_recv, text)
        /\ pushed' = Append(pushed, text)
        /\ msgdata' = rest
        /\ rpc' = "receive"
  /\ UNCHANGED <<binded, try_times, sender, m_is_connected, m_messages_send,
                 program, network, said, got, carried, begun, heard>>

\* Mutant: msgdata is not emptied after its last frame.
ParseKeepsLast ==
  /\ rpc = "parse"
  /\ EndOfFrame # 0
  /\ LET text == SubSeq(FromStart, Len(start_c) + 1, EndOfFrame - 1)
         rest == SubSeq(FromStart, EndOfFrame + Len(end_c), Len(FromStart))
     IN /\ m_messages_recv' = Append(m_messages_recv, text)
        /\ pushed' = Append(pushed, text)
        /\ msgdata' = IF rest = <<>> THEN FromStart ELSE rest
        /\ rpc' = IF rest = <<>> THEN "receive" ELSE "parse"
  /\ UNCHANGED <<binded, try_times, sender, m_is_connected, m_messages_send,
                 program, network, said, got, carried, begun, heard>>

\* One turn of the inner loop that finds a whole frame.
ParseMessage ==
  /\ rpc = "parse"
  /\ EndOfFrame # 0
  /\ LET text == SubSeq(FromStart, Len(start_c) + 1, EndOfFrame - 1)
         rest == SubSeq(FromStart, EndOfFrame + Len(end_c), Len(FromStart))
     IN /\ m_messages_recv' = Append(m_messages_recv, text)
        /\ pushed' = Append(pushed, text)
        /\ msgdata' = rest
        /\ rpc' = IF rest = <<>> THEN "receive" ELSE "parse"
  /\ UNCHANGED <<binded, try_times, sender, m_is_connected, m_messages_send,
                 program, network, said, got, carried, begun, heard>>

\* The last turn: no start marker, or no end marker after it.
ParseRest ==
  /\ rpc = "parse"
  /\ EndOfFrame = 0
  /\ msgdata' = FromStart
  /\ rpc' = "receive"
  /\ UNCHANGED <<binded, try_times, sender, m_is_connected, m_messages_recv, m_messages_send,
                 program, network, history>>

\* Mutant: the new socket is taken for a bound one.
CloseKeepsBinded ==
  /\ rpc = "close"
  /\ bound' = FALSE
  /\ link' = "down"
  /\ inbound' = <<>>
  /\ outbound' = <<>>
  /\ rpc' = "top"
  /\ UNCHANGED <<binded, try_times, msgdata, sender, m_is_connected, m_messages_recv,
                 m_messages_send, program, breaks, history>>

Close ==
  /\ rpc = "close"
  /\ binded' = FALSE
  /\ bound' = FALSE
  /\ link' = "down"
  /\ inbound' = <<>>
  /\ outbound' = <<>>
  /\ rpc' = "top"
  /\ UNCHANGED <<try_times, msgdata, sender, m_is_connected, m_messages_recv,
                 m_messages_send, program, breaks, history>>

(***************************************************************************)
(* The send thread                                                         *)
(***************************************************************************)

CheckConnected ==
  /\ spc = "check"
  /\ m_is_connected
  /\ spc' = "acquire"
  /\ UNCHANGED <<receiver, outgoing, try_send_num, m_is_connected, m_messages_recv,
                 m_messages_send, program, network, history>>

\* _acquire_one_message, which waits for a message, and the markers put around it.
Acquire ==
  /\ spc = "acquire"
  /\ m_messages_send # <<>>
  /\ outgoing' = [reply |-> Head(m_messages_send), rest |-> FrameParts]
  /\ m_messages_send' = Tail(m_messages_send)
  /\ try_send_num' = 0
  /\ spc' = "send"
  /\ UNCHANGED <<receiver, m_is_connected, m_messages_recv, program, network, history>>

\* Mutant: what Send took is taken for the whole reply, and the next one is acquired.
SendOnlyOnce ==
  /\ spc = "send"
  /\ link # "down"
  /\ \E k \in 1..outgoing.rest :
       LET first == FrameParts - outgoing.rest
           parts == [i \in 1..k |-> [reply |-> outgoing.reply, part |-> first + i]]
       IN /\ outbound' = IF link = "up" THEN outbound \o parts ELSE outbound
          /\ outgoing' = [outgoing EXCEPT !.rest = @ - k]
  /\ spc' = "acquire"
  /\ try_send_num' = 0
  /\ UNCHANGED <<receiver, m_is_connected, m_messages_recv, m_messages_send,
                 program, bound, link, inbound, breaks, history>>

\* Send takes some of the parts; after the last one comes the next message, without a
\* look at the connection. A dying connection may still take them, to no avail.
Send ==
  /\ spc = "send"
  /\ link # "down"
  /\ \E k \in 1..outgoing.rest :
       LET first == FrameParts - outgoing.rest
           parts == [i \in 1..k |-> [reply |-> outgoing.reply, part |-> first + i]]
       IN /\ outbound' = IF link = "up" THEN outbound \o parts ELSE outbound
          /\ outgoing' = [outgoing EXCEPT !.rest = @ - k]
  /\ spc' = IF outgoing'.rest = 0 THEN "acquire" ELSE "send"
  /\ try_send_num' = 0
  /\ UNCHANGED <<receiver, m_is_connected, m_messages_recv, m_messages_send,
                 program, bound, link, inbound, breaks, history>>

\* Mutant: the reply is put back into the queue instead of being given up.
SendFailsQueuesAgain ==
  /\ spc = "send"
  /\ link # "up"
  /\ try_send_num' = try_send_num + 1
  /\ IF try_send_num' < MaxTries
       THEN spc' = "send" /\ UNCHANGED m_messages_send
       ELSE spc' = "check" /\ m_messages_send' = Append(m_messages_send, outgoing.reply)
  /\ UNCHANGED <<receiver, outgoing, m_is_connected, m_messages_recv,
                 program, network, history>>

\* Mutant: check_state is never reset, so nothing is acquired any more.
SendFailsForGood ==
  /\ spc = "send"
  /\ link # "up"
  /\ try_send_num' = try_send_num + 1
  /\ spc' = IF try_send_num' < MaxTries THEN "send" ELSE "stopped"
  /\ UNCHANGED <<receiver, outgoing, m_is_connected, m_messages_recv, m_messages_send,
                 program, network, history>>

\* Send throws. After MaxTries failures in a row the reply is given up.
SendFails ==
  /\ spc = "send"
  /\ link # "up"
  /\ try_send_num' = try_send_num + 1
  /\ spc' = IF try_send_num' < MaxTries THEN "send" ELSE "check"
  /\ UNCHANGED <<receiver, outgoing, m_is_connected, m_messages_recv, m_messages_send,
                 program, network, history>>

(***************************************************************************)
(* The threads of the program that call the client                         *)
(***************************************************************************)

\* What thread_recv_msg makes of a text: the valid messages so far.
Checked(text) ==
  IF check_msg_validation(decode_data_hex(text)) THEN Append(accepted, decode_data_hex(text))
                                                 ELSE accepted

\* thread_recv_msg takes a message with recv_message.
TakeMessage ==
  /\ m_messages_recv # <<>>
  /\ m_messages_recv' = Tail(m_messages_recv)
  /\ accepted' = Checked(Head(m_messages_recv))
  /\ UNCHANGED <<receiver, sender, m_is_connected, m_messages_send, caller, replies,
                 network, history>>

\* thread_send_msg has a reply and looks whether there is a connection; if not, the
\* reply is forgotten.
OfferReply ==
  /\ caller = "idle"
  /\ replies < MaxReplies
  /\ replies' = replies + 1
  /\ caller' = IF m_is_connected THEN "pushing" ELSE "idle"
  /\ UNCHANGED <<receiver, sender, m_is_connected, m_messages_recv, m_messages_send,
                 accepted, network, history>>

\* The rest of send_message, under the lock.
PushReply ==
  /\ caller = "pushing"
  /\ m_messages_send' = Append(m_messages_send, replies)
  /\ caller' = "idle"
  /\ UNCHANGED <<receiver, sender, m_is_connected, m_messages_recv, replies, accepted,
                 network, history>>

(***************************************************************************)
(* The image server and the network                                        *)
(***************************************************************************)

ServerSends ==
  /\ link = "up"
  /\ Len(said) < MaxInputs
  /\ \E c \in Contents :
       /\ said' = Append(said, c)
       /\ inbound' = inbound \o Frame(Text(c))
  /\ UNCHANGED <<receiver, sender, m_is_connected, m_messages_recv, m_messages_send,
                 program, bound, link, outbound, breaks, got, pushed, carried, begun, heard>>

\* The image server takes the next part. It has a reply when it has seen all parts of it
\* from the first on; parts that continue nothing have no start marker and are ignored.
ServerHears ==
  /\ outbound # <<>>
  /\ outbound' = Tail(outbound)
  /\ LET p == Head(outbound)
         continues == p.part = 1 \/ [p EXCEPT !.part = @ - 1] = begun
     IN /\ begun' = IF continues THEN p ELSE NoPart
        /\ heard' = IF continues /\ p.part = FrameParts THEN Append(heard, p.reply)
                                                        ELSE heard
  /\ UNCHANGED <<receiver, sender, m_is_connected, m_messages_recv, m_messages_send,
                 program, bound, link, inbound, breaks, said, got, pushed, carried>>

\* The connection breaks; of what is on the way, a beginning still arrives.
Break ==
  /\ link = "up"
  /\ breaks < MaxBreaks
  /\ breaks' = breaks + 1
  /\ link' \in {"timeout", "dying"}
  /\ \E i \in 0..Len(inbound) : inbound' = SubSeq(inbound, 1, i)
  /\ \E o \in 0..Len(outbound) : outbound' = SubSeq(outbound, 1, o)
  /\ UNCHANGED <<receiver, sender, m_is_connected, m_messages_recv, m_messages_send,
                 program, bound, history>>

ReceiveThread ==
  \/ StartOver \/ Bind \/ BindFails \/ Connect \/ ConnectFails \/ SetConnected
  \/ Receive \/ ReceiveTimesOut \/ ReceiveFails \/ ParseMessage \/ ParseRest \/ Close

SendThread == CheckConnected \/ Acquire \/ Send \/ SendFails

Program == TakeMessage \/ OfferReply \/ PushReply

Network == ServerSends \/ ServerHears \/ Break

Next == ReceiveThread \/ SendThread \/ Program \/ Network

Spec == Init /\ [][Next]_vars

(***************************************************************************)
(* The threads run. Binding and connecting may fail, but not for ever: the *)
(* port becomes free and the image server comes back.                      *)
(***************************************************************************)
Fairness ==
  /\ WF_vars(ReceiveThread)
  /\ SF_vars(Bind) /\ SF_vars(Connect)
  /\ WF_vars(SendThread)
  /\ WF_vars(TakeMessage) /\ WF_vars(PushReply)
  /\ WF_vars(ServerHears)

LiveSpec == Spec /\ Fairness
-----------------------------------------------------------------------------

\* How many messages arrived completely, and what arrived of the next one.
Ends == {i \in DOMAIN got : got[i] = LF}
Arrived == Cardinality(Ends)
Unfinished == SubSeq(got, Max({0} \cup Ends) + 1, Len(got))

\* However the stream is cut into chunks, the receive thread passes on exactly the messages
\* that arrived completely, in order, and keeps exactly what arrived of the next one. If it
\* carried something over from an earlier connection, this may only damage the first
\* message of the new one.
ParsedAsSent ==
  rpc = "receive" =>
    /\ Len(pushed) = Arrived
    /\ \A i \in 1..Arrived : pushed[i] = Text(said[i]) \/ (i = 1 /\ carried)
    /\ ~carried \/ Arrived > 0 => msgdata = Unfinished

WasSent(message) == \E c \in Contents : message = Sealed(c)

\* What thread_recv_msg accepts as valid was sent by the image server.
AcceptedWereSent == \A i \in DOMAIN accepted : WasSent(accepted[i])

\* A connection that breaks costs at most one message that was accepted and never sent:
\* the parser is back in step with the frames afterwards.
OneWrongPerBreak ==
  Cardinality({i \in DOMAIN accepted : ~WasSent(accepted[i])}) <= breaks

\* The image server always sees the configured port: each new socket is bound before it
\* is connected, also when binding or connecting took several attempts.
ConnectsFromLocalPort == BindsPort /\ link # "down" => bound

\* A reply can still be heard: it is queued, is about to be sent from its first part on,
\* or all parts of it are on this connection - heard, on the way, or still to be sent.
OnThisConnection(m) ==
  (IF begun.reply = m THEN 1..begun.part ELSE {})
    \cup {p.part : p \in {q \in ToSet(outbound) : q.reply = m}}
    \cup (IF spc = "send" /\ outgoing.reply = m /\ link = "up"
             THEN (FrameParts - outgoing.rest + 1)..FrameParts ELSE {})

CanBeHeard(m) ==
  /\ m \notin ToSet(heard)
  /\ \/ m \in ToSet(m_messages_send)
     \/ spc = "send" /\ outgoing = [reply |-> m, rest |-> FrameParts]
     \/ link # "down" /\ OnThisConnection(m) = 1..FrameParts

Handed == IF caller = "pushing" THEN replies - 1 ELSE replies

Delivery == INSTANCE LossyQueue WITH
  offered <- Handed,
  queue <- {m \in 1..MaxReplies : CanBeHeard(m)},
  delivered <- heard

\* Replies arrive whole, at most once and in order, through partial sends, retries, and
\* connections that break and come back; some are lost.
RepliesInOrder == Delivery!Spec

\* While a connection holds, no step loses a reply that can still be heard: not a partial
\* send, not the rest of an old reply that the image server reads in front of it, nor a send
\* thread that has not noticed yet that the connection is a new one.
LostOnlyByBreaks ==
  [][\A m \in 1..MaxReplies :
       link = "up" /\ link' = "up" /\ CanBeHeard(m)
         => CanBeHeard(m)' \/ m \in ToSet(heard')]_vars

\* A connection that is gone is replaced: neither thread stays behind on the old one.
Reconnects == link # "up" ~> (link = "up" /\ m_is_connected /\ rpc = "receive")

\* On a connection that holds, every queued reply is heard, whatever the send thread was
\* doing when the connection was made.
RepliesHeard ==
  \A m \in 1..MaxReplies, b \in 0..MaxBreaks :
    (link = "up" /\ breaks = b /\ m \in ToSet(m_messages_send))
      ~> (m \in ToSet(heard) \/ breaks > b)
=============================================================================
