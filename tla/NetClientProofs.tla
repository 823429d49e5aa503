-------------------------- MODULE NetClientProofs ---------------------------
(***************************************************************************)
(* What TLAPS proves about the connection and the coding of its messages,  *)
(* for every base, content and bound.                                      *)
(***************************************************************************)
EXTENDS NetClient, MessageCodecProofs

\* The receiver's check (check_msg_validation_china_post) accepts every message that was
\* sealed with generate_msg_validation_code_china_post, whatever the bytes are.
THEOREM SealedPasses ==
  ASSUME NEW content \in Seq(Byte), content # <<>>
  PROVE  check_msg_validation(Sealed(content))
BY SealedIsValid

\* encode_data_hex writes digits only, so the text of a message never holds a character
\* that begins or ends a frame: client_process_recv cuts the frames where they were made.
THEOREM EncodedHasNoMarkers ==
  ASSUME NEW bytes \in Seq(Byte)
  PROVE  /\ encode_data_hex(bytes) \in Seq(Digit)
         /\ Len(encode_data_hex(bytes)) = 2 * Len(bytes)
         /\ {Colon, CR, LF} \cap Digit = {}
BY TextIs, Markers

\* What decode_data_hex makes of the text encode_data_hex wrote are the bytes it was given.
THEOREM DecodeUndoesEncode ==
  ASSUME NEW bytes \in Seq(Byte)
  PROVE  decode_data_hex(encode_data_hex(bytes)) = bytes
BY DecodedIsEncoded

-----------------------------------------------------------------------------
(* Where the receive thread is tells whether there is a connection and     *)
(* whether the socket is bound: Bind is skipped only when binded says so,  *)
(* and binded is true only of a bound socket.                              *)
BindInv ==
  /\ rpc \in {"top", "connect", "connected", "receive", "parse", "close"}
  /\ link # "down" => rpc \notin {"top", "connect"}
  /\ BindsPort /\ rpc # "top" => bound
  /\ binded => bound

\* It holds at the start.
LEMMA BindInvInit == Init => BindInv
BY DEF Init, BindInv

\* Every step keeps it.
LEMMA BindInvNext == BindInv /\ [Next]_vars => BindInv'
<1> SUFFICES ASSUME BindInv, [Next]_vars
             PROVE  BindInv'
  OBVIOUS
<1> USE DEF BindInv, receiver, sender, program, network, history
<1>1. CASE ReceiveThread
  <2>1. CASE StartOver
    BY <2>1 DEF StartOver
  <2>2. CASE Bind
    BY <2>2 DEF Bind
  <2>3. CASE BindFails
    BY <2>3 DEF BindFails
  <2>4. CASE Connect
    BY <2>4 DEF Connect
  <2>5. CASE ConnectFails
    BY <2>5 DEF ConnectFails
  <2>6. CASE SetConnected
    BY <2>6 DEF SetConnected
  <2>7. CASE Receive
    BY <2>7 DEF Receive
  <2>8. CASE ReceiveFails
    BY <2>8 DEF ReceiveFails
  <2>12. CASE ReceiveTimesOut
    BY <2>12 DEF ReceiveTimesOut
  <2>9. CASE ParseMessage
    BY <2>9 DEF ParseMessage
  <2>10. CASE ParseRest
    BY <2>10 DEF ParseRest
  <2>11. CASE Close
    BY <2>11 DEF Close
  <2> QED
    BY <1>1, <2>1, <2>2, <2>3, <2>4, <2>5, <2>6, <2>7, <2>8, <2>9, <2>10, <2>11,
       <2>12
    DEF ReceiveThread
<1>2. CASE SendThread
  <2>1. CASE CheckConnected
    BY <2>1 DEF CheckConnected
  <2>2. CASE Acquire
    BY <2>2 DEF Acquire
  <2>3. CASE Send
    BY <2>3 DEF Send
  <2>4. CASE SendFails
    BY <2>4 DEF SendFails
  <2> QED
    BY <1>2, <2>1, <2>2, <2>3, <2>4 DEF SendThread
<1>3. CASE Program
  <2>1. CASE TakeMessage
    BY <2>1 DEF TakeMessage
  <2>2. CASE OfferReply
    BY <2>2 DEF OfferReply
  <2>3. CASE PushReply
    BY <2>3 DEF PushReply
  <2> QED
    BY <1>3, <2>1, <2>2, <2>3 DEF Program
<1>4. CASE Network
  <2>1. CASE ServerSends
    BY <2>1 DEF ServerSends
  <2>2. CASE ServerHears
    BY <2>2 DEF ServerHears
  <2>3. CASE Break
    BY <2>3 DEF Break
  <2> QED
    BY <1>4, <2>1, <2>2, <2>3 DEF Network
<1>5. CASE UNCHANGED vars
  BY <1>5 DEF vars
<1> QED
  BY <1>1, <1>2, <1>3, <1>4, <1>5 DEF Next

\* Every connection is made from the configured local port, however often the receive
\* thread of NetworkClient has to bind, connect and start over.
THEOREM BoundBeforeConnected == Spec => []ConnectsFromLocalPort
<1>1. Init => BindInv
  BY BindInvInit
<1>2. BindInv /\ [Next]_vars => BindInv'
  BY BindInvNext
<1>3. BindInv => ConnectsFromLocalPort
  BY DEF BindInv, ConnectsFromLocalPort
<1> QED
  BY <1>1, <1>2, <1>3, PTL DEF Spec

-----------------------------------------------------------------------------
(* What is sent.                                                           *)

\* The types of what has to do with it.
SendTypes ==
  /\ spc \in {"check", "acquire", "send"}
  /\ outgoing \in [reply : 0..MaxReplies, rest : 0..FrameParts]
  /\ spc = "send" => outgoing.reply # 0 /\ outgoing.rest # 0
  /\ m_messages_send \in Seq(1..MaxReplies)
  /\ caller \in {"idle", "pushing"}
  /\ replies \in 0..MaxReplies
  /\ caller = "pushing" => replies # 0
  /\ link \in {"down", "up", "timeout", "dying"}
  /\ outbound \in Seq(Part)
  /\ begun \in Part \cup {NoPart}
  /\ heard \in Seq(1..MaxReplies)

\* The part p comes before the part q.
Before(p, q) == p.reply < q.reply \/ (p.reply = q.reply /\ p.part < q.part)

\* The part p comes before all parts that are still to be sent, when out is outgoing.
Gone(p, out) ==
  p.reply < out.reply \/ (p.reply = out.reply /\ p.part <= FrameParts - out.rest)

\* The replies wait in the order they were handed over, behind the one being sent.
QueueOrder ==
  /\ \A i, j \in DOMAIN m_messages_send : i < j => m_messages_send[i] < m_messages_send[j]
  /\ \A i \in DOMAIN m_messages_send :
       outgoing.reply < m_messages_send[i] /\ m_messages_send[i] <= Handed
  /\ outgoing.reply <= Handed

\* The parts are on the way in the order they were sent, behind the one heard last.
WireOrder ==
  /\ \A i, j \in DOMAIN outbound : i < j => Before(outbound[i], outbound[j])
  /\ \A i \in DOMAIN outbound : Before(begun, outbound[i]) /\ Gone(outbound[i], outgoing)
  /\ Gone(begun, outgoing)
  /\ link = "down" => outbound = << >>

\* What was heard was sent, whole, and no part of it is on the way any more.
HeardOrder ==
  /\ \A i \in DOMAIN heard :
       /\ heard[i] < outgoing.reply \/ (heard[i] = outgoing.reply /\ outgoing.rest = 0)
       /\ \A j \in DOMAIN outbound : heard[i] < outbound[j].reply
  /\ begun.part = FrameParts => \E i \in DOMAIN heard : heard[i] = begun.reply

SendInv == BindInv /\ SendTypes /\ QueueOrder /\ WireOrder /\ HeardOrder

\* It holds at the start.
LEMMA SendInit == Init => SendInv
<1> SUFFICES ASSUME Init PROVE SendInv
  OBVIOUS
<1>1. MaxReplies \in Nat /\ FrameParts \in Nat /\ FrameParts # 0
  BY ClientAssumption DEF ClientAssumption
<1>2. /\ DOMAIN m_messages_send = {} /\ DOMAIN outbound = {} /\ DOMAIN heard = {}
      /\ outgoing = [reply |-> 0, rest |-> 0] /\ begun = [reply |-> 0, part |-> 0]
  BY DEF Init, NoPart
<1>3. BindInv
  BY DEF Init, BindInv
<1>4. SendTypes
  BY <1>1 DEF Init, SendTypes
<1>5. QueueOrder
  BY <1>1, <1>2 DEF Init, QueueOrder, Handed
<1>6. WireOrder
  BY <1>1, <1>2 DEF Init, WireOrder, Gone
<1>7. HeardOrder
  BY <1>1, <1>2 DEF HeardOrder
<1> QED
  BY <1>3, <1>4, <1>5, <1>6, <1>7 DEF SendInv

\* Parts, and what is not one yet.
LEMMA PartIs ==
  /\ MaxReplies \in Nat /\ FrameParts \in Nat /\ FrameParts # 0
  /\ \A p \in Part : p.reply \in 1..MaxReplies /\ p.part \in 1..FrameParts
  /\ NoPart.reply = 0 /\ NoPart.part = 0
  /\ \A p \in Part \cup {NoPart} : p.reply \in Nat /\ p.part \in Nat /\ p.part <= FrameParts
BY ClientAssumption DEF ClientAssumption, Part, NoPart

\* Steps that have nothing to do with replies.
SendVars == <<spc, outgoing, m_messages_send, caller, replies, outbound, begun, heard>>

LEMMA OthersKeepSend ==
  ASSUME SendInv, BindInv', UNCHANGED SendVars,
         link' \in {"down", "up", "timeout", "dying"}, link' = "down" => outbound = << >>
  PROVE  SendInv'
<1> USE DEF SendVars
<1>1. SendTypes'
  BY DEF SendInv, SendTypes
<1>2. QueueOrder'
  BY DEF SendInv, QueueOrder, Handed
<1>3. WireOrder'
  BY DEF SendInv, WireOrder, Before, Gone
<1>4. HeardOrder'
  BY DEF SendInv, HeardOrder
<1> QED
  BY <1>1, <1>2, <1>3, <1>4 DEF SendInv

\* The receive thread only makes and closes the connection.
LEMMA ReceiverKeepsSend ==
  ASSUME SendInv, BindInv', ReceiveThread
  PROVE  SendInv'
<1> USE DEF sender, program, SendVars
<1>0. link \in {"down", "up", "timeout", "dying"} /\ (link = "down" => outbound = << >>)
  BY DEF SendInv, SendTypes, WireOrder
<1>1. CASE Connect
  <2>1. link = "down" /\ outbound = << >>
    BY <1>0, <1>1 DEF SendInv, BindInv, Connect
  <2>2. /\ begun' = NoPart /\ link' = "up" /\ outbound' = << >>
        /\ UNCHANGED <<spc, outgoing, m_messages_send, caller, replies, heard>>
    BY <1>1, <2>1 DEF Connect
  <2>3. SendTypes'
    BY <2>2 DEF SendInv, SendTypes
  <2>4. QueueOrder'
    BY <2>2 DEF SendInv, QueueOrder, Handed
  <2>5. DOMAIN outbound' = {}
    BY <2>2
  <2>6. Gone(NoPart, outgoing)
    <3>1. outgoing.reply \in Nat /\ outgoing.rest \in 0..FrameParts
      BY PartIs DEF SendInv, SendTypes
    <3> QED
      BY <3>1, PartIs DEF Gone
  <2>7. WireOrder'
    BY <2>2, <2>5, <2>6 DEF WireOrder, Gone
  <2>8. HeardOrder'
    BY <2>2, <2>5, PartIs DEF SendInv, HeardOrder
  <2> QED
    BY <2>3, <2>4, <2>7, <2>8 DEF SendInv
<1>2. CASE Close
  <2>1. /\ outbound' = << >> /\ link' = "down"
        /\ UNCHANGED <<spc, outgoing, m_messages_send, caller, replies, begun, heard>>
    BY <1>2 DEF Close, history
  <2>2. DOMAIN outbound' = {}
    BY <2>1
  <2>3. SendTypes'
    BY <2>1 DEF SendInv, SendTypes
  <2>4. QueueOrder'
    BY <2>1 DEF SendInv, QueueOrder, Handed
  <2>5. WireOrder'
    BY <2>1, <2>2 DEF SendInv, WireOrder, Gone
  <2>6. HeardOrder'
    BY <2>1, <2>2 DEF SendInv, HeardOrder
  <2> QED
    BY <2>3, <2>4, <2>5, <2>6 DEF SendInv
<1>3. CASE StartOver \/ Bind \/ BindFails \/ ConnectFails \/ SetConnected
  <2>1. UNCHANGED SendVars /\ link' = link
    BY <1>3 DEF StartOver, Bind, BindFails, ConnectFails, SetConnected, network, history
  <2> QED
    BY <1>0, <2>1, OthersKeepSend
<1>4. CASE Receive \/ ReceiveTimesOut \/ ReceiveFails \/ ParseMessage \/ ParseRest
  <2>1. UNCHANGED SendVars /\ link' \in {link, "dying"}
    BY <1>4 DEF Receive, ReceiveTimesOut, ReceiveFails, ParseMessage, ParseRest, network, history
  <2> QED
    BY <1>0, <2>1, OthersKeepSend
<1> QED
  BY <1>1, <1>2, <1>3, <1>4 DEF ReceiveThread

\* The send thread takes the next reply, and sends more and more of its parts.
LEMMA SenderKeepsSend ==
  ASSUME SendInv, BindInv', SendThread
  PROVE  SendInv'
<1> USE DEF receiver, program
<1>0. /\ MaxReplies \in Nat /\ FrameParts \in Nat
      /\ outgoing \in [reply : 0..MaxReplies, rest : 0..FrameParts]
      /\ outbound \in Seq(Part) /\ heard \in Seq(1..MaxReplies)
      /\ m_messages_send \in Seq(1..MaxReplies)
  BY PartIs DEF SendInv, SendTypes
<1>1. CASE CheckConnected \/ SendFails
  <2>1. /\ UNCHANGED <<outgoing, m_messages_send, caller, replies, outbound, begun, heard, link>>
        /\ spc' \in {"acquire", "check", "send"}
        /\ spc' = "send" => spc = "send"
    BY <1>1 DEF CheckConnected, SendFails, network, history
  <2>2. SendTypes'
    BY <2>1 DEF SendInv, SendTypes
  <2>3. QueueOrder' /\ WireOrder' /\ HeardOrder'
    BY <2>1 DEF SendInv, QueueOrder, WireOrder, HeardOrder, Handed, Before, Gone
  <2> QED
    BY <2>2, <2>3 DEF SendInv
<1>2. CASE Acquire
  <2>1. /\ m_messages_send # << >> /\ m_messages_send' = Tail(m_messages_send)
        /\ outgoing' = [reply |-> Head(m_messages_send), rest |-> FrameParts]
        /\ spc' = "send"
        /\ UNCHANGED <<caller, replies, outbound, begun, heard, link>>
    BY <1>2 DEF Acquire, network, history
  <2>2. /\ Len(m_messages_send) \in Nat /\ Len(m_messages_send) > 0
        /\ m_messages_send' \in Seq(1..MaxReplies)
        /\ Len(m_messages_send') = Len(m_messages_send) - 1
        /\ \A i \in 1..(Len(m_messages_send) - 1) : m_messages_send'[i] = m_messages_send[i + 1]
        /\ outgoing'.reply = m_messages_send[1] /\ outgoing'.rest = FrameParts
        /\ m_messages_send[1] \in 1..MaxReplies
    BY <1>0, <2>1, EmptySeq
  <2>3. outgoing.reply < outgoing'.reply /\ outgoing'.reply <= Handed
    <3>1. 1 \in DOMAIN m_messages_send
      BY <2>2
    <3> QED
      BY <2>2, <3>1 DEF SendInv, QueueOrder
  <2>4. SendTypes'
    <3>1. outgoing' \in [reply : 0..MaxReplies, rest : 0..FrameParts]
          /\ outgoing'.reply # 0 /\ outgoing'.rest # 0
      BY <1>0, <2>1, <2>2, PartIs
    <3> QED
      BY <2>1, <2>2, <3>1 DEF SendInv, SendTypes
  <2>5. QueueOrder'
    <3>1. DOMAIN m_messages_send' = 1..(Len(m_messages_send) - 1)
      BY <2>2
    <3>2. ASSUME NEW i \in DOMAIN m_messages_send'
          PROVE  /\ i + 1 \in DOMAIN m_messages_send /\ 1 < i + 1
                 /\ m_messages_send'[i] = m_messages_send[i + 1]
      BY <2>2, <3>1
    <3>3. 1 \in DOMAIN m_messages_send
      BY <2>2
    <3>4. ASSUME NEW i \in DOMAIN m_messages_send'
          PROVE  outgoing'.reply < m_messages_send'[i] /\ m_messages_send'[i] <= Handed'
      <4>1. Handed' = Handed
        BY <2>1 DEF Handed
      <4>2. m_messages_send[1] < m_messages_send[i + 1] /\ m_messages_send[i + 1] <= Handed
        BY <3>2, <3>3 DEF SendInv, QueueOrder
      <4> QED
        BY <2>2, <3>2, <4>1, <4>2
    <3>5. ASSUME NEW i \in DOMAIN m_messages_send', NEW j \in DOMAIN m_messages_send', i < j
          PROVE  m_messages_send'[i] < m_messages_send'[j]
      <4>1. i + 1 < j + 1
        BY <3>1, <3>5
      <4> QED
        BY <3>2, <4>1 DEF SendInv, QueueOrder
    <3>6. outgoing'.reply <= Handed'
      BY <2>1, <2>3 DEF Handed
    <3> QED
      BY <3>4, <3>5, <3>6 DEF QueueOrder
  <2>6. \A p \in Part \cup {NoPart} : Gone(p, outgoing) => p.reply < outgoing'.reply
    BY <1>0, <2>1, <2>2, <2>3, PartIs DEF Gone
  <2>7. WireOrder'
    <3>1. begun \in Part \cup {NoPart} /\ \A i \in DOMAIN outbound : outbound[i] \in Part
      BY <1>0 DEF SendInv, SendTypes
    <3> QED
      BY <2>1, <2>6, <3>1 DEF SendInv, WireOrder, Gone
  <2>8. HeardOrder'
    <3>1. ASSUME NEW i \in DOMAIN heard PROVE heard[i] < outgoing'.reply
      <4>1. heard[i] \in 1..MaxReplies /\ outgoing.reply \in Int /\ outgoing'.reply \in Int
        BY <1>0, <2>2
      <4>2. heard[i] <= outgoing.reply
        BY <4>1 DEF SendInv, HeardOrder
      <4> QED
        BY ONLY <2>3, <4>1, <4>2
    <3> QED
      BY <2>1, <3>1 DEF SendInv, HeardOrder
  <2> QED
    BY <2>4, <2>5, <2>7, <2>8 DEF SendInv
<1>3. CASE Send
  <2>1. spc = "send" /\ link # "down" /\ outgoing.reply # 0
    BY <1>3 DEF Send, SendInv, SendTypes
  <2> DEFINE first == FrameParts - outgoing.rest
             Parts(k) == [i \in 1..k |-> [reply |-> outgoing.reply, part |-> first + i]]
  <2>2. PICK k \in 1..outgoing.rest :
          /\ outbound' = IF link = "up" THEN outbound \o Parts(k) ELSE outbound
          /\ outgoing' = [outgoing EXCEPT !.rest = @ - k]
    BY <1>3 DEF Send
  <2>3. /\ spc' = IF outgoing'.rest = 0 THEN "acquire" ELSE "send"
        /\ UNCHANGED <<m_messages_send, caller, replies, begun, heard, link>>
    BY <1>3 DEF Send, history
  <2>4. /\ k \in Nat /\ k # 0 /\ k <= outgoing.rest
        /\ outgoing.reply \in 1..MaxReplies /\ outgoing.rest \in 0..FrameParts
        /\ outgoing'.reply = outgoing.reply /\ outgoing'.rest = outgoing.rest - k
        /\ outgoing' \in [reply : 0..MaxReplies, rest : 0..FrameParts]
    <3>1. outgoing.reply \in 1..MaxReplies /\ outgoing.rest \in 0..FrameParts
      BY <1>0, <2>1
    <3>2. k \in Nat /\ k # 0 /\ k <= outgoing.rest /\ outgoing.rest - k \in 0..FrameParts
      BY <1>0, <3>1
    <3>3. outgoing' = [outgoing EXCEPT !.rest = outgoing.rest - k]
      BY <2>2
    <3> QED
      BY <1>0, <3>1, <3>2, <3>3
  <2>5. /\ Parts(k) \in Seq(Part) /\ Len(Parts(k)) = k
        /\ \A i \in 1..k : Parts(k)[i].reply = outgoing.reply /\ Parts(k)[i].part = first + i
    <3>1. \A i \in 1..k : first + i \in 1..FrameParts
      BY <1>0, <2>4
    <3>2. \A i \in 1..k : [reply |-> outgoing.reply, part |-> first + i] \in Part
      BY <2>4, <3>1 DEF Part
    <3> QED
      BY <2>4, <3>2
  <2> HIDE DEF Parts
  <2>6. /\ outbound' \in Seq(Part)
        /\ \A i \in DOMAIN outbound' :
             \/ i \in DOMAIN outbound /\ outbound'[i] = outbound[i]
             \/ /\ i > Len(outbound) /\ i - Len(outbound) \in 1..k
                /\ outbound'[i] = Parts(k)[i - Len(outbound)]
    <3>1. CASE link # "up"
      BY <1>0, <2>2, <3>1
    <3>2. CASE link = "up"
      <4>1. PICK l : l = Len(outbound)
        OBVIOUS
      <4>2. /\ outbound' \in Seq(Part) /\ Len(outbound') = l + k /\ l \in Nat
            /\ \A i \in 1..l : outbound'[i] = outbound[i]
            /\ \A i \in 1..k : outbound'[l + i] = Parts(k)[i]
        <5>1. outbound' = outbound \o Parts(k)
          BY <2>2, <3>2
        <5>2. outbound \in Seq(Part) /\ Parts(k) \in Seq(Part)
          BY <1>0, <2>5
        <5>3. /\ outbound' \in Seq(Part) /\ Len(outbound') = Len(outbound) + Len(Parts(k))
              /\ \A i \in 1..Len(outbound) : outbound'[i] = outbound[i]
              /\ \A i \in 1..Len(Parts(k)) : outbound'[Len(outbound) + i] = Parts(k)[i]
          BY ONLY <5>1, <5>2, Joined
        <5>4. Len(outbound) \in Nat
          BY <5>2
        <5> QED
          BY ONLY <2>5, <4>1, <5>3, <5>4
      <4>3. ASSUME NEW i \in 1..(l + k)
            PROVE  \/ i \in 1..l /\ outbound'[i] = outbound[i]
                   \/ i > l /\ i - l \in 1..k /\ outbound'[i] = Parts(k)[i - l]
        <5>1. CASE i <= l
          BY <2>4, <4>2, <5>1
        <5>2. CASE i > l
          <6>1. i - l \in 1..k /\ l + (i - l) = i
            BY <2>4, <4>2, <5>2
          <6> QED
            BY <4>2, <5>2, <6>1
        <5> QED
          BY <4>2, <5>1, <5>2
      <4>4. DOMAIN outbound' = 1..(l + k) /\ DOMAIN outbound = 1..l
        BY <1>0, <4>1, <4>2
      <4> QED
        BY <4>1, <4>2, <4>3, <4>4
    <3> QED
      BY <3>1, <3>2
  <2>7. SendTypes'
    BY <2>1, <2>3, <2>4, <2>6 DEF SendInv, SendTypes
  <2>8. QueueOrder'
    BY <2>3, <2>4 DEF SendInv, QueueOrder, Handed
  <2>9. ASSUME NEW p \in Part \cup {NoPart}, Gone(p, outgoing)
        PROVE  Gone(p, outgoing')
    BY <1>0, <2>4, <2>9, PartIs DEF Gone
  <2>10. ASSUME NEW i \in 1..k, NEW p \in Part \cup {NoPart}, Gone(p, outgoing)
         PROVE  Before(p, Parts(k)[i])
    <3>1. p.reply < outgoing.reply \/ (p.reply = outgoing.reply /\ p.part < first + i)
      BY <1>0, <2>4, <2>10, PartIs DEF Gone
    <3> QED
      BY <2>5, <3>1 DEF Before
  <2>11. ASSUME NEW i \in 1..k PROVE Gone(Parts(k)[i], outgoing')
    <3>1. first + i <= FrameParts - outgoing'.rest
      BY <1>0, <2>4
    <3> QED
      BY <2>4, <2>5, <3>1 DEF Gone
  <2>12. begun \in Part \cup {NoPart} /\ \A i \in DOMAIN outbound : outbound[i] \in Part
    BY <1>0 DEF SendInv, SendTypes
  <2>13. WireOrder'
    <3>1. ASSUME NEW i \in DOMAIN outbound', NEW j \in DOMAIN outbound', i < j
          PROVE  Before(outbound'[i], outbound'[j])
      <4>1. CASE i \in DOMAIN outbound /\ j \in DOMAIN outbound
        <5>1. outbound'[i] = outbound[i] /\ outbound'[j] = outbound[j]
          BY <1>0, <2>6, <4>1
        <5> QED
          BY <3>1, <4>1, <5>1 DEF SendInv, WireOrder
      <4>2. CASE i \in DOMAIN outbound /\ j \notin DOMAIN outbound
        <5>1. outbound'[i] = outbound[i] /\ j - Len(outbound) \in 1..k
              /\ outbound'[j] = Parts(k)[j - Len(outbound)]
          BY <1>0, <2>6, <4>2
        <5>2. outbound[i] \in Part \cup {NoPart} /\ Gone(outbound[i], outgoing)
          BY <2>12, <4>2 DEF SendInv, WireOrder
        <5> QED
          BY <2>10, <5>1, <5>2
      <4>3. CASE i \notin DOMAIN outbound
        <5>1. /\ i - Len(outbound) \in 1..k /\ j - Len(outbound) \in 1..k
              /\ i - Len(outbound) < j - Len(outbound)
              /\ outbound'[i] = Parts(k)[i - Len(outbound)]
              /\ outbound'[j] = Parts(k)[j - Len(outbound)]
          BY <1>0, <2>6, <3>1, <4>3
        <5> QED
          BY <1>0, <2>4, <2>5, <5>1 DEF Before
      <4> QED
        BY <4>1, <4>2, <4>3
    <3>2. ASSUME NEW i \in DOMAIN outbound'
          PROVE  Before(begun', outbound'[i]) /\ Gone(outbound'[i], outgoing')
      <4>1. CASE i \in DOMAIN outbound /\ outbound'[i] = outbound[i]
        BY <2>3, <2>9, <2>12, <4>1 DEF SendInv, WireOrder
      <4>2. CASE i - Len(outbound) \in 1..k /\ outbound'[i] = Parts(k)[i - Len(outbound)]
        <5>1. Gone(begun, outgoing)
          BY DEF SendInv, WireOrder
        <5> QED
          BY <2>3, <2>10, <2>11, <2>12, <4>2, <5>1
      <4> QED
        BY <2>6, <4>1, <4>2
    <3>3. Gone(begun', outgoing')
      BY <2>3, <2>9, <2>12 DEF SendInv, WireOrder
    <3>4. link' # "down"
      BY <2>1, <2>3
    <3> QED
      BY <3>1, <3>2, <3>3, <3>4 DEF WireOrder
  <2>14. HeardOrder'
    <3>1. ASSUME NEW i \in DOMAIN heard PROVE heard[i] < outgoing.reply
      <4>1. outgoing.rest # 0
        BY <2>1 DEF SendInv, SendTypes
      <4> QED
        BY <4>1 DEF SendInv, HeardOrder
    <3>2. ASSUME NEW i \in DOMAIN heard, NEW j \in DOMAIN outbound'
          PROVE  heard[i] < outbound'[j].reply
      <4>1. CASE j \in DOMAIN outbound /\ outbound'[j] = outbound[j]
        BY <4>1 DEF SendInv, HeardOrder
      <4>2. CASE j - Len(outbound) \in 1..k /\ outbound'[j] = Parts(k)[j - Len(outbound)]
        BY <2>5, <3>1, <4>2
      <4> QED
        BY <2>6, <4>1, <4>2
    <3> QED
      BY <2>3, <2>4, <3>1, <3>2 DEF SendInv, HeardOrder
  <2> QED
    BY <2>7, <2>8, <2>13, <2>14 DEF SendInv
<1> QED
  BY <1>1, <1>2, <1>3 DEF SendThread

\* The program hands over one reply after the other.
LEMMA ProgramKeepsSend ==
  ASSUME SendInv, BindInv', Program
  PROVE  SendInv'
<1> USE DEF receiver, sender, network, history
<1>1. CASE TakeMessage
  <2>1. UNCHANGED SendVars /\ link' = link
    BY <1>1 DEF TakeMessage, SendVars
  <2> QED
    BY <2>1, OthersKeepSend DEF SendInv, SendTypes, WireOrder
<1>2. CASE OfferReply
  <2>1. /\ UNCHANGED <<spc, outgoing, m_messages_send, outbound, begun, heard, link>>
        /\ replies < MaxReplies /\ replies' = replies + 1 /\ caller = "idle"
        /\ caller' \in {"idle", "pushing"}
    BY <1>2 DEF OfferReply
  <2>2. SendTypes'
    <3>1. replies \in 0..MaxReplies /\ MaxReplies \in Nat
      BY PartIs DEF SendInv, SendTypes
    <3>2. replies' \in 0..MaxReplies /\ replies' # 0
      BY <2>1, <3>1
    <3> QED
      BY <2>1, <3>2 DEF SendInv, SendTypes
  <2>3. Handed \in Nat /\ Handed' \in Nat /\ Handed <= Handed'
    BY <2>1, PartIs DEF Handed, SendInv, SendTypes
  <2>4. QueueOrder'
    <3>1. ASSUME NEW i \in DOMAIN m_messages_send PROVE m_messages_send[i] <= Handed'
      <4>1. m_messages_send[i] \in Int /\ m_messages_send[i] <= Handed
        BY PartIs DEF SendInv, SendTypes, QueueOrder
      <4> QED
        BY ONLY <2>3, <4>1
    <3>2. outgoing.reply <= Handed'
      <4>1. outgoing.reply \in Int /\ outgoing.reply <= Handed
        BY PartIs DEF SendInv, SendTypes, QueueOrder
      <4> QED
        BY ONLY <2>3, <4>1
    <3> QED
      BY <2>1, <3>1, <3>2 DEF SendInv, QueueOrder
  <2>5. WireOrder' /\ HeardOrder'
    BY <2>1 DEF SendInv, WireOrder, HeardOrder, Before, Gone
  <2> QED
    BY <2>2, <2>4, <2>5 DEF SendInv
<1>3. CASE PushReply
  <2>1. /\ UNCHANGED <<spc, outgoing, outbound, begun, heard, link, replies>>
        /\ m_messages_send' = Append(m_messages_send, replies)
        /\ caller = "pushing" /\ caller' = "idle"
    BY <1>3 DEF PushReply
  <2>2. replies \in 1..MaxReplies /\ MaxReplies \in Nat /\ m_messages_send \in Seq(1..MaxReplies)
    BY <2>1, PartIs DEF SendInv, SendTypes
  <2>3. Handed = replies - 1 /\ Handed' = replies
    BY <2>1 DEF Handed
  <2>4. SendTypes'
    BY <2>1, <2>2 DEF SendInv, SendTypes
  <2>5. /\ DOMAIN m_messages_send' = 1..(Len(m_messages_send) + 1)
        /\ DOMAIN m_messages_send = 1..Len(m_messages_send) /\ Len(m_messages_send) \in Nat
        /\ \A i \in DOMAIN m_messages_send : m_messages_send'[i] = m_messages_send[i]
        /\ m_messages_send'[Len(m_messages_send) + 1] = replies
    BY <2>1, <2>2
  <2>6. \A i \in DOMAIN m_messages_send : m_messages_send[i] < replies
    BY <2>2, <2>3 DEF SendInv, QueueOrder
  <2>7. outgoing.reply < replies
    BY <2>2, <2>3, PartIs DEF SendInv, QueueOrder, SendTypes
  <2>8. QueueOrder'
    <3>1. ASSUME NEW i \in DOMAIN m_messages_send'
          PROVE  \/ i \in DOMAIN m_messages_send /\ i < Len(m_messages_send) + 1
                 \/ i = Len(m_messages_send) + 1
      BY <2>5
    <3>2. ASSUME NEW i \in DOMAIN m_messages_send'
          PROVE  outgoing.reply < m_messages_send'[i] /\ m_messages_send'[i] <= replies
      BY <2>2, <2>5, <2>6, <2>7, <3>1 DEF SendInv, QueueOrder
    <3>3. ASSUME NEW i \in DOMAIN m_messages_send', NEW j \in DOMAIN m_messages_send', i < j
          PROVE  m_messages_send'[i] < m_messages_send'[j]
      <4>1. i \in DOMAIN m_messages_send
        BY <2>5, <3>3
      <4>2. CASE j \in DOMAIN m_messages_send
        BY <2>5, <3>3, <4>1, <4>2 DEF SendInv, QueueOrder
      <4>3. CASE j = Len(m_messages_send) + 1
        BY <2>5, <2>6, <4>1, <4>3
      <4> QED
        BY <3>1, <4>2, <4>3
    <3>4. outgoing.reply <= replies
      BY <2>2, <2>7, PartIs DEF SendInv, SendTypes
    <3> QED
      BY <2>1, <2>3, <3>2, <3>3, <3>4 DEF QueueOrder
  <2>9. WireOrder' /\ HeardOrder'
    BY <2>1 DEF SendInv, WireOrder, HeardOrder, Before, Gone
  <2> QED
    BY <2>4, <2>8, <2>9 DEF SendInv
<1> QED
  BY <1>1, <1>2, <1>3 DEF Program

\* The image server hears the parts in their order; a break loses the last ones.
LEMMA NetworkKeepsSend ==
  ASSUME SendInv, BindInv', Network
  PROVE  SendInv'
<1> USE DEF receiver, sender, program
<1>0. /\ outbound \in Seq(Part) /\ heard \in Seq(1..MaxReplies)
      /\ begun \in Part \cup {NoPart}
      /\ \A i \in DOMAIN outbound : outbound[i] \in Part
  BY DEF SendInv, SendTypes
<1>1. CASE ServerSends
  <2>1. UNCHANGED SendVars /\ link' = link
    BY <1>1 DEF ServerSends, SendVars
  <2> QED
    BY <2>1, OthersKeepSend DEF SendInv, SendTypes, WireOrder
<1>2. CASE Break
  <2>1. /\ UNCHANGED <<spc, outgoing, m_messages_send, caller, replies, begun, heard>>
        /\ link' \in {"timeout", "dying"}
    BY <1>2 DEF Break, history
  <2>2. PICK o \in 0..Len(outbound) : outbound' = SubSeq(outbound, 1, o)
    BY <1>2 DEF Break
  <2>3. /\ outbound' \in Seq(Part) /\ DOMAIN outbound' = 1..o
        /\ \A i \in 1..o : i \in DOMAIN outbound /\ outbound'[i] = outbound[i]
    BY <1>0, <2>2
  <2>4. SendTypes'
    BY <2>1, <2>3 DEF SendInv, SendTypes
  <2>5. QueueOrder'
    BY <2>1 DEF SendInv, QueueOrder, Handed
  <2>6. WireOrder'
    BY <2>1, <2>3 DEF SendInv, WireOrder, Before, Gone
  <2>7. HeardOrder'
    BY <2>1, <2>3 DEF SendInv, HeardOrder
  <2> QED
    BY <2>4, <2>5, <2>6, <2>7 DEF SendInv
<1>3. CASE ServerHears
  <2>1. /\ outbound # << >> /\ outbound' = Tail(outbound)
        /\ UNCHANGED <<spc, outgoing, m_messages_send, caller, replies, link>>
    BY <1>3 DEF ServerHears
  <2>2. PICK p : p = outbound[1]
    OBVIOUS
  <2>3. \/ begun' = NoPart /\ heard' = heard
        \/ begun' = p /\ p.part # FrameParts /\ heard' = heard
        \/ begun' = p /\ p.part = FrameParts /\ heard' = Append(heard, p.reply)
    <3>1. Head(outbound) = p
      BY <2>1, <2>2
    <3> DEFINE continues == p.part = 1 \/ [p EXCEPT !.part = @ - 1] = begun
    <3>2. /\ begun' = IF continues THEN p ELSE NoPart
          /\ heard' = IF continues /\ p.part = FrameParts THEN Append(heard, p.reply) ELSE heard
      BY <1>3, <3>1 DEF ServerHears
    <3> HIDE DEF continues
    <3> QED
      BY <3>2
  <2>4. /\ Len(outbound) \in Nat /\ Len(outbound) > 0 /\ 1 \in DOMAIN outbound
        /\ outbound' \in Seq(Part) /\ DOMAIN outbound' = 1..(Len(outbound) - 1)
        /\ \A i \in DOMAIN outbound' :
             /\ outbound'[i] = outbound[i + 1] /\ i + 1 \in DOMAIN outbound /\ 1 < i + 1
             /\ outbound'[i] \in Part
    BY <1>0, <2>1, EmptySeq
  <2>5. p \in Part /\ p.reply \in 1..MaxReplies /\ p.part \in 1..FrameParts
    BY <1>0, <2>2, <2>4, PartIs
  <2>6. \A i \in DOMAIN outbound' : Before(p, outbound'[i]) /\ Gone(outbound'[i], outgoing)
    BY <2>2, <2>4 DEF SendInv, WireOrder
  <2>7. SendTypes'
    <3>1. heard' \in Seq(1..MaxReplies) /\ begun' \in Part \cup {NoPart}
      <4>1. Append(heard, p.reply) \in Seq(1..MaxReplies)
        BY <1>0, <2>5
      <4> QED
        BY <1>0, <2>3, <2>5, <4>1
    <3> QED
      BY <2>1, <2>4, <3>1 DEF SendInv, SendTypes
  <2>8. QueueOrder'
    BY <2>1 DEF SendInv, QueueOrder, Handed
  <2>9. WireOrder'
    <3>1. ASSUME NEW i \in DOMAIN outbound', NEW j \in DOMAIN outbound', i < j
          PROVE  Before(outbound'[i], outbound'[j])
      <4>1. i + 1 < j + 1
        BY <2>4, <3>1
      <4> QED
        BY <2>4, <4>1 DEF SendInv, WireOrder
    <3>2. Gone(p, outgoing) /\ Gone(NoPart, outgoing)
      <4>1. outgoing.reply \in Nat /\ outgoing.rest \in 0..FrameParts
        BY PartIs DEF SendInv, SendTypes
      <4>2. Gone(NoPart, outgoing)
        BY <4>1, PartIs DEF Gone
      <4> QED
        BY <2>2, <2>4, <4>2 DEF SendInv, WireOrder
    <3>3. ASSUME NEW i \in DOMAIN outbound' PROVE Before(NoPart, outbound'[i])
      <4>1. outbound'[i].reply \in 1..MaxReplies
        BY <2>4, PartIs
      <4> QED
        BY <4>1, PartIs DEF Before
    <3>4. outbound' = << >> \/ link # "down"
      BY <2>1 DEF SendInv, WireOrder
    <3> QED
      BY <2>1, <2>3, <2>6, <3>1, <3>2, <3>3, <3>4 DEF WireOrder
  <2>10. ASSUME NEW i \in DOMAIN heard
         PROVE  /\ heard[i] < outgoing.reply \/ (heard[i] = outgoing.reply /\ outgoing.rest = 0)
                /\ heard[i] < p.reply
                /\ \A j \in DOMAIN outbound' : heard[i] < outbound'[j].reply
    BY <2>2, <2>4 DEF SendInv, HeardOrder
  <2>11. HeardOrder'
    <3>1. CASE begun' = NoPart /\ heard' = heard
      BY <2>1, <2>10, <3>1, PartIs DEF HeardOrder
    <3>2. CASE begun' = p /\ p.part # FrameParts /\ heard' = heard
      BY <2>1, <2>10, <3>2 DEF HeardOrder
    <3>3. CASE begun' = p /\ p.part = FrameParts /\ heard' = Append(heard, p.reply)
      <4>1. /\ DOMAIN heard' = 1..(Len(heard) + 1) /\ DOMAIN heard = 1..Len(heard)
            /\ Len(heard) \in Nat /\ heard'[Len(heard) + 1] = p.reply
            /\ \A i \in DOMAIN heard : heard'[i] = heard[i]
        BY <1>0, <2>5, <3>3
      <4>2. ASSUME NEW i \in DOMAIN heard'
            PROVE  i \in DOMAIN heard \/ heard'[i] = p.reply
        BY <4>1
      <4>3. p.reply < outgoing.reply \/ (p.reply = outgoing.reply /\ outgoing.rest = 0)
        <5>1. Gone(p, outgoing)
          BY <2>2, <2>4 DEF SendInv, WireOrder
        <5>2. outgoing.reply \in Nat /\ outgoing.rest \in 0..FrameParts
          BY PartIs DEF SendInv, SendTypes
        <5> QED
          BY <3>3, <5>1, <5>2, PartIs DEF Gone
      <4>4. ASSUME NEW j \in DOMAIN outbound' PROVE p.reply < outbound'[j].reply
        <5>1. Before(p, outbound'[j]) /\ outbound'[j] \in Part
          BY <2>4, <2>6
        <5>2. ~(FrameParts < outbound'[j].part)
          BY <5>1, PartIs
        <5> QED
          BY <3>3, <5>1, <5>2 DEF Before
      <4>5. heard'[Len(heard) + 1] = begun'.reply /\ Len(heard) + 1 \in DOMAIN heard'
        BY <3>3, <4>1
      <4>6. UNCHANGED outgoing
        BY <2>1
      <4> QED
        BY <2>10, <4>1, <4>2, <4>3, <4>4, <4>5, <4>6 DEF HeardOrder
    <3> QED
      BY <2>3, <3>1, <3>2, <3>3
  <2> QED
    BY ONLY <2>7, <2>8, <2>9, <2>11, BindInv' DEF SendInv
<1> QED
  BY ONLY <1>1, <1>2, <1>3, Network DEF Network

\* Every step keeps it.
LEMMA SendNext == SendInv /\ [Next]_vars => SendInv'
<1> SUFFICES ASSUME SendInv, [Next]_vars PROVE SendInv'
  OBVIOUS
<1>1. BindInv'
  BY BindInvNext DEF SendInv
<1>2. CASE UNCHANGED vars
  <2>1. UNCHANGED SendVars /\ link' = link
    BY <1>2 DEF vars, SendVars, sender, program, network, history
  <2> QED
    BY <1>1, <2>1, OthersKeepSend DEF SendInv, SendTypes, WireOrder
<1> QED
  BY <1>1, <1>2, ReceiverKeepsSend, SenderKeepsSend, ProgramKeepsSend, NetworkKeepsSend DEF Next

-----------------------------------------------------------------------------
(* The queue the image server sees: that of the replies that can be heard. *)

\* Part k of reply m is on this connection.
OnTheWay(m, k) ==
  \/ begun.reply = m /\ k \in 1..begun.part
  \/ \E i \in DOMAIN outbound : outbound[i].reply = m /\ outbound[i].part = k
  \/ /\ spc = "send" /\ outgoing.reply = m /\ link = "up"
     /\ k \in (FrameParts - outgoing.rest + 1)..FrameParts

\* CanBeHeard, element by element.
Hearable(m) ==
  /\ \A i \in DOMAIN heard : heard[i] # m
  /\ \/ \E i \in DOMAIN m_messages_send : m_messages_send[i] = m
     \/ spc = "send" /\ outgoing.reply = m /\ outgoing.rest = FrameParts
     \/ link # "down" /\ \A k \in 1..FrameParts : OnTheWay(m, k)

LEMMA HearableIs ==
  ASSUME SendTypes, NEW m \in 1..MaxReplies
  PROVE  CanBeHeard(m) <=> Hearable(m)
<1>1. ASSUME NEW k PROVE k \in OnThisConnection(m) <=> OnTheWay(m, k)
  BY DEF OnThisConnection, OnTheWay, ToSet
<1>2. ASSUME NEW k, OnTheWay(m, k) PROVE k \in 1..FrameParts
  <2>1. /\ begun \in Part \cup {NoPart} /\ outgoing.rest \in 0..FrameParts
        /\ \A i \in DOMAIN outbound : outbound[i] \in Part
    BY DEF SendTypes
  <2> QED
    BY <1>2, <2>1, PartIs DEF OnTheWay
<1>3. OnThisConnection(m) = 1..FrameParts <=> \A k \in 1..FrameParts : OnTheWay(m, k)
  BY <1>1, <1>2
<1>4. outgoing = [reply |-> m, rest |-> FrameParts]
        <=> outgoing.reply = m /\ outgoing.rest = FrameParts
  BY DEF SendTypes
<1> QED
  BY <1>3, <1>4 DEF CanBeHeard, Hearable, ToSet

LEMMA HearableNext ==
  ASSUME SendTypes', NEW m \in 1..MaxReplies
  PROVE  CanBeHeard(m)' <=> Hearable(m)'
<1>1. ASSUME NEW k PROVE k \in OnThisConnection(m)' <=> OnTheWay(m, k)'
  BY DEF OnThisConnection, OnTheWay, ToSet
<1>2. ASSUME NEW k, OnTheWay(m, k)' PROVE k \in 1..FrameParts
  <2>1. /\ begun' \in Part \cup {NoPart} /\ outgoing'.rest \in 0..FrameParts
        /\ \A i \in DOMAIN outbound' : outbound'[i] \in Part
    BY DEF SendTypes
  <2> QED
    BY <1>2, <2>1, PartIs DEF OnTheWay
<1>3. OnThisConnection(m)' = 1..FrameParts <=> \A k \in 1..FrameParts : OnTheWay(m, k)'
  BY <1>1, <1>2
<1>4. outgoing' = [reply |-> m, rest |-> FrameParts]
        <=> outgoing'.reply = m /\ outgoing'.rest = FrameParts
  BY DEF SendTypes
<1> QED
  BY <1>3, <1>4 DEF CanBeHeard, Hearable, ToSet

\* A step that hands over and delivers nothing may lose replies, but brings none back.
LEMMA LosesOnly ==
  ASSUME SendInv, SendInv', Handed' = Handed, heard' = heard,
         \A m \in 1..MaxReplies : Hearable(m)' => Hearable(m)
  PROVE  Delivery!Lose
<1>1. \A m \in 1..MaxReplies : CanBeHeard(m)' => CanBeHeard(m)
  BY HearableIs, HearableNext DEF SendInv
<1> QED
  BY <1>1 DEF Delivery!Lose

\* Steps that do not touch the replies and leave the connection up or down.
LEMMA OthersLoseNothing ==
  ASSUME SendInv, SendInv', UNCHANGED SendVars, link' = link \/ {link, link'} \cap {"up", "down"} = {}
  PROVE  Delivery!Lose
<1>1. ASSUME NEW m, Hearable(m)' PROVE Hearable(m)
  BY <1>1 DEF SendVars, Hearable, OnTheWay
<1>2. Handed' = Handed /\ heard' = heard
  BY DEF SendVars, Handed
<1> QED
  BY <1>1, <1>2, LosesOnly

\* The receive thread loses what was on the way when it closes the connection.
LEMMA ReceiverLoses ==
  ASSUME SendInv, SendInv', ReceiveThread
  PROVE  Delivery!Lose
<1> USE DEF sender, program
<1>1. CASE Connect
  <2>1. link = "down" /\ outbound = << >>
    BY <1>1 DEF SendInv, BindInv, WireOrder, SendTypes, Connect
  <2>2. /\ begun' = NoPart /\ outbound' = << >>
        /\ UNCHANGED <<spc, outgoing, m_messages_send, caller, replies, heard>>
    BY <1>1, <2>1 DEF Connect
  <2>3. ASSUME NEW m \in 1..MaxReplies, Hearable(m)' PROVE Hearable(m)
    <3>1. CASE \A k \in 1..FrameParts : OnTheWay(m, k)'
      <4>1. 1 \in 1..FrameParts /\ FrameParts \in Nat /\ outgoing.rest \in 0..FrameParts
        BY PartIs DEF SendInv, SendTypes
      <4>2. OnTheWay(m, 1)'
        BY <3>1, <4>1
      <4>3. DOMAIN outbound' = {} /\ begun'.reply # m
        BY <2>2, PartIs
      <4>4. spc = "send" /\ outgoing.reply = m /\ 1 \in (FrameParts - outgoing.rest + 1)..FrameParts
        BY <2>2, <4>2, <4>3 DEF OnTheWay
      <4>5. outgoing.rest = FrameParts
        BY <4>1, <4>4
      <4> QED
        BY <2>2, <2>3, <4>4, <4>5 DEF Hearable
    <3>2. CASE ~(\A k \in 1..FrameParts : OnTheWay(m, k)')
      BY <2>2, <2>3, <3>2 DEF Hearable
    <3> QED
      BY <3>1, <3>2
  <2>4. Handed' = Handed /\ heard' = heard
    BY <2>2 DEF Handed
  <2> QED
    BY <2>3, <2>4, LosesOnly
<1>2. CASE Close
  <2>1. /\ link' = "down"
        /\ UNCHANGED <<spc, outgoing, m_messages_send, caller, replies, heard>>
    BY <1>2 DEF Close, history
  <2>2. ASSUME NEW m, Hearable(m)' PROVE Hearable(m)
    BY <2>1, <2>2 DEF Hearable
  <2>3. Handed' = Handed
    BY <2>1 DEF Handed
  <2> QED
    BY <2>1, <2>2, <2>3, LosesOnly
<1>3. CASE StartOver \/ Bind \/ BindFails \/ ConnectFails \/ SetConnected
  <2>1. UNCHANGED SendVars /\ link' = link
    BY <1>3 DEF StartOver, Bind, BindFails, ConnectFails, SetConnected, network, history, SendVars
  <2> QED
    BY <2>1, OthersLoseNothing
<1>4. CASE Receive \/ ReceiveTimesOut \/ ReceiveFails \/ ParseMessage \/ ParseRest
  <2>1. UNCHANGED SendVars /\ (link' = link \/ (link = "timeout" /\ link' = "dying"))
    BY <1>4 DEF Receive, ReceiveTimesOut, ReceiveFails, ParseMessage, ParseRest, network, history,
                SendVars
  <2> QED
    BY <2>1, OthersLoseNothing
<1> QED
  BY ONLY <1>1, <1>2, <1>3, <1>4, ReceiveThread DEF ReceiveThread

\* The send thread loses the reply it gives up.
LEMMA SenderLoses ==
  ASSUME SendInv, SendInv', SendThread
  PROVE  Delivery!Lose
<1> USE DEF receiver, program
<1>1. CASE CheckConnected \/ SendFails
  <2>1. /\ UNCHANGED <<outgoing, m_messages_send, caller, replies, outbound, begun, heard, link>>
        /\ spc' = "send" => spc = "send"
    BY <1>1 DEF CheckConnected, SendFails, network, history
  <2>2. ASSUME NEW m, Hearable(m)' PROVE Hearable(m)
    BY <2>1, <2>2 DEF Hearable, OnTheWay
  <2>3. Handed' = Handed
    BY <2>1 DEF Handed
  <2> QED
    BY <2>1, <2>2, <2>3, LosesOnly
<1>2. CASE Acquire
  <2>1. /\ spc = "acquire" /\ m_messages_send # << >>
        /\ m_messages_send' = Tail(m_messages_send)
        /\ outgoing' = [reply |-> Head(m_messages_send), rest |-> FrameParts]
        /\ UNCHANGED <<caller, replies, outbound, begun, heard, link>>
    BY <1>2 DEF Acquire, network, history
  <2>2. /\ m_messages_send \in Seq(1..MaxReplies) /\ 1 \in DOMAIN m_messages_send
        /\ outgoing'.reply = m_messages_send[1]
        /\ \A i \in DOMAIN m_messages_send' :
             i + 1 \in DOMAIN m_messages_send /\ m_messages_send'[i] = m_messages_send[i + 1]
    BY <2>1, EmptySeq DEF SendInv, SendTypes
  <2>3. ASSUME NEW m \in 1..MaxReplies, Hearable(m)' PROVE Hearable(m)
    <3>1. CASE outgoing'.reply = m
      BY <2>1, <2>2, <2>3, <3>1 DEF Hearable
    <3>2. CASE outgoing'.reply # m
      BY <2>1, <2>2, <2>3, <3>2 DEF Hearable, OnTheWay
    <3> QED
      BY <3>1, <3>2
  <2>4. Handed' = Handed
    BY <2>1 DEF Handed
  <2> QED
    BY <2>1, <2>3, <2>4, LosesOnly
<1>3. CASE Send
  <2>1. /\ spc = "send" /\ link # "down"
        /\ UNCHANGED <<m_messages_send, caller, replies, begun, heard, link>>
    BY <1>3 DEF Send, history
  <2> DEFINE first == FrameParts - outgoing.rest
             Parts(k) == [i \in 1..k |-> [reply |-> outgoing.reply, part |-> first + i]]
  <2>2. PICK k \in 1..outgoing.rest :
          /\ outbound' = IF link = "up" THEN outbound \o Parts(k) ELSE outbound
          /\ outgoing' = [outgoing EXCEPT !.rest = @ - k]
    BY <1>3 DEF Send
  <2>3. /\ outgoing \in [reply : 0..MaxReplies, rest : 0..FrameParts] /\ FrameParts \in Nat
        /\ outgoing.rest \in 0..FrameParts /\ k \in Nat /\ k # 0 /\ k <= outgoing.rest
        /\ outgoing'.reply = outgoing.reply /\ outgoing'.rest = outgoing.rest - k
    BY <2>2, PartIs DEF SendInv, SendTypes
  <2>4. /\ Parts(k) \in Seq(Part) /\ Len(Parts(k)) = k
        /\ \A i \in 1..k : Parts(k)[i].reply = outgoing.reply /\ Parts(k)[i].part = first + i
    <3>1. \A i \in 1..k : first + i \in 1..FrameParts
      BY <2>3
    <3>2. outgoing.reply \in 1..MaxReplies
      BY <2>1 DEF SendInv, SendTypes
    <3>3. \A i \in 1..k : [reply |-> outgoing.reply, part |-> first + i] \in Part
      BY <3>1, <3>2 DEF Part
    <3> QED
      BY <2>3, <3>3
  <2> HIDE DEF Parts
  <2>5. outbound \in Seq(Part)
    BY DEF SendInv, SendTypes
  <2>6. ASSUME NEW m \in 1..MaxReplies, NEW j \in 1..FrameParts, OnTheWay(m, j)'
        PROVE  OnTheWay(m, j)
    <3>1. CASE begun'.reply = m /\ j \in 1..begun'.part
      BY <2>1, <3>1 DEF OnTheWay
    <3>2. CASE \E i \in DOMAIN outbound' : outbound'[i].reply = m /\ outbound'[i].part = j
      <4>1. CASE link # "up"
        BY <2>2, <3>2, <4>1 DEF OnTheWay
      <4>2. CASE link = "up"
        <5>1. outbound' = outbound \o Parts(k)
          BY <2>2, <4>2
        <5>2. PICK i \in DOMAIN outbound' : outbound'[i].reply = m /\ outbound'[i].part = j
          BY <3>2
        <5>3. /\ outbound' \in Seq(Part) /\ Len(outbound') = Len(outbound) + k
              /\ \A n \in 1..Len(outbound) : outbound'[n] = outbound[n]
              /\ \A n \in 1..k : outbound'[Len(outbound) + n] = Parts(k)[n]
          <6>1. outbound \in Seq(Part) /\ Parts(k) \in Seq(Part)
            BY <2>4, <2>5
          <6>2. /\ outbound' \in Seq(Part) /\ Len(outbound') = Len(outbound) + Len(Parts(k))
                /\ \A n \in 1..Len(outbound) : outbound'[n] = outbound[n]
                /\ \A n \in 1..Len(Parts(k)) : outbound'[Len(outbound) + n] = Parts(k)[n]
            BY ONLY <5>1, <6>1, Joined
          <6> QED
            BY ONLY <2>4, <6>2
        <5>4. CASE i \in 1..Len(outbound)
          BY <2>5, <5>2, <5>3, <5>4 DEF OnTheWay
        <5>5. CASE i \notin 1..Len(outbound)
          <6>1. PICK n : n = i - Len(outbound)
            OBVIOUS
          <6>2. n \in 1..k /\ i = Len(outbound) + n
            BY <2>3, <2>5, <5>2, <5>3, <5>5, <6>1
          <6>3. outgoing.reply = m /\ j = first + n
            BY <2>4, <5>2, <5>3, <6>2
          <6>4. j \in (FrameParts - outgoing.rest + 1)..FrameParts
            BY <2>3, <6>2, <6>3
          <6> QED
            BY <2>1, <4>2, <6>3, <6>4 DEF OnTheWay
        <5> QED
          BY <5>4, <5>5
      <4> QED
        BY <4>1, <4>2
    <3>3. CASE /\ spc' = "send" /\ outgoing'.reply = m /\ link' = "up"
               /\ j \in (FrameParts - outgoing'.rest + 1)..FrameParts
      <4>1. j \in (FrameParts - outgoing.rest + 1)..FrameParts
        BY <2>3, <3>3
      <4> QED
        BY <2>1, <2>3, <3>3, <4>1 DEF OnTheWay
    <3> QED
      BY <2>6, <3>1, <3>2, <3>3 DEF OnTheWay
  <2>7. ASSUME NEW m \in 1..MaxReplies, Hearable(m)' PROVE Hearable(m)
    <3>1. outgoing'.rest # FrameParts
      BY <2>3
    <3> QED
      BY <2>1, <2>6, <2>7, <3>1 DEF Hearable
  <2>8. Handed' = Handed
    BY <2>1 DEF Handed
  <2> QED
    BY <2>1, <2>7, <2>8, LosesOnly
<1> QED
  BY ONLY <1>1, <1>2, <1>3, SendThread DEF SendThread

\* The program hands over the next reply.
LEMMA ProgramOffers ==
  ASSUME SendInv, SendInv', Program
  PROVE  Delivery!Next
<1> USE DEF receiver, sender, network, history
<1>0. MaxReplies \in Nat /\ replies \in 0..MaxReplies
  BY PartIs DEF SendInv, SendTypes
<1>1. CASE TakeMessage
  <2>1. UNCHANGED SendVars /\ link' = link
    BY <1>1 DEF TakeMessage, SendVars
  <2> QED
    BY <2>1, OthersLoseNothing DEF Delivery!Next
<1>2. CASE OfferReply
  <2>1. /\ UNCHANGED <<spc, outgoing, m_messages_send, outbound, begun, heard, link>>
        /\ replies < MaxReplies /\ replies' = replies + 1 /\ caller = "idle"
        /\ caller' \in {"idle", "pushing"}
    BY <1>2 DEF OfferReply
  <2>2. ASSUME NEW m \in 1..MaxReplies PROVE Hearable(m)' <=> Hearable(m)
    BY <2>1 DEF Hearable, OnTheWay
  <2>3. \A m \in 1..MaxReplies : CanBeHeard(m)' <=> CanBeHeard(m)
    BY <2>2, HearableIs, HearableNext DEF SendInv
  <2>4. CASE caller' = "pushing"
    <3>1. Handed' = Handed
      BY <1>0, <2>1, <2>4 DEF Handed
    <3> QED
      BY <2>1, <2>2, <3>1, LosesOnly DEF Delivery!Next
  <2>5. CASE caller' = "idle"
    <3>1. Handed = replies /\ Handed' = Handed + 1 /\ Handed < MaxReplies
      BY <2>1, <2>5 DEF Handed
    <3>2. {m \in 1..MaxReplies : CanBeHeard(m)}' = {m \in 1..MaxReplies : CanBeHeard(m)}
      BY <2>3
    <3>3. Delivery!Offer
      BY <2>1, <3>1, <3>2 DEF Delivery!Offer
    <3> QED
      BY <3>3 DEF Delivery!Next
  <2> QED
    BY <2>1, <2>4, <2>5
<1>3. CASE PushReply
  <2>1. /\ UNCHANGED <<spc, outgoing, outbound, begun, heard, link, replies>>
        /\ m_messages_send' = Append(m_messages_send, replies)
        /\ caller = "pushing" /\ caller' = "idle"
    BY <1>3 DEF PushReply
  <2>2. replies \in 1..MaxReplies /\ m_messages_send \in Seq(1..MaxReplies)
    BY <1>0, <2>1 DEF SendInv, SendTypes
  <2>3. Handed = replies - 1 /\ Handed' = replies /\ Handed' = Handed + 1 /\ Handed < MaxReplies
    BY <1>0, <2>1, <2>2 DEF Handed
  <2>4. /\ DOMAIN m_messages_send' = 1..(Len(m_messages_send) + 1)
        /\ DOMAIN m_messages_send = 1..Len(m_messages_send) /\ Len(m_messages_send) \in Nat
        /\ \A i \in DOMAIN m_messages_send : m_messages_send'[i] = m_messages_send[i]
        /\ m_messages_send'[Len(m_messages_send) + 1] = replies
    BY <2>1, <2>2
  <2>5. ASSUME NEW i \in DOMAIN heard PROVE heard[i] # replies
    <3>0. heard \in Seq(1..MaxReplies) /\ outgoing \in [reply : 0..MaxReplies, rest : 0..FrameParts]
      BY DEF SendInv, SendTypes
    <3>1. heard[i] \in Int /\ outgoing.reply \in Int
      BY <1>0, <3>0
    <3>2. heard[i] <= outgoing.reply /\ outgoing.reply <= Handed
      BY <3>1 DEF SendInv, HeardOrder, QueueOrder
    <3> QED
      BY <1>0, <2>3, <3>1, <3>2
  <2>6. Hearable(replies)'
    <3>1. Len(m_messages_send) + 1 \in DOMAIN m_messages_send'
      BY <2>4
    <3> QED
      BY <2>1, <2>4, <2>5, <3>1 DEF Hearable
  <2>7. ASSUME NEW m \in 1..MaxReplies, m # replies PROVE Hearable(m)' <=> Hearable(m)
    <3>1. (\E i \in DOMAIN m_messages_send' : m_messages_send'[i] = m)
            <=> (\E i \in DOMAIN m_messages_send : m_messages_send[i] = m)
      <4>1. ASSUME NEW i \in DOMAIN m_messages_send', m_messages_send'[i] = m
            PROVE  i \in DOMAIN m_messages_send
        BY <2>4, <2>7, <4>1
      <4>2. \A i \in DOMAIN m_messages_send : i \in DOMAIN m_messages_send'
        BY <2>4
      <4> QED
        BY <2>4, <4>1, <4>2
    <3> QED
      BY <2>1, <3>1 DEF Hearable, OnTheWay
  <2>8. /\ \A m \in 1..MaxReplies : m # replies => (CanBeHeard(m)' <=> CanBeHeard(m))
        /\ CanBeHeard(replies)'
    <3>1. CanBeHeard(replies)'
      <4>1. PICK m \in 1..MaxReplies : m = replies
        BY <2>2
      <4>2. CanBeHeard(m)' <=> Hearable(m)'
        BY HearableNext DEF SendInv
      <4>3. replies' = replies
        BY <2>1
      <4>4. Hearable(m)'
        BY <2>6, <4>1, <4>3 DEF Hearable, OnTheWay
      <4>5. CanBeHeard(m)'
        BY <4>2, <4>4
      <4> QED
        BY <4>1, <4>3, <4>5 DEF CanBeHeard, OnThisConnection
    <3> QED
      BY <2>7, <3>1, HearableIs, HearableNext DEF SendInv
  <2>9. {m \in 1..MaxReplies : CanBeHeard(m)}'
          = {m \in 1..MaxReplies : CanBeHeard(m)} \cup {Handed'}
    <3>1. PICK r : r = replies
      OBVIOUS
    <3>2. /\ \A m \in 1..MaxReplies : m # r => (CanBeHeard(m)' <=> CanBeHeard(m))
          /\ Handed' = r /\ r \in 1..MaxReplies
      BY <2>2, <2>3, <2>8, <3>1
    <3>3. CanBeHeard(r)'
      BY <2>1, <2>8, <3>1 DEF CanBeHeard, OnThisConnection
    <3> QED
      BY ONLY <3>2, <3>3
  <2>10. Delivery!Offer
    BY <2>1, <2>3, <2>9 DEF Delivery!Offer
  <2> QED
    BY <2>10 DEF Delivery!Next
<1> QED
  BY ONLY <1>1, <1>2, <1>3, Program DEF Program

\* A part the image server hears was on the way, and so was what it continues.
LEMMA HearingKeepsParts ==
  ASSUME SendInv, ServerHears, NEW m, NEW k, OnTheWay(m, k)'
  PROVE  OnTheWay(m, k)
<1> USE DEF receiver, sender, program
<1>1. /\ outbound # << >> /\ outbound' = Tail(outbound)
      /\ UNCHANGED <<spc, outgoing, link>>
  BY DEF ServerHears
<1>2. /\ outbound \in Seq(Part) /\ begun \in Part \cup {NoPart}
  BY DEF SendInv, SendTypes
<1>3. PICK p : p = outbound[1]
  OBVIOUS
<1>4. /\ Head(outbound) = p /\ 1 \in DOMAIN outbound /\ p \in Part
      /\ \A i \in DOMAIN outbound' : i + 1 \in DOMAIN outbound /\ outbound'[i] = outbound[i + 1]
  BY <1>1, <1>2, <1>3, EmptySeq
<1>5. CASE begun'.reply = m /\ k \in 1..begun'.part
  <2>1. /\ begun' = IF p.part = 1 \/ [p EXCEPT !.part = @ - 1] = begun THEN p ELSE NoPart
    BY <1>4 DEF ServerHears
  <2>2. begun' = p /\ (p.part = 1 \/ [p EXCEPT !.part = @ - 1] = begun)
    <3>1. ~(k \in 1..NoPart.part)
      BY PartIs
    <3> QED
      BY <1>5, <2>1, <3>1
  <2>3. p.part \in Nat /\ k \in 1..p.part /\ p.reply = m
    BY <1>4, <1>5, <2>2, PartIs
  <2>4. CASE k = p.part
    BY <1>3, <1>4, <2>3, <2>4 DEF OnTheWay
  <2>5. CASE k # p.part
    <3>1. p.part # 1 /\ k \in 1..(p.part - 1)
      BY <2>3, <2>5
    <3>2. begun.reply = p.reply /\ begun.part = p.part - 1
      BY <1>4, <2>2, <3>1 DEF Part
    <3> QED
      BY <2>3, <3>1, <3>2 DEF OnTheWay
  <2> QED
    BY <2>4, <2>5
<1>6. CASE \E i \in DOMAIN outbound' : outbound'[i].reply = m /\ outbound'[i].part = k
  BY <1>4, <1>6 DEF OnTheWay
<1>7. CASE /\ spc' = "send" /\ outgoing'.reply = m /\ link' = "up"
           /\ k \in (FrameParts - outgoing'.rest + 1)..FrameParts
  BY <1>1, <1>7 DEF OnTheWay
<1> QED
  BY <1>5, <1>6, <1>7 DEF OnTheWay

\* What can be heard is not before the part that is next: the replies are heard in order.
LEMMA NextIsLeast ==
  ASSUME SendInv, outbound # << >>, NEW m \in 1..MaxReplies, Hearable(m)
  PROVE  outbound[1].reply <= m
<1>1. /\ MaxReplies \in Nat /\ FrameParts \in Nat /\ FrameParts # 0 /\ m \in Nat
      /\ outbound \in Seq(Part) /\ 1 \in DOMAIN outbound
      /\ outgoing.reply \in Nat /\ outgoing.rest \in 0..FrameParts
      /\ m_messages_send \in Seq(1..MaxReplies)
  BY PartIs, EmptySeq DEF SendInv, SendTypes
<1>2. PICK p : p = outbound[1]
  OBVIOUS
<1>3. p \in Part /\ p.reply \in Nat /\ p.part \in 1..FrameParts
  BY <1>1, <1>2, PartIs
<1>4. Gone(p, outgoing)
  BY <1>1, <1>2 DEF SendInv, WireOrder
<1>5. p.reply <= outgoing.reply
  BY <1>1, <1>3, <1>4 DEF Gone
<1>6. CASE \E i \in DOMAIN m_messages_send : m_messages_send[i] = m
  <2>1. outgoing.reply < m
    BY <1>6 DEF SendInv, QueueOrder
  <2> QED
    BY <1>1, <1>2, <1>3, <1>5, <2>1
<1>7. CASE spc = "send" /\ outgoing.reply = m
  BY <1>2, <1>5, <1>7
<1>8. CASE OnTheWay(m, FrameParts)
  <2>1. CASE begun.reply = m /\ FrameParts \in 1..begun.part
    <3>1. begun.part = FrameParts
      <4>1. begun \in Part \cup {NoPart}
        BY DEF SendInv, SendTypes
      <4>2. begun.part \in Nat /\ begun.part <= FrameParts
        BY <4>1, PartIs
      <4> QED
        BY <1>1, <2>1, <4>2
    <3> QED
      BY <2>1, <3>1 DEF SendInv, HeardOrder, Hearable
  <2>2. CASE \E i \in DOMAIN outbound : outbound[i].reply = m /\ outbound[i].part = FrameParts
    <3>1. PICK i \in DOMAIN outbound : outbound[i].reply = m
      BY <2>2
    <3>2. CASE i = 1
      BY <1>1, <1>2, <1>3, <3>1, <3>2
    <3>3. CASE i # 1
      <4>1. 1 < i
        BY <1>1, <3>3
      <4>2. Before(p, outbound[i])
        BY <1>1, <1>2, <4>1 DEF SendInv, WireOrder
      <4> QED
        BY <1>1, <1>2, <1>3, <3>1, <4>2 DEF Before
    <3> QED
      BY <3>2, <3>3
  <2>3. CASE spc = "send" /\ outgoing.reply = m
    BY <1>7, <2>3
  <2> QED
    BY <1>8, <2>1, <2>2, <2>3 DEF OnTheWay
<1> QED
  BY <1>1, <1>6, <1>7, <1>8 DEF Hearable

\* The image server hears a whole reply, the first of those it can hear.
LEMMA HearingDelivers ==
  ASSUME SendInv, SendInv', ServerHears
  PROVE  Delivery!Next
<1> USE DEF receiver, sender, program
<1>1. /\ outbound # << >> /\ outbound' = Tail(outbound)
      /\ UNCHANGED <<spc, outgoing, m_messages_send, caller, replies, link>>
  BY DEF ServerHears
<1>2. /\ outbound \in Seq(Part) /\ begun \in Part \cup {NoPart}
      /\ heard \in Seq(1..MaxReplies) /\ FrameParts \in Nat /\ FrameParts # 0
  BY PartIs DEF SendInv, SendTypes
<1>3. PICK p : p = outbound[1]
  OBVIOUS
<1>4. /\ Head(outbound) = p /\ 1 \in DOMAIN outbound /\ p \in Part
      /\ p.reply \in 1..MaxReplies /\ p.part \in 1..FrameParts
      /\ DOMAIN outbound' = 1..(Len(outbound) - 1) /\ DOMAIN outbound = 1..Len(outbound)
      /\ Len(outbound) \in Nat
      /\ \A i \in DOMAIN outbound' : outbound'[i] = outbound[i + 1]
  BY <1>1, <1>2, <1>3, EmptySeq, PartIs
<1> DEFINE continues == p.part = 1 \/ [p EXCEPT !.part = @ - 1] = begun
<1>5. /\ begun' = IF continues THEN p ELSE NoPart
      /\ heard' = IF continues /\ p.part = FrameParts THEN Append(heard, p.reply) ELSE heard
  BY <1>4 DEF ServerHears
<1>6. Handed' = Handed
  BY <1>1 DEF Handed
<1>7. \A m, k : OnTheWay(m, k)' => OnTheWay(m, k)
  BY HearingKeepsParts
<1>8. CASE ~(continues /\ p.part = FrameParts)
  <2>1. heard' = heard
    BY <1>5, <1>8
  <2>2. ASSUME NEW m \in 1..MaxReplies, Hearable(m)' PROVE Hearable(m)
    BY <1>1, <1>7, <2>1, <2>2 DEF Hearable
  <2> QED
    BY <1>6, <2>1, <2>2, LosesOnly DEF Delivery!Next
<1>9. CASE continues /\ p.part = FrameParts
  <2>1. heard' = Append(heard, p.reply) /\ begun' = p
    BY <1>5, <1>9
  <2>2. /\ \A i \in DOMAIN heard : i \in DOMAIN heard' /\ heard'[i] = heard[i]
        /\ \A i \in DOMAIN heard' : i \in DOMAIN heard \/ heard'[i] = p.reply
        /\ \E i \in DOMAIN heard' : heard'[i] = p.reply
    <3>1. /\ DOMAIN heard' = 1..(Len(heard) + 1) /\ DOMAIN heard = 1..Len(heard)
          /\ Len(heard) \in Nat /\ heard'[Len(heard) + 1] = p.reply
          /\ \A i \in DOMAIN heard : heard'[i] = heard[i]
      BY <1>2, <1>4, <2>1
    <3> QED
      BY <3>1
  <2>3. Hearable(p.reply)
    <3>1. \A i \in DOMAIN heard : heard[i] # p.reply
      <4>1. ASSUME NEW i \in DOMAIN heard PROVE heard[i] < p.reply
        BY <1>3, <1>4 DEF SendInv, HeardOrder
      <4>2. p.reply \in Int /\ \A i \in DOMAIN heard : heard[i] \in Int
        <5>1. MaxReplies \in Nat
          BY PartIs
        <5>2. heard \in Seq(1..MaxReplies)
          BY <1>2
        <5>3. \A i \in DOMAIN heard : heard[i] \in 1..MaxReplies
          BY ONLY <5>1, <5>2
        <5> QED
          BY ONLY <1>4, <5>1, <5>3
      <4> QED
        BY ONLY <4>1, <4>2
    <3>2. link # "down"
      BY <1>1 DEF SendInv, WireOrder
    <3>3. ASSUME NEW k \in 1..FrameParts PROVE OnTheWay(p.reply, k)
      <4>1. CASE k = p.part
        BY <1>3, <1>4, <4>1 DEF OnTheWay
      <4>2. CASE k # p.part
        <5>1. p.part # 1 /\ k \in 1..(p.part - 1)
          BY <1>2, <1>9, <4>2
        <5>2. begun.reply = p.reply /\ begun.part = p.part - 1
          BY <1>4, <1>9, <5>1 DEF Part
        <5> QED
          BY <5>1, <5>2 DEF OnTheWay
      <4> QED
        BY <4>1, <4>2
    <3> QED
      BY <3>1, <3>2, <3>3 DEF Hearable
  <2>4. ~Hearable(p.reply)'
    <3>1. PICK r : r = p.reply
      OBVIOUS
    <3>2. \E i \in DOMAIN heard' : heard'[i] = r
      BY <2>2, <3>1
    <3>3. ~Hearable(r)'
      BY <3>2 DEF Hearable
    <3> QED
      BY <3>1, <3>3
  <2>5. ASSUME NEW m \in 1..MaxReplies, m # p.reply, Hearable(m)' PROVE Hearable(m)
    BY <1>1, <1>7, <2>2, <2>5 DEF Hearable
  <2>6. ASSUME NEW m \in 1..MaxReplies, Hearable(m) PROVE p.reply <= m
    BY <1>1, <1>3, <2>6, NextIsLeast
  <2>7. ASSUME NEW m \in 1..MaxReplies, m # p.reply, Hearable(m) PROVE Hearable(m)'
    <3>1. begun.reply # m
      <4>1. p.reply <= m
        BY <2>6, <2>7
      <4>2. Before(begun, p)
        BY <1>3, <1>4 DEF SendInv, WireOrder
      <4>3. begun.reply \in Nat /\ p.reply \in Nat /\ m \in Nat
        BY <1>2, <1>4, PartIs
      <4>4. begun.reply <= p.reply
        BY <4>2, <4>3 DEF Before
      <4> QED
        BY ONLY <2>7, <4>1, <4>3, <4>4
    <3>2. ASSUME NEW k, OnTheWay(m, k) PROVE OnTheWay(m, k)'
      <4>1. CASE \E i \in DOMAIN outbound : outbound[i].reply = m /\ outbound[i].part = k
        <5>1. PICK i \in DOMAIN outbound : outbound[i].reply = m /\ outbound[i].part = k
          BY <4>1
        <5>2. i # 1
          BY <1>3, <2>7, <5>1
        <5>3. i - 1 \in DOMAIN outbound' /\ outbound'[i - 1] = outbound[i]
          BY <1>4, <5>2
        <5> QED
          BY <5>1, <5>3 DEF OnTheWay
      <4>2. CASE /\ spc = "send" /\ outgoing.reply = m /\ link = "up"
                 /\ k \in (FrameParts - outgoing.rest + 1)..FrameParts
        BY <1>1, <4>2 DEF OnTheWay
      <4> QED
        BY <3>1, <3>2, <4>1, <4>2 DEF OnTheWay
    <3>3. \A i \in DOMAIN heard' : heard'[i] # m
      BY <2>2, <2>7 DEF Hearable
    <3> QED
      BY <1>1, <2>7, <3>2, <3>3 DEF Hearable
  <2>8. PICK r : r = p.reply
    OBVIOUS
  <2>9. r \in 1..MaxReplies
    BY <1>4, <2>8
  <2>10. /\ CanBeHeard(r) /\ ~CanBeHeard(r)'
         /\ \A m \in 1..MaxReplies : m # r => (CanBeHeard(m)' <=> CanBeHeard(m))
         /\ \A m \in 1..MaxReplies : CanBeHeard(m) => r <= m
    <3>1. /\ Hearable(r) /\ ~Hearable(r)'
          /\ \A m \in 1..MaxReplies : m # r => (Hearable(m)' <=> Hearable(m))
          /\ \A m \in 1..MaxReplies : Hearable(m) => r <= m
      <4>1. ~Hearable(r)'
        BY <2>2, <2>8 DEF Hearable
      <4> QED
        BY <2>3, <2>5, <2>6, <2>7, <2>8, <4>1
    <3> QED
      BY <2>9, <3>1, HearableIs, HearableNext DEF SendInv
  <2>11. Delivery!Deliver
    <3> DEFINE queue == {m \in 1..MaxReplies : CanBeHeard(m)}
    <3>1. r \in queue /\ (\A m \in queue : r <= m) /\ queue' = queue \ {r}
      BY <2>9, <2>10
    <3> QED
      BY <1>6, <2>1, <2>8, <3>1 DEF Delivery!Deliver
  <2> QED
    BY <2>11 DEF Delivery!Next
<1> QED
  BY <1>8, <1>9

\* The image server and the network: something is lost, or the next reply is delivered.
LEMMA NetworkDelivers ==
  ASSUME SendInv, SendInv', Network
  PROVE  Delivery!Next
<1> USE DEF receiver, sender, program
<1>1. CASE ServerSends
  <2>1. UNCHANGED SendVars /\ link' = link
    BY <1>1 DEF ServerSends, SendVars
  <2> QED
    BY <2>1, OthersLoseNothing DEF Delivery!Next
<1>2. CASE Break
  <2>1. /\ UNCHANGED <<spc, outgoing, m_messages_send, caller, replies, begun, heard>>
        /\ link = "up" /\ link' \in {"timeout", "dying"}
    BY <1>2 DEF Break, history
  <2>2. PICK o \in 0..Len(outbound) : outbound' = SubSeq(outbound, 1, o)
    BY <1>2 DEF Break
  <2>3. \A i \in DOMAIN outbound' : i \in DOMAIN outbound /\ outbound'[i] = outbound[i]
    BY <2>2 DEF SendInv, SendTypes
  <2>4. ASSUME NEW m, NEW k, OnTheWay(m, k)' PROVE OnTheWay(m, k)
    BY <2>1, <2>3, <2>4 DEF OnTheWay
  <2>5. ASSUME NEW m, Hearable(m)' PROVE Hearable(m)
    BY <2>1, <2>4, <2>5 DEF Hearable
  <2>6. Handed' = Handed
    BY <2>1 DEF Handed
  <2> QED
    BY <2>1, <2>5, <2>6, LosesOnly DEF Delivery!Next
<1> QED
  BY ONLY <1>1, <1>2, HearingDelivers, Network, SendInv, SendInv' DEF Network

\* At the start no reply can be heard.
LEMMA DeliveryInit == Init => Delivery!Init
<1> SUFFICES ASSUME Init PROVE Delivery!Init
  OBVIOUS
<1>1. SendTypes
  BY SendInit DEF SendInv
<1>2. \A m \in 1..MaxReplies : ~Hearable(m)
  BY DEF Init, Hearable
<1>3. {m \in 1..MaxReplies : CanBeHeard(m)} = {}
  BY <1>1, <1>2, HearableIs
<1> QED
  BY <1>3 DEF Init, Delivery!Init, Handed

\* Replies are numbered in the order they are handed over; through partial sends, retries
\* and connections that break and come back, those the image server receives from
\* client_process_send are whole, come once each and in that order.
THEOREM RepliesAreInOrder == Spec => RepliesInOrder
<1>1. ASSUME SendInv, SendInv', [Next]_vars
      PROVE  [Delivery!Next]_Delivery!vars
  <2>1. CASE UNCHANGED vars
    BY <2>1 DEF vars, sender, program, network, history, Delivery!vars, Handed, CanBeHeard,
                OnThisConnection
  <2>2. CASE ReceiveThread
    BY <1>1, <2>2, ReceiverLoses DEF Delivery!Next
  <2>3. CASE SendThread
    BY <1>1, <2>3, SenderLoses DEF Delivery!Next
  <2>4. CASE Program
    BY <1>1, <2>4, ProgramOffers
  <2>5. CASE Network
    BY <1>1, <2>5, NetworkDelivers
  <2> QED
    BY ONLY <1>1, <2>1, <2>2, <2>3, <2>4, <2>5 DEF Next
<1>2. SendInv /\ [Next]_vars => SendInv'
  BY SendNext
<1> QED
  BY <1>1, <1>2, SendInit, DeliveryInit, PTL DEF Spec, RepliesInOrder, Delivery!Spec

-----------------------------------------------------------------------------
(* What a connection that holds does not lose. RepliesAreInOrder allows    *)
(* the loss of any reply at any time; this is what takes the excuse away.  *)

\* What becomes of a reply that could be heard: it still can be, or it was heard.
Keeps(m) == Hearable(m)' \/ \E i \in DOMAIN heard' : heard'[i] = m

\* If nothing was heard, it is enough that the places it can be heard from are kept.
LEMMA PlacesKept ==
  ASSUME NEW m, Hearable(m), heard' = heard,
         \/ \E i \in DOMAIN m_messages_send' : m_messages_send'[i] = m
         \/ spc' = "send" /\ outgoing'.reply = m /\ outgoing'.rest = FrameParts
         \/ link' # "down" /\ \A k \in 1..FrameParts : OnTheWay(m, k)'
  PROVE  Keeps(m)
BY DEF Keeps, Hearable

\* The receive thread does not touch a connection that holds.
LEMMA ReceiverKeeps ==
  ASSUME SendInv, ReceiveThread, link = "up", link' = "up", NEW m, Hearable(m)
  PROVE  Keeps(m)
<1>1. UNCHANGED SendVars
  <2> USE DEF sender, program, history, network, SendVars
  <2>1. ~Connect /\ ~Close
    BY DEF SendInv, BindInv, Connect, Close
  <2>2. CASE StartOver \/ Bind \/ BindFails \/ ConnectFails \/ SetConnected
    BY <2>2 DEF StartOver, Bind, BindFails, ConnectFails, SetConnected
  <2>3. CASE Receive \/ ReceiveTimesOut \/ ReceiveFails \/ ParseMessage \/ ParseRest
    BY <2>3 DEF Receive, ReceiveTimesOut, ReceiveFails, ParseMessage, ParseRest
  <2> QED
    BY ONLY <2>1, <2>2, <2>3, ReceiveThread DEF ReceiveThread
<1> QED
  BY <1>1 DEF SendVars, Keeps, Hearable, OnTheWay

\* The send thread takes a reply out of the queue to send all of it, and gives none up.
LEMMA SenderKeeps ==
  ASSUME SendInv, SendThread, link = "up", link' = "up", NEW m, Hearable(m)
  PROVE  Keeps(m)
<1> USE DEF receiver, program
<1>1. CASE CheckConnected
  <2>1. /\ UNCHANGED <<outgoing, m_messages_send, outbound, begun, heard, link>>
        /\ spc = "check"
    BY <1>1 DEF CheckConnected, network, history
  <2> QED
    BY <2>1 DEF Keeps, Hearable, OnTheWay
<1>2. CASE Acquire
  <2>1. /\ spc = "acquire" /\ spc' = "send" /\ m_messages_send # << >>
        /\ m_messages_send' = Tail(m_messages_send)
        /\ outgoing' = [reply |-> Head(m_messages_send), rest |-> FrameParts]
        /\ UNCHANGED <<outbound, begun, heard, link>>
    BY <1>2 DEF Acquire, network, history
  <2>2. CASE \E i \in DOMAIN m_messages_send : m_messages_send[i] = m
    <3>1. PICK i \in DOMAIN m_messages_send : m_messages_send[i] = m
      BY <2>2
    <3>2. m_messages_send \in Seq(1..MaxReplies)
      BY DEF SendInv, SendTypes
    <3>3. CASE i = 1
      BY <2>1, <3>1, <3>2, <3>3, PlacesKept
    <3>4. CASE i # 1
      <4>1. i - 1 \in DOMAIN m_messages_send' /\ m_messages_send'[i - 1] = m
        BY <2>1, <3>1, <3>2, <3>4, EmptySeq
      <4> QED
        BY <2>1, <4>1, PlacesKept
    <3> QED
      BY <3>3, <3>4
  <2>3. CASE \A k \in 1..FrameParts : OnTheWay(m, k)
    <3>1. \A k \in 1..FrameParts : OnTheWay(m, k)'
      BY <2>1, <2>3 DEF OnTheWay
    <3> QED
      BY <2>1, <3>1, PlacesKept
  <2> QED
    BY <2>1, <2>2, <2>3 DEF Hearable
<1>3. CASE Send
  <2>1. /\ spc = "send" /\ spc' = IF outgoing'.rest = 0 THEN "acquire" ELSE "send"
        /\ UNCHANGED <<m_messages_send, begun, heard>>
    BY <1>3 DEF Send, history
  <2> DEFINE first == FrameParts - outgoing.rest
             Parts(k) == [i \in 1..k |-> [reply |-> outgoing.reply, part |-> first + i]]
  <2>2. PICK n \in 1..outgoing.rest :
          /\ outbound' = outbound \o Parts(n)
          /\ outgoing' = [outgoing EXCEPT !.rest = @ - n]
    BY <1>3 DEF Send
  <2>3. /\ FrameParts \in Nat /\ outgoing.reply \in 1..MaxReplies
        /\ outgoing.rest \in 0..FrameParts /\ n \in Nat /\ n # 0 /\ n <= outgoing.rest
        /\ outgoing'.reply = outgoing.reply /\ outgoing'.rest = outgoing.rest - n
    <3>1. /\ outgoing \in [reply : 0..MaxReplies, rest : 0..FrameParts]
          /\ outgoing.reply # 0 /\ MaxReplies \in Nat /\ FrameParts \in Nat
      BY <2>1, PartIs DEF SendInv, SendTypes
    <3> QED
      BY <2>2, <3>1
  <2>4. /\ Parts(n) \in Seq(Part) /\ Len(Parts(n)) = n
        /\ \A i \in 1..n : Parts(n)[i].reply = outgoing.reply /\ Parts(n)[i].part = first + i
    <3>1. \A i \in 1..n : first + i \in 1..FrameParts
      BY <2>3
    <3>2. \A i \in 1..n : [reply |-> outgoing.reply, part |-> first + i] \in Part
      BY <2>3, <3>1 DEF Part
    <3> QED
      BY <2>3, <3>2
  <2> HIDE DEF Parts
  <2>5. /\ outbound' \in Seq(Part) /\ Len(outbound') = Len(outbound) + n
        /\ \A i \in 1..Len(outbound) : outbound'[i] = outbound[i]
        /\ \A i \in 1..n : outbound'[Len(outbound) + i] = Parts(n)[i]
        /\ Len(outbound) \in Nat /\ outbound \in Seq(Part)
    <3>1. outbound \in Seq(Part)
      BY DEF SendInv, SendTypes
    <3>2. /\ outbound' \in Seq(Part) /\ Len(outbound') = Len(outbound) + Len(Parts(n))
          /\ \A i \in 1..Len(outbound) : outbound'[i] = outbound[i]
          /\ \A i \in 1..Len(Parts(n)) : outbound'[Len(outbound) + i] = Parts(n)[i]
      BY ONLY <2>2, <2>4, <3>1, Joined
    <3>3. Len(outbound) \in Nat
      BY <3>1
    <3> QED
      BY ONLY <2>4, <3>1, <3>2, <3>3
  <2>6. ASSUME NEW k \in 1..FrameParts, OnTheWay(m, k)
        PROVE  OnTheWay(m, k)'
    <3>1. CASE begun.reply = m /\ k \in 1..begun.part
      BY <2>1, <3>1 DEF OnTheWay
    <3>2. CASE \E i \in DOMAIN outbound : outbound[i].reply = m /\ outbound[i].part = k
      <4>1. PICK i \in DOMAIN outbound : outbound[i].reply = m /\ outbound[i].part = k
        BY <3>2
      <4>2. i \in DOMAIN outbound' /\ outbound'[i] = outbound[i]
        BY <2>3, <2>5
      <4> QED
        BY <4>1, <4>2 DEF OnTheWay
    <3>3. CASE outgoing.reply = m /\ k \in (FrameParts - outgoing.rest + 1)..FrameParts
      <4>1. CASE k <= first + n
        <5>1. PICK i : i = k - first
          OBVIOUS
        <5>2. i \in 1..n /\ first + i = k /\ Len(outbound) + i \in DOMAIN outbound'
          <6>1. PICK f : f = first
            OBVIOUS
          <6>2. f \in Nat /\ k \in Nat /\ k >= f + 1 /\ k <= f + n /\ i = k - f
            BY <2>3, <3>3, <4>1, <5>1, <6>1
          <6>3. i \in 1..n /\ f + i = k
            BY ONLY <2>3, <6>2
          <6>4. DOMAIN outbound' = 1..(Len(outbound) + n) /\ Len(outbound) \in Nat
            BY ONLY <2>5
          <6>5. Len(outbound) + i \in DOMAIN outbound'
            BY ONLY <2>3, <6>3, <6>4
          <6> QED
            BY <6>1, <6>3, <6>5
        <5>3. outbound'[Len(outbound) + i].reply = m /\ outbound'[Len(outbound) + i].part = k
          BY <2>4, <2>5, <3>3, <5>2
        <5> QED
          BY <5>2, <5>3 DEF OnTheWay
      <4>2. CASE ~(k <= first + n)
        <5>1. k \in (FrameParts - outgoing'.rest + 1)..FrameParts /\ outgoing'.rest # 0
          BY <2>3, <3>3, <4>2
        <5> QED
          BY <2>1, <2>3, <3>3, <5>1 DEF OnTheWay
      <4> QED
        BY <4>1, <4>2
    <3> QED
      BY <2>6, <3>1, <3>2, <3>3 DEF OnTheWay
  <2>7. CASE \E i \in DOMAIN m_messages_send : m_messages_send[i] = m
    BY <2>1, <2>7, PlacesKept
  <2>8. CASE \A k \in 1..FrameParts : OnTheWay(m, k)
    BY <2>1, <2>6, <2>8, PlacesKept
  <2>9. CASE outgoing.reply = m /\ outgoing.rest = FrameParts
    <3>1. \A k \in 1..FrameParts : OnTheWay(m, k)
      BY <2>1, <2>3, <2>9 DEF OnTheWay
    <3> QED
      BY <2>8, <3>1
  <2> QED
    BY <2>7, <2>8, <2>9 DEF Hearable
<1>4. ~SendFails
  BY DEF SendFails
<1> QED
  BY ONLY <1>1, <1>2, <1>3, <1>4, SendThread DEF SendThread

\* The program only adds a reply.
LEMMA ProgramKeeps ==
  ASSUME SendInv, Program, link = "up", link' = "up", NEW m, Hearable(m)
  PROVE  Keeps(m)
<1> USE DEF receiver, sender, network, history
<1>1. /\ UNCHANGED <<spc, outgoing, outbound, begun, heard, link>>
      /\ \/ m_messages_send' = m_messages_send
         \/ m_messages_send' = Append(m_messages_send, replies)
  BY DEF Program, TakeMessage, OfferReply, PushReply
<1>2. \A i \in DOMAIN m_messages_send :
        i \in DOMAIN m_messages_send' /\ m_messages_send'[i] = m_messages_send[i]
  <2>1. m_messages_send \in Seq(1..MaxReplies)
    BY DEF SendInv, SendTypes
  <2>2. PICK r : r = replies
    OBVIOUS
  <2>3. CASE m_messages_send' = Append(m_messages_send, r)
    <3>1. \A i \in 1..Len(m_messages_send) : m_messages_send'[i] = m_messages_send[i]
      BY ONLY <2>1, <2>3
    <3>2. DOMAIN m_messages_send' = 1..(Len(m_messages_send) + 1) /\ Len(m_messages_send) \in Nat
          /\ DOMAIN m_messages_send = 1..Len(m_messages_send)
      BY ONLY <2>1, <2>3
    <3> QED
      BY ONLY <3>1, <3>2
  <2> QED
    BY <1>1, <2>2, <2>3
<1> QED
  BY <1>1, <1>2 DEF Keeps, Hearable, OnTheWay

\* The part that is next continues what was heard of a reply all of which is on the way.
LEMMA NextContinues ==
  ASSUME SendInv, outbound # << >>, link = "up", outbound[1].part # 1,
         \A k \in 1..FrameParts : OnTheWay(outbound[1].reply, k)
  PROVE  [outbound[1] EXCEPT !.part = @ - 1] = begun
<1>1. PICK p, n : p = outbound[1] /\ n = p.part
  OBVIOUS
<1>2. /\ outbound \in Seq(Part) /\ 1 \in DOMAIN outbound /\ begun \in Part \cup {NoPart}
      /\ \A i \in DOMAIN outbound : outbound[i] \in Part
      /\ outgoing.reply \in Nat /\ outgoing.rest \in 0..FrameParts /\ FrameParts \in Nat
  BY PartIs, EmptySeq DEF SendInv, SendTypes
<1>3. /\ p \in Part /\ p.reply \in Nat /\ p.reply # 0 /\ n \in 1..FrameParts
      /\ n - 1 \in 1..FrameParts
  <2>1. p \in Part /\ n # 1
    BY <1>1, <1>2
  <2>2. p.reply \in 1..MaxReplies /\ n \in 1..FrameParts /\ MaxReplies \in Nat
    BY <1>1, <2>1, PartIs
  <2> QED
    BY ONLY <1>2, <2>1, <2>2
<1>4. /\ Before(begun, p) /\ Gone(p, outgoing)
      /\ \A j \in DOMAIN outbound : 1 < j => Before(p, outbound[j])
  BY <1>1, <1>2 DEF SendInv, WireOrder
<1>5. OnTheWay(p.reply, n - 1)
  BY <1>1, <1>3
<1>6. CASE begun.reply = p.reply /\ n - 1 \in 1..begun.part
  <2>1. begun \in Part /\ begun.part \in Nat
    BY <1>2, <1>3, <1>6, PartIs
  <2>2. begun.part < n
    BY <1>1, <1>3, <1>4, <1>6 DEF Before
  <2>3. begun.part = n - 1
    BY <1>3, <1>6, <2>1, <2>2
  <2>4. [p EXCEPT !.part = n - 1] = begun
    BY <1>3, <1>6, <2>1, <2>3 DEF Part
  <2> QED
    BY <1>1, <2>4
<1>7. ASSUME NEW j \in DOMAIN outbound, outbound[j].reply = p.reply, outbound[j].part = n - 1
      PROVE  FALSE
  <2>1. j \in Nat /\ j >= 1
    BY <1>2, <1>7
  <2>2. j # 1
    <3>1. n - 1 # n
      BY <1>3
    <3> QED
      BY <1>1, <1>7, <3>1
  <2>3. Before(p, outbound[j])
    BY <1>4, <2>1, <2>2
  <2>4. p.reply < p.reply \/ n < n - 1
    BY <1>1, <1>7, <2>3 DEF Before
  <2> QED
    BY <1>3, <2>4
<1>8. ASSUME outgoing.reply = p.reply, n - 1 \in (FrameParts - outgoing.rest + 1)..FrameParts
      PROVE  FALSE
  <2>1. p.reply < p.reply \/ n <= FrameParts - outgoing.rest
    BY <1>1, <1>4, <1>8 DEF Gone
  <2> QED
    BY <1>2, <1>3, <1>8, <2>1
<1> QED
  BY <1>5, <1>6, <1>7, <1>8 DEF OnTheWay

\* The image server hears the next part of a reply that it can hear whole.
LEMMA HearingKeeps ==
  ASSUME SendInv, ServerHears, link = "up", link' = "up", NEW m \in 1..MaxReplies, Hearable(m)
  PROVE  Keeps(m)
<1> USE DEF receiver, sender, program
<1>1. /\ outbound # << >> /\ outbound' = Tail(outbound)
      /\ UNCHANGED <<spc, outgoing, m_messages_send, link>>
  BY DEF ServerHears
<1>2. /\ outbound \in Seq(Part) /\ begun \in Part \cup {NoPart}
      /\ heard \in Seq(1..MaxReplies) /\ FrameParts \in Nat /\ m \in Nat
  BY PartIs DEF SendInv, SendTypes
<1>3. PICK p : p = outbound[1]
  OBVIOUS
<1>4. /\ Head(outbound) = p /\ 1 \in DOMAIN outbound /\ p \in Part
      /\ p.reply \in 1..MaxReplies /\ p.reply \in Nat /\ p.part \in 1..FrameParts
      /\ \A i \in DOMAIN outbound :
           i = 1 \/ (i - 1 \in DOMAIN outbound' /\ outbound'[i - 1] = outbound[i])
  <2>1. Head(outbound) = p /\ 1 \in DOMAIN outbound /\ outbound[1] \in Part
    BY <1>1, <1>2, <1>3, EmptySeq
  <2>2. /\ Len(outbound) \in Nat /\ DOMAIN outbound = 1..Len(outbound)
        /\ DOMAIN outbound' = 1..(Len(outbound) - 1)
        /\ \A i \in 1..(Len(outbound) - 1) : outbound'[i] = outbound[i + 1]
    BY <1>1, <1>2, EmptySeq
  <2>3. ASSUME NEW i \in DOMAIN outbound, i # 1
        PROVE  i - 1 \in DOMAIN outbound' /\ outbound'[i - 1] = outbound[i]
    <3>1. i - 1 \in 1..(Len(outbound) - 1) /\ (i - 1) + 1 = i
      BY <2>2, <2>3
    <3> QED
      BY <2>2, <3>1
  <2>4. p.reply \in 1..MaxReplies /\ p.part \in 1..FrameParts /\ MaxReplies \in Nat
    BY <1>3, <2>1, PartIs
  <2> QED
    BY <1>3, <2>1, <2>3, <2>4
<1> DEFINE continues == p.part = 1 \/ [p EXCEPT !.part = @ - 1] = begun
<1>5. /\ begun' = IF continues THEN p ELSE NoPart
      /\ heard' = IF continues /\ p.part = FrameParts THEN Append(heard, p.reply) ELSE heard
  BY <1>4 DEF ServerHears
<1>6. \A i \in DOMAIN heard' : (i \in DOMAIN heard /\ heard'[i] = heard[i]) \/ heard'[i] = p.reply
  BY <1>2, <1>4, <1>5
<1>7. \/ heard' = heard
      \/ \E i \in DOMAIN heard' : heard'[i] = p.reply
  <2>1. Len(heard) + 1 \in DOMAIN Append(heard, p.reply)
        /\ Append(heard, p.reply)[Len(heard) + 1] = p.reply
    BY <1>2, <1>4
  <2> QED
    BY <1>5, <2>1
<1>8. SUFFICES ASSUME \A i \in DOMAIN heard' : heard'[i] # m
               PROVE  Hearable(m)'
  BY DEF Keeps
<1>9. CASE \/ \E i \in DOMAIN m_messages_send : m_messages_send[i] = m
           \/ spc = "send" /\ outgoing.reply = m /\ outgoing.rest = FrameParts
  BY <1>1, <1>8, <1>9 DEF Hearable
<1>10. CASE \A k \in 1..FrameParts : OnTheWay(m, k)
  <2>1. Before(begun, p)
    BY <1>3, <1>4 DEF SendInv, WireOrder
  <2>2. begun.reply \in Nat /\ begun.part \in Nat
    BY <1>2, PartIs
  <2>3. ASSUME NEW k \in 1..FrameParts PROVE OnTheWay(m, k)'
    <3>1. CASE m = p.reply
      <4>1. begun' = p
        <5>1. continues
          BY <1>1, <1>3, <1>10, <3>1, NextContinues
        <5> QED
          BY <1>5, <5>1
      <4>2. CASE k <= p.part
        BY <1>4, <3>1, <4>1, <4>2 DEF OnTheWay
      <4>3. CASE ~(k <= p.part)
        <5>1. ~(begun.reply = m /\ k \in 1..begun.part)
          BY <1>4, <2>1, <2>2, <3>1, <4>3 DEF Before
        <5>2. ASSUME NEW i \in DOMAIN outbound, outbound[i].reply = m, outbound[i].part = k
              PROVE  OnTheWay(m, k)'
          <6>1. i # 1
            BY <1>3, <1>4, <4>3, <5>2
          <6> QED
            BY <1>4, <5>2, <6>1 DEF OnTheWay
        <5> QED
          BY <1>1, <1>10, <5>1, <5>2 DEF OnTheWay
      <4> QED
        BY <4>2, <4>3
    <3>2. CASE m # p.reply
      <4>1. p.reply < m
        <5>1. p.reply <= m
          BY <1>1, <1>3, NextIsLeast
        <5> QED
          BY <1>2, <1>4, <3>2, <5>1
      <4>2. begun.reply # m
        BY <1>2, <1>4, <2>1, <2>2, <4>1 DEF Before
      <4>3. ASSUME NEW i \in DOMAIN outbound, outbound[i].reply = m, outbound[i].part = k
            PROVE  OnTheWay(m, k)'
        <5>1. i # 1
          BY <1>3, <3>2, <4>3
        <5> QED
          BY <1>4, <4>3, <5>1 DEF OnTheWay
      <4> QED
        BY <1>1, <1>10, <4>2, <4>3 DEF OnTheWay
    <3> QED
      BY <3>1, <3>2
  <2> QED
    BY <1>1, <1>8, <2>3 DEF Hearable
<1> QED
  BY <1>9, <1>10 DEF Hearable

LEMMA NetworkKeeps ==
  ASSUME SendInv, Network, link = "up", link' = "up", NEW m \in 1..MaxReplies, Hearable(m)
  PROVE  Keeps(m)
<1>1. CASE ServerSends
  BY <1>1 DEF ServerSends, sender, Keeps, Hearable, OnTheWay
<1>2. ~Break
  BY DEF Break
<1> QED
  BY <1>1, <1>2, HearingKeeps DEF Network

\* A reply that can be heard is lost by a connection that breaks and by nothing else in
\* client_process_send and client_process_recv: until then it can be heard, or was heard.
THEOREM BreaksLoseOnly == Spec => LostOnlyByBreaks
<1>1. ASSUME SendInv, SendInv', [Next]_vars
      PROVE  [\A m \in 1..MaxReplies :
                link = "up" /\ link' = "up" /\ CanBeHeard(m)
                  => CanBeHeard(m)' \/ m \in ToSet(heard')]_vars
  <2> SUFFICES ASSUME Next, link = "up", link' = "up", NEW m \in 1..MaxReplies, CanBeHeard(m)
               PROVE  CanBeHeard(m)' \/ m \in ToSet(heard')
    BY <1>1
  <2>1. Hearable(m)
    BY <1>1, HearableIs DEF SendInv
  <2>2. Keeps(m)
    BY <1>1, <2>1, ReceiverKeeps, SenderKeeps, ProgramKeeps, NetworkKeeps DEF Next
  <2> QED
    BY <1>1, <2>2, HearableNext DEF SendInv, Keeps, ToSet
<1>2. SendInv /\ [Next]_vars => SendInv'
  BY SendNext
<1> QED
  BY <1>1, <1>2, SendInit, PTL DEF Spec, LostOnlyByBreaks

-----------------------------------------------------------------------------
(* What is received.                                                       *)

\* The types of the rest, and what the counts of failures are where they matter: a thread
\* gives up at MaxTries, so one that has not given up has counted fewer.
RecvTypes ==
  /\ binded \in BOOLEAN /\ bound \in BOOLEAN /\ m_is_connected \in BOOLEAN
  /\ try_times \in 0..MaxTries /\ try_send_num \in 0..MaxTries
  /\ rpc = "receive" => try_times < MaxTries
  /\ rpc = "parse" \/ (rpc = "receive" /\ link \in {"up", "timeout"}) => try_times = 0
  /\ rpc = "close" => link = "dying"
  /\ spc = "send" => try_send_num < MaxTries
  /\ msgdata \in Seq(Symbol) /\ inbound \in Seq(Symbol) /\ got \in Seq(Symbol)
  /\ m_messages_recv \in Seq(Seq(Symbol)) /\ pushed \in Seq(Seq(Symbol))
  /\ accepted \in Seq(Seq(Byte))
  /\ breaks \in 0..MaxBreaks
  /\ said \in Seq(Contents) /\ carried \in BOOLEAN

\* It holds at the start.
LEMMA RecvInit == Init => RecvTypes
<1> SUFFICES ASSUME Init PROVE RecvTypes
  OBVIOUS
<1>1. MaxTries \in Nat /\ MaxTries > 1 /\ MaxBreaks \in Nat
  BY ClientAssumption DEF ClientAssumption
<1>2. \A S : << >> \in Seq(S)
  BY EmptySeq
<1>3. /\ rpc = "top" /\ spc = "check" /\ binded = FALSE /\ bound = FALSE
      /\ m_is_connected = FALSE /\ carried = FALSE
      /\ try_times = 0 /\ try_send_num = 0 /\ breaks = 0
  BY DEF Init
<1>4. /\ msgdata = << >> /\ inbound = << >> /\ got = << >> /\ m_messages_recv = << >>
      /\ pushed = << >> /\ accepted = << >> /\ said = << >>
  BY DEF Init
<1>5. /\ msgdata \in Seq(Symbol) /\ inbound \in Seq(Symbol) /\ got \in Seq(Symbol)
      /\ m_messages_recv \in Seq(Seq(Symbol)) /\ pushed \in Seq(Seq(Symbol))
      /\ accepted \in Seq(Seq(Byte)) /\ said \in Seq(Contents)
  BY ONLY <1>2, <1>4
<1>6. /\ binded \in BOOLEAN /\ bound \in BOOLEAN /\ m_is_connected \in BOOLEAN
      /\ carried \in BOOLEAN
  BY ONLY <1>3
<1>7. /\ try_times \in 0..MaxTries /\ try_send_num \in 0..MaxTries /\ breaks \in 0..MaxBreaks
      /\ rpc \notin {"receive", "parse", "close"} /\ spc # "send"
  BY ONLY <1>1, <1>3
<1> QED
  BY ONLY <1>5, <1>6, <1>7 DEF RecvTypes

\* What is left of a text from its first start marker on.
LEMMA FromStartIs ==
  ASSUME msgdata \in Seq(Symbol)
  PROVE  FromStart \in Seq(Symbol) /\ Len(FromStart) <= Len(msgdata)
<1>1. PICK start : start = find_full_string(msgdata, start_c)
  OBVIOUS
<1>2. start \in 0..Len(msgdata) /\ Len(msgdata) \in Nat
  BY <1>1, StartFound
<1>3. CASE start = 0
  BY <1>1, <1>2, <1>3, EmptySeq DEF FromStart
<1>4. CASE start # 0
  <2>1. FromStart = SubSeq(msgdata, start, Len(msgdata))
    BY <1>1, <1>4 DEF FromStart
  <2>2. /\ start \in Nat /\ Len(msgdata) \in Nat /\ start > 0 /\ start <= Len(msgdata) + 1
        /\ Len(msgdata) <= Len(msgdata)
    BY <1>2, <1>4
  <2>3. FromStart \in Seq(Symbol) /\ Len(FromStart) = Len(msgdata) - start + 1
    BY ONLY <2>1, <2>2, msgdata \in Seq(Symbol), PieceIs
  <2> QED
    BY <2>2, <2>3
<1> QED
  BY <1>3, <1>4

\* The steps of the receive thread.
LEMMA ReceiverKeepsTypes ==
  ASSUME BindInv, SendTypes, RecvTypes, ReceiveThread
  PROVE  RecvTypes'
<1> USE DEF sender, program, network, history
<1>0. /\ MaxTries \in Nat /\ MaxTries > 1 /\ link \in {"down", "up", "timeout", "dying"}
      /\ \A S : << >> \in Seq(S)
  BY ClientAssumption, EmptySeq DEF ClientAssumption, SendTypes
<1>1. CASE StartOver
  BY <1>0, <1>1 DEF StartOver, RecvTypes
<1>2. CASE Bind
  BY <1>0, <1>2 DEF Bind, RecvTypes
<1>3. CASE BindFails
  BY <1>0, <1>3 DEF BindFails, receiver, RecvTypes
<1>4. CASE Connect
  <2>1. carried' \in BOOLEAN
    BY <1>4 DEF Connect
  <2>2. rpc' = "connected" /\ said' = << >> /\ got' = << >> /\ pushed' = << >>
        /\ UNCHANGED <<binded, try_times, msgdata, spc, try_send_num, m_is_connected,
                       m_messages_recv, accepted, bound, inbound, breaks>>
    BY <1>4 DEF Connect
  <2> QED
    BY <1>0, <2>1, <2>2 DEF RecvTypes
<1>5. CASE ConnectFails
  BY <1>0, <1>5 DEF ConnectFails, RecvTypes
<1>6. CASE SetConnected
  BY <1>0, <1>6 DEF SetConnected, RecvTypes
<1>7. CASE Receive
  <2>1. PICK k \in 1..Len(inbound) :
          /\ msgdata' = msgdata \o SubSeq(inbound, 1, k)
          /\ inbound' = SubSeq(inbound, k + 1, Len(inbound))
          /\ got' = got \o SubSeq(inbound, 1, k)
    BY <1>7 DEF Receive
  <2>2. SubSeq(inbound, 1, k) \in Seq(Symbol) /\ inbound' \in Seq(Symbol)
    <3>1. inbound \in Seq(Symbol)
      BY DEF RecvTypes
    <3>2. k \in 1..Len(inbound) /\ inbound' = SubSeq(inbound, k + 1, Len(inbound))
      BY <2>1
    <3> QED
      BY ONLY <3>1, <3>2
  <2>3. msgdata' \in Seq(Symbol) /\ got' \in Seq(Symbol)
    BY <2>1, <2>2 DEF RecvTypes
  <2>4. /\ rpc' = "parse" /\ try_times' = 0
        /\ UNCHANGED <<binded, spc, try_send_num, m_is_connected, m_messages_recv, accepted,
                       bound, link, breaks, said, pushed, carried>>
    BY <1>7 DEF Receive
  <2> QED
    BY <1>0, <2>2, <2>3, <2>4 DEF RecvTypes
<1>8. CASE ReceiveTimesOut
  <2>1. try_times = 0 /\ try_times' = 1
    BY <1>8 DEF ReceiveTimesOut, RecvTypes
  <2> QED
    BY <1>0, <1>8, <2>1 DEF ReceiveTimesOut, RecvTypes
<1>9. CASE ReceiveFails
  <2>1. try_times' \in 1..MaxTries
    BY <1>0, <1>9 DEF ReceiveFails, RecvTypes
  <2> QED
    BY <1>0, <1>9, <2>1 DEF ReceiveFails, RecvTypes
<1>10. CASE ParseMessage
  <2>1. PICK f, e : f = FromStart /\ e = EndOfFrame
    OBVIOUS
  <2>2. f \in Seq(Symbol) /\ e \in 1..(Len(f) - 1) /\ Len(f) \in Nat
    <3>1. f \in Seq(Symbol)
      BY <2>1, FromStartIs DEF RecvTypes
    <3>2. e = find_full_string(f, end_c) /\ e # 0
      BY <1>10, <2>1 DEF ParseMessage, EndOfFrame
    <3> QED
      BY <3>1, <3>2, EndFound
  <2>3. PICK text, rest : text = SubSeq(f, 2, e - 1) /\ rest = SubSeq(f, e + 2, Len(f))
    OBVIOUS
  <2>4. text \in Seq(Symbol) /\ rest \in Seq(Symbol)
    BY <2>2, <2>3
  <2>5. /\ m_messages_recv' = Append(m_messages_recv, text)
        /\ pushed' = Append(pushed, text)
        /\ msgdata' = rest
        /\ rpc' \in {"receive", "parse"} /\ rpc = "parse"
        /\ UNCHANGED <<binded, try_times, spc, try_send_num, m_is_connected, accepted,
                       bound, link, inbound, breaks, said, got, carried>>
    <3>1. Len(start_c) = 1 /\ Len(end_c) = 2
      BY DEF start_c, end_c
    <3> QED
      BY <1>10, <2>1, <2>3, <3>1 DEF ParseMessage
  <2>6. m_messages_recv' \in Seq(Seq(Symbol)) /\ pushed' \in Seq(Seq(Symbol))
    BY <2>4, <2>5 DEF RecvTypes
  <2> QED
    BY <1>0, <2>4, <2>5, <2>6 DEF RecvTypes
<1>11. CASE ParseRest
  <2>1. msgdata' \in Seq(Symbol)
    BY <1>11, FromStartIs DEF ParseRest, RecvTypes
  <2> QED
    BY <1>0, <1>11, <2>1 DEF ParseRest, RecvTypes
<1>12. CASE Close
  BY <1>0, <1>12 DEF Close, RecvTypes
<1> QED
  BY ONLY <1>1, <1>2, <1>3, <1>4, <1>5, <1>6, <1>7, <1>8, <1>9, <1>10, <1>11, <1>12, ReceiveThread
  DEF ReceiveThread

\* The steps of everything else.
LEMMA OthersKeepTypes ==
  ASSUME SendTypes, RecvTypes, SendThread \/ Program \/ Network \/ UNCHANGED vars
  PROVE  RecvTypes'
<1> USE DEF receiver
<1>0. /\ MaxTries \in Nat /\ MaxTries > 1 /\ MaxBreaks \in Nat /\ Contents \subseteq Seq(Byte)
  BY ClientAssumption DEF ClientAssumption
<1>1. CASE SendThread
  <2>1. /\ UNCHANGED <<receiver, m_is_connected, m_messages_recv, accepted, bound, link, inbound,
                       breaks, said, got, pushed, carried>>
        /\ try_send_num' \in 0..MaxTries /\ (spc' = "send" => try_send_num' < MaxTries)
    <3>1. try_send_num \in 0..MaxTries /\ (spc = "send" => try_send_num < MaxTries)
      BY DEF RecvTypes
    <3>2. CASE CheckConnected
      BY <3>1, <3>2 DEF CheckConnected, program, network, history
    <3>3. CASE Acquire
      BY <1>0, <3>3 DEF Acquire, program, network, history
    <3>4. CASE Send
      BY <1>0, <3>4 DEF Send, program, history
    <3>5. CASE SendFails
      <4>1. /\ UNCHANGED <<receiver, m_is_connected, m_messages_recv, accepted, bound, link,
                           inbound, breaks, said, got, pushed, carried>>
            /\ try_send_num' = try_send_num + 1 /\ try_send_num < MaxTries
            /\ spc' = IF try_send_num' < MaxTries THEN "send" ELSE "check"
        BY <3>1, <3>5 DEF SendFails, program, network, history
      <4> QED
        BY <1>0, <3>1, <4>1
    <3> QED
      BY ONLY <3>2, <3>3, <3>4, <3>5, SendThread, <1>1 DEF SendThread
  <2> QED
    BY <2>1 DEF RecvTypes
<1>2. CASE TakeMessage
  <2>1. PICK text : text = Head(m_messages_recv)
    OBVIOUS
  <2>2. /\ m_messages_recv # << >> /\ m_messages_recv' = Tail(m_messages_recv)
        /\ accepted' = Checked(text)
        /\ UNCHANGED <<receiver, spc, try_send_num, m_is_connected, bound, link, inbound,
                       breaks, said, got, pushed, carried>>
    BY <1>2, <2>1 DEF TakeMessage, sender, network, history
  <2>3. text \in Seq(Symbol) /\ m_messages_recv' \in Seq(Seq(Symbol))
    BY <2>1, <2>2 DEF RecvTypes
  <2>4. accepted' \in Seq(Seq(Byte))
    <3>1. decode_data_hex(text) \in Seq(Byte)
      BY <2>3, DecodedIsBytes
    <3> QED
      BY <2>2, <3>1 DEF Checked, RecvTypes
  <2> QED
    BY <2>2, <2>3, <2>4 DEF RecvTypes
<1>3. CASE OfferReply \/ PushReply
  <2>1. UNCHANGED <<receiver, spc, try_send_num, m_is_connected, m_messages_recv, accepted, bound,
                    link, inbound, breaks, said, got, pushed, carried>>
    BY <1>3 DEF OfferReply, PushReply, sender, network, history
  <2> QED
    BY <2>1 DEF RecvTypes
<1>4. CASE ServerSends
  <2>1. PICK c \in Contents : said' = Append(said, c) /\ inbound' = inbound \o Frame(Text(c))
    BY <1>4 DEF ServerSends
  <2>2. c \in Seq(Byte)
    BY <1>0
  <2>3. PICK frame, n : frame = Frame(Text(c)) /\ n = Len(c) + 1
    OBVIOUS
  <2>4. frame \in Seq(Symbol)
    BY ONLY <2>2, <2>3, FrameIs
  <2>5. inbound' \in Seq(Symbol) /\ said' \in Seq(Contents)
    BY <2>1, <2>3, <2>4 DEF RecvTypes
  <2>6. UNCHANGED <<receiver, spc, try_send_num, m_is_connected, m_messages_recv, accepted, bound,
                    link, breaks, got, pushed, carried>>
    BY <1>4 DEF ServerSends, sender, program
  <2> QED
    BY <2>5, <2>6 DEF RecvTypes
<1>5. CASE ServerHears
  <2>1. UNCHANGED <<receiver, spc, try_send_num, m_is_connected, m_messages_recv, accepted, bound,
                    link, inbound, breaks, said, got, pushed, carried>>
    BY <1>5 DEF ServerHears, sender, program
  <2> QED
    BY <2>1 DEF RecvTypes
<1>6. CASE Break
  <2>1. PICK i \in 0..Len(inbound) : inbound' = SubSeq(inbound, 1, i)
    BY <1>6 DEF Break
  <2>2. inbound' \in Seq(Symbol)
    BY <2>1 DEF RecvTypes
  <2>3. /\ UNCHANGED <<receiver, spc, try_send_num, m_is_connected, m_messages_recv, accepted,
                       bound, said, got, pushed, carried>>
        /\ link = "up" /\ link' \in {"timeout", "dying"}
        /\ breaks < MaxBreaks /\ breaks' = breaks + 1
    BY <1>6 DEF Break, sender, program, history
  <2>4. breaks' \in 0..MaxBreaks
    BY <1>0, <2>3 DEF RecvTypes
  <2> QED
    BY <2>2, <2>3, <2>4 DEF RecvTypes
<1>7. CASE UNCHANGED vars
  BY <1>7 DEF vars, sender, program, network, history, RecvTypes
<1> QED
  BY ONLY <1>1, <1>2, <1>3, <1>4, <1>5, <1>6, <1>7, SendThread \/ Program \/ Network \/ UNCHANGED vars
  DEF Program, Network

\* What every reachable state is like, as far as types and replies go.
ClientInv == SendInv /\ RecvTypes

LEMMA ClientInvariant == Spec => []ClientInv
<1>1. Init => ClientInv
  BY SendInit, RecvInit DEF ClientInv
<1>2. ClientInv /\ [Next]_vars => ClientInv'
  <2>1. SendInv /\ [Next]_vars => SendInv'
    BY SendNext
  <2>2. ASSUME SendInv, RecvTypes, [Next]_vars PROVE RecvTypes'
    <3>1. BindInv /\ SendTypes
      BY <2>2 DEF SendInv
    <3> QED
      BY <2>2, <3>1, ReceiverKeepsTypes, OthersKeepTypes DEF Next
  <2> QED
    BY <2>1, <2>2 DEF ClientInv
<1> QED
  BY <1>1, <1>2, PTL DEF Spec

\* Every variable of the connection stays in its type; above all, neither thread counts more
\* than MaxTries failures, whatever Receive and Send report and whenever it breaks.
THEOREM TypeCorrect == Spec => []TypeOK
<1>1. ClientInv => TypeOK
  BY DEF ClientInv, SendInv, BindInv, SendTypes, RecvTypes, TypeOK
<1> QED
  BY <1>1, ClientInvariant, PTL

-----------------------------------------------------------------------------
(* The stream of one connection. Its frames follow each other: frame i of  *)
(* the messages sd begins behind place starts[i].                          *)
FrameLength(content) == 2 * Len(content) + 5

Starts(starts, sd) ==
  /\ starts \in [1..(Len(sd) + 1) -> Nat]
  /\ starts[1] = 0
  /\ \A i \in 1..Len(sd) : starts[i + 1] = starts[i] + FrameLength(sd[i])
  /\ \A i, j \in 1..(Len(sd) + 1) : i < j => starts[i] < starts[j]

\* The symbols s are those of the stream behind place from.
Placed(starts, sd, s, from) ==
  \A i \in 1..Len(sd) : \A j \in 1..FrameLength(sd[i]) : \A k \in 1..Len(s) :
    from + k = starts[i] + j => s[k] = Frame(Text(sd[i]))[j]

\* What was received and what is on the way is the stream, or a beginning of it.
Streamed(starts, sd, g, in) ==
  /\ Starts(starts, sd)
  /\ Placed(starts, sd, g, 0) /\ Placed(starts, sd, in, Len(g))
  /\ Len(g) + Len(in) <= starts[Len(sd) + 1]

\* The messages ps were cut out of what was received, g; md is the rest of it, behind c
\* symbols of an earlier connection.
Cut(starts, c, sd, g, ps, md, car) ==
  /\ Len(ps) <= Len(sd) /\ starts[Len(ps) + 1] <= Len(g)
  /\ c \in Nat /\ Len(md) = c + Len(g) - starts[Len(ps) + 1]
  /\ \A k \in 1..(Len(g) - starts[Len(ps) + 1]) : md[c + k] = g[starts[Len(ps) + 1] + k]
  /\ c > 0 => car /\ Len(ps) = 0 /\ md[1] = Colon
  /\ \A k \in 1..c : md[k] # LF
  /\ \A i \in 1..Len(ps) : ps[i] = Text(sd[i]) \/ (i = 1 /\ car)

\* No message ends in these symbols.
NoEnd(md) == \A k \in 1..Len(md) : md[k] # LF

\* The n symbols f are a frame, with the text t in it.
Framed(f, n, t) ==
  /\ n \in Nat /\ n > 4 /\ f \in Seq(Symbol) /\ Len(f) = n
  /\ f[1] = Colon /\ f[n - 1] = CR /\ f[n] = LF
  /\ \A j \in 1..(n - 1) : f[j] # LF
  /\ t \in Seq(Symbol) /\ Len(t) = n - 3
  /\ \A j \in 1..(n - 3) : f[j + 1] = t[j]

LEMMA FrameShape ==
  ASSUME NEW content \in Contents
  PROVE  Framed(Frame(Text(content)), FrameLength(content), Text(content))
<1>0. PICK f, n : f = Frame(Text(content)) /\ n = FrameLength(content)
  OBVIOUS
<1>1. content \in Seq(Byte) /\ Len(content) \in Nat
  BY ClientAssumption DEF ClientAssumption
<1>2. PICK t : t = Text(content)
  OBVIOUS
<1>3. PICK l : l = Len(t)
  OBVIOUS
<1>4. t \in Seq(Digit) /\ l = 2 * (Len(content) + 1)
  BY <1>1, <1>2, <1>3, SealedIs, TextIs DEF Text
<1>5. t \in Seq(Symbol) /\ l \in Nat /\ l = n - 3 /\ n \in Nat /\ n > 4
  BY <1>0, <1>1, <1>3, <1>4, Markers DEF FrameLength
<1>6. /\ start_c \in Seq(Symbol) /\ Len(start_c) = 1 /\ start_c[1] = Colon
      /\ end_c \in Seq(Symbol) /\ Len(end_c) = 2 /\ end_c[1] = CR /\ end_c[2] = LF
  BY Markers DEF start_c, end_c
<1>7. PICK a : a = start_c \o t
  OBVIOUS
<1>8. /\ a \in Seq(Symbol) /\ Len(a) = 1 + l /\ a[1] = Colon
      /\ \A j \in 1..l : a[1 + j] = t[j]
  <2>1. /\ a \in Seq(Symbol) /\ Len(a) = Len(start_c) + Len(t)
        /\ \A i \in 1..Len(start_c) : a[i] = start_c[i]
        /\ \A i \in 1..Len(t) : a[Len(start_c) + i] = t[i]
    <3>1. start_c \in Seq(Symbol) /\ t \in Seq(Symbol)
      BY <1>5, <1>6
    <3> QED
      BY ONLY <3>1, <1>7, Joined
  <2> QED
    BY <1>3, <1>6, <2>1
<1>9. /\ f \in Seq(Symbol) /\ Len(f) = 1 + l + 2
      /\ \A j \in 1..(1 + l) : f[j] = a[j]
      /\ f[1 + l + 1] = CR /\ f[1 + l + 2] = LF
  <2>1. f = a \o end_c
    BY <1>0, <1>2, <1>7 DEF Frame
  <2>2. /\ f \in Seq(Symbol) /\ Len(f) = Len(a) + Len(end_c)
        /\ \A i \in 1..Len(a) : f[i] = a[i]
        /\ \A i \in 1..Len(end_c) : f[Len(a) + i] = end_c[i]
    <3>1. a \in Seq(Symbol) /\ end_c \in Seq(Symbol)
      BY <1>6, <1>8
    <3> QED
      BY ONLY <3>1, <2>1, Joined
  <2>3. 1 \in 1..2 /\ 2 \in 1..2
    OBVIOUS
  <2> QED
    BY ONLY <1>6, <1>8, <2>2, <2>3
<1>10. 1 + l + 1 = n - 1 /\ 1 + l + 2 = n /\ l = n - 3 /\ 1 \in 1..(1 + l)
  BY <1>5
<1>11. \A j \in 1..(n - 3) : f[j + 1] = t[j]
  <2>1. ASSUME NEW j \in 1..l PROVE f[j + 1] = t[j]
    <3>1. 1 + j \in 1..(1 + l) /\ 1 + j = j + 1
      BY <1>5
    <3> QED
      BY <1>8, <1>9, <3>1
  <2> QED
    BY <1>10, <2>1
<1>12. ASSUME NEW j \in 1..(n - 1) PROVE f[j] # LF
  <2>1. CASE j = 1
    BY <1>8, <1>9, <1>10, <2>1, Markers
  <2>2. CASE j = n - 1
    BY <1>9, <1>10, <2>2, Markers
  <2>3. CASE j # 1 /\ j # n - 1
    <3>1. j - 1 \in 1..(n - 3) /\ (j - 1) + 1 = j
      BY <1>5, <2>3
    <3>2. f[j] = t[j - 1]
      BY <1>11, <3>1
    <3>3. t[j - 1] \in Digit
      <4>1. j - 1 \in 1..Len(t)
        BY <1>3, <1>5, <3>1
      <4>2. t \in Seq(Digit)
        BY <1>4
      <4> QED
        BY ONLY <4>1, <4>2
    <3> QED
      BY <3>2, <3>3, Markers
  <2> QED
    BY <2>1, <2>2, <2>3
<1>13. Framed(f, n, t)
  BY <1>3, <1>5, <1>8, <1>9, <1>10, <1>11, <1>12 DEF Framed
<1> QED
  BY <1>0, <1>2, <1>13

\* Every place of the stream is in one of its frames.
LEMMA WhichFrame ==
  ASSUME NEW sd \in Seq(Contents), NEW starts, Starts(starts, sd), NEW k \in Nat, k > 0,
         k <= starts[Len(sd) + 1]
  PROVE  \E i \in 1..Len(sd) : starts[i] < k /\ k <= starts[i + 1]
<1> DEFINE S == {i \in 1..Len(sd) : k <= starts[i + 1]}
<1>1. /\ Len(sd) \in Nat /\ starts \in [1..(Len(sd) + 1) -> Nat] /\ starts[1] = 0
  BY DEF Starts
<1>2. Len(sd) # 0
  BY <1>1
<1>3. S # {} /\ S \in SUBSET Nat
  <2>1. Len(sd) \in S
    BY <1>1, <1>2
  <2>2. \A i \in S : i \in 1..Len(sd)
    OBVIOUS
  <2> HIDE DEF S
  <2>3. \A i \in S : i \in Nat
    BY <1>1, <2>2
  <2> QED
    BY <2>1, <2>3
<1>4. PICK m \in S : \A i \in S : m <= i
  <2> HIDE DEF S
  <2> QED
    BY <1>3, LeastNumber
<1>5. m \in 1..Len(sd) /\ k <= starts[m + 1]
  BY <1>4
<1>6. starts[m] < k
  <2>1. CASE m = 1
    BY <1>1, <2>1
  <2>2. CASE m # 1
    <3>1. m - 1 \in 1..Len(sd) /\ (m - 1) + 1 = m /\ ~(m <= m - 1)
      BY <1>1, <1>5, <2>2
    <3>2. ~(k <= starts[m])
      BY <1>4, <3>1
    <3>3. starts[m] \in Nat
      BY <1>1, <1>5
    <3> QED
      BY <3>2, <3>3
  <2> QED
    BY <2>1, <2>2
<1> QED
  BY <1>5, <1>6

\* Line feeds are where frames end.
LEMMA EndsOfFrames ==
  ASSUME NEW sd \in Seq(Contents), NEW starts, NEW g \in Seq(Symbol), Starts(starts, sd),
         Placed(starts, sd, g, 0), Len(g) <= starts[Len(sd) + 1], NEW k \in 1..Len(g)
  PROVE  g[k] = LF <=> \E i \in 1..Len(sd) : k = starts[i + 1]
<1>1. Len(sd) \in Nat /\ Len(g) \in Nat /\ starts \in [1..(Len(sd) + 1) -> Nat]
  BY DEF Starts
<1>2. ASSUME NEW i \in 1..Len(sd), starts[i] < k, k <= starts[i + 1]
      PROVE  g[k] = LF <=> k = starts[i + 1]
  <2>0. PICK content : content = sd[i]
    OBVIOUS
  <2>1. PICK f, n : f = Frame(Text(content)) /\ n = FrameLength(content)
    OBVIOUS
  <2>2. content \in Contents
    BY <1>1, <2>0
  <2>3. n \in Nat /\ f[n] = LF /\ \A j \in 1..(n - 1) : f[j] # LF
    BY <2>1, <2>2, FrameShape DEF Framed
  <2>4. starts[i] \in Nat /\ starts[i + 1] = starts[i] + n
    BY <1>1, <2>0, <2>1 DEF Starts
  <2>5. PICK j : j = k - starts[i]
    OBVIOUS
  <2>6. j \in 1..n /\ starts[i] + j = 0 + k /\ starts[i] + j = k
    BY <1>1, <1>2, <2>3, <2>4, <2>5
  <2>7. g[k] = f[j]
    BY <2>0, <2>1, <2>6 DEF Placed
  <2>8. j = n <=> k = starts[i + 1]
    BY <2>3, <2>4, <2>6
  <2>9. j # n => j \in 1..(n - 1)
    BY <2>3, <2>6
  <2> QED
    BY <2>3, <2>7, <2>8, <2>9
<1>3. PICK i \in 1..Len(sd) : starts[i] < k /\ k <= starts[i + 1]
  <2>1. k \in Nat /\ k > 0 /\ k <= starts[Len(sd) + 1]
    BY <1>1
  <2> QED
    BY ONLY <2>1, sd \in Seq(Contents), Starts(starts, sd), WhichFrame
<1>4. ASSUME NEW h \in 1..Len(sd), k = starts[h + 1] PROVE g[k] = LF
  <2>1. starts[h] < k
    <3>1. h \in 1..(Len(sd) + 1) /\ h + 1 \in 1..(Len(sd) + 1) /\ h < h + 1
      BY <1>1
    <3> QED
      BY <1>4, <3>1 DEF Starts
  <2> QED
    BY <1>1, <1>2, <1>4, <2>1
<1> QED
  BY <1>2, <1>3, <1>4

\* The types of a stream and of what was cut out of it.
StreamTypes(sd, g, in, ps, md) ==
  /\ sd \in Seq(Contents) /\ g \in Seq(Symbol) /\ in \in Seq(Symbol)
  /\ ps \in Seq(Seq(Symbol)) /\ md \in Seq(Symbol)

\* The frame that comes next, number q + 1 behind place base, when some of it is there.
AtFrame(starts, c, sd, g, md, q, base) ==
  /\ q \in Nat /\ base \in Nat /\ base <= Len(g) /\ q <= Len(sd) /\ c \in Nat
  /\ Len(md) = c + Len(g) - base
  /\ base < Len(g) => q < Len(sd)
  /\ q < Len(sd) => /\ q + 1 \in 1..Len(sd) /\ sd[q + 1] \in Contents
                    /\ starts[q + 2] = base + FrameLength(sd[q + 1])
                    /\ \A j \in 1..FrameLength(sd[q + 1]) :
                         base + j <= Len(g)
                           => /\ g[base + j] = Frame(Text(sd[q + 1]))[j]
                              /\ md[c + j] = Frame(Text(sd[q + 1]))[j]

LEMMA NextFrame ==
  ASSUME NEW sd, NEW g, NEW in, NEW ps, NEW md, StreamTypes(sd, g, in, ps, md),
         NEW starts, NEW c, NEW car, Streamed(starts, sd, g, in), Cut(starts, c, sd, g, ps, md, car),
         NEW q, q = Len(ps), NEW base, base = starts[q + 1]
  PROVE  AtFrame(starts, c, sd, g, md, q, base)
<1>1. /\ sd \in Seq(Contents) /\ g \in Seq(Symbol) /\ in \in Seq(Symbol) /\ md \in Seq(Symbol)
      /\ q \in Nat /\ Len(sd) \in Nat /\ Len(g) \in Nat /\ Len(in) \in Nat /\ Len(md) \in Nat
  BY DEF StreamTypes
<1>2. /\ starts \in [1..(Len(sd) + 1) -> Nat]
      /\ \A i \in 1..Len(sd) : starts[i + 1] = starts[i] + FrameLength(sd[i])
      /\ Len(g) + Len(in) <= starts[Len(sd) + 1]
  BY DEF Streamed, Starts
<1>3. /\ q <= Len(sd) /\ base <= Len(g) /\ c \in Nat /\ Len(md) = c + Len(g) - base
      /\ \A k \in 1..(Len(g) - base) : md[c + k] = g[base + k]
  BY DEF Cut
<1>4. base \in Nat
  <2>1. q + 1 \in 1..(Len(sd) + 1)
    BY <1>1, <1>3
  <2> QED
    BY <1>2, <2>1
<1>5. base < Len(g) => q < Len(sd)
  <2>1. q = Len(sd) => Len(g) <= base
    BY <1>1, <1>2
  <2> QED
    BY <1>1, <1>3, <1>4, <2>1
<1>6. ASSUME q < Len(sd)
      PROVE  /\ q + 1 \in 1..Len(sd) /\ sd[q + 1] \in Contents
             /\ starts[q + 2] = base + FrameLength(sd[q + 1])
  <2>1. q + 1 \in 1..Len(sd) /\ (q + 1) + 1 = q + 2
    BY <1>1, <1>6
  <2>2. starts[(q + 1) + 1] = starts[q + 1] + FrameLength(sd[q + 1])
    BY <1>2, <2>1
  <2> QED
    BY <1>1, <2>1, <2>2
<1>7. ASSUME q < Len(sd), NEW j \in 1..FrameLength(sd[q + 1]), base + j <= Len(g)
      PROVE  /\ g[base + j] = Frame(Text(sd[q + 1]))[j]
             /\ md[c + j] = Frame(Text(sd[q + 1]))[j]
  <2>1. FrameLength(sd[q + 1]) \in Nat
    BY <1>6, <1>7, FrameShape DEF Framed
  <2>2. base + j \in 1..Len(g) /\ 0 + (base + j) = base + j /\ j \in 1..(Len(g) - base)
    BY <1>1, <1>4, <1>7, <2>1
  <2>3. g[base + j] = Frame(Text(sd[q + 1]))[j]
    BY <1>6, <1>7, <2>2 DEF Streamed, Placed
  <2> QED
    BY <1>3, <2>2, <2>3
<1> QED
  BY <1>1, <1>3, <1>4, <1>5, <1>6, <1>7 DEF AtFrame

\* What is left over begins with a start marker, so the parser drops nothing of it.
LEMMA CutBegins ==
  ASSUME NEW sd, NEW g, NEW in, NEW ps, NEW md, StreamTypes(sd, g, in, ps, md),
         NEW starts, NEW c, NEW car, Streamed(starts, sd, g, in), Cut(starts, c, sd, g, ps, md, car),
         md # << >>
  PROVE  md[1] = Colon
<1>1. PICK q : q = Len(ps)
  OBVIOUS
<1>2. PICK base : base = starts[q + 1]
  OBVIOUS
<1>3. /\ q \in Nat /\ base \in Nat /\ base <= Len(g) /\ c \in Nat /\ Len(md) = c + Len(g) - base
      /\ base < Len(g) => q < Len(sd)
      /\ q < Len(sd) => /\ q + 1 \in 1..Len(sd) /\ sd[q + 1] \in Contents
                        /\ \A j \in 1..FrameLength(sd[q + 1]) :
                             base + j <= Len(g) => md[c + j] = Frame(Text(sd[q + 1]))[j]
  <2>1. AtFrame(starts, c, sd, g, md, q, base)
    BY <1>1, <1>2, NextFrame
  <2> QED
    BY <2>1 DEF AtFrame
<1>4. Len(md) \in Nat /\ Len(md) > 0 /\ Len(g) \in Nat
  BY EmptySeq DEF StreamTypes
<1>5. CASE c > 0
  BY <1>5 DEF Cut
<1>6. CASE c = 0
  <2>1. base < Len(g) /\ base + 1 <= Len(g) /\ c + 1 = 1
    BY <1>3, <1>4, <1>6
  <2>2. sd[q + 1] \in Contents /\ q < Len(sd)
    BY <1>3, <2>1
  <2>3. FrameLength(sd[q + 1]) \in Nat /\ FrameLength(sd[q + 1]) > 4
        /\ Frame(Text(sd[q + 1]))[1] = Colon
    BY <2>2, FrameShape DEF Framed
  <2>4. 1 \in 1..FrameLength(sd[q + 1])
    BY <2>3
  <2> QED
    BY <1>3, <2>1, <2>2, <2>3, <2>4
<1> QED
  BY <1>3, <1>5, <1>6

\* The first line feed in it is the end of the next frame.
LEMMA FirstEnd ==
  ASSUME NEW sd, NEW g, NEW in, NEW ps, NEW md, StreamTypes(sd, g, in, ps, md),
         NEW starts, NEW c, NEW car, Streamed(starts, sd, g, in), Cut(starts, c, sd, g, ps, md, car),
         NEW q, q = Len(ps), NEW k \in 1..Len(md), md[k] = LF
  PROVE  /\ q < Len(sd) /\ starts[q + 2] <= Len(g)
         /\ c + FrameLength(sd[q + 1]) <= k
         /\ md[c + FrameLength(sd[q + 1]) - 1] = CR
         /\ md[c + FrameLength(sd[q + 1])] = LF
<1>2. PICK base : base = starts[q + 1]
  OBVIOUS
<1>3. /\ q \in Nat /\ base \in Nat /\ base <= Len(g) /\ c \in Nat /\ Len(md) = c + Len(g) - base
      /\ base < Len(g) => q < Len(sd)
      /\ q < Len(sd) => /\ q + 1 \in 1..Len(sd) /\ sd[q + 1] \in Contents
                        /\ starts[q + 2] = base + FrameLength(sd[q + 1])
                        /\ \A j \in 1..FrameLength(sd[q + 1]) :
                             base + j <= Len(g) => md[c + j] = Frame(Text(sd[q + 1]))[j]
  <2>1. AtFrame(starts, c, sd, g, md, q, base)
    BY <1>2, NextFrame
  <2> QED
    BY <2>1 DEF AtFrame
<1>4. /\ Len(md) \in Nat /\ Len(g) \in Nat /\ Len(in) \in Nat /\ Len(sd) \in Nat
      /\ g \in Seq(Symbol) /\ sd \in Seq(Contents)
  BY DEF StreamTypes
<1>5. PICK m : m = k - c
  OBVIOUS
<1>6. m \in 1..(Len(g) - base) /\ c + m = k /\ base + m \in 1..Len(g)
  <2>1. k > c
    <3>1. k <= c => md[k] # LF
      BY <1>3 DEF Cut
    <3> QED
      BY <1>3, <3>1
  <2> QED
    BY <1>3, <1>4, <1>5, <2>1
<1>7. g[base + m] = LF
  <2>1. md[c + m] = g[base + m]
    BY <1>2, <1>6 DEF Cut
  <2> QED
    BY <1>6, <2>1
<1>8. q < Len(sd)
  BY <1>3, <1>4, <1>6
<1>9. PICK n, f : n = FrameLength(sd[q + 1]) /\ f = Frame(Text(sd[q + 1]))
  OBVIOUS
<1>10. n \in Nat /\ n > 4 /\ f[n - 1] = CR /\ f[n] = LF
  BY <1>3, <1>8, <1>9, FrameShape DEF Framed
<1>11. starts[q + 2] = base + n
  BY <1>3, <1>8, <1>9
<1>12. base + n <= base + m
  <2>1. PICK i \in 1..Len(sd) : base + m = starts[i + 1]
    <3>1. Len(g) <= starts[Len(sd) + 1]
      <4>1. /\ Len(g) + Len(in) <= starts[Len(sd) + 1]
            /\ starts \in [1..(Len(sd) + 1) -> Nat]
        BY DEF Streamed, Starts
      <4>2. Len(sd) + 1 \in 1..(Len(sd) + 1)
        BY <1>4
      <4>3. starts[Len(sd) + 1] \in Nat
        BY ONLY <4>1, <4>2
      <4> QED
        BY ONLY <1>4, <4>1, <4>3
    <3>2. Starts(starts, sd) /\ Placed(starts, sd, g, 0)
      BY DEF Streamed
    <3> QED
      BY <1>4, <1>6, <1>7, <3>1, <3>2, EndsOfFrames
  <2>2. /\ starts \in [1..(Len(sd) + 1) -> Nat]
        /\ \A h, l \in 1..(Len(sd) + 1) : h < l => starts[h] < starts[l]
    BY DEF Streamed, Starts
  <2>3. i + 1 \in 1..(Len(sd) + 1) /\ q + 1 \in 1..(Len(sd) + 1) /\ q + 2 \in 1..(Len(sd) + 1)
    BY <1>3, <1>4, <1>8
  <2>4. base < starts[i + 1]
    BY <1>3, <1>6, <2>1
  <2>5. q + 1 < i + 1
    <3>1. i + 1 # q + 1
      BY <1>2, <1>3, <2>4
    <3>2. ~(i + 1 < q + 1)
      <4>1. i + 1 < q + 1 => starts[i + 1] < base
        BY <1>2, <2>2, <2>3
      <4> QED
        BY <1>3, <1>6, <2>1, <2>4, <4>1
    <3> QED
      BY <1>3, <3>1, <3>2
  <2>6. q + 2 = i + 1 \/ q + 2 < i + 1
    BY <1>3, <2>5
  <2>7. starts[q + 2] <= starts[i + 1]
    BY <2>2, <2>3, <2>6
  <2> QED
    BY <1>11, <2>1, <2>7
<1>13. base + n <= Len(g) /\ c + n <= k
  BY <1>3, <1>4, <1>6, <1>10, <1>12
<1>14. md[c + (n - 1)] = f[n - 1] /\ md[c + n] = f[n]
  <2>1. n - 1 \in 1..n /\ n \in 1..n /\ base + (n - 1) <= Len(g)
    BY <1>3, <1>4, <1>10, <1>13
  <2> QED
    BY <1>3, <1>8, <1>9, <1>13, <2>1
<1>15. c + (n - 1) = c + n - 1
  BY <1>3, <1>10
<1> QED
  BY <1>8, <1>9, <1>10, <1>11, <1>13, <1>14, <1>15

\* The end marker the parser finds is that of the next frame.
LEMMA EndIs ==
  ASSUME NEW sd, NEW g, NEW in, NEW ps, NEW md, StreamTypes(sd, g, in, ps, md),
         NEW starts, NEW c, NEW car, Streamed(starts, sd, g, in), Cut(starts, c, sd, g, ps, md, car),
         NEW q, q = Len(ps), NEW e, e = find_full_string(md, end_c)
  PROVE  /\ e = 0 => NoEnd(md)
         /\ e # 0 => /\ q < Len(sd) /\ starts[q + 2] <= Len(g)
                     /\ e + 1 = c + FrameLength(sd[q + 1])
<1>1. md \in Seq(Symbol) /\ Len(md) \in Nat /\ c \in Nat
  BY DEF StreamTypes, Cut
<1>2. /\ e = 0 \/ e \in 1..(Len(md) - 1)
      /\ e = 0 => \A i \in 1..(Len(md) - 1) : ~(md[i] = CR /\ md[i + 1] = LF)
      /\ e # 0 => /\ md[e] = CR /\ md[e + 1] = LF
                  /\ \A i \in 1..(e - 1) : ~(md[i] = CR /\ md[i + 1] = LF)
  BY ONLY <1>1, e = find_full_string(md, end_c), EndFound
<1>3. ASSUME NEW k \in 1..Len(md), md[k] = LF
      PROVE  /\ q < Len(sd) /\ starts[q + 2] <= Len(g)
             /\ c + FrameLength(sd[q + 1]) <= k
             /\ c + FrameLength(sd[q + 1]) - 1 \in 1..(Len(md) - 1)
             /\ md[c + FrameLength(sd[q + 1]) - 1] = CR
             /\ md[(c + FrameLength(sd[q + 1]) - 1) + 1] = LF
             /\ FrameLength(sd[q + 1]) \in Nat
  <2>1. /\ q < Len(sd) /\ starts[q + 2] <= Len(g)
        /\ c + FrameLength(sd[q + 1]) <= k
        /\ md[c + FrameLength(sd[q + 1]) - 1] = CR
        /\ md[c + FrameLength(sd[q + 1])] = LF
    BY <1>3, FirstEnd
  <2>2. sd[q + 1] \in Contents
    BY <2>1, NextFrame DEF AtFrame
  <2>3. PICK n : n = FrameLength(sd[q + 1])
    OBVIOUS
  <2>4. n \in Nat /\ n > 4
    BY <2>2, <2>3, FrameShape DEF Framed
  <2>5. (c + n - 1) + 1 = c + n /\ (c + n <= k => c + n - 1 \in 1..(Len(md) - 1))
    BY <1>1, <2>4
  <2> QED
    BY <2>1, <2>3, <2>4, <2>5
<1>4. CASE e = 0
  BY <1>2, <1>3, <1>4 DEF NoEnd
<1>5. CASE e # 0
  <2>1. e \in 1..(Len(md) - 1) /\ e + 1 \in 1..Len(md) /\ md[e + 1] = LF
    BY <1>1, <1>2, <1>5
  <2>2. PICK n : n = FrameLength(sd[q + 1])
    OBVIOUS
  <2>3. /\ q < Len(sd) /\ starts[q + 2] <= Len(g) /\ n \in Nat
        /\ c + n <= e + 1 /\ c + n - 1 \in 1..(Len(md) - 1)
        /\ md[c + n - 1] = CR /\ md[(c + n - 1) + 1] = LF
    BY <1>3, <2>1, <2>2
  <2>4. ~(c + n - 1 \in 1..(e - 1))
    BY <1>2, <1>5, <2>3
  <2>5. e + 1 = c + n
    BY <1>1, <2>1, <2>3, <2>4
  <2> QED
    BY <1>5, <2>2, <2>3, <2>5
<1> QED
  BY <1>4, <1>5

\* The cut after a frame that ends behind place e.
AfterParse(starts, c, sd, g, ps, md, car, e) ==
  /\ Cut(starts, 0, sd, g, Append(ps, SubSeq(md, 2, e - 1)), SubSeq(md, e + 2, Len(md)), car)
  /\ c = 0 => \E content \in Contents : SubSeq(md, 2, e - 1) = Text(content)

\* What the parser cuts off is the next frame, and the rest begins behind it. It passes on
\* the text of that frame, unless something of an earlier connection was in front of it.
LEMMA CutNext ==
  ASSUME NEW sd, NEW g, NEW in, NEW ps, NEW md, StreamTypes(sd, g, in, ps, md),
         NEW starts, NEW c, NEW car, Streamed(starts, sd, g, in), Cut(starts, c, sd, g, ps, md, car),
         NEW e, e = find_full_string(md, end_c), e # 0
  PROVE  AfterParse(starts, c, sd, g, ps, md, car, e)
<1>0. PICK q, text, rest : /\ q = Len(ps) /\ text = SubSeq(md, 2, e - 1)
                           /\ rest = SubSeq(md, e + 2, Len(md))
  OBVIOUS
<1>1. PICK base, content : base = starts[q + 1] /\ content = sd[q + 1]
  OBVIOUS
<1>2. PICK n, f, t : n = FrameLength(content) /\ f = Frame(Text(content)) /\ t = Text(content)
  OBVIOUS
<1>3. q < Len(sd) /\ starts[q + 2] <= Len(g) /\ e + 1 = c + n
  BY <1>0, <1>1, <1>2, EndIs
<1>4. /\ q \in Nat /\ base \in Nat /\ base <= Len(g) /\ c \in Nat /\ Len(md) = c + Len(g) - base
      /\ q + 1 \in 1..Len(sd) /\ content \in Contents /\ starts[q + 2] = base + n
      /\ \A j \in 1..n : base + j <= Len(g) => md[c + j] = f[j]
  <2>1. AtFrame(starts, c, sd, g, md, q, base)
    BY <1>0, <1>1, NextFrame
  <2> QED
    BY <1>1, <1>2, <1>3, <2>1 DEF AtFrame
<1>5. Framed(f, n, t)
  BY <1>2, <1>4, FrameShape
<1>6. n \in Nat /\ n > 4
  BY <1>5 DEF Framed
<1>7. /\ md \in Seq(Symbol) /\ Len(md) \in Nat /\ Len(g) \in Nat /\ Len(sd) \in Nat
      /\ ps \in Seq(Seq(Symbol)) /\ Len(ps) = q
  BY <1>0 DEF StreamTypes
<1>8. e \in Nat /\ e > 2 /\ base + n <= Len(g) /\ e + 1 <= Len(md) /\ e + 1 = c + n
  <2>1. e = 0 \/ e \in 1..(Len(md) - 1)
    BY ONLY <1>7, e = find_full_string(md, end_c), EndFound
  <2>2. starts[q + 2] <= Len(g) /\ starts[q + 2] = base + n /\ e + 1 = c + n
    BY <1>3, <1>4
  <2>3. base + n <= Len(g)
    BY ONLY <2>2
  <2>4. e \in Nat
    BY <1>7, <2>1
  <2>5. base \in Nat /\ c \in Nat /\ Len(md) = c + Len(g) - base
    BY <1>4
  <2>6. Len(md) \in Nat /\ Len(g) \in Nat
    BY <1>7
  <2> QED
    BY ONLY <1>6, <2>2, <2>3, <2>4, <2>5, <2>6
<1>8a. /\ e \in Nat /\ base \in Nat /\ c \in Nat /\ n \in Nat /\ n > 4
       /\ Len(md) \in Nat /\ Len(g) \in Nat
       /\ e + 1 = c + n /\ base + n <= Len(g) /\ e + 1 <= Len(md) /\ Len(md) = c + Len(g) - base
  BY <1>4, <1>6, <1>7, <1>8
<1>9. /\ text \in Seq(Symbol) /\ Len(text) = (e - 1) - 2 + 1
      /\ \A i \in 1..((e - 1) - 2 + 1) : text[i] = md[2 + i - 1]
  <2>1. 2 \in Nat /\ e - 1 \in Nat /\ 2 > 0 /\ 2 <= (e - 1) + 1 /\ e - 1 <= Len(md)
    BY <1>7, <1>8
  <2> QED
    BY ONLY <1>7, <1>0, <2>1, PieceIs
<1>10. /\ rest \in Seq(Symbol) /\ Len(rest) = Len(md) - (e + 2) + 1
       /\ \A i \in 1..(Len(md) - (e + 2) + 1) : rest[i] = md[(e + 2) + i - 1]
  <2>1. e + 2 \in Nat /\ e + 2 > 0 /\ e + 2 <= Len(md) + 1 /\ Len(md) <= Len(md)
    BY <1>7, <1>8
  <2> QED
    BY ONLY <1>7, <1>0, <2>1, PieceIs
<1>11. PICK ps1 : ps1 = Append(ps, text)
  OBVIOUS
<1>12. /\ Len(ps1) = q + 1 /\ ps1[q + 1] = text
       /\ \A i \in 1..q : ps1[i] = ps[i]
  BY <1>7, <1>9, <1>11
<1>13. ASSUME c = 0 PROVE text = t
  <2>1. t \in Seq(Symbol) /\ Len(t) = n - 3 /\ \A j \in 1..(n - 3) : f[j + 1] = t[j]
    BY <1>5 DEF Framed
  <2>2. Len(text) = Len(t) /\ Len(text) = n - 3
    <3>1. (e - 1) - 2 + 1 = n - 3
      BY ONLY <1>13, <1>8a
    <3> QED
      BY <1>9, <2>1, <3>1
  <2>3. ASSUME NEW i \in 1..Len(text) PROVE text[i] = t[i]
    <3>1. /\ i \in 1..(n - 3) /\ i \in 1..((e - 1) - 2 + 1) /\ 2 + i - 1 = c + (i + 1)
          /\ i + 1 \in 1..n /\ base + (i + 1) <= Len(g)
      <4>1. i \in 1..(n - 3)
        BY <2>2
      <4> QED
        BY ONLY <1>13, <1>8a, <4>1
    <3> QED
      BY <1>4, <1>9, <2>1, <3>1
  <2> QED
    BY ONLY <1>9, <2>1, <2>2, <2>3, SeqEqual
<1>14. Len(rest) = 0 + Len(g) - starts[q + 2]
  <2>1. Len(md) - (e + 2) + 1 = 0 + Len(g) - (base + n)
    BY ONLY <1>8a
  <2> QED
    BY <1>4, <1>10, <2>1
<1>15. ASSUME NEW k \in 1..(Len(g) - starts[q + 2])
       PROVE  rest[0 + k] = g[starts[q + 2] + k]
  <2>1. /\ k \in 1..(Len(md) - (e + 2) + 1) /\ (e + 2) + k - 1 = c + (n + k) /\ 0 + k = k
        /\ n + k \in 1..(Len(g) - base) /\ base + (n + k) = starts[q + 2] + k
    <3>1. starts[q + 2] = base + n
      BY <1>4
    <3>2. k \in 1..(Len(g) - (base + n))
      BY <3>1
    <3>3. /\ k \in 1..(Len(md) - (e + 2) + 1) /\ (e + 2) + k - 1 = c + (n + k) /\ 0 + k = k
          /\ n + k \in 1..(Len(g) - base) /\ base + (n + k) = (base + n) + k
      BY ONLY <1>8a, <3>2
    <3> QED
      BY ONLY <3>1, <3>3
  <2>2. md[c + (n + k)] = g[base + (n + k)]
    BY <1>0, <1>1, <2>1 DEF Cut
  <2> QED
    BY <1>10, <2>1, <2>2
<1>16. ASSUME NEW i \in 1..(q + 1) PROVE ps1[i] = Text(sd[i]) \/ (i = 1 /\ car)
  <2>1. CASE i = q + 1
    <3>1. CASE c = 0
      BY <1>1, <1>2, <1>12, <1>13, <2>1, <3>1
    <3>2. CASE c # 0
      <4>1. c > 0
        BY <1>4, <3>2
      <4>2. car /\ q = 0
        BY <1>0, <4>1 DEF Cut
      <4> QED
        BY <2>1, <4>2
    <3> QED
      BY <3>1, <3>2
  <2>2. CASE i # q + 1
    <3>1. i \in 1..q
      BY <1>4, <2>2
    <3>2. ps[i] = Text(sd[i]) \/ (i = 1 /\ car)
      BY <1>0, <3>1 DEF Cut
    <3> QED
      BY <1>12, <3>1, <3>2
  <2> QED
    BY <2>1, <2>2
<1>17. Cut(starts, 0, sd, g, ps1, rest, car)
  <2>1. (q + 1) + 1 = q + 2 /\ q + 1 <= Len(sd) /\ 0 \in Nat /\ ~(0 > 0)
        /\ \A k : k \notin 1..0
    BY <1>4
  <2> QED
    BY ONLY <1>3, <1>12, <1>14, <1>15, <1>16, <2>1 DEF Cut
<1> QED
  BY <1>0, <1>2, <1>4, <1>11, <1>13, <1>17 DEF AfterParse

\* The stream and the cut after the first k symbols on the way were received.
AfterReceive(starts, c, sd, g, in, ps, md, car, k) ==
  /\ Streamed(starts, sd, g \o SubSeq(in, 1, k), SubSeq(in, k + 1, Len(in)))
  /\ Cut(starts, c, sd, g \o SubSeq(in, 1, k), ps, md \o SubSeq(in, 1, k), car)
  /\ Len(g \o SubSeq(in, 1, k)) + Len(SubSeq(in, k + 1, Len(in))) = Len(g) + Len(in)

\* Received is the beginning of what is on the way.
LEMMA StreamReceives ==
  ASSUME NEW sd, NEW g, NEW in, NEW ps, NEW md, StreamTypes(sd, g, in, ps, md),
         NEW starts, NEW c, NEW car, Streamed(starts, sd, g, in), Cut(starts, c, sd, g, ps, md, car),
         NEW k \in 1..Len(in)
  PROVE  AfterReceive(starts, c, sd, g, in, ps, md, car, k)
<1>0. PICK piece, g2, md2, in2 : /\ piece = SubSeq(in, 1, k) /\ in2 = SubSeq(in, k + 1, Len(in))
                                 /\ g2 = g \o piece /\ md2 = md \o piece
  OBVIOUS
<1>1. /\ sd \in Seq(Contents) /\ g \in Seq(Symbol) /\ in \in Seq(Symbol) /\ md \in Seq(Symbol)
      /\ ps \in Seq(Seq(Symbol))
  BY DEF StreamTypes
<1>2. /\ Len(sd) \in Nat /\ Len(g) \in Nat /\ Len(in) \in Nat /\ Len(md) \in Nat /\ Len(ps) \in Nat
      /\ k \in Nat /\ k > 0 /\ k <= Len(in)
  BY <1>1
<1>3. /\ piece \in Seq(Symbol) /\ Len(piece) = k /\ \A i \in 1..k : piece[i] = in[i]
  BY <1>0, <1>1, <1>2
<1>4. /\ in2 \in Seq(Symbol) /\ Len(in2) = Len(in) - k
      /\ \A i \in 1..(Len(in) - k) : in2[i] = in[k + i]
  BY <1>0, <1>1, <1>2
<1>5. /\ g2 \in Seq(Symbol) /\ Len(g2) = Len(g) + k
      /\ \A i \in 1..Len(g) : g2[i] = g[i]
      /\ \A i \in 1..k : g2[Len(g) + i] = in[i]
  <2>1. /\ g2 \in Seq(Symbol) /\ Len(g2) = Len(g) + Len(piece)
        /\ \A i \in 1..Len(g) : g2[i] = g[i]
        /\ \A i \in 1..Len(piece) : g2[Len(g) + i] = piece[i]
    <3>1. g \in Seq(Symbol) /\ piece \in Seq(Symbol)
      BY <1>1, <1>3
    <3> QED
      BY ONLY <1>0, <3>1, Joined
  <2> QED
    BY <1>3, <2>1
<1>6. /\ md2 \in Seq(Symbol) /\ Len(md2) = Len(md) + k
      /\ \A i \in 1..Len(md) : md2[i] = md[i]
      /\ \A i \in 1..k : md2[Len(md) + i] = in[i]
  <2>1. /\ md2 \in Seq(Symbol) /\ Len(md2) = Len(md) + Len(piece)
        /\ \A i \in 1..Len(md) : md2[i] = md[i]
        /\ \A i \in 1..Len(piece) : md2[Len(md) + i] = piece[i]
    <3>1. md \in Seq(Symbol) /\ piece \in Seq(Symbol)
      BY <1>1, <1>3
    <3> QED
      BY ONLY <1>0, <3>1, Joined
  <2> QED
    BY <1>3, <2>1
<1>6a. Len(g2) = Len(g) + k /\ Len(md2) = Len(md) + k /\ Len(in2) = Len(in) - k
  BY <1>4, <1>5, <1>6
<1>7. starts \in [1..(Len(sd) + 1) -> Nat]
  BY DEF Streamed, Starts
<1>9. Placed(starts, sd, g2, 0)
  <2>1. ASSUME NEW i \in 1..Len(sd), NEW j \in 1..FrameLength(sd[i]), NEW x \in 1..Len(g2),
               0 + x = starts[i] + j
        PROVE  g2[x] = Frame(Text(sd[i]))[j]
    <3>1. x \in 1..(Len(g) + k) /\ 0 + x = x
      <4>1. x \in 1..Len(g2) /\ Len(g2) = Len(g) + k
        BY <1>6a, <2>1
      <4> QED
        BY ONLY <1>2, <4>1
    <3>2. CASE x <= Len(g)
      <4>1. x \in 1..Len(g)
        BY ONLY <1>2, <3>1, <3>2
      <4>2. g[x] = Frame(Text(sd[i]))[j]
        BY <2>1, <4>1 DEF Streamed, Placed
      <4> QED
        BY <1>5, <4>1, <4>2
    <3>3. CASE ~(x <= Len(g))
      <4>1. PICK y : y = x - Len(g)
        OBVIOUS
      <4>2. y \in 1..k /\ y \in 1..Len(in) /\ Len(g) + y = x
        BY ONLY <1>2, <3>1, <3>3, <4>1
      <4>3. Len(g) + y = starts[i] + j
        BY ONLY <2>1, <3>1, <4>2
      <4>4. in[y] = Frame(Text(sd[i]))[j]
        BY <4>2, <4>3 DEF Streamed, Placed
      <4> QED
        BY <1>5, <4>2, <4>4
    <3> QED
      BY <3>2, <3>3
  <2> QED
    BY <2>1 DEF Placed
<1>10. Placed(starts, sd, in2, Len(g2))
  <2>1. ASSUME NEW i \in 1..Len(sd), NEW j \in 1..FrameLength(sd[i]), NEW x \in 1..Len(in2),
               Len(g2) + x = starts[i] + j
        PROVE  in2[x] = Frame(Text(sd[i]))[j]
    <3>1. PICK y : y = k + x
      OBVIOUS
    <3>2. x \in 1..(Len(in) - k) /\ y \in 1..Len(in) /\ Len(g) + y = Len(g2) + x
      <4>1. x \in 1..Len(in2) /\ Len(in2) = Len(in) - k /\ Len(g2) = Len(g) + k
        BY <1>6a, <2>1
      <4> QED
        BY ONLY <1>2, <3>1, <4>1
    <3>3. Len(g) + y = starts[i] + j
      BY ONLY <2>1, <3>2
    <3>4. in[y] = Frame(Text(sd[i]))[j]
      BY <3>2, <3>3 DEF Streamed, Placed
    <3> QED
      BY <1>4, <3>1, <3>2, <3>4
  <2> QED
    BY <2>1 DEF Placed
<1>11. Len(g2) + Len(in2) = Len(g) + Len(in)
  BY ONLY <1>2, <1>6a
<1>12. Streamed(starts, sd, g2, in2)
  BY <1>9, <1>10, <1>11 DEF Streamed
<1>13. PICK q, base : q = Len(ps) /\ base = starts[Len(ps) + 1]
  OBVIOUS
<1>14. base \in Nat /\ base <= Len(g) /\ c \in Nat /\ Len(md) = c + Len(g) - base
  <2>1. q = Len(ps) /\ base = starts[q + 1]
    BY <1>13
  <2>2. AtFrame(starts, c, sd, g, md, q, base)
    BY <2>1, NextFrame
  <2> QED
    BY <2>2 DEF AtFrame
<1>15. ASSUME NEW x \in 1..(Len(g2) - base) PROVE md2[c + x] = g2[base + x]
  <2>1. x \in Nat /\ x > 0 /\ base + x <= Len(g) + k
    <3>1. PICK n : n = Len(g2)
      OBVIOUS
    <3>2. n = Len(g) + k /\ x \in 1..(n - base)
      BY <1>6a, <1>15, <3>1
    <3>3. n \in Nat
      BY ONLY <1>2, <3>2
    <3> QED
      BY ONLY <1>2, <1>14, <3>2, <3>3
  <2>2. CASE x <= Len(g) - base
    <3>1. x \in 1..(Len(g) - base) /\ c + x \in 1..Len(md) /\ base + x \in 1..Len(g)
      BY ONLY <1>2, <1>14, <2>1, <2>2
    <3>2. md[c + x] = g[base + x]
      BY <1>13, <3>1 DEF Cut
    <3> QED
      BY <1>5, <1>6, <3>1, <3>2
  <2>3. CASE ~(x <= Len(g) - base)
    <3>1. PICK y : y = x - (Len(g) - base)
      OBVIOUS
    <3>2. y \in 1..k /\ c + x = Len(md) + y /\ base + x = Len(g) + y
      BY ONLY <1>2, <1>14, <2>1, <2>3, <3>1
    <3> QED
      BY <1>5, <1>6, <3>2
  <2> QED
    BY <2>2, <2>3
<1>16. base <= Len(g2) /\ Len(md2) = c + Len(g2) - base
  BY ONLY <1>2, <1>6a, <1>14
<1>17. ASSUME NEW x \in 1..c PROVE md2[x] # LF
  <2>1. x \in 1..Len(md)
    BY ONLY <1>2, <1>14, <1>17
  <2> QED
    BY <1>6, <2>1 DEF Cut
<1>18. ASSUME c > 0 PROVE md2[1] = Colon
  <2>1. 1 \in 1..Len(md)
    BY ONLY <1>2, <1>14, <1>18
  <2> QED
    BY <1>6, <1>18, <2>1 DEF Cut
<1>19. Cut(starts, c, sd, g2, ps, md2, car)
  BY <1>13, <1>14, <1>15, <1>16, <1>17, <1>18 DEF Cut
<1> QED
  BY <1>0, <1>11, <1>12, <1>19 DEF AfterReceive

\* A break takes the end of what is on the way.
LEMMA StreamShortens ==
  ASSUME NEW sd, NEW g, NEW in, NEW ps, NEW md, StreamTypes(sd, g, in, ps, md),
         NEW starts, Streamed(starts, sd, g, in),
         NEW n \in 0..Len(in), NEW in2, in2 = SubSeq(in, 1, n)
  PROVE  Streamed(starts, sd, g, in2)
<1>1. in \in Seq(Symbol) /\ Len(in) \in Nat /\ Len(g) \in Nat /\ Len(sd) \in Nat
  BY DEF StreamTypes
<1>2. Len(in2) = n /\ \A i \in 1..n : in2[i] = in[i] /\ i \in 1..Len(in)
  BY <1>1
<1>3. Placed(starts, sd, in2, Len(g))
  BY <1>2 DEF Streamed, Placed
<1>4. Len(g) + Len(in2) <= starts[Len(sd) + 1]
  <2>1. starts \in [1..(Len(sd) + 1) -> Nat] /\ Len(g) + Len(in) <= starts[Len(sd) + 1]
    BY DEF Streamed, Starts
  <2>2. Len(sd) + 1 \in 1..(Len(sd) + 1)
    BY <1>1
  <2>3. starts[Len(sd) + 1] \in Nat
    BY ONLY <2>1, <2>2
  <2> QED
    BY <1>1, <1>2, <2>1, <2>3
<1> QED
  BY <1>3, <1>4 DEF Streamed

\* The stream and the cut after the image server has sent another message.
AfterSend(c, sd, g, in, ps, md, car, content) ==
  \E starts : /\ Streamed(starts, Append(sd, content), g, in \o Frame(Text(content)))
              /\ Cut(starts, c, Append(sd, content), g, ps, md, car)
              /\ Len(g) + Len(in \o Frame(Text(content))) = starts[Len(Append(sd, content)) + 1]

\* The image server sends the next frame.
LEMMA StreamGrows ==
  ASSUME NEW sd, NEW g, NEW in, NEW ps, NEW md, StreamTypes(sd, g, in, ps, md),
         NEW starts, NEW c, NEW car, Streamed(starts, sd, g, in), Cut(starts, c, sd, g, ps, md, car),
         Len(g) + Len(in) = starts[Len(sd) + 1],
         NEW content \in Contents
  PROVE  AfterSend(c, sd, g, in, ps, md, car, content)
<1>0. PICK sd2, in2 : sd2 = Append(sd, content) /\ in2 = in \o Frame(Text(content))
  OBVIOUS
<1>1. PICK n, f, l : n = Len(sd) /\ f = Frame(Text(content)) /\ l = FrameLength(content)
  OBVIOUS
<1>2. /\ sd \in Seq(Contents) /\ g \in Seq(Symbol) /\ in \in Seq(Symbol) /\ n \in Nat
      /\ Len(g) \in Nat /\ Len(in) \in Nat /\ Len(ps) \in Nat
  BY <1>1 DEF StreamTypes
<1>3. l \in Nat /\ l > 0 /\ f \in Seq(Symbol) /\ Len(f) = l
  BY <1>1, FrameShape DEF Framed
<1>4. /\ sd2 \in Seq(Contents) /\ Len(sd2) = n + 1 /\ sd2[n + 1] = content
      /\ \A i \in 1..n : sd2[i] = sd[i]
  BY <1>0, <1>1, <1>2
<1>5. /\ in2 \in Seq(Symbol) /\ Len(in2) = Len(in) + l
      /\ \A i \in 1..Len(in) : in2[i] = in[i]
      /\ \A i \in 1..l : in2[Len(in) + i] = f[i]
  <2>1. in2 = in \o f
    BY <1>0, <1>1
  <2>2. /\ in2 \in Seq(Symbol) /\ Len(in2) = Len(in) + Len(f)
        /\ \A i \in 1..Len(in) : in2[i] = in[i]
        /\ \A i \in 1..Len(f) : in2[Len(in) + i] = f[i]
    <3>1. in \in Seq(Symbol) /\ f \in Seq(Symbol)
      BY <1>2, <1>3
    <3> QED
      BY ONLY <2>1, <3>1, Joined
  <2> QED
    BY <1>3, <2>2
<1>6. /\ starts \in [1..(n + 1) -> Nat] /\ starts[1] = 0
      /\ \A i \in 1..n : starts[i + 1] = starts[i] + FrameLength(sd[i])
      /\ \A i, j \in 1..(n + 1) : i < j => starts[i] < starts[j]
      /\ Placed(starts, sd, g, 0) /\ Placed(starts, sd, in, Len(g))
      /\ Len(g) + Len(in) = starts[n + 1]
  BY <1>1 DEF Streamed, Starts
<1>7. PICK last : last = starts[n + 1]
  OBVIOUS
<1>8. last \in Nat /\ Len(g) + Len(in) = last
  <2>1. n + 1 \in 1..(n + 1)
    BY <1>2
  <2> QED
    BY <1>6, <1>7, <2>1
<1>9. PICK starts2 : starts2 = [i \in 1..(n + 2) |-> IF i = n + 2 THEN last + l ELSE starts[i]]
  OBVIOUS
<1>10. /\ starts2[n + 2] = last + l
       /\ \A i \in 1..(n + 1) : starts2[i] = starts[i] /\ starts[i] \in Nat /\ starts[i] <= last
  <2>1. n + 2 \in 1..(n + 2) /\ \A i \in 1..(n + 1) : i \in 1..(n + 2) /\ i # n + 2
    BY <1>2
  <2>2. ASSUME NEW i \in 1..(n + 1) PROVE starts[i] \in Nat /\ starts[i] <= last
    <3>1. n + 1 \in 1..(n + 1) /\ (i = n + 1 \/ i < n + 1)
      BY <1>2
    <3>2. starts[i] \in Nat
      BY <1>6
    <3>3. CASE i = n + 1
      BY <1>7, <1>8, <3>3
    <3>4. CASE i < n + 1
      <4>1. starts[i] < last
        BY <1>6, <1>7, <3>1, <3>4
      <4> QED
        BY <1>8, <3>2, <4>1
    <3> QED
      BY <3>1, <3>3, <3>4
  <2> QED
    BY <1>9, <2>1, <2>2
<1>11. Starts(starts2, sd2)
  <2>1. starts2 \in [1..(Len(sd2) + 1) -> Nat]
    <3>1. Len(sd2) + 1 = n + 2
      BY <1>2, <1>4
    <3>2. ASSUME NEW i \in 1..(n + 2) PROVE (IF i = n + 2 THEN last + l ELSE starts[i]) \in Nat
      <4>1. i # n + 2 => i \in 1..(n + 1)
        BY <1>2
      <4> QED
        BY <1>3, <1>8, <1>10, <4>1
    <3> QED
      BY <1>9, <3>1, <3>2
  <2>2. starts2[1] = 0
    <3>1. 1 \in 1..(n + 1)
      BY <1>2
    <3> QED
      BY <1>6, <1>10, <3>1
  <2>3. ASSUME NEW i \in 1..Len(sd2)
        PROVE  starts2[i + 1] = starts2[i] + FrameLength(sd2[i])
    <3>1. i \in 1..(n + 1) /\ (i # n + 1 => i \in 1..n /\ i + 1 \in 1..(n + 1))
          /\ (i = n + 1 => i + 1 = n + 2)
      BY <1>2, <1>4
    <3>2. CASE i = n + 1
      BY <1>1, <1>4, <1>7, <1>10, <3>1, <3>2
    <3>3. CASE i # n + 1
      BY <1>4, <1>6, <1>10, <3>1, <3>3
    <3> QED
      BY <3>2, <3>3
  <2>4. ASSUME NEW i \in 1..(Len(sd2) + 1), NEW j \in 1..(Len(sd2) + 1), i < j
        PROVE  starts2[i] < starts2[j]
    <3>1. i \in 1..(n + 1) /\ (j # n + 2 => j \in 1..(n + 1))
      BY <1>2, <1>4, <2>4
    <3>2. CASE j = n + 2
      BY <1>3, <1>8, <1>10, <3>1, <3>2
    <3>3. CASE j # n + 2
      BY <1>6, <1>10, <2>4, <3>1, <3>3
    <3> QED
      BY <3>2, <3>3
  <2> QED
    BY <2>1, <2>2, <2>3, <2>4 DEF Starts
<1>12. ASSUME NEW i \in 1..Len(sd2), NEW j \in 1..FrameLength(sd2[i])
       PROVE  /\ i \in 1..n => /\ j \in 1..FrameLength(sd[i]) /\ sd2[i] = sd[i]
                               /\ starts2[i] = starts[i] /\ starts[i] + j \in Nat
                               /\ starts[i] + j <= last
              /\ i \notin 1..n => /\ j \in 1..l /\ Frame(Text(sd2[i])) = f
                                  /\ starts2[i] = last
  <2>1. i \in 1..(n + 1) /\ (i \notin 1..n => i = n + 1)
    BY <1>2, <1>4
  <2>2. CASE i \in 1..n
    <3>1. sd2[i] = sd[i] /\ starts2[i] = starts[i] /\ starts[i] \in Nat
      BY <1>4, <1>10, <2>1, <2>2
    <3>2. i + 1 \in 1..(n + 1) /\ starts[i + 1] = starts[i] + FrameLength(sd[i])
      <4>1. i + 1 \in 1..(n + 1)
        BY ONLY <1>2, <2>2
      <4>2. starts[i + 1] = starts[i] + FrameLength(sd[i])
        BY ONLY <1>6, <2>2
      <4> QED
        BY <4>1, <4>2
    <3>3. starts[i + 1] <= last
      BY <1>10, <3>2
    <3>4. FrameLength(sd[i]) \in Nat
      <4>1. sd[i] \in Contents
        BY <1>1, <1>2, <2>2
      <4> QED
        BY <4>1, FrameShape DEF Framed
    <3>5. PICK m, s : m = FrameLength(sd[i]) /\ s = starts[i]
      OBVIOUS
    <3>6. m \in Nat /\ s \in Nat /\ s + m <= last /\ j \in 1..m
      BY <1>12, <3>1, <3>2, <3>3, <3>4, <3>5
    <3>7. s + j \in Nat /\ s + j <= last
      BY ONLY <1>8, <3>6
    <3> QED
      BY <2>2, <3>1, <3>5, <3>6, <3>7
  <2>3. CASE i \notin 1..n
    BY <1>1, <1>4, <1>7, <1>10, <1>12, <2>1, <2>3
  <2> QED
    BY <2>2, <2>3
<1>13. Placed(starts2, sd2, g, 0)
  <2>1. ASSUME NEW i \in 1..Len(sd2), NEW j \in 1..FrameLength(sd2[i]), NEW k \in 1..Len(g),
               0 + k = starts2[i] + j
        PROVE  g[k] = Frame(Text(sd2[i]))[j]
    <3>1. CASE i \in 1..n
      BY <1>1, <1>6, <1>12, <2>1, <3>1 DEF Placed
    <3>2. CASE i \notin 1..n
      <4>1. j \in 1..l /\ 0 + k = last + j
        BY <1>12, <2>1, <3>2
      <4> QED
        BY ONLY <1>2, <1>3, <1>8, <2>1, <4>1
    <3> QED
      BY <3>1, <3>2
  <2> QED
    BY <2>1 DEF Placed
<1>14. Placed(starts2, sd2, in2, Len(g))
  <2>1. ASSUME NEW i \in 1..Len(sd2), NEW j \in 1..FrameLength(sd2[i]), NEW k \in 1..Len(in2),
               Len(g) + k = starts2[i] + j
        PROVE  in2[k] = Frame(Text(sd2[i]))[j]
    <3>0. k \in Nat /\ k > 0
      BY <1>5
    <3>1. CASE i \in 1..n
      <4>1. Len(g) + k = starts[i] + j /\ starts[i] + j <= last
        BY <1>12, <2>1, <3>1
      <4>2. Len(g) + k <= last
        BY <4>1
      <4>3. k \in 1..Len(in)
        BY ONLY <1>2, <1>8, <3>0, <4>2
      <4> QED
        BY <1>1, <1>5, <1>6, <1>12, <3>1, <4>1, <4>3 DEF Placed
    <3>2. CASE i \notin 1..n
      <4>1. j \in 1..l /\ Len(g) + k = last + j /\ Frame(Text(sd2[i])) = f
        BY <1>12, <2>1, <3>2
      <4>2. k = Len(in) + j
        <5>1. /\ Len(g) \in Nat /\ Len(in) \in Nat /\ Len(g) + Len(in) = last
              /\ Len(g) + k = last + j
          BY <1>2, <1>8, <4>1
        <5>2. j \in Nat
          BY <1>3, <4>1
        <5> QED
          BY ONLY <1>8, <3>0, <5>1, <5>2
      <4> QED
        BY <1>5, <4>1, <4>2
    <3> QED
      BY <3>1, <3>2
  <2> QED
    BY <2>1 DEF Placed
<1>15. Len(g) + Len(in2) = starts2[Len(sd2) + 1]
  <2>1. Len(sd2) + 1 = n + 2 /\ Len(in2) = Len(in) + l
    BY <1>2, <1>4, <1>5
  <2>2. Len(g) + Len(in2) = last + l
    BY ONLY <1>2, <1>3, <1>8, <2>1
  <2> QED
    BY <1>10, <2>1, <2>2
<1>16. Streamed(starts2, sd2, g, in2)
  <2>1. Len(g) + Len(in2) <= starts2[Len(sd2) + 1]
    BY <1>2, <1>3, <1>5, <1>15
  <2> QED
    BY <1>11, <1>13, <1>14, <2>1 DEF Streamed
<1>17. Cut(starts2, c, sd2, g, ps, md, car)
  <2>1. Len(ps) <= n /\ Len(ps) + 1 \in 1..(n + 1)
    <3>1. Len(ps) <= n
      BY <1>1 DEF Cut
    <3> QED
      BY ONLY <1>2, <3>1
  <2>2. starts2[Len(ps) + 1] = starts[Len(ps) + 1] /\ Len(ps) <= Len(sd2)
    BY <1>2, <1>4, <1>10, <2>1
  <2>3. ASSUME NEW i \in 1..Len(ps) PROVE sd2[i] = sd[i]
    <3>1. i \in 1..n
      BY <1>2, <2>1
    <3> QED
      BY <1>4, <3>1
  <2> QED
    BY <2>2, <2>3 DEF Cut
<1> QED
  BY <1>0, <1>15, <1>16, <1>17 DEF AfterSend

-----------------------------------------------------------------------------
(* Counting: how many elements of a sequence are outside a set.            *)
Outside(s, R) == {i \in DOMAIN s : s[i] \notin R}
Wrong(s, R) == Cardinality(Outside(s, R))

LEMMA WrongIsNat ==
  ASSUME NEW S, NEW s \in Seq(S), NEW R
  PROVE  IsFiniteSet(Outside(s, R)) /\ Wrong(s, R) \in Nat
<1>1. DOMAIN s = 1..Len(s) /\ Len(s) \in Nat
  OBVIOUS
<1>2. IsFiniteSet(DOMAIN s)
  BY <1>1, FS_Interval
<1>3. Outside(s, R) \in SUBSET DOMAIN s
  BY DEF Outside
<1>4. IsFiniteSet(Outside(s, R))
  BY ONLY <1>2, <1>3, FS_Subset
<1> QED
  BY <1>4, FS_CardinalityType DEF Wrong

LEMMA WrongOfNone == \A R : Wrong(<< >>, R) = 0
<1>1. \A R : Outside(<< >>, R) = {}
  BY DEF Outside
<1> QED
  BY <1>1, FS_EmptySet DEF Wrong

LEMMA WrongOfAppend ==
  ASSUME NEW S, NEW s \in Seq(S), NEW x \in S, NEW R
  PROVE  /\ x \in R => Wrong(Append(s, x), R) = Wrong(s, R)
         /\ Wrong(Append(s, x), R) <= Wrong(s, R) + 1
         /\ Wrong(Append(s, x), R) \in Nat
<1>1. PICK u, n : u = Append(s, x) /\ n = Len(s)
  OBVIOUS
<1>2. /\ u \in Seq(S) /\ n \in Nat /\ DOMAIN u = 1..(n + 1) /\ u[n + 1] = x
      /\ DOMAIN s = 1..n /\ \A i \in 1..n : u[i] = s[i]
  BY <1>1
<1>3. IsFiniteSet(Outside(s, R)) /\ Wrong(s, R) \in Nat /\ Wrong(u, R) \in Nat
  BY <1>2, WrongIsNat
<1>4. ASSUME NEW i PROVE i \in Outside(u, R) <=> i \in Outside(s, R) \/ (i = n + 1 /\ x \notin R)
  <2>1. i \in 1..(n + 1) <=> i \in 1..n \/ i = n + 1
    BY <1>2
  <2>2. n + 1 \notin 1..n
    BY <1>2
  <2> QED
    BY <1>2, <2>1, <2>2 DEF Outside
<1>5. CASE x \in R
  <2>1. Outside(u, R) = Outside(s, R)
    BY <1>4, <1>5
  <2> QED
    BY <1>1, <1>3, <1>5, <2>1 DEF Wrong
<1>6. CASE x \notin R
  <2>1. Outside(u, R) = Outside(s, R) \cup {n + 1}
    BY <1>4, <1>6
  <2>2. n + 1 \notin Outside(s, R)
    BY <1>2 DEF Outside
  <2>3. Cardinality(Outside(s, R) \cup {n + 1}) = Cardinality(Outside(s, R)) + 1
    BY <1>3, <2>2, FS_AddElement
  <2> QED
    BY <1>1, <1>3, <1>6, <2>1, <2>3 DEF Wrong
<1> QED
  BY <1>5, <1>6

LEMMA WrongOfTail ==
  ASSUME NEW S, NEW s \in Seq(S), s # << >>, NEW R
  PROVE  /\ Wrong(Tail(s), R) \in Nat
         /\ Wrong(Tail(s), R) <= Wrong(s, R)
         /\ Head(s) \notin R => Wrong(s, R) = Wrong(Tail(s), R) + 1
<1>1. PICK t, n : t = Tail(s) /\ n = Len(s)
  OBVIOUS
<1>2. /\ t \in Seq(S) /\ n \in Nat /\ n > 0 /\ DOMAIN s = 1..n /\ DOMAIN t = 1..(n - 1)
      /\ \A i \in 1..(n - 1) : t[i] = s[i + 1]
      /\ Head(s) = s[1]
  BY <1>1, EmptySeq
<1> DEFINE A == Outside(t, R)
           B == Outside(s, R)
           f == [i \in A |-> i + 1]
<1>3. IsFiniteSet(A) /\ IsFiniteSet(B) /\ Wrong(t, R) \in Nat /\ Wrong(s, R) \in Nat
      /\ Wrong(t, R) = Cardinality(A) /\ Wrong(s, R) = Cardinality(B)
  BY <1>2, WrongIsNat DEF Wrong
<1>4. ASSUME NEW i \in A PROVE i \in Nat /\ i + 1 \in B \ {1} /\ f[i] = i + 1
  <2>1. i \in 1..(n - 1) /\ t[i] \notin R
    BY <1>2 DEF Outside
  <2>2. i + 1 \in 1..n /\ i + 1 # 1 /\ i \in Nat
    BY <1>2, <2>1
  <2>3. s[i + 1] \notin R
    BY <1>2, <2>1
  <2> QED
    BY <1>2, <2>2, <2>3 DEF Outside
<1>5. ASSUME NEW i \in B \ {1} PROVE i - 1 \in A /\ (i - 1) + 1 = i
  <2>1. i \in 1..n /\ i # 1 /\ s[i] \notin R
    BY <1>2 DEF Outside
  <2>2. i - 1 \in 1..(n - 1) /\ (i - 1) + 1 = i
    BY <1>2, <2>1
  <2>3. t[i - 1] \notin R
    BY <1>2, <2>1, <2>2
  <2> QED
    BY <1>2, <2>2, <2>3 DEF Outside
<1>6. f \in Bijection(A, B \ {1})
  <2>1. f \in [A -> B \ {1}]
    BY <1>4
  <2>2. \A i, j \in A : f[i] = f[j] => i = j
    <3>1. ASSUME NEW i \in A, NEW j \in A, f[i] = f[j] PROVE i = j
      <4>1. i \in Nat /\ j \in Nat /\ i + 1 = j + 1
        BY <1>4, <3>1
      <4> QED
        BY ONLY <4>1
    <3> QED
      BY <3>1
  <2>3. \A y \in B \ {1} : \E i \in A : f[i] = y
    BY <1>4, <1>5
  <2> HIDE DEF f, A, B
  <2> QED
    BY <2>1, <2>2, <2>3 DEF Bijection, Injection, Surjection, IsInjective
<1>7. Cardinality(B \ {1}) = Cardinality(A)
  <2>1. ExistsBijection(A, B \ {1})
    BY <1>6 DEF ExistsBijection
  <2> HIDE DEF A, B
  <2> QED
    BY <1>3, <2>1, FS_Bijection
<1>8. Cardinality(B \ {1}) = IF 1 \in B THEN Cardinality(B) - 1 ELSE Cardinality(B)
  <2> HIDE DEF A, B
  <2> QED
    BY <1>3, FS_RemoveElement
<1>9. Head(s) \notin R => 1 \in B
  BY <1>2 DEF Outside
<1> HIDE DEF A, B, f
<1> QED
  BY <1>1, <1>3, <1>7, <1>8, <1>9

-----------------------------------------------------------------------------
(* The receive thread stays in step with the stream.                       *)
SealedMessages == {Sealed(content) : content \in Contents}
SentTexts == {Text(content) : content \in Contents}

\* What a connection can still cost: something left over, in front of its first frame, and
\* the end of a frame that is lost when it breaks.
Pending(l, md, c) ==
  IF l = "down" THEN (IF md = << >> THEN 0 ELSE 1)
                ELSE (IF c > 0 THEN 1 ELSE 0) + (IF l = "up" THEN 0 ELSE 1)

\* The frames begin at starts, c symbols are left over from an earlier connection, and for
\* every wrong message there was a break.
InStep(starts, c) ==
  /\ Streamed(starts, said, got, inbound)
  /\ link = "up" => Len(got) + Len(inbound) = starts[Len(said) + 1]
  /\ Cut(starts, c, said, got, pushed, msgdata, carried)
  /\ Wrong(accepted, SealedMessages) + Wrong(m_messages_recv, SentTexts)
       + Pending(link, msgdata, c) <= breaks

ParserInv ==
  /\ link = "down" <=> rpc \in {"top", "connect"}
  /\ link = "down" => inbound = << >>
  /\ rpc # "parse" => NoEnd(msgdata)
  /\ \E starts, c : InStep(starts, c)

LEMMA StreamTyped == RecvTypes => StreamTypes(said, got, inbound, pushed, msgdata)
BY DEF RecvTypes, StreamTypes

LEMMA NothingDropped ==
  ASSUME msgdata \in Seq(Symbol), msgdata = << >> \/ msgdata[1] = Colon
  PROVE  FromStart = msgdata
<1>1. PICK start : start = find_full_string(msgdata, start_c)
  OBVIOUS
<1>2. /\ start \in 0..Len(msgdata) /\ Len(msgdata) \in Nat
      /\ start = 0 => \A i \in 1..Len(msgdata) : msgdata[i] # Colon
      /\ start # 0 => msgdata[start] = Colon /\ \A i \in 1..(start - 1) : msgdata[i] # Colon
  <2>1. Len(msgdata) \in Nat
    OBVIOUS
  <2> QED
    BY ONLY <1>1, <2>1, msgdata \in Seq(Symbol), StartFound
<1>3. CASE msgdata = << >>
  <2>1. start = 0
    BY <1>2, <1>3
  <2> QED
    BY <1>1, <1>3, <2>1 DEF FromStart
<1>4. CASE msgdata # << >>
  <2>1. Len(msgdata) > 0 /\ msgdata[1] = Colon
    BY <1>2, <1>4, EmptySeq
  <2>2. start # 0
    <3>1. 1 \in 1..Len(msgdata)
      BY <1>2, <2>1
    <3> QED
      BY <1>2, <2>1, <3>1
  <2>3. start = 1
    <3>1. start # 1 => 1 \in 1..(start - 1)
      BY <1>2, <2>2
    <3> QED
      BY <1>2, <2>1, <2>2, <3>1
  <2>4. FromStart = SubSeq(msgdata, 1, Len(msgdata))
    BY <1>1, <2>2, <2>3 DEF FromStart
  <2>5. PICK u : u = SubSeq(msgdata, 1, Len(msgdata))
    OBVIOUS
  <2>6. /\ u \in Seq(Symbol) /\ Len(u) = Len(msgdata) - 1 + 1
        /\ \A i \in 1..(Len(msgdata) - 1 + 1) : u[i] = msgdata[1 + i - 1]
    <3>1. 1 \in Nat /\ Len(msgdata) \in Nat /\ 1 > 0 /\ 1 <= Len(msgdata) + 1
          /\ Len(msgdata) <= Len(msgdata)
      BY <1>2
    <3> QED
      BY ONLY <2>5, <3>1, msgdata \in Seq(Symbol), PieceIs
  <2>7. Len(u) = Len(msgdata) /\ \A i \in 1..Len(u) : u[i] = msgdata[i]
    <3>1. Len(msgdata) - 1 + 1 = Len(msgdata) /\ \A i \in 1..Len(msgdata) : 1 + i - 1 = i
      BY <1>2
    <3> QED
      BY <2>6, <3>1
  <2>8. u = msgdata
    BY ONLY <2>6, <2>7, msgdata \in Seq(Symbol), SeqEqual
  <2> QED
    BY <2>4, <2>5, <2>8
<1> QED
  BY <1>3, <1>4

\* A new connection: nothing was said yet, and all of msgdata is left over.
LEMMA StreamBegins ==
  ASSUME NEW md \in Seq(Symbol), NoEnd(md), md = << >> \/ md[1] = Colon,
         NEW car, md # << >> => car, NEW c, c = Len(md)
  PROVE  \E starts : /\ Streamed(starts, << >>, << >>, << >>)
                     /\ Cut(starts, c, << >>, << >>, << >>, md, car)
                     /\ Len(<< >>) + Len(<< >>) = starts[Len(<< >>) + 1]
<1>1. PICK none : none = << >>
  OBVIOUS
<1>2. Len(none) = 0 /\ c \in Nat /\ c = Len(md)
  BY <1>1
<1>3. PICK starts : starts = [i \in 1..(0 + 1) |-> 0]
  OBVIOUS
<1>4. starts \in [1..(Len(none) + 1) -> Nat] /\ starts[1] = 0 /\ starts[Len(none) + 1] = 0
  <2>1. 1 \in 1..(0 + 1) /\ 0 + 1 = 1
    OBVIOUS
  <2> QED
    BY <1>2, <1>3, <2>1
<1>5. \A i : i \notin 1..Len(none)
  BY <1>2
<1>6. Starts(starts, none)
  <2>1. \A i, j \in 1..(Len(none) + 1) : ~(i < j)
    BY <1>2
  <2> QED
    BY <1>4, <1>5, <2>1 DEF Starts
<1>7. Streamed(starts, none, none, none)
  <2>1. Len(none) + Len(none) <= starts[Len(none) + 1]
    BY <1>2, <1>4
  <2> QED
    BY <1>5, <1>6, <2>1 DEF Streamed, Placed
<1>8. Cut(starts, c, none, none, none, md, car)
  <2>1. Len(none) <= Len(none) /\ starts[Len(none) + 1] <= Len(none)
        /\ Len(md) = c + Len(none) - starts[Len(none) + 1]
        /\ \A k : k \notin 1..(Len(none) - starts[Len(none) + 1])
    BY <1>2, <1>4
  <2>2. c > 0 => car /\ Len(none) = 0 /\ md[1] = Colon
    BY <1>2
  <2>3. \A k \in 1..c : md[k] # LF
    BY <1>2 DEF NoEnd
  <2> QED
    BY ONLY <1>2, <1>5, <2>1, <2>2, <2>3 DEF Cut
<1>9. Len(none) + Len(none) = starts[Len(none) + 1]
  BY <1>2, <1>4
<1> QED
  BY <1>1, <1>7, <1>8, <1>9

LEMMA ParserInit == Init => ParserInv
<1> SUFFICES ASSUME Init PROVE ParserInv
  OBVIOUS
<1>1. /\ rpc = "top" /\ link = "down" /\ breaks = 0 /\ carried = FALSE
      /\ msgdata = << >> /\ inbound = << >> /\ got = << >> /\ m_messages_recv = << >>
      /\ pushed = << >> /\ accepted = << >> /\ said = << >>
  BY DEF Init
<1>2. msgdata \in Seq(Symbol) /\ Len(msgdata) = 0
  BY <1>1, EmptySeq
<1>3. NoEnd(msgdata)
  BY <1>2 DEF NoEnd
<1>4. PICK starts : /\ Streamed(starts, << >>, << >>, << >>)
                    /\ Cut(starts, 0, << >>, << >>, << >>, msgdata, carried)
                    /\ Len(<< >>) + Len(<< >>) = starts[Len(<< >>) + 1]
  BY <1>1, <1>2, <1>3, StreamBegins
<1>5. Wrong(accepted, SealedMessages) = 0 /\ Wrong(m_messages_recv, SentTexts) = 0
  BY <1>1, WrongOfNone
<1>6. Pending(link, msgdata, 0) = 0
  BY <1>1 DEF Pending
<1>7. InStep(starts, 0)
  BY <1>1, <1>4, <1>5, <1>6 DEF InStep
<1> QED
  BY <1>1, <1>3, <1>7 DEF ParserInv

LEMMA WrongCounts ==
  ASSUME RecvTypes
  PROVE  /\ Wrong(accepted, SealedMessages) \in Nat /\ Wrong(m_messages_recv, SentTexts) \in Nat
         /\ breaks \in Nat
<1>1. accepted \in Seq(Seq(Byte)) /\ m_messages_recv \in Seq(Seq(Symbol))
  BY DEF RecvTypes
<1>2. breaks \in Nat
  BY ClientAssumption DEF ClientAssumption, RecvTypes
<1> QED
  BY <1>1, <1>2, WrongIsNat

\* Steps that leave the stream alone.
LEMMA QuietKeepsStep ==
  ASSUME ParserInv,
         UNCHANGED <<link, inbound, msgdata, said, got, pushed, carried, accepted,
                     m_messages_recv, breaks>>,
         link = "down" <=> rpc' \in {"top", "connect"}, rpc' # "parse" => rpc # "parse"
  PROVE  ParserInv'
<1>1. PICK starts, c : InStep(starts, c)
  BY DEF ParserInv
<1>2. InStep(starts, c)'
  BY <1>1 DEF InStep
<1>3. \E s, d : InStep(s, d)'
  BY <1>2
<1>4. rpc' # "parse" => NoEnd(msgdata')
  BY DEF ParserInv
<1>5. (link' = "down" <=> rpc' \in {"top", "connect"}) /\ (link' = "down" => inbound' = << >>)
  BY DEF ParserInv
<1> QED
  BY <1>3, <1>4, <1>5 DEF ParserInv

LEMMA ConnectKeepsStep ==
  ASSUME RecvTypes, ParserInv, Connect
  PROVE  ParserInv'
<1>1. /\ rpc = "connect" /\ link' = "up" /\ rpc' = "connected"
      /\ said' = << >> /\ got' = << >> /\ pushed' = << >> /\ carried' = (msgdata # << >>)
      /\ UNCHANGED <<msgdata, inbound, accepted, m_messages_recv, breaks>>
  BY DEF Connect, program
<1>2. link = "down" /\ inbound = << >> /\ NoEnd(msgdata)
  BY <1>1 DEF ParserInv
<1>3. PICK starts0, c0 : InStep(starts0, c0)
  BY DEF ParserInv
<1>4. msgdata = << >> \/ msgdata[1] = Colon
  BY <1>3, StreamTyped, CutBegins DEF InStep
<1>5. PICK c : c = Len(msgdata)
  OBVIOUS
<1>6. msgdata \in Seq(Symbol) /\ c \in Nat /\ (c > 0 <=> msgdata # << >>)
  BY <1>5, EmptySeq DEF RecvTypes
<1>7. PICK starts : /\ Streamed(starts, << >>, << >>, << >>)
                    /\ Cut(starts, c, << >>, << >>, << >>, msgdata, carried')
                    /\ Len(<< >>) + Len(<< >>) = starts[Len(<< >>) + 1]
  <2>1. msgdata # << >> => carried'
    BY <1>1
  <2> QED
    BY ONLY <1>2, <1>4, <1>5, <1>6, <2>1, StreamBegins
<1>8. Pending(link', msgdata', c) = Pending(link, msgdata, c0)
  BY <1>1, <1>2, <1>6 DEF Pending
<1>9. InStep(starts, c)'
  <2>1. Streamed(starts, said, got, inbound)'
    BY <1>1, <1>2, <1>7
  <2>2. Cut(starts, c, said, got, pushed, msgdata, carried)'
    BY <1>1, <1>7
  <2>3. Len(got') + Len(inbound') = starts[Len(said') + 1]
    BY <1>1, <1>2, <1>7
  <2>4. Wrong(accepted', SealedMessages) + Wrong(m_messages_recv', SentTexts)
          + Pending(link', msgdata', c) <= breaks'
    BY <1>1, <1>3, <1>8 DEF InStep
  <2> QED
    BY <2>1, <2>2, <2>3, <2>4 DEF InStep
<1>10. \E s, d : InStep(s, d)'
  BY <1>9
<1>11. NoEnd(msgdata')
  BY <1>1, <1>2
<1> QED
  BY <1>1, <1>10, <1>11 DEF ParserInv

LEMMA ReceiveKeepsStep ==
  ASSUME RecvTypes, ParserInv, Receive
  PROVE  ParserInv'
<1>1. PICK k \in 1..Len(inbound) :
        /\ msgdata' = msgdata \o SubSeq(inbound, 1, k)
        /\ inbound' = SubSeq(inbound, k + 1, Len(inbound))
        /\ got' = got \o SubSeq(inbound, 1, k)
  BY DEF Receive
<1>2. /\ rpc = "receive" /\ rpc' = "parse"
      /\ UNCHANGED <<link, said, pushed, carried, accepted, m_messages_recv, breaks>>
  BY DEF Receive, program
<1>3. link # "down"
  BY <1>2 DEF ParserInv
<1>4. PICK starts, c : InStep(starts, c)
  BY DEF ParserInv
<1>6. /\ Streamed(starts, said, got', inbound') /\ Cut(starts, c, said, got', pushed, msgdata', carried)
      /\ Len(got') + Len(inbound') = Len(got) + Len(inbound)
  <2>1. /\ StreamTypes(said, got, inbound, pushed, msgdata)
        /\ Streamed(starts, said, got, inbound)
        /\ Cut(starts, c, said, got, pushed, msgdata, carried)
    BY <1>4, StreamTyped DEF InStep
  <2>2. k \in 1..Len(inbound)
    OBVIOUS
  <2>3. AfterReceive(starts, c, said, got, inbound, pushed, msgdata, carried, k)
    BY ONLY <2>1, <2>2, StreamReceives
  <2> QED
    BY <1>1, <2>3 DEF AfterReceive
<1>7. Pending(link', msgdata', c) = Pending(link, msgdata, c)
  BY <1>2, <1>3 DEF Pending
<1>8. InStep(starts, c)'
  BY <1>2, <1>4, <1>6, <1>7 DEF InStep
<1>9. \E s, d : InStep(s, d)'
  BY <1>8
<1> QED
  BY <1>2, <1>3, <1>9 DEF ParserInv

LEMMA ParseRestKeepsStep ==
  ASSUME RecvTypes, ParserInv, ParseRest
  PROVE  ParserInv'
<1>1. /\ rpc = "parse" /\ EndOfFrame = 0 /\ msgdata' = FromStart /\ rpc' = "receive"
      /\ UNCHANGED <<link, inbound, said, got, pushed, carried, accepted, m_messages_recv, breaks>>
  BY DEF ParseRest, program, network, history
<1>2. PICK starts, c : InStep(starts, c)
  BY DEF ParserInv
<1>3. msgdata = << >> \/ msgdata[1] = Colon
  BY <1>2, StreamTyped, CutBegins DEF InStep
<1>4. FromStart = msgdata
  BY <1>3, NothingDropped DEF RecvTypes
<1>5. NoEnd(msgdata)
  <2>1. 0 = find_full_string(msgdata, end_c)
    BY <1>1, <1>4 DEF EndOfFrame
  <2> QED
    BY <1>2, <2>1, StreamTyped, EndIs DEF InStep
<1>6. InStep(starts, c)'
  BY <1>1, <1>2, <1>4 DEF InStep
<1>7. \E s, d : InStep(s, d)'
  BY <1>6
<1>8. NoEnd(msgdata') /\ link # "down"
  BY <1>1, <1>4, <1>5 DEF ParserInv
<1> QED
  BY <1>1, <1>7, <1>8 DEF ParserInv

LEMMA ParseMessageKeepsStep ==
  ASSUME RecvTypes, ParserInv, ParseMessage
  PROVE  ParserInv'
<1>1. PICK starts, c : InStep(starts, c)
  BY DEF ParserInv
<1>2. /\ StreamTypes(said, got, inbound, pushed, msgdata)
      /\ Streamed(starts, said, got, inbound)
      /\ Cut(starts, c, said, got, pushed, msgdata, carried)
  BY <1>1, StreamTyped DEF InStep
<1>3. msgdata = << >> \/ msgdata[1] = Colon
  BY <1>2, CutBegins
<1>4. FromStart = msgdata
  BY <1>3, NothingDropped DEF RecvTypes
<1>5. PICK e : e = find_full_string(msgdata, end_c)
  OBVIOUS
<1>6. PICK text, rest : text = SubSeq(msgdata, 2, e - 1) /\ rest = SubSeq(msgdata, e + 2, Len(msgdata))
  OBVIOUS
<1>7. Len(start_c) = 1 /\ Len(end_c) = 2 /\ EndOfFrame = e
  BY <1>4, <1>5 DEF start_c, end_c, EndOfFrame
<1>8. /\ rpc = "parse" /\ e # 0
      /\ m_messages_recv' = Append(m_messages_recv, text) /\ pushed' = Append(pushed, text)
      /\ msgdata' = rest /\ rpc' = (IF rest = << >> THEN "receive" ELSE "parse")
      /\ UNCHANGED <<link, inbound, said, got, carried, accepted, breaks>>
  <2>1. SubSeq(FromStart, Len(start_c) + 1, EndOfFrame - 1) = text
    BY <1>4, <1>6, <1>7
  <2>2. SubSeq(FromStart, EndOfFrame + Len(end_c), Len(FromStart)) = rest
    BY <1>4, <1>6, <1>7
  <2> QED
    BY <1>7, <2>1, <2>2 DEF ParseMessage, program, network
<1>9. AfterParse(starts, c, said, got, pushed, msgdata, carried, e)
  BY ONLY <1>2, <1>5, <1>8, CutNext
<1>10. Cut(starts, 0, said, got, pushed', rest, carried) /\ (c = 0 => text \in SentTexts)
  BY <1>6, <1>8, <1>9 DEF AfterParse, SentTexts
<1>11. link # "down"
  BY <1>8 DEF ParserInv
<1>12. text \in Seq(Symbol)
  <2>1. msgdata \in Seq(Symbol) /\ Len(msgdata) \in Nat
    BY DEF RecvTypes
  <2>2. e \in 1..(Len(msgdata) - 1)
    BY ONLY <1>5, <1>8, <2>1, EndFound
  <2>3. 2 \in Nat /\ e - 1 \in Nat /\ 2 > 0 /\ 2 <= (e - 1) + 1 /\ e - 1 <= Len(msgdata)
    <3>1. e # 1
      <4>1. msgdata # << >> /\ msgdata[1] = Colon
        BY <1>3, <2>1, <2>2
      <4>2. e \in Nat /\ msgdata[e] = CR
        BY ONLY <1>5, <1>8, <2>1, <2>2, EndFound
      <4> QED
        BY <4>1, <4>2, Markers
    <3> QED
      BY <2>1, <2>2, <3>1
  <2> QED
    BY ONLY <1>6, <2>1, <2>3, PieceIs
<1>13. Wrong(m_messages_recv', SentTexts) + Pending(link', msgdata', 0)
         <= Wrong(m_messages_recv, SentTexts) + Pending(link, msgdata, c)
  <2>1. PICK w, w2 : w = Wrong(m_messages_recv, SentTexts) /\ w2 = Wrong(m_messages_recv', SentTexts)
    OBVIOUS
  <2>2. w \in Nat /\ w2 \in Nat /\ w2 <= w + 1 /\ (c = 0 => w2 = w)
    <3>1. m_messages_recv \in Seq(Seq(Symbol))
      BY DEF RecvTypes
    <3> QED
      BY <1>8, <1>10, <1>12, <2>1, <3>1, WrongCounts, WrongOfAppend
  <2>3. PICK p : p = IF link = "up" THEN 0 ELSE 1
    OBVIOUS
  <2>4. /\ Pending(link', msgdata', 0) = p /\ p \in Nat /\ c \in Nat
        /\ Pending(link, msgdata, c) = (IF c > 0 THEN 1 ELSE 0) + p
    BY <1>2, <1>8, <1>11, <2>3 DEF Pending, Cut
  <2> QED
    BY <2>1, <2>2, <2>4
<1>14. InStep(starts, 0)'
  <2>1. PICK a, w, w2, x, x2 :
          /\ a = Wrong(accepted, SealedMessages)
          /\ w = Wrong(m_messages_recv, SentTexts) /\ w2 = Wrong(m_messages_recv', SentTexts)
          /\ x = Pending(link, msgdata, c) /\ x2 = Pending(link', msgdata', 0)
    OBVIOUS
  <2>2. Wrong(accepted', SealedMessages) + Wrong(m_messages_recv', SentTexts)
          + Pending(link', msgdata', 0) <= breaks'
    <3>1. a \in Nat /\ w \in Nat /\ w2 \in Nat /\ x \in Nat /\ x2 \in Nat /\ breaks \in Nat
      <4>1. a \in Nat /\ w \in Nat /\ breaks \in Nat
        BY <2>1, WrongCounts
      <4>2. w2 \in Nat
        <5>1. m_messages_recv \in Seq(Seq(Symbol))
          BY DEF RecvTypes
        <5> QED
          BY <1>8, <1>12, <2>1, <5>1, WrongOfAppend
      <4>3. x \in Nat /\ x2 \in Nat
        BY <2>1 DEF Pending
      <4> QED
        BY <4>1, <4>2, <4>3
    <3>2. a + w + x <= breaks
      BY <1>1, <2>1 DEF InStep
    <3>3. w2 + x2 <= w + x
      BY <1>13, <2>1
    <3>4. a + w2 + x2 <= breaks
      BY ONLY <3>1, <3>2, <3>3
    <3> QED
      BY <1>8, <2>1, <3>4
  <2> QED
    BY <1>1, <1>8, <1>10, <2>2 DEF InStep
<1>15. \E s, d : InStep(s, d)'
  BY <1>14
<1>16. rpc' # "parse" => NoEnd(msgdata')
  BY <1>8, EmptySeq DEF NoEnd
<1> QED
  BY <1>8, <1>11, <1>15, <1>16 DEF ParserInv

LEMMA CloseKeepsStep ==
  ASSUME RecvTypes, ParserInv, Close
  PROVE  ParserInv'
<1>1. /\ rpc = "close" /\ link' = "down" /\ inbound' = << >> /\ rpc' = "top"
      /\ UNCHANGED <<msgdata, said, got, pushed, carried, accepted, m_messages_recv, breaks>>
  BY DEF Close, program, history
<1>2. PICK starts, c : InStep(starts, c)
  BY DEF ParserInv
<1>3. link = "dying" /\ NoEnd(msgdata)
  BY <1>1 DEF RecvTypes, ParserInv
<1>4. Streamed(starts, said, got, inbound')
  <2>1. inbound \in Seq(Symbol) /\ StreamTypes(said, got, inbound, pushed, msgdata)
    BY StreamTyped DEF RecvTypes
  <2>2. 0 \in 0..Len(inbound) /\ << >> = SubSeq(inbound, 1, 0)
    BY <2>1
  <2>3. Streamed(starts, said, got, inbound)
    BY <1>2 DEF InStep
  <2>4. Streamed(starts, said, got, << >>)
    BY ONLY <2>1, <2>2, <2>3, StreamShortens
  <2> QED
    BY <1>1, <2>4
<1>5. InStep(starts, c)'
  <2>1. PICK a, w, x, x2 : /\ a = Wrong(accepted, SealedMessages)
                           /\ w = Wrong(m_messages_recv, SentTexts)
                           /\ x = Pending(link, msgdata, c) /\ x2 = Pending(link', msgdata', c)
    OBVIOUS
  <2>2. a \in Nat /\ w \in Nat /\ breaks \in Nat
    BY <2>1, WrongCounts
  <2>3. x \in Nat /\ x2 \in Nat /\ x2 <= x
    BY <1>1, <1>3, <2>1 DEF Pending
  <2>4. a + w + x <= breaks
    BY <1>2, <2>1 DEF InStep
  <2>5. a + w + x2 <= breaks
    BY ONLY <2>2, <2>3, <2>4
  <2>6. Wrong(accepted', SealedMessages) + Wrong(m_messages_recv', SentTexts)
          + Pending(link', msgdata', c) <= breaks'
    BY <1>1, <2>1, <2>5
  <2> QED
    BY <1>1, <1>2, <1>4, <2>6 DEF InStep
<1>6. \E s, d : InStep(s, d)'
  BY <1>5
<1> QED
  BY <1>1, <1>3, <1>6 DEF ParserInv

\* A message that is accepted but was not sent was cut out wrong.
LEMMA RightTextRightMessage ==
  ASSUME NEW text \in SentTexts
  PROVE  decode_data_hex(text) \in SealedMessages
<1>1. PICK content \in Contents : text = Text(content)
  BY DEF SentTexts
<1>2. content \in Seq(Byte)
  BY ClientAssumption DEF ClientAssumption
<1>3. Sealed(content) \in Seq(Byte)
  BY <1>2, SealedIs
<1>4. decode_data_hex(text) = Sealed(content)
  BY <1>1, <1>3, DecodedIsEncoded DEF Text
<1> QED
  BY <1>4 DEF SealedMessages

LEMMA TakeKeepsStep ==
  ASSUME RecvTypes, ParserInv, TakeMessage
  PROVE  ParserInv'
<1>1. PICK text, message : text = Head(m_messages_recv) /\ message = decode_data_hex(text)
  OBVIOUS
<1>2. /\ m_messages_recv # << >> /\ m_messages_recv' = Tail(m_messages_recv)
      /\ accepted' = accepted \/ accepted' = Append(accepted, message)
      /\ UNCHANGED <<rpc, link, inbound, msgdata, said, got, pushed, carried, breaks>>
  <2>1. accepted' = Checked(text)
    BY <1>1 DEF TakeMessage
  <2> QED
    BY <1>1, <2>1 DEF TakeMessage, Checked, receiver, network, history
<1>3. PICK starts, c : InStep(starts, c)
  BY DEF ParserInv
<1>4. m_messages_recv \in Seq(Seq(Symbol)) /\ accepted \in Seq(Seq(Byte))
  BY DEF RecvTypes
<1>5. text \in Seq(Symbol) /\ message \in Seq(Byte)
  <2>1. text \in Seq(Symbol)
    BY <1>1, <1>2, <1>4
  <2> QED
    BY <1>1, <2>1, DecodedIsBytes
<1>6. PICK a, a2, w, w2, x : /\ a = Wrong(accepted, SealedMessages)
                             /\ a2 = Wrong(accepted', SealedMessages)
                             /\ w = Wrong(m_messages_recv, SentTexts)
                             /\ w2 = Wrong(m_messages_recv', SentTexts)
                             /\ x = Pending(link, msgdata, c)
  OBVIOUS
<1>7. a \in Nat /\ w \in Nat /\ breaks \in Nat /\ x \in Nat
  <2>1. x \in Nat
    BY <1>6 DEF Pending
  <2> QED
    BY <1>6, <2>1, WrongCounts
<1>8. w2 \in Nat /\ w2 <= w /\ (text \notin SentTexts => w = w2 + 1)
  BY <1>1, <1>2, <1>4, <1>6, WrongOfTail
<1>9. a2 \in Nat /\ a2 <= a + 1 /\ (message \in SealedMessages => a2 = a)
  <2>1. CASE accepted' = accepted
    BY <1>6, <1>7, <2>1
  <2>2. CASE accepted' = Append(accepted, message)
    BY <1>4, <1>5, <1>6, <2>2, WrongOfAppend
  <2> QED
    BY <1>2, <2>1, <2>2
<1>10. a2 + w2 <= a + w
  <2>1. CASE text \in SentTexts
    <3>1. message \in SealedMessages
      BY <1>1, <2>1, RightTextRightMessage
    <3> QED
      BY <1>7, <1>8, <1>9, <3>1
  <2>2. CASE text \notin SentTexts
    BY <1>7, <1>8, <1>9, <2>2
  <2> QED
    BY <2>1, <2>2
<1>11. InStep(starts, c)'
  <2>1. a + w + x <= breaks
    BY <1>3, <1>6 DEF InStep
  <2>2. a2 + w2 + x <= breaks
    BY ONLY <1>7, <1>8, <1>9, <1>10, <2>1
  <2>3. Wrong(accepted', SealedMessages) + Wrong(m_messages_recv', SentTexts)
          + Pending(link', msgdata', c) <= breaks'
    BY <1>2, <1>6, <2>2
  <2> QED
    BY <1>2, <1>3, <2>3 DEF InStep
<1>12. \E s, d : InStep(s, d)'
  BY <1>11
<1> QED
  BY <1>2, <1>12 DEF ParserInv

LEMMA ServerSendsKeepsStep ==
  ASSUME RecvTypes, ParserInv, ServerSends
  PROVE  ParserInv'
<1>1. PICK content \in Contents : /\ said' = Append(said, content)
                                  /\ inbound' = inbound \o Frame(Text(content))
  BY DEF ServerSends
<1>2. /\ link = "up"
      /\ UNCHANGED <<rpc, link, msgdata, got, pushed, carried, accepted, m_messages_recv, breaks>>
  BY DEF ServerSends, receiver, program
<1>3. PICK starts, c : InStep(starts, c)
  BY DEF ParserInv
<1>4. /\ StreamTypes(said, got, inbound, pushed, msgdata)
      /\ Streamed(starts, said, got, inbound)
      /\ Cut(starts, c, said, got, pushed, msgdata, carried)
      /\ Len(got) + Len(inbound) = starts[Len(said) + 1]
  BY <1>2, <1>3, StreamTyped DEF InStep
<1>5. AfterSend(c, said, got, inbound, pushed, msgdata, carried, content)
  <2>1. content \in Contents
    OBVIOUS
  <2> QED
    BY ONLY <1>4, <2>1, StreamGrows
<1>6. PICK starts2 : /\ Streamed(starts2, said', got, inbound')
                     /\ Cut(starts2, c, said', got, pushed, msgdata, carried)
                     /\ Len(got) + Len(inbound') = starts2[Len(said') + 1]
  BY <1>1, <1>5 DEF AfterSend
<1>7. InStep(starts2, c)'
  BY <1>2, <1>3, <1>6 DEF InStep
<1>8. \E s, d : InStep(s, d)'
  BY <1>7
<1> QED
  BY <1>2, <1>8 DEF ParserInv

LEMMA BreakKeepsStep ==
  ASSUME RecvTypes, ParserInv, Break
  PROVE  ParserInv'
<1>1. PICK i \in 0..Len(inbound) : inbound' = SubSeq(inbound, 1, i)
  BY DEF Break
<1>2. /\ link = "up" /\ link' \in {"timeout", "dying"} /\ breaks' = breaks + 1
      /\ UNCHANGED <<rpc, msgdata, said, got, pushed, carried, accepted, m_messages_recv>>
  BY DEF Break, receiver, program, history
<1>3. PICK starts, c : InStep(starts, c)
  BY DEF ParserInv
<1>4. Streamed(starts, said, got, inbound')
  <2>1. StreamTypes(said, got, inbound, pushed, msgdata) /\ Streamed(starts, said, got, inbound)
    BY <1>3, StreamTyped DEF InStep
  <2>2. i \in 0..Len(inbound)
    OBVIOUS
  <2>3. Streamed(starts, said, got, SubSeq(inbound, 1, i))
    BY ONLY <2>1, <2>2, StreamShortens
  <2> QED
    BY <1>1, <2>3
<1>5. InStep(starts, c)'
  <2>1. PICK a, w, x, x2 : /\ a = Wrong(accepted, SealedMessages)
                           /\ w = Wrong(m_messages_recv, SentTexts)
                           /\ x = Pending(link, msgdata, c) /\ x2 = Pending(link', msgdata', c)
    OBVIOUS
  <2>2. a \in Nat /\ w \in Nat /\ breaks \in Nat
    BY <2>1, WrongCounts
  <2>3. x \in Nat /\ x2 = x + 1
    BY <1>2, <2>1 DEF Pending
  <2>4. a + w + x <= breaks
    BY <1>3, <2>1 DEF InStep
  <2>5. a + w + x2 <= breaks + 1
    BY ONLY <2>2, <2>3, <2>4
  <2>6. Wrong(accepted', SealedMessages) + Wrong(m_messages_recv', SentTexts)
          + Pending(link', msgdata', c) <= breaks'
    BY <1>2, <2>1, <2>5
  <2> QED
    BY <1>2, <1>3, <1>4, <2>6 DEF InStep
<1>6. \E s, d : InStep(s, d)'
  BY <1>5
<1> QED
  BY <1>2, <1>6 DEF ParserInv

LEMMA ReceiverKeepsStep ==
  ASSUME RecvTypes, ParserInv, ReceiveThread
  PROVE  ParserInv'
<1> USE DEF program, network, history
<1>1. CASE StartOver
  <2>1. /\ UNCHANGED <<link, inbound, msgdata, said, got, pushed, carried, accepted,
                       m_messages_recv, breaks>>
        /\ rpc = "top" /\ rpc' = "connect"
    BY <1>1 DEF StartOver
  <2> QED
    BY <2>1, QuietKeepsStep DEF ParserInv
<1>2. CASE Bind
  <2>1. /\ UNCHANGED <<link, inbound, msgdata, said, got, pushed, carried, accepted,
                       m_messages_recv, breaks>>
        /\ rpc = "top" /\ rpc' = "connect"
    BY <1>2 DEF Bind
  <2> QED
    BY <2>1, QuietKeepsStep DEF ParserInv
<1>3. CASE BindFails
  <2>1. /\ UNCHANGED <<link, inbound, msgdata, said, got, pushed, carried, accepted,
                       m_messages_recv, breaks>>
        /\ rpc' = rpc
    BY <1>3 DEF BindFails, receiver
  <2> QED
    BY <2>1, QuietKeepsStep DEF ParserInv
<1>4. CASE Connect
  BY <1>4, ConnectKeepsStep
<1>5. CASE ConnectFails
  <2>1. /\ UNCHANGED <<link, inbound, msgdata, said, got, pushed, carried, accepted,
                       m_messages_recv, breaks>>
        /\ rpc = "connect" /\ rpc' = "top"
    BY <1>5 DEF ConnectFails
  <2> QED
    BY <2>1, QuietKeepsStep DEF ParserInv
<1>6. CASE SetConnected
  <2>1. /\ UNCHANGED <<link, inbound, msgdata, said, got, pushed, carried, accepted,
                       m_messages_recv, breaks>>
        /\ rpc = "connected" /\ rpc' = "receive"
    BY <1>6 DEF SetConnected
  <2> QED
    BY <2>1, QuietKeepsStep DEF ParserInv
<1>7. CASE Receive
  BY <1>7, ReceiveKeepsStep
<1>8. CASE ReceiveTimesOut
  <2>1. /\ rpc' = rpc /\ link = "timeout" /\ link' = "dying"
        /\ UNCHANGED <<inbound, msgdata, said, got, pushed, carried, accepted,
                       m_messages_recv, breaks>>
    BY <1>8 DEF ReceiveTimesOut
  <2>2. PICK starts, c : InStep(starts, c)
    BY DEF ParserInv
  <2>3. Pending(link', msgdata', c) = Pending(link, msgdata, c)
    BY <2>1 DEF Pending
  <2>4. InStep(starts, c)'
    BY <2>1, <2>2, <2>3 DEF InStep
  <2>5. \E s, d : InStep(s, d)'
    BY <2>4
  <2> QED
    BY <2>1, <2>5 DEF ParserInv
<1>9. CASE ReceiveFails
  <2>1. /\ UNCHANGED <<link, inbound, msgdata, said, got, pushed, carried, accepted,
                       m_messages_recv, breaks>>
        /\ rpc = "receive" /\ rpc' \in {"receive", "close"}
    BY <1>9 DEF ReceiveFails
  <2> QED
    BY <2>1, QuietKeepsStep DEF ParserInv
<1>10. CASE ParseMessage
  BY <1>10, ParseMessageKeepsStep
<1>11. CASE ParseRest
  BY <1>11, ParseRestKeepsStep
<1>12. CASE Close
  BY <1>12, CloseKeepsStep
<1> QED
  BY ONLY <1>1, <1>2, <1>3, <1>4, <1>5, <1>6, <1>7, <1>8, <1>9, <1>10, <1>11, <1>12, ReceiveThread
  DEF ReceiveThread

LEMMA ParserNext == RecvTypes /\ ParserInv /\ [Next]_vars => ParserInv'
<1> SUFFICES ASSUME RecvTypes, ParserInv, [Next]_vars PROVE ParserInv'
  OBVIOUS
<1>1. CASE ReceiveThread
  BY <1>1, ReceiverKeepsStep
<1>2. CASE TakeMessage
  BY <1>2, TakeKeepsStep
<1>3. CASE ServerSends
  BY <1>3, ServerSendsKeepsStep
<1>4. CASE Break
  BY <1>4, BreakKeepsStep
<1>5. CASE SendThread \/ OfferReply \/ PushReply \/ ServerHears \/ UNCHANGED vars
  <2>1. UNCHANGED <<rpc, link, inbound, msgdata, said, got, pushed, carried, accepted,
                    m_messages_recv, breaks>>
    <3> USE DEF receiver, program, network, history
    <3>1. CASE CheckConnected
      BY <3>1 DEF CheckConnected
    <3>2. CASE Acquire
      BY <3>2 DEF Acquire
    <3>3. CASE Send
      BY <3>3 DEF Send
    <3>4. CASE SendFails
      BY <3>4 DEF SendFails
    <3>5. CASE OfferReply
      BY <3>5 DEF OfferReply
    <3>6. CASE PushReply
      BY <3>6 DEF PushReply
    <3>7. CASE ServerHears
      BY <3>7 DEF ServerHears
    <3>8. CASE UNCHANGED vars
      BY <3>8 DEF vars
    <3> QED
      BY ONLY <1>5, <3>1, <3>2, <3>3, <3>4, <3>5, <3>6, <3>7, <3>8 DEF SendThread
  <2> QED
    BY <2>1, QuietKeepsStep DEF ParserInv
<1> QED
  BY <1>1, <1>2, <1>3, <1>4, <1>5 DEF Next, Program, Network

\* Where the frames of the passed on messages end are all the ends that arrived.
LEMMA EndsArrived ==
  ASSUME RecvTypes, ParserInv, rpc = "receive", NEW starts, NEW c, InStep(starts, c)
  PROVE  /\ Ends = {starts[i + 1] : i \in 1..Len(pushed)}
         /\ Len(pushed) <= Len(said) /\ starts[Len(pushed) + 1] <= Len(got)
<1>1. PICK q, base : q = Len(pushed) /\ base = starts[q + 1]
  OBVIOUS
<1>2. /\ StreamTypes(said, got, inbound, pushed, msgdata)
      /\ Streamed(starts, said, got, inbound)
      /\ Cut(starts, c, said, got, pushed, msgdata, carried)
  BY StreamTyped DEF InStep
<1>3. /\ said \in Seq(Contents) /\ got \in Seq(Symbol)
      /\ q \in Nat /\ Len(said) \in Nat /\ Len(got) \in Nat /\ Len(inbound) \in Nat
      /\ Len(msgdata) \in Nat /\ DOMAIN got = 1..Len(got)
  BY <1>1, <1>2 DEF StreamTypes
<1>4. /\ starts \in [1..(Len(said) + 1) -> Nat] /\ starts[1] = 0
      /\ \A i, j \in 1..(Len(said) + 1) : i < j => starts[i] < starts[j]
  BY <1>2 DEF Streamed, Starts
<1>5. /\ q <= Len(said) /\ base <= Len(got) /\ c \in Nat /\ Len(msgdata) = c + Len(got) - base
      /\ \A k \in 1..(Len(got) - base) : msgdata[c + k] = got[base + k]
  BY <1>1, <1>2 DEF Cut
<1>6. base \in Nat
  <2>1. q + 1 \in 1..(Len(said) + 1)
    BY <1>3, <1>5
  <2> QED
    BY <1>1, <1>4, <2>1
<1>7. ASSUME NEW k \in 1..Len(got)
      PROVE  got[k] = LF <=> \E i \in 1..Len(said) : k = starts[i + 1]
  <2>1. Starts(starts, said) /\ Placed(starts, said, got, 0)
    BY <1>2 DEF Streamed
  <2>2. Len(got) <= starts[Len(said) + 1]
    <3>1. Len(got) + Len(inbound) <= starts[Len(said) + 1]
      BY <1>2 DEF Streamed
    <3>2. Len(said) + 1 \in 1..(Len(said) + 1)
      BY <1>3
    <3>3. starts[Len(said) + 1] \in Nat
      BY <1>4, <3>2
    <3> QED
      BY <1>3, <3>1, <3>3
  <2> QED
    BY <1>3, <2>1, <2>2, EndsOfFrames
<1>8. ASSUME NEW k \in Ends PROVE \E i \in 1..q : k = starts[i + 1]
  <2>1. k \in 1..Len(got) /\ got[k] = LF
    BY <1>3 DEF Ends
  <2>2. PICK i \in 1..Len(said) : k = starts[i + 1]
    BY <1>7, <2>1
  <2>3. k <= base
    <3>1. SUFFICES ASSUME ~(k <= base) PROVE FALSE
      OBVIOUS
    <3>2. PICK m : m = k - base
      OBVIOUS
    <3>3. m \in 1..(Len(got) - base) /\ base + m = k /\ c + m \in 1..Len(msgdata)
      BY ONLY <1>3, <1>5, <1>6, <2>1, <3>1, <3>2
    <3>4. msgdata[c + m] = LF
      BY <1>5, <2>1, <3>3
    <3>5. NoEnd(msgdata)
      BY DEF ParserInv
    <3> QED
      BY <3>3, <3>4, <3>5 DEF NoEnd
  <2>4. i + 1 \in 1..(Len(said) + 1) /\ q + 1 \in 1..(Len(said) + 1)
    BY <1>3, <1>5
  <2>5. ~(q + 1 < i + 1)
    <3>1. q + 1 < i + 1 => base < k
      BY <1>1, <1>4, <2>2, <2>4
    <3> QED
      BY <1>6, <2>1, <2>3, <3>1
  <2>6. i \in 1..q
    BY <1>3, <2>5
  <2> QED
    BY <2>2, <2>6
<1>9. ASSUME NEW i \in 1..q PROVE starts[i + 1] \in Ends
  <2>1. i \in 1..Len(said) /\ i + 1 \in 1..(Len(said) + 1) /\ 1 \in 1..(Len(said) + 1)
        /\ q + 1 \in 1..(Len(said) + 1) /\ 1 < i + 1 /\ (i + 1 = q + 1 \/ i + 1 < q + 1)
    BY <1>3, <1>5
  <2>2. starts[i + 1] \in Nat /\ starts[i + 1] > 0 /\ starts[i + 1] <= base
    <3>1. starts[i + 1] \in Nat /\ starts[1] < starts[i + 1]
      BY <1>4, <2>1
    <3>2. i + 1 < q + 1 => starts[i + 1] < base
      BY <1>1, <1>4, <2>1
    <3>3. i + 1 = q + 1 => starts[i + 1] = base
      BY <1>1
    <3> QED
      BY <1>4, <1>6, <2>1, <3>1, <3>2, <3>3
  <2>3. starts[i + 1] \in 1..Len(got)
    BY <1>3, <1>5, <1>6, <2>2
  <2>4. got[starts[i + 1]] = LF
    BY <1>7, <2>1, <2>3
  <2> QED
    BY <1>3, <2>3, <2>4 DEF Ends
<1>10. Ends = {starts[i + 1] : i \in 1..q}
  BY <1>8, <1>9
<1>11. q <= Len(said)
  BY <1>3, <1>5
<1> QED
  BY <1>1, <1>5, <1>10, <1>11

\* The ends of the first q frames, and what is said of them: each begins behind the other.
EndPlaces(starts, q) == {starts[i + 1] : i \in 1..q}
Rising(starts, n) ==
  /\ starts \in [1..(n + 1) -> Nat] /\ starts[1] = 0
  /\ \A i, j \in 1..(n + 1) : i < j => starts[i] < starts[j]

\* There are as many of them as messages, and the last one is the end of the last frame.
LEMMA EndsCounted ==
  ASSUME NEW n \in Nat, NEW q \in Nat, q <= n, NEW starts, Rising(starts, n)
  PROVE  /\ Cardinality(EndPlaces(starts, q)) = q
         /\ Max({0} \cup EndPlaces(starts, q)) = starts[q + 1]
<1>0. /\ starts \in [1..(n + 1) -> Nat] /\ starts[1] = 0
      /\ \A i, j \in 1..(n + 1) : i < j => starts[i] < starts[j]
  BY DEF Rising
<1>0a. PICK E : E = {starts[i + 1] : i \in 1..q}
  OBVIOUS
<1> DEFINE f == [i \in 1..q |-> starts[i + 1]]
<1>1. ASSUME NEW i \in 1..q
      PROVE  /\ i + 1 \in 1..(n + 1) /\ q + 1 \in 1..(n + 1) /\ 1 \in 1..(n + 1)
             /\ starts[i + 1] \in Nat /\ starts[q + 1] \in Nat
             /\ 0 < starts[i + 1] /\ starts[i + 1] <= starts[q + 1]
  <2>1. /\ i + 1 \in 1..(n + 1) /\ q + 1 \in 1..(n + 1) /\ 1 \in 1..(n + 1) /\ 1 < i + 1
        /\ (i + 1 = q + 1 \/ i + 1 < q + 1)
    OBVIOUS
  <2>2. starts[i + 1] \in Nat /\ starts[q + 1] \in Nat /\ starts[1] < starts[i + 1]
    BY <1>0, <2>1
  <2>3. i + 1 < q + 1 => starts[i + 1] < starts[q + 1]
    BY <1>0, <2>1
  <2>4. i + 1 = q + 1 => starts[i + 1] = starts[q + 1]
    OBVIOUS
  <2> QED
    BY <1>0, <2>1, <2>2, <2>3, <2>4
<1>2. f \in Bijection(1..q, E)
  <2>1. f \in [1..q -> E]
    BY <1>0a
  <2>2. \A i, j \in 1..q : f[i] = f[j] => i = j
    <3>1. ASSUME NEW i \in 1..q, NEW j \in 1..q, f[i] = f[j] PROVE i = j
      <4>1. i + 1 \in 1..(n + 1) /\ j + 1 \in 1..(n + 1) /\ starts[i + 1] = starts[j + 1]
            /\ starts[i + 1] \in Nat
        BY <1>1, <3>1
      <4>2. ~(i + 1 < j + 1) /\ ~(j + 1 < i + 1)
        <5>1. i + 1 < j + 1 => starts[i + 1] < starts[j + 1]
          BY <1>0, <4>1
        <5>2. j + 1 < i + 1 => starts[j + 1] < starts[i + 1]
          BY <1>0, <4>1
        <5> QED
          BY <4>1, <5>1, <5>2
      <4> QED
        BY <4>2
    <3> QED
      BY <3>1
  <2>3. \A y \in E : \E i \in 1..q : f[i] = y
    BY <1>0a
  <2> HIDE DEF f
  <2> QED
    BY ONLY <2>1, <2>2, <2>3 DEF Bijection, Injection, Surjection, IsInjective
<1>3. Cardinality(E) = q
  <2>1. ExistsBijection(1..q, E)
    BY <1>2 DEF ExistsBijection
  <2>2. IsFiniteSet(1..q) /\ Cardinality(1..q) = q
    <3>1. 1 \in Int /\ q \in Int
      OBVIOUS
    <3>2. Cardinality(1..q) = IF 1 > q THEN 0 ELSE q - 1 + 1
      BY ONLY <3>1, FS_Interval
    <3> QED
      BY <3>1, <3>2, FS_Interval
  <2> QED
    BY ONLY <2>1, <2>2, FS_Bijection
<1>4. starts[q + 1] \in {0} \cup E
  <2>1. q = 0 \/ q \in 1..q
    OBVIOUS
  <2>2. q = 0 => q + 1 = 1
    OBVIOUS
  <2> QED
    BY <1>0, <1>0a, <2>1, <2>2
<1>5. starts[q + 1] \in Nat
  <2>1. q + 1 \in 1..(n + 1)
    OBVIOUS
  <2> QED
    BY <1>0, <2>1
<1>6. \A y \in {0} \cup E : y \in Nat /\ y <= starts[q + 1]
  BY <1>0a, <1>1, <1>5
<1>7. Max({0} \cup E) = starts[q + 1]
  <2>1. PICK T, m : T = {0} \cup E /\ m = starts[q + 1]
    OBVIOUS
  <2>2. m \in T /\ m \in Nat /\ \A y \in T : y \in Nat /\ y <= m
    BY <1>4, <1>5, <1>6, <2>1
  <2>3. PICK x : x = Max(T)
    OBVIOUS
  <2>4. x \in T /\ \A y \in T : x >= y
    <3>1. m >= m /\ \A y \in T : m >= y
      BY ONLY <2>2
    <3>2. \E z \in T : \A y \in T : z >= y
      BY ONLY <2>2, <3>1
    <3> QED
      BY ONLY <2>3, <3>2 DEF Max
  <2>5. x = m
    BY ONLY <2>2, <2>4
  <2> QED
    BY <2>1, <2>3, <2>5
<1> QED
  BY <1>0a, <1>3, <1>7 DEF EndPlaces

\* What is left over is what arrived of the next message.
LEMMA RestIsUnfinished ==
  ASSUME NEW g \in Seq(Symbol), NEW md \in Seq(Symbol), NEW base \in Nat, base <= Len(g),
         Len(md) = 0 + Len(g) - base, \A k \in 1..(Len(g) - base) : md[0 + k] = g[base + k]
  PROVE  md = SubSeq(g, base + 1, Len(g))
<1>1. PICK u, n : u = SubSeq(g, base + 1, Len(g)) /\ n = Len(g)
  OBVIOUS
<1>2. n \in Nat /\ base <= n /\ Len(md) = n - base /\ base + 1 \in Nat
      /\ base + 1 > 0 /\ base + 1 <= n + 1 /\ n <= Len(g)
  BY <1>1
<1>3. /\ u \in Seq(Symbol) /\ Len(u) = n - (base + 1) + 1
      /\ \A i \in 1..(n - (base + 1) + 1) : u[i] = g[(base + 1) + i - 1]
  BY ONLY <1>1, <1>2, g \in Seq(Symbol), PieceIs
<1>4. n - (base + 1) + 1 = n - base
  BY <1>2
<1>5. ASSUME NEW i \in 1..(n - base) PROVE u[i] = md[i]
  <2>1. (base + 1) + i - 1 = base + i /\ 0 + i = i
    BY <1>2
  <2> QED
    BY <1>1, <1>3, <1>4, <2>1
<1>6. Len(u) = Len(md) /\ \A i \in 1..Len(u) : u[i] = md[i]
  BY <1>2, <1>3, <1>4, <1>5
<1>7. u = md
  BY ONLY <1>3, <1>6, md \in Seq(Symbol), SeqEqual
<1> QED
  BY <1>1, <1>7

LEMMA InStepParses == RecvTypes /\ ParserInv => ParsedAsSent
<1> SUFFICES ASSUME RecvTypes, ParserInv, rpc = "receive"
             PROVE  /\ Len(pushed) = Arrived
                    /\ \A i \in 1..Arrived : pushed[i] = Text(said[i]) \/ (i = 1 /\ carried)
                    /\ ~carried \/ Arrived > 0 => msgdata = Unfinished
  BY DEF ParsedAsSent
<1>1. PICK starts, c : InStep(starts, c)
  BY DEF ParserInv
<1>2. PICK q, n, base : q = Len(pushed) /\ n = Len(said) /\ base = starts[q + 1]
  OBVIOUS
<1>3. Ends = {starts[i + 1] : i \in 1..q} /\ q <= n /\ base <= Len(got)
  BY <1>1, <1>2, EndsArrived
<1>4. /\ got \in Seq(Symbol) /\ msgdata \in Seq(Symbol) /\ q \in Nat /\ n \in Nat
  BY <1>2 DEF RecvTypes
<1>5. /\ starts \in [1..(n + 1) -> Nat] /\ starts[1] = 0
      /\ \A i, j \in 1..(n + 1) : i < j => starts[i] < starts[j]
  BY <1>1, <1>2 DEF InStep, Streamed, Starts
<1>6. Arrived = q /\ Max({0} \cup Ends) = base
  <2>1. Ends = EndPlaces(starts, q) /\ q <= n /\ Rising(starts, n)
    BY <1>3, <1>5 DEF EndPlaces, Rising
  <2>2. n \in Nat /\ q \in Nat
    BY <1>4
  <2>3. Cardinality(Ends) = q /\ Max({0} \cup Ends) = starts[q + 1]
    BY ONLY <2>1, <2>2, EndsCounted
  <2> QED
    BY <1>2, <2>3 DEF Arrived
<1>7. /\ c \in Nat /\ Len(msgdata) = c + Len(got) - base
      /\ \A k \in 1..(Len(got) - base) : msgdata[c + k] = got[base + k]
      /\ c > 0 => carried /\ q = 0
      /\ \A i \in 1..q : pushed[i] = Text(said[i]) \/ (i = 1 /\ carried)
  BY <1>1, <1>2 DEF InStep, Cut
<1>8. ASSUME ~carried \/ q > 0 PROVE msgdata = Unfinished
  <2>1. c = 0
    BY <1>4, <1>7, <1>8
  <2>2. base \in Nat
    <3>1. q + 1 \in 1..(n + 1)
      BY <1>3, <1>4
    <3> QED
      BY <1>2, <1>5, <3>1
  <2>3. /\ Len(msgdata) = 0 + Len(got) - base
        /\ \A k \in 1..(Len(got) - base) : msgdata[0 + k] = got[base + k]
    BY <1>7, <2>1
  <2>4. msgdata = SubSeq(got, base + 1, Len(got))
    BY ONLY <1>3, <1>4, <2>2, <2>3, RestIsUnfinished
  <2> QED
    BY <1>6, <2>4 DEF Unfinished
<1> QED
  BY <1>2, <1>6, <1>7, <1>8

LEMMA InStepCounts == RecvTypes /\ ParserInv => OneWrongPerBreak
<1> SUFFICES ASSUME RecvTypes, ParserInv
             PROVE  Cardinality({i \in DOMAIN accepted : ~WasSent(accepted[i])}) <= breaks
  BY DEF OneWrongPerBreak
<1>1. PICK starts, c : InStep(starts, c)
  BY DEF ParserInv
<1>2. {i \in DOMAIN accepted : ~WasSent(accepted[i])} = Outside(accepted, SealedMessages)
  BY DEF WasSent, Outside, SealedMessages
<1>3. PICK a, w, x : /\ a = Wrong(accepted, SealedMessages)
                     /\ w = Wrong(m_messages_recv, SentTexts)
                     /\ x = Pending(link, msgdata, c)
  OBVIOUS
<1>4. a \in Nat /\ w \in Nat /\ breaks \in Nat
  BY <1>3, WrongCounts
<1>5. x \in Nat /\ a + w + x <= breaks
  BY <1>1, <1>3 DEF InStep, Pending
<1>6. a <= breaks
  BY ONLY <1>4, <1>5
<1> QED
  BY <1>2, <1>3, <1>6 DEF Wrong

LEMMA ParserInvariant == Spec => [](RecvTypes /\ ParserInv)
<1>1. Init => ParserInv
  BY ParserInit
<1>2. ClientInv /\ ParserInv /\ [Next]_vars => ParserInv'
  BY ParserNext DEF ClientInv
<1>3. ClientInv => RecvTypes
  BY DEF ClientInv
<1> QED
  BY <1>1, <1>2, <1>3, ClientInvariant, PTL DEF Spec

\* However Receive cuts the stream (RecvTcpData of client_process_recv), the messages passed
\* on are those that arrived completely, and msgdata is what arrived of the next one; only
\* the first message of a connection can be damaged, by what an earlier one left in msgdata.
THEOREM StreamIsParsed == Spec => []ParsedAsSent
BY InStepParses, ParserInvariant, PTL

\* For every message that was accepted and never sent there was a break of its own: a
\* beginning left in msgdata spoils one message, and the parser is in step again behind it.
THEOREM BreaksCostOne == Spec => []OneWrongPerBreak
BY InStepCounts, ParserInvariant, PTL
=============================================================================
