------------------------------ MODULE MPFComm -------------------------------
(***************************************************************************)
(* How the phase-1 program receives requests: FSock puts what arrives into *)
(* a ring of bytes, a timer callback (TCPClientTask) takes it out, gives   *)
(* it byte by byte to MPFCommuication::AnalyseOneByte, which puts complete *)
(* messages into a second ring, and then takes one message out of that.    *)
(*                                                                         *)
(* The frames are those of MessageCodec; a byte is a symbol here, and two  *)
(* digits are a byte of a message.                                         *)
(***************************************************************************)
EXTENDS MessageCodec, FiniteSets

CONSTANTS
  Contents,              \* what the image server sends: messages without checksum, in order
  Addresses,             \* MPF_MSG_ADDR_IADM, MPF_MSG_ADDR_OCR
  Kinds,                 \* MPF_MSG_IMG2OCR_REQUEST, MPF_MSG_IMG2OCR_FUNC
  RECEIVE_BUFFER_LEN,    \* the ring of bytes
  RawLength,             \* the most bytes one callback takes out of it
  IADM_MES_MAX_LEN,      \* the buffer of the message that is being received
  IADM_REV_BUF_ROW,      \* the ring of messages
  Chunks,                \* bound: how many symbols may arrive at once
  MaxBreaks              \* bound: broken connections

ASSUME CommAssumption ==
  /\ Addresses \subseteq Byte /\ Kinds \subseteq Byte
  /\ Contents \in Seq(Seq(Byte))
  /\ \A i \in DOMAIN Contents :
       /\ Len(Contents[i]) \in 2..(IADM_MES_MAX_LEN - 1)
       /\ Contents[i][1] \in Addresses /\ Contents[i][2] \in Kinds
  /\ RECEIVE_BUFFER_LEN \in Nat \ {0}
  /\ RawLength \in Nat \ {0}
  /\ IADM_MES_MAX_LEN \in Nat \ {0, 1}
  /\ IADM_REV_BUF_ROW \in Nat \ {0, 1}
  /\ Chunks \subseteq Nat \ {0} /\ MaxBreaks \in Nat

VARIABLES
  wire,              \* symbols the image server wrote that did not arrive
  connected,         \* m_bClientSockState
  RecBuf, dwStartRec, dwEndRec,
  m_uchsRawData,     \* what is left of the bytes this callback took out
  pc,                \* the callback: "idle", "analyse", "take"
  m_bInRevFlag, m_dwRevCount, m_uchsRevMesNow,
  m_uchsRevMes, m_dwRRevP, m_dwRProcP,
  sent,              \* the messages sent, ...
  accepted,          \* ... put into the ring, ...
  taken,             \* ... and taken out of it
  dropped,           \* messages overwritten in the ring
  missed,            \* messages sent that broke off on the wire
  breaks

linkVars == <<wire, connected>>
sockVars == <<RecBuf, dwStartRec, dwEndRec>>
parserVars == <<m_bInRevFlag, m_dwRevCount, m_uchsRevMesNow>>
ringVars == <<m_uchsRevMes, m_dwRRevP, m_dwRProcP>>
history == <<sent, accepted, taken, dropped, missed, breaks>>
vars == <<linkVars, sockVars, m_uchsRawData, pc, parserVars, ringVars, history>>

Init ==
  /\ wire = << >>
  /\ connected = TRUE
  /\ RecBuf = [i \in 0..(RECEIVE_BUFFER_LEN - 1) |-> 0]
  /\ dwStartRec = 0 /\ dwEndRec = 0
  /\ m_uchsRawData = << >>
  /\ pc = "idle"
  /\ m_bInRevFlag = "START"
  /\ m_dwRevCount = 0
  /\ m_uchsRevMesNow = [i \in 0..(IADM_MES_MAX_LEN - 1) |-> 0]
  /\ m_uchsRevMes = [i \in 0..(IADM_REV_BUF_ROW - 1) |-> << >>]
  /\ m_dwRRevP = 0 /\ m_dwRProcP = 0
  /\ sent = << >> /\ accepted = << >> /\ taken = << >>
  /\ dropped = 0 /\ missed = 0 /\ breaks = 0

(***************************************************************************)
(* The image server and the connection                                     *)
(***************************************************************************)
SendRequest ==
  /\ connected
  /\ Len(sent) < Len(Contents)
  /\ LET content == Contents[Len(sent) + 1]
     IN /\ wire' = wire \o Frame(Text(content))
        /\ sent' = Append(sent, Sealed(content))
  /\ UNCHANGED <<connected, sockVars, m_uchsRawData, pc, parserVars, ringVars,
                 accepted, taken, dropped, missed, breaks>>

\* Symbols in the ring of bytes; OnReceive does not look at it.
Stored == IF dwEndRec < dwStartRec THEN RECEIVE_BUFFER_LEN + dwEndRec - dwStartRec
          ELSE dwEndRec - dwStartRec

\* FSock::OnReceive. Assumed: the ring is never overrun.
OnReceive(n) ==
  /\ connected
  /\ wire # << >>
  /\ Stored + n < RECEIVE_BUFFER_LEN
  /\ RecBuf' = [i \in DOMAIN RecBuf |->
                  LET k == (i - dwEndRec) % RECEIVE_BUFFER_LEN
                  IN IF k < n THEN wire[k + 1] ELSE RecBuf[i]]
  /\ dwEndRec' = (dwEndRec + n) % RECEIVE_BUFFER_LEN
  /\ wire' = SubSeq(wire, n + 1, Len(wire))
  /\ UNCHANGED <<connected, dwStartRec, m_uchsRawData, pc, parserVars, ringVars, history>>

\* ClientSocketonTimer finds the connection closed. What is on the wire is lost; both
\* rings and the parser stay as they are.
Disconnected ==
  /\ connected
  /\ breaks < MaxBreaks
  /\ connected' = FALSE
  /\ wire' = << >>
  /\ missed' = missed + Cardinality({i \in DOMAIN wire : wire[i] = LF})
  /\ breaks' = breaks + 1
  /\ UNCHANGED <<sockVars, m_uchsRawData, pc, parserVars, ringVars, sent, accepted,
                 taken, dropped>>

\* Mutant: a new connection starts with an empty ring of messages.
ConnectedClears ==
  /\ ~connected
  /\ connected' = TRUE
  /\ m_dwRRevP' = 0 /\ m_dwRProcP' = 0
  /\ UNCHANGED <<wire, sockVars, m_uchsRawData, pc, parserVars, m_uchsRevMes, history>>

Connected ==
  /\ ~connected
  /\ connected' = TRUE
  /\ UNCHANGED <<wire, sockVars, m_uchsRawData, pc, parserVars, ringVars, history>>

(***************************************************************************)
(* The callback                                                            *)
(***************************************************************************)
\* Mutant: the last symbol is left in the ring.
LeavesOne ==
  LET n == Min({Max({Stored - 1, 0}), RawLength})
  IN /\ pc = "idle"
     /\ connected
     /\ m_uchsRawData' = [i \in 1..n |-> RecBuf[(dwStartRec + i - 1) % RECEIVE_BUFFER_LEN]]
     /\ dwStartRec' = (dwStartRec + n) % RECEIVE_BUFFER_LEN
     /\ pc' = "analyse"
     /\ UNCHANGED <<linkVars, RecBuf, dwEndRec, parserVars, ringVars, history>>

\* FSock::GetReceivedData
GetReceivedData ==
  LET n == Min({Stored, RawLength})
  IN /\ pc = "idle"
     /\ connected
     /\ m_uchsRawData' = [i \in 1..n |-> RecBuf[(dwStartRec + i - 1) % RECEIVE_BUFFER_LEN]]
     /\ dwStartRec' = (dwStartRec + n) % RECEIVE_BUFFER_LEN
     /\ pc' = "analyse"
     /\ UNCHANGED <<linkVars, RecBuf, dwEndRec, parserVars, ringVars, history>>

\* The next symbol, which the loop over the raw data gives to AnalyseOneByte.
byteData == Head(m_uchsRawData)

NextByte ==
  /\ pc = "analyse"
  /\ m_uchsRawData # << >>
  /\ m_uchsRawData' = Tail(m_uchsRawData)
  /\ UNCHANGED <<linkVars, sockVars, pc, sent, taken, missed, breaks>>

NothingAccepted == UNCHANGED <<ringVars, accepted, dropped>>

\* Mutant: the length of the message before is not reset.
AwaitStartKeepsCount ==
  /\ m_bInRevFlag = "START"
  /\ m_bInRevFlag' = IF byteData = Colon THEN "CONT1" ELSE "START"
  /\ UNCHANGED <<m_dwRevCount, m_uchsRevMesNow>>
  /\ NothingAccepted

AwaitStart ==
  /\ m_bInRevFlag = "START"
  /\ m_bInRevFlag' = IF byteData = Colon THEN "CONT1" ELSE "START"
  /\ m_dwRevCount' = IF byteData = Colon THEN 0 ELSE m_dwRevCount
  /\ UNCHANGED m_uchsRevMesNow
  /\ NothingAccepted

HighDigit ==
  /\ m_bInRevFlag = "CONT1"
  /\ m_bInRevFlag' = IF byteData \in Digit THEN "CONT0"
                     ELSE IF byteData = CR THEN "END" ELSE "START"
  /\ m_uchsRevMesNow' = IF byteData \in Digit
                        THEN [m_uchsRevMesNow EXCEPT ![m_dwRevCount] = byteData * Base]
                        ELSE m_uchsRevMesNow
  /\ UNCHANGED m_dwRevCount
  /\ NothingAccepted

LowDigit ==
  /\ m_bInRevFlag = "CONT0"
  /\ IF byteData \in Digit
     THEN /\ m_uchsRevMesNow' = [m_uchsRevMesNow EXCEPT ![m_dwRevCount] = @ + byteData]
          /\ m_dwRevCount' = m_dwRevCount + 1
          /\ m_bInRevFlag' = "CONT1"
     ELSE /\ m_bInRevFlag' = "START"
          /\ UNCHANGED <<m_dwRevCount, m_uchsRevMesNow>>
  /\ NothingAccepted

\* The first m_dwRevCount bytes of m_uchsRevMesNow.
Received == [i \in 1..m_dwRevCount |-> m_uchsRevMesNow[i - 1]]

\* Mutant: messages to the other address are not for us.
OneAddress ==
  /\ m_uchsRevMesNow[0] = Min(Addresses)
  /\ m_uchsRevMesNow[1] \in Kinds
  /\ check_msg_validation(Received)

\* The test looks at the buffer, where bytes of an earlier message may be left over.
Valid ==
  /\ m_uchsRevMesNow[0] \in Addresses
  /\ m_uchsRevMesNow[1] \in Kinds
  /\ check_msg_validation(Received)

\* Mutant: the oldest message is overwritten, but still taken for unread.
PushOverOldest ==
  /\ m_uchsRevMes' = [m_uchsRevMes EXCEPT ![m_dwRRevP] = Received]
  /\ m_dwRRevP' = (m_dwRRevP + 1) % IADM_REV_BUF_ROW
  /\ UNCHANGED <<m_dwRProcP, dropped>>
  /\ accepted' = Append(accepted, Received)

\* PushBackOneMessage: an unread message that is in the way is given up.
PushBackOneMessage ==
  LET rev == (m_dwRRevP + 1) % IADM_REV_BUF_ROW
  IN /\ m_uchsRevMes' = [m_uchsRevMes EXCEPT ![m_dwRRevP] = Received]
     /\ m_dwRRevP' = rev
     /\ m_dwRProcP' = IF rev = m_dwRProcP THEN (m_dwRProcP + 1) % IADM_REV_BUF_ROW
                      ELSE m_dwRProcP
     /\ accepted' = Append(accepted, Received)
     /\ dropped' = IF rev = m_dwRProcP THEN dropped + 1 ELSE dropped

\* Mutant: the flag is not reset after a message.
StaysAtEnd ==
  /\ m_bInRevFlag = "END"
  /\ UNCHANGED <<m_bInRevFlag, m_dwRevCount, m_uchsRevMesNow>>
  /\ IF byteData = LF /\ Valid THEN PushBackOneMessage ELSE NothingAccepted

EndOfMessage ==
  /\ m_bInRevFlag = "END"
  /\ m_bInRevFlag' = "START"
  /\ UNCHANGED <<m_dwRevCount, m_uchsRevMesNow>>
  /\ IF byteData = LF /\ Valid THEN PushBackOneMessage ELSE NothingAccepted

AnalyseOneByte ==
  /\ NextByte
  /\ AwaitStart \/ HighDigit \/ LowDigit \/ EndOfMessage

\* The loop is over.
AllAnalysed ==
  /\ pc = "analyse"
  /\ m_uchsRawData = << >>
  /\ pc' = "take"
  /\ UNCHANGED <<linkVars, sockVars, m_uchsRawData, parserVars, ringVars, history>>

\* Mutant: the index does not go back to 0.
TakeWithoutWrap ==
  /\ pc = "take"
  /\ pc' = "idle"
  /\ IF m_dwRRevP = m_dwRProcP
     THEN UNCHANGED <<m_dwRProcP, taken>>
     ELSE /\ m_dwRProcP' = m_dwRProcP + 1
          /\ taken' = Append(taken, m_uchsRevMes[m_dwRProcP])
  /\ UNCHANGED <<linkVars, sockVars, m_uchsRawData, parserVars, m_uchsRevMes, m_dwRRevP,
                 sent, accepted, dropped, missed, breaks>>

\* GetOneMessage, whose result goes to ProcessOneRMes. One message for each callback.
GetOneMessage ==
  /\ pc = "take"
  /\ pc' = "idle"
  /\ IF m_dwRRevP = m_dwRProcP
     THEN UNCHANGED <<m_dwRProcP, taken>>
     ELSE /\ m_dwRProcP' = (m_dwRProcP + 1) % IADM_REV_BUF_ROW
          /\ taken' = Append(taken, m_uchsRevMes[m_dwRProcP])
  /\ UNCHANGED <<linkVars, sockVars, m_uchsRawData, parserVars, m_uchsRevMes, m_dwRRevP,
                 sent, accepted, dropped, missed, breaks>>

Callback == GetReceivedData \/ AnalyseOneByte \/ AllAnalysed \/ GetOneMessage

Next ==
  \/ SendRequest
  \/ \E n \in Chunks : OnReceive(Min({n, Len(wire)}))
  \/ Disconnected
  \/ Connected
  \/ Callback

Spec == Init /\ [][Next]_vars

\* The timer goes on, the window delivers what arrives, the connection is made again.
LiveSpec ==
  /\ Spec
  /\ WF_vars(Callback)
  /\ WF_vars(\E n \in Chunks : OnReceive(Min({n, Len(wire)})))
  /\ WF_vars(Connected)

(***************************************************************************)
(* Properties                                                              *)
(***************************************************************************)
RingIndex == 0..(IADM_REV_BUF_ROW - 1)

\* The rows of a ring from index p up to, but not including, index q, in their order.
Held(p, q) == IF p <= q THEN q - p ELSE IADM_REV_BUF_ROW + q - p

Row(p, i) == IF p + i - 1 < IADM_REV_BUF_ROW THEN p + i - 1 ELSE p + i - 1 - IADM_REV_BUF_ROW

Window(ring, p, q) == [i \in 1..Held(p, q) |-> ring[Row(p, i)]]

\* The unread messages, oldest first.
Unread == Window(m_uchsRevMes, m_dwRProcP, m_dwRRevP)

TypeOK ==
  /\ wire \in Seq(Symbol)
  /\ connected \in BOOLEAN
  /\ dwStartRec \in DOMAIN RecBuf /\ dwEndRec \in DOMAIN RecBuf
  /\ m_uchsRawData \in Seq(Symbol) /\ Len(m_uchsRawData) <= RawLength
  /\ pc \in {"idle", "analyse", "take"}
  /\ pc = "idle" => m_uchsRawData = << >>
  /\ m_bInRevFlag \in {"START", "CONT1", "CONT0", "END"}
  /\ m_dwRevCount \in Nat
  /\ \A i \in DOMAIN m_uchsRevMesNow : m_uchsRevMesNow[i] \in Byte
  /\ m_uchsRevMes \in [RingIndex -> Seq(Byte)]
  /\ m_dwRRevP \in RingIndex /\ m_dwRProcP \in RingIndex
  /\ dropped \in Nat /\ missed \in Nat /\ breaks \in 0..MaxBreaks

(* A byte of a message is never written behind the end of m_uchsRevMesNow, *)
(* and the unsigned m_dwRevCount - 1 of AnalyseOneByte never wraps: not    *)
(* even when a connection breaks inside a message and the parser starts    *)
(* the next connection in the middle of it.                                *)
LengthInBounds ==
  /\ m_bInRevFlag \in {"CONT1", "CONT0"} => m_dwRevCount <= IADM_MES_MAX_LEN
  /\ m_bInRevFlag = "CONT0" => m_dwRevCount < IADM_MES_MAX_LEN
  /\ m_bInRevFlag = "END" => m_dwRevCount \in 1..IADM_MES_MAX_LEN

(* What the parser accepts was sent, whole and in this order: never a      *)
(* message put together from the ends of two connections.                  *)
AcceptedWereSent ==
  \E place \in [DOMAIN accepted -> DOMAIN sent] :
    /\ \A i, j \in DOMAIN accepted : i < j => place[i] < place[j]
    /\ \A i \in DOMAIN accepted : accepted[i] = sent[place[i]]

\* The messages that end in symbols the parser did not see yet.
Ends(symbols) == Cardinality({i \in DOMAIN symbols : symbols[i] = LF})

InBuffer == [i \in 1..Stored |-> RecBuf[(dwStartRec + i - 1) % RECEIVE_BUFFER_LEN]]

(* A broken connection costs the messages on the wire and at most one      *)
(* more: the first of the next connection, whose start ends the message    *)
(* the parser was in.                                                      *)
OneSwallowedPerBreak ==
  Len(sent) - (Len(accepted) + missed + Ends(wire) + Ends(InBuffer) + Ends(m_uchsRawData))
    \in 0..breaks

(* Every message accepted is given to ProcessOneRMes or was given up for a *)
(* newer one, though a callback takes only one and may accept many.        *)
EveryMessageHandled ==
  \A n \in DOMAIN Contents : (Len(accepted) >= n) ~> (Len(taken) + dropped >= n)

(* In the end nothing that arrived waits, in neither ring.                 *)
RingsDrained == <>[](wire = << >> /\ InBuffer = << >> /\ Unread = << >>)

(* The ring of messages is a queue of its size less one.                   *)
Newest == INSTANCE NewestMessages WITH Capacity <- IADM_REV_BUF_ROW - 1, queue <- Unread

ImplementsNewest == Newest!Spec
=============================================================================
