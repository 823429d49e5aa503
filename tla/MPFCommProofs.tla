--------------------------- MODULE MPFCommProofs ---------------------------
(***************************************************************************)
(* MPFCommuication and its two rings, of any size and with any number of   *)
(* broken connections. First the ring of received messages: it is the      *)
(* queue NewestMessages of its size less one. Then the ring of bytes and   *)
(* the parser: what is on its way to the parser is made of pieces of the   *)
(* messages sent, in their order, and a piece that is not whole was cut by *)
(* a broken connection; the four invariants of MPFComm follow.             *)
(***************************************************************************)
EXTENDS MPFComm, MessageCodecProofs, TLAPS

\* The rows of the ring.
Rows == IADM_REV_BUF_ROW

\* The ring has at least two rows.
LEMMA RowsNat == Rows \in Nat /\ Rows > 1
  BY CommAssumption DEF CommAssumption, Rows

\* The index of the row after row p.
Following(p) == IF p + 1 = Rows THEN 0 ELSE p + 1

\* Stepping to the next row is counting modulo the rows.
LEMMA NextRow ==
  ASSUME NEW p \in RingIndex
  PROVE  (p + 1) % Rows = Following(p) /\ Following(p) \in RingIndex
  BY RowsNat DEF RingIndex, Rows, Following

(* Between two rows of the ring there are less rows than it has, and none  *)
(* of them is outside of it.                                               *)
LEMMA WindowRows ==
  ASSUME NEW p \in RingIndex, NEW q \in RingIndex
  PROVE  /\ Held(p, q) \in 0..(Rows - 1)
         /\ (Held(p, q) = 0) <=> (p = q)
         /\ \A i \in 1..Held(p, q) : Row(p, i) \in RingIndex /\ Row(p, i) # q
         /\ Row(p, 1) = p
  BY RowsNat DEF RingIndex, Rows, Held, Row

\* The rows from p to q, as a sequence.
LEMMA WindowIsSeq ==
  ASSUME NEW S, NEW ring \in [RingIndex -> S], NEW p \in RingIndex, NEW q \in RingIndex
  PROVE  /\ Window(ring, p, q) \in Seq(S)
         /\ Len(Window(ring, p, q)) = Held(p, q)
<1>1. /\ Held(p, q) \in Nat
      /\ \A i \in 1..Held(p, q) : Row(p, i) \in RingIndex
  BY WindowRows, RowsNat
<1>2. Window(ring, p, q) \in [1..Held(p, q) -> S]
  BY <1>1 DEF Window
<1> QED
  BY <1>1, <1>2 DEF Window

\* Its elements, in the order of the rows.
LEMMA WindowAt ==
  ASSUME NEW ring, NEW p, NEW q, NEW i \in 1..Held(p, q)
  PROVE  Window(ring, p, q)[i] = ring[Row(p, i)]
  BY DEF Window

(* Taking the row at p off the window leaves the window that starts one    *)
(* row later.                                                              *)
LEMMA TakeFirst ==
  ASSUME NEW S, NEW ring \in [RingIndex -> S], NEW p \in RingIndex, NEW q \in RingIndex,
         p # q, NEW n \in RingIndex, n = Following(p)
  PROVE  /\ Window(ring, p, q) # << >>
         /\ Head(Window(ring, p, q)) = ring[p]
         /\ Window(ring, n, q) = Tail(Window(ring, p, q))
<1> DEFINE w == Window(ring, p, q)
<1>1. n = IF p + 1 = Rows THEN 0 ELSE p + 1
  BY DEF Following
<1>2. /\ w \in Seq(S) /\ Len(w) = Held(p, q) /\ Held(p, q) \in 1..(Rows - 1)
      /\ Row(p, 1) = p
  <2>1. Held(p, q) \in 1..(Rows - 1) /\ Row(p, 1) = p
    BY WindowRows, RowsNat
  <2> QED
    BY <2>1, WindowIsSeq
<1>10. \A i \in 1..Held(p, q) : w[i] = ring[Row(p, i)]
  BY WindowAt
<1>3. /\ Window(ring, n, q) \in Seq(S)
      /\ Len(Window(ring, n, q)) = Held(n, q)
  BY WindowIsSeq
<1>11. \A i \in 1..Held(n, q) : Window(ring, n, q)[i] = ring[Row(n, i)]
  BY WindowAt
<1>4. Held(n, q) = Held(p, q) - 1
  BY <1>1, RowsNat DEF Held, RingIndex, Rows
<1>5. \A i \in 1..Held(n, q) : Row(n, i) = Row(p, i + 1)
  BY <1>1, <1>2, <1>4, RowsNat DEF Row, Held, RingIndex, Rows
<1>6. \A i \in 1..Held(n, q) : Window(ring, n, q)[i] = w[i + 1]
  BY <1>2, <1>10, <1>11, <1>4, <1>5, RowsNat
<1>7. Tail(w) \in Seq(S) /\ Len(Tail(w)) = Len(w) - 1
      /\ \A i \in 1..Len(Tail(w)) : Tail(w)[i] = w[i + 1]
  BY <1>2
<1>8. Window(ring, n, q) = Tail(w)
  BY <1>2, <1>3, <1>4, <1>6, <1>7, RowsNat
<1>9. w # << >> /\ Head(w) = ring[p]
  BY <1>2, <1>10, RowsNat
<1> QED
  BY <1>8, <1>9

\* The ring `new' is `ring' after a message m was put into row q.
Written(ring, new, q, m) == new[q] = m /\ \A k \in RingIndex \ {q} : new[k] = ring[k]

(* Writing the row at q, which is outside of the window, and moving q on   *)
(* appends what was written, as long as q does not meet p.                 *)
LEMMA WriteLast ==
  ASSUME NEW S, NEW ring \in [RingIndex -> S], NEW p \in RingIndex, NEW q \in RingIndex,
         NEW m \in S, NEW new \in [RingIndex -> S],
         Following(q) \in RingIndex, Following(q) # p
  PROVE  Written(ring, new, q, m)
           => Window(new, p, Following(q)) = Append(Window(ring, p, q), m)
<1> DEFINE w == Window(ring, p, q)
           n == Following(q)
<1>0. n \in RingIndex /\ n # p
  OBVIOUS
<1>1. n = IF q + 1 = Rows THEN 0 ELSE q + 1
  BY DEF Following
<1> HIDE DEF n
<1>3. w \in Seq(S) /\ Len(w) = Held(p, q)
  BY WindowIsSeq
<1>8. Window(new, p, n) \in Seq(S) /\ Len(Window(new, p, n)) = Held(p, n)
  BY <1>0, WindowIsSeq
<1>12. HAVE Written(ring, new, q, m)
<1>2. new[q] = m /\ \A k \in RingIndex \ {q} : new[k] = ring[k]
  BY <1>12 DEF Written
<1>10. \A i \in 1..Held(p, q) : w[i] = ring[Row(p, i)]
  BY WindowAt
<1>11. \A i \in 1..Held(p, n) : Window(new, p, n)[i] = new[Row(p, i)]
  BY WindowAt
<1>9. /\ Held(p, q) \in Nat
      /\ \A i \in 1..Held(p, q) : Row(p, i) \in RingIndex /\ Row(p, i) # q
  BY WindowRows, RowsNat
<1>4. Held(p, n) = Held(p, q) + 1
  BY <1>0, <1>1, RowsNat DEF Held, RingIndex, Rows
<1>5. \A i \in 1..Held(p, q) : Window(new, p, n)[i] = w[i]
  <2>1. ASSUME NEW i \in 1..Held(p, q)
        PROVE  Window(new, p, n)[i] = w[i]
    <3>1. i \in 1..Held(p, n)
      BY <1>4, <1>9
    <3>2. new[Row(p, i)] = ring[Row(p, i)]
      BY <1>2, <1>9
    <3> QED
      BY <1>10, <1>11, <3>1, <3>2
  <2> QED
    BY <2>1
<1>6. Window(new, p, n)[Held(p, n)] = m
  <2>1. Row(p, Held(p, n)) = q
    BY <1>0, <1>1, <1>4, RowsNat DEF Held, Row, RingIndex, Rows
  <2> QED
    BY <2>1, <1>2, <1>4, <1>9, <1>11
<1>7. Append(w, m) \in Seq(S) /\ Len(Append(w, m)) = Len(w) + 1
      /\ Append(w, m)[Len(w) + 1] = m
      /\ \A i \in 1..Len(w) : Append(w, m)[i] = w[i]
  BY <1>3
<1> QED
  BY <1>3, <1>4, <1>5, <1>6, <1>7, <1>8, <1>9 DEF n

(* The ring is full when one more row would make its ends meet.            *)
LEMMA FullRing ==
  ASSUME NEW p \in RingIndex, NEW q \in RingIndex
  PROVE  (Held(p, q) = Rows - 1) <=> (Following(q) = p)
  BY RowsNat DEF RingIndex, Rows, Held, Following

\* The next row is another one.
LEMMA FollowingMoves ==
  ASSUME NEW p \in RingIndex
  PROVE  Following(p) # p
  BY RowsNat DEF RingIndex, Rows, Following

(* What Push of the abstract queue says of a queue that got a message.     *)
LEMMA AppendIsPush ==
  ASSUME NEW S, NEW s \in Seq(S), NEW m \in S
  PROVE  /\ Append(s, m) # << >>
         /\ Append(s, m)[Len(Append(s, m))] = m
  OBVIOUS

(***************************************************************************)
(* The steps of MPFComm, seen from the ring.                               *)
(***************************************************************************)
RingTyped ==
  /\ m_dwRRevP \in RingIndex
  /\ m_dwRProcP \in RingIndex
  /\ m_uchsRevMes = [i \in RingIndex |-> m_uchsRevMes[i]]

\* Whatever is in the ring and is about to be put into it.
Contained == {m_uchsRevMes[i] : i \in RingIndex} \cup {Received}

\* A row holds what was put into it.
LEMMA RingContains == RingTyped => m_uchsRevMes \in [RingIndex -> Contained]
  BY DEF RingTyped, Contained

\* The empty ring is the empty abstract queue.
LEMMA InitImplements == Init => RingTyped /\ Newest!Init
<1> SUFFICES ASSUME Init PROVE RingTyped /\ Newest!Init
  OBVIOUS
<1>1. RingTyped
  BY RowsNat DEF Init, RingTyped, RingIndex, Rows
<1>2. Unread = << >>
  <2>1. Held(m_dwRProcP, m_dwRRevP) = 0
    BY RowsNat, <1>1, WindowRows DEF Init, RingTyped
  <2> QED
    BY <2>1 DEF Unread, Window
<1> QED
  BY <1>1, <1>2 DEF Init, Newest!Init

\* Steps that leave the ring alone.
LEMMA OtherStep ==
  ASSUME RingTyped, UNCHANGED <<ringVars, taken, dropped>>
  PROVE  RingTyped' /\ UNCHANGED <<Unread, taken, dropped>>
  BY DEF RingTyped, Unread, ringVars

\* Writing a message is Push: the oldest is dropped when the ring is full.
LEMMA PushStep ==
  ASSUME RingTyped, PushBackOneMessage, UNCHANGED taken
  PROVE  RingTyped' /\ Newest!Push
<1> DEFINE ring == m_uchsRevMes
           new == m_uchsRevMes'
           p == m_dwRProcP
           q == m_dwRRevP
           n == Following(q)
<1>1. /\ p \in RingIndex /\ q \in RingIndex /\ n \in RingIndex
      /\ ring \in [RingIndex -> Contained] /\ Received \in Contained
  BY RingContains, NextRow DEF RingTyped, Contained
<1>2. new = [ring EXCEPT ![q] = Received] /\ m_dwRRevP' = n
  BY <1>1, NextRow DEF PushBackOneMessage, Rows
<1>3. /\ new \in [RingIndex -> Contained]
      /\ Written(ring, new, q, Received)
  BY <1>1, <1>2 DEF Written
<1>4. Unread \in Seq(Contained) /\ Len(Unread) = Held(p, q)
  BY <1>1, WindowIsSeq DEF Unread
<1>7. ASSUME NEW g \in RingIndex, n # g
      PROVE  Window(new, g, n) = Append(Window(ring, g, q), Received)
  <2>1. /\ q \in RingIndex /\ n \in RingIndex /\ ring \in [RingIndex -> Contained]
        /\ Received \in Contained
    BY <1>1
  <2> QED
    BY <2>1, <1>3, <1>7, WriteLast
<1>5. CASE n # p
  <2>1. m_dwRProcP' = p /\ dropped' = dropped /\ taken' = taken
    BY <1>1, <1>2, <1>5, NextRow DEF PushBackOneMessage, Rows
  <2>2. Unread' = Append(Unread, Received)
    <3>1. Window(new, p, n) = Append(Window(ring, p, q), Received)
      BY <1>1, <1>5, <1>7
    <3> QED
      BY <3>1, <1>2, <2>1 DEF Unread
  <2>3. Len(Unread) # IADM_REV_BUF_ROW - 1
    BY <1>1, <1>4, <1>5, FullRing DEF Rows
  <2>4. Unread' # << >> /\ Unread'[Len(Unread')] = Received
    BY <2>2, <1>1, <1>4, AppendIsPush
  <2>5. RingTyped'
    BY <1>1, <1>2, <1>3, <2>1 DEF RingTyped
  <2> QED
    BY <2>1, <2>2, <2>3, <2>4, <2>5 DEF Newest!Push
<1>6. CASE n = p
  <2> DEFINE f == Following(p)
  <2>1. /\ m_dwRProcP' = f /\ dropped' = dropped + 1 /\ taken' = taken
        /\ f \in RingIndex
    BY <1>1, <1>2, <1>6, NextRow DEF PushBackOneMessage, Rows
  <2>2. p # q /\ n # f
    BY <1>1, <1>6, FollowingMoves
  <2>3. Window(ring, f, q) = Tail(Window(ring, p, q))
    BY <1>1, <2>1, <2>2, TakeFirst
  <2>4. Window(new, f, n) = Append(Window(ring, f, q), Received)
    BY <2>1, <2>2, <1>7
  <2>5. Unread' = Append(Tail(Unread), Received)
    BY <2>3, <2>4, <1>2, <2>1 DEF Unread
  <2>6. Len(Unread) = IADM_REV_BUF_ROW - 1
    BY <1>1, <1>4, <1>6, FullRing DEF Rows
  <2>7. Tail(Unread) \in Seq(Contained)
    BY <1>4, <2>6, RowsNat DEF Rows
  <2>8. Unread' # << >> /\ Unread'[Len(Unread')] = Received
    BY <2>5, <2>7, <1>1, AppendIsPush
  <2>9. RingTyped'
    BY <1>1, <1>2, <1>3, <2>1 DEF RingTyped
  <2> QED
    BY <2>1, <2>5, <2>6, <2>8, <2>9 DEF Newest!Push
<1> QED
  BY <1>5, <1>6

\* Taking a message is Take, or finds nothing.
LEMMA TakeStep ==
  ASSUME RingTyped, GetOneMessage
  PROVE  RingTyped' /\ (Newest!Take \/ UNCHANGED <<Unread, taken, dropped>>)
<1>1. CASE m_dwRRevP = m_dwRProcP
  <2>1. UNCHANGED <<ringVars, taken, dropped>>
    BY <1>1 DEF GetOneMessage, ringVars
  <2> QED
    BY <2>1, OtherStep
<1>2. CASE m_dwRRevP # m_dwRProcP
  <2> DEFINE p == m_dwRProcP
             q == m_dwRRevP
             n == Following(p)
  <2>1. /\ p \in RingIndex /\ q \in RingIndex /\ n \in RingIndex /\ p # q
        /\ m_uchsRevMes \in [RingIndex -> Contained]
    BY <1>2, RingContains, NextRow DEF RingTyped
  <2>2. /\ p' = n /\ taken' = Append(taken, m_uchsRevMes[p])
        /\ UNCHANGED <<m_uchsRevMes, m_dwRRevP, dropped>>
    BY <1>2, <2>1, NextRow DEF GetOneMessage, Rows
  <2>3. /\ Unread # << >> /\ Head(Unread) = m_uchsRevMes[p]
        /\ Window(m_uchsRevMes, n, q) = Tail(Unread)
    BY <2>1, TakeFirst DEF Unread
  <2>4. Unread' = Tail(Unread)
    BY <2>2, <2>3 DEF Unread
  <2>5. RingTyped'
    BY <2>1, <2>2 DEF RingTyped
  <2> QED
    BY <2>2, <2>3, <2>4, <2>5 DEF Newest!Take
<1> QED
  BY <1>1, <1>2

\* Every step is a step of the abstract queue, or leaves it alone.
LEMMA StepImplements ==
  ASSUME RingTyped, [Next]_vars
  PROVE  RingTyped' /\ [Newest!Next]_(Newest!vars)
<1>1. ASSUME UNCHANGED <<ringVars, taken, dropped>>
      PROVE  RingTyped' /\ [Newest!Next]_(Newest!vars)
  BY <1>1, OtherStep DEF Newest!vars
<1>2. CASE SendRequest
  BY <1>2, <1>1 DEF SendRequest
<1>3. CASE \E n \in Chunks : OnReceive(Min({n, Len(wire)}))
  BY <1>3, <1>1 DEF OnReceive, history
<1>4. CASE Disconnected \/ Connected
  BY <1>4, <1>1 DEF Disconnected, Connected, history
<1>5. CASE GetReceivedData \/ AllAnalysed
  BY <1>5, <1>1 DEF GetReceivedData, AllAnalysed, history
<1>6. CASE AnalyseOneByte
  <2>1. UNCHANGED taken
    BY <1>6 DEF AnalyseOneByte, NextByte
  <2>2. CASE NothingAccepted
    BY <1>1, <2>1, <2>2 DEF NothingAccepted
  <2>3. CASE PushBackOneMessage
    BY <2>1, <2>3, PushStep DEF Newest!Next
  <2>4. NothingAccepted \/ PushBackOneMessage
    BY <1>6 DEF AnalyseOneByte, AwaitStart, HighDigit, LowDigit, EndOfMessage
  <2> QED
    BY <2>2, <2>3, <2>4
<1>7. CASE GetOneMessage
  BY <1>7, TakeStep DEF Newest!Next, Newest!vars
<1>8. CASE UNCHANGED vars
  BY <1>8, <1>1 DEF vars, history
<1> QED
  BY <1>2, <1>3, <1>4, <1>5, <1>6, <1>7, <1>8 DEF Next, Callback

(* For every ring size, the messages that wait in the ring are the newest  *)
(* ones that were accepted and not yet taken, in their order: none is      *)
(* taken twice, and one is given up only when the ring is full.            *)
THEOREM RingImplementsNewest == Spec => ImplementsNewest
<1>1. Init => RingTyped /\ Newest!Init
  BY InitImplements
<1>2. RingTyped /\ [Next]_vars => RingTyped' /\ [Newest!Next]_(Newest!vars)
  BY StepImplements
<1> QED
  BY <1>1, <1>2, PTL DEF Spec, ImplementsNewest, Newest!Spec

-----------------------------------------------------------------------------
(* The symbols of the messages.                                            *)

\* Message m as it is checked, its number of bytes, and its symbols.
Bytes(m) == Sealed(Contents[m])
Size(m) == Len(Contents[m]) + 1
Coded(m) == Frame(Text(Contents[m]))

\* A message fits into the buffer, and its symbols are those of a frame.
LEMMA CodedIs ==
  ASSUME NEW m \in DOMAIN Contents
  PROVE  /\ Size(m) \in 3..IADM_MES_MAX_LEN /\ Size(m) \in Nat
         /\ Bytes(m) \in Seq(Byte) /\ Len(Bytes(m)) = Size(m)
         /\ Coded(m) \in Seq(Symbol) /\ Len(Coded(m)) = 2 * Size(m) + 3
         /\ Coded(m)[1] = Colon
         /\ Coded(m)[2 * Size(m) + 2] = CR /\ Coded(m)[2 * Size(m) + 3] = LF
         /\ \A i \in 1..Size(m) : /\ Coded(m)[2 * i] = Bytes(m)[i] \div Base
                                  /\ Coded(m)[2 * i + 1] = Bytes(m)[i] % Base
                                  /\ Coded(m)[2 * i] \in Digit /\ Coded(m)[2 * i + 1] \in Digit
<1>1. Contents[m] \in Seq(Byte) /\ Len(Contents[m]) \in 2..(IADM_MES_MAX_LEN - 1)
      /\ IADM_MES_MAX_LEN \in Nat
  BY CommAssumption DEF CommAssumption
<1>2. Size(m) \in 3..IADM_MES_MAX_LEN /\ Size(m) \in Nat
  BY <1>1 DEF Size
<1>3. Bytes(m) \in Seq(Byte) /\ Len(Bytes(m)) = Size(m)
  BY <1>1, SealedIs DEF Bytes, Size
<1>4. PICK c, n, f : /\ c = Contents[m] /\ n = Size(m) /\ f = Coded(m)
                     /\ c \in Seq(Byte) /\ n = Len(c) + 1 /\ f = Frame(Text(c))
                     /\ Bytes(m) = Sealed(c)
  BY <1>1 DEF Coded, Size, Bytes
<1>5. /\ f \in Seq(Symbol) /\ Len(f) = 2 * n + 3
      /\ f[1] = Colon /\ f[2 * n + 2] = CR /\ f[2 * n + 3] = LF
      /\ \A i \in 1..n : /\ f[2 * i] = Sealed(c)[i] \div Base
                        /\ f[2 * i + 1] = Sealed(c)[i] % Base
                        /\ f[2 * i] \in Digit /\ f[2 * i + 1] \in Digit
  BY <1>4, FrameIs
<1> QED
  BY <1>2, <1>3, <1>4, <1>5

\* Each marker is at its place only.
LEMMA MarkerPlaces ==
  ASSUME NEW m \in DOMAIN Contents, NEW o \in 1..(2 * Size(m) + 3)
  PROVE  /\ Coded(m)[o] = Colon <=> o = 1
         /\ Coded(m)[o] = CR <=> o = 2 * Size(m) + 2
         /\ Coded(m)[o] = LF <=> o = 2 * Size(m) + 3
         /\ Coded(m)[o] \in Digit <=> o \in 2..(2 * Size(m) + 1)
<1>1. Size(m) \in Nat
  BY CodedIs
<1>2. CASE o \in 2..(2 * Size(m) + 1)
  <2>1. PICK i \in 1..Size(m) : o = 2 * i \/ o = 2 * i + 1
    <3>1. o \div 2 \in 1..Size(m) /\ (o = 2 * (o \div 2) \/ o = 2 * (o \div 2) + 1)
      BY <1>1, <1>2
    <3> QED
      BY <3>1
  <2>2. Coded(m)[o] \in Digit
    BY <2>1, CodedIs
  <2> QED
    BY <1>1, <1>2, <2>2, Markers
<1>3. CASE o = 1
  BY <1>1, <1>3, CodedIs, Markers
<1>4. CASE o = 2 * Size(m) + 2
  BY <1>1, <1>4, CodedIs, Markers
<1>5. CASE o = 2 * Size(m) + 3
  BY <1>1, <1>5, CodedIs, Markers
<1>6. o \in 2..(2 * Size(m) + 1) \/ o = 1 \/ o = 2 * Size(m) + 2 \/ o = 2 * Size(m) + 3
  BY <1>1
<1> QED
  BY <1>2, <1>3, <1>4, <1>5, <1>6

\* Both digits of a byte give the byte.
LEMMA ByteRead ==
  ASSUME NEW m \in DOMAIN Contents, NEW i \in 1..Size(m)
  PROVE  /\ Coded(m)[2 * i] * Base \in Byte
         /\ Coded(m)[2 * i] * Base + Coded(m)[2 * i + 1] = Bytes(m)[i]
         /\ Bytes(m)[i] \in Byte
<1>1. Bytes(m)[i] \in Byte
  BY CodedIs
<1>2. Coded(m)[2 * i] = Bytes(m)[i] \div Base /\ Coded(m)[2 * i + 1] = Bytes(m)[i] % Base
  BY CodedIs
<1>3. 0 \in Digit
  BY BaseAssumption DEF Digit
<1> QED
  BY <1>1, <1>2, <1>3, TwoDigits, ByteOfDigits

-----------------------------------------------------------------------------
(* The symbols on their way to the parser.                                 *)

\* What the parser will be given.
Stream == (m_uchsRawData \o InBuffer) \o wire

SockTypes ==
  /\ RecBuf \in [0..(RECEIVE_BUFFER_LEN - 1) -> Symbol]
  /\ dwStartRec \in 0..(RECEIVE_BUFFER_LEN - 1) /\ dwEndRec \in 0..(RECEIVE_BUFFER_LEN - 1)

StreamTypes ==
  /\ wire \in Seq(Symbol)
  /\ SockTypes
  /\ m_uchsRawData \in Seq(Symbol) /\ Len(m_uchsRawData) <= RawLength

\* Counting modulo the size of the ring.
LEMMA RingPlace ==
  ASSUME NEW p \in 0..(RECEIVE_BUFFER_LEN - 1), NEW k \in 0..RECEIVE_BUFFER_LEN
  PROVE  /\ (p + k) % RECEIVE_BUFFER_LEN =
              IF p + k < RECEIVE_BUFFER_LEN THEN p + k ELSE p + k - RECEIVE_BUFFER_LEN
         /\ (p + k) % RECEIVE_BUFFER_LEN \in 0..(RECEIVE_BUFFER_LEN - 1)
<1>1. RECEIVE_BUFFER_LEN \in Nat /\ RECEIVE_BUFFER_LEN > 0
  BY CommAssumption DEF CommAssumption
<1> QED
  BY <1>1

\* The distance of two places of the ring.
LEMMA RingDistance ==
  ASSUME NEW p \in 0..(RECEIVE_BUFFER_LEN - 1), NEW i \in 0..(RECEIVE_BUFFER_LEN - 1)
  PROVE  (i - p) % RECEIVE_BUFFER_LEN =
           IF i >= p THEN i - p ELSE i - p + RECEIVE_BUFFER_LEN
<1>1. RECEIVE_BUFFER_LEN \in Nat /\ RECEIVE_BUFFER_LEN > 0
  BY CommAssumption DEF CommAssumption
<1> QED
  BY <1>1

\* The number of places from p up to, but not including, q.
Between(p, q) == IF q < p THEN RECEIVE_BUFFER_LEN + q - p ELSE q - p

\* What a ring holds in the n places from p.
RingOf(ring, p, n) == [i \in 1..n |-> ring[(p + i - 1) % RECEIVE_BUFFER_LEN]]

\* The ring of bytes, in these words.
LEMMA RingWords ==
  /\ Stored = Between(dwStartRec, dwEndRec)
  /\ InBuffer = RingOf(RecBuf, dwStartRec, Stored)
  /\ Stored' = Between(dwStartRec', dwEndRec')
  /\ InBuffer' = RingOf(RecBuf', dwStartRec', Stored')
BY DEF Stored, Between, InBuffer, RingOf

\* Between two places there are less places than the ring has.
LEMMA BetweenIs ==
  ASSUME NEW p \in 0..(RECEIVE_BUFFER_LEN - 1), NEW q \in 0..(RECEIVE_BUFFER_LEN - 1)
  PROVE  /\ RECEIVE_BUFFER_LEN \in Nat
         /\ Between(p, q) \in Nat /\ Between(p, q) \in 0..(RECEIVE_BUFFER_LEN - 1)
         /\ (p + Between(p, q)) % RECEIVE_BUFFER_LEN = q
<1>1. RECEIVE_BUFFER_LEN \in Nat /\ RECEIVE_BUFFER_LEN > 0
  BY CommAssumption DEF CommAssumption
<1>2. PICK n : n = Between(p, q)
  OBVIOUS
<1>3. n = IF q < p THEN RECEIVE_BUFFER_LEN + q - p ELSE q - p
  BY <1>2 DEF Between
<1>4. n \in 0..RECEIVE_BUFFER_LEN /\ n < RECEIVE_BUFFER_LEN /\ n \in Nat
  BY <1>1, <1>3
<1>5. (p + n) % RECEIVE_BUFFER_LEN = IF p + n < RECEIVE_BUFFER_LEN THEN p + n
                                     ELSE p + n - RECEIVE_BUFFER_LEN
  BY <1>4, RingPlace
<1> QED
  BY <1>1, <1>2, <1>3, <1>4, <1>5

\* Both ends move on.
LEMMA BetweenMoves ==
  ASSUME NEW p \in 0..(RECEIVE_BUFFER_LEN - 1), NEW q \in 0..(RECEIVE_BUFFER_LEN - 1),
         NEW n \in Nat
  PROVE  /\ Between(p, q) + n < RECEIVE_BUFFER_LEN =>
              Between(p, (q + n) % RECEIVE_BUFFER_LEN) = Between(p, q) + n
         /\ n <= Between(p, q) =>
              Between((p + n) % RECEIVE_BUFFER_LEN, q) = Between(p, q) - n
<1>1. RECEIVE_BUFFER_LEN \in Nat /\ RECEIVE_BUFFER_LEN > 0
  BY CommAssumption DEF CommAssumption
<1>2. Between(p, q) \in Nat /\ Between(p, q) < RECEIVE_BUFFER_LEN
  BY <1>1, BetweenIs
<1>3. CASE n <= RECEIVE_BUFFER_LEN
  <2>1. PICK i, j : /\ i = (p + n) % RECEIVE_BUFFER_LEN /\ j = (q + n) % RECEIVE_BUFFER_LEN
    OBVIOUS
  <2>2. n \in 0..RECEIVE_BUFFER_LEN
    BY <1>1, <1>3
  <2>3. /\ i = IF p + n < RECEIVE_BUFFER_LEN THEN p + n ELSE p + n - RECEIVE_BUFFER_LEN
        /\ j = IF q + n < RECEIVE_BUFFER_LEN THEN q + n ELSE q + n - RECEIVE_BUFFER_LEN
    BY <2>1, <2>2, RingPlace
  <2>4. Between(p, q) + n < RECEIVE_BUFFER_LEN => Between(p, j) = Between(p, q) + n
    BY <1>1, <2>2, <2>3 DEF Between
  <2>5. n <= Between(p, q) => Between(i, q) = Between(p, q) - n
    BY <1>1, <2>2, <2>3 DEF Between
  <2> QED
    BY <2>1, <2>4, <2>5
<1>4. CASE ~(n <= RECEIVE_BUFFER_LEN)
  BY <1>1, <1>2, <1>4
<1> QED
  BY <1>3, <1>4

\* What a ring holds is a sequence of symbols.
LEMMA RingIsSeq ==
  ASSUME NEW ring \in [0..(RECEIVE_BUFFER_LEN - 1) -> Symbol],
         NEW p \in 0..(RECEIVE_BUFFER_LEN - 1), NEW n \in 0..(RECEIVE_BUFFER_LEN - 1)
  PROVE  /\ RingOf(ring, p, n) \in Seq(Symbol) /\ Len(RingOf(ring, p, n)) = n
         /\ \A i \in 1..n : /\ (p + (i - 1)) % RECEIVE_BUFFER_LEN \in 0..(RECEIVE_BUFFER_LEN - 1)
                           /\ RingOf(ring, p, n)[i] = ring[(p + (i - 1)) % RECEIVE_BUFFER_LEN]
<1>1. RECEIVE_BUFFER_LEN \in Nat /\ RECEIVE_BUFFER_LEN > 0 /\ n \in Nat /\ p \in Nat
  BY CommAssumption DEF CommAssumption
<1>2. ASSUME NEW i \in 1..n
      PROVE  /\ (p + (i - 1)) % RECEIVE_BUFFER_LEN \in 0..(RECEIVE_BUFFER_LEN - 1)
             /\ p + i - 1 = p + (i - 1)
  <2>1. i - 1 \in 0..RECEIVE_BUFFER_LEN
    BY <1>1
  <2>2. (p + (i - 1)) % RECEIVE_BUFFER_LEN \in 0..(RECEIVE_BUFFER_LEN - 1)
    BY <2>1, RingPlace
  <2>3. p + i - 1 = p + (i - 1)
    BY <1>1
  <2> QED
    BY <2>2, <2>3
<1>3. RingOf(ring, p, n) \in [1..n -> Symbol]
  BY <1>2 DEF RingOf
<1>4. RingOf(ring, p, n) \in Seq(Symbol) /\ Len(RingOf(ring, p, n)) = n
  BY <1>1, <1>3
<1>5. \A i \in 1..n : RingOf(ring, p, n)[i] = ring[(p + (i - 1)) % RECEIVE_BUFFER_LEN]
  BY <1>2 DEF RingOf
<1> QED
  BY <1>2, <1>4, <1>5

\* What is in the ring of bytes.
LEMMA InBufferIs ==
  ASSUME SockTypes
  PROVE  /\ Stored \in 0..(RECEIVE_BUFFER_LEN - 1) /\ Stored \in Nat
         /\ InBuffer \in Seq(Symbol) /\ Len(InBuffer) = Stored
<1>1. Stored \in 0..(RECEIVE_BUFFER_LEN - 1) /\ Stored \in Nat
  BY RingWords, BetweenIs DEF SockTypes
<1>2. RecBuf \in [0..(RECEIVE_BUFFER_LEN - 1) -> Symbol]
      /\ dwStartRec \in 0..(RECEIVE_BUFFER_LEN - 1)
  BY DEF SockTypes
<1> QED
  BY <1>1, <1>2, RingWords, RingIsSeq

\* The stream is a sequence of symbols.
LEMMA StreamIsSeq ==
  ASSUME StreamTypes
  PROVE  /\ m_uchsRawData \o InBuffer \in Seq(Symbol)
         /\ Stream \in Seq(Symbol)
         /\ Len(m_uchsRawData \o InBuffer) = Len(m_uchsRawData) + Len(InBuffer)
         /\ Len(Stream) = Len(m_uchsRawData) + Len(InBuffer) + Len(wire)
         /\ Len(m_uchsRawData) \in Nat /\ Len(InBuffer) \in Nat /\ Len(wire) \in Nat
<1>1. /\ m_uchsRawData \in Seq(Symbol) /\ InBuffer \in Seq(Symbol) /\ wire \in Seq(Symbol)
  BY InBufferIs DEF StreamTypes
<1>2. m_uchsRawData \o InBuffer \in Seq(Symbol)
      /\ Len(m_uchsRawData \o InBuffer) = Len(m_uchsRawData) + Len(InBuffer)
  BY <1>1, Joined
<1>3. Stream \in Seq(Symbol)
      /\ Len(Stream) = Len(m_uchsRawData \o InBuffer) + Len(wire)
  BY <1>1, <1>2, Joined DEF Stream
<1> QED
  BY <1>1, <1>2, <1>3

\* A ring after the first n symbols of w were put into it from place q on.
PutInto(ring, q, w, n) ==
  [i \in 0..(RECEIVE_BUFFER_LEN - 1) |->
     LET k == (i - q) % RECEIVE_BUFFER_LEN IN IF k < n THEN w[k + 1] ELSE ring[i]]

\* Symbols that arrive go behind what the ring holds.
LEMMA RingPut ==
  ASSUME NEW ring \in [0..(RECEIVE_BUFFER_LEN - 1) -> Symbol],
         NEW p \in 0..(RECEIVE_BUFFER_LEN - 1), NEW q \in 0..(RECEIVE_BUFFER_LEN - 1),
         NEW w \in Seq(Symbol), NEW n \in 1..Len(w),
         Between(p, q) + n < RECEIVE_BUFFER_LEN
  PROVE  /\ PutInto(ring, q, w, n) \in [0..(RECEIVE_BUFFER_LEN - 1) -> Symbol]
         /\ RingOf(PutInto(ring, q, w, n), p, Between(p, q) + n) \o SubSeq(w, n + 1, Len(w))
              = RingOf(ring, p, Between(p, q)) \o w
<1> DEFINE R == RECEIVE_BUFFER_LEN
<1>0. PICK s, new : s = Between(p, q) /\ new = PutInto(ring, q, w, n)
  OBVIOUS
<1>1. /\ R \in Nat /\ R > 0 /\ s \in Nat /\ s < R /\ n \in Nat /\ n > 0 /\ n <= Len(w)
      /\ Len(w) \in Nat /\ s + n < R /\ s = IF q < p THEN R + q - p ELSE q - p
  <2>1. R \in Nat /\ R > 0
    BY CommAssumption DEF CommAssumption
  <2>2. s = IF q < p THEN R + q - p ELSE q - p
    BY <1>0 DEF Between
  <2>3. s \in Nat /\ s < R
    BY <2>1, <2>2
  <2> QED
    BY <1>0, <2>1, <2>2, <2>3
<1>2. \A i \in 0..(R - 1) : new[i] = IF (i - q) % R < n THEN w[((i - q) % R) + 1] ELSE ring[i]
  BY <1>0 DEF PutInto
<1>3. new \in [0..(R - 1) -> Symbol]
  <2>1. ASSUME NEW i \in 0..(R - 1) PROVE new[i] \in Symbol
    <3>1. (i - q) % R \in Nat
      BY <1>1, RingDistance
    <3>2. (i - q) % R < n => ((i - q) % R) + 1 \in 1..Len(w)
      BY <1>1, <3>1
    <3>3. (i - q) % R < n => w[((i - q) % R) + 1] \in Symbol
      BY <3>2
    <3> QED
      BY <1>2, <3>3
  <2> QED
    BY <1>0, <2>1 DEF PutInto
<1>4. PICK a, b : a = RingOf(ring, p, s) /\ b = RingOf(new, p, s + n)
  OBVIOUS
<1>5. /\ a \in Seq(Symbol) /\ Len(a) = s
      /\ \A i \in 1..s : a[i] = ring[(p + (i - 1)) % R]
  <2>1. s \in 0..(R - 1)
    BY <1>1
  <2> QED
    BY <1>4, <2>1, RingIsSeq
<1>6. /\ b \in Seq(Symbol) /\ Len(b) = s + n
      /\ \A i \in 1..(s + n) : b[i] = new[(p + (i - 1)) % R]
  <2>1. PICK m : m = s + n
    OBVIOUS
  <2>2. m \in 0..(R - 1) /\ b = RingOf(new, p, m)
    BY <1>0, <1>1, <1>4, <2>1
  <2>3. /\ b \in Seq(Symbol) /\ Len(b) = m
        /\ \A i \in 1..m : b[i] = new[(p + (i - 1)) % R]
    BY <1>3, <2>2, RingIsSeq
  <2> QED
    BY <2>1, <2>3
<1>7. ASSUME NEW i \in 1..(s + n)
      PROVE  b[i] = IF i <= s THEN a[i] ELSE w[i - s]
  <2>1. PICK k : k = (p + (i - 1)) % R
    OBVIOUS
  <2>2. i - 1 \in 0..R
    BY <1>1
  <2>3. k = (IF p + (i - 1) < R THEN p + (i - 1) ELSE p + (i - 1) - R) /\ k \in 0..(R - 1)
    BY <2>1, <2>2, RingPlace
  <2>4. (k - q) % R = IF k >= q THEN k - q ELSE k - q + R
    BY <2>3, RingDistance
  <2>5. b[i] = new[k]
    BY <1>6, <2>1
  <2>6. CASE i <= s
    <3>1. ~((k - q) % R < n)
      BY <1>1, <2>3, <2>4, <2>6
    <3>2. i \in 1..s
      BY <1>1, <2>6
    <3>3. new[k] = ring[k]
      BY <1>2, <2>3, <3>1
    <3>4. a[i] = ring[k]
      BY <1>5, <2>1, <3>2
    <3> QED
      BY <2>5, <2>6, <3>3, <3>4
  <2>7. CASE ~(i <= s)
    <3>1. (k - q) % R = i - s - 1
      BY <1>1, <2>3, <2>4, <2>7
    <3>2. i - s - 1 < n /\ (i - s - 1) + 1 = i - s
      BY <1>1, <2>7
    <3>3. new[k] = w[i - s]
      BY <1>2, <2>3, <3>1, <3>2
    <3> QED
      BY <2>5, <2>7, <3>3
  <2> QED
    BY <2>6, <2>7
<1>8. PICK t : t = SubSeq(w, n + 1, Len(w))
  OBVIOUS
<1>9. /\ t \in Seq(Symbol) /\ Len(t) = Len(w) - n
      /\ \A i \in 1..(Len(w) - n) : t[i] = w[n + i]
  <2>1. n + 1 \in 1..(Len(w) + 1) /\ Len(w) \in (n + 1 - 1)..Len(w)
    BY <1>1
  <2>2. t \in Seq(Symbol) /\ Len(t) = Len(w) - n
    BY <1>1, <1>8
  <2>3. ASSUME NEW i \in 1..(Len(w) - n) PROVE t[i] = w[n + i]
    BY <1>1, <1>8
  <2> QED
    BY <2>2, <2>3
<1>10. PICK u, v : u = b \o t /\ v = a \o w
  OBVIOUS
<1>20. a \in Seq(Symbol) /\ b \in Seq(Symbol) /\ t \in Seq(Symbol)
  BY <1>5, <1>6, <1>9
<1>11. /\ u \in Seq(Symbol) /\ Len(u) = Len(b) + Len(t)
       /\ \A i \in 1..Len(b) : u[i] = b[i]
       /\ \A i \in 1..Len(t) : u[Len(b) + i] = t[i]
  BY <1>10, <1>20, Joined
<1>12. /\ v \in Seq(Symbol) /\ Len(v) = Len(a) + Len(w)
       /\ \A i \in 1..Len(a) : v[i] = a[i]
       /\ \A i \in 1..Len(w) : v[Len(a) + i] = w[i]
  BY <1>10, <1>20, Joined
<1>13. Len(u) = s + Len(w) /\ Len(v) = s + Len(w)
  <2>1. Len(a) = s /\ Len(b) = s + n /\ Len(t) = Len(w) - n
    BY <1>5, <1>6, <1>9
  <2>2. Len(u) = Len(b) + Len(t) /\ Len(v) = Len(a) + Len(w)
    BY <1>11, <1>12
  <2> QED
    BY ONLY <1>1, <2>1, <2>2
<1>14. ASSUME NEW i \in 1..(s + Len(w)) PROVE u[i] = v[i]
  <2>1. CASE i <= s
    <3>1. i \in 1..Len(a) /\ i \in 1..Len(b) /\ i \in 1..(s + n)
      BY <1>1, <1>5, <1>6, <2>1
    <3>2. u[i] = b[i] /\ v[i] = a[i]
      BY <1>11, <1>12, <3>1
    <3> QED
      BY <1>7, <2>1, <3>1, <3>2
  <2>2. CASE ~(i <= s) /\ i <= s + n
    <3>1. /\ i - s \in 1..Len(w) /\ Len(a) + (i - s) = i
          /\ i \in 1..Len(b) /\ i \in 1..(s + n)
      BY <1>1, <1>5, <1>6, <2>2
    <3>2. u[i] = b[i] /\ v[i] = w[i - s]
      BY <1>11, <1>12, <3>1
    <3> QED
      BY <1>7, <2>2, <3>1, <3>2
  <2>3. CASE ~(i <= s + n)
    <3>1. /\ i - s \in 1..Len(w) /\ Len(a) + (i - s) = i
          /\ i - (s + n) \in 1..Len(t) /\ Len(b) + (i - (s + n)) = i
          /\ i - (s + n) \in 1..(Len(w) - n) /\ n + (i - (s + n)) = i - s
      <4>1. Len(a) = s /\ Len(b) = s + n /\ Len(t) = Len(w) - n
        BY <1>5, <1>6, <1>9
      <4> QED
        BY <1>1, <2>3, <4>1
    <3>2. u[i] = t[i - (s + n)] /\ v[i] = w[i - s]
      BY <1>11, <1>12, <3>1
    <3>3. t[i - (s + n)] = w[i - s]
      BY <1>9, <3>1
    <3> QED
      BY <3>2, <3>3
  <2> QED
    BY <2>1, <2>2, <2>3
<1>15. u = v
  BY <1>11, <1>12, <1>13, <1>14, SeqEqual
<1> QED
  BY <1>0, <1>3, <1>4, <1>8, <1>10, <1>15

\* What is taken out of the ring is the first it holds.
LEMMA RingTake ==
  ASSUME NEW ring \in [0..(RECEIVE_BUFFER_LEN - 1) -> Symbol],
         NEW p \in 0..(RECEIVE_BUFFER_LEN - 1),
         NEW s \in 0..(RECEIVE_BUFFER_LEN - 1), NEW n \in 0..s
  PROVE  RingOf(ring, p, n) \o RingOf(ring, (p + n) % RECEIVE_BUFFER_LEN, s - n)
           = RingOf(ring, p, s)
<1> DEFINE R == RECEIVE_BUFFER_LEN
<1>1. R \in Nat /\ R > 0 /\ s \in Nat /\ n \in Nat /\ n <= s /\ s < R
  BY CommAssumption DEF CommAssumption
<1>2. PICK h : h = (p + n) % R
  OBVIOUS
<1>3. h = (IF p + n < R THEN p + n ELSE p + n - R) /\ h \in 0..(R - 1)
  <2>1. n \in 0..R
    BY <1>1
  <2> QED
    BY <1>2, <2>1, RingPlace
<1>4. PICK a, b, c : a = RingOf(ring, p, n) /\ b = RingOf(ring, h, s - n)
                     /\ c = RingOf(ring, p, s)
  OBVIOUS
<1>5. /\ a \in Seq(Symbol) /\ Len(a) = n
      /\ \A i \in 1..n : a[i] = ring[(p + (i - 1)) % R]
  <2>1. n \in 0..(R - 1)
    BY <1>1
  <2> QED
    BY <1>4, <2>1, RingIsSeq
<1>6. /\ b \in Seq(Symbol) /\ Len(b) = s - n
      /\ \A i \in 1..(s - n) : b[i] = ring[(h + (i - 1)) % R]
  <2>1. PICK m : m = s - n
    OBVIOUS
  <2>2. m \in 0..(R - 1) /\ b = RingOf(ring, h, m) /\ h \in 0..(R - 1)
    BY <1>1, <1>3, <1>4, <2>1
  <2>3. /\ b \in Seq(Symbol) /\ Len(b) = m
        /\ \A i \in 1..m : b[i] = ring[(h + (i - 1)) % R]
    BY <2>2, RingIsSeq
  <2> QED
    BY <2>1, <2>3
<1>7. /\ c \in Seq(Symbol) /\ Len(c) = s
      /\ \A i \in 1..s : c[i] = ring[(p + (i - 1)) % R]
  BY <1>4, RingIsSeq
<1>8. PICK u : u = a \o b
  OBVIOUS
<1>20. a \in Seq(Symbol) /\ b \in Seq(Symbol)
  BY <1>5, <1>6
<1>9. /\ u \in Seq(Symbol) /\ Len(u) = Len(a) + Len(b)
      /\ \A i \in 1..Len(a) : u[i] = a[i]
      /\ \A i \in 1..Len(b) : u[Len(a) + i] = b[i]
  BY <1>8, <1>20, Joined
<1>10. Len(u) = s
  BY <1>1, <1>5, <1>6, <1>9
<1>11. ASSUME NEW i \in 1..s PROVE u[i] = c[i]
  <2>1. CASE i <= n
    <3>1. i \in 1..n
      BY <1>1, <2>1
    <3> QED
      BY <1>5, <1>7, <1>9, <3>1
  <2>2. CASE ~(i <= n)
    <3>1. i - n \in 1..(s - n) /\ Len(a) + (i - n) = i /\ i - n \in 1..Len(b)
      BY <1>1, <1>5, <1>6, <2>2
    <3>2. u[i] = b[i - n]
      BY <1>9, <3>1
    <3>3. b[i - n] = ring[(h + ((i - n) - 1)) % R]
      BY <1>6, <3>1
    <3>4. (h + ((i - n) - 1)) % R = (p + (i - 1)) % R
      <4>1. (i - n) - 1 \in 0..R /\ i - 1 \in 0..R
        BY <1>1, <2>2
      <4>2. (h + ((i - n) - 1)) % R = IF h + ((i - n) - 1) < R THEN h + ((i - n) - 1)
                                      ELSE h + ((i - n) - 1) - R
        BY <1>3, <4>1, RingPlace
      <4>3. (p + (i - 1)) % R = IF p + (i - 1) < R THEN p + (i - 1) ELSE p + (i - 1) - R
        BY <4>1, RingPlace
      <4> QED
        BY <1>1, <1>3, <2>2, <4>1, <4>2, <4>3
    <3> QED
      BY <1>7, <3>2, <3>3, <3>4
  <2> QED
    BY <2>1, <2>2
<1>12. u = c
  BY <1>7, <1>9, <1>10, <1>11, SeqEqual
<1> QED
  BY <1>2, <1>4, <1>8, <1>12

-----------------------------------------------------------------------------
(* What each step does to the symbols on their way.                        *)

\* The parts of the ring of bytes, by name.
LEMMA SockParts ==
  ASSUME SockTypes
  PROVE  /\ RecBuf \in [0..(RECEIVE_BUFFER_LEN - 1) -> Symbol]
         /\ DOMAIN RecBuf = 0..(RECEIVE_BUFFER_LEN - 1)
         /\ dwStartRec \in 0..(RECEIVE_BUFFER_LEN - 1)
         /\ dwEndRec \in 0..(RECEIVE_BUFFER_LEN - 1)
BY DEF SockTypes

\* The lesser of two numbers.
LEMMA LesserOf ==
  ASSUME NEW m \in Nat, NEW n \in Nat
  PROVE  /\ Min({m, n}) \in Nat /\ Min({m, n}) \in {m, n}
         /\ Min({m, n}) <= m /\ Min({m, n}) <= n
<1>1. \E k \in {m, n} : \A j \in {m, n} : k <= j
  <2>1. m <= n \/ n <= m
    OBVIOUS
  <2> QED
    BY <2>1
<1>2. Min({m, n}) \in {m, n} /\ \A j \in {m, n} : Min({m, n}) <= j
  BY <1>1 DEF Min
<1> QED
  BY <1>2

\* OnReceive moves symbols from the wire to the end of what is in the ring.
LEMMA ReceiveMoves ==
  ASSUME StreamTypes, NEW n \in 1..Len(wire), OnReceive(n)
  PROVE  StreamTypes' /\ Stream' = Stream
<1> DEFINE R == RECEIVE_BUFFER_LEN
<1>1. R \in Nat /\ R > 0 /\ wire \in Seq(Symbol) /\ n \in Nat /\ SockTypes
      /\ m_uchsRawData \in Seq(Symbol) /\ Len(m_uchsRawData) <= RawLength
  BY CommAssumption DEF CommAssumption, StreamTypes
<1>2. PICK ring, new, p, q, w, s :
        /\ ring = RecBuf /\ new = RecBuf' /\ p = dwStartRec /\ q = dwEndRec
        /\ w = wire /\ s = Stored
  OBVIOUS
<1>3. /\ ring \in [0..(R - 1) -> Symbol] /\ p \in 0..(R - 1) /\ q \in 0..(R - 1)
      /\ w \in Seq(Symbol) /\ n \in 1..Len(w)
  BY <1>1, <1>2, SockParts
<1>4. s = Between(p, q) /\ s + n < R
  <2>1. s = Between(p, q)
    BY <1>2, RingWords
  <2> QED
    BY <1>2, <2>1 DEF OnReceive
<1>5. new = PutInto(ring, q, w, n)
  BY <1>1, <1>2, SockParts DEF OnReceive, PutInto
<1>6. /\ dwStartRec' = p /\ dwEndRec' = (q + n) % R
      /\ wire' = SubSeq(w, n + 1, Len(w)) /\ m_uchsRawData' = m_uchsRawData
  BY <1>2 DEF OnReceive
<1>7. /\ new \in [0..(R - 1) -> Symbol]
      /\ RingOf(new, p, s + n) \o SubSeq(w, n + 1, Len(w)) = RingOf(ring, p, s) \o w
  <2>1. Between(p, q) + n < RECEIVE_BUFFER_LEN
    BY <1>4
  <2>2. /\ PutInto(ring, q, w, n) \in [0..(RECEIVE_BUFFER_LEN - 1) -> Symbol]
        /\ RingOf(PutInto(ring, q, w, n), p, Between(p, q) + n) \o SubSeq(w, n + 1, Len(w))
             = RingOf(ring, p, Between(p, q)) \o w
    BY <1>3, <2>1, RingPut
  <2> QED
    BY <1>4, <1>5, <2>2
<1>8. s \in Nat /\ s \in 0..(R - 1)
  BY <1>3, <1>4, BetweenIs
<1>9. Between(p, (q + n) % R) = s + n
  BY <1>1, <1>3, <1>4, BetweenMoves
<1>10. (q + n) % R \in 0..(R - 1)
  <2>1. n \in 0..R
    BY <1>1, <1>4, <1>8
  <2> QED
    BY <1>3, <2>1, RingPlace
<1>11. wire' \in Seq(Symbol)
  BY <1>1, <1>3, <1>6
<1>12. SockTypes'
  BY <1>2, <1>3, <1>6, <1>7, <1>10 DEF SockTypes
<1>13. StreamTypes'
  BY <1>1, <1>6, <1>11, <1>12 DEF StreamTypes
<1>14. InBuffer = RingOf(ring, p, s) /\ InBuffer' = RingOf(new, p, s + n)
  <2>1. Stored' = s + n
    BY <1>6, <1>9, RingWords
  <2> QED
    BY <1>2, <1>6, <2>1, RingWords
<1>15. PICK a, b, v, raw : /\ a = InBuffer /\ b = InBuffer' /\ v = wire'
                          /\ raw = m_uchsRawData
  OBVIOUS
<1>16. /\ a \in Seq(Symbol) /\ b \in Seq(Symbol) /\ v \in Seq(Symbol)
       /\ raw \in Seq(Symbol) /\ w \in Seq(Symbol)
  <2>1. a \in Seq(Symbol)
    BY <1>1, <1>15, InBufferIs
  <2>2. b \in Seq(Symbol)
    <3>1. s + n \in 0..(R - 1)
      BY <1>1, <1>4, <1>8
    <3> QED
      BY <1>3, <1>7, <1>14, <1>15, <3>1, RingIsSeq
  <2> QED
    BY <1>1, <1>3, <1>11, <1>15, <2>1, <2>2
<1>17. a \o w = b \o v
  BY <1>6, <1>7, <1>14, <1>15
<1>18. (raw \o a) \o w = raw \o (a \o w) /\ (raw \o b) \o v = raw \o (b \o v)
  <2>1. (raw \o a) \o w = raw \o (a \o w)
    <3>1. raw \in Seq(Symbol) /\ a \in Seq(Symbol) /\ w \in Seq(Symbol)
      BY <1>16
    <3> QED
      BY ONLY <3>1, ConcatAssociative
  <2>2. (raw \o b) \o v = raw \o (b \o v)
    <3>1. raw \in Seq(Symbol) /\ b \in Seq(Symbol) /\ v \in Seq(Symbol)
      BY <1>16
    <3> QED
      BY ONLY <3>1, ConcatAssociative
  <2> QED
    BY <2>1, <2>2
<1>19. Stream = (raw \o a) \o w /\ Stream' = (raw \o b) \o v
  BY <1>2, <1>6, <1>15 DEF Stream
<1> QED
  BY <1>13, <1>17, <1>18, <1>19

\* GetReceivedData moves symbols from the ring to the empty raw data.
LEMMA FetchMoves ==
  ASSUME StreamTypes, m_uchsRawData = << >>, GetReceivedData
  PROVE  StreamTypes' /\ Stream' = Stream
<1> DEFINE R == RECEIVE_BUFFER_LEN
<1>1. /\ R \in Nat /\ R > 0 /\ RawLength \in Nat /\ wire \in Seq(Symbol) /\ SockTypes
  BY CommAssumption DEF CommAssumption, StreamTypes
<1>2. PICK ring, p, q, s, n :
        /\ ring = RecBuf /\ p = dwStartRec /\ q = dwEndRec /\ s = Stored
        /\ n = Min({Stored, RawLength})
  OBVIOUS
<1>3. ring \in [0..(R - 1) -> Symbol] /\ p \in 0..(R - 1) /\ q \in 0..(R - 1)
  BY <1>1, <1>2, SockParts
<1>4. s = Between(p, q) /\ s \in Nat /\ s \in 0..(R - 1)
  <2>1. s = Between(p, q)
    BY <1>2, RingWords
  <2> QED
    BY <1>3, <2>1, BetweenIs
<1>5. n \in Nat /\ n <= s /\ n <= RawLength
  BY <1>1, <1>2, <1>4, LesserOf
<1>6. /\ dwStartRec' = (p + n) % R /\ dwEndRec' = q /\ RecBuf' = ring
      /\ wire' = wire /\ m_uchsRawData' = RingOf(ring, p, n)
  BY <1>2 DEF GetReceivedData, linkVars, RingOf
<1>7. RingOf(ring, p, n) \o RingOf(ring, (p + n) % R, s - n) = RingOf(ring, p, s)
  <2>1. n \in 0..s
    BY <1>4, <1>5
  <2> QED
    BY <1>3, <1>4, <2>1, RingTake
<1>8. Between((p + n) % R, q) = s - n
  BY <1>1, <1>3, <1>4, <1>5, BetweenMoves
<1>9. (p + n) % R \in 0..(R - 1) /\ n \in 0..(R - 1)
  <2>1. n \in 0..R /\ n \in 0..(R - 1)
    BY <1>1, <1>4, <1>5
  <2> QED
    BY <1>3, <2>1, RingPlace
<1>10. RingOf(ring, p, n) \in Seq(Symbol) /\ Len(RingOf(ring, p, n)) = n
  BY <1>3, <1>9, RingIsSeq
<1>11. SockTypes'
  BY <1>3, <1>6, <1>9 DEF SockTypes
<1>12. StreamTypes'
  BY <1>1, <1>5, <1>6, <1>10, <1>11 DEF StreamTypes
<1>13. InBuffer = RingOf(ring, p, s) /\ InBuffer' = RingOf(ring, (p + n) % R, s - n)
  <2>1. Stored' = s - n
    BY <1>6, <1>8, RingWords
  <2> QED
    BY <1>2, <1>6, <2>1, RingWords
<1>14. << >> \o InBuffer = InBuffer
  <2>1. InBuffer \in Seq(Symbol)
    BY <1>1, InBufferIs
  <2> QED
    BY <2>1, ConcatEmptySeq
<1> QED
  BY <1>6, <1>7, <1>12, <1>13, <1>14 DEF Stream

\* The tail of two sequences, one after the other.
LEMMA TailJoined ==
  ASSUME NEW S, NEW s \in Seq(S), NEW t \in Seq(S), s # << >>
  PROVE  /\ Tail(s \o t) = Tail(s) \o t /\ Head(s \o t) = Head(s)
         /\ s \o t # << >> /\ Tail(s) \in Seq(S)
<1>1. /\ s \o t \in Seq(S) /\ Len(s) \in Nat /\ Len(s) > 0 /\ Len(t) \in Nat
      /\ Len(s \o t) = Len(s) + Len(t)
      /\ \A i \in 1..(Len(s) + Len(t)) : (s \o t)[i] = IF i <= Len(s) THEN s[i]
                                                       ELSE t[i - Len(s)]
  BY ConcatProperties, EmptySeq
<1>2. PICK u, r, v : u = s \o t /\ r = Tail(s) /\ v = r \o t
  OBVIOUS
<1>3. r \in Seq(S) /\ Len(r) = Len(s) - 1 /\ \A i \in 1..Len(r) : r[i] = s[i + 1]
  BY <1>1, <1>2
<1>4. /\ v \in Seq(S) /\ Len(v) = Len(r) + Len(t)
      /\ \A i \in 1..(Len(r) + Len(t)) : v[i] = IF i <= Len(r) THEN r[i] ELSE t[i - Len(r)]
  BY <1>2, <1>3, ConcatProperties
<1>5. u \in Seq(S) /\ Len(u) = Len(s) + Len(t) /\ u # << >>
  BY <1>1, <1>2, EmptySeq
<1>6. /\ Tail(u) \in Seq(S) /\ Len(Tail(u)) = Len(u) - 1
      /\ \A i \in 1..Len(Tail(u)) : Tail(u)[i] = u[i + 1]
  BY <1>1, <1>5
<1>7. Len(Tail(u)) = Len(v)
  BY <1>1, <1>3, <1>4, <1>5, <1>6
<1>8. ASSUME NEW i \in 1..Len(v) PROVE Tail(u)[i] = v[i]
  <2>1. /\ i + 1 \in 1..(Len(s) + Len(t)) /\ i \in 1..Len(Tail(u))
        /\ i \in 1..(Len(r) + Len(t))
    BY <1>1, <1>3, <1>4, <1>5, <1>6
  <2>2. Tail(u)[i] = IF i + 1 <= Len(s) THEN s[i + 1] ELSE t[(i + 1) - Len(s)]
    BY <1>1, <1>2, <1>6, <2>1
  <2>3. CASE i + 1 <= Len(s)
    <3>1. i <= Len(r) /\ i \in 1..Len(r)
      BY <1>1, <1>3, <2>1, <2>3
    <3> QED
      BY <1>3, <1>4, <2>1, <2>2, <2>3, <3>1
  <2>4. CASE ~(i + 1 <= Len(s))
    <3>1. ~(i <= Len(r)) /\ (i + 1) - Len(s) = i - Len(r)
      BY <1>1, <1>3, <2>1, <2>4
    <3> QED
      BY <1>4, <2>1, <2>2, <2>4, <3>1
  <2> QED
    BY <2>3, <2>4
<1>9. Tail(u) = v
  BY <1>4, <1>6, <1>7, <1>8, SeqEqual
<1>10. Head(u) = u[1] /\ u[1] = s[1] /\ Head(s) = s[1]
  BY <1>1, <1>2, <1>5
<1> QED
  BY <1>2, <1>3, <1>5, <1>9, <1>10

\* AnalyseOneByte is given the first symbol.
LEMMA ByteMoves ==
  ASSUME StreamTypes, NextByte
  PROVE  /\ StreamTypes' /\ Stream # << >>
         /\ Stream' = Tail(Stream) /\ byteData = Head(Stream)
<1>1. PICK raw, a, w : raw = m_uchsRawData /\ a = InBuffer /\ w = wire
  OBVIOUS
<1>2. /\ raw \in Seq(Symbol) /\ a \in Seq(Symbol) /\ w \in Seq(Symbol) /\ raw # << >>
      /\ Len(raw) <= RawLength /\ SockTypes
  BY <1>1, InBufferIs DEF StreamTypes, NextByte
<1>3. /\ m_uchsRawData' = Tail(raw) /\ InBuffer' = a /\ wire' = w /\ SockTypes'
  BY <1>1, <1>2 DEF NextByte, linkVars, sockVars, InBuffer, Stored, SockTypes
<1>4. /\ Tail(raw \o a) = Tail(raw) \o a /\ Head(raw \o a) = Head(raw)
      /\ raw \o a # << >> /\ Tail(raw) \in Seq(Symbol)
  BY ONLY <1>2, TailJoined
<1>5. raw \o a \in Seq(Symbol)
  BY ONLY <1>2, ConcatProperties
<1>6. /\ Tail((raw \o a) \o w) = Tail(raw \o a) \o w /\ Head((raw \o a) \o w) = Head(raw \o a)
      /\ (raw \o a) \o w # << >>
  BY ONLY <1>2, <1>4, <1>5, TailJoined
<1>7. Len(Tail(raw)) <= RawLength
  <2>1. RawLength \in Nat
    BY CommAssumption DEF CommAssumption
  <2>2. Len(raw) \in Nat /\ Len(Tail(raw)) = Len(raw) - 1
    BY <1>2
  <2> QED
    BY <1>2, <2>1, <2>2
<1>8. StreamTypes'
  BY <1>2, <1>3, <1>4, <1>7 DEF StreamTypes
<1>9. Stream = (raw \o a) \o w /\ Stream' = (Tail(raw) \o a) \o w /\ byteData = Head(raw)
  BY <1>1, <1>3 DEF Stream, byteData
<1> QED
  BY <1>4, <1>6, <1>8, <1>9

\* SendRequest puts the next message behind all symbols.
LEMMA SendMoves ==
  ASSUME StreamTypes, SendRequest, Len(sent) + 1 \in DOMAIN Contents
  PROVE  StreamTypes' /\ Stream' = Stream \o Coded(Len(sent) + 1)
<1>1. PICK raw, a, w, f, m : /\ raw = m_uchsRawData /\ a = InBuffer /\ w = wire
                            /\ m = Len(sent) + 1 /\ f = Coded(m)
  OBVIOUS
<1>2. /\ raw \in Seq(Symbol) /\ a \in Seq(Symbol) /\ w \in Seq(Symbol) /\ SockTypes
      /\ Len(raw) <= RawLength
  BY <1>1, InBufferIs DEF StreamTypes
<1>3. f \in Seq(Symbol)
  BY <1>1, CodedIs
<1>4. /\ m_uchsRawData' = raw /\ InBuffer' = a /\ wire' = w \o f /\ SockTypes'
  BY <1>1, <1>2 DEF SendRequest, sockVars, InBuffer, Stored, SockTypes, Coded
<1>5. w \o f \in Seq(Symbol) /\ raw \o a \in Seq(Symbol)
  BY ONLY <1>2, <1>3, ConcatProperties
<1>6. (raw \o a) \o (w \o f) = ((raw \o a) \o w) \o f
  <2>1. PICK c : c = raw \o a
    OBVIOUS
  <2>2. c \in Seq(Symbol) /\ w \in Seq(Symbol) /\ f \in Seq(Symbol)
    BY <1>2, <1>3, <1>5, <2>1
  <2>3. (c \o w) \o f = c \o (w \o f)
    BY ONLY <2>2, ConcatAssociative
  <2> QED
    BY <2>1, <2>3
<1>7. StreamTypes'
  BY <1>2, <1>4, <1>5 DEF StreamTypes
<1> QED
  BY <1>1, <1>4, <1>6, <1>7 DEF Stream

\* Disconnected cuts off what is on the wire.
LEMMA BreakMoves ==
  ASSUME StreamTypes, Disconnected
  PROVE  /\ StreamTypes' /\ Stream' \in Seq(Symbol) /\ wire \in Seq(Symbol)
         /\ Stream = Stream' \o wire
<1>1. PICK raw, a, w : raw = m_uchsRawData /\ a = InBuffer /\ w = wire
  OBVIOUS
<1>2. /\ raw \in Seq(Symbol) /\ a \in Seq(Symbol) /\ w \in Seq(Symbol) /\ SockTypes
      /\ Len(raw) <= RawLength
  BY <1>1, InBufferIs DEF StreamTypes
<1>3. /\ m_uchsRawData' = raw /\ InBuffer' = a /\ wire' = << >> /\ SockTypes'
  BY <1>1, <1>2 DEF Disconnected, sockVars, InBuffer, Stored, SockTypes
<1>4. raw \o a \in Seq(Symbol)
  BY ONLY <1>2, ConcatProperties
<1>5. (raw \o a) \o << >> = raw \o a
  BY ONLY <1>4, ConcatEmptySeq
<1>6. << >> \in Seq(Symbol)
  OBVIOUS
<1>7. StreamTypes'
  BY <1>2, <1>3, <1>6 DEF StreamTypes
<1>8. Stream' = raw \o a /\ Stream = (raw \o a) \o w
  BY <1>1, <1>3, <1>5 DEF Stream
<1> QED
  BY <1>1, <1>2, <1>4, <1>7, <1>8

\* The other steps leave the symbols alone.
LEMMA OthersKeepStream ==
  ASSUME StreamTypes, UNCHANGED <<wire, sockVars, m_uchsRawData>>
  PROVE  StreamTypes' /\ Stream' = Stream
BY DEF StreamTypes, SockTypes, Stream, InBuffer, Stored, sockVars

-----------------------------------------------------------------------------
(* Where a symbol comes from: a record of the message msg it belongs to    *)
(* (0: there was none yet), its place off in it, and a number brk of       *)
(* broken connections before it. Nothing of this is in the code: it is     *)
(* there to say that what the parser reads are pieces of messages, and     *)
(* that a piece that is not whole was cut by a broken connection.          *)

EndOf(m) == 2 * Size(m) + 3

\* The last symbol of a message, or none.
Final(l) == l.msg = 0 \/ l.off = EndOf(l.msg)

\* A place in one of the first n messages, after at most b broken connections.
PlaceOK(l, n, b) ==
  /\ l.msg \in 0..n /\ l.off \in Nat /\ l.brk \in 0..b
  /\ l.msg # 0 => l.off \in 1..EndOf(l.msg)

\* The next symbol of the same message, or the first of a later message.
SameMessage(l, k) == ~Final(l) /\ k.msg = l.msg /\ k.off = l.off + 1 /\ k.brk = l.brk
LaterMessage(l, k) ==
  /\ k.msg > l.msg /\ k.off = 1 /\ k.brk >= l.brk
  /\ Final(l) \/ k.brk > l.brk

\* at[j] is where symbol j comes from, at[0] where the symbol before the first does.
Labelled(symbols, n, b, at) ==
  /\ \A j \in 0..Len(symbols) : PlaceOK(at[j], n, b)
  /\ \A j \in 1..Len(symbols) :
       /\ at[j].msg # 0
       /\ symbols[j] = Coded(at[j].msg)[at[j].off]
       /\ SameMessage(at[j - 1], at[j]) \/ LaterMessage(at[j - 1], at[j])
  /\ ~Final(at[Len(symbols)]) => at[Len(symbols)].brk < b

\* The messages are the domain of Contents.
LEMMA MessageNumbers ==
  /\ Len(Contents) \in Nat /\ DOMAIN Contents = 1..Len(Contents)
BY CommAssumption DEF CommAssumption

\* The parser is given the first symbol.
LEMMA LabelsOfTail ==
  ASSUME NEW s \in Seq(Symbol), s # << >>, NEW n \in Nat, NEW b \in Nat, NEW at,
         Labelled(s, n, b, at)
  PROVE  /\ Labelled(Tail(s), n, b, [j \in 0..(Len(s) - 1) |-> at[j + 1]])
         /\ [j \in 0..(Len(s) - 1) |-> at[j + 1]][0] = at[1]
         /\ PlaceOK(at[0], n, b) /\ PlaceOK(at[1], n, b) /\ at[1].msg # 0
         /\ Head(s) = Coded(at[1].msg)[at[1].off]
         /\ SameMessage(at[0], at[1]) \/ LaterMessage(at[0], at[1])
<1> DEFINE new == [j \in 0..(Len(s) - 1) |-> at[j + 1]]
<1>1. Len(s) \in Nat /\ Len(s) > 0 /\ Head(s) = s[1]
  BY EmptySeq
<1>2. PICK t : t = Tail(s)
  OBVIOUS
<1>3. t \in Seq(Symbol) /\ Len(t) = Len(s) - 1 /\ \A j \in 1..Len(t) : t[j] = s[j + 1]
  BY <1>1, <1>2
<1>4. \A j \in 0..Len(t) : new[j] = at[j + 1]
  BY <1>1, <1>3
<1> HIDE DEF new
<1>5. /\ \A j \in 0..Len(s) : PlaceOK(at[j], n, b)
      /\ \A j \in 1..Len(s) :
           /\ at[j].msg # 0
           /\ s[j] = Coded(at[j].msg)[at[j].off]
           /\ SameMessage(at[j - 1], at[j]) \/ LaterMessage(at[j - 1], at[j])
      /\ ~Final(at[Len(s)]) => at[Len(s)].brk < b
  BY DEF Labelled
<1>6. ASSUME NEW j \in 0..Len(t) PROVE PlaceOK(new[j], n, b)
  <2>1. j + 1 \in 0..Len(s)
    BY <1>1, <1>3
  <2> QED
    BY <1>4, <1>5, <2>1
<1>7. ASSUME NEW j \in 1..Len(t)
      PROVE  /\ new[j].msg # 0
             /\ t[j] = Coded(new[j].msg)[new[j].off]
             /\ SameMessage(new[j - 1], new[j]) \/ LaterMessage(new[j - 1], new[j])
  <2>1. /\ j + 1 \in 1..Len(s) /\ j \in 0..Len(t) /\ j - 1 \in 0..Len(t)
        /\ (j + 1) - 1 = j /\ (j - 1) + 1 = j
    BY <1>1, <1>3
  <2>2. new[j] = at[j + 1] /\ new[j - 1] = at[j] /\ t[j] = s[j + 1]
    BY <1>3, <1>4, <2>1
  <2>3. /\ at[j + 1].msg # 0
        /\ s[j + 1] = Coded(at[j + 1].msg)[at[j + 1].off]
        /\ SameMessage(at[j], at[j + 1]) \/ LaterMessage(at[j], at[j + 1])
    BY <1>5, <2>1
  <2> QED
    BY <2>2, <2>3
<1>8. new[Len(t)] = at[Len(s)]
  <2>1. Len(t) \in 0..Len(t) /\ Len(t) + 1 = Len(s)
    BY <1>1, <1>3
  <2> QED
    BY <1>4, <2>1
<1>9. Labelled(t, n, b, new)
  BY <1>5, <1>6, <1>7, <1>8 DEF Labelled
<1>10. 0 \in 0..Len(t) /\ 0 + 1 = 1 /\ 1 - 1 = 0 /\ 0 \in 0..Len(s)
       /\ 1 \in 0..Len(s) /\ 1 \in 1..Len(s)
  BY <1>1, <1>3
<1>11. new[0] = at[1]
  BY <1>4, <1>10
<1>12. /\ PlaceOK(at[0], n, b) /\ PlaceOK(at[1], n, b) /\ at[1].msg # 0
       /\ s[1] = Coded(at[1].msg)[at[1].off]
       /\ SameMessage(at[0], at[1]) \/ LaterMessage(at[0], at[1])
  BY <1>5, <1>10
<1>13. Labelled(Tail(s), n, b, new)
  BY <1>2, <1>9
<1> QED
  BY <1>1, <1>11, <1>12, <1>13 DEF new

\* A message is sent: it goes behind the others.
LEMMA LabelsOfSent ==
  ASSUME NEW s \in Seq(Symbol), NEW n \in Nat, NEW b \in Nat, NEW at,
         Labelled(s, n, b, at), n + 1 \in DOMAIN Contents
  PROVE  \E new : /\ Labelled(s \o Coded(n + 1), n + 1, b, new)
                  /\ new[0] = at[0]
<1>1. PICK m, f, e : m = n + 1 /\ f = Coded(m) /\ e = EndOf(m)
  OBVIOUS
<1>2. /\ m \in DOMAIN Contents /\ m \in Nat /\ m > 0 /\ m > n
      /\ f \in Seq(Symbol) /\ Len(f) = e /\ e \in Nat /\ e > 1
  <2>1. m \in DOMAIN Contents
    BY <1>1
  <2>2. f \in Seq(Symbol) /\ Len(f) = e /\ Size(m) \in Nat /\ e = 2 * Size(m) + 3
    BY <1>1, <2>1, CodedIs DEF EndOf
  <2> QED
    BY <1>1, <2>1, <2>2
<1>3. PICK u : u = s \o f
  OBVIOUS
<1>4. /\ u \in Seq(Symbol) /\ Len(u) = Len(s) + e /\ Len(s) \in Nat
      /\ \A j \in 1..Len(s) : u[j] = s[j]
      /\ \A j \in 1..e : u[Len(s) + j] = f[j]
  <2>1. /\ u \in Seq(Symbol) /\ Len(u) = Len(s) + Len(f)
        /\ \A j \in 1..Len(s) : u[j] = s[j]
        /\ \A j \in 1..Len(f) : u[Len(s) + j] = f[j]
    <3>1. f \in Seq(Symbol)
      BY <1>2
    <3> QED
      BY <1>3, <3>1, Joined
  <2> QED
    BY <1>2, <2>1
<1> DEFINE new == [j \in 0..(Len(s) + e) |->
                     IF j <= Len(s) THEN at[j]
                     ELSE [msg |-> m, off |-> j - Len(s), brk |-> b]]
<1>5. /\ \A j \in 0..Len(s) : new[j] = at[j]
      /\ \A j \in (Len(s) + 1)..(Len(s) + e) :
           new[j].msg = m /\ new[j].off = j - Len(s) /\ new[j].brk = b
  BY <1>2, <1>4
<1> HIDE DEF new
<1>6. /\ \A j \in 0..Len(s) : PlaceOK(at[j], n, b)
      /\ \A j \in 1..Len(s) :
           /\ at[j].msg # 0
           /\ s[j] = Coded(at[j].msg)[at[j].off]
           /\ SameMessage(at[j - 1], at[j]) \/ LaterMessage(at[j - 1], at[j])
      /\ ~Final(at[Len(s)]) => at[Len(s)].brk < b
  BY DEF Labelled
<1>7. ASSUME NEW j \in 0..(Len(s) + e) PROVE PlaceOK(new[j], m, b)
  <2>1. CASE j \in 0..Len(s)
    <3>1. PlaceOK(at[j], n, b) /\ new[j] = at[j]
      BY <1>5, <1>6, <2>1
    <3> QED
      BY <1>1, <1>2, <3>1 DEF PlaceOK
  <2>2. CASE j \in (Len(s) + 1)..(Len(s) + e)
    <3>1. new[j].msg = m /\ new[j].off = j - Len(s) /\ new[j].brk = b
      BY <1>5, <2>2
    <3>2. j - Len(s) \in 1..e /\ j - Len(s) \in Nat
      BY <1>2, <1>4, <2>2
    <3> QED
      BY <1>1, <1>2, <3>1, <3>2 DEF PlaceOK
  <2> QED
    BY <1>2, <1>4, <2>1, <2>2
<1>8. ASSUME NEW j \in 1..(Len(s) + e)
      PROVE  /\ new[j].msg # 0
             /\ u[j] = Coded(new[j].msg)[new[j].off]
             /\ SameMessage(new[j - 1], new[j]) \/ LaterMessage(new[j - 1], new[j])
  <2>1. CASE j \in 1..Len(s)
    <3>1. j \in 0..Len(s) /\ j - 1 \in 0..Len(s)
      BY <1>4, <2>1
    <3> QED
      BY <1>4, <1>5, <1>6, <2>1, <3>1
  <2>2. CASE j \in (Len(s) + 1)..(Len(s) + e)
    <3>1. /\ j - Len(s) \in 1..e /\ Len(s) + (j - Len(s)) = j
      BY <1>2, <1>4, <2>2
    <3>2. u[j] = f[j - Len(s)]
      BY <1>4, <3>1
    <3>3. new[j].msg = m /\ new[j].off = j - Len(s) /\ new[j].brk = b
      BY <1>5, <2>2
    <3>4. new[j].msg # 0 /\ u[j] = Coded(new[j].msg)[new[j].off]
      BY <1>1, <1>2, <3>2, <3>3
    <3>5. CASE j = Len(s) + 1
      <4>1. j - 1 = Len(s) /\ Len(s) \in 0..Len(s) /\ j - Len(s) = 1
        BY <1>4, <3>5
      <4>2. new[j - 1] = at[Len(s)] /\ PlaceOK(at[Len(s)], n, b)
        BY <1>5, <1>6, <4>1
      <4>3. at[Len(s)].msg \in 0..n /\ at[Len(s)].brk \in 0..b
        BY <4>2 DEF PlaceOK
      <4>4. /\ m > at[Len(s)].msg /\ b >= at[Len(s)].brk
            /\ Final(at[Len(s)]) \/ b > at[Len(s)].brk
        BY <1>1, <1>6, <4>3
      <4>5. LaterMessage(new[j - 1], new[j])
        BY <3>3, <4>1, <4>2, <4>4 DEF LaterMessage
      <4> QED
        BY <3>4, <4>5
    <3>6. CASE j # Len(s) + 1
      <4>1. j - 1 \in (Len(s) + 1)..(Len(s) + e) /\ j - Len(s) <= e
            /\ (j - 1) - Len(s) < e /\ j - Len(s) = ((j - 1) - Len(s)) + 1
        BY <1>2, <1>4, <2>2, <3>6
      <4>2. new[j - 1].msg = m /\ new[j - 1].off = (j - 1) - Len(s) /\ new[j - 1].brk = b
        BY <1>5, <4>1
      <4>3. (j - 1) - Len(s) # e
        BY <1>2, <1>4, <4>1
      <4>4. ~Final(new[j - 1])
        BY <1>1, <1>2, <4>2, <4>3 DEF Final
      <4>5. SameMessage(new[j - 1], new[j])
        BY <3>3, <4>1, <4>2, <4>4 DEF SameMessage
      <4> QED
        BY <3>4, <4>5
    <3> QED
      BY <3>5, <3>6
  <2> QED
    BY <1>2, <1>4, <2>1, <2>2
<1>9. Final(new[Len(s) + e])
  <2>1. Len(s) + e \in (Len(s) + 1)..(Len(s) + e) /\ (Len(s) + e) - Len(s) = e
    BY <1>2, <1>4
  <2>2. new[Len(s) + e].msg = m /\ new[Len(s) + e].off = e
    BY <1>5, <2>1
  <2> QED
    BY <1>1, <2>2 DEF Final
<1>10. Labelled(u, m, b, new)
  BY <1>4, <1>7, <1>8, <1>9 DEF Labelled
<1>11. new[0] = at[0]
  <2>1. 0 \in 0..Len(s)
    BY <1>4
  <2> QED
    BY <1>5, <2>1
<1> QED
  BY <1>1, <1>3, <1>10, <1>11

\* A connection breaks: what is left may end inside a message.
LEMMA LabelsOfBroken ==
  ASSUME NEW s \in Seq(Symbol), NEW w \in Seq(Symbol), NEW n \in Nat, NEW b \in Nat, NEW at,
         Labelled(s \o w, n, b, at)
  PROVE  Labelled(s, n, b + 1, at)
<1>1. PICK u : u = s \o w
  OBVIOUS
<1>2. /\ Len(u) = Len(s) + Len(w) /\ Len(s) \in Nat /\ Len(w) \in Nat
      /\ \A j \in 1..Len(s) : u[j] = s[j]
  BY <1>1, Joined
<1>3. /\ \A j \in 0..Len(u) : PlaceOK(at[j], n, b)
      /\ \A j \in 1..Len(u) :
           /\ at[j].msg # 0
           /\ u[j] = Coded(at[j].msg)[at[j].off]
           /\ SameMessage(at[j - 1], at[j]) \/ LaterMessage(at[j - 1], at[j])
  BY <1>1 DEF Labelled
<1>4. ASSUME NEW j \in 0..Len(s) PROVE PlaceOK(at[j], n, b + 1) /\ at[j].brk < b + 1
  <2>1. j \in 0..Len(u)
    BY <1>2
  <2>2. PlaceOK(at[j], n, b)
    BY <1>3, <2>1
  <2> QED
    BY <2>2 DEF PlaceOK
<1>5. \A j \in 1..Len(s) : j \in 1..Len(u)
  BY <1>2
<1>6. Len(s) \in 0..Len(s)
  BY <1>2
<1> QED
  BY <1>2, <1>3, <1>4, <1>5, <1>6 DEF Labelled

-----------------------------------------------------------------------------
(* The parser, between two symbols.                                        *)

Flags == {"START", "CONT1", "CONT0", "END"}
Buffers == [0..(IADM_MES_MAX_LEN - 1) -> Byte]

(* What the parser knows after the symbol at place l: inside a message it  *)
(* has the bytes of this message so far, and no others.                    *)
ParserAt(flag, count, now, l) ==
  /\ flag # "START" => /\ l.msg \in DOMAIN Contents
                       /\ \A i \in 1..count : now[i - 1] = Bytes(l.msg)[i]
  /\ flag = "CONT1" => count \in 0..Size(l.msg) /\ l.off = 2 * count + 1
  /\ flag = "CONT0" => /\ count \in 0..(Size(l.msg) - 1) /\ l.off = 2 * count + 2
                       /\ now[count] = Coded(l.msg)[2 * (count + 1)] * Base
  /\ flag = "END" => count = Size(l.msg) /\ l.off = 2 * Size(l.msg) + 2

\* Whatever is accepted from now on comes after this message.
Limit(flag, l) == IF flag = "START" THEN l.msg ELSE l.msg - 1

(* Of the messages before, no more were lost than connections broke, and   *)
(* one less if the parser is between the pieces of a message.              *)
SwallowedAt(flag, l, swallowed) ==
  /\ swallowed \in 0..l.brk
  /\ flag = "START" /\ ~Final(l) => swallowed < l.brk

\* What follows of the symbol itself.
LEMMA SymbolAt ==
  ASSUME NEW n \in Nat, NEW b \in Nat, n <= Len(Contents), NEW l, NEW k,
         PlaceOK(l, n, b), PlaceOK(k, n, b), k.msg # 0,
         SameMessage(l, k) \/ LaterMessage(l, k),
         NEW c, c = Coded(k.msg)[k.off]
  PROVE  /\ k.msg \in DOMAIN Contents /\ Size(k.msg) \in Nat /\ k.off \in 1..EndOf(k.msg)
         /\ l.msg \in Nat /\ k.msg \in Nat /\ l.brk \in Nat /\ k.brk \in Nat /\ l.off \in Nat
         /\ c = Colon <=> k.off = 1
         /\ c = CR <=> k.off = 2 * Size(k.msg) + 2
         /\ c = LF <=> k.off = EndOf(k.msg)
         /\ c \in Digit <=> k.off \in 2..(2 * Size(k.msg) + 1)
         /\ k.off = 1 <=> ~SameMessage(l, k)
         /\ k.off = 1 => LaterMessage(l, k)
<1>1. /\ k.msg \in 1..n /\ k.msg \in Nat /\ l.msg \in Nat /\ l.brk \in Nat /\ k.brk \in Nat
      /\ l.off \in Nat /\ k.off \in 1..EndOf(k.msg)
  BY DEF PlaceOK
<1>2. k.msg \in DOMAIN Contents
  BY <1>1, MessageNumbers
<1>3. Size(k.msg) \in Nat
  BY <1>2, CodedIs
<1>4. PICK m, o : m = k.msg /\ o = k.off
  OBVIOUS
<1>5. m \in DOMAIN Contents /\ o \in 1..(2 * Size(m) + 3) /\ c = Coded(m)[o]
  BY <1>1, <1>2, <1>4 DEF EndOf
<1>6. /\ c = Colon <=> o = 1
      /\ c = CR <=> o = 2 * Size(m) + 2
      /\ c = LF <=> o = 2 * Size(m) + 3
      /\ c \in Digit <=> o \in 2..(2 * Size(m) + 1)
  BY <1>5, MarkerPlaces
<1>7. SameMessage(l, k) => k.off # 1
  BY <1>1 DEF SameMessage, PlaceOK
<1>8. ~SameMessage(l, k) => k.off = 1 /\ LaterMessage(l, k)
  BY DEF LaterMessage
<1> QED
  BY <1>1, <1>2, <1>3, <1>4, <1>6, <1>7, <1>8 DEF EndOf

\* The steps of the parser between the places l and k.
LEMMA AwaitStartStep ==
  ASSUME NEW n \in Nat, NEW b \in Nat, n <= Len(Contents), NEW l, NEW k,
         PlaceOK(l, n, b), PlaceOK(k, n, b), k.msg # 0,
         SameMessage(l, k) \/ LaterMessage(l, k), byteData = Coded(k.msg)[k.off],
         m_dwRevCount \in Nat, AwaitStart,
         NEW swallowed \in Nat, SwallowedAt(m_bInRevFlag, l, swallowed)
  PROVE  /\ m_bInRevFlag' \in Flags /\ m_dwRevCount' \in Nat
         /\ m_uchsRevMesNow' = m_uchsRevMesNow
         /\ ParserAt(m_bInRevFlag', m_dwRevCount', m_uchsRevMesNow', k)
         /\ Limit(m_bInRevFlag, l) <= Limit(m_bInRevFlag', k)
         /\ SwallowedAt(m_bInRevFlag', k, IF byteData = LF THEN swallowed + 1 ELSE swallowed)
<1>1. PICK c : c = byteData
  OBVIOUS
<1>2. /\ k.msg \in DOMAIN Contents /\ Size(k.msg) \in Nat /\ k.off \in 1..EndOf(k.msg)
      /\ l.msg \in Nat /\ k.msg \in Nat /\ l.brk \in Nat /\ k.brk \in Nat /\ l.off \in Nat
      /\ c = Colon <=> k.off = 1
      /\ c = LF <=> k.off = EndOf(k.msg)
      /\ k.off = 1 <=> ~SameMessage(l, k)
      /\ k.off = 1 => LaterMessage(l, k)
  BY <1>1, SymbolAt
<1>3. /\ m_bInRevFlag = "START" /\ m_uchsRevMesNow' = m_uchsRevMesNow
      /\ m_bInRevFlag' = (IF c = Colon THEN "CONT1" ELSE "START")
      /\ m_dwRevCount' = (IF c = Colon THEN 0 ELSE m_dwRevCount)
  BY <1>1 DEF AwaitStart
<1>4. /\ swallowed \in 0..l.brk /\ (~Final(l) => swallowed < l.brk)
  BY <1>3 DEF SwallowedAt
<1>5. CASE c = Colon
  <2>1. /\ k.off = 1 /\ k.msg > l.msg /\ k.brk >= l.brk /\ c # LF
    BY <1>2, <1>5, Markers DEF LaterMessage
  <2>2. m_bInRevFlag' = "CONT1" /\ m_dwRevCount' = 0
    BY <1>3, <1>5
  <2>3. ParserAt(m_bInRevFlag', m_dwRevCount', m_uchsRevMesNow', k)
    BY <1>2, <2>1, <2>2 DEF ParserAt
  <2>4. Limit(m_bInRevFlag, l) <= Limit(m_bInRevFlag', k)
    BY <1>2, <1>3, <2>1, <2>2 DEF Limit
  <2>5. SwallowedAt(m_bInRevFlag', k, swallowed)
    BY <1>2, <1>4, <2>1, <2>2 DEF SwallowedAt
  <2> QED
    BY <1>1, <1>3, <2>1, <2>2, <2>3, <2>4, <2>5 DEF Flags
<1>6. CASE c # Colon
  <2>1. ~Final(l) /\ k.msg = l.msg /\ k.off = l.off + 1 /\ k.brk = l.brk
    BY <1>2, <1>6 DEF SameMessage
  <2>2. m_bInRevFlag' = "START" /\ m_dwRevCount' = m_dwRevCount
    BY <1>3, <1>6
  <2>3. ParserAt(m_bInRevFlag', m_dwRevCount', m_uchsRevMesNow', k)
    BY <2>2 DEF ParserAt
  <2>4. Limit(m_bInRevFlag, l) <= Limit(m_bInRevFlag', k)
    BY <1>2, <1>3, <2>1, <2>2 DEF Limit
  <2>5. SwallowedAt(m_bInRevFlag', k, IF c = LF THEN swallowed + 1 ELSE swallowed)
    <3>1. c = LF => Final(k)
      BY <1>2 DEF Final
    <3> QED
      BY <1>2, <1>4, <2>1, <2>2, <3>1 DEF SwallowedAt
  <2> QED
    BY <1>1, <1>3, <2>2, <2>3, <2>4, <2>5 DEF Flags
<1> QED
  BY <1>5, <1>6

\* A message that is begun anew ends the one before it.
LEMMA BegunAnew ==
  ASSUME NEW n \in Nat, NEW b \in Nat, n <= Len(Contents), NEW l, NEW k,
         PlaceOK(l, n, b), PlaceOK(k, n, b), k.msg # 0, LaterMessage(l, k), ~Final(l),
         NEW flag, flag # "START", NEW count, NEW now,
         NEW swallowed \in Nat, SwallowedAt(flag, l, swallowed)
  PROVE  /\ ParserAt("START", count, now, k)
         /\ Limit(flag, l) <= Limit("START", k)
         /\ SwallowedAt("START", k, swallowed)
<1>1. /\ k.msg \in Nat /\ l.msg \in Nat /\ k.msg > l.msg
      /\ l.brk \in Nat /\ k.brk \in Nat /\ k.brk > l.brk
  BY DEF PlaceOK, LaterMessage
<1>2. ParserAt("START", count, now, k)
  BY DEF ParserAt
<1>3. Limit(flag, l) <= Limit("START", k)
  BY <1>1 DEF Limit
<1>4. SwallowedAt("START", k, swallowed)
  BY <1>1 DEF SwallowedAt
<1> QED
  BY <1>2, <1>3, <1>4

\* The next symbol of the message the parser is in.
LEMMA WithinMessage ==
  ASSUME NEW n \in Nat, NEW b \in Nat, n <= Len(Contents), NEW l, NEW k,
         PlaceOK(l, n, b), PlaceOK(k, n, b), k.msg # 0, SameMessage(l, k),
         NEW flag, flag # "START", NEW next, next # "START",
         NEW swallowed \in Nat, SwallowedAt(flag, l, swallowed)
  PROVE  Limit(flag, l) <= Limit(next, k) /\ SwallowedAt(next, k, swallowed)
<1>1. k.msg \in Nat /\ l.msg = k.msg /\ l.brk = k.brk
  BY DEF PlaceOK, SameMessage
<1> QED
  BY <1>1 DEF Limit, SwallowedAt

LEMMA HighDigitStep ==
  ASSUME NEW n \in Nat, NEW b \in Nat, n <= Len(Contents), NEW l, NEW k,
         PlaceOK(l, n, b), PlaceOK(k, n, b), k.msg # 0,
         SameMessage(l, k) \/ LaterMessage(l, k), byteData = Coded(k.msg)[k.off],
         m_dwRevCount \in Nat, m_uchsRevMesNow \in Buffers, HighDigit,
         ParserAt(m_bInRevFlag, m_dwRevCount, m_uchsRevMesNow, l),
         NEW swallowed \in Nat, SwallowedAt(m_bInRevFlag, l, swallowed)
  PROVE  /\ m_bInRevFlag' \in Flags /\ m_dwRevCount' \in Nat
         /\ m_uchsRevMesNow' \in Buffers
         /\ ParserAt(m_bInRevFlag', m_dwRevCount', m_uchsRevMesNow', k)
         /\ Limit(m_bInRevFlag, l) <= Limit(m_bInRevFlag', k)
         /\ SwallowedAt(m_bInRevFlag', k, IF byteData = LF THEN swallowed + 1 ELSE swallowed)
<1>1. PICK c, count, now, new : /\ c = byteData /\ count = m_dwRevCount
                                /\ now = m_uchsRevMesNow /\ new = m_uchsRevMesNow'
  OBVIOUS
<1>2. /\ k.msg \in DOMAIN Contents /\ Size(k.msg) \in Nat /\ k.off \in 1..EndOf(k.msg)
      /\ l.msg \in Nat /\ k.msg \in Nat /\ l.brk \in Nat /\ k.brk \in Nat /\ l.off \in Nat
      /\ c = Colon <=> k.off = 1
      /\ c = CR <=> k.off = 2 * Size(k.msg) + 2
      /\ c = LF <=> k.off = EndOf(k.msg)
      /\ c \in Digit <=> k.off \in 2..(2 * Size(k.msg) + 1)
      /\ k.off = 1 <=> ~SameMessage(l, k)
      /\ k.off = 1 => LaterMessage(l, k)
  BY <1>1, SymbolAt
<1>3. /\ m_bInRevFlag = "CONT1" /\ m_dwRevCount' = count
      /\ m_bInRevFlag' = (IF c \in Digit THEN "CONT0" ELSE IF c = CR THEN "END" ELSE "START")
      /\ new = IF c \in Digit THEN [now EXCEPT ![count] = c * Base] ELSE now
  BY <1>1 DEF HighDigit
<1>4. /\ l.msg \in DOMAIN Contents /\ count \in 0..Size(l.msg) /\ l.off = 2 * count + 1
      /\ \A i \in 1..count : now[i - 1] = Bytes(l.msg)[i]
      /\ Size(l.msg) \in Nat /\ Size(l.msg) <= IADM_MES_MAX_LEN /\ IADM_MES_MAX_LEN \in Nat
  <2>1. /\ l.msg \in DOMAIN Contents /\ count \in 0..Size(l.msg) /\ l.off = 2 * count + 1
        /\ \A i \in 1..count : now[i - 1] = Bytes(l.msg)[i]
    BY <1>1, <1>3 DEF ParserAt
  <2>2. IADM_MES_MAX_LEN \in Nat
    BY CommAssumption DEF CommAssumption
  <2> QED
    BY <2>1, <2>2, CodedIs
<1>5. ~Final(l)
  <2>1. l.msg # 0
    BY <1>4, MessageNumbers
  <2> QED
    BY <1>4, <2>1 DEF Final, EndOf
<1>6. now \in Buffers /\ count \in Nat
  BY <1>1
<1>7. CASE k.off = 1
  <2>1. c \notin Digit /\ c # CR /\ c # LF
    BY <1>2, <1>7, Markers
  <2>2. m_bInRevFlag' = "START" /\ new = now
    BY <1>3, <2>1
  <2>3. m_bInRevFlag # "START"
    BY <1>3
  <2>4. /\ ParserAt("START", count, now, k)
        /\ Limit(m_bInRevFlag, l) <= Limit("START", k)
        /\ SwallowedAt("START", k, swallowed)
    BY <1>2, <1>5, <1>7, <2>3, BegunAnew
  <2> QED
    BY <1>1, <1>3, <1>6, <2>1, <2>2, <2>4 DEF Flags
<1>8. CASE k.off # 1
  <2>1. SameMessage(l, k) /\ k.msg = l.msg /\ k.off = 2 * count + 2
    BY <1>2, <1>4, <1>8 DEF SameMessage
  <2>2. m_bInRevFlag # "START"
    BY <1>3
  <2>3. c # LF
    BY <1>2, <1>4, <2>1 DEF EndOf
  <2>4. CASE count < Size(l.msg)
    <3>1. c \in Digit
      BY <1>2, <1>4, <2>1, <2>4
    <3>2. m_bInRevFlag' = "CONT0" /\ new = [now EXCEPT ![count] = c * Base]
      BY <1>3, <3>1
    <3>3. count \in 0..(IADM_MES_MAX_LEN - 1) /\ count \in 0..(Size(k.msg) - 1)
      BY <1>4, <2>1, <2>4
    <3>4. c = Coded(k.msg)[2 * (count + 1)] /\ c * Base \in Byte
      <4>1. c = Coded(k.msg)[2 * (count + 1)]
        <5>1. k.off = 2 * (count + 1)
          BY <1>6, <2>1
        <5> QED
          BY <1>1, <5>1
      <4>2. count + 1 \in 1..Size(k.msg)
        BY <1>4, <2>1, <2>4
      <4> QED
        BY <1>2, <4>1, <4>2, ByteRead
    <3>5. new \in Buffers /\ new[count] = c * Base
          /\ \A i \in 0..(IADM_MES_MAX_LEN - 1) : i # count => new[i] = now[i]
      BY <1>6, <3>2, <3>3, <3>4 DEF Buffers
    <3>6. \A i \in 1..count : new[i - 1] = Bytes(k.msg)[i]
      <4>1. ASSUME NEW i \in 1..count PROVE new[i - 1] = Bytes(k.msg)[i]
        <5>1. i - 1 \in 0..(IADM_MES_MAX_LEN - 1) /\ i - 1 # count
          BY <1>4, <1>6, <3>3
        <5> QED
          BY <1>4, <2>1, <3>5, <5>1
      <4> QED
        BY <4>1
    <3>7. ParserAt("CONT0", count, new, k)
      BY <1>2, <2>1, <3>3, <3>4, <3>5, <3>6 DEF ParserAt
    <3>8. Limit(m_bInRevFlag, l) <= Limit("CONT0", k) /\ SwallowedAt("CONT0", k, swallowed)
      BY <2>1, <2>2, WithinMessage
    <3> QED
      BY <1>1, <1>3, <2>3, <3>2, <3>5, <3>7, <3>8 DEF Flags
  <2>5. CASE count = Size(l.msg)
    <3>1. c = CR
      BY <1>2, <1>4, <2>1, <2>5
    <3>2. m_bInRevFlag' = "END" /\ new = now
      BY <1>3, <3>1, Markers
    <3>3. ParserAt("END", count, now, k)
      BY <1>2, <1>4, <2>1, <2>5 DEF ParserAt
    <3>4. Limit(m_bInRevFlag, l) <= Limit("END", k) /\ SwallowedAt("END", k, swallowed)
      BY <2>1, <2>2, WithinMessage
    <3> QED
      BY <1>1, <1>3, <1>6, <2>3, <3>2, <3>3, <3>4 DEF Flags
  <2> QED
    BY <1>4, <2>4, <2>5
<1> QED
  BY <1>7, <1>8

LEMMA LowDigitStep ==
  ASSUME NEW n \in Nat, NEW b \in Nat, n <= Len(Contents), NEW l, NEW k,
         PlaceOK(l, n, b), PlaceOK(k, n, b), k.msg # 0,
         SameMessage(l, k) \/ LaterMessage(l, k), byteData = Coded(k.msg)[k.off],
         m_dwRevCount \in Nat, m_uchsRevMesNow \in Buffers, LowDigit,
         ParserAt(m_bInRevFlag, m_dwRevCount, m_uchsRevMesNow, l),
         NEW swallowed \in Nat, SwallowedAt(m_bInRevFlag, l, swallowed)
  PROVE  /\ m_bInRevFlag' \in Flags /\ m_dwRevCount' \in Nat
         /\ m_uchsRevMesNow' \in Buffers
         /\ ParserAt(m_bInRevFlag', m_dwRevCount', m_uchsRevMesNow', k)
         /\ Limit(m_bInRevFlag, l) <= Limit(m_bInRevFlag', k)
         /\ SwallowedAt(m_bInRevFlag', k, IF byteData = LF THEN swallowed + 1 ELSE swallowed)
<1>1. PICK c, count, now, new : /\ c = byteData /\ count = m_dwRevCount
                                /\ now = m_uchsRevMesNow /\ new = m_uchsRevMesNow'
  OBVIOUS
<1>2. /\ k.msg \in DOMAIN Contents /\ Size(k.msg) \in Nat /\ k.off \in 1..EndOf(k.msg)
      /\ l.msg \in Nat /\ k.msg \in Nat /\ l.brk \in Nat /\ k.brk \in Nat /\ l.off \in Nat
      /\ c = Colon <=> k.off = 1
      /\ c = LF <=> k.off = EndOf(k.msg)
      /\ c \in Digit <=> k.off \in 2..(2 * Size(k.msg) + 1)
      /\ k.off = 1 <=> ~SameMessage(l, k)
      /\ k.off = 1 => LaterMessage(l, k)
  BY <1>1, SymbolAt
<1>3. /\ m_bInRevFlag = "CONT0"
      /\ c \in Digit => /\ new = [now EXCEPT ![count] = @ + c]
                        /\ m_dwRevCount' = count + 1 /\ m_bInRevFlag' = "CONT1"
      /\ c \notin Digit => m_bInRevFlag' = "START" /\ m_dwRevCount' = count /\ new = now
  BY <1>1 DEF LowDigit
<1>4. /\ l.msg \in DOMAIN Contents /\ count \in 0..(Size(l.msg) - 1) /\ l.off = 2 * count + 2
      /\ now[count] = Coded(l.msg)[2 * (count + 1)] * Base
      /\ \A i \in 1..count : now[i - 1] = Bytes(l.msg)[i]
      /\ Size(l.msg) \in Nat /\ Size(l.msg) <= IADM_MES_MAX_LEN /\ IADM_MES_MAX_LEN \in Nat
  <2>1. /\ l.msg \in DOMAIN Contents /\ count \in 0..(Size(l.msg) - 1)
        /\ l.off = 2 * count + 2
        /\ now[count] = Coded(l.msg)[2 * (count + 1)] * Base
        /\ \A i \in 1..count : now[i - 1] = Bytes(l.msg)[i]
    BY <1>1, <1>3 DEF ParserAt
  <2>2. IADM_MES_MAX_LEN \in Nat
    BY CommAssumption DEF CommAssumption
  <2> QED
    BY <2>1, <2>2, CodedIs
<1>5. ~Final(l)
  <2>1. l.msg # 0
    BY <1>4, MessageNumbers
  <2> QED
    BY <1>4, <2>1 DEF Final, EndOf
<1>6. now \in Buffers /\ count \in Nat
  BY <1>1
<1>7. CASE k.off = 1
  <2>1. c \notin Digit /\ c # LF
    BY <1>2, <1>7, Markers
  <2>2. m_bInRevFlag' = "START" /\ m_dwRevCount' = count /\ new = now
    BY <1>3, <2>1
  <2>3. m_bInRevFlag # "START"
    BY <1>3
  <2>4. /\ ParserAt("START", count, now, k)
        /\ Limit(m_bInRevFlag, l) <= Limit("START", k)
        /\ SwallowedAt("START", k, swallowed)
    BY <1>2, <1>5, <1>7, <2>3, BegunAnew
  <2> QED
    BY <1>1, <1>6, <2>1, <2>2, <2>4 DEF Flags
<1>8. CASE k.off # 1
  <2>1. SameMessage(l, k) /\ k.msg = l.msg /\ k.off = 2 * count + 3
    BY <1>2, <1>4, <1>8 DEF SameMessage
  <2>2. m_bInRevFlag # "START"
    BY <1>3
  <2>3. c # LF /\ c \in Digit
    BY <1>2, <1>4, <2>1 DEF EndOf
  <2>4. /\ m_bInRevFlag' = "CONT1" /\ m_dwRevCount' = count + 1
        /\ new = [now EXCEPT ![count] = now[count] + c]
    BY <1>3, <2>3
  <2>5. count \in 0..(IADM_MES_MAX_LEN - 1) /\ count + 1 \in 1..Size(k.msg)
    BY <1>4, <2>1
  <2>6. now[count] + c = Bytes(k.msg)[count + 1] /\ Bytes(k.msg)[count + 1] \in Byte
    <3>1. k.off = 2 * (count + 1) + 1
      BY <1>6, <2>1
    <3>2. c = Coded(k.msg)[2 * (count + 1) + 1]
      BY <1>1, <3>1
    <3> QED
      BY <1>2, <1>4, <2>1, <2>5, <3>2, ByteRead
  <2>7. new \in Buffers /\ new[count] = Bytes(k.msg)[count + 1]
        /\ \A i \in 0..(IADM_MES_MAX_LEN - 1) : i # count => new[i] = now[i]
    BY <1>6, <2>4, <2>5, <2>6 DEF Buffers
  <2>8. \A i \in 1..(count + 1) : new[i - 1] = Bytes(k.msg)[i]
    <3>1. ASSUME NEW i \in 1..(count + 1) PROVE new[i - 1] = Bytes(k.msg)[i]
      <4>1. CASE i = count + 1
        <5>1. i - 1 = count
          BY <1>6, <4>1
        <5> QED
          BY <2>7, <4>1, <5>1
      <4>2. CASE i # count + 1
        <5>1. i \in 1..count /\ i - 1 \in 0..(IADM_MES_MAX_LEN - 1) /\ i - 1 # count
          BY <1>4, <1>6, <2>5, <4>2
        <5> QED
          BY <1>4, <2>1, <2>7, <5>1
      <4> QED
        BY <4>1, <4>2
    <3> QED
      BY <3>1
  <2>9. ParserAt("CONT1", count + 1, new, k)
    <3>1. count + 1 \in 0..Size(k.msg) /\ k.off = 2 * (count + 1) + 1
      BY <1>4, <2>1, <2>5
    <3> QED
      BY <1>2, <2>8, <3>1 DEF ParserAt
  <2>10. Limit(m_bInRevFlag, l) <= Limit("CONT1", k) /\ SwallowedAt("CONT1", k, swallowed)
    BY <2>1, <2>2, WithinMessage
  <2>11. count + 1 \in Nat
    BY <1>6
  <2> QED
    BY <1>1, <2>3, <2>4, <2>7, <2>9, <2>10, <2>11 DEF Flags
<1> QED
  BY <1>7, <1>8

-----------------------------------------------------------------------------
(* What is accepted.                                                       *)

\* The messages acc were sent, in this order, and are among the first ones.
AcceptedAt(acc, limit) ==
  \E place \in [1..Len(acc) -> 1..limit] :
    /\ \A i, j \in 1..Len(acc) : i < j => place[i] < place[j]
    /\ \A i \in 1..Len(acc) : acc[i] = Bytes(place[i])

LEMMA AcceptedAmongMore ==
  ASSUME NEW acc, NEW m \in Int, NEW n \in Int, m <= n, AcceptedAt(acc, m)
  PROVE  AcceptedAt(acc, n)
<1>1. PICK place \in [1..Len(acc) -> 1..m] :
        /\ \A i, j \in 1..Len(acc) : i < j => place[i] < place[j]
        /\ \A i \in 1..Len(acc) : acc[i] = Bytes(place[i])
  BY DEF AcceptedAt
<1>2. 1..m \subseteq 1..n
  OBVIOUS
<1>3. place \in [1..Len(acc) -> 1..n]
  BY <1>2
<1> QED
  BY <1>1, <1>3 DEF AcceptedAt

LEMMA AcceptedNext ==
  ASSUME NEW acc \in Seq(Seq(Byte)), NEW m \in Nat, m > 0, AcceptedAt(acc, m - 1),
         NEW bytes \in Seq(Byte), bytes = Bytes(m), NEW more, more = Append(acc, bytes)
  PROVE  /\ AcceptedAt(more, m) /\ more \in Seq(Seq(Byte))
         /\ Len(more) = Len(acc) + 1 /\ Len(acc) \in Nat
<1>1. /\ more \in Seq(Seq(Byte)) /\ Len(more) = Len(acc) + 1 /\ Len(acc) \in Nat
      /\ more[Len(acc) + 1] = bytes
      /\ \A i \in 1..Len(acc) : more[i] = acc[i]
  OBVIOUS
<1>2. PICK place \in [1..Len(acc) -> 1..(m - 1)] :
        /\ \A i, j \in 1..Len(acc) : i < j => place[i] < place[j]
        /\ \A i \in 1..Len(acc) : acc[i] = Bytes(place[i])
  BY DEF AcceptedAt
<1> DEFINE new == [i \in 1..Len(more) |-> IF i = Len(more) THEN m ELSE place[i]]
<1>3. /\ new[Len(acc) + 1] = m
      /\ \A i \in 1..Len(acc) : new[i] = place[i] /\ place[i] \in 1..(m - 1)
  <2>1. Len(acc) + 1 \in 1..Len(more) /\ Len(acc) + 1 = Len(more)
    BY <1>1
  <2>2. ASSUME NEW i \in 1..Len(acc)
        PROVE  i \in 1..Len(more) /\ i # Len(more) /\ place[i] \in 1..(m - 1)
    <3>1. i \in 1..Len(more) /\ i # Len(more)
      BY <1>1
    <3>2. place[i] \in 1..(m - 1)
      BY <1>2
    <3> QED
      BY <3>1, <3>2
  <2> QED
    BY <2>1, <2>2
<1>4. \A i \in 1..Len(more) : i = Len(acc) + 1 \/ i \in 1..Len(acc)
  BY <1>1
<1>5. new \in [1..Len(more) -> 1..m]
  <2>1. ASSUME NEW i \in 1..Len(more) PROVE new[i] \in 1..m
    <3> HIDE DEF new
    <3> QED
      BY <1>3, <1>4
  <2> QED
    BY <2>1
<1> HIDE DEF new
<1>6. ASSUME NEW i \in 1..Len(more), NEW j \in 1..Len(more), i < j
      PROVE  new[i] < new[j]
  <2>1. i \in 1..Len(acc)
    BY <1>1, <1>4, <1>6
  <2>2. CASE j = Len(acc) + 1
    BY <1>3, <2>1, <2>2
  <2>3. CASE j \in 1..Len(acc)
    BY <1>2, <1>3, <1>6, <2>1, <2>3
  <2> QED
    BY <1>4, <2>2, <2>3
<1>7. ASSUME NEW i \in 1..Len(more) PROVE more[i] = Bytes(new[i])
  <2>1. CASE i = Len(acc) + 1
    BY <1>1, <1>3, <2>1
  <2>2. CASE i \in 1..Len(acc)
    BY <1>1, <1>2, <1>3, <2>2
  <2> QED
    BY <1>4, <2>1, <2>2
<1> QED
  BY <1>1, <1>5, <1>6, <1>7 DEF AcceptedAt

\* A whole message of the image server passes all the tests.
LEMMA WholeIsValid ==
  ASSUME NEW l, l.msg \in DOMAIN Contents, m_uchsRevMesNow \in Buffers,
         m_bInRevFlag = "END",
         ParserAt(m_bInRevFlag, m_dwRevCount, m_uchsRevMesNow, l)
  PROVE  Valid /\ Received = Bytes(l.msg)
<1>1. PICK m, c, size, now : /\ m = l.msg /\ c = Contents[m] /\ size = Size(m)
                            /\ now = m_uchsRevMesNow
  OBVIOUS
<1>2. /\ m \in DOMAIN Contents /\ c \in Seq(Byte) /\ Len(c) \in Nat /\ Len(c) >= 2
      /\ c[1] \in Addresses /\ c[2] \in Kinds
  BY <1>1, CommAssumption DEF CommAssumption
<1>3. /\ size \in Nat /\ size = Len(c) + 1
      /\ Bytes(m) \in Seq(Byte) /\ Len(Bytes(m)) = size
  <2>1. Size(m) \in Nat /\ Bytes(m) \in Seq(Byte) /\ Len(Bytes(m)) = Size(m)
    BY <1>2, CodedIs
  <2> QED
    BY <1>1, <2>1 DEF Size
<1>4. m_dwRevCount = size /\ \A i \in 1..size : now[i - 1] = Bytes(m)[i]
  BY <1>1 DEF ParserAt
<1>5. \A i \in 1..Len(c) : Bytes(m)[i] = c[i]
  <2>1. generate_msg_validation_code(c) \in Byte
    BY <1>2, CodeIsByte
  <2> QED
    BY <1>1, <1>2, <2>1 DEF Bytes, Sealed
<1>6. now[0] = c[1] /\ now[1] = c[2]
  <2>1. /\ 1 \in 1..size /\ 2 \in 1..size /\ 1 \in 1..Len(c) /\ 2 \in 1..Len(c)
        /\ 1 - 1 = 0 /\ 2 - 1 = 1
    BY <1>2, <1>3
  <2>2. now[1 - 1] = Bytes(m)[1] /\ now[2 - 1] = Bytes(m)[2]
    BY <1>4, <2>1
  <2> QED
    BY <1>5, <2>1, <2>2
<1>7. Received = Bytes(m)
  <2>1. Received = [i \in 1..size |-> Bytes(m)[i]]
    BY <1>1, <1>4 DEF Received
  <2>2. Bytes(m) = [i \in 1..size |-> Bytes(m)[i]]
    BY <1>3
  <2> QED
    BY <2>1, <2>2
<1>8. check_msg_validation(Bytes(m))
  <2>1. c # << >>
    BY <1>2
  <2> QED
    BY <1>1, <1>2, <2>1, SealedIsValid DEF Bytes
<1> QED
  BY <1>1, <1>2, <1>6, <1>7, <1>8 DEF Valid

LEMMA EndOfMessageStep ==
  ASSUME NEW n \in Nat, NEW b \in Nat, n <= Len(Contents), NEW l, NEW k,
         PlaceOK(l, n, b), PlaceOK(k, n, b), k.msg # 0,
         SameMessage(l, k) \/ LaterMessage(l, k), byteData = Coded(k.msg)[k.off],
         m_dwRevCount \in Nat, m_uchsRevMesNow \in Buffers, EndOfMessage,
         ParserAt(m_bInRevFlag, m_dwRevCount, m_uchsRevMesNow, l),
         NEW swallowed \in Nat, SwallowedAt(m_bInRevFlag, l, swallowed)
  PROVE  /\ m_bInRevFlag' = "START"
         /\ m_dwRevCount' = m_dwRevCount /\ m_uchsRevMesNow' = m_uchsRevMesNow
         /\ ParserAt(m_bInRevFlag', m_dwRevCount', m_uchsRevMesNow', k)
         /\ SwallowedAt(m_bInRevFlag', k, swallowed)
         /\ \/ /\ byteData # LF /\ NothingAccepted
               /\ Limit(m_bInRevFlag, l) <= Limit(m_bInRevFlag', k)
            \/ /\ byteData = LF /\ PushBackOneMessage
               /\ Received = Bytes(k.msg) /\ k.msg \in DOMAIN Contents
               /\ Limit(m_bInRevFlag, l) = k.msg - 1 /\ Limit(m_bInRevFlag', k) = k.msg
<1>1. PICK c, count, now : c = byteData /\ count = m_dwRevCount /\ now = m_uchsRevMesNow
  OBVIOUS
<1>2. /\ k.msg \in DOMAIN Contents /\ Size(k.msg) \in Nat /\ k.off \in 1..EndOf(k.msg)
      /\ l.msg \in Nat /\ k.msg \in Nat /\ l.brk \in Nat /\ k.brk \in Nat /\ l.off \in Nat
      /\ c = Colon <=> k.off = 1
      /\ c = LF <=> k.off = EndOf(k.msg)
      /\ k.off = 1 <=> ~SameMessage(l, k)
      /\ k.off = 1 => LaterMessage(l, k)
  BY <1>1, SymbolAt
<1>3. /\ m_bInRevFlag = "END" /\ m_bInRevFlag' = "START"
      /\ m_dwRevCount' = count /\ m_uchsRevMesNow' = now
      /\ c = LF /\ Valid => PushBackOneMessage
      /\ c # LF => NothingAccepted
  BY <1>1 DEF EndOfMessage
<1>4. l.msg \in DOMAIN Contents /\ l.off = 2 * Size(l.msg) + 2 /\ Size(l.msg) \in Nat
  <2>1. l.msg \in DOMAIN Contents /\ l.off = 2 * Size(l.msg) + 2
    BY <1>1, <1>3 DEF ParserAt
  <2> QED
    BY <2>1, CodedIs
<1>5. ~Final(l)
  <2>1. l.msg # 0
    BY <1>4, MessageNumbers
  <2> QED
    BY <1>4, <2>1 DEF Final, EndOf
<1>6. ParserAt("START", count, now, k)
  BY DEF ParserAt
<1>7. CASE k.off = 1
  <2>1. c # LF
    BY <1>2, <1>7, Markers
  <2>2. m_bInRevFlag # "START"
    BY <1>3
  <2>3. /\ Limit(m_bInRevFlag, l) <= Limit("START", k)
        /\ SwallowedAt("START", k, swallowed)
    BY <1>2, <1>5, <1>7, <2>2, BegunAnew
  <2> QED
    BY <1>1, <1>3, <1>6, <2>1, <2>3
<1>8. CASE k.off # 1
  <2>1. SameMessage(l, k) /\ k.msg = l.msg /\ k.off = EndOf(k.msg) /\ k.brk = l.brk
    BY <1>2, <1>4, <1>8 DEF SameMessage, EndOf
  <2>2. c = LF
    BY <1>2, <2>1
  <2>3. Valid /\ Received = Bytes(k.msg)
    BY <1>3, <1>4, <2>1, WholeIsValid
  <2>4. Limit(m_bInRevFlag, l) = k.msg - 1 /\ Limit("START", k) = k.msg
    BY <1>3, <2>1 DEF Limit
  <2>5. SwallowedAt("START", k, swallowed)
    BY <1>2, <1>3, <2>1 DEF SwallowedAt, Final
  <2> QED
    BY <1>1, <1>2, <1>3, <1>6, <2>2, <2>3, <2>4, <2>5
<1> QED
  BY <1>7, <1>8

-----------------------------------------------------------------------------
(* The ends of messages among symbols.                                     *)

EndPlaces(s) == {i \in DOMAIN s : s[i] = LF}

LEMMA EndsIsNat ==
  ASSUME NEW s \in Seq(Symbol)
  PROVE  /\ IsFiniteSet(EndPlaces(s)) /\ Ends(s) = Cardinality(EndPlaces(s))
         /\ Ends(s) \in Nat
<1>1. DOMAIN s = 1..Len(s) /\ Len(s) \in Nat
  OBVIOUS
<1>2. IsFiniteSet(DOMAIN s)
  BY <1>1, FS_Interval
<1>3. EndPlaces(s) \in SUBSET DOMAIN s
  BY DEF EndPlaces
<1>4. IsFiniteSet(EndPlaces(s))
  BY <1>2, <1>3, FS_Subset
<1>5. Ends(s) = Cardinality(EndPlaces(s))
  BY DEF Ends, EndPlaces
<1> QED
  BY <1>4, <1>5, FS_CardinalityType

LEMMA EndsJoined ==
  ASSUME NEW s \in Seq(Symbol), NEW t \in Seq(Symbol)
  PROVE  Ends(s \o t) = Ends(s) + Ends(t)
<1>1. PICK u : u = s \o t
  OBVIOUS
<1>2. /\ u \in Seq(Symbol) /\ Len(u) = Len(s) + Len(t)
      /\ \A i \in 1..Len(s) : u[i] = s[i]
      /\ \A i \in 1..Len(t) : u[Len(s) + i] = t[i]
  BY <1>1, Joined
<1>3. /\ Len(s) \in Nat /\ Len(t) \in Nat /\ DOMAIN s = 1..Len(s) /\ DOMAIN t = 1..Len(t)
      /\ DOMAIN u = 1..Len(u)
  BY <1>2
<1> DEFINE A == EndPlaces(s)
           B == EndPlaces(t)
           C == {i \in DOMAIN u : u[i] = LF /\ i > Len(s)}
           f == [i \in B |-> Len(s) + i]
<1>4. /\ IsFiniteSet(A) /\ Ends(s) = Cardinality(A)
      /\ IsFiniteSet(B) /\ Ends(t) = Cardinality(B) /\ Ends(u) = Cardinality(EndPlaces(u))
  BY <1>2, EndsIsNat
<1>5. ASSUME NEW i \in B PROVE i \in 1..Len(t) /\ f[i] \in C /\ f[i] = Len(s) + i
  <2>1. i \in 1..Len(t) /\ t[i] = LF
    BY <1>3 DEF EndPlaces
  <2>2. Len(s) + i \in 1..Len(u) /\ Len(s) + i > Len(s) /\ u[Len(s) + i] = LF
    BY <1>2, <1>3, <2>1
  <2> QED
    BY <1>3, <2>1, <2>2
<1>6. ASSUME NEW i \in C PROVE i - Len(s) \in B /\ Len(s) + (i - Len(s)) = i
  <2>1. i \in 1..Len(u) /\ u[i] = LF /\ i > Len(s)
    BY <1>3
  <2>2. i - Len(s) \in 1..Len(t) /\ Len(s) + (i - Len(s)) = i
    BY <1>2, <1>3, <2>1
  <2>3. t[i - Len(s)] = LF
    BY <1>2, <2>1, <2>2
  <2> QED
    BY <1>3, <2>2, <2>3 DEF EndPlaces
<1>7. f \in Bijection(B, C)
  <2>1. f \in [B -> C]
    BY <1>5
  <2>2. \A i, j \in B : f[i] = f[j] => i = j
    <3>1. ASSUME NEW i \in B, NEW j \in B, f[i] = f[j] PROVE i = j
      <4>1. i \in Nat /\ j \in Nat /\ Len(s) + i = Len(s) + j
        BY <1>5, <3>1
      <4> QED
        BY ONLY <1>3, <4>1
    <3> QED
      BY <3>1
  <2>3. \A y \in C : \E x \in B : f[x] = y
    BY <1>5, <1>6
  <2> HIDE DEF f, B, C
  <2> QED
    BY <2>1, <2>2, <2>3 DEF Bijection, Injection, Surjection, IsInjective
<1>8. IsFiniteSet(C) /\ Cardinality(C) = Cardinality(B)
  <2>1. ExistsBijection(B, C)
    BY <1>7 DEF ExistsBijection
  <2> HIDE DEF B, C
  <2> QED
    BY <1>4, <2>1, FS_Bijection
<1>9. EndPlaces(u) = A \cup C
  <2>1. ASSUME NEW i PROVE i \in EndPlaces(u) <=> i \in A \cup C
    <3>1. i \in A <=> i \in 1..Len(s) /\ u[i] = LF
      BY <1>2, <1>3 DEF EndPlaces
    <3>2. i \in C <=> i \in 1..Len(u) /\ u[i] = LF /\ i > Len(s)
      BY <1>3
    <3>3. i \in EndPlaces(u) <=> i \in 1..Len(u) /\ u[i] = LF
      BY <1>3 DEF EndPlaces
    <3>4. i \in 1..Len(u) <=> i \in 1..Len(s) \/ (i \in 1..Len(u) /\ i > Len(s))
      BY <1>2, <1>3
    <3> QED
      BY <3>1, <3>2, <3>3, <3>4
  <2> QED
    BY <2>1
<1>10. A \cap C = {}
  BY <1>3 DEF EndPlaces
<1>11. Cardinality(A \cup C) = Cardinality(A) + Cardinality(C)
  <2> HIDE DEF A, C
  <2>1. Cardinality(A \cup C) = Cardinality(A) + Cardinality(C) - Cardinality(A \cap C)
    BY <1>4, <1>8, FS_Union
  <2>2. Cardinality(A) \in Nat /\ Cardinality(C) \in Nat
    BY <1>4, <1>8, FS_CardinalityType
  <2>3. Cardinality(A \cap C) = 0
    BY <1>10, FS_EmptySet
  <2> QED
    BY ONLY <2>1, <2>2, <2>3
<1> QED
  BY <1>1, <1>4, <1>8, <1>9, <1>11

\* One symbol less.
LEMMA EndsOfTail ==
  ASSUME NEW s \in Seq(Symbol), s # << >>
  PROVE  Ends(s) = (IF Head(s) = LF THEN 1 ELSE 0) + Ends(Tail(s))
<1>1. PICK h, r : h = Head(s) /\ r = Tail(s)
  OBVIOUS
<1>2. /\ Len(s) \in Nat /\ Len(s) > 0
      /\ h = s[1] /\ h \in Symbol /\ r \in Seq(Symbol) /\ Len(r) = Len(s) - 1
      /\ \A i \in 1..Len(r) : r[i] = s[i + 1]
  BY <1>1, EmptySeq
<1>3. <<h>> \in Seq(Symbol) /\ Len(<<h>>) = 1 /\ <<h>>[1] = h
  BY <1>2
<1>4. PICK u : u = <<h>> \o r
  OBVIOUS
<1>5. /\ u \in Seq(Symbol) /\ Len(u) = 1 + Len(r) /\ u[1] = h
      /\ \A i \in 1..Len(r) : u[1 + i] = r[i]
  <2>1. /\ u \in Seq(Symbol) /\ Len(u) = Len(<<h>>) + Len(r)
        /\ \A i \in 1..Len(<<h>>) : u[i] = <<h>>[i]
        /\ \A i \in 1..Len(r) : u[Len(<<h>>) + i] = r[i]
    BY <1>2, <1>3, <1>4, Joined
  <2> QED
    BY <1>3, <2>1
<1>6. u = s
  <2>1. Len(u) = Len(s)
    BY <1>2, <1>5
  <2>2. ASSUME NEW i \in 1..Len(s) PROVE u[i] = s[i]
    <3>1. CASE i = 1
      BY <1>2, <1>5, <3>1
    <3>2. CASE i # 1
      <4>1. i - 1 \in 1..Len(r) /\ 1 + (i - 1) = i /\ (i - 1) + 1 = i
        BY <1>2, <3>2
      <4> QED
        BY <1>2, <1>5, <4>1
    <3> QED
      BY <3>1, <3>2
  <2> QED
    BY <1>5, <2>1, <2>2, SeqEqual
<1>7. Ends(s) = Ends(<<h>>) + Ends(r)
  BY <1>2, <1>3, <1>4, <1>6, EndsJoined
<1>8. Ends(<<h>>) = IF h = LF THEN 1 ELSE 0
  <2>1. Ends(<<h>>) = Cardinality(EndPlaces(<<h>>))
    BY <1>3, EndsIsNat
  <2>2. EndPlaces(<<h>>) = IF h = LF THEN {1} ELSE {}
    <3>1. DOMAIN <<h>> = {1}
      OBVIOUS
    <3> QED
      BY <1>3, <3>1 DEF EndPlaces
  <2> QED
    BY <2>1, <2>2, FS_EmptySet, FS_Singleton
<1> QED
  BY <1>1, <1>7, <1>8

\* A message has one end.
LEMMA EndsOfMessage ==
  ASSUME NEW m \in DOMAIN Contents
  PROVE  Ends(Coded(m)) = 1
<1>1. PICK f, n : f = Coded(m) /\ n = 2 * Size(m) + 3
  OBVIOUS
<1>2. f \in Seq(Symbol) /\ Len(f) = n /\ n \in Nat /\ n > 0
  BY <1>1, CodedIs
<1>3. \A i \in 1..n : f[i] = LF <=> i = n
  BY <1>1, MarkerPlaces
<1>4. EndPlaces(f) = {n}
  <2>1. DOMAIN f = 1..n /\ n \in 1..n
    BY <1>2
  <2> QED
    BY <1>3, <2>1 DEF EndPlaces
<1> QED
  BY <1>1, <1>2, <1>4, EndsIsNat, FS_Singleton

-----------------------------------------------------------------------------
(* The inductive invariant.                                                *)

CommTypes ==
  /\ connected \in BOOLEAN
  /\ pc \in {"idle", "analyse", "take"}
  /\ pc # "analyse" => m_uchsRawData = << >>
  /\ m_bInRevFlag \in Flags
  /\ m_dwRevCount \in Nat
  /\ m_uchsRevMesNow \in Buffers
  /\ m_uchsRevMes \in [RingIndex -> Seq(Byte)]
  /\ m_dwRRevP \in RingIndex /\ m_dwRProcP \in RingIndex
  /\ sent \in Seq(Seq(Byte)) /\ accepted \in Seq(Seq(Byte))
  /\ dropped \in Nat /\ missed \in Nat /\ breaks \in 0..MaxBreaks

\* The messages are sent in their order.
SentOK ==
  /\ Len(sent) <= Len(Contents)
  /\ \A i \in 1..Len(sent) : sent[i] = Bytes(i)

\* The messages sent that were neither accepted nor missed, and do not come any more.
Swallowed == Len(sent) - (Len(accepted) + missed + Ends(Stream))

\* Where the symbols come from, and what the parser and the history have to do with it.
ParsedAt(at) ==
  /\ Labelled(Stream, Len(sent), breaks, at)
  /\ ParserAt(m_bInRevFlag, m_dwRevCount, m_uchsRevMesNow, at[0])
  /\ AcceptedAt(accepted, Limit(m_bInRevFlag, at[0]))
  /\ SwallowedAt(m_bInRevFlag, at[0], Swallowed)

CommInv ==
  /\ StreamTypes
  /\ CommTypes
  /\ SentOK
  /\ \E at : ParsedAt(at)

\* Nothing is on its way at first.
LEMMA InitStream == Init => StreamTypes /\ Stream = << >> /\ Ends(Stream) = 0
<1> SUFFICES ASSUME Init PROVE StreamTypes /\ Stream = << >> /\ Ends(Stream) = 0
  OBVIOUS
<1>1. RECEIVE_BUFFER_LEN \in Nat /\ RECEIVE_BUFFER_LEN > 0 /\ RawLength \in Nat
  BY CommAssumption DEF CommAssumption
<1>2. 0 \in Symbol
  BY BaseAssumption DEF Symbol, Digit
<1>3. SockTypes
  BY <1>1, <1>2 DEF Init, SockTypes
<1>4. StreamTypes
  BY <1>1, <1>3 DEF Init, StreamTypes
<1>5. Len(InBuffer) = 0 /\ InBuffer \in Seq(Symbol)
  BY <1>1, <1>3, InBufferIs DEF Stored, Init
<1>6. Stream \in Seq(Symbol) /\ Len(Stream) = Len(m_uchsRawData) + Len(InBuffer) + Len(wire)
  BY <1>4, StreamIsSeq
<1>7. Len(Stream) = 0
  BY <1>5, <1>6 DEF Init
<1>8. Stream = << >>
  BY <1>6, <1>7, EmptySeq
<1>9. Ends(Stream) = 0
  <2>1. EndPlaces(Stream) = {}
    BY <1>6, <1>7 DEF EndPlaces
  <2> QED
    BY <1>6, <2>1, EndsIsNat, FS_EmptySet
<1> QED
  BY <1>4, <1>8, <1>9

LEMMA InitHolds == Init => CommInv
<1> SUFFICES ASSUME Init PROVE CommInv
  OBVIOUS
<1>1. StreamTypes /\ Stream = << >> /\ Ends(Stream) = 0
  BY InitStream
<1>2. CommTypes
  <2>1. IADM_MES_MAX_LEN \in Nat /\ MaxBreaks \in Nat
    BY CommAssumption DEF CommAssumption
  <2>2. 0 \in Byte
    BY BaseAssumption DEF Byte
  <2>3. 0 \in RingIndex
    BY RowsNat DEF RingIndex, Rows
  <2> QED
    BY <2>1, <2>2, <2>3 DEF Init, CommTypes, Flags, Buffers, RingIndex
<1>3. SentOK
  BY MessageNumbers DEF Init, SentOK
<1> DEFINE at == [j \in {0} |-> [msg |-> 0, off |-> 0, brk |-> 0]]
<1>4. at[0].msg = 0 /\ at[0].off = 0 /\ at[0].brk = 0
  OBVIOUS
<1> HIDE DEF at
<1>5. Labelled(<< >>, 0, 0, at)
  <2>1. PlaceOK(at[0], 0, 0) /\ Final(at[0])
    BY <1>4 DEF PlaceOK, Final
  <2>2. Len(<< >>) = 0 /\ \A j \in 0..0 : j = 0
    OBVIOUS
  <2> QED
    BY <2>1, <2>2 DEF Labelled
<1>6. ParserAt("START", 0, m_uchsRevMesNow, at[0])
  BY DEF ParserAt
<1>7. AcceptedAt(<< >>, 0)
  <2>1. PICK place : place = [i \in 1..0 |-> 1]
    OBVIOUS
  <2>2. place \in [1..0 -> 1..0]
    BY <2>1
  <2>3. Len(<< >>) = 0 /\ \A i \in 1..0 : FALSE
    OBVIOUS
  <2>4. \E p \in [1..0 -> 1..0] :
          /\ \A i, j \in 1..0 : i < j => p[i] < p[j]
          /\ \A i \in 1..0 : << >>[i] = Bytes(p[i])
    BY <2>2, <2>3
  <2> QED
    BY <2>3, <2>4 DEF AcceptedAt
<1>8. SwallowedAt("START", at[0], 0)
  BY <1>4 DEF SwallowedAt, Final
<1>9. ParsedAt(at)
  BY <1>1, <1>4, <1>5, <1>6, <1>7, <1>8 DEF ParsedAt, Init, Swallowed, Limit
<1> QED
  BY <1>1, <1>2, <1>3, <1>9 DEF CommInv

LEMMA SendKeeps ==
  ASSUME CommInv, SendRequest
  PROVE  CommInv'
<1>1. PICK n, m, b, s : /\ n = Len(sent) /\ m = n + 1 /\ b = breaks /\ s = Stream
  OBVIOUS
<1>2. /\ StreamTypes /\ CommTypes /\ SentOK /\ \E at : ParsedAt(at)
  BY DEF CommInv
<1>3. /\ n \in Nat /\ b \in Nat /\ m \in DOMAIN Contents /\ m <= Len(Contents) /\ m \in Nat
  BY <1>1, <1>2, MessageNumbers DEF CommTypes, SendRequest
<1>4. sent' = Append(sent, Bytes(m)) /\ Bytes(m) \in Seq(Byte)
  BY <1>1, <1>3, CodedIs DEF SendRequest, Bytes
<1>5. StreamTypes' /\ Stream' = s \o Coded(m)
  BY <1>1, <1>2, <1>3, SendMoves
<1>6. s \in Seq(Symbol)
  BY <1>1, <1>2, StreamIsSeq
<1>7. /\ Len(sent') = m /\ sent' \in Seq(Seq(Byte))
      /\ \A i \in 1..n : sent'[i] = sent[i]
      /\ sent'[m] = Bytes(m)
  BY <1>1, <1>2, <1>4 DEF CommTypes
<1>8. SentOK'
  <2>1. ASSUME NEW i \in 1..m PROVE sent'[i] = Bytes(i)
    <3>1. i = m \/ i \in 1..n
      BY <1>1, <1>3
    <3> QED
      BY <1>1, <1>2, <1>7, <3>1 DEF SentOK
  <2> QED
    BY <1>3, <1>7, <2>1 DEF SentOK
<1>9. CommTypes'
  BY <1>2, <1>7 DEF CommTypes, SendRequest, parserVars, ringVars
<1>10. PICK at : ParsedAt(at)
  BY <1>2
<1>11. PICK new : Labelled(s \o Coded(m), m, b, new) /\ new[0] = at[0]
  <2>1. Labelled(s, n, b, at)
    BY <1>1, <1>10 DEF ParsedAt
  <2>2. n + 1 \in DOMAIN Contents
    BY <1>1, <1>3
  <2>3. \E new : Labelled(s \o Coded(n + 1), n + 1, b, new) /\ new[0] = at[0]
    BY <1>3, <1>6, <2>1, <2>2, LabelsOfSent
  <2> QED
    BY <1>1, <2>3
<1>12. Swallowed' = Swallowed
  <2>1. Ends(s \o Coded(m)) = Ends(s) + 1
    BY <1>3, <1>6, CodedIs, EndsJoined, EndsOfMessage
  <2>2. Ends(s) \in Nat /\ Len(accepted) \in Nat /\ missed \in Nat
    BY <1>2, <1>6, EndsIsNat DEF CommTypes
  <2>3. accepted' = accepted /\ missed' = missed
    BY DEF SendRequest
  <2>4. Swallowed' = m - (Len(accepted) + missed + (Ends(s) + 1))
        /\ Swallowed = n - (Len(accepted) + missed + Ends(s))
    BY <1>1, <1>5, <1>7, <2>1, <2>3 DEF Swallowed
  <2> QED
    BY <1>1, <1>3, <2>2, <2>4
<1>13. ParsedAt(new)'
  <2>1. /\ m_bInRevFlag' = m_bInRevFlag /\ m_dwRevCount' = m_dwRevCount
        /\ m_uchsRevMesNow' = m_uchsRevMesNow /\ accepted' = accepted /\ breaks' = b
    BY <1>1 DEF SendRequest, parserVars
  <2>2. Labelled(Stream', Len(sent'), breaks', new)
    BY <1>5, <1>7, <1>11, <2>1
  <2> QED
    BY <1>10, <1>11, <1>12, <2>1, <2>2 DEF ParsedAt
<1> QED
  BY <1>5, <1>8, <1>9, <1>13 DEF CommInv

LEMMA BreakKeeps ==
  ASSUME CommInv, Disconnected
  PROVE  CommInv'
<1>1. PICK n, b, s, w : n = Len(sent) /\ b = breaks /\ s = Stream' /\ w = wire
  OBVIOUS
<1>2. StreamTypes /\ CommTypes /\ SentOK /\ \E at : ParsedAt(at)
  BY DEF CommInv
<1>3. StreamTypes' /\ s \in Seq(Symbol) /\ w \in Seq(Symbol) /\ Stream = s \o w
  BY <1>1, <1>2, BreakMoves
<1>4. /\ n \in Nat /\ b \in Nat /\ breaks' = b + 1 /\ b < MaxBreaks /\ MaxBreaks \in Nat
      /\ missed' = missed + Ends(w)
  BY <1>1, <1>2, CommAssumption DEF CommAssumption, CommTypes, Disconnected, Ends
<1>5. Ends(s) \in Nat /\ Ends(w) \in Nat /\ Ends(s \o w) = Ends(s) + Ends(w)
  BY <1>3, EndsIsNat, EndsJoined
<1>6. UNCHANGED <<sockVars, m_uchsRawData, pc, parserVars, ringVars, sent, accepted, dropped>>
      /\ connected' = FALSE
  BY DEF Disconnected
<1>7. CommTypes'
  <2>1. breaks' \in 0..MaxBreaks /\ missed' \in Nat
    BY <1>2, <1>4, <1>5 DEF CommTypes
  <2> QED
    BY <1>2, <1>6, <2>1 DEF CommTypes, parserVars, ringVars
<1>8. SentOK'
  BY <1>2, <1>6 DEF SentOK
<1>9. PICK at : ParsedAt(at)
  BY <1>2
<1>10. Labelled(s, n, b + 1, at)
  <2>1. Labelled(s \o w, n, b, at)
    BY <1>1, <1>3, <1>9 DEF ParsedAt
  <2> QED
    BY <1>3, <1>4, <2>1, LabelsOfBroken
<1>11. Swallowed' = Swallowed
  <2>1. Swallowed' = n - (Len(accepted) + (missed + Ends(w)) + Ends(s))
        /\ Swallowed = n - (Len(accepted) + missed + (Ends(s) + Ends(w)))
    BY <1>1, <1>3, <1>4, <1>5, <1>6 DEF Swallowed
  <2>2. Len(accepted) \in Nat /\ missed \in Nat
    BY <1>2 DEF CommTypes
  <2> QED
    BY <1>4, <1>5, <2>1, <2>2
<1>12. ParsedAt(at)'
  <2>1. Labelled(Stream', Len(sent'), breaks', at)
    BY <1>1, <1>4, <1>6, <1>10
  <2> QED
    BY <1>6, <1>9, <1>11, <2>1 DEF ParsedAt, parserVars
<1> QED
  BY <1>3, <1>7, <1>8, <1>12 DEF CommInv

\* Steps that neither change the symbols nor let the parser go on.
LEMMA OthersKeep ==
  ASSUME CommInv, StreamTypes', Stream' = Stream, CommTypes',
         UNCHANGED <<parserVars, sent, accepted, missed, breaks>>
  PROVE  CommInv'
<1>1. StreamTypes /\ CommTypes /\ SentOK /\ \E at : ParsedAt(at)
  BY DEF CommInv
<1>2. SentOK'
  BY <1>1 DEF SentOK
<1>3. PICK at : ParsedAt(at)
  BY <1>1
<1>4. Swallowed' = Swallowed
  BY DEF Swallowed
<1>5. ParsedAt(at)'
  BY <1>3, <1>4 DEF ParsedAt, parserVars
<1> QED
  BY <1>2, <1>5 DEF CommInv

\* A message that is put into the ring leaves it one of messages.
LEMMA PushTypes ==
  ASSUME CommTypes, PushBackOneMessage, Received \in Seq(Byte)
  PROVE  /\ m_uchsRevMes' \in [RingIndex -> Seq(Byte)]
         /\ m_dwRRevP' \in RingIndex /\ m_dwRProcP' \in RingIndex /\ dropped' \in Nat
         /\ accepted' = Append(accepted, Received)
<1>1. /\ m_uchsRevMes \in [RingIndex -> Seq(Byte)] /\ m_dwRRevP \in RingIndex
      /\ m_dwRProcP \in RingIndex /\ dropped \in Nat
  BY DEF CommTypes
<1>2. (m_dwRRevP + 1) % IADM_REV_BUF_ROW \in RingIndex
      /\ (m_dwRProcP + 1) % IADM_REV_BUF_ROW \in RingIndex
  BY <1>1, NextRow DEF Rows
<1> QED
  BY <1>1, <1>2 DEF PushBackOneMessage

LEMMA ByteKeeps ==
  ASSUME CommInv, AnalyseOneByte
  PROVE  CommInv'
<1>1. PICK n, b, s, c, sw : /\ n = Len(sent) /\ b = breaks /\ s = Stream /\ c = byteData
                           /\ sw = Swallowed
  OBVIOUS
<1>2. StreamTypes /\ CommTypes /\ SentOK /\ \E at : ParsedAt(at)
  BY DEF CommInv
<1>3. /\ StreamTypes' /\ s # << >> /\ Stream' = Tail(s) /\ c = Head(s) /\ s \in Seq(Symbol)
      /\ Tail(s) \in Seq(Symbol)
  <2>1. StreamTypes' /\ s # << >> /\ Stream' = Tail(s) /\ c = Head(s)
    BY <1>1, <1>2, ByteMoves DEF AnalyseOneByte
  <2>2. s \in Seq(Symbol)
    BY <1>1, <1>2, StreamIsSeq
  <2> QED
    BY <2>1, <2>2
<1>4. /\ n \in Nat /\ b \in Nat /\ n <= Len(Contents)
      /\ m_dwRevCount \in Nat /\ m_uchsRevMesNow \in Buffers
  BY <1>1, <1>2 DEF CommTypes, SentOK
<1>5. PICK at : ParsedAt(at)
  BY <1>2
<1>6. PICK new, l, k : /\ new = [j \in 0..(Len(s) - 1) |-> at[j + 1]]
                       /\ l = at[0] /\ k = at[1]
  OBVIOUS
<1>7. /\ Labelled(Tail(s), n, b, new) /\ new[0] = k
      /\ PlaceOK(l, n, b) /\ PlaceOK(k, n, b) /\ k.msg # 0
      /\ c = Coded(k.msg)[k.off]
      /\ SameMessage(l, k) \/ LaterMessage(l, k)
  <2>1. Labelled(s, n, b, at)
    BY <1>1, <1>5 DEF ParsedAt
  <2> QED
    BY <1>3, <1>4, <1>6, <2>1, LabelsOfTail
<1>8. /\ ParserAt(m_bInRevFlag, m_dwRevCount, m_uchsRevMesNow, l)
      /\ AcceptedAt(accepted, Limit(m_bInRevFlag, l))
      /\ SwallowedAt(m_bInRevFlag, l, sw)
  BY <1>1, <1>5, <1>6 DEF ParsedAt
<1>9. sw \in Nat /\ l.msg \in Nat /\ k.msg \in Nat /\ l.brk \in Nat
  BY <1>7, <1>8 DEF SwallowedAt, PlaceOK
<1>10. byteData = Coded(k.msg)[k.off]
  BY <1>1, <1>7
<1>11. UNCHANGED <<connected, pc, sent, missed, breaks>>
  BY DEF AnalyseOneByte, NextByte, linkVars
<1>12. /\ Ends(s) = (IF c = LF THEN 1 ELSE 0) + Ends(Tail(s))
       /\ Ends(s) \in Nat /\ Ends(Tail(s)) \in Nat /\ Len(accepted) \in Nat /\ missed \in Nat
  <2>1. Ends(s) \in Nat /\ Ends(Tail(s)) \in Nat
    BY <1>3, EndsIsNat
  <2>2. Ends(s) = (IF Head(s) = LF THEN 1 ELSE 0) + Ends(Tail(s))
    BY <1>3, EndsOfTail
  <2>3. Len(accepted) \in Nat /\ missed \in Nat
    BY <1>2 DEF CommTypes
  <2> QED
    BY <1>3, <2>1, <2>2, <2>3
<1>13. sw = n - (Len(accepted) + missed + Ends(s))
  BY <1>1 DEF Swallowed
<1>14. SentOK'
  BY <1>2, <1>11 DEF SentOK
<1>15. m_uchsRawData # << >> /\ pc = "analyse"
  BY DEF AnalyseOneByte, NextByte
<1>16. ASSUME NothingAccepted,
              m_bInRevFlag' \in Flags, m_dwRevCount' \in Nat, m_uchsRevMesNow' \in Buffers,
              ParserAt(m_bInRevFlag', m_dwRevCount', m_uchsRevMesNow', k),
              Limit(m_bInRevFlag, l) <= Limit(m_bInRevFlag', k),
              SwallowedAt(m_bInRevFlag', k, IF byteData = LF THEN sw + 1 ELSE sw)
       PROVE  CommInv'
  <2>1. UNCHANGED <<m_uchsRevMes, m_dwRRevP, m_dwRProcP, accepted, dropped>>
    BY <1>16 DEF NothingAccepted, ringVars
  <2>2. CommTypes'
    BY <1>2, <1>11, <1>15, <1>16, <2>1 DEF CommTypes
  <2>3. AcceptedAt(accepted', Limit(m_bInRevFlag', k))
    <3>1. Limit(m_bInRevFlag, l) \in Int /\ Limit(m_bInRevFlag', k) \in Int
      BY <1>9 DEF Limit
    <3> QED
      BY <1>8, <1>16, <2>1, <3>1, AcceptedAmongMore
  <2>4. Swallowed' = IF byteData = LF THEN sw + 1 ELSE sw
    <3>1. Swallowed' = n - (Len(accepted) + missed + Ends(Tail(s)))
      BY <1>1, <1>3, <1>11, <2>1 DEF Swallowed
    <3> QED
      BY <1>1, <1>4, <1>12, <1>13, <3>1
  <2>5. ParsedAt(new)'
    <3>1. Labelled(Stream', Len(sent'), breaks', new)
      BY <1>1, <1>3, <1>7, <1>11
    <3>2. SwallowedAt(m_bInRevFlag', k, Swallowed')
      BY <1>16, <2>4
    <3> QED
      BY <1>7, <1>16, <2>3, <3>1, <3>2 DEF ParsedAt
  <2> QED
    BY <1>3, <1>14, <2>2, <2>5 DEF CommInv
<1>17. CASE AwaitStart
  <2>1. /\ m_bInRevFlag' \in Flags /\ m_dwRevCount' \in Nat
        /\ m_uchsRevMesNow' = m_uchsRevMesNow
        /\ ParserAt(m_bInRevFlag', m_dwRevCount', m_uchsRevMesNow', k)
        /\ Limit(m_bInRevFlag, l) <= Limit(m_bInRevFlag', k)
        /\ SwallowedAt(m_bInRevFlag', k, IF byteData = LF THEN sw + 1 ELSE sw)
    BY <1>4, <1>7, <1>8, <1>9, <1>10, <1>17, AwaitStartStep
  <2>2. NothingAccepted
    BY <1>17 DEF AwaitStart
  <2> QED
    BY <1>4, <1>16, <2>1, <2>2
<1>18. CASE HighDigit
  <2>1. /\ m_bInRevFlag' \in Flags /\ m_dwRevCount' \in Nat
        /\ m_uchsRevMesNow' \in Buffers
        /\ ParserAt(m_bInRevFlag', m_dwRevCount', m_uchsRevMesNow', k)
        /\ Limit(m_bInRevFlag, l) <= Limit(m_bInRevFlag', k)
        /\ SwallowedAt(m_bInRevFlag', k, IF byteData = LF THEN sw + 1 ELSE sw)
    BY <1>4, <1>7, <1>8, <1>9, <1>10, <1>18, HighDigitStep
  <2>2. NothingAccepted
    BY <1>18 DEF HighDigit
  <2> QED
    BY <1>16, <2>1, <2>2
<1>19. CASE LowDigit
  <2>1. /\ m_bInRevFlag' \in Flags /\ m_dwRevCount' \in Nat
        /\ m_uchsRevMesNow' \in Buffers
        /\ ParserAt(m_bInRevFlag', m_dwRevCount', m_uchsRevMesNow', k)
        /\ Limit(m_bInRevFlag, l) <= Limit(m_bInRevFlag', k)
        /\ SwallowedAt(m_bInRevFlag', k, IF byteData = LF THEN sw + 1 ELSE sw)
    BY <1>4, <1>7, <1>8, <1>9, <1>10, <1>19, LowDigitStep
  <2>2. NothingAccepted
    BY <1>19 DEF LowDigit
  <2> QED
    BY <1>16, <2>1, <2>2
<1>20. CASE EndOfMessage
  <2>1. /\ m_bInRevFlag' = "START"
        /\ m_dwRevCount' = m_dwRevCount /\ m_uchsRevMesNow' = m_uchsRevMesNow
        /\ ParserAt(m_bInRevFlag', m_dwRevCount', m_uchsRevMesNow', k)
        /\ SwallowedAt(m_bInRevFlag', k, sw)
        /\ \/ /\ byteData # LF /\ NothingAccepted
              /\ Limit(m_bInRevFlag, l) <= Limit(m_bInRevFlag', k)
           \/ /\ byteData = LF /\ PushBackOneMessage
              /\ Received = Bytes(k.msg) /\ k.msg \in DOMAIN Contents
              /\ Limit(m_bInRevFlag, l) = k.msg - 1 /\ Limit(m_bInRevFlag', k) = k.msg
    BY <1>4, <1>7, <1>8, <1>9, <1>10, <1>20, EndOfMessageStep
  <2>2. m_bInRevFlag' \in Flags
    BY <2>1 DEF Flags
  <2>3. CASE byteData # LF /\ NothingAccepted
             /\ Limit(m_bInRevFlag, l) <= Limit(m_bInRevFlag', k)
    BY <1>4, <1>16, <2>1, <2>2, <2>3
  <2>4. CASE /\ byteData = LF /\ PushBackOneMessage
             /\ Received = Bytes(k.msg) /\ k.msg \in DOMAIN Contents
             /\ Limit(m_bInRevFlag, l) = k.msg - 1 /\ Limit(m_bInRevFlag', k) = k.msg
    <3>1. PICK bytes : bytes = Received
      OBVIOUS
    <3>2. bytes \in Seq(Byte) /\ bytes = Bytes(k.msg)
      BY <2>4, <3>1, CodedIs
    <3>3. /\ m_uchsRevMes' \in [RingIndex -> Seq(Byte)]
          /\ m_dwRRevP' \in RingIndex /\ m_dwRProcP' \in RingIndex /\ dropped' \in Nat
          /\ accepted' = Append(accepted, bytes)
      BY <1>2, <2>4, <3>1, <3>2, PushTypes
    <3>4. /\ AcceptedAt(accepted', k.msg) /\ accepted' \in Seq(Seq(Byte))
          /\ Len(accepted') = Len(accepted) + 1
      <4>1. k.msg \in Nat /\ k.msg > 0
        BY <1>7, <1>9
      <4>2. AcceptedAt(accepted, k.msg - 1) /\ accepted \in Seq(Seq(Byte))
        BY <1>2, <1>8, <2>4 DEF CommTypes
      <4> QED
        BY <3>2, <3>3, <4>1, <4>2, AcceptedNext
    <3>5. CommTypes'
      BY <1>2, <1>4, <1>11, <1>15, <2>1, <2>2, <3>3, <3>4 DEF CommTypes
    <3>6. Swallowed' = sw
      <4>1. Swallowed' = n - ((Len(accepted) + 1) + missed + Ends(Tail(s)))
        BY <1>1, <1>3, <1>11, <3>4 DEF Swallowed
      <4>2. Ends(s) = 1 + Ends(Tail(s))
        BY <1>1, <1>12, <2>4
      <4> QED
        BY <1>4, <1>12, <1>13, <4>1, <4>2
    <3>7. ParsedAt(new)'
      <4>1. Labelled(Stream', Len(sent'), breaks', new)
        BY <1>1, <1>3, <1>7, <1>11
      <4>2. SwallowedAt(m_bInRevFlag', k, Swallowed')
        BY <2>1, <3>6
      <4>3. AcceptedAt(accepted', Limit(m_bInRevFlag', k))
        BY <2>4, <3>4
      <4> QED
        BY <1>7, <2>1, <4>1, <4>2, <4>3 DEF ParsedAt
    <3> QED
      BY <1>3, <1>14, <3>5, <3>7 DEF CommInv
  <2> QED
    BY <2>1, <2>3, <2>4
<1> QED
  BY <1>17, <1>18, <1>19, <1>20 DEF AnalyseOneByte

LEMMA ReceiveKeeps ==
  ASSUME CommInv, NEW n \in Chunks, OnReceive(Min({n, Len(wire)}))
  PROVE  CommInv'
<1>1. StreamTypes /\ CommTypes /\ wire \in Seq(Symbol)
  BY DEF CommInv, StreamTypes
<1>2. PICK m : m = Min({n, Len(wire)})
  OBVIOUS
<1>3. OnReceive(m) /\ wire # << >>
  BY <1>2 DEF OnReceive
<1>4. m \in 1..Len(wire)
  <2>1. n \in Nat /\ n > 0
    BY CommAssumption DEF CommAssumption
  <2>2. Len(wire) \in Nat /\ Len(wire) > 0
    BY <1>1, <1>3
  <2>3. m \in Nat /\ m \in {n, Len(wire)} /\ m <= Len(wire)
    BY <1>2, <2>1, <2>2, LesserOf
  <2> QED
    BY <2>1, <2>2, <2>3
<1>5. StreamTypes' /\ Stream' = Stream
  BY <1>1, <1>3, <1>4, ReceiveMoves
<1>6. UNCHANGED <<connected, m_uchsRawData, pc, parserVars, ringVars, history>>
  BY <1>3 DEF OnReceive
<1>7. CommTypes'
  BY <1>1, <1>6 DEF CommTypes, parserVars, ringVars, history
<1> QED
  BY <1>5, <1>6, <1>7, OthersKeep DEF history

LEMMA StepHolds ==
  ASSUME CommInv, [Next]_vars
  PROVE  CommInv'
<1>1. StreamTypes /\ CommTypes
  BY DEF CommInv
<1>2. CASE SendRequest
  BY <1>2, SendKeeps
<1>3. CASE \E n \in Chunks : OnReceive(Min({n, Len(wire)}))
  BY <1>3, ReceiveKeeps
<1>4. CASE Disconnected
  BY <1>4, BreakKeeps
<1>5. CASE Connected
  <2>1. StreamTypes' /\ Stream' = Stream
    BY <1>1, <1>5, OthersKeepStream DEF Connected
  <2>2. CommTypes'
    BY <1>1, <1>5 DEF CommTypes, Connected, parserVars, ringVars, history
  <2> QED
    BY <1>5, <2>1, <2>2, OthersKeep DEF Connected, history
<1>6. CASE GetReceivedData
  <2>1. m_uchsRawData = << >>
    BY <1>1, <1>6 DEF CommTypes, GetReceivedData
  <2>2. StreamTypes' /\ Stream' = Stream
    BY <1>1, <1>6, <2>1, FetchMoves
  <2>3. CommTypes'
    BY <1>1, <1>6 DEF CommTypes, GetReceivedData, linkVars, parserVars, ringVars, history
  <2> QED
    BY <1>6, <2>2, <2>3, OthersKeep DEF GetReceivedData, history
<1>7. CASE AnalyseOneByte
  BY <1>7, ByteKeeps
<1>8. CASE AllAnalysed
  <2>1. StreamTypes' /\ Stream' = Stream
    BY <1>1, <1>8, OthersKeepStream DEF AllAnalysed, linkVars
  <2>2. CommTypes'
    BY <1>1, <1>8 DEF CommTypes, AllAnalysed, linkVars, parserVars, ringVars, history
  <2> QED
    BY <1>8, <2>1, <2>2, OthersKeep DEF AllAnalysed, history
<1>9. CASE GetOneMessage
  <2>1. StreamTypes' /\ Stream' = Stream
    BY <1>1, <1>9, OthersKeepStream DEF GetOneMessage, linkVars
  <2>2. m_dwRProcP' \in RingIndex
    <3>1. m_dwRProcP \in RingIndex
      BY <1>1 DEF CommTypes
    <3>2. (m_dwRProcP + 1) % IADM_REV_BUF_ROW \in RingIndex
      BY <3>1, NextRow DEF Rows
    <3> QED
      BY <1>9, <3>1, <3>2 DEF GetOneMessage
  <2>3. CommTypes'
    BY <1>1, <1>9, <2>2 DEF CommTypes, GetOneMessage, linkVars, parserVars
  <2> QED
    BY <1>9, <2>1, <2>3, OthersKeep DEF GetOneMessage
<1>10. CASE UNCHANGED vars
  <2>1. StreamTypes' /\ Stream' = Stream
    BY <1>1, <1>10, OthersKeepStream DEF vars, linkVars
  <2>2. CommTypes'
    BY <1>1, <1>10 DEF CommTypes, vars, linkVars, parserVars, ringVars, history
  <2> QED
    BY <1>10, <2>1, <2>2, OthersKeep DEF vars, history
<1> QED
  BY <1>2, <1>3, <1>4, <1>5, <1>6, <1>7, <1>8, <1>9, <1>10 DEF Next, Callback

-----------------------------------------------------------------------------
(* What the invariant says of the properties.                              *)

LEMMA TypeOKHolds == CommInv => TypeOK
<1> SUFFICES ASSUME CommInv PROVE TypeOK
  OBVIOUS
<1>1. StreamTypes /\ CommTypes /\ SockTypes
  BY DEF CommInv, StreamTypes
<1>2. dwStartRec \in DOMAIN RecBuf /\ dwEndRec \in DOMAIN RecBuf
  BY <1>1, SockParts
<1> QED
  BY <1>1, <1>2 DEF TypeOK, CommTypes, StreamTypes, Flags, Buffers

LEMMA LengthHolds == CommInv => LengthInBounds
<1> SUFFICES ASSUME CommInv PROVE LengthInBounds
  OBVIOUS
<1>1. PICK l : ParserAt(m_bInRevFlag, m_dwRevCount, m_uchsRevMesNow, l)
  BY DEF CommInv, ParsedAt
<1>2. CASE m_bInRevFlag = "START"
  BY <1>2 DEF LengthInBounds
<1>3. CASE m_bInRevFlag # "START"
  <2>1. /\ Size(l.msg) \in 3..IADM_MES_MAX_LEN /\ Size(l.msg) \in Nat
        /\ IADM_MES_MAX_LEN \in Nat
    BY <1>1, <1>3, CodedIs, CommAssumption DEF ParserAt, CommAssumption
  <2>2. /\ m_bInRevFlag = "CONT1" => m_dwRevCount \in 0..Size(l.msg)
        /\ m_bInRevFlag = "CONT0" => m_dwRevCount \in 0..(Size(l.msg) - 1)
        /\ m_bInRevFlag = "END" => m_dwRevCount = Size(l.msg)
    BY <1>1 DEF ParserAt
  <2> QED
    BY <2>1, <2>2 DEF LengthInBounds
<1> QED
  BY <1>2, <1>3

\* The place the parser is at.
LEMMA ParserPlace ==
  ASSUME CommInv
  PROVE  \E l : /\ PlaceOK(l, Len(sent), breaks) /\ Len(sent) \in Nat /\ breaks \in Nat
                /\ AcceptedAt(accepted, Limit(m_bInRevFlag, l))
                /\ SwallowedAt(m_bInRevFlag, l, Swallowed)
<1>1. PICK at : ParsedAt(at)
  BY DEF CommInv
<1>2. Stream \in Seq(Symbol) /\ Len(sent) \in Nat /\ breaks \in Nat
  BY StreamIsSeq DEF CommInv, CommTypes
<1>3. 0 \in 0..Len(Stream)
  BY <1>2
<1>4. PlaceOK(at[0], Len(sent), breaks)
  BY <1>1, <1>3 DEF ParsedAt, Labelled
<1> QED
  BY <1>1, <1>2, <1>4 DEF ParsedAt

LEMMA AcceptedHolds == CommInv => AcceptedWereSent
<1> SUFFICES ASSUME CommInv PROVE AcceptedWereSent
  OBVIOUS
<1>1. PICK l : /\ PlaceOK(l, Len(sent), breaks) /\ Len(sent) \in Nat
               /\ AcceptedAt(accepted, Limit(m_bInRevFlag, l))
  BY ParserPlace
<1>2. Limit(m_bInRevFlag, l) \in Int /\ Limit(m_bInRevFlag, l) <= Len(sent)
  BY <1>1 DEF Limit, PlaceOK
<1>3. AcceptedAt(accepted, Len(sent))
  BY <1>1, <1>2, AcceptedAmongMore
<1>4. PICK place \in [1..Len(accepted) -> 1..Len(sent)] :
        /\ \A i, j \in 1..Len(accepted) : i < j => place[i] < place[j]
        /\ \A i \in 1..Len(accepted) : accepted[i] = Bytes(place[i])
  BY <1>3 DEF AcceptedAt
<1>5. /\ DOMAIN accepted = 1..Len(accepted) /\ DOMAIN sent = 1..Len(sent)
      /\ \A i \in 1..Len(sent) : sent[i] = Bytes(i)
  BY DEF CommInv, CommTypes, SentOK
<1>6. \A i \in DOMAIN accepted : accepted[i] = sent[place[i]]
  BY <1>4, <1>5
<1> QED
  BY <1>4, <1>5, <1>6 DEF AcceptedWereSent

LEMMA SwallowedHolds == CommInv => OneSwallowedPerBreak
<1> SUFFICES ASSUME CommInv PROVE OneSwallowedPerBreak
  OBVIOUS
<1>1. PICK l : /\ PlaceOK(l, Len(sent), breaks) /\ Len(sent) \in Nat /\ breaks \in Nat
               /\ SwallowedAt(m_bInRevFlag, l, Swallowed)
  BY ParserPlace
<1>2. Swallowed \in 0..breaks
  BY <1>1 DEF SwallowedAt, PlaceOK
<1>3. PICK raw, a, w : raw = m_uchsRawData /\ a = InBuffer /\ w = wire
  OBVIOUS
<1>4. raw \in Seq(Symbol) /\ a \in Seq(Symbol) /\ w \in Seq(Symbol)
  BY <1>3, InBufferIs DEF CommInv, StreamTypes
<1>5. PICK c : c = raw \o a
  OBVIOUS
<1>6. c \in Seq(Symbol)
  BY <1>4, <1>5, Joined
<1>7. Ends(c) = Ends(raw) + Ends(a)
  BY <1>4, <1>5, EndsJoined
<1>8. Ends(c \o w) = Ends(c) + Ends(w)
  BY <1>4, <1>6, EndsJoined
<1>9. /\ Ends(raw) \in Nat /\ Ends(a) \in Nat /\ Ends(w) \in Nat
      /\ Len(accepted) \in Nat /\ missed \in Nat
  BY <1>4, EndsIsNat DEF CommInv, CommTypes
<1>10. Swallowed = Len(sent) - (Len(accepted) + missed + Ends(c \o w))
  BY <1>3, <1>5 DEF Swallowed, Stream
<1>11. Len(accepted) + missed + Ends(c \o w)
         = Len(accepted) + missed + Ends(w) + Ends(a) + Ends(raw)
  BY <1>7, <1>8, <1>9
<1> QED
  BY <1>2, <1>3, <1>10, <1>11 DEF OneSwallowedPerBreak

-----------------------------------------------------------------------------
(* The theorems.                                                           *)

LEMMA CommInvariant == Spec => []CommInv
<1>1. Init => CommInv
  BY InitHolds
<1>2. CommInv /\ [Next]_vars => CommInv'
  BY StepHolds
<1> QED
  BY <1>1, <1>2, PTL DEF Spec

(* Both rings, the parser and the callback have their types at all times,  *)
(* for every size of the rings and buffers.                                *)
THEOREM TypeCorrect == Spec => []TypeOK
<1>1. CommInv => TypeOK
  BY TypeOKHolds
<1> QED
  BY <1>1, CommInvariant, PTL

(* AnalyseOneByte never writes behind the end of m_uchsRevMesNow, however  *)
(* often the connection breaks and wherever in a message.                  *)
THEOREM BufferIsLongEnough == Spec => []LengthInBounds
<1>1. CommInv => LengthInBounds
  BY LengthHolds
<1> QED
  BY <1>1, CommInvariant, PTL

(* Every message that AnalyseOneByte accepts was sent as it is, and they   *)
(* are accepted in the order in which they were sent.                      *)
THEOREM AcceptedAreSent == Spec => []AcceptedWereSent
<1>1. CommInv => AcceptedWereSent
  BY AcceptedHolds
<1> QED
  BY <1>1, CommInvariant, PTL

(* For each broken connection the parser swallows at most one message of   *)
(* those that arrived whole.                                               *)
THEOREM OneLostPerBreak == Spec => []OneSwallowedPerBreak
<1>1. CommInv => OneSwallowedPerBreak
  BY SwallowedHolds
<1> QED
  BY <1>1, CommInvariant, PTL

=============================================================================
