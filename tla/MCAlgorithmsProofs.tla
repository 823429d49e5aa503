------------------------- MODULE MCAlgorithmsProofs -------------------------
(***************************************************************************)
(* What TLAPS proves about the sequential algorithms, for every input:     *)
(* messages of every length over every number of digits, texts of every    *)
(* number of pieces, boxes of every number.                                *)
(***************************************************************************)
EXTENDS MCAlgorithms, MessageCodecProofs

-----------------------------------------------------------------------------
(* Messages.                                                               *)

\* The message and its text: as it was encoded, or with one digit changed.
MessageInv ==
  /\ content \in Seq(Byte)
  /\ line \in Seq(Digit)
  /\ wrong \in BOOLEAN
  /\ ~wrong => line = Text(content)
  /\ wrong => \E i \in DOMAIN Text(content), d \in Digit :
                d # Text(content)[i] /\ line = [Text(content) EXCEPT ![i] = d]

\* The text of a message consists of digits.
LEMMA TextIsDigits ==
  ASSUME NEW bytes \in Seq(Byte)
  PROVE  Text(bytes) \in Seq(Digit)
<1>1. PICK sent : sent = Sealed(bytes)
  OBVIOUS
<1>2. sent \in Seq(Byte)
  BY <1>1, SealedIs
<1> QED
  BY <1>1, <1>2, TextIs DEF Text

LEMMA MessageInit == Init => MessageInv
<1>1. << >> \in Seq(Byte)
  OBVIOUS
<1> QED
  BY <1>1, TextIsDigits DEF Init, MessageInv

LEMMA MessageStep == MessageInv /\ [Next]_vars => MessageInv'
<1> SUFFICES ASSUME MessageInv, [Next]_vars PROVE MessageInv'
  OBVIOUS
<1>1. CASE Extend
  <2>1. PICK b \in Byte : content' = Append(content, b) /\ line' = Text(content')
    BY <1>1 DEF Extend
  <2>2. content' \in Seq(Byte) /\ wrong' = FALSE
    BY <1>1, <2>1 DEF Extend, MessageInv
  <2>3. line' \in Seq(Digit)
    BY <2>1, <2>2, TextIsDigits
  <2> QED
    BY <2>1, <2>2, <2>3 DEF MessageInv
<1>2. CASE Garble
  <2>1. PICK i \in DOMAIN line, d \in Digit : d # line[i] /\ line' = [line EXCEPT ![i] = d]
    BY <1>2 DEF Garble
  <2>2. ~wrong /\ wrong' = TRUE /\ content' = content
    BY <1>2 DEF Garble
  <2>3. line = Text(content) /\ line \in Seq(Digit)
    BY <2>2 DEF MessageInv
  <2>4. line' \in Seq(Digit)
    BY <2>1, <2>3
  <2>5. content' \in Seq(Byte)
    BY <2>2 DEF MessageInv
  <2> QED
    BY <2>1, <2>2, <2>3, <2>4, <2>5 DEF MessageInv
<1>3. CASE Write
  BY <1>3 DEF Write, MessageInv
<1>4. CASE Find
  BY <1>4 DEF Find, MessageInv
<1>5. CASE UNCHANGED vars
  BY <1>5 DEF vars, MessageInv
<1> QED
  BY <1>1, <1>2, <1>3, <1>4, <1>5 DEF Next

LEMMA MessageAlways == Spec => []MessageInv
<1> QED
  BY MessageInit, MessageStep, PTL DEF Spec

\* A message that arrives as it was encoded decodes to what was sealed, checksum and all,
\* and nothing in it can be taken for the marks of a frame.
THEOREM EncodedArrives == Spec => []RoundTrip
<1>1. MessageInv => RoundTrip
  <2> SUFFICES ASSUME MessageInv, ~wrong, content # << >>
               PROVE  /\ decode_data_hex(line) = Sealed(content)
                      /\ check_msg_validation(decode_data_hex(line))
                      /\ find_full_string(line, start_c) = 0
                      /\ find_full_string(line, end_c) = 0
    BY DEF RoundTrip
  <2>1. content \in Seq(Byte) /\ line = Text(content) /\ line \in Seq(Digit)
    BY DEF MessageInv
  <2>2. decode_data_hex(line) = Sealed(content)
    <3>1. PICK sent : sent = Sealed(content)
      OBVIOUS
    <3>2. sent \in Seq(Byte)
      BY <2>1, <3>1, SealedIs
    <3> QED
      BY <2>1, <3>1, <3>2, DecodedIsEncoded DEF Text
  <2>3. check_msg_validation(Sealed(content))
    BY <2>1, SealedIsValid
  <2>4. line \in Seq(Symbol) /\ \A i \in 1..Len(line) : line[i] # Colon /\ line[i] # CR
    BY <2>1, Markers
  <2>5. find_full_string(line, start_c) = 0
    <3>1. PICK start : start = find_full_string(line, start_c)
      OBVIOUS
    <3>2. start \in 0..Len(line) /\ (start # 0 => line[start] = Colon)
      BY <2>4, <3>1, StartFound
    <3> QED
      BY <2>4, <3>1, <3>2
  <2>6. find_full_string(line, end_c) = 0
    <3>1. PICK end : end = find_full_string(line, end_c)
      OBVIOUS
    <3>2. end = 0 \/ (end \in 1..(Len(line) - 1) /\ line[end] = CR)
      BY <2>4, <3>1, EndFound
    <3> QED
      BY <2>4, <3>1, <3>2
  <2> QED
    BY <2>2, <2>3, <2>5, <2>6
<1> QED
  BY <1>1, MessageAlways, PTL

\* A message with one digit changed on the way, be it of a byte or of the checksum, is
\* refused whatever its length.
THEOREM WrongIsRefused == Spec => []WrongDigitRefused
<1>1. MessageInv => WrongDigitRefused
  <2> SUFFICES ASSUME MessageInv, wrong
               PROVE  ~check_msg_validation(decode_data_hex(line))
    BY DEF WrongDigitRefused
  <2>1. PICK text0 : text0 = Text(content)
    OBVIOUS
  <2>2. PICK i \in DOMAIN text0, d \in Digit : d # text0[i] /\ line = [text0 EXCEPT ![i] = d]
    BY <2>1 DEF MessageInv
  <2>3. content \in Seq(Byte)
    BY DEF MessageInv
  <2> QED
    BY <2>1, <2>2, <2>3, WrongDigitFails
<1> QED
  BY <1>1, MessageAlways, PTL

-----------------------------------------------------------------------------
(* Texts.                                                                  *)

NoWord == [count |-> 0, start |-> TRUE, code |-> <<>>]

\* What the loop makes of the word when it reads the character at i.
AfterCharacter(word, read, lengths, i) ==
  CASE read[i] \in Separator /\ ~word.start -> [word EXCEPT !.start = TRUE]
    [] read[i] \in Separator /\ word.start -> EndWord(word, read, lengths, i)
    [] IsDigit(read[i]) /\ word.start -> [word EXCEPT !.count = @ + 1]
    [] IsDigit(read[i]) /\ ~word.start -> word
    [] OTHER -> [word EXCEPT !.count = 0, !.start = FALSE]

\* scan says what the loop knows after each character of a text.
Scans(scan, read, lengths) ==
  \A i \in Nat : scan[i] = IF i <= Len(read) \div 2 THEN NoWord
                           ELSE AfterCharacter(scan[i - 1], read, lengths, i)

\* The words whose codes are parts of a text, its end overrun or not.
Parts(read) == {<<>>} \cup UNION {{SubSeq(read, a, b) : b \in Int} : a \in Int}
PartWord(read) == [count : Nat, start : BOOLEAN, code : Parts(read)]

LEMMA AfterIsPartWord ==
  ASSUME NEW read, NEW lengths, NEW i \in Nat, NEW word \in PartWord(read)
  PROVE  AfterCharacter(word, read, lengths, i) \in PartWord(read)
<1>1. word.count \in Nat /\ word.start \in BOOLEAN /\ word.code \in Parts(read)
  BY DEF PartWord
<1>2. i - word.count \in Int /\ i - 1 \in Int
  BY <1>1
<1>3. SubSeq(read, i - word.count, i - 1) \in Parts(read)
  <2>1. PICK a, b : a = i - word.count /\ b = i - 1
    OBVIOUS
  <2>2. a \in Int /\ b \in Int
    BY <1>2, <2>1
  <2>3. SubSeq(read, a, b) \in Parts(read)
    <3>1. SubSeq(read, a, b) \in {SubSeq(read, a, c) : c \in Int}
      BY <2>2, Zenon
    <3>2. {SubSeq(read, a, c) : c \in Int} \in {{SubSeq(read, e, c) : c \in Int} : e \in Int}
      BY <2>2, Zenon
    <3> QED
      BY <3>1, <3>2, Zenon DEF Parts
  <2> QED
    BY <2>1, <2>3
<1>4. EndWord(word, read, lengths, i) \in PartWord(read)
  <2>1. PICK part : part = SubSeq(read, i - word.count, i - 1)
    OBVIOUS
  <2> QED
    BY <1>1, <1>3, <2>1 DEF EndWord, PartWord
<1>5. /\ [word EXCEPT !.start = TRUE] \in PartWord(read)
      /\ [word EXCEPT !.count = @ + 1] \in PartWord(read)
      /\ [word EXCEPT !.count = 0, !.start = FALSE] \in PartWord(read)
  <2>1. PICK C : C = Parts(read)
    OBVIOUS
  <2>2. word.count + 1 \in Nat
    BY <1>1
  <2> QED
    BY <2>1, <2>2 DEF PartWord
<1> QED
  BY <1>4, <1>5 DEF AfterCharacter

\* The loop over a text has a result.
LEMMA ScanExists ==
  ASSUME NEW read, Len(read) \in Nat, NEW lengths
  PROVE  \E scan : Scans(scan, read, lengths) /\ ScanWords(read, lengths) = scan[Len(read)]
<1> DEFINE IsScan(scan) ==
             scan = [i \in Nat |->
                       IF i <= Len(read) \div 2 THEN [count |-> 0, start |-> TRUE, code |-> <<>>]
                       ELSE LET word == scan[i - 1]
                            IN CASE read[i] \in Separator /\ ~word.start -> [word EXCEPT !.start = TRUE]
                                 [] read[i] \in Separator /\ word.start -> EndWord(word, read, lengths, i)
                                 [] IsDigit(read[i]) /\ word.start -> [word EXCEPT !.count = @ + 1]
                                 [] IsDigit(read[i]) /\ ~word.start -> word
                                 [] OTHER -> [word EXCEPT !.count = 0, !.start = FALSE]]
           scanned == CHOOSE scan : IsScan(scan)
<1>1. ScanWords(read, lengths) = scanned[Len(read)]
  BY DEF ScanWords
<1>2. \A scan : IsScan(scan) <=>
        scan = [i \in Nat |-> IF i <= Len(read) \div 2 THEN NoWord
                              ELSE AfterCharacter(scan[i - 1], read, lengths, i)]
  BY DEF AfterCharacter, NoWord
<1> HIDE DEF IsScan
<1>3. \E scan : IsScan(scan)
  <2>1. PICK X, half : X = PartWord(read) /\ half = Len(read) \div 2
    OBVIOUS
  <2>2. NoWord \in X
    BY <2>1 DEF NoWord, PartWord, Parts
  <2>3. PICK step : step = [e \in Nat \X X |->
                              IF e[1] + 1 <= half THEN NoWord
                              ELSE AfterCharacter(e[2], read, lengths, e[1] + 1)]
    OBVIOUS
  <2>4. step \in [Nat \X X -> X]
    <3>1. ASSUME NEW e \in Nat \X X
          PROVE  (IF e[1] + 1 <= half THEN NoWord
                  ELSE AfterCharacter(e[2], read, lengths, e[1] + 1)) \in X
      BY <2>1, <2>2, AfterIsPartWord
    <3> QED
      BY <2>3, <3>1
  <2>5. HasIterates(X, NoWord, step)
    BY ONLY <2>2, <2>4, RecursionExists
  <2>6. PICK f \in [Nat -> X] : f[0] = NoWord /\ \A n \in Nat : f[n + 1] = step[<<n, f[n]>>]
    BY <2>5 DEF HasIterates
  <2>7. ASSUME NEW i \in Nat
        PROVE  f[i] = IF i <= half THEN NoWord ELSE AfterCharacter(f[i - 1], read, lengths, i)
    <3>1. CASE i = 0
      BY <2>1, <2>6, <3>1
    <3>2. CASE i # 0
      <4>1. PICK n : n = i - 1
        OBVIOUS
      <4>2. n \in Nat /\ i = n + 1
        BY <3>2, <4>1
      <4>3. f[i] = step[<<n, f[n]>>] /\ <<n, f[n]>> \in Nat \X X
        BY <2>6, <4>2
      <4> QED
        BY <2>3, <4>1, <4>2, <4>3
    <3> QED
      BY <3>1, <3>2
  <2>8. f = [i \in Nat |-> f[i]]
    OBVIOUS
  <2> QED
    BY <1>2, <2>1, <2>7, <2>8
<1>4. IsScan(scanned)
  BY <1>3
<1> HIDE DEF scanned
<1>5. PICK g : g = scanned
  OBVIOUS
<1>6. g = [i \in Nat |-> IF i <= Len(read) \div 2 THEN NoWord
                         ELSE AfterCharacter(g[i - 1], read, lengths, i)]
  BY <1>2, <1>4, <1>5
<1>7. Scans(g, read, lengths)
  BY ONLY <1>6 DEF Scans
<1> QED
  BY <1>1, <1>5, <1>7

\* The word that begins behind b and ends in front of e, and one of them that is a code.
IsWord(read, b, e) ==
  /\ b \in (Len(read) \div 2)..Len(read) /\ e \in Int /\ b < e /\ e <= Len(read) + 1
  /\ b = Len(read) \div 2 \/ read[b] \in Separator
  /\ e = Len(read) + 1 \/ read[e] \in Separator
  /\ \A k \in Int : b < k /\ k < e => read[k] \notin Separator

IsCode(read, lengths, b, e) ==
  /\ IsWord(read, b, e)
  /\ e - b - 1 \in lengths
  /\ \A k \in Int : b < k /\ k < e => IsDigit(read[k])

\* code is the last word that is a code and ends not behind i, or there is none.
LastKnown(code, read, lengths, i) ==
  \/ code = <<>> /\ \A b, e : IsCode(read, lengths, b, e) => e > i
  \/ \E b, e : /\ IsCode(read, lengths, b, e) /\ e <= i
               /\ code = SubSeq(read, b + 1, e - 1)
               /\ \A c, g : IsCode(read, lengths, c, g) /\ g <= i => c <= b

\* The word the loop is in after i characters began behind b.
Since(word, read, b, i) ==
  /\ b \in (Len(read) \div 2)..i
  /\ b = Len(read) \div 2 \/ read[b] \in Separator
  /\ \A k \in Int : b < k /\ k <= i => read[k] \notin Separator
  /\ word.start <=> \A k \in Int : b < k /\ k <= i => IsDigit(read[k])
  /\ word.count = IF word.start THEN i - b ELSE 0

\* What the loop knows after i characters.
WordInv(word, read, lengths, i) ==
  /\ word \in Word
  /\ \E b : Since(word, read, b, i)
  /\ LastKnown(word.code, read, lengths, i)

LEMMA EndWordIs ==
  ASSUME NEW n, NEW s, NEW c, NEW word, word = [count |-> n, start |-> s, code |-> c],
         NEW read, NEW lengths, NEW i
  PROVE  EndWord(word, read, lengths, i)
           = [count |-> 0, start |-> s,
              code |-> IF n \in lengths THEN SubSeq(read, i - n, i - 1) ELSE c]
<1>1. PICK part : part = SubSeq(read, i - n, i - 1)
  OBVIOUS
<1>2. word.count = n /\ word.code = c
  OBVIOUS
<1>3. EndWord(word, read, lengths, i)
        = [word EXCEPT !.count = 0, !.code = IF n \in lengths THEN part ELSE c]
  BY <1>1, <1>2, Zenon DEF EndWord
<1>4. PICK code : code = IF n \in lengths THEN part ELSE c
  OBVIOUS
<1>5. [word EXCEPT !.count = 0, !.code = code] = [count |-> 0, start |-> s, code |-> code]
  <2>1. PICK ended : ended = [word EXCEPT !.count = 0]
    OBVIOUS
  <2>2. ended = [count |-> 0, start |-> s, code |-> c]
    BY <2>1
  <2>3. [ended EXCEPT !.code = code] = [count |-> 0, start |-> s, code |-> code]
    BY <2>2
  <2> QED
    BY <2>1, <2>3, Zenon
<1> QED
  BY <1>1, <1>3, <1>4, <1>5, Zenon

\* The end of a word.
LEMMA WordEnds ==
  ASSUME NEW read \in Seq(Character), NEW lengths \in SUBSET (Nat \ {0}),
         NEW i \in (Len(read) \div 2 + 1)..(Len(read) + 1),
         i = Len(read) + 1 \/ read[i] \in Separator,
         NEW word, WordInv(word, read, lengths, i - 1)
  PROVE  /\ EndWord(word, read, lengths, i) \in Word
         /\ EndWord(word, read, lengths, i).count = 0
         /\ EndWord(word, read, lengths, i).start = word.start
         /\ LastKnown(EndWord(word, read, lengths, i).code, read, lengths, i)
         /\ word.count \notin lengths => LastKnown(word.code, read, lengths, i)
<1>1. PICK n, half : n = Len(read) /\ half = n \div 2
  OBVIOUS
<1>2. n \in Nat /\ half \in Nat /\ half <= n /\ i \in Int /\ half < i /\ i <= n + 1
      /\ (i = n + 1 \/ read[i] \in Separator)
  BY <1>1
<1>3. /\ word.count \in Nat /\ word.start \in BOOLEAN /\ word.code \in Seq(Character)
      /\ word = [count |-> word.count, start |-> word.start, code |-> word.code]
      /\ LastKnown(word.code, read, lengths, i - 1)
  BY DEF WordInv, Word
<1>4. PICK b : Since(word, read, b, i - 1)
  BY DEF WordInv
<1>5. /\ b \in Int /\ half <= b /\ b < i
      /\ (b = half \/ read[b] \in Separator)
      /\ \A k \in Int : b < k /\ k < i => read[k] \notin Separator
      /\ word.start <=> \A k \in Int : b < k /\ k < i => IsDigit(read[k])
      /\ word.count = IF word.start THEN i - 1 - b ELSE 0
  BY <1>1, <1>2, <1>4 DEF Since
<1>6. ASSUME NEW c, NEW g, IsCode(read, lengths, c, g), g <= i
      PROVE  (g < i /\ c < b) \/ (g = i /\ c = b)
  <2>1. /\ c \in Int /\ g \in Int /\ half <= c /\ c < g /\ g <= n + 1
        /\ (c = half \/ read[c] \in Separator)
        /\ (g = n + 1 \/ read[g] \in Separator)
        /\ \A k \in Int : c < k /\ k < g => read[k] \notin Separator
    BY <1>1, <1>2, <1>6 DEF IsCode, IsWord
  <2>2. CASE g < i
    BY <1>2, <1>5, <2>1, <2>2
  <2>3. CASE g = i
    BY <1>2, <1>5, <2>1, <2>3
  <2> QED
    BY <1>2, <1>6, <2>1, <2>2, <2>3
<1>7. CASE word.count \in lengths
  <2>1. word.start /\ word.count = i - 1 - b /\ i - word.count = b + 1
    BY <1>2, <1>3, <1>5, <1>7
  <2>2. IsCode(read, lengths, b, i)
    <3>1. IsWord(read, b, i)
      BY <1>1, <1>2, <1>5 DEF IsWord
    <3>2. i - b - 1 = i - 1 - b
      BY <1>2, <1>5
    <3> QED
      BY <1>5, <1>7, <2>1, <3>1, <3>2 DEF IsCode
  <2>3. PICK part : part = SubSeq(read, b + 1, i - 1)
    OBVIOUS
  <2>4. part \in Seq(Character)
    <3>1. b + 1 \in Nat /\ i - 1 \in Nat /\ b + 1 > 0 /\ b + 1 <= (i - 1) + 1 /\ i - 1 <= Len(read)
      BY <1>1, <1>2, <1>5
    <3> QED
      BY ONLY <2>3, <3>1, read \in Seq(Character), PieceIs
  <2>5. EndWord(word, read, lengths, i) = [count |-> 0, start |-> word.start, code |-> part]
    BY <1>3, <1>7, <2>1, <2>3, EndWordIs
  <2>6. LastKnown(part, read, lengths, i)
    <3>1. \A c, g : IsCode(read, lengths, c, g) /\ g <= i => c <= b
      <4>1. ASSUME NEW c, NEW g, IsCode(read, lengths, c, g), g <= i PROVE c <= b
        <5>1. c \in Int
          BY <4>1 DEF IsCode, IsWord
        <5> QED
          BY <1>5, <1>6, <4>1, <5>1
      <4> QED
        BY <4>1
    <3>2. i <= i
      BY <1>2
    <3> QED
      BY <2>2, <2>3, <3>1, <3>2 DEF LastKnown
  <2> QED
    BY <1>3, <1>7, <2>4, <2>5, <2>6 DEF Word
<1>8. CASE word.count \notin lengths
  <2>1. EndWord(word, read, lengths, i) = [count |-> 0, start |-> word.start, code |-> word.code]
    BY <1>3, <1>8, EndWordIs
  <2>2. ASSUME NEW c, NEW g, IsCode(read, lengths, c, g), g <= i PROVE g <= i - 1
    <3>1. ASSUME g = i PROVE FALSE
      <4>1. c = b
        BY <1>6, <2>2, <3>1
      <4>2. i - b - 1 \in lengths /\ \A k \in Int : b < k /\ k < i => IsDigit(read[k])
        BY <2>2, <3>1, <4>1 DEF IsCode
      <4>3. i - b - 1 = i - 1 - b
        BY <1>2, <1>5
      <4>4. word.count = i - 1 - b
        BY <1>5, <4>2
      <4> QED
        BY <1>8, <4>2, <4>3, <4>4
    <3>2. g \in Int
      BY <2>2 DEF IsCode, IsWord
    <3> QED
      BY <1>2, <2>2, <3>1, <3>2
  <2>3. LastKnown(word.code, read, lengths, i)
    <3>1. CASE word.code = <<>> /\ \A c, g : IsCode(read, lengths, c, g) => g > i - 1
      <4>1. ASSUME NEW c, NEW g, IsCode(read, lengths, c, g) PROVE g > i
        <5>1. g \in Int /\ g > i - 1
          BY <3>1, <4>1 DEF IsCode, IsWord
        <5> QED
          BY <1>2, <2>2, <4>1, <5>1
      <4> QED
        BY <3>1, <4>1 DEF LastKnown
    <3>2. ASSUME NEW c, NEW g, IsCode(read, lengths, c, g), g <= i - 1,
                 word.code = SubSeq(read, c + 1, g - 1),
                 \A d, h : IsCode(read, lengths, d, h) /\ h <= i - 1 => d <= c
          PROVE  LastKnown(word.code, read, lengths, i)
      <4>1. g <= i
        <5>1. g \in Int
          BY <3>2 DEF IsCode, IsWord
        <5> QED
          BY <1>2, <3>2, <5>1
      <4>2. ASSUME NEW d, NEW h, IsCode(read, lengths, d, h), h <= i PROVE d <= c
        BY <2>2, <3>2, <4>2
      <4> QED
        BY <3>2, <4>1, <4>2 DEF LastKnown
    <3> QED
      BY <1>3, <3>1, <3>2 DEF LastKnown
  <2> QED
    BY <1>3, <2>1, <2>3 DEF Word
<1> QED
  BY <1>7, <1>8

\* What happens to the fields of the word, count n, start s and code c, at a character.
Turns(new, n, s, c, word, read, lengths, i) ==
  /\ read[i] \in Separator /\ ~s => new = [count |-> n, start |-> TRUE, code |-> c]
  /\ read[i] \in Separator /\ s => new = EndWord(word, read, lengths, i)
  /\ IsDigit(read[i]) /\ s => new = [count |-> n + 1, start |-> TRUE, code |-> c]
  /\ IsDigit(read[i]) /\ ~s => new = word
  /\ read[i] \notin Separator /\ ~IsDigit(read[i]) =>
       new = [count |-> 0, start |-> FALSE, code |-> c]
  /\ IsDigit(read[i]) => read[i] \notin Separator

LEMMA AfterCharacterIs ==
  ASSUME NEW n \in Nat, NEW s \in BOOLEAN, NEW c, NEW word,
         word = [count |-> n, start |-> s, code |-> c],
         NEW read, NEW lengths, NEW i, read[i] \in Character
  PROVE  Turns(AfterCharacter(word, read, lengths, i), n, s, c, word, read, lengths, i)
<1>1. word.count = n /\ word.start = s /\ word.code = c
  OBVIOUS
<1>2. IsDigit(read[i]) => read[i] \notin Separator
  BY DEF IsDigit, Separator, Numeral, Hyphen, Space, Newline, Point
<1>3. [word EXCEPT !.start = TRUE] = [count |-> n, start |-> TRUE, code |-> c]
  <2>1. PICK yes : yes = TRUE
    OBVIOUS
  <2>2. [word EXCEPT !.start = yes] = [count |-> n, start |-> yes, code |-> c]
    OBVIOUS
  <2> QED
    BY <2>1, <2>2, Zenon
<1>4. [word EXCEPT !.count = @ + 1] = [count |-> n + 1, start |-> s, code |-> c]
  OBVIOUS
<1>5. [word EXCEPT !.count = 0, !.start = FALSE] = [count |-> 0, start |-> FALSE, code |-> c]
  <2>1. PICK cut : cut = [word EXCEPT !.count = 0]
    OBVIOUS
  <2>2. cut = [count |-> 0, start |-> s, code |-> c]
    BY <2>1
  <2>3. PICK no : no = FALSE
    OBVIOUS
  <2>4. [cut EXCEPT !.start = no] = [count |-> 0, start |-> no, code |-> c]
    BY <2>2
  <2> QED
    BY <2>1, <2>3, <2>4, Zenon
<1>6. PICK out : out = AfterCharacter(word, read, lengths, i)
  OBVIOUS
<1>7. PICK ended, opened, longer, spoilt :
        /\ ended = EndWord(word, read, lengths, i)
        /\ opened = [word EXCEPT !.start = TRUE]
        /\ longer = [word EXCEPT !.count = @ + 1]
        /\ spoilt = [word EXCEPT !.count = 0, !.start = FALSE]
  OBVIOUS
<1>8. out = CASE read[i] \in Separator /\ ~s -> opened
              [] read[i] \in Separator /\ s -> ended
              [] IsDigit(read[i]) /\ s -> longer
              [] IsDigit(read[i]) /\ ~s -> word
              [] OTHER -> spoilt
  BY <1>1, <1>6, <1>7, Zenon DEF AfterCharacter
<1>9. /\ read[i] \in Separator /\ ~s => out = opened
      /\ read[i] \in Separator /\ s => out = ended
      /\ IsDigit(read[i]) /\ s => out = longer
      /\ IsDigit(read[i]) /\ ~s => out = word
      /\ read[i] \notin Separator /\ ~IsDigit(read[i]) => out = spoilt
  BY <1>2, <1>8
<1> QED
  BY <1>2, <1>3, <1>4, <1>5, <1>6, <1>7, <1>9 DEF Turns

\* The loop starts with no word and no code.
LEMMA WordStarts ==
  ASSUME NEW read \in Seq(Character), NEW lengths
  PROVE  WordInv(NoWord, read, lengths, Len(read) \div 2)
<1>1. PICK half, n : n = Len(read) /\ half = n \div 2
  OBVIOUS
<1>2. n \in Nat /\ half \in Nat /\ half <= n
  BY <1>1
<1>3. NoWord \in Word /\ NoWord.start = TRUE /\ NoWord.count = 0 /\ NoWord.code = <<>>
  BY DEF NoWord, Word
<1>4. Since(NoWord, read, half, half)
  <2>1. half \in half..half /\ half - half = 0 /\ \A k \in Int : ~(half < k /\ k <= half)
    BY <1>2
  <2> QED
    BY <1>1, <1>3, <2>1 DEF Since
<1>5. ASSUME NEW b, NEW e, IsCode(read, lengths, b, e) PROVE e > half
  <2>1. b \in half..n /\ e \in Int /\ b < e
    BY <1>1, <1>5 DEF IsCode, IsWord
  <2> QED
    BY <1>2, <2>1
<1>6. LastKnown(NoWord.code, read, lengths, half)
  BY <1>3, <1>5 DEF LastKnown
<1> QED
  BY <1>1, <1>3, <1>4, <1>6 DEF WordInv

\* And keeps what it knows with every character.
LEMMA WordGoesOn ==
  ASSUME NEW read \in Seq(Character), NEW lengths \in SUBSET (Nat \ {0}),
         NEW i \in (Len(read) \div 2 + 1)..Len(read),
         NEW word, WordInv(word, read, lengths, i - 1)
  PROVE  WordInv(AfterCharacter(word, read, lengths, i), read, lengths, i)
<1>1. PICK n, half : n = Len(read) /\ half = n \div 2
  OBVIOUS
<1>2. n \in Nat /\ half \in Nat /\ half <= n /\ i \in Int /\ half < i /\ i <= n /\ i <= n + 1
      /\ read[i] \in Character
  BY <1>1
<1>3. PICK m \in Nat, s \in BOOLEAN, c \in Seq(Character) :
        word = [count |-> m, start |-> s, code |-> c]
  BY DEF WordInv, Word
<1>4. word.count = m /\ word.start = s /\ word.code = c
  BY <1>3
<1>5. PICK b : Since(word, read, b, i - 1)
  BY DEF WordInv
<1>6. /\ b \in Int /\ half <= b /\ b < i
      /\ (b = half \/ read[b] \in Separator)
      /\ \A k \in Int : b < k /\ k < i => read[k] \notin Separator
      /\ s <=> \A k \in Int : b < k /\ k < i => IsDigit(read[k])
      /\ m = IF s THEN i - 1 - b ELSE 0
  <2>1. \A k \in Int : k <= i - 1 <=> k < i
    BY <1>2
  <2> QED
    BY <1>1, <1>2, <1>4, <1>5, <2>1 DEF Since
<1>7. PICK new : new = AfterCharacter(word, read, lengths, i)
  OBVIOUS
<1>8. /\ read[i] \in Separator /\ ~s => new = [count |-> m, start |-> TRUE, code |-> c]
      /\ read[i] \in Separator /\ s => new = EndWord(word, read, lengths, i)
      /\ IsDigit(read[i]) /\ s => new = [count |-> m + 1, start |-> TRUE, code |-> c]
      /\ IsDigit(read[i]) /\ ~s => new = word
      /\ read[i] \notin Separator /\ ~IsDigit(read[i]) =>
           new = [count |-> 0, start |-> FALSE, code |-> c]
      /\ IsDigit(read[i]) => read[i] \notin Separator
  <2>1. m \in Nat /\ s \in BOOLEAN
    OBVIOUS
  <2>2. read[i] \in Character
    BY <1>2
  <2>3. word = [count |-> m, start |-> s, code |-> c]
    BY <1>3
  <2> QED
    <3>1. Turns(AfterCharacter(word, read, lengths, i), m, s, c, word, read, lengths, i)
      BY ONLY <2>1, <2>2, <2>3, AfterCharacterIs
    <3> QED
      BY ONLY <1>7, <3>1 DEF Turns
<1>9. CASE read[i] \in Separator
  <2>1. /\ EndWord(word, read, lengths, i) \in Word
        /\ EndWord(word, read, lengths, i).count = 0
        /\ EndWord(word, read, lengths, i).start = word.start
        /\ LastKnown(EndWord(word, read, lengths, i).code, read, lengths, i)
        /\ word.count \notin lengths => LastKnown(word.code, read, lengths, i)
    <3>1. i \in (Len(read) \div 2 + 1)..(Len(read) + 1)
      BY <1>1, <1>2
    <3> QED
      BY ONLY <1>9, <3>1, read \in Seq(Character), lengths \in SUBSET (Nat \ {0}),
              WordInv(word, read, lengths, i - 1), WordEnds
  <2>2. new \in Word /\ new.start = TRUE /\ new.count = 0
        /\ LastKnown(new.code, read, lengths, i)
    <3>1. CASE s
      BY <1>4, <1>8, <1>9, <2>1, <3>1
    <3>2. CASE ~s
      <4>1. m = 0 /\ 0 \notin lengths
        BY <1>6, <3>2
      <4>2. new = [count |-> m, start |-> TRUE, code |-> c]
        BY <1>8, <1>9, <3>2
      <4>3. LastKnown(c, read, lengths, i)
        BY <1>4, <2>1, <4>1
      <4>4. new.start = TRUE /\ new.count = 0 /\ new.code = c /\ new \in Word
        BY <4>1, <4>2 DEF Word
      <4> QED
        BY <4>3, <4>4
    <3> QED
      BY <3>1, <3>2
  <2>3. Since(new, read, i, i)
    <3>1. i \in half..i /\ i - i = 0 /\ \A k \in Int : ~(i < k /\ k <= i)
      BY <1>2
    <3> QED
      BY <1>1, <1>9, <2>2, <3>1 DEF Since
  <2> QED
    BY <1>7, <2>2, <2>3 DEF WordInv
<1>10. CASE read[i] \notin Separator
  <2>1. /\ b \in half..i
        /\ \A k \in Int : b < k /\ k <= i => read[k] \notin Separator
        /\ (\A k \in Int : b < k /\ k <= i => IsDigit(read[k]))
             <=> ((\A k \in Int : b < k /\ k < i => IsDigit(read[k])) /\ IsDigit(read[i]))
    <3>1. \A k \in Int : k <= i <=> k < i \/ k = i
      BY <1>2
    <3> QED
      BY <1>2, <1>6, <1>10, <3>1
  <2>2. LastKnown(c, read, lengths, i)
    <3>1. LastKnown(c, read, lengths, i - 1)
      BY <1>4 DEF WordInv
    <3>2. ASSUME NEW d, NEW g, IsCode(read, lengths, d, g)
          PROVE  g \in Int /\ (g <= i <=> g <= i - 1) /\ (g > i - 1 => g > i)
      <4>1. g \in Int /\ (g = n + 1 \/ read[g] \in Separator)
        BY <1>1, <3>2 DEF IsCode, IsWord
      <4>2. g # i
        BY <1>2, <1>10, <4>1
      <4> QED
        BY <1>2, <4>1, <4>2
    <3>3. CASE c = <<>> /\ \A d, g : IsCode(read, lengths, d, g) => g > i - 1
      BY <3>2, <3>3 DEF LastKnown
    <3>4. ASSUME NEW d, NEW g, IsCode(read, lengths, d, g), g <= i - 1,
                 c = SubSeq(read, d + 1, g - 1),
                 \A e, h : IsCode(read, lengths, e, h) /\ h <= i - 1 => e <= d
          PROVE  LastKnown(c, read, lengths, i)
      <4>1. g <= i
        BY <3>2, <3>4
      <4>2. \A e, h : IsCode(read, lengths, e, h) /\ h <= i => e <= d
        BY <3>2, <3>4
      <4> QED
        BY <3>4, <4>1, <4>2 DEF LastKnown
    <3> QED
      BY <3>1, <3>3, <3>4 DEF LastKnown
  <2>3. CASE IsDigit(read[i]) /\ s
    <3>1. m + 1 = i - b /\ m + 1 \in Nat
      BY <1>2, <1>6, <2>3
    <3>2. new.count = m + 1 /\ new.start = TRUE /\ new.code = c /\ new \in Word
      <4>1. new = [count |-> m + 1, start |-> TRUE, code |-> c]
        BY <1>8, <2>3
      <4>2. PICK more : more = m + 1
        OBVIOUS
      <4>3. new = [count |-> more, start |-> TRUE, code |-> c] /\ more \in Nat
        BY <3>1, <4>1, <4>2
      <4>4. c \in Seq(Character)
        OBVIOUS
      <4> QED
        BY ONLY <4>2, <4>3, <4>4 DEF Word
    <3>3. Since(new, read, b, i)
      BY <1>1, <1>6, <2>1, <2>3, <3>1, <3>2 DEF Since
    <3> QED
      BY <1>7, <2>2, <3>2, <3>3 DEF WordInv
  <2>4. CASE ~(IsDigit(read[i]) /\ s)
    <3>1. new.count = 0 /\ new.start = FALSE /\ new.code = c /\ new \in Word
      <4>1. CASE IsDigit(read[i])
        <5>1. ~s /\ m = 0
          BY <1>6, <2>4, <4>1
        <5>2. new = word /\ word.start = FALSE
          BY <1>4, <1>8, <4>1, <5>1
        <5> QED
          BY <1>4, <5>1, <5>2 DEF WordInv
      <4>2. CASE ~IsDigit(read[i])
        <5>1. new = [count |-> 0, start |-> FALSE, code |-> c]
          BY <1>8, <1>10, <4>2
        <5> QED
          BY <5>1 DEF Word
      <4> QED
        BY <4>1, <4>2
    <3>2. Since(new, read, b, i)
      BY <1>1, <1>6, <2>1, <2>4, <3>1 DEF Since
    <3> QED
      BY <1>7, <2>2, <3>1, <3>2 DEF WordInv
  <2> QED
    BY <2>3, <2>4
<1> QED
  BY <1>9, <1>10

\* What is known at the end of the text is the last word that is a code.
LEMMA LastKnownIs ==
  ASSUME NEW read \in Seq(Character), NEW lengths, NEW code,
         LastKnown(code, read, lengths, Len(read) + 1)
  PROVE  code = LastCodeWord(read, lengths)
<1>1. PICK n, half : n = Len(read) /\ half = n \div 2
  OBVIOUS
<1>2. n \in Nat /\ half \in Nat /\ half <= n
  BY <1>1
<1> DEFINE found == {w \in WordsOfHalf(read) :
                       /\ w[2] - w[1] - 1 \in lengths
                       /\ \A i \in (w[1] + 1)..(w[2] - 1) : IsDigit(read[i])}
           final == CHOOSE w \in found : \A v \in found : v[1] <= w[1]
<1>3. LastCodeWord(read, lengths)
        = IF found = {} THEN <<>> ELSE SubSeq(read, final[1] + 1, final[2] - 1)
  BY DEF LastCodeWord
<1>4. PICK codes, last :
        /\ codes = {w \in WordsOfHalf(read) :
                      /\ w[2] - w[1] - 1 \in lengths
                      /\ \A i \in (w[1] + 1)..(w[2] - 1) : IsDigit(read[i])}
        /\ last = CHOOSE w \in codes : \A v \in codes : v[1] <= w[1]
        /\ codes = found /\ last = final
  OBVIOUS
<1>5. LastCodeWord(read, lengths)
        = IF codes = {} THEN <<>> ELSE SubSeq(read, last[1] + 1, last[2] - 1)
  <2> HIDE DEF found, final
  <2> QED
    BY <1>3, <1>4, Zenon
<1> HIDE DEF found, final
<1>6. \A w : w \in codes <=>
        /\ w = <<w[1], w[2]>> /\ w \in (half..n) \X ((half + 1)..(n + 1))
        /\ IsCode(read, lengths, w[1], w[2])
  <2>1. ASSUME NEW w PROVE w \in codes <=>
          /\ w \in (half..n) \X ((half + 1)..(n + 1))
          /\ IsCode(read, lengths, w[1], w[2])
    <3>1. w \in WordsOfHalf(read) <=>
            /\ w \in (half..n) \X ((half + 1)..(n + 1))
            /\ w[1] < w[2] /\ (w[1] = half \/ read[w[1]] \in Separator)
            /\ (w[2] = n + 1 \/ read[w[2]] \in Separator)
            /\ \A i \in (w[1] + 1)..(w[2] - 1) : read[i] \notin Separator
      <4>1. (half + 1) - 1 = half
        BY <1>2
      <4> QED
        BY <1>1, <4>1 DEF WordsOfHalf
    <3>2. ASSUME w \in (half..n) \X ((half + 1)..(n + 1))
          PROVE  /\ w[1] \in half..n /\ w[2] \in Int /\ w[2] <= n + 1
                 /\ \A i : i \in (w[1] + 1)..(w[2] - 1) <=> i \in Int /\ w[1] < i /\ i < w[2]
      BY <1>2, <3>2
    <3>3. CASE w \in (half..n) \X ((half + 1)..(n + 1))
      <4>1. PICK b, e : b = w[1] /\ e = w[2]
        OBVIOUS
      <4>2. /\ b \in half..n /\ e \in Int /\ e <= n + 1
            /\ \A i : i \in (b + 1)..(e - 1) <=> i \in Int /\ b < i /\ i < e
        BY <3>2, <3>3, <4>1
      <4>3. w \in codes <=>
              /\ b < e /\ (b = half \/ read[b] \in Separator)
              /\ (e = n + 1 \/ read[e] \in Separator)
              /\ \A i \in (b + 1)..(e - 1) : read[i] \notin Separator
              /\ e - b - 1 \in lengths
              /\ \A i \in (b + 1)..(e - 1) : IsDigit(read[i])
        BY <1>4, <3>1, <3>3, <4>1
      <4>4. IsCode(read, lengths, b, e) <=>
              /\ b < e /\ (b = half \/ read[b] \in Separator)
              /\ (e = n + 1 \/ read[e] \in Separator)
              /\ \A i \in (b + 1)..(e - 1) : read[i] \notin Separator
              /\ e - b - 1 \in lengths
              /\ \A i \in (b + 1)..(e - 1) : IsDigit(read[i])
        BY <1>1, <4>2 DEF IsCode, IsWord
      <4> QED
        BY <3>3, <4>1, <4>3, <4>4
    <3>4. CASE w \notin (half..n) \X ((half + 1)..(n + 1))
      BY <1>4, <3>1, <3>4
    <3> QED
      BY <3>3, <3>4
  <2>2. ASSUME NEW w, w \in (half..n) \X ((half + 1)..(n + 1)) PROVE w = <<w[1], w[2]>>
    BY <2>2
  <2> QED
    BY <2>1, <2>2
<1>7. ASSUME NEW b, NEW e, IsCode(read, lengths, b, e)
      PROVE  <<b, e>> \in codes /\ e <= n + 1 /\ e > half /\ b \in Int /\ e \in Int
  <2>1. b \in half..n /\ e \in Int /\ b < e /\ e <= n + 1
    BY <1>1, <1>7 DEF IsCode, IsWord
  <2>2. b \in Int /\ e > half /\ e \in (half + 1)..(n + 1)
    BY <1>2, <2>1
  <2>3. PICK w : w = <<b, e>>
    OBVIOUS
  <2>4. w[1] = b /\ w[2] = e /\ w = <<w[1], w[2]>> /\ w \in (half..n) \X ((half + 1)..(n + 1))
    BY <2>1, <2>2, <2>3
  <2> QED
    BY <1>6, <1>7, <2>1, <2>2, <2>3, <2>4
<1>8. CASE code = <<>> /\ \A b, e : IsCode(read, lengths, b, e) => e > n + 1
  <2>1. codes = {}
    <3>1. ASSUME NEW w \in codes PROVE FALSE
      <4>1. IsCode(read, lengths, w[1], w[2])
        BY <1>6, <3>1
      <4>2. w[2] > n + 1 /\ w[2] <= n + 1 /\ w[2] \in Int
        BY <1>7, <1>8, <4>1
      <4> QED
        BY <1>2, <4>2
    <3> QED
      BY <3>1
  <2> QED
    BY <1>5, <1>8, <2>1
<1>9. ASSUME NEW b, NEW e, IsCode(read, lengths, b, e), code = SubSeq(read, b + 1, e - 1),
             \A c, g : IsCode(read, lengths, c, g) /\ g <= n + 1 => c <= b
      PROVE  code = LastCodeWord(read, lengths)
  <2>1. PICK w : w = <<b, e>>
    OBVIOUS
  <2>2. w \in codes /\ w[1] = b /\ w[2] = e
    BY <1>7, <1>9, <2>1
  <2>3. \A v \in codes : v[1] <= w[1]
    <3>1. ASSUME NEW v \in codes PROVE v[1] <= b
      <4>1. IsCode(read, lengths, v[1], v[2])
        BY <1>6, <3>1
      <4>2. v[2] <= n + 1
        BY <1>7, <4>1
      <4> QED
        BY <1>9, <4>1, <4>2
    <3> QED
      BY <2>2, <3>1
  <2>4. last \in codes /\ \A v \in codes : v[1] <= last[1]
    BY <1>4, <2>2, <2>3
  <2>5. PICK c, g : c = last[1] /\ g = last[2]
    OBVIOUS
  <2>6. IsCode(read, lengths, c, g) /\ c <= b /\ b <= c
    BY <1>6, <2>2, <2>3, <2>4, <2>5
  <2>7. b \in Int /\ c \in Int /\ e \in Int /\ g \in Int /\ b < e /\ c < g
    BY <1>7, <1>9, <2>6 DEF IsCode, IsWord
  <2>8. b = c
    BY <2>6, <2>7
\* The word ends at the first separator behind its beginning.
  <2>9. e = g
    <3>1. /\ (e = n + 1 \/ read[e] \in Separator) /\ e <= n + 1
          /\ (g = n + 1 \/ read[g] \in Separator) /\ g <= n + 1
          /\ \A k \in Int : b < k /\ k < e => read[k] \notin Separator
          /\ \A k \in Int : b < k /\ k < g => read[k] \notin Separator
      BY <1>1, <1>9, <2>6, <2>8 DEF IsCode, IsWord
    <3>2. CASE e < g
      BY <1>2, <2>7, <2>8, <3>1, <3>2
    <3>3. CASE g < e
      BY <1>2, <2>7, <2>8, <3>1, <3>3
    <3> QED
      BY <2>7, <3>2, <3>3
  <2>10. LastCodeWord(read, lengths) = SubSeq(read, last[1] + 1, last[2] - 1)
    BY <1>5, <2>2, Zenon
  <2> QED
    BY <1>9, <2>5, <2>8, <2>9, <2>10, Zenon
<1> QED
  BY <1>1, <1>8, <1>9 DEF LastKnown

\* The state machine over a text: what it knows at the end has its type, and what it
\* reports is the last word that is a code.
LEMMA LastCodeIs ==
  ASSUME NEW read \in Seq(Character), NEW lengths \in SUBSET (Nat \ {0})
  PROVE  /\ ScanWords(read, lengths) \in Word
         /\ LastCode(read, lengths) = LastCodeWord(read, lengths)
<1>1. PICK n, half : n = Len(read) /\ half = n \div 2
  OBVIOUS
<1>2. n \in Nat /\ half \in Nat /\ half <= n
  BY <1>1
<1>3. PICK scan : Scans(scan, read, lengths) /\ ScanWords(read, lengths) = scan[n]
  BY <1>1, <1>2, ScanExists
<1> DEFINE Good == {k \in Nat : half <= k /\ k <= n => WordInv(scan[k], read, lengths, k)}
<1>4. WordInv(scan[half], read, lengths, half)
  <2>1. scan[half] = NoWord
    BY <1>1, <1>2, <1>3 DEF Scans
  <2> QED
    BY <1>1, <2>1, WordStarts
<1>5. 0 \in Good
  <2>1. ASSUME half <= 0 PROVE half = 0
    BY <1>2, <2>1
  <2> QED
    BY <1>4, <2>1
<1>6. ASSUME NEW k \in Nat, k \in Good PROVE k + 1 \in Good
  <2>1. ASSUME half <= k + 1, k + 1 <= n PROVE WordInv(scan[k + 1], read, lengths, k + 1)
    <3>1. CASE half = k + 1
      BY <1>4, <3>1
    <3>2. CASE half # k + 1
      <4>1. half <= k /\ k <= n /\ ~(k + 1 <= half) /\ k + 1 \in Nat /\ (k + 1) - 1 = k
        BY <1>2, <2>1, <3>2
      <4>2. k + 1 \in (Len(read) \div 2 + 1)..Len(read)
        BY <1>1, <1>2, <2>1, <4>1
      <4>3. WordInv(scan[k], read, lengths, (k + 1) - 1)
        BY <1>6, <4>1
      <4>4. scan[k + 1] = AfterCharacter(scan[k], read, lengths, k + 1)
        BY <1>1, <1>3, <4>1 DEF Scans
      <4>5. PICK i, word : i = k + 1 /\ word = scan[k]
        OBVIOUS
      <4>6. WordInv(AfterCharacter(word, read, lengths, i), read, lengths, i)
        <5>1. i \in (Len(read) \div 2 + 1)..Len(read) /\ WordInv(word, read, lengths, i - 1)
          BY ONLY <4>2, <4>3, <4>5
        <5> QED
          BY ONLY <5>1, read \in Seq(Character), lengths \in SUBSET (Nat \ {0}), WordGoesOn
      <4> QED
        BY ONLY <4>4, <4>5, <4>6
    <3> QED
      BY <3>1, <3>2
  <2> QED
    BY <2>1
<1>7. Nat \subseteq Good
  <2> HIDE DEF Good
  <2> QED
    BY <1>5, <1>6, AllNumbers
<1>8. WordInv(scan[n], read, lengths, n)
  BY <1>2, <1>7
<1>9. PICK word, i : word = scan[n] /\ i = n + 1
  OBVIOUS
<1>10. i \in (Len(read) \div 2 + 1)..(Len(read) + 1) /\ i = Len(read) + 1 /\ i - 1 = n
  BY <1>1, <1>2, <1>9
<1>11. WordInv(word, read, lengths, i - 1)
  BY <1>8, <1>9, <1>10
<1>12. LastKnown(EndWord(word, read, lengths, i).code, read, lengths, i)
  BY ONLY <1>10, <1>11, read \in Seq(Character), lengths \in SUBSET (Nat \ {0}), WordEnds
<1>13. LastCode(read, lengths) = EndWord(word, read, lengths, i).code
  BY <1>1, <1>3, <1>9 DEF LastCode
<1>14. LastKnown(LastCode(read, lengths), read, lengths, Len(read) + 1)
  BY ONLY <1>10, <1>12, <1>13
<1>15. LastCode(read, lengths) = LastCodeWord(read, lengths)
  BY ONLY <1>14, read \in Seq(Character), LastKnownIs
<1>16. ScanWords(read, lengths) \in Word
  BY <1>3, <1>8 DEF WordInv
<1> QED
  BY <1>15, <1>16

\* The text and the boxes have their types.
InputInv ==
  /\ pieces \in 0..MaxPieces
  /\ text \in Seq(Character)
  /\ boxes \in Seq(Box)

\* A piece of a text consists of characters.
LEMMA PieceIsText ==
  ASSUME text \in Seq(Character), NEW piece \in Piece
  PROVE  piece \in Seq(Character)
<1>1. CASE piece \in {<<c>> : c \in Character \ Numeral}
  <2>1. PICK c \in Character : piece = <<c>>
    BY <1>1
  <2> QED
    BY <2>1
<1>2. CASE piece \in {[k \in 1..n |-> (Len(text) + k) % 10] : n \in {1, 4, 5, 6}}
  <2>1. PICK n \in Nat : piece = [k \in 1..n |-> (Len(text) + k) % 10]
    <3>1. PICK n \in {1, 4, 5, 6} : piece = [k \in 1..n |-> (Len(text) + k) % 10]
      BY <1>2
    <3>2. n \in Nat
      OBVIOUS
    <3> QED
      BY <3>1, <3>2
  <2>2. ASSUME NEW k \in 1..n PROVE (Len(text) + k) % 10 \in Character
    BY DEF Character, Numeral
  <2>3. piece \in [1..n -> Character]
    BY <2>1, <2>2
  <2> QED
    BY <2>3
<1> QED
  BY <1>1, <1>2 DEF Piece

LEMMA InputAlways == Spec => []InputInv
<1>1. Init => InputInv
  BY BoundsAssumption DEF Init, InputInv
<1>2. InputInv /\ [Next]_vars => InputInv'
  <2> SUFFICES ASSUME InputInv, [Next]_vars PROVE InputInv'
    OBVIOUS
  <2>1. CASE Extend
    BY <2>1 DEF Extend, InputInv
  <2>2. CASE Garble
    BY <2>2 DEF Garble, InputInv
  <2>3. CASE Write
    <3>1. PICK piece \in Piece : text' = text \o piece
      BY <2>3 DEF Write
    <3>2. text \in Seq(Character)
      BY DEF InputInv
    <3>3. piece \in Seq(Character)
      BY <3>2, PieceIsText
    <3>4. text' \in Seq(Character)
      BY <3>1, <3>2, <3>3
    <3>5. pieces' \in 0..MaxPieces /\ boxes' = boxes
      BY <2>3, BoundsAssumption DEF Write, InputInv
    <3> QED
      BY <3>4, <3>5 DEF InputInv
  <2>4. CASE Find
    BY <2>4 DEF Find, InputInv
  <2>5. CASE UNCHANGED vars
    BY <2>5 DEF vars, InputInv
  <2> QED
    BY <2>1, <2>2, <2>3, <2>4, <2>5 DEF Next
<1> QED
  BY <1>1, <1>2, PTL DEF Spec

\* The state machine over an arbitrary tag or a lottery tag reports, of a text of every
\* length, the last word of its second half that is a code.
THEOREM LastWordIsRead == Spec => []LastWordIsCode
<1>1. InputInv => LastWordIsCode
  <2> SUFFICES ASSUME InputInv PROVE LastWordIsCode
    OBVIOUS
  <2>1. text \in Seq(Character)
    BY DEF InputInv
  <2>2. {5, 10} \in SUBSET (Nat \ {0}) /\ {5} \in SUBSET (Nat \ {0})
    OBVIOUS
  <2>3. LastCode(text, {5, 10}) = LastCodeWord(text, {5, 10})
    BY ONLY <2>1, <2>2, LastCodeIs
  <2>4. LastCode(text, {5}) = LastCodeWord(text, {5})
    BY ONLY <2>1, <2>2, LastCodeIs
  <2> QED
    BY <2>3, <2>4 DEF LastWordIsCode, format_results, formatLotteryPostcode
<1> QED
  BY <1>1, InputAlways, PTL

\* The inputs have their types, and so has the state in which the loop over a text ends.
THEOREM InputsAreTyped == Spec => []TypeOK
<1>1. MessageInv /\ InputInv => TypeOK
  <2> SUFFICES ASSUME MessageInv, InputInv PROVE TypeOK
    OBVIOUS
  <2>1. text \in Seq(Character)
    BY DEF InputInv
  <2>2. {5, 10} \in SUBSET (Nat \ {0})
    OBVIOUS
  <2>3. ScanWords(text, {5, 10}) \in Word
    BY ONLY <2>1, <2>2, LastCodeIs
  <2> QED
    BY <2>3 DEF MessageInv, InputInv, TypeOK
<1> QED
  BY <1>1, MessageAlways, InputAlways, PTL

-----------------------------------------------------------------------------
(* Boxes.                                                                  *)

\* The suppression box by box: h[n] is what is kept of the first n boxes of s.
Keeps(h, s) ==
  /\ h \in [0..Len(s) -> Seq(Box)] /\ h[0] = <<>>
  /\ \A n \in 0..(Len(s) - 1) :
       h[n + 1] = IF \E k \in ToSet(h[n]) : Overlaps(k.at, s[n + 1].at) THEN h[n]
                  ELSE Append(h[n], s[n + 1])

LEMMA KeptOneByOne ==
  ASSUME NEW s \in Seq(Box)
  PROVE  \E h : Keeps(h, s) /\ nms_rotated_rect(s) = h[Len(s)]
<1>1. PICK D : D = DOMAIN s
  OBVIOUS
<1>2. D = 1..Len(s) /\ Len(s) \in Nat
  BY <1>1
<1> DEFINE Keep(kept, box) ==
             IF \E k \in ToSet(kept) : Overlaps(k.at, box.at) THEN kept ELSE Append(kept, box)
           IsFold(g) == g = [p \in SUBSET D |-> IF p = {} THEN <<>>
                                                ELSE LET x == Max(p) IN Keep(g[p \ {x}], s[x])]
           fold == CHOOSE g : IsFold(g)
<1>3. nms_rotated_rect(s) = fold[D]
  BY <1>1 DEF nms_rotated_rect, FoldLeft, MapThenFoldSet
<1>4. \E g : IsFold(g)
  <2>1. PICK keep : keep = [e \in Seq(Box) \X Box |-> Keep(e[1], e[2])]
    OBVIOUS
  <2>2. <<>> \in Seq(Box) /\ keep \in [Seq(Box) \X Box -> Seq(Box)]
    <3>1. ASSUME NEW e \in Seq(Box) \X Box PROVE Keep(e[1], e[2]) \in Seq(Box)
      <4>1. e[1] \in Seq(Box) /\ Append(e[1], e[2]) \in Seq(Box)
        OBVIOUS
      <4> QED
        BY <4>1
    <3> HIDE DEF Keep
    <3> QED
      BY <2>1, <3>1
  <2>3. PICK g \in [SUBSET DOMAIN s -> Seq(Box)] : Folded(g, s, <<>>, keep)
    BY ONLY <2>2, s \in Seq(Box), FoldExists
  <2>4. ASSUME NEW p \in SUBSET D
        PROVE  g[p] = IF p = {} THEN <<>> ELSE LET x == Max(p) IN Keep(g[p \ {x}], s[x])
    <3> HIDE DEF Keep
    <3>1. CASE p = {}
      BY <1>1, <2>3, <3>1 DEF Folded
    <3>2. CASE p # {}
      <4>1. g[p] = keep[<<g[p \ {Max(p)}], s[Max(p)]>>]
        BY <1>1, <2>3, <3>2 DEF Folded
      <4>2. Max(p) \in p
        BY <1>2, <3>2, GreatestIn
      <4>3. PICK a, b : a = g[p \ {Max(p)}] /\ b = s[Max(p)]
        OBVIOUS
      <4>4. b \in Box /\ a \in Seq(Box)
        BY <1>1, <1>2, <4>2, <4>3
      <4>5. keep[<<a, b>>] = Keep(a, b)
        BY <2>1, <4>4
      <4> QED
        BY <3>2, <4>1, <4>3, <4>5
    <3> QED
      BY <3>1, <3>2
  <2>5. g = [p \in SUBSET D |-> g[p]]
    BY <1>1, <2>3
  <2>6. IsFold(g)
    <3> HIDE DEF Keep
    <3> QED
      BY <2>4, <2>5
  <2> QED
    BY <2>6
<1>5. IsFold(fold)
  <2> HIDE DEF IsFold
  <2> QED
    BY <1>4
<1> HIDE DEF fold
<1>6. ASSUME NEW p \in SUBSET D
      PROVE  /\ p = {} => fold[p] = <<>>
             /\ p # {} => fold[p] = Keep(fold[p \ {Max(p)}], s[Max(p)])
  <2> HIDE DEF Keep
  <2> QED
    BY ONLY <1>5, <1>6 DEF IsFold
<1> HIDE DEF IsFold
<1>7. PICK h : h = [n \in 0..Len(s) |-> fold[1..n]]
  OBVIOUS
<1>8. h[0] = <<>>
  <2>1. 1..0 = {} /\ 0 \in 0..Len(s) /\ {} \in SUBSET D
    BY <1>2
  <2> QED
    BY <1>6, <1>7, <2>1
<1>9. ASSUME NEW n \in 0..(Len(s) - 1) PROVE h[n + 1] = Keep(h[n], s[n + 1])
  <2>1. n \in 0..Len(s) /\ n + 1 \in 0..Len(s) /\ n \in Nat
    BY <1>2
  <2>2. Max(1..(n + 1)) = n + 1 /\ (1..(n + 1)) \ {n + 1} = 1..n /\ 1..(n + 1) # {}
    BY <2>1, Prefix
  <2>3. 1..(n + 1) \in SUBSET D
    BY <1>2, <2>1
  <2> HIDE DEF Keep
  <2>4. fold[1..(n + 1)] = Keep(fold[1..n], s[n + 1])
    BY <1>6, <2>2, <2>3
  <2> QED
    BY <1>7, <2>1, <2>4
<1>10. \A n \in Nat : n <= Len(s) => h[n] \in Seq(Box)
  <2> DEFINE Good == {n \in Nat : n <= Len(s) => h[n] \in Seq(Box)}
  <2>1. 0 \in Good
    <3>1. <<>> \in Seq(Box)
      OBVIOUS
    <3>2. h[0] \in Seq(Box)
      BY ONLY <1>8, <3>1
    <3> QED
      BY ONLY <3>2
  <2>2. ASSUME NEW n \in Nat, n \in Good PROVE n + 1 \in Good
    <3>1. ASSUME n + 1 <= Len(s) PROVE h[n + 1] \in Seq(Box)
      <4>1. n \in 0..(Len(s) - 1) /\ n <= Len(s) /\ n + 1 \in 1..Len(s)
        BY <1>2, <3>1
      <4>2. h[n] \in Seq(Box) /\ s[n + 1] \in Box /\ h[n + 1] = Keep(h[n], s[n + 1])
        BY <1>9, <2>2, <4>1
      <4>3. Append(h[n], s[n + 1]) \in Seq(Box)
        BY <4>2
      <4> QED
        BY <4>2, <4>3
    <3> QED
      BY <3>1
  <2>3. Nat \subseteq Good
    <3> HIDE DEF Good
    <3> QED
      BY <2>1, <2>2, AllNumbers
  <2> QED
    BY <2>3
<1>11. h \in [0..Len(s) -> Seq(Box)] /\ fold[D] = h[Len(s)]
  BY <1>2, <1>7, <1>10
<1>12. Keeps(h, s)
  BY <1>8, <1>9, <1>11 DEF Keeps
<1> QED
  BY <1>3, <1>11, <1>12

\* The box of a class found before or behind another.
Covers(k, box) == k.at = box.at \/ Overlaps(k.at, box.at)

\* What the suppression among boxes keeps: boxes of theirs, none overlapping another, and
\* one for every box.
Kept(r, s, n) ==
  /\ r \in Seq(Box)
  /\ \A i \in 1..Len(r) : \E j \in 1..n : r[i] = s[j]
  /\ \A i, j \in 1..Len(r) : i # j => ~Overlaps(r[i].at, r[j].at)
  /\ \A j \in 1..n : \E i \in 1..Len(r) : Covers(r[i], s[j])

LEMMA KeptNext ==
  ASSUME NEW s \in Seq(Box), NEW n \in 0..(Len(s) - 1), NEW r, Kept(r, s, n),
         NEW u, u = IF \E k \in ToSet(r) : Overlaps(k.at, s[n + 1].at) THEN r
                    ELSE Append(r, s[n + 1])
  PROVE  Kept(u, s, n + 1)
<1>1. n \in Nat /\ n + 1 \in 1..Len(s) /\ s[n + 1] \in Box /\ \A j \in 1..(n + 1) : j \in 1..n \/ j = n + 1
  OBVIOUS
<1>2. n + 1 \in 1..(n + 1) /\ \A j \in 1..n : j \in 1..(n + 1)
  BY <1>1
<1>3. r \in Seq(Box) /\ Len(r) \in Nat /\ \A i \in 1..Len(r) : r[i] \in Box
  BY DEF Kept
<1>4. ToSet(r) = {r[i] : i \in 1..Len(r)}
  BY <1>3 DEF ToSet
<1>5. PICK b : b = s[n + 1]
  OBVIOUS
<1>6. CASE \E k \in ToSet(r) : Overlaps(k.at, b.at)
  <2>1. u = r
    BY <1>5, <1>6
  <2>2. PICK i \in 1..Len(r) : Covers(r[i], b)
    BY <1>4, <1>6 DEF Covers
  <2>3. \A j \in 1..(n + 1) : \E k \in 1..Len(r) : Covers(r[k], s[j])
    BY <1>1, <1>5, <2>2 DEF Kept
  <2>4. \A k \in 1..Len(r) : \E j \in 1..(n + 1) : r[k] = s[j]
    BY <1>2 DEF Kept
  <2> QED
    BY <2>1, <2>3, <2>4 DEF Kept
<1>7. CASE ~\E k \in ToSet(r) : Overlaps(k.at, b.at)
  <2>1. u = Append(r, b)
    BY <1>5, <1>7
  <2>2. PICK m : m = Len(r)
    OBVIOUS
  <2>3. /\ m \in Nat /\ b \in Box /\ u \in Seq(Box) /\ Len(u) = m + 1 /\ u[m + 1] = b
        /\ \A i \in 1..m : u[i] = r[i]
    BY <1>1, <1>3, <1>5, <2>1, <2>2
  <2>4. \A i \in 1..(m + 1) : i \in 1..m \/ i = m + 1
    BY <2>3
  <2>5. m + 1 \in 1..(m + 1) /\ \A i \in 1..m : i \in 1..(m + 1)
    BY <2>3
  <2>6. \A i \in 1..m : ~Overlaps(r[i].at, b.at) /\ ~Overlaps(b.at, r[i].at)
    <3>1. ASSUME NEW i \in 1..m PROVE ~Overlaps(r[i].at, b.at) /\ ~Overlaps(b.at, r[i].at)
      <4>1. r[i] \in ToSet(r)
        BY <1>4, <2>2
      <4>2. r[i].at \in Place /\ b.at \in Place
        BY <1>3, <2>2, <2>3 DEF Box
      <4>3. ~Overlaps(r[i].at, b.at)
        BY <1>7, <4>1
      <4> QED
        BY <4>2, <4>3, TagBoxesAssumption
    <3> QED
      BY <3>1
  <2>7. \A i \in 1..(m + 1) : \E j \in 1..(n + 1) : u[i] = s[j]
    <3>1. ASSUME NEW i \in 1..m PROVE \E j \in 1..(n + 1) : u[i] = s[j]
      BY <1>2, <2>2, <2>3 DEF Kept
    <3>2. u[m + 1] = s[n + 1]
      BY <1>5, <2>3
    <3> QED
      BY <1>2, <2>4, <3>1, <3>2
  <2>8. \A i, j \in 1..(m + 1) : i # j => ~Overlaps(u[i].at, u[j].at)
    <3>1. ASSUME NEW i \in 1..(m + 1), NEW j \in 1..(m + 1), i # j
          PROVE  ~Overlaps(u[i].at, u[j].at)
      <4>1. CASE i \in 1..m /\ j \in 1..m
        BY <2>2, <2>3, <3>1, <4>1 DEF Kept
      <4>2. CASE i \in 1..m /\ j = m + 1
        BY <2>3, <2>6, <4>2
      <4>3. CASE i = m + 1 /\ j \in 1..m
        BY <2>3, <2>6, <4>3
      <4> QED
        BY <2>4, <3>1, <4>1, <4>2, <4>3
    <3> QED
      BY <3>1
  <2>9. \A j \in 1..(n + 1) : \E i \in 1..(m + 1) : Covers(u[i], s[j])
    <3>1. ASSUME NEW j \in 1..n PROVE \E i \in 1..(m + 1) : Covers(u[i], s[j])
      <4>1. PICK i \in 1..m : Covers(r[i], s[j])
        BY <2>2 DEF Kept
      <4> QED
        BY <2>3, <2>5, <4>1
    <3>2. Covers(u[m + 1], s[n + 1])
      BY <1>5, <2>3 DEF Covers
    <3> QED
      BY <1>1, <2>5, <3>1, <3>2
  <2> QED
    BY <2>3, <2>7, <2>8, <2>9 DEF Kept
<1> QED
  BY <1>6, <1>7

LEMMA NmsIs ==
  ASSUME NEW s \in Seq(Box)
  PROVE  Kept(nms_rotated_rect(s), s, Len(s))
<1>1. PICK h : Keeps(h, s) /\ nms_rotated_rect(s) = h[Len(s)]
  BY KeptOneByOne
<1>2. Len(s) \in Nat
  OBVIOUS
<1> DEFINE Good == {n \in Nat : n <= Len(s) => Kept(h[n], s, n)}
<1>3. 0 \in Good
  <2>1. PICK r : r = h[0]
    OBVIOUS
  <2>2. r = <<>>
    BY <1>1, <2>1 DEF Keeps
  <2>3. r \in Seq(Box) /\ Len(r) = 0 /\ 1..0 = {}
    BY <2>2
  <2>4. Kept(r, s, 0)
    BY <2>3 DEF Kept
  <2> QED
    BY <2>1, <2>4
<1>4. ASSUME NEW n \in Nat, n \in Good PROVE n + 1 \in Good
  <2>1. ASSUME n + 1 <= Len(s) PROVE Kept(h[n + 1], s, n + 1)
    <3>1. n \in 0..(Len(s) - 1) /\ n <= Len(s)
      BY <1>2, <2>1
    <3>2. Kept(h[n], s, n)
      BY <1>4, <3>1
    <3>3. h[n + 1] = IF \E k \in ToSet(h[n]) : Overlaps(k.at, s[n + 1].at) THEN h[n]
                     ELSE Append(h[n], s[n + 1])
      BY <1>1, <3>1 DEF Keeps
    <3>4. PICK r, u : r = h[n] /\ u = h[n + 1]
      OBVIOUS
    <3>5. /\ Kept(r, s, n)
          /\ u = IF \E k \in ToSet(r) : Overlaps(k.at, s[n + 1].at) THEN r
                 ELSE Append(r, s[n + 1])
      BY <3>2, <3>3, <3>4, Zenon
    <3>6. Kept(u, s, n + 1)
      BY ONLY <3>1, <3>5, s \in Seq(Box), KeptNext
    <3> QED
      BY <3>4, <3>6
  <2> QED
    BY <2>1
<1>5. Nat \subseteq Good
  <2> HIDE DEF Good
  <2> QED
    BY <1>3, <1>4, AllNumbers
<1> QED
  BY <1>1, <1>2, <1>5

\* What is kept of the boxes of s behind n up to m.
KeptOf(rest, s, n, m) ==
  /\ rest \in Seq(Box)
  /\ \A i \in 1..Len(rest) : \E j \in (n + 1)..m : rest[i] = s[j]
  /\ \A i, j \in 1..Len(rest) : i # j => ~Overlaps(rest[i].at, rest[j].at)
  /\ \A j \in (n + 1)..m : \E i \in 1..Len(rest) : Covers(rest[i], s[j])

\* What is left of the first n boxes of s, with its classes.
Merged(r, c, s, n) ==
  /\ r \in Seq(Box) /\ c \in Seq(Class) /\ Len(c) = Len(r)
  /\ \A i \in 1..Len(r) : c[i] = r[i].cls
  /\ \A i \in 1..Len(r) : \E j \in 1..n : r[i] = s[j]
  /\ \A i, j \in 1..Len(r) : i # j /\ r[i].cls = r[j].cls => ~Overlaps(r[i].at, r[j].at)
  /\ \A j \in 1..n : \E i \in 1..Len(r) : r[i].cls = s[j].cls /\ Covers(r[i], s[j])

\* The boxes behind n up to m are of class k, and those up to n of greater ones.
GroupOf(s, n, m, k) ==
  /\ \A j \in (n + 1)..m : s[j].cls = k
  /\ \A j \in 1..n : s[j].cls > k

LEMMA GroupIsMerged ==
  ASSUME NEW s \in Seq(Box), NEW n \in Nat, NEW m \in Nat, n <= m, m <= Len(s), NEW k \in Class,
         GroupOf(s, n, m, k), NEW r, NEW c, Merged(r, c, s, n), NEW rest, KeptOf(rest, s, n, m),
         NEW u, u = r \o rest, NEW d, d = c \o [j \in DOMAIN rest |-> k]
  PROVE  Merged(u, d, s, m)
<1>1. r \in Seq(Box) /\ c \in Seq(Class) /\ rest \in Seq(Box) /\ Len(c) = Len(r)
  BY DEF Merged, KeptOf
<1>2. PICK a, b, ks : a = Len(r) /\ b = Len(rest) /\ ks = [j \in DOMAIN rest |-> k]
  OBVIOUS
<1>3. a \in Nat /\ b \in Nat /\ ks \in Seq(Class) /\ Len(ks) = b /\ \A j \in 1..b : ks[j] = k
  <2>1. DOMAIN rest = 1..b /\ b \in Nat
    BY <1>1, <1>2
  <2>2. ks \in [1..b -> Class]
    BY <1>2, <2>1
  <2>3. ks \in Seq(Class) /\ Len(ks) = b
    BY <2>1, <2>2
  <2> QED
    BY <1>1, <1>2, <2>1, <2>3
<1>4. /\ u \in Seq(Box) /\ Len(u) = a + b
      /\ \A i \in 1..a : u[i] = r[i]
      /\ \A i \in 1..b : u[a + i] = rest[i]
  BY ONLY <1>1, <1>2, u = r \o rest, Joined
<1>5. /\ d \in Seq(Class) /\ Len(d) = a + b
      /\ \A i \in 1..a : d[i] = c[i]
      /\ \A i \in 1..b : d[a + i] = k
  <2>1. d = c \o ks
    BY <1>2
  <2>2. /\ d \in Seq(Class) /\ Len(d) = Len(c) + Len(ks)
        /\ \A i \in 1..Len(c) : d[i] = c[i]
        /\ \A i \in 1..Len(ks) : d[Len(c) + i] = ks[i]
    <3>1. c \in Seq(Class) /\ ks \in Seq(Class)
      BY <1>1, <1>3
    <3> QED
      BY ONLY <2>1, <3>1, Joined
  <2>3. Len(c) = a /\ Len(ks) = b
    BY <1>1, <1>2, <1>3
  <2>4. \A i \in 1..b : d[a + i] = k
    BY ONLY <1>3, <2>2, <2>3
  <2> QED
    BY ONLY <2>2, <2>3, <2>4
<1>6. ASSUME NEW i \in 1..(a + b) PROVE i \in 1..a \/ \E j \in 1..b : i = a + j
  <2>1. CASE i > a
    <3>1. i - a \in 1..b /\ i = a + (i - a)
      BY <1>3, <2>1
    <3> QED
      BY <3>1
  <2> QED
    BY <1>3, <2>1
<1>7. /\ \A i \in 1..a : i \in 1..(a + b)
      /\ \A i \in 1..b : a + i \in 1..(a + b)
      /\ \A j \in 1..n : j \in 1..m
      /\ \A j \in (n + 1)..m : j \in 1..m
      /\ \A j \in 1..m : j \in 1..n \/ j \in (n + 1)..m
      /\ \A j \in 1..m : j \in 1..Len(s)
  BY <1>3
\* The boxes of the groups before are of greater classes, those of this one of class k.
<1>8. ASSUME NEW i \in 1..a PROVE u[i].cls > k /\ u[i].cls \in Nat
  <2>1. PICK j \in 1..n : r[i] = s[j]
    BY <1>2 DEF Merged
  <2>2. s[j].cls > k /\ s[j] \in Box
    BY <1>7, <2>1 DEF GroupOf
  <2>3. s[j].cls \in Nat
    BY <2>2, TagBoxesAssumption DEF Box
  <2> QED
    BY <1>4, <2>1, <2>2, <2>3
<1>9. ASSUME NEW i \in 1..b PROVE u[a + i].cls = k
  <2>1. PICK j \in (n + 1)..m : rest[i] = s[j]
    BY <1>2 DEF KeptOf
  <2> QED
    BY <1>4, <2>1 DEF GroupOf
<1>10. \A i \in 1..(a + b) : d[i] = u[i].cls
  <2>1. ASSUME NEW i \in 1..a PROVE d[i] = u[i].cls
    BY <1>2, <1>4, <1>5 DEF Merged
  <2>2. ASSUME NEW i \in 1..b PROVE d[a + i] = u[a + i].cls
    BY <1>5, <1>9
  <2> QED
    BY <1>6, <2>1, <2>2
<1>11. \A i \in 1..(a + b) : \E j \in 1..m : u[i] = s[j]
  <2>1. ASSUME NEW i \in 1..a PROVE \E j \in 1..m : u[i] = s[j]
    BY <1>2, <1>4, <1>7 DEF Merged
  <2>2. ASSUME NEW i \in 1..b PROVE \E j \in 1..m : u[a + i] = s[j]
    BY <1>2, <1>4, <1>7 DEF KeptOf
  <2> QED
    BY <1>6, <2>1, <2>2
<1>12. ASSUME NEW i \in 1..(a + b), NEW j \in 1..(a + b), i # j, u[i].cls = u[j].cls
       PROVE  ~Overlaps(u[i].at, u[j].at)
  <2>1. k \in Nat
    BY TagBoxesAssumption
  <2>2. CASE i \in 1..a /\ j \in 1..a
    BY <1>2, <1>4, <1>12, <2>2 DEF Merged
  <2>3. ASSUME NEW g \in 1..b, NEW h \in 1..b, i = a + g, j = a + h
        PROVE  ~Overlaps(u[i].at, u[j].at)
    <3>1. g # h
      BY <1>12, <2>3
    <3> QED
      BY <1>2, <1>4, <2>3, <3>1 DEF KeptOf
  <2>4. ASSUME i \in 1..a, NEW h \in 1..b, j = a + h PROVE FALSE
    <3>1. u[i].cls > k /\ u[i].cls \in Nat /\ u[j].cls = k
      BY <1>8, <1>9, <2>4
    <3> QED
      BY ONLY <1>12, <2>1, <3>1
  <2>5. ASSUME j \in 1..a, NEW h \in 1..b, i = a + h PROVE FALSE
    <3>1. u[j].cls > k /\ u[j].cls \in Nat /\ u[i].cls = k
      BY <1>8, <1>9, <2>5
    <3> QED
      BY ONLY <1>12, <2>1, <3>1
  <2> QED
    BY <1>6, <2>2, <2>3, <2>4, <2>5
<1>13. ASSUME NEW j \in 1..m
       PROVE  \E i \in 1..(a + b) : u[i].cls = s[j].cls /\ Covers(u[i], s[j])
  <2>1. CASE j \in 1..n
    <3>1. PICK i \in 1..a : r[i].cls = s[j].cls /\ Covers(r[i], s[j])
      BY <1>2, <2>1 DEF Merged
    <3> QED
      BY <1>4, <1>7, <3>1
  <2>2. CASE j \in (n + 1)..m
    <3>1. PICK i \in 1..b : Covers(rest[i], s[j])
      BY <1>2, <2>2 DEF KeptOf
    <3>2. u[a + i].cls = s[j].cls /\ Covers(u[a + i], s[j])
      BY <1>4, <1>9, <2>2, <3>1 DEF GroupOf
    <3> QED
      BY <1>7, <3>2
  <2> QED
    BY <1>7, <2>1, <2>2
<1> QED
  BY <1>4, <1>5, <1>10, <1>11, <1>12, <1>13 DEF Merged

\* The boxes cut out of s at the end of a group are those of the group.
LEMMA GroupIsKept ==
  ASSUME NEW s \in Seq(Box), NEW i \in 2..(Len(s) + 1), NEW same \in Nat, same + 1 < i,
         NEW n, n = i - 2 - same,
         NEW rest, rest = IF same = 0 THEN <<s[i - 1]>> ELSE nms_rotated_rect(Group(s, i, same))
  PROVE  n \in Nat /\ KeptOf(rest, s, n, i - 1)
<1>1. /\ n \in Nat /\ Len(s) \in Nat /\ i \in Nat /\ i - 1 = n + same + 1 /\ i - 1 <= Len(s)
      /\ i - same - 1 = n + 1 /\ n + 1 <= i - 1
  OBVIOUS
<1>2. CASE same = 0
  <2>1. i - 1 = n + 1 /\ n + 1 \in 1..Len(s) /\ \A j : j \in (n + 1)..(i - 1) <=> j = n + 1
    BY <1>1, <1>2
  <2>2. PICK b : b = s[n + 1]
    OBVIOUS
  <2>3. b \in Box /\ rest = <<b>>
    BY <1>2, <2>1, <2>2
  <2>4. rest \in Seq(Box) /\ Len(rest) = 1 /\ rest[1] = b /\ \A j : j \in 1..1 <=> j = 1
    <3>1. \A j : j \in 1..1 <=> j = 1
      OBVIOUS
    <3> QED
      BY ONLY <2>3, <3>1
  <2>5. Covers(rest[1], s[n + 1])
    BY <2>2, <2>4 DEF Covers
  <2> QED
    BY <1>1, <2>1, <2>2, <2>4, <2>5 DEF KeptOf
<1>3. CASE same # 0
  <2>1. PICK g : g = Group(s, i, same)
    OBVIOUS
  <2>2. g = SubSeq(s, n + 1, i - 1)
    BY <1>1, <2>1 DEF Group
  <2>3. PICK from, to : from = n + 1 /\ to = i - 1
    OBVIOUS
  <2>4. from \in Nat /\ to \in Nat /\ from > 0 /\ from <= to + 1 /\ to <= Len(s)
    BY <1>1, <2>3
  <2>5. /\ SubSeq(s, from, to) \in Seq(Box) /\ Len(SubSeq(s, from, to)) = to - from + 1
        /\ \A j \in 1..(to - from + 1) : SubSeq(s, from, to)[j] = s[from + j - 1]
    BY ONLY <2>4, s \in Seq(Box), PieceIs
  <2>6. to - from + 1 = same + 1 /\ \A j \in 1..(same + 1) : from + j - 1 = n + j
    BY <1>1, <2>3
  <2>7. g \in Seq(Box) /\ Len(g) = same + 1 /\ \A j \in 1..(same + 1) : g[j] = s[n + j]
    BY ONLY <2>2, <2>3, <2>5, <2>6
  <2>8. rest = nms_rotated_rect(g)
    BY <1>3, <2>1
  <2>9. Kept(rest, g, same + 1)
    BY ONLY <2>7, <2>8, NmsIs
  <2>10. \A j \in 1..(same + 1) : n + j \in (n + 1)..(i - 1)
    BY <1>1
  <2>11. ASSUME NEW j \in (n + 1)..(i - 1) PROVE \E k \in 1..(same + 1) : j = n + k
    <3>1. j - n \in 1..(same + 1) /\ j = n + (j - n)
      BY <1>1
    <3> QED
      BY <3>1
  <2>12. rest \in Seq(Box) /\ \A j, k \in 1..Len(rest) : j # k => ~Overlaps(rest[j].at, rest[k].at)
    BY <2>9 DEF Kept
  <2>13. \A j \in 1..Len(rest) : \E k \in (n + 1)..(i - 1) : rest[j] = s[k]
    <3>1. ASSUME NEW j \in 1..Len(rest) PROVE \E k \in (n + 1)..(i - 1) : rest[j] = s[k]
      <4>1. PICK k \in 1..(same + 1) : rest[j] = g[k]
        BY <2>9 DEF Kept
      <4> QED
        BY <2>7, <2>10, <4>1
    <3> QED
      BY <3>1
  <2>14. \A j \in (n + 1)..(i - 1) : \E k \in 1..Len(rest) : Covers(rest[k], s[j])
    <3>1. ASSUME NEW j \in (n + 1)..(i - 1) PROVE \E k \in 1..Len(rest) : Covers(rest[k], s[j])
      <4>1. PICK k \in 1..(same + 1) : j = n + k
        BY <2>11
      <4>2. PICK h \in 1..Len(rest) : Covers(rest[h], g[k])
        BY <2>9 DEF Kept
      <4> QED
        BY <2>7, <4>1, <4>2
    <3> QED
      BY <3>1
  <2> QED
    BY <1>1, <2>12, <2>13, <2>14 DEF KeptOf
<1> QED
  BY <1>2, <1>3

\* Boxes in the order the sort leaves.
Sorted(s) == s \in Seq(Box) /\ \A j \in 2..Len(s) : s[j - 1].cls >= s[j].cls

\* The state of the loop, and what it knows after i boxes.
GroupState == [rects : Seq(Box), class_ids : Seq(Class), same : Nat, cls : Class]
GroupInv(w, s, i) ==
  /\ w \in GroupState
  /\ w.same < i
  /\ Merged(w.rects, w.class_ids, s, i - 1 - w.same)
  /\ GroupOf(s, i - 1 - w.same, i, w.cls)

\* What the loop does with the box at i, or behind the last one.
AfterBox(w, s, i) ==
  IF i > Len(s) \/ s[i].cls # w.cls THEN EndGroup(s, w, i) ELSE [w EXCEPT !.same = @ + 1]

\* The end of a group.
LEMMA GroupEnds ==
  ASSUME NEW s \in Seq(Box), NEW i \in 2..(Len(s) + 1), NEW w, GroupInv(w, s, i - 1)
  PROVE  /\ EndGroup(s, w, i).same = 0
         /\ EndGroup(s, w, i).cls = IF i > Len(s) THEN w.cls ELSE s[i].cls
         /\ EndGroup(s, w, i) \in GroupState
         /\ Merged(EndGroup(s, w, i).rects, EndGroup(s, w, i).class_ids, s, i - 1)
<1>1. PICK r \in Seq(Box), c \in Seq(Class), same \in Nat, k \in Class :
        w = [rects |-> r, class_ids |-> c, same |-> same, cls |-> k]
  BY DEF GroupInv, GroupState
<1>2. w.rects = r /\ w.class_ids = c /\ w.same = same /\ w.cls = k
  BY <1>1
<1>3. PICK n : n = i - 2 - same
  OBVIOUS
<1>4. /\ same + 1 < i /\ (i - 1) - 1 - same = n
      /\ Merged(r, c, s, n) /\ GroupOf(s, n, i - 1, k)
  BY <1>2, <1>3 DEF GroupInv
<1>5. PICK rest : rest = IF same = 0 THEN <<s[i - 1]>> ELSE nms_rotated_rect(Group(s, i, same))
  OBVIOUS
<1>6. n \in Nat /\ KeptOf(rest, s, n, i - 1)
  BY ONLY <1>3, <1>4, <1>5, s \in Seq(Box), i \in 2..(Len(s) + 1), same \in Nat, GroupIsKept
<1>7. PICK u, d, m, kk : /\ u = r \o rest /\ d = c \o [j \in DOMAIN rest |-> k] /\ m = i - 1
                        /\ kk = IF i > Len(s) THEN k ELSE s[i].cls
  OBVIOUS
<1>8. Merged(u, d, s, m)
  <2>1. m \in Nat /\ n <= m /\ m <= Len(s) /\ GroupOf(s, n, m, k) /\ KeptOf(rest, s, n, m)
    BY <1>3, <1>4, <1>6, <1>7
  <2>2. u = r \o rest /\ d = c \o [j \in DOMAIN rest |-> k]
    BY <1>7
  <2>3. Merged(r, c, s, n) /\ n \in Nat
    BY <1>4, <1>6
  <2> QED
    BY ONLY <2>1, <2>2, <2>3, s \in Seq(Box), k \in Class, GroupIsMerged
<1>9. EndGroup(s, w, i) = [rects |-> u, class_ids |-> d, same |-> 0, cls |-> kk]
  BY <1>2, <1>5, <1>7 DEF EndGroup
<1>10. u \in Seq(Box) /\ d \in Seq(Class) /\ kk \in Class
  <2>1. ~(i > Len(s)) => s[i].cls \in Class
    <3>1. ASSUME ~(i > Len(s)) PROVE s[i] \in Box
      BY <3>1
    <3> QED
      BY <3>1 DEF Box
  <2>2. kk \in Class
    BY <1>7, <2>1
  <2> QED
    BY <1>8, <2>2 DEF Merged
<1>11. EndGroup(s, w, i) \in GroupState
  BY <1>9, <1>10 DEF GroupState
<1> QED
  BY <1>2, <1>7, <1>8, <1>9, <1>11

\* The loop over the boxes keeps what it knows.
LEMMA GroupsGoOn ==
  ASSUME NEW s, Sorted(s), NEW i \in 2..Len(s), NEW w, GroupInv(w, s, i - 1)
  PROVE  GroupInv(AfterBox(w, s, i), s, i)
<1>1. s \in Seq(Box) /\ Len(s) \in Nat /\ i \in Nat /\ ~(i > Len(s)) /\ s[i - 1].cls >= s[i].cls
      /\ i - 1 \in 1..Len(s)
  BY DEF Sorted
<1>2. PICK r \in Seq(Box), c \in Seq(Class), same \in Nat, k \in Class :
        w = [rects |-> r, class_ids |-> c, same |-> same, cls |-> k]
  BY DEF GroupInv, GroupState
<1>3. w.rects = r /\ w.class_ids = c /\ w.same = same /\ w.cls = k
  BY <1>2
<1>4. PICK n : n = i - 2 - same
  OBVIOUS
<1>5. /\ same + 1 < i /\ (i - 1) - 1 - same = n /\ n \in Nat
      /\ Merged(r, c, s, n) /\ GroupOf(s, n, i - 1, k)
  <2>1. same + 1 < i /\ (i - 1) - 1 - same = n
    BY <1>1, <1>3, <1>4 DEF GroupInv
  <2>2. n \in Nat
    BY <1>1, <1>4, <2>1
  <2> QED
    BY <1>3, <2>1, <2>2 DEF GroupInv
<1>6. k \in Nat /\ \A j \in 1..Len(s) : s[j].cls \in Nat
  <2>1. ASSUME NEW j \in 1..Len(s) PROVE s[j].cls \in Nat
    <3>1. s[j] \in Box
      BY <1>1
    <3> QED
      BY <3>1, TagBoxesAssumption DEF Box
  <2> QED
    BY <2>1, TagBoxesAssumption
<1>7. s[i].cls \in Nat /\ s[i - 1].cls = k
  <2>1. i - 1 \in (n + 1)..(i - 1) /\ i \in 1..Len(s)
    BY <1>1, <1>4, <1>5
  <2> QED
    BY <1>5, <1>6, <2>1 DEF GroupOf
<1>8. CASE s[i].cls # k
  <2>1. PICK u : u = EndGroup(s, w, i)
    OBVIOUS
  <2>2. u.same = 0 /\ u.cls = s[i].cls /\ u \in GroupState /\ Merged(u.rects, u.class_ids, s, i - 1)
    <3>1. i \in 2..(Len(s) + 1)
      BY <1>1
    <3>2. /\ EndGroup(s, w, i).same = 0
          /\ EndGroup(s, w, i).cls = IF i > Len(s) THEN w.cls ELSE s[i].cls
          /\ EndGroup(s, w, i) \in GroupState
          /\ Merged(EndGroup(s, w, i).rects, EndGroup(s, w, i).class_ids, s, i - 1)
      BY ONLY <1>1, <3>1, GroupInv(w, s, i - 1), GroupEnds
    <3> QED
      BY <1>1, <2>1, <3>2
  <2>3. AfterBox(w, s, i) = u
    BY <1>3, <1>8, <2>1 DEF AfterBox
  <2>4. s[i].cls < k
    BY <1>1, <1>6, <1>7, <1>8
  <2>5. GroupOf(s, i - 1, i, s[i].cls)
    <3>1. \A j \in ((i - 1) + 1)..i : j = i
      BY <1>1
    <3>2. ASSUME NEW j \in 1..(i - 1) PROVE s[j].cls > s[i].cls
      <4>1. j \in 1..n \/ j \in (n + 1)..(i - 1)
        BY <1>1, <1>5
      <4>2. s[j].cls >= k /\ s[j].cls \in Nat
        <5>1. s[j].cls \in Nat
          BY <1>1, <1>6
        <5> QED
          BY <1>5, <1>6, <4>1, <5>1 DEF GroupOf
      <4> QED
        BY <1>6, <1>7, <2>4, <4>2
    <3> QED
      BY <3>1, <3>2 DEF GroupOf
  <2>6. 0 < i /\ i - 1 - 0 = i - 1
    BY <1>1
  <2> QED
    BY <2>2, <2>3, <2>5, <2>6 DEF GroupInv
<1>9. CASE s[i].cls = k
  <2>1. PICK more : more = same + 1
    OBVIOUS
  <2>2. AfterBox(w, s, i) = [w EXCEPT !.same = more]
    BY <1>1, <1>3, <1>9, <2>1 DEF AfterBox
  <2>3. [w EXCEPT !.same = more] = [rects |-> r, class_ids |-> c, same |-> more, cls |-> k]
    BY <1>2
  <2>4. PICK u : u = [rects |-> r, class_ids |-> c, same |-> more, cls |-> k]
    OBVIOUS
  <2>5. more \in Nat /\ more < i /\ i - 1 - more = n
    BY <1>1, <1>4, <1>5, <2>1
  <2>6. u \in GroupState /\ u.rects = r /\ u.class_ids = c /\ u.same = more /\ u.cls = k
    BY <2>4, <2>5 DEF GroupState
  <2>7. GroupOf(s, n, i, k)
    <3>1. \A j \in (n + 1)..i : j \in (n + 1)..(i - 1) \/ j = i
      BY <1>1, <1>5
    <3> QED
      BY <1>5, <1>9, <3>1 DEF GroupOf
  <2>8. GroupInv(u, s, i)
    BY <1>5, <2>5, <2>6, <2>7 DEF GroupInv
  <2> QED
    BY <2>2, <2>3, <2>4, <2>8
<1> QED
  BY <1>8, <1>9

\* Before the loop, and what holds along any states it goes through.
FirstGroup(s) == [rects |-> <<>>, class_ids |-> <<>>, same |-> 0, cls |-> s[1].cls]

GoesAlong(g, s) ==
  /\ g[0] = FirstGroup(s)
  /\ \A n \in 0..(Len(s) - 1) :
       AfterBox(g[n], s, n + 2) \in GroupState => g[n + 1] = AfterBox(g[n], s, n + 2)

LEMMA GroupsAlong ==
  ASSUME NEW s, Sorted(s), Len(s) > 0, NEW g, GoesAlong(g, s)
  PROVE  \A n \in 0..(Len(s) - 1) : GroupInv(g[n], s, n + 1)
<1>1. s \in Seq(Box) /\ Len(s) \in Nat
  BY DEF Sorted
<1> DEFINE Good == {n \in Nat : n < Len(s) => GroupInv(g[n], s, n + 1)}
<1>2. 0 \in Good
  <2>1. PICK w, k : w = g[0] /\ k = s[1].cls
    OBVIOUS
  <2>2. k \in Class
    <3>1. s[1] \in Box
      BY <1>1
    <3> QED
      BY <2>1, <3>1 DEF Box
  <2>3. w = [rects |-> <<>>, class_ids |-> <<>>, same |-> 0, cls |-> k]
    BY <2>1 DEF GoesAlong, FirstGroup
  <2>4. PICK r, c : r = <<>> /\ c = <<>>
    OBVIOUS
  <2>5. r \in Seq(Box) /\ c \in Seq(Class) /\ Len(r) = 0 /\ Len(c) = 0 /\ 1..0 = {}
    BY <2>4
  <2>6. w = [rects |-> r, class_ids |-> c, same |-> 0, cls |-> k]
    BY <2>3, <2>4
  <2>7. w \in GroupState /\ w.rects = r /\ w.class_ids = c /\ w.same = 0 /\ w.cls = k
    BY <2>2, <2>5, <2>6 DEF GroupState
  <2>8. Merged(r, c, s, 0)
    BY <2>5 DEF Merged
  <2>9. GroupOf(s, 0, 1, k)
    <3>1. \A j : j \in (0 + 1)..1 <=> j = 1
      OBVIOUS
    <3> QED
      BY <2>1, <2>5, <3>1 DEF GroupOf
  <2>10. GroupInv(w, s, 1)
    <3>1. 1 - 1 - 0 = 0 /\ 0 < 1
      OBVIOUS
    <3> QED
      BY <2>7, <2>8, <2>9, <3>1 DEF GroupInv
  <2> QED
    BY <2>1, <2>10
<1>3. ASSUME NEW n \in Nat, n \in Good PROVE n + 1 \in Good
  <2>1. ASSUME n + 1 < Len(s) PROVE GroupInv(g[n + 1], s, (n + 1) + 1)
    <3>1. n < Len(s) /\ n \in 0..(Len(s) - 1)
      BY <1>1, <2>1
    <3>2. GroupInv(g[n], s, n + 1)
      BY <1>3, <3>1
    <3>3. PICK i, w : i = n + 2 /\ w = g[n]
      OBVIOUS
    <3>4. i \in 2..Len(s) /\ i - 1 = n + 1 /\ (n + 1) + 1 = i
      BY <1>1, <2>1, <3>3
    <3>5. GroupInv(w, s, i - 1)
      BY <3>2, <3>3, <3>4
    <3>6. GroupInv(AfterBox(w, s, i), s, i)
      BY ONLY <3>4, <3>5, Sorted(s), GroupsGoOn
    <3>7. AfterBox(w, s, i) \in GroupState
      BY <3>6 DEF GroupInv
    <3>8. g[n + 1] = AfterBox(w, s, i)
      BY <3>1, <3>3, <3>7 DEF GoesAlong
    <3> QED
      BY <3>4, <3>6, <3>8
  <2> QED
    BY <2>1
<1>4. Nat \subseteq Good
  <2> HIDE DEF Good
  <2> QED
    BY <1>2, <1>3, AllNumbers
<1> QED
  BY <1>1, <1>4

\* What is left of sorted boxes.
LEMMA MergedAll ==
  ASSUME NEW s, Sorted(s), Len(s) > 0
  PROVE  Merged(MergeGroups(s).rects, MergeGroups(s).class_ids, s, Len(s))
<1>1. s \in Seq(Box) /\ Len(s) \in Nat
  BY DEF Sorted
<1> DEFINE IsLoop(loop) ==
             loop = [i \in 1..(Len(s) + 1) |->
                       IF i = 1
                       THEN [rects |-> <<>>, class_ids |-> <<>>, same |-> 0, cls |-> s[1].cls]
                       ELSE IF i > Len(s) \/ s[i].cls # loop[i - 1].cls
                            THEN EndGroup(s, loop[i - 1], i)
                            ELSE [loop[i - 1] EXCEPT !.same = @ + 1]]
           looped == CHOOSE loop : IsLoop(loop)
<1>2. MergeGroups(s) = [rects |-> looped[Len(s) + 1].rects,
                        class_ids |-> looped[Len(s) + 1].class_ids]
  BY DEF MergeGroups
<1>3. \A loop : IsLoop(loop) <=>
        loop = [i \in 1..(Len(s) + 1) |-> IF i = 1 THEN FirstGroup(s)
                                          ELSE AfterBox(loop[i - 1], s, i)]
  BY DEF FirstGroup, AfterBox
<1> HIDE DEF IsLoop
<1>4. FirstGroup(s) \in GroupState
  <2>1. PICK k : k = s[1].cls
    OBVIOUS
  <2>2. s[1] \in Box
    BY <1>1
  <2>3. k \in Class
    BY <2>1, <2>2 DEF Box
  <2>4. FirstGroup(s) = [rects |-> <<>>, class_ids |-> <<>>, same |-> 0, cls |-> k]
    BY <2>1 DEF FirstGroup
  <2> QED
    BY <2>3, <2>4 DEF GroupState
<1>5. \E loop : IsLoop(loop)
  <2>1. PICK X, first : X = GroupState /\ first = FirstGroup(s)
    OBVIOUS
  <2>2. PICK step : step = [e \in Nat \X X |->
                              IF AfterBox(e[2], s, e[1] + 2) \in X THEN AfterBox(e[2], s, e[1] + 2)
                              ELSE e[2]]
    OBVIOUS
  <2>3. first \in X /\ step \in [Nat \X X -> X]
    BY <1>4, <2>1, <2>2
  <2>4. HasIterates(X, first, step)
    BY ONLY <2>3, RecursionExists
  <2>5. PICK f \in [Nat -> X] : f[0] = first /\ \A n \in Nat : f[n + 1] = step[<<n, f[n]>>]
    BY <2>4 DEF HasIterates
  <2>6. ASSUME NEW n \in Nat, AfterBox(f[n], s, n + 2) \in X PROVE f[n + 1] = AfterBox(f[n], s, n + 2)
    <3>1. <<n, f[n]>> \in Nat \X X /\ f[n + 1] = step[<<n, f[n]>>]
      BY <2>5
    <3> QED
      BY <2>2, <2>6, <3>1
  <2>7. GoesAlong(f, s)
    BY <1>1, <2>1, <2>5, <2>6 DEF GoesAlong
  <2>8. \A n \in 0..(Len(s) - 1) : GroupInv(f[n], s, n + 1)
    BY ONLY <2>7, Sorted(s), Len(s) > 0, GroupsAlong
  <2>9. ASSUME NEW n \in 0..(Len(s) - 1) PROVE f[n + 1] = AfterBox(f[n], s, n + 2)
    <3>1. PICK i, w : i = n + 2 /\ w = f[n]
      OBVIOUS
    <3>2. i - 1 = n + 1 /\ i \in 2..(Len(s) + 1) /\ n \in Nat
      BY <1>1, <3>1
    <3>3. GroupInv(w, s, i - 1)
      BY <2>8, <3>1, <3>2
    <3>4. AfterBox(w, s, i) \in GroupState
      <4>1. CASE i = Len(s) + 1
        <5>1. AfterBox(w, s, i) = EndGroup(s, w, i)
          BY <1>1, <4>1 DEF AfterBox
        <5>2. EndGroup(s, w, i) \in GroupState
          BY ONLY <1>1, <3>2, <3>3, GroupEnds
        <5> QED
          BY <5>1, <5>2
      <4>2. CASE i # Len(s) + 1
        <5>1. i \in 2..Len(s)
          BY <1>1, <3>2, <4>2
        <5>2. GroupInv(AfterBox(w, s, i), s, i)
          BY ONLY <3>3, <5>1, Sorted(s), GroupsGoOn
        <5> QED
          BY <5>2 DEF GroupInv
      <4> QED
        BY <4>1, <4>2
    <3> QED
      BY <2>1, <2>6, <3>1, <3>2, <3>4
  <2>10. PICK loop : loop = [i \in 1..(Len(s) + 1) |-> f[i - 1]]
    OBVIOUS
  <2>11. ASSUME NEW i \in 1..(Len(s) + 1)
         PROVE  f[i - 1] = IF i = 1 THEN FirstGroup(s) ELSE AfterBox(loop[i - 1], s, i)
    <3>1. CASE i = 1
      BY <2>1, <2>5, <3>1
    <3>2. CASE i # 1
      <4>1. PICK n : n = i - 2
        OBVIOUS
      <4>2. n \in 0..(Len(s) - 1) /\ n + 1 = i - 1 /\ n + 2 = i /\ i - 1 \in 1..(Len(s) + 1)
            /\ (i - 1) - 1 = n
        BY <1>1, <3>2, <4>1
      <4>3. loop[i - 1] = f[n]
        BY <2>10, <4>2
      <4> QED
        BY <2>9, <3>2, <4>2, <4>3
    <3> QED
      BY <3>1, <3>2
  <2>12. loop = [i \in 1..(Len(s) + 1) |-> IF i = 1 THEN FirstGroup(s)
                                          ELSE AfterBox(loop[i - 1], s, i)]
    BY <2>10, <2>11
  <2> QED
    BY <1>3, <2>12
<1>6. IsLoop(looped)
  BY <1>5
<1> HIDE DEF looped
<1>7. PICK loop : loop = looped
  OBVIOUS
<1>8. loop = [i \in 1..(Len(s) + 1) |-> IF i = 1 THEN FirstGroup(s)
                                       ELSE AfterBox(loop[i - 1], s, i)]
  BY <1>3, <1>6, <1>7
<1>9. /\ loop[1] = FirstGroup(s)
      /\ \A n \in 0..(Len(s) - 1) : loop[n + 2] = AfterBox(loop[n + 1], s, n + 2)
  <2>1. 1 \in 1..(Len(s) + 1)
    BY <1>1
  <2>2. ASSUME NEW n \in 0..(Len(s) - 1) PROVE loop[n + 2] = AfterBox(loop[n + 1], s, n + 2)
    <3>1. n + 2 \in 1..(Len(s) + 1) /\ n + 2 # 1 /\ (n + 2) - 1 = n + 1
      BY <1>1
    <3>2. PICK i : i = n + 2
      OBVIOUS
    <3>3. loop[i] = AfterBox(loop[i - 1], s, i)
      BY <1>8, <3>1, <3>2
    <3> QED
      BY <3>1, <3>2, <3>3
  <2>3. loop[1] = FirstGroup(s)
    BY <1>8, <2>1
  <2> QED
    BY <2>2, <2>3
<1>10. PICK g : g = [n \in Nat |-> loop[n + 1]]
  OBVIOUS
<1>11. GoesAlong(g, s)
  <2>1. \A n \in 0..(Len(s) - 1) : g[n] = loop[n + 1] /\ g[n + 1] = loop[n + 2]
    <3>1. ASSUME NEW n \in 0..(Len(s) - 1) PROVE g[n] = loop[n + 1] /\ g[n + 1] = loop[n + 2]
      <4>1. n \in Nat /\ n + 1 \in Nat /\ (n + 1) + 1 = n + 2
        BY <1>1
      <4> QED
        BY <1>10, <4>1
    <3> QED
      BY <3>1
  <2>2. g[0] = loop[1]
    BY <1>10
  <2> QED
    BY <1>9, <2>1, <2>2 DEF GoesAlong
<1>12. \A n \in 0..(Len(s) - 1) : GroupInv(g[n], s, n + 1)
  BY ONLY <1>11, Sorted(s), Len(s) > 0, GroupsAlong
<1>13. PICK n, i, w : n = Len(s) - 1 /\ i = Len(s) + 1 /\ w = loop[Len(s)]
  OBVIOUS
<1>14. n \in 0..(Len(s) - 1) /\ n \in Nat /\ n + 1 = Len(s) /\ n + 2 = i /\ i - 1 = Len(s)
       /\ i \in 2..(Len(s) + 1) /\ i > Len(s)
  BY <1>1, <1>13
<1>15. GroupInv(w, s, i - 1) /\ loop[Len(s) + 1] = EndGroup(s, w, i)
  <2>1. g[n] = w
    BY <1>10, <1>13, <1>14
  <2>2. loop[i] = AfterBox(w, s, i)
    BY <1>9, <1>13, <1>14
  <2> QED
    BY <1>12, <1>13, <1>14, <2>1, <2>2 DEF AfterBox
<1>16. Merged(EndGroup(s, w, i).rects, EndGroup(s, w, i).class_ids, s, i - 1)
  BY ONLY <1>1, <1>14, <1>15, GroupEnds
<1> QED
  BY <1>2, <1>7, <1>14, <1>15, <1>16

\* The sort leaves the boxes that were found, those of the greater class first.
SameBoxes(s, found) ==
  /\ Len(s) = Len(found)
  /\ \A i \in 1..Len(found) : \E j \in 1..Len(found) : s[i] = found[j]
  /\ \A j \in 1..Len(found) : \E i \in 1..Len(found) : s[i] = found[j]

LEMMA SortedIs ==
  ASSUME NEW found \in Seq(Box), NEW s \in SortedByClass(found)
  PROVE  Sorted(s) /\ SameBoxes(s, found)
<1>1. PICK n, D : n = Len(found) /\ D = DOMAIN found
  OBVIOUS
<1>2. n \in Nat /\ D = 1..n
  BY <1>1
<1>3. PICK p \in [D -> D] : ToSet(p) = D /\ s = [i \in D |-> found[p[i]]]
  BY <1>1 DEF SortedByClass
<1>4. \A i \in D : p[i] \in D /\ s[i] = found[p[i]]
  BY <1>3
<1>5. \A i \in D : s[i] \in Box
  BY <1>1, <1>2, <1>4
<1>6. s \in Seq(Box) /\ Len(s) = n
  <2>1. s = [i \in 1..n |-> s[i]]
    BY <1>2, <1>3
  <2>2. s \in [1..n -> Box]
    BY <1>2, <1>5, <2>1
  <2> QED
    BY <1>2, <2>2
<1>7. \A i \in 2..Len(s) : s[i - 1].cls >= s[i].cls
  BY DEF SortedByClass
<1>8. ASSUME NEW j \in D PROVE \E i \in D : s[i] = found[j]
  <2>1. DOMAIN p = D
    BY <1>3
  <2>2. ToSet(p) = {p[i] : i \in DOMAIN p}
    BY DEF ToSet
  <2>3. PICK i \in D : p[i] = j
    BY <1>3, <2>1, <2>2
  <2> QED
    BY <1>4, <2>3
<1> QED
  BY <1>1, <1>2, <1>4, <1>6, <1>7, <1>8 DEF Sorted, SameBoxes

\* What OneBoxPerTag says of one outcome.
OneBoxLeft(left, found) ==
  /\ Len(left.class_ids) = Len(left.rects)
  /\ \A i \in DOMAIN left.rects :
       left.rects[i] \in ToSet(found) /\ left.class_ids[i] = left.rects[i].cls
  /\ \A i, j \in DOMAIN left.rects :
       i # j /\ left.rects[i].cls = left.rects[j].cls =>
         ~Overlaps(left.rects[i].at, left.rects[j].at)
  /\ \A box \in ToSet(found) : \E kept \in ToSet(left.rects) :
       kept.cls = box.cls /\ (kept.at = box.at \/ Overlaps(kept.at, box.at))

LEMMA OneBoxIsLeft ==
  ASSUME NEW found \in Seq(Box), NEW left \in nms_multi_class(found)
  PROVE  OneBoxLeft(left, found)
<1>1. PICK n : n = Len(found)
  OBVIOUS
<1>2. n \in Nat /\ DOMAIN found = 1..n
  BY <1>1
<1>3. ToSet(found) = {found[i] : i \in 1..n}
  BY <1>2 DEF ToSet
<1>4. CASE n <= 1
  <2>1. left = [rects |-> found, class_ids |-> [i \in DOMAIN found |-> found[i].cls]]
    BY <1>1, <1>4 DEF nms_multi_class
  <2>2. PICK c : c = [i \in 1..n |-> found[i].cls]
    OBVIOUS
  <2>3. left.rects = found /\ left.class_ids = c
    BY <1>2, <2>1, <2>2
  <2>4. c \in Seq(Class) /\ Len(c) = n
    <3>1. ASSUME NEW i \in 1..n PROVE found[i].cls \in Class
      <4>1. found[i] \in Box
        BY <1>2
      <4> QED
        BY <4>1 DEF Box
    <3>2. c \in [1..n -> Class]
      BY <2>2, <3>1
    <3> QED
      BY <1>2, <3>2
  <2>5. \A i \in 1..n : found[i] \in ToSet(found) /\ c[i] = found[i].cls
    BY <1>3, <2>2
  <2>6. \A i, j \in 1..n : i = j
    BY <1>2, <1>4
  <2> QED
    BY <1>1, <1>2, <2>3, <2>4, <2>5, <2>6 DEF OneBoxLeft
<1>5. CASE ~(n <= 1)
  <2>1. PICK s \in SortedByClass(found) : left = MergeGroups(s)
    BY <1>1, <1>5 DEF nms_multi_class
  <2>2. /\ Sorted(s) /\ Len(s) = n
        /\ \A i \in 1..n : \E j \in 1..n : s[i] = found[j]
        /\ \A j \in 1..n : \E i \in 1..n : s[i] = found[j]
    <3>1. Sorted(s) /\ SameBoxes(s, found)
      BY ONLY <2>1, found \in Seq(Box), SortedIs
    <3> QED
      BY <1>1, <3>1 DEF SameBoxes
  <2>3. Len(s) > 0
    BY <1>2, <1>5, <2>2
  <2>4. PICK r, c : r = left.rects /\ c = left.class_ids
    OBVIOUS
  <2>5. Merged(r, c, s, n)
    BY <2>1, <2>2, <2>3, <2>4, MergedAll
  <2>6. r \in Seq(Box) /\ Len(c) = Len(r) /\ DOMAIN r = 1..Len(r) /\ ToSet(r) = {r[i] : i \in 1..Len(r)}
    <3>1. r \in Seq(Box) /\ Len(c) = Len(r)
      BY <2>5 DEF Merged
    <3>2. DOMAIN r = 1..Len(r)
      BY <3>1
    <3> QED
      BY <3>1, <3>2, Zenon DEF ToSet
  <2>7. \A i \in 1..Len(r) : r[i] \in ToSet(found) /\ c[i] = r[i].cls
    <3>1. ASSUME NEW i \in 1..Len(r) PROVE r[i] \in ToSet(found) /\ c[i] = r[i].cls
      <4>1. PICK k \in 1..n : r[i] = s[k]
        BY <2>5 DEF Merged
      <4>2. PICK j \in 1..n : s[k] = found[j]
        BY <2>2
      <4>3. c[i] = r[i].cls
        BY <2>5 DEF Merged
      <4> QED
        BY <1>3, <4>1, <4>2, <4>3
    <3> QED
      BY <3>1
  <2>8. \A i, j \in 1..Len(r) : i # j /\ r[i].cls = r[j].cls => ~Overlaps(r[i].at, r[j].at)
    BY <2>5 DEF Merged
  <2>9. ASSUME NEW box \in ToSet(found)
        PROVE  \E kept \in ToSet(r) :
                 kept.cls = box.cls /\ (kept.at = box.at \/ Overlaps(kept.at, box.at))
    <3>1. PICK k \in 1..n : box = s[k]
      <4>1. PICK j \in 1..n : box = found[j]
        BY <1>3, <2>9
      <4> QED
        BY <2>2, <4>1
    <3>2. PICK i \in 1..Len(r) : r[i].cls = box.cls /\ Covers(r[i], box)
      BY <2>5, <3>1 DEF Merged
    <3>3. r[i] \in ToSet(r)
      BY <2>6
    <3> QED
      BY <3>2, <3>3 DEF Covers
  <2> QED
    BY <2>4, <2>6, <2>7, <2>8, <2>9 DEF OneBoxLeft
<1> QED
  BY <1>4, <1>5

\* Of however many boxes of however many classes one is left for each tag, whichever order
\* the sort leaves among those of one class and whatever overlaps what.
THEOREM OneBoxIsKept == Spec => []OneBoxPerTag
<1>1. InputInv => OneBoxPerTag
  <2> SUFFICES ASSUME InputInv PROVE OneBoxPerTag
    OBVIOUS
  <2>1. boxes \in Seq(Box)
    BY DEF InputInv
  <2>2. ASSUME NEW left \in nms_multi_class(boxes) PROVE OneBoxLeft(left, boxes)
    BY <2>1, OneBoxIsLeft
  <2> QED
    BY <2>2 DEF OneBoxPerTag, OneBoxLeft
<1> QED
  BY <1>1, InputAlways, PTL

-----------------------------------------------------------------------------
(* Codes of standard tags.                                                 *)

\* What is left of a text: h[n] of its first n characters.
Erases(h, read, erased) ==
  /\ h[0] = <<>>
  /\ \A n \in 0..(Len(read) - 1) :
       h[n + 1] = IF read[n + 1] \in erased THEN h[n] ELSE Append(h[n], read[n + 1])

LEMMA WithoutExists ==
  ASSUME NEW read \in Seq(Character), NEW erased
  PROVE  \E h : Erases(h, read, erased) /\ Without(read, erased) = h[Len(read)]
<1>1. PICK n : n = Len(read)
  OBVIOUS
<1>2. n \in Nat /\ \A i \in 1..n : read[i] \in Character
  BY <1>1
<1> DEFINE Leaves(kept) ==
             kept = [i \in 0..Len(read) |->
                       IF i = 0 THEN <<>>
                       ELSE IF read[i] \in erased THEN kept[i - 1] ELSE Append(kept[i - 1], read[i])]
           chosen == CHOOSE kept : Leaves(kept)
<1>3. Without(read, erased) = chosen[n]
  BY <1>1 DEF Without
<1>4. \E kept : Leaves(kept)
  <2>1. PICK X : X = Seq(Character)
    OBVIOUS
  <2>2. PICK step : step = [e \in Nat \X X |->
                              IF e[1] < n /\ read[e[1] + 1] \notin erased
                              THEN Append(e[2], read[e[1] + 1]) ELSE e[2]]
    OBVIOUS
  <2>3. <<>> \in X /\ step \in [Nat \X X -> X]
    <3>1. ASSUME NEW e \in Nat \X X
          PROVE  (IF e[1] < n /\ read[e[1] + 1] \notin erased
                  THEN Append(e[2], read[e[1] + 1]) ELSE e[2]) \in X
      <4>1. ASSUME e[1] < n PROVE read[e[1] + 1] \in Character
        <5>1. e[1] + 1 \in 1..n
          BY <1>2, <4>1
        <5> QED
          BY <1>2, <5>1
      <4> QED
        BY <2>1, <4>1
    <3> QED
      BY <2>1, <2>2, <3>1
  <2>4. HasIterates(X, <<>>, step)
    BY ONLY <2>3, RecursionExists
  <2>5. PICK f \in [Nat -> X] : f[0] = <<>> /\ \A i \in Nat : f[i + 1] = step[<<i, f[i]>>]
    BY <2>4 DEF HasIterates
  <2>6. PICK kept : kept = [i \in 0..n |-> f[i]]
    OBVIOUS
  <2>7. ASSUME NEW i \in 0..n
        PROVE  f[i] = IF i = 0 THEN <<>>
                      ELSE IF read[i] \in erased THEN kept[i - 1] ELSE Append(kept[i - 1], read[i])
    <3>1. CASE i = 0
      BY <2>5, <3>1
    <3>2. CASE i # 0
      <4>1. PICK k : k = i - 1
        OBVIOUS
      <4>2. k \in Nat /\ k + 1 = i /\ k < n /\ k \in 0..n
        BY <1>2, <3>2, <4>1
      <4>3. f[i] = step[<<k, f[k]>>] /\ <<k, f[k]>> \in Nat \X X
        BY <2>5, <4>2
      <4>4. f[i] = IF read[i] \in erased THEN f[k] ELSE Append(f[k], read[i])
        BY <2>2, <4>2, <4>3
      <4> QED
        BY <2>6, <3>2, <4>1, <4>2, <4>4
    <3> QED
      BY <3>1, <3>2
  <2> QED
    BY <1>1, <2>6, <2>7
<1>5. Leaves(chosen)
  <2> HIDE DEF Leaves
  <2> QED
    BY <1>4
<1>6. PICK h : h = chosen
  OBVIOUS
<1> HIDE DEF chosen
<1>7. h = [i \in 0..n |-> IF i = 0 THEN <<>>
                          ELSE IF read[i] \in erased THEN h[i - 1] ELSE Append(h[i - 1], read[i])]
  BY <1>1, <1>5, <1>6
<1> HIDE DEF Leaves
<1>8. h[0] = <<>>
  <2>1. 0 \in 0..n
    BY <1>2
  <2> QED
    BY <1>7, <2>1
<1>9. ASSUME NEW i \in 0..(n - 1)
      PROVE  h[i + 1] = IF read[i + 1] \in erased THEN h[i] ELSE Append(h[i], read[i + 1])
  <2>1. PICK k : k = i + 1
    OBVIOUS
  <2>2. k \in 0..n /\ k # 0 /\ k - 1 = i
    BY <1>2, <2>1
  <2> QED
    BY <1>7, <2>1, <2>2
<1> QED
  BY <1>1, <1>3, <1>6, <1>8, <1>9 DEF Erases

\* What is known of what is left of the first n characters.
Left(u, read, erased, n) ==
  /\ u \in Seq(Character) /\ Len(u) <= n
  /\ \A i \in 1..Len(u) : u[i] \notin erased
  /\ (\A i \in 1..n : read[i] \notin erased) => Len(u) = n /\ \A i \in 1..n : u[i] = read[i]
  /\ \A i \in 1..n : read[i] \notin erased => Len(u) >= 1
  /\ \A i, j \in 1..n : i < j /\ read[i] \notin erased /\ read[j] \notin erased => Len(u) >= 2

LEMMA LeftNext ==
  ASSUME NEW read \in Seq(Character), NEW erased, NEW n \in 0..(Len(read) - 1),
         NEW u, Left(u, read, erased, n),
         NEW v, v = IF read[n + 1] \in erased THEN u ELSE Append(u, read[n + 1])
  PROVE  Left(v, read, erased, n + 1)
<1>1. PICK c, m : c = read[n + 1] /\ m = Len(u)
  OBVIOUS
<1>2. n \in Nat /\ c \in Character /\ u \in Seq(Character) /\ m \in Nat /\ m <= n
  BY <1>1 DEF Left
<1>3. /\ \A i \in 1..(n + 1) : i \in 1..n \/ i = n + 1
      /\ \A i \in 1..n : i \in 1..(n + 1) /\ i < n + 1
      /\ n + 1 \in 1..(n + 1)
  BY <1>2
<1>4. CASE c \in erased
  <2>1. v = u
    BY <1>1, <1>4
  <2>2. ~\A i \in 1..(n + 1) : read[i] \notin erased
    BY <1>1, <1>3, <1>4
  <2>3. \A i \in 1..(n + 1) : read[i] \notin erased => i \in 1..n
    BY <1>1, <1>3, <1>4
  <2>4. Len(u) <= n + 1
    BY <1>1, <1>2
  <2> QED
    BY <1>2, <2>1, <2>2, <2>3, <2>4 DEF Left
<1>5. CASE c \notin erased
  <2>1. v = Append(u, c)
    BY <1>1, <1>5
  <2>2. /\ v \in Seq(Character) /\ Len(v) = m + 1 /\ v[m + 1] = c
        /\ \A i \in 1..m : v[i] = u[i]
    BY <1>1, <1>2, <2>1
  <2>3. \A i \in 1..(m + 1) : i \in 1..m \/ i = m + 1
    BY <1>2
  <2>4. \A i \in 1..(m + 1) : v[i] \notin erased
    BY <1>1, <1>5, <2>2, <2>3 DEF Left
  <2>5. ASSUME \A i \in 1..(n + 1) : read[i] \notin erased
        PROVE  m + 1 = n + 1 /\ \A i \in 1..(n + 1) : v[i] = read[i]
    <3>1. m = n /\ \A i \in 1..n : u[i] = read[i]
      BY <1>1, <1>3, <2>5 DEF Left
    <3> QED
      BY <1>1, <1>3, <2>2, <3>1
  <2>6. m + 1 >= 1 /\ m + 1 <= n + 1
    BY <1>2
  <2>7. ASSUME NEW i \in 1..(n + 1), NEW j \in 1..(n + 1), i < j, read[i] \notin erased
        PROVE  m + 1 >= 2
    <3>1. i \in 1..n
      BY <1>2, <2>7
    <3>2. m >= 1
      BY <1>1, <2>7, <3>1 DEF Left
    <3> QED
      BY <1>2, <3>2
  <2> QED
    BY <2>2, <2>4, <2>5, <2>6, <2>7 DEF Left
<1> QED
  BY <1>4, <1>5

LEMMA WithoutIs ==
  ASSUME NEW read \in Seq(Character), NEW erased
  PROVE  Left(Without(read, erased), read, erased, Len(read))
<1>1. PICK h : Erases(h, read, erased) /\ Without(read, erased) = h[Len(read)]
  BY WithoutExists
<1>2. Len(read) \in Nat
  OBVIOUS
<1> DEFINE Good == {n \in Nat : n <= Len(read) => Left(h[n], read, erased, n)}
<1>3. 0 \in Good
  <2>1. PICK u : u = h[0]
    OBVIOUS
  <2>2. u = <<>>
    BY <1>1, <2>1 DEF Erases
  <2>3. u \in Seq(Character) /\ Len(u) = 0 /\ 1..0 = {}
    BY <2>2
  <2>4. Left(u, read, erased, 0)
    BY <2>3 DEF Left
  <2> QED
    BY <2>1, <2>4
<1>4. ASSUME NEW n \in Nat, n \in Good PROVE n + 1 \in Good
  <2>1. ASSUME n + 1 <= Len(read) PROVE Left(h[n + 1], read, erased, n + 1)
    <3>1. n \in 0..(Len(read) - 1) /\ n <= Len(read)
      BY <1>2, <2>1
    <3>2. PICK u, v : u = h[n] /\ v = h[n + 1]
      OBVIOUS
    <3>3. Left(u, read, erased, n)
      BY <1>4, <3>1, <3>2
    <3>4. v = IF read[n + 1] \in erased THEN u ELSE Append(u, read[n + 1])
      BY <1>1, <3>1, <3>2 DEF Erases
    <3>5. Left(v, read, erased, n + 1)
      BY ONLY <3>1, <3>3, <3>4, read \in Seq(Character), LeftNext
    <3> QED
      BY <3>2, <3>5
  <2> QED
    BY <2>1
<1>5. Nat \subseteq Good
  <2> HIDE DEF Good
  <2> QED
    BY <1>3, <1>4, AllNumbers
<1> QED
  BY <1>1, <1>2, <1>5

\* The greatest of some numbers up to n, and of two numbers.
LEMMA GreatestOf ==
  ASSUME NEW n \in Nat, NEW S \in SUBSET (0..n), S # {}
  PROVE  Max(S) \in S
<1> DEFINE T == {n - x : x \in S}
<1>1. T \in SUBSET Nat /\ T # {}
  <2>1. ASSUME NEW x \in S PROVE n - x \in Nat
    OBVIOUS
  <2>2. PICK x \in S : TRUE
    OBVIOUS
  <2>3. n - x \in T
    BY ONLY <2>2
  <2> QED
    BY ONLY <2>1, <2>3
<1>2. PICK m \in T : \A k \in T : m <= k
  <2> HIDE DEF T
  <2> QED
    BY <1>1, LeastNumber
<1>3. PICK x \in S : m = n - x
  BY <1>2
<1>4. \A y \in S : x >= y
  <2>1. ASSUME NEW y \in S PROVE x >= y
    <3>1. n - y \in T
      OBVIOUS
    <3>2. n - x <= n - y
      BY <1>2, <1>3, <3>1
    <3> QED
      BY <3>2
  <2> QED
    BY <2>1
<1> QED
  BY <1>4 DEF Max

LEMMA GreaterOf ==
  ASSUME NEW x \in Int, NEW y \in Int
  PROVE  Max({x, y}) = IF x <= y THEN y ELSE x
<1>1. PICK S, m : S = {x, y} /\ m = Max(S)
  OBVIOUS
<1>2. \E z \in S : \A w \in S : z >= w
  <2>1. x >= y \/ y >= x
    OBVIOUS
  <2>2. x >= x /\ y >= y
    OBVIOUS
  <2> QED
    BY <1>1, <2>1, <2>2
<1>3. m \in S /\ \A w \in S : m >= w
  BY ONLY <1>1, <1>2 DEF Max
<1> QED
  BY <1>1, <1>3

\* A part of a text.
IsPart(part, read, m, n) ==
  /\ part \in Seq(Character) /\ Len(part) = n - m + 1
  /\ \A i \in 1..(n - m + 1) : part[i] = read[m + i - 1]
  /\ AllNumerals(part) <=> \A i \in m..n : read[i] \in Numeral

LEMMA PartOf ==
  ASSUME NEW read \in Seq(Character), NEW m \in Nat, NEW n \in Nat, m > 0, m <= n + 1, n <= Len(read),
         NEW part, part = SubSeq(read, m, n)
  PROVE  IsPart(part, read, m, n)
<1>1. /\ part \in Seq(Character) /\ Len(part) = n - m + 1
      /\ \A i \in 1..(n - m + 1) : part[i] = read[m + i - 1]
  BY PieceIs
<1>2. ToSet(part) = {part[i] : i \in 1..(n - m + 1)}
  <2>1. DOMAIN part = 1..(n - m + 1)
    BY <1>1
  <2> QED
    BY <2>1, Zenon DEF ToSet
<1>3. AllNumerals(part) <=> \A i \in 1..(n - m + 1) : part[i] \in Numeral
  BY <1>2 DEF AllNumerals
<1>4. ASSUME NEW i \in 1..(n - m + 1) PROVE m + i - 1 \in m..n
  OBVIOUS
<1>5. ASSUME NEW j \in m..n PROVE \E i \in 1..(n - m + 1) : j = m + i - 1
  <2>1. j - m + 1 \in 1..(n - m + 1) /\ j = m + (j - m + 1) - 1
    OBVIOUS
  <2> QED
    BY <2>1
<1>6. (\A i \in 1..(n - m + 1) : part[i] \in Numeral) <=> \A i \in m..n : read[i] \in Numeral
  <2>1. ASSUME \A i \in 1..(n - m + 1) : part[i] \in Numeral, NEW j \in m..n PROVE read[j] \in Numeral
    <3>1. PICK i \in 1..(n - m + 1) : j = m + i - 1
      BY <1>5
    <3> QED
      BY <1>1, <2>1, <3>1
  <2>2. ASSUME \A i \in m..n : read[i] \in Numeral, NEW i \in 1..(n - m + 1) PROVE part[i] \in Numeral
    BY <1>1, <1>4, <2>2
  <2> QED
    BY <2>1, <2>2
<1> QED
  BY <1>1, <1>3, <1>6 DEF IsPart

\* So many digits stand in a row.
HasRun(read, num) ==
  /\ num \in 0..Len(read)
  /\ \E i \in 1..(Len(read) - num + 1) : \A k \in i..(i + num - 1) : read[k] \in Numeral

LEMMA RunIsThere ==
  ASSUME NEW read \in Seq(Character)
  PROVE  HasRun(read, maxNumContinuousDigits(read))
<1>1. PICK n : n = Len(read)
  OBVIOUS
<1>2. n \in Nat /\ DOMAIN read = 1..n
  BY <1>1
<1> DEFINE others == {0, n + 1} \cup {i \in 1..n : read[i] \notin Numeral}
           RunAfter(i) == Min({j \in others : j > i}) - i - 1
           runs == {RunAfter(i) : i \in others \ {n + 1}}
<1>3. maxNumContinuousDigits(read) = Max(runs)
  BY <1>1, <1>2 DEF maxNumContinuousDigits
<1>4. ASSUME NEW i \in others \ {n + 1}, NEW next, next = Min({j \in others : j > i})
      PROVE  next \in others /\ next > i /\ (\A j \in others : j > i => next <= j) /\ i \in 0..n /\ next \in 1..(n + 1)
  <2>1. i \in 0..n /\ others \in SUBSET Nat /\ n + 1 \in others
    BY <1>2
  <2>2. n + 1 > i
    BY <1>2, <2>1
  <2>3. PICK behind : behind = {j \in others : j > i}
    OBVIOUS
  <2>4. behind \in SUBSET Nat /\ behind # {}
    <3> HIDE DEF others
    <3> QED
      BY <2>1, <2>2, <2>3
  <2>5. next \in behind /\ \A j \in behind : next <= j
    BY <1>4, <2>3, <2>4, LeastIn
  <2>6. next \in others /\ next > i /\ \A j \in others : j > i => next <= j
    <3> HIDE DEF others
    <3> QED
      BY <2>3, <2>5
  <2>7. next \in 1..(n + 1)
    BY <1>2, <2>1, <2>6
  <2> QED
    BY <2>1, <2>6, <2>7
<1>5. runs \in SUBSET (0..n) /\ runs # {}
  <2>1. ASSUME NEW i \in others \ {n + 1} PROVE RunAfter(i) \in 0..n
    <3>1. PICK next : next = Min({j \in others : j > i})
      OBVIOUS
    <3>2. next > i /\ i \in 0..n /\ next \in 1..(n + 1)
      <4> HIDE DEF others
      <4> QED
        BY <1>4, <3>1
    <3> QED
      BY <1>2, <3>1, <3>2
  <2>2. 0 \in others \ {n + 1}
    BY <1>2
  <2> HIDE DEF others, RunAfter
  <2> QED
    BY <2>1, <2>2
<1>6. Max(runs) \in runs
  <2> HIDE DEF runs
  <2> QED
    BY <1>2, <1>5, GreatestOf
<1>7. PICK i \in others \ {n + 1} : Max(runs) = RunAfter(i)
  <2> HIDE DEF others, RunAfter
  <2> QED
    BY <1>6
<1>8. PICK next : next = Min({j \in others : j > i})
  OBVIOUS
<1>9. next \in others /\ next > i /\ (\A j \in others : j > i => next <= j) /\ i \in 0..n /\ next \in 1..(n + 1)
  <2> HIDE DEF others
  <2> QED
    BY <1>4, <1>8
<1>10. PICK m : m = maxNumContinuousDigits(read)
  OBVIOUS
<1>11. m = next - i - 1 /\ m \in 0..n
  <2>1. RunAfter(i) = next - i - 1
    BY <1>8
  <2> HIDE DEF RunAfter, runs
  <2> QED
    BY <1>3, <1>5, <1>6, <1>7, <1>10, <2>1
<1>12. i + 1 \in 1..(n - m + 1)
  BY <1>2, <1>9, <1>11
<1>13. ASSUME NEW k \in (i + 1)..((i + 1) + m - 1) PROVE read[k] \in Numeral
  <2>1. k \in 1..n /\ k > i /\ k < next
    BY <1>2, <1>9, <1>11
  <2>2. k \notin others
    <3> HIDE DEF others
    <3> QED
      BY <1>2, <1>9, <2>1
  <2> QED
    BY <2>1, <2>2
<1> HIDE DEF others, RunAfter, runs
<1> QED
  BY <1>1, <1>10, <1>11, <1>12, <1>13 DEF HasRun

\* The digits of a run that is there: so many digits that stand next to each other.
GotDigits(got, read, num) ==
  got \in Seq(Character) /\ Len(got) = num /\ AllNumerals(got) /\ Contiguous(got, read)

LEMMA DigitsAreGot ==
  ASSUME NEW read \in Seq(Character), NEW num \in Nat, num > 0,
         maxNumContinuousDigits(read) >= num
  PROVE  GotDigits(getFirstContinuousDigits(read, num), read, num)
<1>1. PICK n : n = Len(read)
  OBVIOUS
<1>2. n \in Nat
  BY <1>1
<1>3. PICK starts : starts = {i \in 1..(n - num + 1) : AllNumerals(SubSeq(read, i, i + num - 1))}
  OBVIOUS
<1>4. ASSUME NEW i \in 1..(n - num + 1), NEW part, part = SubSeq(read, i, i + num - 1)
      PROVE  /\ part \in Seq(Character) /\ Len(part) = num
             /\ AllNumerals(part) <=> \A k \in i..(i + num - 1) : read[k] \in Numeral
  <2>1. PICK to : to = i + num - 1
    OBVIOUS
  <2>2. i \in Nat /\ to \in Nat /\ i > 0 /\ i <= to + 1 /\ to <= Len(read) /\ to - i + 1 = num
    BY <1>1, <1>2, <2>1
  <2>3. part = SubSeq(read, i, to)
    BY <1>4, <2>1
  <2>4. IsPart(part, read, i, to)
    BY ONLY <2>2, <2>3, read \in Seq(Character), PartOf
  <2> QED
    BY <2>1, <2>2, <2>4 DEF IsPart
<1>5. starts # {}
  <2>1. PICK m : m = maxNumContinuousDigits(read)
    OBVIOUS
  <2>2. m \in 0..n /\ \E i \in 1..(n - m + 1) : \A k \in i..(i + m - 1) : read[k] \in Numeral
    BY <1>1, <2>1, RunIsThere DEF HasRun
  <2>3. PICK i \in 1..(n - m + 1) : \A k \in i..(i + m - 1) : read[k] \in Numeral
    BY <2>2
  <2>4. i \in 1..(n - num + 1) /\ \A k \in i..(i + num - 1) : k \in i..(i + m - 1)
    BY <1>2, <2>1, <2>2
  <2>5. AllNumerals(SubSeq(read, i, i + num - 1))
    BY <1>4, <2>3, <2>4
  <2> QED
    BY <1>3, <2>4, <2>5
<1>6. PICK i : i = Min(starts)
  OBVIOUS
<1>7. i \in starts
  <2>1. starts \in SUBSET Nat
    BY <1>2, <1>3
  <2> QED
    BY <1>5, <1>6, <2>1, LeastIn
<1>8. PICK got : got = SubSeq(read, i, i + num - 1)
  OBVIOUS
<1>9. got \in Seq(Character) /\ Len(got) = num /\ AllNumerals(got) /\ i \in 1..(n - num + 1)
  BY <1>3, <1>4, <1>7, <1>8
<1>10. Contiguous(got, read)
  <2>1. PICK k : k = i - 1
    OBVIOUS
  <2>2. k \in 0..(Len(read) - num) /\ k + 1 = i /\ k + num = i + num - 1
    BY <1>1, <1>2, <1>9, <2>1
  <2>3. SubSeq(read, k + 1, k + num) = got
    BY <1>8, <2>2
  <2> QED
    BY <1>9, <2>2, <2>3 DEF Contiguous
<1>11. getFirstContinuousDigits(read, num) = got
  BY <1>1, <1>3, <1>5, <1>6, <1>8 DEF getFirstContinuousDigits
<1> QED
  BY <1>9, <1>10, <1>11 DEF GotDigits

\* Text that has nothing of what is erased stays as it is.
LEMMA NothingErased ==
  ASSUME NEW read \in Seq(Character), NEW erased, \A i \in 1..Len(read) : read[i] \notin erased
  PROVE  Without(read, erased) = read
<1>1. PICK u : u = Without(read, erased)
  OBVIOUS
<1>2. Left(u, read, erased, Len(read))
  BY <1>1, WithoutIs
<1>3. u \in Seq(Character) /\ Len(u) = Len(read) /\ \A i \in 1..Len(read) : u[i] = read[i]
  BY <1>2 DEF Left
<1>4. u = read
  BY ONLY <1>3, read \in Seq(Character), SeqEqual
<1> QED
  BY <1>1, <1>4

\* The longest run of a text of digits is the text.
LEMMA DigitsAreARun ==
  ASSUME NEW read \in Seq(Character), \A i \in 1..Len(read) : read[i] \in Numeral
  PROVE  maxNumContinuousDigits(read) = Len(read)
<1>1. PICK n : n = Len(read)
  OBVIOUS
<1>2. n \in Nat /\ DOMAIN read = 1..n
  BY <1>1
<1> DEFINE others == {0, n + 1} \cup {i \in 1..n : read[i] \notin Numeral}
           RunAfter(i) == Min({j \in others : j > i}) - i - 1
           runs == {RunAfter(i) : i \in others \ {n + 1}}
<1>3. maxNumContinuousDigits(read) = Max(runs)
  BY <1>1, <1>2 DEF maxNumContinuousDigits
<1>4. others = {0, n + 1}
  BY <1>1
<1>5. RunAfter(0) = n
  <2>1. PICK behind : behind = {j \in others : j > 0}
    OBVIOUS
  <2>2. behind = {n + 1}
    <3> HIDE DEF others
    <3> QED
      BY <1>2, <1>4, <2>1
  <2>3. behind \in SUBSET Nat /\ behind # {}
    BY <1>2, <2>2
  <2>4. Min(behind) \in behind
    BY <2>3, LeastIn
  <2>5. Min(behind) = n + 1
    BY <2>2, <2>4
  <2>6. RunAfter(0) = Min(behind) - 0 - 1
    BY <2>1
  <2> HIDE DEF RunAfter
  <2> QED
    BY <1>2, <2>5, <2>6
<1>6. runs = {n}
  <2>1. others \ {n + 1} = {0}
    <3> HIDE DEF others
    <3> QED
      BY <1>2, <1>4
  <2> HIDE DEF others, RunAfter
  <2> QED
    BY <1>5, <2>1
<1>7. Max(runs) = n
  <2>1. PICK R : R = runs
    OBVIOUS
  <2>2. R = {n} /\ R \in SUBSET (0..n) /\ R # {}
    <3> HIDE DEF runs
    <3> QED
      BY <1>2, <1>6, <2>1
  <2>3. Max(R) \in R
    BY ONLY <2>2, <1>2, GreatestOf
  <2> HIDE DEF runs
  <2> QED
    BY <2>1, <2>2, <2>3
<1> QED
  BY <1>1, <1>3, <1>7

\* The digits of a text of digits are the text.
LEMMA DigitsGetDigits ==
  ASSUME NEW read \in Seq(Character), Len(read) > 0, \A i \in 1..Len(read) : read[i] \in Numeral
  PROVE  getFirstContinuousDigits(read, Len(read)) = read
<1>1. PICK n : n = Len(read)
  OBVIOUS
<1>2. n \in Nat /\ n > 0
  BY <1>1
<1>3. maxNumContinuousDigits(read) >= n
  BY <1>1, <1>2, DigitsAreARun
<1>4. PICK got : got = getFirstContinuousDigits(read, n)
  OBVIOUS
<1>5. GotDigits(got, read, n)
  BY <1>2, <1>3, <1>4, DigitsAreGot
<1>6. got \in Seq(Character) /\ Len(got) = n /\ Contiguous(got, read)
  BY <1>5 DEF GotDigits
<1>7. PICK k \in 0..(Len(read) - Len(got)) : SubSeq(read, k + 1, k + Len(got)) = got
  BY <1>6 DEF Contiguous
<1>8. k = 0
  BY <1>1, <1>2, <1>6, <1>7
<1>9. SubSeq(read, 1, n) = got
  BY <1>2, <1>6, <1>7, <1>8
<1>10. SubSeq(read, 1, n) = read
  BY <1>1
<1> QED
  BY <1>1, <1>4, <1>9, <1>10

\* A text without spaces.
Blankless(read) == read \in Seq(Character) /\ \A i \in 1..Len(read) : read[i] # Space

\* What a score is made of.
LEMMA ScoreIs ==
  ASSUME NEW run \in Nat, NEW length \in Nat, NEW num \in {4, 5, 10}
  PROVE  /\ RunScore(run, length, num) \in Nat
         /\ RunScore(run, length, num) # 0 => run >= num
<1>1. CASE run < num
  <2>1. RunScore(run, length, num) = 0 /\ 0 \in Nat
    BY <1>1 DEF RunScore
  <2> QED
    BY ONLY <2>1
<1>2. CASE ~(run < num)
  <2>1. PICK a, b : a = 2 * num - run /\ b = 11 * num - 5 * length
    OBVIOUS
  <2>2. a \in Int /\ b \in Int
    BY <2>1
  <2>3. PICK x, y : x = Max({0, a}) /\ y = Max({0, b})
    OBVIOUS
  <2>4. x \in Nat /\ y \in Nat
    BY <2>2, <2>3, GreaterOf
  <2>5. PICK product : product = x * y
    OBVIOUS
  <2>6. product \in Nat
    <3>1. x * y \in Int /\ x * y >= 0
      BY ONLY <2>4, SMT
    <3> QED
      BY ONLY <2>5, <3>1
  <2>7. RunScore(run, length, num) = (product * Whole) \div (6 * num * num)
    BY ONLY <1>2, <2>1, <2>3, <2>5 DEF RunScore
  <2>8. (product * Whole) \div (6 * num * num) \in Nat
    <3>1. CASE num = 4
      BY <2>6, <3>1 DEF Whole
    <3>2. CASE num = 5
      BY <2>6, <3>2 DEF Whole
    <3>3. CASE num = 10
      BY <2>6, <3>3 DEF Whole
    <3> QED
      BY <3>1, <3>2, <3>3
  <2>9. RunScore(run, length, num) \in Nat
    BY ONLY <2>7, <2>8
  <2>10. run >= num
    BY <1>2
  <2> QED
    BY ONLY <2>9, <2>10
<1> QED
  BY <1>1, <1>2

\* A text with a score has the digits that are taken of it.
ScoreMeans(score, read, num) ==
  score \in Nat /\ (score # 0 => GotDigits(getFirstContinuousDigits(read, num), read, num))

LEMMA ScoreMeansDigits ==
  ASSUME NEW read, Blankless(read), NEW num \in {4, 5, 10}
  PROVE  ScoreMeans(continuousDigitsScore(read, num), read, num)
<1>1. read \in Seq(Character)
  BY DEF Blankless
<1>2. \A i \in 1..Len(read) : read[i] \notin {Space}
  BY DEF Blankless
<1>3. Without(read, {Space}) = read
  BY ONLY <1>1, <1>2, NothingErased
<1>4. PICK run : run = maxNumContinuousDigits(read)
  OBVIOUS
<1>5. run \in Nat /\ Len(read) \in Nat
  BY <1>1, <1>4, RunIsThere DEF HasRun
<1>6. PICK score : score = RunScore(run, Len(read), num)
  OBVIOUS
<1>7. continuousDigitsScore(read, num) = score
  BY ONLY <1>3, <1>4, <1>6 DEF continuousDigitsScore
<1>8. score \in Nat /\ (score # 0 => run >= num)
  BY ONLY <1>5, <1>6, num \in {4, 5, 10}, ScoreIs
<1>9. ASSUME score # 0 PROVE GotDigits(getFirstContinuousDigits(read, num), read, num)
  <2>1. num \in Nat /\ num > 0 /\ maxNumContinuousDigits(read) >= num
    BY <1>4, <1>8, <1>9
  <2> QED
    BY ONLY <1>1, <2>1, DigitsAreGot
<1> QED
  BY <1>7, <1>8, <1>9 DEF ScoreMeans

\* The score of a text of digits only.
LEMMA DigitsScore ==
  ASSUME NEW read, Blankless(read), \A i \in 1..Len(read) : read[i] \in Numeral, NEW num
  PROVE  continuousDigitsScore(read, num) = RunScore(Len(read), Len(read), num)
<1>1. read \in Seq(Character)
  BY DEF Blankless
<1>2. \A i \in 1..Len(read) : read[i] \notin {Space}
  BY DEF Blankless
<1>3. Without(read, {Space}) = read
  BY ONLY <1>1, <1>2, NothingErased
<1>4. maxNumContinuousDigits(read) = Len(read)
  BY <1>1, DigitsAreARun
<1> QED
  BY ONLY <1>3, <1>4 DEF continuousDigitsScore

\* The scores that clean codes have.
LEMMA CleanScores ==
  /\ RunScore(10, 10, 10) = Whole /\ RunScore(5, 5, 5) = Whole /\ RunScore(4, 4, 4) = Whole
  /\ RunScore(4, 4, 5) = 0 /\ RunScore(5, 5, 4) = 1425
<1>1. ASSUME NEW x \in Nat PROVE Max({0, x}) = x
  BY <1>1, GreaterOf
<1>2. Max({0, 2 * 10 - 10}) = 10 /\ Max({0, 11 * 10 - 5 * 10}) = 60
  BY <1>1
<1>3. Max({0, 2 * 5 - 5}) = 5 /\ Max({0, 11 * 5 - 5 * 5}) = 30
  BY <1>1
<1>4. Max({0, 2 * 4 - 4}) = 4 /\ Max({0, 11 * 4 - 5 * 4}) = 24
  BY <1>1
<1>5. Max({0, 2 * 4 - 5}) = 3 /\ Max({0, 11 * 4 - 5 * 5}) = 19
  BY <1>1
<1>6. RunScore(10, 10, 10) = Whole
  BY <1>2 DEF RunScore, Whole
<1>7. RunScore(5, 5, 5) = Whole
  BY <1>3 DEF RunScore, Whole
<1>8. RunScore(4, 4, 4) = Whole
  BY <1>4 DEF RunScore, Whole
<1>9. RunScore(4, 4, 5) = 0
  BY DEF RunScore
<1>10. RunScore(5, 5, 4) = 1425
  BY <1>5 DEF RunScore, Whole
<1> QED
  BY <1>6, <1>7, <1>8, <1>9, <1>10

\* What is taken of a text without a hyphen is ten of its digits.
LEMMA FullIsRead ==
  ASSUME NEW read, Blankless(read), NEW code, code = AcceptedCode(FullCode(read)), code # <<>>
  PROVE  GotDigits(code, read, 10)
<1>1. PICK full : full = continuousDigitsScore(read, 10)
  OBVIOUS
<1>2. ScoreMeans(full, read, 10)
  BY <1>1, ScoreMeansDigits
<1>3. 5 * full > 4 * Whole /\ code = getFirstContinuousDigits(read, 10)
  BY <1>1 DEF AcceptedCode, FullCode
<1>4. full # 0
  BY <1>3 DEF Whole
<1> QED
  BY <1>2, <1>3, <1>4 DEF ScoreMeans

\* What is taken of the parts around a hyphen.
TakenAround(code, left, right) ==
  \E l, r : \E n \in {4, 5} :
    code = l \o <<Hyphen>> \o r /\ GotDigits(l, left, 5) /\ GotDigits(r, right, n)

LEMMA HyphenatedIsRead ==
  ASSUME NEW left, Blankless(left), NEW right, Blankless(right),
         NEW code, code = AcceptedCode(HyphenatedCode(left, right, TRUE)), code # <<>>
  PROVE  TakenAround(code, left, right)
<1>1. PICK l5, r5, r4 : /\ l5 = continuousDigitsScore(left, 5)
                        /\ r5 = continuousDigitsScore(right, 5)
                        /\ r4 = continuousDigitsScore(right, 4)
  OBVIOUS
<1>2. ScoreMeans(l5, left, 5) /\ ScoreMeans(r5, right, 5) /\ ScoreMeans(r4, right, 4)
  BY <1>1, ScoreMeansDigits
<1>3. PICK best, n : best = Max({r5, r4}) /\ n = IF r5 < r4 THEN 4 ELSE 5
  OBVIOUS
<1>4. l5 \in Nat /\ r5 \in Nat /\ r4 \in Nat
  BY <1>2 DEF ScoreMeans
<1>5. best = IF r5 <= r4 THEN r4 ELSE r5
  BY <1>3, <1>4, GreaterOf
<1>6. PICK score : score = l5 * best
  OBVIOUS
<1>7. /\ 2 * score > Whole * Whole
      /\ code = getFirstContinuousDigits(left, 5) \o <<Hyphen>> \o getFirstContinuousDigits(right, n)
  <2>1. PICK whole : whole = getFirstContinuousDigits(left, 5) \o <<Hyphen>>
                               \o getFirstContinuousDigits(right, n)
    OBVIOUS
  <2>2. PICK found : found = [score |-> score, code |-> whole]
    OBVIOUS
  <2>3. HyphenatedCode(left, right, TRUE) = found
    BY ONLY <1>1, <1>3, <1>6, <2>1, <2>2 DEF HyphenatedCode
  <2>4. found.score = score /\ found.code = whole
    BY ONLY <2>2
  <2>5. 2 * found.score > Whole * Whole /\ code = found.code
    BY ONLY <2>3, code = AcceptedCode(HyphenatedCode(left, right, TRUE)), code # <<>> DEF AcceptedCode
  <2> QED
    BY ONLY <2>1, <2>4, <2>5
<1>8. score # 0
  BY <1>7 DEF Whole
<1>9. l5 # 0 /\ best # 0
  <2>1. best \in Nat
    BY <1>4, <1>5
  <2>2. 0 * best = 0 /\ l5 * 0 = 0
    BY ONLY <1>4, <2>1
  <2> QED
    BY ONLY <1>6, <1>8, <2>2
<1>10. GotDigits(getFirstContinuousDigits(left, 5), left, 5)
  BY <1>2, <1>9 DEF ScoreMeans
<1>11. n \in {4, 5} /\ GotDigits(getFirstContinuousDigits(right, n), right, n)
  <2>1. CASE r5 < r4
    BY <1>2, <1>3, <1>4, <1>5, <1>9, <2>1 DEF ScoreMeans
  <2>2. CASE ~(r5 < r4)
    <3>1. r5 # 0
      BY <1>4, <1>5, <1>9, <2>2
    <3> QED
      BY <1>2, <1>3, <2>2, <3>1 DEF ScoreMeans
  <2> QED
    BY <2>1, <2>2
<1> QED
  BY <1>7, <1>10, <1>11 DEF TakenAround

\* The parts of a code of digits, a hyphen and digits.
JoinedParts(code, l, r, n) ==
  /\ code \in Seq(Character) /\ Len(code) = 6 + n /\ code[6] = Hyphen
  /\ SubSeq(code, 1, 5) = l /\ SubSeq(code, 7, 6 + n) = r

LEMMA JoinedHasParts ==
  ASSUME NEW l \in Seq(Character), Len(l) = 5, NEW r \in Seq(Character), NEW n \in {4, 5}, Len(r) = n
  PROVE  JoinedParts(l \o <<Hyphen>> \o r, l, r, n)
<1>1. PICK head : head = l \o <<Hyphen>>
  OBVIOUS
<1>2. Hyphen \in Character /\ <<Hyphen>> \in Seq(Character)
  BY DEF Character
<1>3. /\ head \in Seq(Character) /\ Len(head) = 6 /\ head[6] = Hyphen
      /\ \A i \in 1..5 : head[i] = l[i]
  <2>1. Len(<<Hyphen>>) = 1 /\ <<Hyphen>>[1] = Hyphen
    OBVIOUS
  <2>2. /\ head \in Seq(Character) /\ Len(head) = Len(l) + Len(<<Hyphen>>)
        /\ \A i \in 1..Len(l) + Len(<<Hyphen>>) :
             head[i] = IF i <= Len(l) THEN l[i] ELSE <<Hyphen>>[i - Len(l)]
    BY ONLY <1>1, <1>2, l \in Seq(Character), ConcatProperties
  <2>3. Len(head) = 6 /\ \A i \in 1..6 : head[i] = IF i <= 5 THEN l[i] ELSE <<Hyphen>>[i - 5]
    BY <2>1, <2>2
  <2> QED
    BY <2>1, <2>2, <2>3
<1>4. PICK code : code = head \o r
  OBVIOUS
<1>5. n \in Nat
  OBVIOUS
<1>6. /\ code \in Seq(Character) /\ Len(code) = 6 + n
      /\ \A i \in 1..6 : code[i] = head[i]
      /\ \A i \in 1..n : code[6 + i] = r[i]
  <2>1. /\ code \in Seq(Character) /\ Len(code) = Len(head) + Len(r)
        /\ \A i \in 1..Len(head) + Len(r) : code[i] = IF i <= Len(head) THEN head[i] ELSE r[i - Len(head)]
    BY ONLY <1>3, <1>4, r \in Seq(Character), ConcatProperties
  <2>2. Len(code) = 6 + n /\ \A i \in 1..(6 + n) : code[i] = IF i <= 6 THEN head[i] ELSE r[i - 6]
    BY <1>3, <2>1
  <2>3. ASSUME NEW i \in 1..n PROVE code[6 + i] = r[i]
    <3>1. PICK k : k = 6 + i
      OBVIOUS
    <3>2. k \in 1..(6 + n) /\ ~(k <= 6) /\ k - 6 = i
      BY <1>5, <3>1
    <3> QED
      BY <2>2, <3>1, <3>2
  <2>4. ASSUME NEW i \in 1..6 PROVE code[i] = head[i]
    <3>1. i \in 1..(6 + n) /\ i <= 6
      BY <1>5
    <3> QED
      BY <2>2, <3>1
  <2> QED
    BY <2>1, <2>2, <2>3, <2>4
<1>7. code[6] = Hyphen /\ \A i \in 1..5 : code[i] = l[i]
  BY <1>3, <1>6
<1>8. SubSeq(code, 1, 5) = l
  <2>1. PICK part : part = SubSeq(code, 1, 5)
    OBVIOUS
  <2>2. 1 \in Nat /\ 5 \in Nat /\ 1 > 0 /\ 1 <= 5 + 1 /\ 5 <= Len(code)
    BY <1>5, <1>6
  <2>3. IsPart(part, code, 1, 5)
    BY ONLY <1>6, <2>1, <2>2, PartOf
  <2>4. part \in Seq(Character) /\ Len(part) = 5 /\ \A i \in 1..5 : part[i] = code[i]
    BY <2>3 DEF IsPart
  <2>5. \A i \in 1..Len(part) : part[i] = l[i]
    BY <1>7, <2>4
  <2>6. part = l
    BY ONLY <2>4, <2>5, l \in Seq(Character), Len(l) = 5, SeqEqual
  <2> QED
    BY <2>1, <2>6
<1>9. SubSeq(code, 7, 6 + n) = r
  <2>1. PICK to, part : to = 6 + n /\ part = SubSeq(code, 7, to)
    OBVIOUS
  <2>2. 7 \in Nat /\ to \in Nat /\ 7 > 0 /\ 7 <= to + 1 /\ to <= Len(code)
    BY <1>5, <1>6, <2>1
  <2>3. IsPart(part, code, 7, to)
    BY ONLY <1>6, <2>1, <2>2, PartOf
  <2>4. part \in Seq(Character) /\ Len(part) = n /\ \A i \in 1..n : part[i] = code[6 + i]
    <3>1. to - 7 + 1 = n /\ \A i \in 1..n : 7 + i - 1 = 6 + i
      BY <1>5, <2>1
    <3> QED
      BY <2>3, <3>1 DEF IsPart
  <2>5. \A i \in 1..Len(part) : part[i] = r[i]
    BY <1>6, <2>4
  <2>6. part = r
    BY ONLY <2>4, <2>5, r \in Seq(Character), Len(r) = n, SeqEqual
  <2> QED
    BY <2>1, <2>6
<1> QED
  BY <1>1, <1>4, <1>6, <1>7, <1>8, <1>9 DEF JoinedParts

\* What stands in a part of a text stands in the text.
LEMMA ContiguousInWhole ==
  ASSUME NEW read \in Seq(Character), NEW m \in Nat, NEW n \in Nat, m > 0, m <= n + 1, n <= Len(read),
         NEW code \in Seq(Character), Contiguous(code, SubSeq(read, m, n))
  PROVE  Contiguous(code, read)
<1>1. PICK part : part = SubSeq(read, m, n)
  OBVIOUS
<1>2. IsPart(part, read, m, n)
  BY <1>1, PartOf
<1>3. /\ part \in Seq(Character) /\ Len(part) = n - m + 1
      /\ \A i \in 1..(n - m + 1) : part[i] = read[m + i - 1]
  BY <1>2 DEF IsPart
<1>4. PICK i \in 0..(Len(part) - Len(code)) : SubSeq(part, i + 1, i + Len(code)) = code
  BY <1>1 DEF Contiguous
<1>5. PICK k, len : k = m - 1 + i /\ len = Len(code)
  OBVIOUS
<1>6. /\ len \in Nat /\ i \in Nat /\ i + len <= n - m + 1 /\ k \in 0..(Len(read) - len)
      /\ k + 1 \in Nat /\ k + len \in Nat /\ k + 1 > 0 /\ k + 1 <= k + len + 1 /\ k + len <= Len(read)
      /\ i + 1 \in Nat /\ i + len \in Nat /\ i + 1 > 0 /\ i + 1 <= i + len + 1 /\ i + len <= Len(part)
  BY <1>3, <1>4, <1>5
<1>7. PICK there : there = SubSeq(read, k + 1, k + len)
  OBVIOUS
<1>8. IsPart(there, read, k + 1, k + len)
  BY ONLY <1>6, <1>7, read \in Seq(Character), PartOf
<1>9. IsPart(code, part, i + 1, i + len)
  BY ONLY <1>3, <1>4, <1>5, <1>6, PartOf
<1>10. (k + len) - (k + 1) + 1 = len /\ (i + len) - (i + 1) + 1 = len
  BY <1>6, <1>5
<1>11. there \in Seq(Character) /\ Len(there) = len /\ \A j \in 1..len : there[j] = read[(k + 1) + j - 1]
  BY ONLY <1>8, <1>10 DEF IsPart
<1>12. \A j \in 1..len : code[j] = part[(i + 1) + j - 1]
  BY ONLY <1>9, <1>10 DEF IsPart
<1>13. ASSUME NEW j \in 1..len PROVE there[j] = code[j]
  <2>1. (i + 1) + j - 1 \in 1..(n - m + 1) /\ m + ((i + 1) + j - 1) - 1 = (k + 1) + j - 1
    BY <1>5, <1>6
  <2> QED
    BY <1>3, <1>11, <1>12, <2>1
<1>14. there = code
  BY ONLY <1>5, <1>11, <1>13, code \in Seq(Character), SeqEqual
<1> QED
  BY <1>5, <1>6, <1>7, <1>14 DEF Contiguous

\* A part of a text without spaces has none.
LEMMA BlanklessPart ==
  ASSUME NEW read, Blankless(read), NEW m \in Nat, NEW n \in Nat, m > 0, m <= n + 1, n <= Len(read)
  PROVE  Blankless(SubSeq(read, m, n))
<1>1. read \in Seq(Character)
  BY DEF Blankless
<1>2. PICK part : part = SubSeq(read, m, n)
  OBVIOUS
<1>3. IsPart(part, read, m, n)
  BY <1>1, <1>2, PartOf
<1>4. part \in Seq(Character) /\ Len(part) = n - m + 1 /\ \A i \in 1..(n - m + 1) : part[i] = read[m + i - 1]
  BY <1>3 DEF IsPart
<1>5. ASSUME NEW i \in 1..Len(part) PROVE part[i] # Space
  <2>1. m + i - 1 \in 1..Len(read)
    BY <1>1, <1>4
  <2> QED
    BY <1>4, <2>1 DEF Blankless
<1> QED
  BY <1>2, <1>4, <1>5 DEF Blankless

\* What is left of a text when spaces and line ends are erased has no spaces, and is not
\* longer than the text.
LEMMA StrippedIsBlankless ==
  ASSUME NEW read \in Seq(Character), NEW stripped, stripped = Without(read, {Space, Newline})
  PROVE  Blankless(stripped) /\ Len(stripped) <= Len(read)
<1>1. Left(stripped, read, {Space, Newline}, Len(read))
  BY WithoutIs
<1> QED
  BY <1>1 DEF Left, Blankless

\* Where the first hyphen of a text is.
FirstHyphen(read, at) ==
  \/ at = 0 /\ \A i \in 1..Len(read) : read[i] # Hyphen
  \/ at \in 1..Len(read) /\ read[at] = Hyphen /\ \A i \in 1..(at - 1) : read[i] # Hyphen

HyphenAt(read) ==
  IF {i \in 1..Len(read) : read[i] = Hyphen} # {}
  THEN Min({i \in 1..Len(read) : read[i] = Hyphen}) ELSE 0

LEMMA HyphenIsFirst ==
  ASSUME NEW read \in Seq(Character)
  PROVE  FirstHyphen(read, HyphenAt(read))
<1>1. PICK I : I = {i \in 1..Len(read) : read[i] = Hyphen}
  OBVIOUS
<1>2. PICK at : at = IF I # {} THEN Min(I) ELSE 0
  OBVIOUS
<1>3. HyphenAt(read) = at
  BY <1>1, <1>2 DEF HyphenAt
<1>4. CASE I = {}
  BY <1>1, <1>2, <1>3, <1>4 DEF FirstHyphen
<1>5. CASE I # {}
  <2>1. I \in SUBSET Nat
    BY <1>1
  <2>2. at \in I /\ \A i \in I : at <= i
    BY <1>2, <1>5, <2>1, LeastIn
  <2>3. at \in 1..Len(read) /\ read[at] = Hyphen
    BY <1>1, <2>2
  <2>4. ASSUME NEW i \in 1..(at - 1) PROVE read[i] # Hyphen
    <3>1. i \in 1..Len(read) /\ i < at
      BY <2>3
    <3> QED
      BY <1>1, <2>2, <2>3, <3>1
  <2> QED
    BY <1>3, <2>3, <2>4 DEF FirstHyphen
<1> QED
  BY <1>4, <1>5

\* Ten digits of a text are reported as its last five.
LEMMA FullIsReported ==
  ASSUME NEW read \in Seq(Character), NEW code, GotDigits(code, read, 10)
  PROVE  /\ Reported(code, TRUE) = SubSeq(code, 6, 10)
         /\ Len(Reported(code, TRUE)) = 5 /\ AllNumerals(Reported(code, TRUE))
         /\ Contiguous(Reported(code, TRUE), read)
<1>1. code \in Seq(Character) /\ Len(code) = 10 /\ AllNumerals(code) /\ Contiguous(code, read)
  BY DEF GotDigits
<1>2. PICK part : part = SubSeq(code, 6, 10)
  OBVIOUS
<1>3. IsPart(part, code, 6, 10)
  <2>1. 6 \in Nat /\ 10 \in Nat /\ 6 > 0 /\ 6 <= 10 + 1 /\ 10 <= Len(code)
    BY <1>1
  <2> QED
    BY ONLY <1>1, <1>2, <2>1, PartOf
<1>4. Hyphen \notin ToSet(code)
  BY <1>1 DEF AllNumerals, Numeral, Hyphen
<1>5. code # <<>>
  <2>1. Len(code) = 10
    BY <1>1
  <2>2. code = <<>> => Len(code) = 0
    OBVIOUS
  <2> QED
    BY ONLY <2>1, <2>2
<1>6. Reported(code, TRUE) = part
  BY <1>1, <1>2, <1>4, <1>5 DEF Reported
<1>7. part \in Seq(Character) /\ Len(part) = 5
  BY <1>3 DEF IsPart
<1>8. AllNumerals(part)
  <2>1. \A i \in 6..10 : code[i] \in ToSet(code)
    BY <1>1 DEF ToSet
  <2>2. \A i \in 6..10 : code[i] \in Numeral
    BY <1>1, <2>1 DEF AllNumerals
  <2> QED
    BY <1>3, <2>2 DEF IsPart
<1>9. Contiguous(part, code)
  <2>1. 5 \in 0..(Len(code) - Len(part)) /\ SubSeq(code, 5 + 1, 5 + Len(part)) = part
    BY <1>1, <1>2, <1>7
  <2> QED
    BY <2>1 DEF Contiguous
<1>10. Contiguous(part, read)
  <2>1. PICK i \in 0..(Len(read) - 10) : SubSeq(read, i + 1, i + 10) = code
    BY <1>1 DEF Contiguous
  <2>2. PICK m, n : m = i + 1 /\ n = i + 10
    OBVIOUS
  <2>3. m \in Nat /\ n \in Nat /\ m > 0 /\ m <= n + 1 /\ n <= Len(read)
    BY <2>1, <2>2
  <2>4. SubSeq(read, m, n) = code
    BY <2>1, <2>2
  <2>5. Contiguous(part, SubSeq(read, m, n))
    BY ONLY <1>9, <2>4
  <2> QED
    BY ONLY <1>7, <2>3, <2>5, read \in Seq(Character), ContiguousInWhole
<1> QED
  BY <1>2, <1>6, <1>7, <1>8, <1>10

\* A code of digits, a hyphen and four digits is reported as it is, one of five digits
\* as its last five.
ReportedPart(code, r, n) ==
  (n = 4 => Reported(code, TRUE) = code) /\ (n = 5 => Reported(code, TRUE) = r)

LEMMA JoinedIsReported ==
  ASSUME NEW code, NEW l, NEW r, NEW n \in {4, 5}, JoinedParts(code, l, r, n)
  PROVE  ReportedPart(code, r, n)
<1>1. /\ code \in Seq(Character) /\ Len(code) = 6 + n /\ code[6] = Hyphen
      /\ SubSeq(code, 7, 6 + n) = r
  BY DEF JoinedParts
<1>2. code # <<>>
  BY <1>1
<1>3. CASE n = 4
  <2>1. Len(code) = 10 /\ 6 \in DOMAIN code
    BY <1>1, <1>3
  <2>2. Hyphen \in ToSet(code)
    BY <1>1, <2>1 DEF ToSet
  <2> QED
    BY <1>3, <2>1, <2>2 DEF Reported, ReportedPart
<1>4. CASE n = 5
  <2>1. Len(code) = 11
    BY <1>1, <1>4
  <2>2. SubSeq(code, 7, 11) = r
    BY <1>1, <1>4
  <2> QED
    BY <1>2, <1>4, <2>1, <2>2 DEF Reported, ReportedPart
<1> QED
  BY <1>3, <1>4 DEF ReportedPart

\* How the code of a standard tag is made of what is left of its text.
LEMMA StdTagIs ==
  ASSUME NEW read \in Seq(Character), NEW stripped, stripped = Without(read, {Space, Newline})
  PROVE  StdTagPostcode(read, TRUE) =
           IF Len(read) < 5 THEN <<>>
           ELSE Reported(AcceptedCode(ScoreAt(stripped, HyphenAt(stripped), TRUE)), TRUE)
<1>1. PICK at : at = HyphenAt(stripped)
  OBVIOUS
<1>2. PICK found : found = postcodeStringScore(read, TRUE)
  OBVIOUS
<1>3. StdTagPostcode(read, TRUE) = Reported(AcceptedCode(found), TRUE)
  BY <1>2 DEF StdTagPostcode, formatStdPostcode
<1>4. CASE Len(read) < 5
  <2>1. found = [score |-> 0, code |-> <<>>]
    BY <1>2, <1>4 DEF postcodeStringScore
  <2>2. found.score = 0
    BY <2>1
  <2>3. AcceptedCode(found) = <<>>
    BY <2>2 DEF AcceptedCode, Whole
  <2>4. Reported(<<>>, TRUE) = <<>>
    BY DEF Reported
  <2> QED
    BY ONLY <1>3, <1>4, <2>3, <2>4
<1>5. CASE ~(Len(read) < 5)
  <2>1. SelectInSeq(stripped, LAMBDA c : c = Hyphen) = at
    BY <1>1 DEF SelectInSeq, HyphenAt
  <2>2. found = ScoreAt(stripped, SelectInSeq(stripped, LAMBDA c : c = Hyphen), TRUE)
    BY <1>2, <1>5 DEF postcodeStringScore
  <2> QED
    BY <1>1, <1>3, <1>5, <2>1, <2>2
<1> QED
  BY <1>4, <1>5

\* What is reported was read.
LEMMA ReportedWasRead ==
  ASSUME NEW read \in Seq(Character), NEW stripped, stripped = Without(read, {Space, Newline}),
         NEW at, at = HyphenAt(stripped),
         NEW code, code = StdTagPostcode(read, TRUE), code # <<>>
  PROVE  WasRead(code, stripped, at)
<1>1. Blankless(stripped)
  BY StrippedIsBlankless
<1>2. PICK len : len = Len(stripped)
  OBVIOUS
<1>3. stripped \in Seq(Character) /\ len \in Nat
  BY <1>1, <1>2 DEF Blankless
<1>4. PICK found : found = AcceptedCode(ScoreAt(stripped, at, TRUE))
  OBVIOUS
<1>5. code = Reported(found, TRUE)
  <2>1. ~(Len(read) < 5)
    BY StdTagIs
  <2> QED
    BY ONLY <1>4, <2>1, StdTagIs, read \in Seq(Character), stripped = Without(read, {Space, Newline}),
            at = HyphenAt(stripped), code = StdTagPostcode(read, TRUE)
<1>6. found # <<>>
  BY <1>5 DEF Reported
<1>7. FirstHyphen(stripped, at)
  BY <1>3, HyphenIsFirst
<1>8. CASE at = 0
  <2>1. found = AcceptedCode(FullCode(stripped))
    BY <1>4, <1>8 DEF ScoreAt
  <2>2. GotDigits(found, stripped, 10)
    BY ONLY <1>1, <1>6, <2>1, FullIsRead
  <2>3. Len(code) = 5 /\ AllNumerals(code) /\ Contiguous(code, stripped)
    BY ONLY <1>3, <1>5, <2>2, FullIsReported
  <2> QED
    BY <2>3 DEF WasRead
<1>9. CASE at # 0
  <2>1. at \in 1..len
    BY <1>2, <1>7, <1>9 DEF FirstHyphen
  <2>2. PICK left, right : left = SubSeq(stripped, 1, at - 1) /\ right = SubSeq(stripped, at + 1, Len(stripped))
    OBVIOUS
  <2>3. PICK front, behind : front = at - 1 /\ behind = at + 1
    OBVIOUS
  <2>4. /\ 1 \in Nat /\ front \in Nat /\ 1 > 0 /\ 1 <= front + 1 /\ front <= len
        /\ behind \in Nat /\ behind > 0 /\ behind <= len + 1 /\ len <= len
    BY <1>3, <2>1, <2>3
  <2>5. Blankless(left) /\ Blankless(right)
    BY ONLY <1>1, <1>2, <1>3, <2>2, <2>3, <2>4, BlanklessPart
  <2>6. found = AcceptedCode(HyphenatedCode(left, right, TRUE))
    BY <1>4, <1>9, <2>2 DEF ScoreAt
  <2>7. TakenAround(found, left, right)
    BY ONLY <1>6, <2>5, <2>6, HyphenatedIsRead
  <2>8. PICK l, r : \E n \in {4, 5} : /\ found = l \o <<Hyphen>> \o r
                                     /\ GotDigits(l, left, 5) /\ GotDigits(r, right, n)
    BY <2>7 DEF TakenAround
  <2>9. PICK n \in {4, 5} : found = l \o <<Hyphen>> \o r /\ GotDigits(l, left, 5) /\ GotDigits(r, right, n)
    BY <2>8
  <2>10. /\ l \in Seq(Character) /\ Len(l) = 5 /\ AllNumerals(l) /\ Contiguous(l, left)
         /\ r \in Seq(Character) /\ Len(r) = n /\ AllNumerals(r) /\ Contiguous(r, right)
    BY <2>9 DEF GotDigits
  <2>11. JoinedParts(found, l, r, n)
    BY ONLY <2>9, <2>10, n \in {4, 5}, JoinedHasParts
  <2>12. (n = 4 => code = found) /\ (n = 5 => code = r)
    <3>1. ReportedPart(found, r, n)
      BY ONLY <2>11, n \in {4, 5}, JoinedIsReported
    <3> QED
      BY ONLY <1>5, <3>1 DEF ReportedPart
  <2>13. CASE n = 4
    <3>1. /\ code = found /\ Len(code) = 10 /\ code[6] = Hyphen
          /\ SubSeq(code, 1, 5) = l /\ SubSeq(code, 7, 10) = r
      <4>1. 6 + n = 10
        BY <2>13
      <4>2. code = found
        BY ONLY <2>12, <2>13
      <4> QED
        BY <2>11, <4>1, <4>2 DEF JoinedParts
    <3> QED
      BY <2>2, <2>10, <3>1 DEF WasRead
  <2>14. CASE n = 5
    <3>1. code = r
      BY ONLY <2>12, <2>14
    <3>2. Contiguous(r, SubSeq(stripped, behind, len))
      BY <1>2, <2>2, <2>3, <2>10
    <3>3. Contiguous(r, stripped)
      BY ONLY <1>2, <1>3, <2>4, <2>10, <3>2, ContiguousInWhole
    <3> QED
      BY <2>10, <2>14, <3>1, <3>3 DEF WasRead
  <2> QED
    BY <2>13, <2>14
<1> QED
  BY <1>8, <1>9

\* A text of at most one character that is no digit.
LEMMA OneIsNoDigit ==
  ASSUME NEW read \in Seq(Character), Len(Without(read, Numeral)) <= 1,
         NEW at \in 1..Len(read), read[at] \notin Numeral
  PROVE  \A i \in 1..Len(read) : i # at => read[i] \in Numeral
<1>1. PICK u, len : u = Without(read, Numeral) /\ len = Len(read)
  OBVIOUS
<1>2. Left(u, read, Numeral, len)
  BY <1>1, WithoutIs
<1>3. u \in Seq(Character) /\ ~(Len(u) >= 2)
  BY <1>1, <1>2 DEF Left
<1>4. ASSUME NEW i \in 1..len, i # at, read[i] \notin Numeral PROVE FALSE
  <2>1. i < at \/ at < i
    BY <1>1, <1>4
  <2>2. at \in 1..len
    BY <1>1
  <2> QED
    BY <1>2, <1>3, <1>4, <2>1, <2>2 DEF Left
<1> QED
  BY <1>1, <1>4

\* Ten digits are reported as the last five.
LEMMA TenDigitsAreReported ==
  ASSUME NEW read, Blankless(read), Len(read) = 10, AllNumerals(read)
  PROVE  /\ Reported(AcceptedCode(ScoreAt(read, HyphenAt(read), TRUE)), TRUE) = SubSeq(read, 6, 10)
         /\ Hyphen \notin ToSet(read)
<1>1. read \in Seq(Character)
  BY DEF Blankless
<1>2. \A i \in 1..Len(read) : read[i] \in Numeral
  BY <1>1 DEF AllNumerals, ToSet
<1>3. Hyphen \notin Numeral
  BY DEF Hyphen, Numeral
<1>4. HyphenAt(read) = 0
  BY <1>2, <1>3 DEF HyphenAt
<1>5. continuousDigitsScore(read, 10) = Whole
  <2>1. continuousDigitsScore(read, 10) = RunScore(Len(read), Len(read), 10)
    BY <1>2, DigitsScore
  <2> QED
    BY <2>1, CleanScores
<1>6. getFirstContinuousDigits(read, 10) = read
  <2>1. Len(read) > 0
    OBVIOUS
  <2>2. getFirstContinuousDigits(read, Len(read)) = read
    BY ONLY <1>1, <1>2, <2>1, DigitsGetDigits
  <2> QED
    BY <2>2
<1>7. PICK found : found = ScoreAt(read, HyphenAt(read), TRUE)
  OBVIOUS
<1>8. found.score = Whole * Whole /\ found.code = read
  <2>1. found = FullCode(read)
    BY <1>4, <1>7 DEF ScoreAt
  <2>2. 5 * Whole > 4 * Whole
    BY DEF Whole
  <2>3. found = [score |-> Whole * Whole, code |-> read]
    BY <1>5, <1>6, <2>1, <2>2 DEF FullCode
  <2> QED
    BY ONLY <2>3
<1>9. AcceptedCode(found) = read
  BY <1>8 DEF AcceptedCode, Whole
<1>10. Contiguous(read, read)
  <2>1. SubSeq(read, 0 + 1, 0 + Len(read)) = read /\ 0 \in 0..(Len(read) - Len(read))
    BY <1>1
  <2> QED
    BY <2>1 DEF Contiguous
<1>11. GotDigits(read, read, 10)
  BY <1>1, <1>10 DEF GotDigits
<1>12. Reported(read, TRUE) = SubSeq(read, 6, 10)
  BY <1>1, <1>11, FullIsReported
<1> QED
  BY <1>2, <1>3, <1>7, <1>9, <1>12 DEF AllNumerals

\* Five digits, a hyphen and four digits are reported as they are; of five digits, a
\* hyphen and five digits the last five.
LEMMA HyphenatedIsReported ==
  ASSUME NEW read, Blankless(read), NEW n \in {4, 5}, Len(read) = 6 + n, read[6] = Hyphen,
         \A i \in 1..Len(read) : i # 6 => read[i] \in Numeral
  PROVE  Reported(AcceptedCode(ScoreAt(read, HyphenAt(read), TRUE)), TRUE)
           = IF n = 4 THEN read ELSE SubSeq(read, 7, 11)
<1>1. read \in Seq(Character) /\ n \in Nat
  BY DEF Blankless
<1>2. Hyphen \notin Numeral
  BY DEF Hyphen, Numeral
<1>3. PICK at : at = HyphenAt(read)
  OBVIOUS
<1>4. at = 6
  <2>1. FirstHyphen(read, at)
    BY <1>1, <1>3, HyphenIsFirst
  <2>2. 6 \in 1..Len(read)
    BY <1>1
  <2> QED
    BY <1>2, <2>1, <2>2 DEF FirstHyphen
<1>5. PICK to, l, r : to = 6 + n /\ l = SubSeq(read, 1, 5) /\ r = SubSeq(read, 7, to)
  OBVIOUS
<1>6. /\ 1 \in Nat /\ 5 \in Nat /\ 1 > 0 /\ 1 <= 5 + 1 /\ 5 <= Len(read)
      /\ 7 \in Nat /\ to \in Nat /\ 7 > 0 /\ 7 <= to + 1 /\ to <= Len(read) /\ to - 7 + 1 = n
  BY <1>1, <1>5
<1>7. IsPart(l, read, 1, 5) /\ IsPart(r, read, 7, to)
  BY ONLY <1>1, <1>5, <1>6, PartOf
<1>8. Blankless(l) /\ Blankless(r)
  BY ONLY <1>5, <1>6, Blankless(read), BlanklessPart
<1>9. /\ l \in Seq(Character) /\ Len(l) = 5 /\ \A i \in 1..5 : l[i] = read[i]
      /\ r \in Seq(Character) /\ Len(r) = n /\ \A i \in 1..n : r[i] = read[7 + i - 1]
  BY <1>6, <1>7 DEF IsPart
<1>10. \A i \in 1..Len(l) : l[i] \in Numeral
  BY <1>1, <1>9
<1>11. \A i \in 1..Len(r) : r[i] \in Numeral
  <2>1. ASSUME NEW i \in 1..n PROVE r[i] \in Numeral
    <3>1. PICK k : k = 7 + i - 1
      OBVIOUS
    <3>2. k \in 1..Len(read) /\ k # 6
      BY <1>1, <3>1
    <3> QED
      BY <1>9, <3>1, <3>2
  <2> QED
    BY <1>9, <2>1
<1>12. /\ continuousDigitsScore(l, 5) = Whole
       /\ getFirstContinuousDigits(l, 5) = l
  <2>1. continuousDigitsScore(l, 5) = RunScore(Len(l), Len(l), 5)
    BY ONLY <1>8, <1>10, DigitsScore
  <2>2. getFirstContinuousDigits(l, Len(l)) = l
    <3>1. Len(l) > 0
      BY <1>9
    <3> QED
      BY ONLY <1>9, <1>10, <3>1, DigitsGetDigits
  <2> QED
    BY <1>9, <2>1, <2>2, CleanScores
<1>13. getFirstContinuousDigits(r, n) = r
  <2>1. getFirstContinuousDigits(r, Len(r)) = r
    <3>1. Len(r) > 0
      BY <1>9
    <3> QED
      BY ONLY <1>9, <1>11, <3>1, DigitsGetDigits
  <2> QED
    BY <1>9, <2>1
<1>14. PICK r5, r4 : r5 = continuousDigitsScore(r, 5) /\ r4 = continuousDigitsScore(r, 4)
  OBVIOUS
<1>15. r5 = RunScore(n, n, 5) /\ r4 = RunScore(n, n, 4)
  <2>1. r5 = RunScore(Len(r), Len(r), 5)
    BY ONLY <1>8, <1>11, <1>14, DigitsScore
  <2>2. r4 = RunScore(Len(r), Len(r), 4)
    BY ONLY <1>8, <1>11, <1>14, DigitsScore
  <2> QED
    BY <1>9, <2>1, <2>2
<1>16. Max({r5, r4}) = Whole /\ (IF r5 < r4 THEN 4 ELSE 5) = n
  <2>1. CASE n = 4
    <3>1. r5 = 0 /\ r4 = Whole
      BY <1>15, <2>1, CleanScores
    <3>2. 0 \in Int /\ Whole \in Int /\ 0 < Whole
      BY DEF Whole
    <3>3. Max({r5, r4}) = Whole
      BY <3>1, <3>2, GreaterOf
    <3> QED
      BY <2>1, <3>1, <3>2, <3>3
  <2>2. CASE n = 5
    <3>1. r5 = Whole /\ r4 = 1425
      BY <1>15, <2>2, CleanScores
    <3>2. r5 \in Int /\ r4 \in Int /\ ~(r5 <= r4)
      BY <3>1 DEF Whole
    <3>3. Max({r5, r4}) = Whole
      BY <3>1, <3>2, GreaterOf
    <3> QED
      BY <2>2, <3>2, <3>3
  <2> QED
    BY <2>1, <2>2
<1>17. PICK code : code = l \o <<Hyphen>> \o r
  OBVIOUS
<1>18. JoinedParts(code, l, r, n)
  BY ONLY <1>9, <1>17, n \in {4, 5}, JoinedHasParts
<1>19. PICK found : found = [score |-> Whole * Whole, code |-> code]
  OBVIOUS
<1>20. ScoreAt(read, at, TRUE) = found
  <2>1. at - 1 = 5 /\ at + 1 = 7 /\ Len(read) = to /\ at # 0
    BY <1>4, <1>5
  <2>2. ScoreAt(read, at, TRUE) = HyphenatedCode(l, r, TRUE)
    BY <1>5, <2>1 DEF ScoreAt
  <2>3. HyphenatedCode(l, r, TRUE) = found
    <3>1. PICK m : m = IF r5 < r4 THEN 4 ELSE 5
      OBVIOUS
    <3>2. m = n
      BY <1>16, <3>1
    <3>3. HyphenatedCode(l, r, TRUE) =
            [score |-> continuousDigitsScore(l, 5) * Max({r5, r4}),
             code |-> getFirstContinuousDigits(l, 5) \o <<Hyphen>> \o getFirstContinuousDigits(r, m)]
      BY ONLY <1>14, <3>1 DEF HyphenatedCode
    <3> QED
      BY ONLY <1>12, <1>13, <1>16, <1>17, <1>19, <3>2, <3>3
  <2> QED
    BY <2>2, <2>3
<1>21. AcceptedCode(found) = code
  <2>1. found.score = Whole * Whole /\ found.code = code
    BY ONLY <1>19
  <2> QED
    BY <2>1 DEF AcceptedCode, Whole
<1>22. code = read
  <2>1. /\ code \in Seq(Character) /\ Len(code) = 6 + n /\ code[6] = Hyphen
        /\ SubSeq(code, 1, 5) = l /\ SubSeq(code, 7, to) = r
    BY <1>5, <1>18 DEF JoinedParts
  <2>2. 5 <= Len(code) /\ to <= Len(code)
    BY <1>5, <1>6, <2>1
  <2>3. IsPart(l, code, 1, 5) /\ IsPart(r, code, 7, to)
    BY ONLY <1>6, <2>1, <2>2, PartOf
  <2>4. \A i \in 1..5 : l[i] = code[i]
    BY <2>3 DEF IsPart
  <2>5. \A i \in 1..n : r[i] = code[7 + i - 1]
    BY <1>6, <2>3 DEF IsPart
  <2>6. ASSUME NEW i \in 1..Len(read) PROVE code[i] = read[i]
    <3>1. CASE i < 6
      BY <1>9, <2>4, <3>1
    <3>2. CASE i = 6
      BY <2>1, <3>2
    <3>3. CASE i > 6
      <4>1. PICK k : k = i - 6
        OBVIOUS
      <4>2. k \in 1..n /\ 7 + k - 1 = i
        BY <1>1, <3>3, <4>1
      <4> QED
        BY <1>9, <2>5, <4>2
    <3> QED
      BY <3>1, <3>2, <3>3
  <2> QED
    BY ONLY <1>1, <2>1, <2>6, Len(read) = 6 + n, SeqEqual
<1>23. ReportedPart(code, r, n)
  BY ONLY <1>18, n \in {4, 5}, JoinedIsReported
<1>24. Reported(AcceptedCode(ScoreAt(read, HyphenAt(read), TRUE)), TRUE) = Reported(code, TRUE)
  BY ONLY <1>3, <1>20, <1>21
<1>25. CASE n = 4
  BY <1>22, <1>23, <1>24, <1>25 DEF ReportedPart
<1>26. CASE n = 5
  <2>1. to = 11
    BY <1>5, <1>26
  <2>2. Reported(code, TRUE) = r
    BY ONLY <1>23, <1>26 DEF ReportedPart
  <2>3. SubSeq(read, 7, 11) = r
    BY <1>5, <2>1
  <2>4. n # 4
    BY <1>26
  <2> QED
    BY ONLY <1>24, <2>2, <2>3, <2>4
<1> QED
  BY <1>25, <1>26

\* A clean code is not lost.
LEMMA CleanIsReported ==
  ASSUME NEW read \in Seq(Character), NEW stripped, stripped = Without(read, {Space, Newline}),
         CleanCode(stripped)
  PROVE  StdTagPostcode(read, TRUE) =
           IF Len(stripped) = 10 /\ Hyphen \in ToSet(stripped) THEN stripped
           ELSE SubSeq(stripped, Len(stripped) - 4, Len(stripped))
<1>1. Blankless(stripped) /\ Len(stripped) <= Len(read)
  BY StrippedIsBlankless
<1>2. PICK len : len = Len(stripped)
  OBVIOUS
<1>3. stripped \in Seq(Character) /\ len \in Nat /\ DOMAIN stripped = 1..len
  BY <1>1, <1>2 DEF Blankless
<1>4. len \in {10, 11}
  BY <1>2 DEF CleanCode
<1>5. PICK code : code = Reported(AcceptedCode(ScoreAt(stripped, HyphenAt(stripped), TRUE)), TRUE)
  OBVIOUS
<1>6. StdTagPostcode(read, TRUE) = code
  <2>1. ~(Len(read) < 5)
    <3>1. Len(read) \in Nat
      BY ONLY read \in Seq(Character)
    <3>2. len <= Len(read)
      BY ONLY <1>1, <1>2
    <3> QED
      BY ONLY <1>4, <3>1, <3>2
  <2>2. StdTagPostcode(read, TRUE) =
           IF Len(read) < 5 THEN <<>>
           ELSE Reported(AcceptedCode(ScoreAt(stripped, HyphenAt(stripped), TRUE)), TRUE)
    BY StdTagIs
  <2> QED
    BY ONLY <1>5, <2>1, <2>2
<1>7. CASE len = 10 /\ AllNumerals(stripped)
  <2>1. code = SubSeq(stripped, 6, 10) /\ Hyphen \notin ToSet(stripped)
    BY ONLY <1>1, <1>2, <1>5, <1>7, TenDigitsAreReported
  <2>2. Len(stripped) - 4 = 6 /\ Len(stripped) = 10
    BY <1>2, <1>7
  <2> QED
    BY ONLY <1>6, <2>1, <2>2
<1>8. CASE ~(len = 10 /\ AllNumerals(stripped))
  <2>1. stripped[6] = Hyphen /\ Len(Without(stripped, Numeral)) <= 1
    BY <1>2, <1>8 DEF CleanCode
  <2>2. 6 \in 1..Len(stripped) /\ stripped[6] \notin Numeral
    <3>1. Hyphen \notin Numeral
      BY DEF Hyphen, Numeral
    <3>2. 6 \in 1..len
      BY ONLY <1>4
    <3> QED
      BY ONLY <1>2, <2>1, <3>1, <3>2
  <2>3. \A i \in 1..Len(stripped) : i # 6 => stripped[i] \in Numeral
    BY ONLY <1>3, <2>1, <2>2, OneIsNoDigit
  <2>4. PICK n : n = len - 6
    OBVIOUS
  <2>5. n \in {4, 5} /\ Len(stripped) = 6 + n
    BY <1>2, <1>4, <2>4
  <2>6. code = IF n = 4 THEN stripped ELSE SubSeq(stripped, 7, 11)
    BY ONLY <1>1, <1>5, <2>1, <2>3, <2>5, HyphenatedIsReported
  <2>7. Hyphen \in ToSet(stripped)
    <3>1. 6 \in DOMAIN stripped
      BY <1>3, <1>4
    <3> QED
      BY <2>1, <3>1 DEF ToSet
  <2>8. CASE n = 4
    <3>1. Len(stripped) = 10
      BY <2>5, <2>8
    <3> QED
      BY ONLY <1>6, <2>6, <2>7, <2>8, <3>1
  <2>9. CASE n = 5
    <3>1. Len(stripped) = 11 /\ Len(stripped) - 4 = 7 /\ ~(Len(stripped) = 10)
      BY ONLY <2>5, <2>9
    <3>2. code = SubSeq(stripped, 7, 11)
      BY ONLY <2>6, <2>9
    <3> QED
      BY ONLY <1>6, <3>1, <3>2
  <2> QED
    BY <2>5, <2>8, <2>9
<1> QED
  BY <1>7, <1>8

\* What is reported of a standard tag was read, and a clean code is not lost
\* (OCRStandardTag::postcodeStringScore, formatStdPostcode).
THEOREM StdCodeIsRead == Spec => []StdCodeWasRead
<1>1. InputInv => StdCodeWasRead
  <2> SUFFICES ASSUME InputInv PROVE StdCodeWasRead
    OBVIOUS
  <2>1. PICK read, code, stripped, at :
          /\ read = text /\ code = StdTagPostcode(read, TRUE)
          /\ stripped = Without(read, {Space, Newline})
          /\ at = HyphenAt(stripped)
    OBVIOUS
  <2>2. read \in Seq(Character)
    BY <2>1 DEF InputInv
  <2>3. SelectInSeq(stripped, LAMBDA c : c = Hyphen) = at
    BY <2>1 DEF SelectInSeq, HyphenAt
  <2>4. code # <<>> => WasRead(code, stripped, at)
    BY ONLY <2>1, <2>2, ReportedWasRead
  <2>5. CleanCode(stripped) =>
          code = IF Len(stripped) = 10 /\ Hyphen \in ToSet(stripped) THEN stripped
                 ELSE SubSeq(stripped, Len(stripped) - 4, Len(stripped))
    BY ONLY <2>1, <2>2, CleanIsReported
  <2> QED
    BY <2>1, <2>3, <2>4, <2>5 DEF StdCodeWasRead
<1> QED
  BY <1>1, InputAlways, PTL
=============================================================================
