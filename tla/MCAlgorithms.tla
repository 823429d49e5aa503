---------------------------- MODULE MCAlgorithms ----------------------------
(***************************************************************************)
(* The sequential algorithms on every input up to a bound, which is built  *)
(* step by step: a message and the text that carries it, a text read from  *)
(* a tag, or the boxes found on a picture.  A behaviour builds one of them.*)
(***************************************************************************)
EXTENDS MessageCodec, PostcodeText, TagBoxes

CONSTANTS MaxContent,  \* bound: the bytes of a message without its checksum
          MaxPieces,   \* bound: the pieces of a text
          MaxBoxes     \* bound: the boxes of a picture

ASSUME BoundsAssumption == MaxContent \in Nat /\ MaxPieces \in Nat /\ MaxBoxes \in Nat

VARIABLES content,   \* the message
          line,      \* its text as the receiver sees it
          wrong,     \* a digit of it was changed on the way
          pieces,    \* of how many pieces the text read is made
          text,      \* the text read
          boxes      \* the boxes found

\* Places are numbers along a line. Neighbours overlap: who overlaps whom is not transitive.
Neighbours(p, q) == p - q \in (-1)..1

vars == <<content, line, wrong, pieces, text, boxes>>

Init ==
  /\ content = <<>> /\ line = Text(<<>>) /\ wrong = FALSE
  /\ pieces = 0 /\ text = <<>>
  /\ boxes = <<>>

\* A longer message.
Extend ==
  /\ text = <<>> /\ boxes = <<>>
  /\ ~wrong
  /\ Len(content) < MaxContent
  /\ \E b \in Byte :
       /\ content' = Append(content, b)
       /\ line' = Text(content')
  /\ UNCHANGED <<wrong, pieces, text, boxes>>

\* One digit of the text is replaced by another one.
Garble ==
  /\ text = <<>> /\ boxes = <<>>
  /\ ~wrong
  /\ \E i \in DOMAIN line, d \in Digit : d # line[i] /\ line' = [line EXCEPT ![i] = d]
  /\ wrong' = TRUE
  /\ UNCHANGED <<content, pieces, text, boxes>>

\* A piece of a text: one character that is no digit, or some digits, each of which
\* tells where in the text it stands.
Piece ==
  {<<c>> : c \in Character \ Numeral}
    \cup {[k \in 1..n |-> (Len(text) + k) % 10] : n \in {1, 4, 5, 6}}

Write ==
  /\ line = Text(<<>>) /\ content = <<>> /\ boxes = <<>>
  /\ pieces < MaxPieces
  /\ \E piece \in Piece : text' = text \o piece
  /\ pieces' = pieces + 1
  /\ UNCHANGED <<content, line, wrong, boxes>>

\* One more box found.
Find ==
  /\ line = Text(<<>>) /\ content = <<>> /\ text = <<>>
  /\ Len(boxes) < MaxBoxes
  /\ \E box \in Box : boxes' = Append(boxes, box)
  /\ UNCHANGED <<content, line, wrong, pieces, text>>

Next == Extend \/ Garble \/ Write \/ Find

Spec == Init /\ [][Next]_vars

\* The inputs have their types, and so has the state the loop over a text ends in.
TypeOK ==
  /\ content \in Seq(Byte)
  /\ line \in Seq(Digit)
  /\ wrong \in BOOLEAN
  /\ pieces \in 0..MaxPieces
  /\ text \in Seq(Character)
  /\ boxes \in Seq(Box)
  /\ ScanWords(text, {5, 10}) \in Word

\* A message that arrives as it was encoded passes the check, decodes to what the
\* sender sealed, and has none of the characters that mark a frame.
RoundTrip ==
  ~wrong /\ content # <<>> =>
     /\ decode_data_hex(line) = Sealed(content)
     /\ check_msg_validation(decode_data_hex(line))
     /\ find_full_string(line, start_c) = 0
     /\ find_full_string(line, end_c) = 0

\* One wrong digit, the one of the checksum included, is always noticed.
WrongDigitRefused == wrong => ~check_msg_validation(decode_data_hex(line))

\* The characters of part stand next to each other in whole.
Contiguous(part, whole) ==
  \E i \in 0..(Len(whole) - Len(part)) : SubSeq(whole, i + 1, i + Len(part)) = part

\* A code that was read, at being where the first hyphen of the text stands, or 0: five
\* digits in a row, or five digits of the part in front of the hyphen, the hyphen, and
\* four digits of the part behind it.
WasRead(code, stripped, at) ==
  \/ /\ Len(code) = 5 /\ AllNumerals(code)
     /\ Contiguous(code, stripped)
  \/ /\ Len(code) = 10 /\ code[6] = Hyphen
     /\ AllNumerals(SubSeq(code, 1, 5)) /\ AllNumerals(SubSeq(code, 7, 10))
     /\ Contiguous(SubSeq(code, 1, 5), SubSeq(stripped, 1, at - 1))
     /\ Contiguous(SubSeq(code, 7, 10), SubSeq(stripped, at + 1, Len(stripped)))

\* A text that is a code: five digits, a hyphen, and four or five digits; or ten digits.
CleanCode(stripped) ==
  /\ Len(Without(stripped, Numeral)) <= 1
  /\ \/ Len(stripped) \in {10, 11} /\ stripped[6] = Hyphen
     \/ Len(stripped) = 10 /\ AllNumerals(stripped)

\* Postcode10Support on: what a standard tag reports was read, blanks apart.  And a clean
\* code is not lost: of 5-4 digits all is reported, of 5-5 and of ten the last five.
StdCodeWasRead ==
  \E code \in {StdTagPostcode(text, TRUE)}, stripped \in {Without(text, {Space, Newline})} :
    /\ code # <<>> => WasRead(code, stripped, SelectInSeq(stripped, LAMBDA c : c = Hyphen))
    /\ CleanCode(stripped) =>
         code = IF Len(stripped) = 10 /\ Hyphen \in ToSet(stripped) THEN stripped
                ELSE SubSeq(stripped, Len(stripped) - 4, Len(stripped))

\* The words of the second half of a text: the longest stretches without a separator.
WordsOfHalf(read) ==
  LET first == Len(read) \div 2 + 1
      Ends(i) == i = Len(read) + 1 \/ read[i] \in Separator
      Begins(i) == i = first - 1 \/ read[i] \in Separator
  IN {w \in ((first - 1)..Len(read)) \X (first..(Len(read) + 1)) :
        /\ w[1] < w[2] /\ Begins(w[1]) /\ Ends(w[2])
        /\ \A i \in (w[1] + 1)..(w[2] - 1) : read[i] \notin Separator}

\* The last word of the second half of a text that consists of digits and hyphens only
\* and has a length that is allowed.
LastCodeWord(read, lengths) ==
  LET codes == {w \in WordsOfHalf(read) :
                  /\ w[2] - w[1] - 1 \in lengths
                  /\ \A i \in (w[1] + 1)..(w[2] - 1) : IsDigit(read[i])}
      last == CHOOSE w \in codes : \A v \in codes : v[1] <= w[1]
  IN IF codes = {} THEN <<>> ELSE SubSeq(read, last[1] + 1, last[2] - 1)

\* What is reported of an arbitrary tag is the last word that is a code of five or ten
\* characters, and of a lottery tag the last one of five.
LastWordIsCode ==
  /\ format_results(text) = LastCodeWord(text, {5, 10})
  /\ formatLotteryPostcode(text) = LastCodeWord(text, {5})

\* However the sort leaves boxes of one class, one box stands for each tag: those that
\* are kept were found, have their own class and do not overlap another of it, and
\* every box found lies where one of its class that is kept lies, or overlaps it.
OneBoxPerTag ==
  \A left \in nms_multi_class(boxes) :
    /\ Len(left.class_ids) = Len(left.rects)
    /\ \A i \in DOMAIN left.rects :
         left.rects[i] \in ToSet(boxes) /\ left.class_ids[i] = left.rects[i].cls
    /\ \A i, j \in DOMAIN left.rects :
         i # j /\ left.rects[i].cls = left.rects[j].cls =>
           ~Overlaps(left.rects[i].at, left.rects[j].at)
    /\ \A box \in ToSet(boxes) : \E kept \in ToSet(left.rects) :
         kept.cls = box.cls /\ (kept.at = box.at \/ Overlaps(kept.at, box.at))
=============================================================================
