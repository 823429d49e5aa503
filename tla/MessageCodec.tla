---------------------------- MODULE MessageCodec ----------------------------
(***************************************************************************)
(* The messages between the OCR program and the image server, as the       *)
(* CHINA_POST protocol of CPTENetworkServer writes them: bytes, the last   *)
(* one a checksum, as pairs of hexadecimal digits between ":" and CR LF.   *)
(* Base stands for 16, so that a byte has Base * Base values.              *)
(***************************************************************************)
EXTENDS Integers, SequencesExt

CONSTANT Base  \* the number of digits: 16 in the code

ASSUME BaseAssumption == Base \in Nat /\ Base > 1

Byte == 0..(Base * Base - 1)
Digit == 0..(Base - 1)

\* What is neither a digit is one of the three marker characters.
Colon == Base
CR == Base + 1
LF == Base + 2
Symbol == Digit \cup {Colon, CR, LF}

start_c == <<Colon>>
end_c == <<CR, LF>>

encode_data_hex(bytes) ==
  [k \in 1..(2 * Len(bytes)) |->
     IF k % 2 = 1 THEN bytes[(k + 1) \div 2] \div Base ELSE bytes[k \div 2] % Base]

\* Of the pairs of digits in text, the place of the k-th.
Pairs(text) == {i \in 1..(Len(text) \div 2) : text[2 * i - 1] \in Digit /\ text[2 * i] \in Digit}
KthPair(text, k) == CHOOSE i \in Pairs(text) : Cardinality({j \in Pairs(text) : j <= i}) = k

\* Mutant: the second digit overwrites the first instead of being added to it.
DecodeOverwrites(text) ==
  IF Len(text) % 2 # 0 THEN <<>>
  ELSE [k \in 1..Cardinality(Pairs(text)) |-> text[2 * KthPair(text, k)]]

\* Text of odd length gives nothing; a pair that is not two digits is skipped.
decode_data_hex(text) ==
  IF Len(text) % 2 # 0 THEN <<>>
  ELSE [k \in 1..Cardinality(Pairs(text)) |->
          text[2 * KthPair(text, k) - 1] * Base + text[2 * KthPair(text, k)]]

\* Mutant: the result is not cut to a byte.
CodeTooWide(bytes) == Base * Base - (FoldLeft(+, 0, bytes) % (Base * Base))

\* Mutant: the loop stops one byte too early.
CodeSkipsLast(bytes) == (-FoldLeft(+, 0, Front(bytes))) % (Base * Base)

\* The two's complement of the sum of the bytes.
generate_msg_validation_code(bytes) ==
  (-FoldLeft(+, 0, bytes)) % (Base * Base)

check_msg_validation(bytes) ==
  /\ Len(bytes) > 1
  /\ Last(bytes) = generate_msg_validation_code(Front(bytes))

\* Where pattern first begins in text; 0 stands for npos.
find_full_string(text, pattern) ==
  LET found == {i \in 1..(Len(text) - Len(pattern) + 1) :
                  SubSeq(text, i, i + Len(pattern) - 1) = pattern}
  IN IF found = {} THEN 0 ELSE Min(found)

\* What the sender of a message with this content encodes, and what goes on the wire.
Sealed(content) == Append(content, generate_msg_validation_code(content))
Text(content) == encode_data_hex(Sealed(content))
Frame(text) == start_c \o text \o end_c
=============================================================================
