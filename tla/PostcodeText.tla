---------------------------- MODULE PostcodeText ----------------------------
(***************************************************************************)
(* How the postcode is taken out of the text that optical recognition      *)
(* found on a tag (PostcodeAlgorithm_v1): on a standard tag by scoring the *)
(* runs of digits, on an arbitrary and on a lottery tag by a small state   *)
(* machine over the second half of the text.  A text is a sequence of      *)
(* characters; those that the code does not tell apart are one.            *)
(***************************************************************************)
EXTENDS Integers, SequencesExt

Numeral == 0..9
Hyphen == 10
Space == 11
Newline == 12
Point == 13   \* "." or ","
Letter == 14  \* any other character
Character == Numeral \cup {Hyphen, Space, Newline, Point, Letter}

AllNumerals(text) == ToSet(text) \subseteq Numeral

\* The text without the characters that are erased from it one by one.
Without(text, erased) ==
  LET kept[n \in 0..Len(text)] ==
        IF n = 0 THEN <<>>
        ELSE IF text[n] \in erased THEN kept[n - 1] ELSE Append(kept[n - 1], text[n])
  IN kept[Len(text)]

\* The length of the longest run of digits: the largest gap between two others.
maxNumContinuousDigits(text) ==
  LET others == {0, Len(text) + 1} \cup {i \in DOMAIN text : text[i] \notin Numeral}
      RunAfter(i) == Min({j \in others : j > i}) - i - 1
  IN Max({RunAfter(i) : i \in others \ {Len(text) + 1}})

\* The first num digits of the first run that has so many; none, the empty text.
getFirstContinuousDigits(text, num) ==
  LET starts == {i \in 1..(Len(text) - num + 1) : AllNumerals(SubSeq(text, i, i + num - 1))}
  IN IF starts = {} THEN <<>> ELSE SubSeq(text, Min(starts), Min(starts) + num - 1)

\* Scores are counted in units of 1/Whole, which is exact for 4, 5 and 10 digits.
Whole == 2400

\* 1 - (run - num) / num, times 1 - (length - num) / (1.2 num), neither below 0.
RunScore(run, length, num) ==
  IF run < num THEN 0
  ELSE (Max({0, 2 * num - run}) * Max({0, 11 * num - 5 * length}) * Whole) \div (6 * num * num)

continuousDigitsScore(text, num) ==
  RunScore(maxNumContinuousDigits(Without(text, {Space})), Len(Without(text, {Space})), num)

\* The digits left and right of a hyphen: five, and four or five, whichever fit better.
\* ten is Postcode10Support; without it a right part of four digits fits always.
HyphenatedCode(left, right, ten) ==
  LET right5 == continuousDigitsScore(right, 5)
      right4 == IF ten THEN continuousDigitsScore(right, 4) ELSE Whole
  IN [score |-> continuousDigitsScore(left, 5) * Max({right5, right4}),
      code |-> getFirstContinuousDigits(left, 5) \o <<Hyphen>>
                 \o getFirstContinuousDigits(right, IF right5 < right4 THEN 4 ELSE 5)]

\* Ten digits in a row, if the hyphen was not recognised.
FullCode(text) ==
  LET full == continuousDigitsScore(text, 10)
  IN IF 5 * full > 4 * Whole
     THEN [score |-> full * Whole, code |-> getFirstContinuousDigits(text, 10)]
     ELSE [score |-> 0, code |-> <<>>]

\* A code and its score, in units of 1/(Whole * Whole), of a text without blanks.  at is
\* where its first hyphen stands, or 0.
ScoreAt(text, at, ten) ==
  IF at = 0 THEN FullCode(text)
  ELSE HyphenatedCode(SubSeq(text, 1, at - 1), SubSeq(text, at + 1, Len(text)), ten)

\* The mode is not strict, as the program leaves it, and std_postcode_num is 5.
postcodeStringScore(text, ten) ==
  LET stripped == Without(text, {Space, Newline})
  IN IF Len(text) < 5 THEN [score |-> 0, code |-> <<>>]
     ELSE ScoreAt(stripped, SelectInSeq(stripped, LAMBDA c : c = Hyphen), ten)

\* A code of a standard tag counts from a score of one half.
AcceptedCode(found) == IF 2 * found.score > Whole * Whole THEN found.code ELSE <<>>
formatStdPostcode(text, ten) == AcceptedCode(postcodeStringScore(text, ten))

\* Mutant: a hyphenated code is cut like any other.
ReportedCut(code, ten) == IF code = <<>> THEN code ELSE SubSeq(code, Len(code) - 4, Len(code))

\* Of a code that is not five digits, a hyphen and four (ten characters), only the last
\* five are reported.
Reported(code, ten) ==
  IF code = <<>> \/ (Len(code) = 10 /\ ten /\ Hyphen \in ToSet(code)) THEN code
  ELSE SubSeq(code, Len(code) - 4, Len(code))

\* What the thread of the standard tags makes of a text.
StdTagPostcode(text, ten) == Reported(formatStdPostcode(text, ten), ten)
-----------------------------------------------------------------------------
Separator == {Space, Newline, Point}
\* The other _isdigit: a hyphen is one.
IsDigit(c) == c \in Numeral \cup {Hyphen}

\* What the state machine knows of the word it reads: start says that nothing but digits
\* and hyphens came since the word began, count how many, and code is the last word that
\* was a code.
Word == [count : Nat, start : BOOLEAN, code : Seq(Character)]

\* The word ends before position i of the text.
EndWord(word, text, lengths, i) ==
  [word EXCEPT !.count = 0,
               !.code = IF word.count \in lengths THEN SubSeq(text, i - word.count, i - 1) ELSE @]

\* The loop over the second half of the text.
ScanWords(text, lengths) ==
  LET scan[i \in Nat] ==
        IF i <= Len(text) \div 2 THEN [count |-> 0, start |-> TRUE, code |-> <<>>]
        ELSE LET word == scan[i - 1]
             IN CASE text[i] \in Separator /\ ~word.start -> [word EXCEPT !.start = TRUE]
                  [] text[i] \in Separator /\ word.start -> EndWord(word, text, lengths, i)
                  [] IsDigit(text[i]) /\ word.start -> [word EXCEPT !.count = @ + 1]
                  [] IsDigit(text[i]) /\ ~word.start -> word
                  [] OTHER -> [word EXCEPT !.count = 0, !.start = FALSE]
  IN scan[Len(text)]

\* Mutant: a code that ends with the text is not taken.
CodeBeforeEnd(text, lengths) == ScanWords(text, lengths).code

\* The end of the text ends the last word.
LastCode(text, lengths) ==
  EndWord(ScanWords(text, lengths), text, lengths, Len(text) + 1).code

\* On an arbitrary tag and on a lottery tag.
format_results(text) == LastCode(text, {5, 10})
formatLotteryPostcode(text) == LastCode(text, {5})
=============================================================================
