\* Base 3: nine byte values, six digits to a message of two bytes and its checksum.
\* Five pieces: two codes with a hyphen, a blank and another character anywhere.
\* Four boxes: chains of overlaps, three boxes of a class and one of another.
SPECIFICATION Spec
CONSTANTS
  Base = 3
  MaxContent = 3
  MaxPieces = 5
  MaxBoxes = 4
  Place = {0, 1, 2, 3}
  Class = {1, 2}
  Overlaps <- Neighbours
INVARIANTS TypeOK RoundTrip WrongDigitRefused StdCodeWasRead LastWordIsCode OneBoxPerTag
CHECK_DEADLOCK FALSE
