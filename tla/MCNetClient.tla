---------------------------- MODULE MCNetClient -----------------------------
(* NetClient on small instances. *)
EXTENDS NetClient

\* Messages of one and two bytes. At base 2, 3 + 1 is a full turn of the checksum.
OneByte == {<<1>>, <<2>>}
Lengths == {<<1>>, <<2, 3>>}
NoContents == {}
=============================================================================
