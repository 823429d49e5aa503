----------------------------- MODULE MCMPFComm -----------------------------
(* MPFComm on a small instance: digits of one bit, messages of three bytes. *)
EXTENDS MPFComm

FourContents == <<<<1, 2>>, <<1, 3>>, <<0, 2>>, <<0, 3>>>>
=============================================================================
