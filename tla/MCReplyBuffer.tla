--------------------------- MODULE MCReplyBuffer ---------------------------
(***************************************************************************)
(* An instance of ReplyBuffer for TLC: ints of 5 bits.                     *)
(***************************************************************************)
EXTENDS ReplyBuffer
=============================================================================
