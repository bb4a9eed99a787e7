---------------------------- MODULE MCThreading ----------------------------
(***************************************************************************)
(* An instance of Threading for TLC.                                       *)
(***************************************************************************)
EXTENDS Threading

CONSTANTS t1, t2, t3
=============================================================================
