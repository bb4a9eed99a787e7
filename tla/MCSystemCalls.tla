--------------------------- MODULE MCSystemCalls ---------------------------
(***************************************************************************)
(* Instances of SystemCalls for TLC.                                       *)
(***************************************************************************)
EXTENDS SystemCalls
=============================================================================
