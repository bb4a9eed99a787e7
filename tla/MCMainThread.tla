---------------------------- MODULE MCMainThread ----------------------------
(***************************************************************************)
(* Instances of MainThread for TLC.                                        *)
(***************************************************************************)
EXTENDS MainThread

CONSTANTS c1, c2, c3, a1, a2, a3
=============================================================================
