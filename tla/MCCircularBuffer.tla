-------------------------- MODULE MCCircularBuffer --------------------------
(***************************************************************************)
(* Instances of CircularBuffer for TLC.                                    *)
(***************************************************************************)
EXTENDS CircularBuffer

CONSTANTS p1, p2
=============================================================================
