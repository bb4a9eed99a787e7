------------------------ MODULE MCResourceCollector ------------------------
(***************************************************************************)
(* An instance of ResourceCollector for TLC.                               *)
(***************************************************************************)
EXTENDS ResourceCollector

CONSTANTS p1, p2, p3, p4
=============================================================================
