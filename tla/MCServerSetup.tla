---------------------------- MODULE MCServerSetup ----------------------------
(***************************************************************************)
(* An instance of ServerSetup for TLC.                                     *)
(***************************************************************************)
EXTENDS ServerSetup
=============================================================================
