---------------------------- MODULE MCConnThreads ----------------------------
(***************************************************************************)
(* Instances of ConnThreads for TLC.                                       *)
(***************************************************************************)
EXTENDS ConnThreads, TLC

CONSTANTS c1, c2, t1

\* c1 sends a line and the start of another: the line is a packet of its own, or a
\* newline in the middle that nobody sees, and with Chunk = 2 the buffer then grows.
\* c2 sends one packet, which may arrive in parts and ends with a NUL.
LineAndPacket == c1 :> <<"nl", "data">> @@ c2 :> <<"data", "nul">>

\* One packet per client; c1's outgrows a Chunk of 1.
SmallPackets == c1 :> <<"data", "nul">> @@ c2 :> <<"nl">>

\* c1 sends two packets on one connection.
TwoPackets == c1 :> <<"nl", "nl">> @@ c2 :> <<"nl">>
=============================================================================
