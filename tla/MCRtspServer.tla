--------------------------- MODULE MCRtspServer ---------------------------
(***************************************************************************)
(* Values for checking RtspServer: two connections show that sessions do   *)
(* not disturb each other, and a queue of one or two frames overflows.     *)
(***************************************************************************)
EXTENDS RtspServer

CONSTANTS c1, c2

OneClient == {c1}
TwoClients == {c1, c2}
=============================================================================
