-------------------------- MODULE MCBridgeSession --------------------------
(***************************************************************************)
(* Values for checking BridgeSession.  Two client slots: one to hold and   *)
(* one to be mistaken for it.  One upstream session at a time is enough,   *)
(* since the bridge sees of them only the health clock.                    *)
(***************************************************************************)
EXTENDS BridgeSession

CONSTANTS k1, k2, p1

TwoClients == {k1, k2}
OnePC == {p1}
=============================================================================
