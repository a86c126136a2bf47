--------------------------- MODULE RelayContract ---------------------------
(***************************************************************************)
(* What the relay promises to the RTSP server and to the bridge            *)
(* (src/mammotion_webrtc/aiortc_relay.py), without its tasks and awaits:   *)
(*                                                                         *)
(*  - packets come from one upstream session at a time, and none is added  *)
(*    once the supervisor is gone;                                         *)
(*  - the health clock, from which the bridge decides to restart the       *)
(*    process, goes back to zero only when the one session that is feeding *)
(*    has itself delivered Threshold packets.                              *)
(***************************************************************************)
EXTENDS Integers

CONSTANTS PCs, Threshold, AgeCap

VARIABLES
    feeding,     \* the sessions whose packets reach the RTSP server
    burst,       \* packets of the present cycle, saturating at Threshold
    healthyAge,  \* time since the last packet of a sustained stream
    gone         \* the supervisor has ended

vars == <<feeding, burst, healthyAge, gone>>

Init == feeding = {} /\ burst = 0 /\ healthyAge = 0 /\ gone = FALSE

\* A new cycle counts from zero, and nothing feeds it yet.
Rearm ==
    /\ ~gone /\ feeding = {} /\ burst' = 0
    /\ UNCHANGED <<feeding, healthyAge, gone>>

Attach(p) ==
    /\ ~gone /\ feeding = {} /\ burst = 0 /\ feeding' = {p}
    /\ UNCHANGED <<burst, healthyAge, gone>>

\* A packet of the session that feeds.
Deliver ==
    /\ feeding # {}
    /\ burst' = IF burst < Threshold THEN burst + 1 ELSE burst
    /\ healthyAge' = IF burst' = Threshold THEN 0 ELSE healthyAge
    /\ UNCHANGED <<feeding, gone>>

Detach ==
    /\ ~gone /\ feeding' = {} /\ UNCHANGED <<burst, healthyAge, gone>>

\* The supervisor ends.  The session it leaves may or may not be cut off.
Leave ==
    /\ ~gone /\ gone' = TRUE /\ feeding' \in {feeding, {}}
    /\ UNCHANGED <<burst, healthyAge>>

Age ==
    /\ healthyAge < AgeCap /\ healthyAge' = healthyAge + 1
    /\ UNCHANGED <<feeding, burst, gone>>

Next ==
    \/ Rearm \/ (\E p \in PCs : Attach(p)) \/ Deliver \/ Detach \/ Leave \/ Age

Spec == Init /\ [][Next]_vars
=============================================================================
