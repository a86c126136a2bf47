-------------------------- MODULE MCUpstreamRelay --------------------------
(***************************************************************************)
(* Values for checking UpstreamRelay.  Two slots are enough: the relay has *)
(* at most one PC it uses and one that lingers, and a slot whose PC was    *)
(* closed is used again.                                                   *)
(***************************************************************************)
EXTENDS UpstreamRelay

CONSTANTS p1, p2

TwoPCs == {p1, p2}
=============================================================================
