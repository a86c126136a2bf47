----------------------------- MODULE MCRtpPacer -----------------------------
(***************************************************************************)
(* Values for checking the pacer alone: one session whose media clock      *)
(* starts close to the wrap.                                               *)
(***************************************************************************)
EXTENDS RtpPacer

NearWrap == {28}
=============================================================================
