------------------------- MODULE MCGo2RtcRegistrar -------------------------
(***************************************************************************)
(* Values for checking Go2RtcRegistrar: the plain RTSP URL the bridge       *)
(* registers, and the signed HTTP-backed form the registrar was written    *)
(* for, which go2rtc lists in another form than it was given.              *)
(***************************************************************************)
EXTENDS Go2RtcRegistrar

Rtsp == [wrapper |-> "none", http |-> FALSE, path |-> "ours", authSig |-> FALSE,
         slash |-> FALSE]
Whep == [wrapper |-> "webrtc", http |-> TRUE, path |-> "ours", authSig |-> TRUE,
         slash |-> FALSE]
RtspAndWhep == {Rtsp, Whep}
SomebodyElses == [Rtsp EXCEPT !.path = "other", !.slash = TRUE]
\* Versions that take one writing request only, some, and all.
FewVersions ==
    {{"post", "deleteDst"}, {"put", "patchDst", "deleteName"}, {"patchName"}, {"patchDst"},
     Requests}
=============================================================================
