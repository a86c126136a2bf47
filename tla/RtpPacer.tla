----------------------------- MODULE RtpPacer -----------------------------
(***************************************************************************)
(* When a session's writer sends a frame: _writer_loop with                *)
(* _compute_pacer_target_ns (src/mammotion_webrtc/rtsp_server.py).         *)
(*                                                                         *)
(* The publisher captures one frame per unit of time and stamps it with    *)
(* its media clock; the frames reach the session's queue in order, each    *)
(* at most Jitter units late.  The writer takes one frame after the other, *)
(* sleeps until the frame's target and sends it.  The event loop serves    *)
(* everything in the unit in which it is due.  A definition whose name     *)
(* starts with Bad is a faulty form of the next and is used by no other.   *)
(***************************************************************************)
EXTENDS Integers, Sequences

CONSTANTS
    TsMod,      \* 2^32: RTP timestamps are taken modulo this
    Delay,      \* _PACER_INITIAL_DELAY_NS
    Reanchor,   \* _PACER_REANCHOR_THRESHOLD_TS
    MaxSleep,   \* _PACER_MAX_SLEEP_NS
    Jitter,     \* bound: how late a frame reaches the queue
    Bases,      \* media clock offsets an upstream session may start with
    Restarts,   \* bound: upstream sessions after the first
    Horizon,    \* bound: time stops here
    None        \* Python's None

ASSUME PacerAssumption ==
    /\ TsMod \in Nat \ {0} /\ TsMod % 2 = 0 /\ Reanchor \in Nat /\ Reanchor < TsMod \div 2
    /\ Delay \in Nat /\ MaxSleep \in Nat \ {0} /\ Delay <= MaxSleep
    /\ Jitter \in Nat /\ Restarts \in Nat /\ Horizon \in Nat
    /\ Bases \subseteq 0 .. TsMod - 1 /\ Bases # {} /\ None \notin Int
    /\ None \notin [frame : Nat, session : Nat, ts : Nat]
    /\ None \notin [frame : Nat, session : Nat, at : Nat]

VARIABLES
    now,         \* the monotonic clock, in units of one frame
    base,        \* media clock offset of the present upstream session
    session,     \* number of the present upstream session
    arrived,     \* frames that have reached the queue; frame k is captured at k
    queue,       \* frames waiting for the writer
    anchorTs,    \* _paced_anchor_rtp_ts
    anchorWall,  \* _paced_anchor_wall_ns
    anchorFrame, \* history: the frame that anchored
    inHand,      \* the frame the writer sleeps for, or None
    wake,        \* when that sleep ends
    sentAt       \* history: the frame sent last, and when

vars == <<now, base, session, arrived, queue, anchorTs, anchorWall, anchorFrame,
          inHand, wake, sentAt>>

-----------------------------------------------------------------------------
(* _compute_pacer_target_ns *)

\* The signed 32-bit difference of two timestamps.
BadSignedDelta(a, b) == a - b
SignedDelta(a, b) ==
    LET d == (a - b) % TsMod IN IF d > TsMod \div 2 THEN d - TsMod ELSE d

Magnitude(d) == IF d < 0 THEN -d ELSE d

\* The frame becomes the anchor: there is none yet, or it is too far from it.
BadAnchors(ts) == anchorTs = None \/ SignedDelta(ts, anchorTs) < -Reanchor
Anchors(ts) ==
    anchorTs = None \/ Magnitude(SignedDelta(ts, anchorTs)) > Reanchor

Target(ts) ==
    IF Anchors(ts) THEN now + Delay
    ELSE anchorWall + Delay + SignedDelta(ts, anchorTs)

\* A single sleep is capped; a target in the past means no sleep.
BadWakeAt(target) == IF target < now THEN now ELSE target
WakeAt(target) ==
    IF target - now > MaxSleep THEN now + MaxSleep
    ELSE IF target < now THEN now ELSE target

-----------------------------------------------------------------------------
Init ==
    /\ now = 0 /\ base \in Bases /\ session = 0 /\ arrived = 0 /\ queue = <<>>
    /\ anchorTs = None /\ anchorWall = None /\ anchorFrame = None
    /\ inHand = None /\ wake = 0 /\ sentAt = None

\* The next frame reaches the queue (push_rtp, queue_frame).
Arrive ==
    /\ arrived < now /\ arrived' = arrived + 1
    /\ queue' = Append(queue, [frame |-> arrived', session |-> session,
                               ts |-> (base + arrived') % TsMod])
    /\ UNCHANGED <<now, base, session, anchorTs, anchorWall, anchorFrame, inHand,
                   wake, sentAt>>

\* The relay reconnected: from here on frames carry another session's clock.
Restart ==
    /\ session < Restarts /\ session' = session + 1 /\ base' \in Bases
    /\ UNCHANGED <<now, arrived, queue, anchorTs, anchorWall, anchorFrame, inHand,
                   wake, sentAt>>

\* The writer takes a frame and works out how long to sleep for it.
Take ==
    /\ inHand = None /\ queue # <<>>
    /\ inHand' = Head(queue) /\ queue' = Tail(queue)
    /\ wake' = WakeAt(Target(Head(queue).ts))
    /\ IF Anchors(Head(queue).ts)
       THEN /\ anchorTs' = Head(queue).ts /\ anchorWall' = now
            /\ anchorFrame' = Head(queue)
       ELSE UNCHANGED <<anchorTs, anchorWall, anchorFrame>>
    /\ UNCHANGED <<now, base, session, arrived, sentAt>>

\* The sleep is over: the frame is written.
Send ==
    /\ inHand # None /\ wake <= now
    /\ sentAt' = [frame |-> inHand.frame, session |-> inHand.session, at |-> now]
    /\ inHand' = None
    /\ UNCHANGED <<now, base, session, arrived, queue, anchorTs, anchorWall,
                   anchorFrame, wake>>

\* Time passes once nothing is due: no frame is overdue and the writer sleeps or
\* has nothing to do.
Tick ==
    /\ now < Horizon /\ now < arrived + 1 + Jitter
    /\ IF inHand = None THEN queue = <<>> ELSE wake > now
    /\ now' = now + 1
    /\ UNCHANGED <<base, session, arrived, queue, anchorTs, anchorWall, anchorFrame,
                   inHand, wake, sentAt>>

Next == Arrive \/ Restart \/ Take \/ Send \/ Tick

Spec == Init /\ [][Next]_vars

-----------------------------------------------------------------------------
(* Properties *)

Frame == [frame : 1 .. Horizon, session : 0 .. Restarts, ts : 0 .. TsMod - 1]

\* Every variable keeps its kind, and the writer is never asked to sleep longer
\* than one capped sleep (rtsp_server.py:399-402, 448-483).
TypeOK ==
    /\ now \in 0 .. Horizon /\ base \in Bases /\ session \in 0 .. Restarts
    /\ arrived \in 0 .. Horizon /\ queue \in Seq(Frame)
    /\ anchorTs \in 0 .. TsMod - 1 \cup {None}
    /\ anchorWall \in 0 .. Horizon \cup {None} /\ anchorFrame \in Frame \cup {None}
    /\ inHand \in Frame \cup {None} /\ wake \in 0 .. now + MaxSleep
    /\ sentAt \in [frame : 1 .. Horizon, session : 0 .. Restarts, at : 0 .. Horizon] \cup {None}

\* As long as an anchor holds, its session's frames leave at a constant distance
\* from their capture, however unevenly they came, and within a session it holds for
\* Reanchor units, also when the timestamps wrap (rtsp_server.py:71-76, 393-402,
\* 463-483).
SteadyPlayout ==
    /\ [][sentAt' # sentAt /\ sentAt'.session = anchorFrame.session =>
             now = anchorWall + Delay + (sentAt'.frame - anchorFrame.frame)]_vars
    /\ [][anchorFrame' # anchorFrame /\ anchorFrame # None =>
             \/ anchorFrame'.session # anchorFrame.session
             \/ anchorFrame'.frame - anchorFrame.frame > Reanchor]_vars

\* Live stays live: whatever the timestamps do, a frame is older when it leaves than
\* the jitter by no more than one Delay for each time the anchor had to move, which
\* one session needs once in Reanchor units and a restart once more, and by the largest
\* forward jump a restart can make without moving it (rtsp_server.py:71-89, 399-402,
\* 463-483).
LatencyBounded ==
    sentAt # None =>
        sentAt.at - sentAt.frame <=
            Jitter + Delay * (1 + sentAt.frame \div (Reanchor + 1))
            + (Reanchor + Delay) * sentAt.session

\* The pacer holds ~200 ms of headroom "without making the live view feel laggy"
\* (rtsp_server.py:71-76), and re-anchors for an upstream restart or a timestamp
\* wraparound (79-83): without either, no frame is older than that plus the jitter.
HeadroomIsInitialDelay ==
    sentAt # None => sentAt.at <= sentAt.frame + Delay + Jitter
=============================================================================
