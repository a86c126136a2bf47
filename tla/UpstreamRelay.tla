--------------------------- MODULE UpstreamRelay ---------------------------
(***************************************************************************)
(* The upstream half of the bridge: AgoraToRtspRelay                       *)
(* (src/mammotion_webrtc/aiortc_relay.py).                                 *)
(*                                                                         *)
(* One supervisor task runs cycles: wake the publisher, fetch credentials  *)
(* and the Agora context, open a peer connection (PC), join, wait for the  *)
(* video track, pump until the session dies, tear down, back off.  Beside  *)
(* it run the RTP tap of every PC that has a video track, the no-RTP       *)
(* watchdog of the session being pumped, the detached tasks that send a    *)
(* PLI, and the bridge, which may call stop() at any await.                *)
(*                                                                         *)
(* asyncio switches tasks only at an await, so an action is the code from  *)
(* one await of a task to its next one, and sup names the await at which   *)
(* the supervisor is suspended.  Time passes in whole units by Tick.       *)
(***************************************************************************)
EXTENDS Integers

CONSTANTS
    PCs,            \* peer connections: a slot is used again once closed
    None,           \* Python's None
    Threshold,      \* _healthy_packet_threshold
    NoRtp,          \* no_rtp_watchdog_seconds
    RecoverMax,     \* longest cheap_recovery call a punctual run allows
    RecoveryWait,   \* cheap_recovery_wait_seconds
    HasCheapRecovery, \* a cheap_recovery callback was given
    TrackTimeout,   \* upstream_track_timeout_seconds
    BaseBackoff,    \* reconnect_backoff_seconds
    MaxBackoff,     \* max_reconnect_backoff_seconds
    AgeCap,         \* bound: the two packet clocks stop here
    Punctual        \* timers are served in the unit in which they expire

ASSUME NoneAssumption == None \notin PCs
ASSUME CountAssumption == Threshold \in Nat \ {0} /\ AgeCap \in Nat
ASSUME TimeAssumption ==
    /\ NoRtp \in Nat \ {0} /\ RecoverMax \in Nat /\ RecoveryWait \in Nat
    /\ TrackTimeout \in Nat
    /\ BaseBackoff \in Nat \ {0} /\ MaxBackoff \in Nat /\ BaseBackoff <= MaxBackoff
ASSUME FlagAssumption == HasCheapRecovery \in BOOLEAN /\ Punctual \in BOOLEAN

VARIABLES
    pc,           \* a PC is free (never opened, or closed), open, or tapped
    rx,           \* history: packets this PC has forwarded since it was opened
    upstream,     \* _upstream_pc
    videoReceiver,\* _video_receiver: the PC it belongs to
    videoSsrc,    \* _video_ssrc: the PC whose stream taught it
    cyclePackets, \* _cycle_packets, saturating at Threshold
    rtpAge,       \* now - _last_rtp_ns
    healthyAge,   \* now - _last_healthy_ns
    sup,          \* the await of _supervise
    supTimer,     \* what is left of the supervisor's timed wait
    mine,         \* the local pc of _run_one_upstream, then of the teardown
    healthyCycle, \* healthy_this_cycle
    exiting,      \* the except CancelledError: return of this cycle was taken
    offlineBackoff, \* offline_backoff
    wd,           \* the await of _no_rtp_watchdog
    wdTimer,      \* what is left of the watchdog's sleep
    revived,      \* history: video arrived since its last cheap recovery returned
    connFailed,   \* connection_failed
    pliTask,      \* a detached request_keyframe task has yet to run
    idrAsked,     \* history: a PLI went to this cycle's stream
    stopEvent,    \* _stop_event
    cancelReq,    \* the supervisor's cancellation is requested, not delivered
    stopper       \* progress of stop()

conns  == <<pc, rx>>
fields == <<upstream, videoReceiver, videoSsrc>>
clocks == <<cyclePackets, rtpAge, healthyAge>>
task   == <<sup, supTimer, mine, healthyCycle, exiting, offlineBackoff>>
dog    == <<wd, wdTimer, revived, connFailed>>
pli    == <<pliTask, idrAsked>>
stop   == <<stopEvent, cancelReq, stopper>>
vars   == <<conns, fields, clocks, task, dog, pli, stop>>

MaybePC == PCs \cup {None}

\* Awaits inside _run_one_upstream; the PC exists from "offer" on, and
\* teardown can see it from "join" on.
Running  == {"wake", "creds", "context", "offer", "join", "answer", "track", "pump"}
Joined   == {"join", "answer", "track", "pump"}
Teardown == {"disc", "close"}
Timed    == {"track", "backoff"}

-----------------------------------------------------------------------------
(* The relay's arithmetic and decisions.  A definition whose name starts   *)
(* with Bad is a faulty form of the one after it, used only to show that   *)
(* the properties would notice it.                                         *)

Smaller(a, b) == IF a <= b THEN a ELSE b

PollInterval == IF NoRtp \div 2 >= 1 THEN NoRtp \div 2 ELSE 1

\* One more packet in this cycle.  Only the comparison with Threshold is read.
CountPacket(n) == Smaller(n + 1, Threshold)

\* _last_healthy_ns moves only on a packet of a sustained stream.
BadHealthyAgeAfter(n) == 0
HealthyAgeAfter(n) == IF n >= Threshold THEN 0 ELSE healthyAge

\* The tally a cycle starts from.
BadCountAtTop == cyclePackets
CountAtTop == 0

IsHealthy == cyclePackets >= Threshold

BadDoubled(b) == b * 2
BadConstantRamp(b) == b
Doubled(b) == Smaller(b * 2, MaxBackoff)

\* The two regimes: the pause after a cycle, and the ramp's next value.
BackoffAfter(healthy) == IF healthy THEN BaseBackoff ELSE offlineBackoff
RampAfter(healthy) == IF healthy THEN BaseBackoff ELSE Doubled(offlineBackoff)

\* The PC that teardown takes over from the relay's fields.
BadCaptured == None
Captured == upstream

\* What teardown leaves in the fields it captured from.
BadCleared == upstream
Cleared == None

\* ssrc_just_learned: the packet that asks the publisher for an IDR.
FirstPacket == videoSsrc = None

Stalled == rtpAge >= NoRtp

\* What the look after the cheap recovery sees; the faulty form uses the idle time of
\* the poll again.
BadRestored == FALSE
Restored == ~Stalled

-----------------------------------------------------------------------------
(* State *)

\* start() has created the supervisor task, which has yet to run.
Init ==
    /\ pc = [p \in PCs |-> "free"] /\ rx = [p \in PCs |-> 0]
    /\ upstream = None /\ videoReceiver = None /\ videoSsrc = None
    /\ cyclePackets = 0 /\ rtpAge = 0 /\ healthyAge = 0
    /\ sup = "start" /\ supTimer = 0 /\ mine = None
    /\ healthyCycle = FALSE /\ exiting = FALSE /\ offlineBackoff = BaseBackoff
    /\ wd = "off" /\ wdTimer = 0 /\ revived = FALSE /\ connFailed = FALSE
    /\ pliTask = FALSE /\ idrAsked = FALSE
    /\ stopEvent = FALSE /\ cancelReq = FALSE /\ stopper = "no"

-----------------------------------------------------------------------------
(* Supervisor: one cycle *)

\* An await returns to the supervisor only while no cancellation is on its
\* way: a cancelled task is resumed with CancelledError instead (Cancelled).
At(point) == sup = point /\ ~cancelReq

\* The top of the loop and of _run_one_upstream, up to its first await.  The
\* other way out of the backoff, the stop event, always comes together with a
\* cancellation, which wins (CancelledOutside).
StartCycle ==
    /\ \/ At("start")
       \/ At("backoff") /\ supTimer = 0
    /\ ~stopEvent
    /\ sup' = "wake" /\ mine' = None
    /\ cyclePackets' = CountAtTop /\ healthyCycle' = FALSE
    /\ connFailed' = FALSE /\ idrAsked' = FALSE
    /\ UNCHANGED <<conns, fields, rtpAge, healthyAge, supTimer, exiting,
                   offlineBackoff, wd, wdTimer, revived, pliTask, stop>>

\* publisher_wakeup returned, or raised and was logged.
Woken ==
    /\ At("wake") /\ sup' = "creds"
    /\ UNCHANGED <<conns, fields, clocks, supTimer, mine, healthyCycle, exiting,
                   offlineBackoff, dog, pli, stop>>

CredentialsFetched ==
    /\ At("creds") /\ sup' = "context"
    /\ UNCHANGED <<conns, fields, clocks, supTimer, mine, healthyCycle, exiting,
                   offlineBackoff, dog, pli, stop>>

\* The context arrived; a PC is built and the offer is being made.  Only this
\* coroutine knows the PC yet.
OpenPC(p) ==
    /\ At("context") /\ pc[p] = "free"
    /\ pc' = [pc EXCEPT ![p] = "open"] /\ rx' = [rx EXCEPT ![p] = 0]
    /\ sup' = "offer" /\ mine' = p
    /\ UNCHANGED <<fields, clocks, supTimer, healthyCycle, exiting,
                   offlineBackoff, dog, pli, stop>>

\* The offer is set; the PC and the handler become visible to teardown.
OfferReady ==
    /\ At("offer") /\ sup' = "join" /\ upstream' = mine
    /\ UNCHANGED <<conns, videoReceiver, videoSsrc, clocks, supTimer, mine,
                   healthyCycle, exiting, offlineBackoff, dog, pli, stop>>

AnswerReceived ==
    /\ At("join") /\ sup' = "answer"
    /\ UNCHANGED <<conns, fields, clocks, supTimer, mine, healthyCycle, exiting,
                   offlineBackoff, dog, pli, stop>>

RemoteDescriptionSet ==
    /\ At("answer") /\ sup' = "track" /\ supTimer' = TrackTimeout
    /\ UNCHANGED <<conns, fields, clocks, mine, healthyCycle, exiting,
                   offlineBackoff, dog, pli, stop>>

\* _on_track of the first video track, with _install_rtp_tap.
TrackEvent ==
    /\ At("answer") \/ At("track")
    /\ pc[mine] = "open"
    /\ pc' = [pc EXCEPT ![mine] = "tapped"] /\ videoReceiver' = mine
    /\ UNCHANGED <<rx, upstream, videoSsrc, clocks, task, dog, pli, stop>>

\* The track is there: the packet clock and the watchdog start.
StartPump ==
    /\ At("track") /\ pc[mine] = "tapped"
    /\ sup' = "pump" /\ rtpAge' = 0
    /\ wd' = "sleep" /\ wdTimer' = PollInterval
    /\ UNCHANGED <<conns, fields, cyclePackets, healthyAge, supTimer, mine,
                   healthyCycle, exiting, offlineBackoff, revived, connFailed, pli, stop>>

\* The connection state became failed, closed or disconnected.
ConnectionLost ==
    /\ sup \in {"answer", "track", "pump"} /\ ~connFailed
    /\ connFailed' = TRUE
    /\ UNCHANGED <<conns, fields, clocks, task, wd, wdTimer, revived, pli, stop>>
-----------------------------------------------------------------------------
(* Supervisor: the end of a cycle *)

\* The loop after teardown: the ramp moves, then the stop event is looked at.
\* healthy is healthy_this_cycle; leaving is a return already under way.
AfterTeardown(healthy, leaving) ==
    IF leaving
    THEN /\ sup' = "done"
         /\ UNCHANGED <<supTimer, offlineBackoff>>
    ELSE /\ offlineBackoff' = RampAfter(healthy)
         /\ supTimer' = BackoffAfter(healthy)
         /\ sup' = IF stopEvent THEN "done" ELSE "backoff"

\* The finally block up to its first await: classify the cycle, then clear
\* the fields and take over the PC they named.  The watchdog is cancelled.
BeginTeardown(leaving) ==
    /\ healthyCycle' = IsHealthy /\ exiting' = leaving
    /\ mine' = Captured
    /\ upstream' = Cleared /\ videoReceiver' = Cleared /\ videoSsrc' = Cleared
    /\ wd' = "off" /\ wdTimer' = 0 /\ revived' = FALSE
    /\ IF Captured # None
       THEN sup' = "disc" /\ UNCHANGED <<supTimer, offlineBackoff>>
       ELSE AfterTeardown(IsHealthy, leaving)
    /\ UNCHANGED <<conns, clocks, connFailed, pli>>

\* A step of the cycle raised: the context or the credentials could not be
\* fetched, the join was refused or had no answer, the answer was rejected.
StepFailed ==
    /\ \E point \in {"creds", "context", "join", "answer"} : At(point)
    /\ BeginTeardown(FALSE) /\ UNCHANGED stop

\* Making the offer raised: nothing refers to the PC any more.  Bound: only
\* while another slot is left, so that the supervisor can go on.
OfferFailed ==
    /\ At("offer") /\ \E q \in PCs : pc[q] = "free"
    /\ BeginTeardown(FALSE) /\ UNCHANGED stop

TrackTimedOut ==
    /\ At("track") /\ supTimer = 0 /\ pc[mine] # "tapped"
    /\ BeginTeardown(FALSE) /\ UNCHANGED stop

\* asyncio.wait returned: the connection failed or stop was asked for.
PumpEnded ==
    /\ At("pump") /\ (connFailed \/ stopEvent)
    /\ BeginTeardown(FALSE) /\ UNCHANGED stop

\* handler.disconnect() returned or raised; pc.close() starts.  Before its
\* first await it takes the video receiver off the transport, tap and all.
Disconnected ==
    /\ At("disc") /\ sup' = "close" /\ pc' = [pc EXCEPT ![mine] = "open"]
    /\ UNCHANGED <<rx, fields, clocks, supTimer, mine, healthyCycle, exiting,
                   offlineBackoff, dog, pli, stop>>

\* pc.close() is over.
Closed ==
    /\ At("close")
    /\ pc' = [pc EXCEPT ![mine] = "free"] /\ mine' = None
    /\ AfterTeardown(healthyCycle, exiting)
    /\ UNCHANGED <<rx, fields, clocks, healthyCycle, exiting, dog, pli, stop>>

-----------------------------------------------------------------------------
(* stop() *)

BadStopSignals == UNCHANGED <<stopEvent, cancelReq>>
BadNoCancel == stopEvent' = TRUE /\ UNCHANGED cancelReq
StopSignals == stopEvent' = TRUE /\ cancelReq' = TRUE

\* stop() sets the event, cancels the supervisor and waits for it.
Stop ==
    /\ stopper = "no" /\ stopper' = "joining" /\ StopSignals
    /\ UNCHANGED <<conns, fields, clocks, task, dog, pli>>

\* CancelledError reaches the supervisor inside _run_one_upstream.
CancelledInCycle ==
    /\ cancelReq /\ sup \in Running
    /\ cancelReq' = FALSE /\ BeginTeardown(TRUE)
    /\ UNCHANGED <<stopEvent, stopper>>

\* CancelledError reaches the supervisor outside it: before its first step,
\* in the backoff, or inside teardown, whose handlers catch only Exception.
CancelledOutside ==
    /\ cancelReq /\ sup \in {"start", "backoff"} \cup Teardown
    /\ cancelReq' = FALSE /\ sup' = "done"
    /\ UNCHANGED <<conns, fields, clocks, supTimer, mine, healthyCycle, exiting,
                   offlineBackoff, dog, pli, stopEvent, stopper>>

\* stop() has awaited the supervisor and runs the teardown once more itself.
StopReturns ==
    /\ stopper = "joining" /\ sup = "done" /\ stopper' = "stopped"
    /\ pc' = IF upstream = None THEN pc ELSE [pc EXCEPT ![upstream] = "free"]
    /\ upstream' = None /\ videoReceiver' = None /\ videoSsrc' = None
    /\ UNCHANGED <<rx, clocks, task, dog, pli, stopEvent, cancelReq>>

-----------------------------------------------------------------------------
(* RTP tap and keyframe requests *)

\* An H265 packet reaches the tap of p.  Padding has no payload: it teaches
\* the SSRC without counting as video.
Tap(p, hasPayload) ==
    /\ pc[p] = "tapped"
    /\ videoSsrc' = IF videoSsrc = None THEN p ELSE videoSsrc
    /\ pliTask' = (pliTask \/ FirstPacket)
    /\ IF hasPayload
       THEN /\ cyclePackets' = CountPacket(cyclePackets) /\ rtpAge' = 0
            /\ healthyAge' = HealthyAgeAfter(cyclePackets')
            /\ rx' = [rx EXCEPT ![p] = CountPacket(@)]
            /\ revived' = (wd = "wait")
       ELSE UNCHANGED <<clocks, rx, revived>>
    /\ UNCHANGED <<pc, upstream, videoReceiver, task, wd, wdTimer, connFailed,
                   idrAsked, stop>>

\* The RTSP server asks for a keyframe for a new viewer.
ViewerJoins ==
    /\ ~pliTask /\ pliTask' = TRUE
    /\ UNCHANGED <<conns, fields, clocks, task, dog, idrAsked, stop>>

\* request_keyframe runs.  A PLI that names another session's SSRC is not
\* answered by this one's publisher.
RequestKeyframe ==
    /\ pliTask /\ pliTask' = FALSE
    /\ idrAsked' = (idrAsked \/ (videoReceiver # None /\ videoSsrc = videoReceiver))
    /\ UNCHANGED <<conns, fields, clocks, task, dog, stop>>

-----------------------------------------------------------------------------
(* No-RTP watchdog *)

\* The watchdog's verdict, its last step.
BadEscalate == wd' = "sleep" /\ wdTimer' = PollInterval /\ UNCHANGED connFailed
Escalate == wd' = "fired" /\ wdTimer' = 0 /\ connFailed' = TRUE

Resleep == wd' = "sleep" /\ wdTimer' = PollInterval /\ UNCHANGED connFailed

\* The poll.  tried_cheap_recovery is always False at the top of the loop:
\* both ways back to it reset the flag.
Polled ==
    /\ wd = "sleep" /\ wdTimer = 0
    /\ \/ ~Stalled /\ Resleep
       \/ /\ Stalled /\ HasCheapRecovery
          /\ wd' = "recover" /\ wdTimer' = RecoverMax /\ UNCHANGED connFailed
       \/ Stalled /\ ~HasCheapRecovery /\ Escalate
    /\ UNCHANGED <<conns, fields, clocks, task, revived, pli, stop>>

\* cheap_recovery returned, or raised and was logged.
Recovered ==
    /\ wd = "recover" /\ wd' = "wait" /\ wdTimer' = RecoveryWait
    /\ revived' = FALSE
    /\ UNCHANGED <<conns, fields, clocks, task, connFailed, pli, stop>>

\* The look after cheap_recovery_wait_seconds.
Rechecked ==
    /\ wd = "wait" /\ wdTimer = 0
    /\ \/ Restored /\ Resleep
       \/ ~Restored /\ Escalate
    /\ revived' = FALSE
    /\ UNCHANGED <<conns, fields, clocks, task, pli, stop>>

-----------------------------------------------------------------------------
(* Time *)

\* Something is due in the present unit.
Due ==
    \/ sup \in Timed /\ supTimer = 0
    \/ sup = "pump" /\ connFailed
    \/ wd \in {"sleep", "recover", "wait"} /\ wdTimer = 0

Less(n) == IF n = 0 THEN 0 ELSE n - 1

Tick ==
    /\ Punctual => ~Due
    /\ rtpAge' = Smaller(rtpAge + 1, AgeCap)
    /\ healthyAge' = Smaller(healthyAge + 1, AgeCap)
    /\ supTimer' = (IF sup \in Timed THEN Less(supTimer) ELSE supTimer)
    /\ wdTimer' = Less(wdTimer)
    /\ UNCHANGED <<conns, fields, cyclePackets, sup, mine, healthyCycle, exiting,
                   offlineBackoff, wd, revived, connFailed, pli, stop>>

-----------------------------------------------------------------------------
Cycle ==
    \/ StartCycle \/ Woken \/ CredentialsFetched \/ (\E p \in PCs : OpenPC(p))
    \/ OfferReady \/ AnswerReceived \/ RemoteDescriptionSet \/ StartPump
CycleEnd ==
    \/ StepFailed \/ OfferFailed \/ TrackTimedOut \/ PumpEnded
    \/ Disconnected \/ Closed
Cancelled == CancelledInCycle \/ CancelledOutside
Watchdog == Polled \/ Recovered \/ Rechecked
Network ==
    \/ TrackEvent \/ ConnectionLost \/ ViewerJoins
    \/ \E p \in PCs, hasPayload \in BOOLEAN : Tap(p, hasPayload)

Next ==
    \/ Cycle \/ CycleEnd \/ Cancelled \/ Stop \/ StopReturns
    \/ Watchdog \/ Network \/ RequestKeyframe \/ Tick

Spec == Init /\ [][Next]_vars

\* Every await the supervisor and the watchdog make returns in the end (the
\* HTTP and signaling calls have timeouts, sleeps expire), and the event loop
\* runs what is ready.  Nothing is assumed of the publisher or of viewers.
Fairness ==
    /\ WF_vars(Cycle \/ CycleEnd) /\ WF_vars(Cancelled) /\ WF_vars(StopReturns)
    /\ WF_vars(Watchdog) /\ WF_vars(Tick)

FairSpec == Spec /\ Fairness

-----------------------------------------------------------------------------
(* Properties *)

ConnsOK ==
    pc \in [PCs -> {"free", "open", "tapped"}] /\ rx \in [PCs -> 0 .. Threshold]
FieldsOK == upstream \in MaybePC /\ videoReceiver \in MaybePC /\ videoSsrc \in MaybePC
ClocksOK ==
    cyclePackets \in 0 .. Threshold /\ rtpAge \in 0 .. AgeCap /\ healthyAge \in 0 .. AgeCap
TaskOK ==
    /\ sup \in {"start", "backoff", "done"} \cup Running \cup Teardown
    /\ supTimer \in Nat /\ mine \in MaybePC
    /\ healthyCycle \in BOOLEAN /\ exiting \in BOOLEAN
    /\ offlineBackoff \in BaseBackoff .. MaxBackoff
DogOK ==
    /\ wd \in {"off", "sleep", "recover", "wait", "fired"} /\ wdTimer \in Nat
    /\ revived \in BOOLEAN /\ connFailed \in BOOLEAN
FlagsOK ==
    /\ pliTask \in BOOLEAN /\ idrAsked \in BOOLEAN
    /\ stopEvent \in BOOLEAN /\ cancelReq \in BOOLEAN
    /\ stopper \in {"no", "joining", "stopped"}

\* Every variable keeps its kind; the tally and the ramp stay inside their
\* bounds (aiortc_relay.py:313-315, 546).
TypeOK == ConnsOK /\ FieldsOK /\ ClocksOK /\ TaskOK /\ DogOK /\ FlagsOK

Feeding == {p \in PCs : pc[p] = "tapped"}

\* Reconnecting never leaves an old session's tap feeding the RTSP server next
\* to the new one: two taps would interleave two RTP streams in one payloader
\* (teardown, aiortc_relay.py:584-601, against the next cycle's 350-368).
SingleFeeder == \A p, q \in Feeding : p = q

\* When stop() runs its own teardown there is nothing left for it to do: the
\* supervisor's finally block has always taken the fields over first, whatever
\* await the cancellation hit (aiortc_relay.py:184-194, 286-298).
StopFindsNothing == sup = "done" => upstream = None /\ videoReceiver = None

\* The offline ramp falls back to its base only at the end of a cycle whose own
\* PC delivered a sustained stream; packets of an earlier cycle never count
\* (aiortc_relay.py:295-315, 336-339).
RampResetsOnlyAfterRealStream ==
    [][offlineBackoff' < offlineBackoff => mine # None /\ rx[mine] = Threshold]_vars

\* After stop() the supervisor starts no further work towards the cloud: from
\* whatever await it is in, it only tears down and ends
\* (aiortc_relay.py:181-185, 282-283, 324-329).
StopStartsNothing ==
    [][stopEvent /\ sup' # sup => sup' \in Teardown \cup {"done"}]_vars

\* A stream that comes back while the watchdog waits after the cheap recovery is not
\* torn down, however early in the wait its packet came and though none follows it.
\* That takes timers served on time and a wait shorter than the window: a packet is
\* then never NoRtp old when the wait ends (aiortc_relay.py:439-465).
RevivedStreamIsSpared ==
    [][wd = "wait" /\ wd' = "fired" /\ Punctual /\ RecoveryWait < NoRtp => ~revived]_vars

\* With timers served on time, a session that is being pumped is never silent
\* longer than the watchdog's window, one poll, and the cheap recovery with its
\* wait (aiortc_relay.py:424-477).
SilenceBounded ==
    sup = "pump" =>
        rtpAge < NoRtp + PollInterval
                 + (IF HasCheapRecovery THEN RecoverMax + RecoveryWait ELSE 0)

\* stop() returns (aiortc_relay.py:181-194).
StopCompletes == stopEvent \/ stopper = "joining" ~> stopper = "stopped"

\* A mower that stays offline, or joins and quits in a loop, is tried at the
\* longest backoff in the end (aiortc_relay.py:308-315).
ChurnReachesMaxBackoff ==
    []<>(sup = "backoff") /\ <>[]~healthyCycle => <>[](offlineBackoff = MaxBackoff)

\* The relay keeps its promise to the RTSP server and the bridge.
Contract ==
    INSTANCE RelayContract WITH feeding <- Feeding, burst <- cyclePackets,
                                gone <- (sup = "done")
ImplementsContract == Contract!Spec

\* What aiortc_relay.py:24 and CHANGELOG.md (0.1.10) say of stop(): the PC is
\* torn down when it returns.
NothingOpenAfterStop == stopper = "stopped" => \A p \in PCs : pc[p] = "free"

\* What aiortc_relay.py:97-98 and 562-568 say: the first packet of a session
\* has its SSRC learned and an IDR asked for.
StreamIsAskedForIdr ==
    sup = "pump" /\ mine # None /\ rx[mine] > 0 => pliTask \/ idrAsked
=============================================================================
