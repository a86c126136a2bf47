# TLA+ models of the Mammotion RTSP bridge

The bridge logs in to the Mammotion cloud, joins the mower's Agora channel as a
viewer, taps the H.265 RTP packets of its WebRTC connection and serves them over
a small RTSP server that go2rtc or Frigate reads. It is one Python process with
one asyncio event loop. This directory holds TLA+ modules of its tasks, the TLC
configurations that check them on small instances, and proofs, checked by TLAPS,
of what holds for every value of the constants.

Line numbers refer to `src/`. Short names: *relay* = `mammotion_webrtc/aiortc_relay.py`,
*server* = `mammotion_webrtc/rtsp_server.py`, *edge* = `mammotion_webrtc/agora_edge.py`,
*bridge* = `mammotion_webrtc_bridge.py`, *registrar* = `mammotion_webrtc/go2rtc_register.py`.

## 1. Inventory

| component | state it keeps | operations | talks to |
|---|---|---|---|
| Bridge session (bridge 254-718) | cloud client, cached credentials with two debounce clocks, go2rtc and keepalive timers, stop event | login, first fetch, start, loop (dryness, re-login, reconcile, keepalive), finally block, restart; callbacks `credentials_provider`, `wake_publisher`, `_refresh_stream_subscription` | owns relay and server; polls the relay's health clock; is called back by the relay's supervisor |
| Upstream relay (relay 62-601) | current PC, receiver, learned SSRC, packet tally of the cycle, last-RTP and last-healthy clocks, backoff ramp | supervisor cycle, RTP tap, PLI tasks, no-RTP watchdog, teardown, `stop()` | calls the bridge for credentials, signaling for the answer, the server for every packet |
| Agora signaling (edge 573-1242, 1828-1870) | websocket, video streams, subscribed pairs, pending answer, three background tasks | `connect_and_join` with gateway failover, message handlers, message/ping/subscribe-retry loops, `disconnect()` | created and disconnected by the relay for every cycle |
| RTSP server (server 287-446, 511-823) | session table, sessions (queue, writer, closed flag), parameter sets | accept, requests, `push_rtp`, writer, `close()`, `stop()` | fed by the relay; asks it for keyframes; stopped by the bridge |
| RTP pacer (server 384-483) | anchor (timestamp, wall clock) of one session | anchor, re-anchor, target, capped sleep | part of each session's writer |
| RTSP data path (server 101-283, 829-890) | latest VPS/SPS/PPS and the event that all are there | NAL scan, update, packet, SR and SDP text | run by `push_rtp` for every packet, read by DESCRIBE |
| SDP offer/answer (`sdp.py`, edge 1244-1826) | none | parse an offer, build join message and answer | functions signaling calls when it joins and when it answers |
| Agora API client (edge 149-538, `agora_session.py`) | HTTP session | `choose_server` over a ladder of domains, response parsing | called once per cycle by the relay; its addresses are the gateways signaling tries |
| go2rtc registrar (`go2rtc_register.py`) | HTTP session | `ensure_stream` ladder, `remove_stream` | called by the bridge's loop; talks to go2rtc over HTTP |
| H.265 patch (`h265_patch.py`) | a flag | patch aiortc's tables once | at import |

What is hard here:

* **Cancellation and teardown.** `relay.stop()` may cancel the supervisor in any
  await, the ones of teardown included; `close()` and `disconnect()` are run by
  several tasks over the same fields.
* **Callbacks between awaits.** The tap of an old PC runs while teardown awaits;
  the main task replaces the cloud client while the supervisor is in a call on it.
* **Clocks that decide.** Backoff ramp, watchdog, dryness restart, debounce,
  keepalive and pacer each act on a counter or time stamp that another task, or a
  former cycle, may have touched.
* **Limits.** The queue's high-water mark, the 32-bit media clock, capped sleeps.
* **Failure everywhere.** Every await may raise; the code mostly logs and goes on.

What makes each component correct: one upstream session at a time feeds the
server, and only its own packets count as health (relay); the answer belongs to
the gateway that is kept and `disconnect()` leaves nothing behind (signaling);
the answer describes one stream and one gateway, in terms of the offer
(negotiation); clients see gapless runs and no connection is forgotten (server);
bounded latency and current parameter sets (media path); clients of the cloud are
released and calls spaced (bridge); what is reported as registered was registered,
and comes back by itself (registrar); and each of them stops when told. The hazards, each at its line and with the
properties that cover it, are in `PROJECT.json`.

## 2. Modules

| module | models | composes |
|---|---|---|
| `RelayContract` | what the relay promises: one feeding session, a health clock only a sustained stream resets | |
| `UpstreamRelay` | the relay, await by await | refines `RelayContract` |
| `RtspServer` | server, sessions, writers, `close()`, `stop()` | |
| `RtpPacer` | one session's pacer against time | |
| `MediaPath` | `push_rtp`: NAL scan, parameter sets | extends `RtpPacer` with what the frames hold |
| `AgoraSignaling` | one signaling handler with its loops and `disconnect()` | |
| `AgoraAnswer` | API response, offer, reply and answer as values (operators only) | |
| `Negotiation` | from `choose_server` to the answer | `AgoraSignaling` decides when, `AgoraAnswer` what |
| `Go2RtcRegistrar` | `ensure_stream` and `remove_stream` against a go2rtc that fails and forgets | |
| `BridgeSession` | main task, loop, callbacks, restart | runs the relay as `RelayContract` |
| `MC*` | values for TLC | |
| `UpstreamRelayProofs`, `RtspServerProofs`, `BridgeSessionProofs`, `AgoraSignalingProofs`, `Go2RtcRegistrarProofs`, `RtpPacerProofs` | theorems about the module they are named after | |
| `MediaPathProofs` | theorems about `MediaPath` | cites `RtpPacerProofs` |
| `NegotiationProofs` | theorems about `Negotiation` and the operators of `AgoraAnswer` | cites `AgoraSignalingProofs` |

Conventions common to all of them:

* asyncio switches tasks only at an `await`, so **an action is the code of one task
  from one await to the next**, and a variable per task (`sup`, `handler`, `writer`,
  `step`, `main`, ...) names the await it is suspended at. A lock that is never held
  over an await needs no action (server `_lock`).
* An await may return, raise or time out whenever the library call may; a
  cancellation is requested by one action and delivered by another, at an await.
* *history* variables (marked so) record what properties speak about and guard nothing.
* A definition whose name starts with `Bad` is a faulty form of the one after it
  (a dropped guard, a missing reset) and is used by nothing; substituting it must
  violate the property that `PROJECT.json` pairs it with.

### UpstreamRelay

`sup` is the supervisor's await: `wake`, `creds`, `context`, `offer`, `join`,
`answer`, `track`, `pump` inside `_run_one_upstream` (333-493), `disc`, `close`
inside `_teardown_upstream` (580-601), `backoff`. `pc[p]` is a peer connection:
`free`, `open`, `tapped` (its tap forwards). `upstream`, `videoReceiver`,
`videoSsrc` are the fields teardown captures and clears before its awaits;
`cyclePackets`, `rtpAge`, `healthyAge` the tally and clocks; `offlineBackoff`,
`healthyCycle` the ramp; `wd` the watchdog (424-477), `revived` whether packets came
while it waited for a recovery (history); `stopEvent`, `cancelReq`,
`stopper` the call of `stop()` (181-194).

Abstractions. Counters saturate at `Threshold`, the only value the code compares
them with. A PC's slot is used again once it is closed; a `close()` that failed is
taken for finished. aiortc (external) unregisters the receiver before the first
await of `pc.close()`, so a PC is tapped until `disc` is over. The offer can fail
only while another slot is free, which bounds leaked PCs. The heartbeat loop (log
lines), RTX unwrapping (data), a track event without a receiver (518-520) and a
change of SSRC within one session are left out. The test of the stop event after
the pump and after teardown can never decide anything: the event always comes with
a cancellation, which wins.

### RtspServer

Per client: `peer` and `sock` (outside), `handler`, `writer`, `stage` (where
`close()` is), `queue`, `closed`, `playing`, `channel`. Server: `table`, `stopper`,
`todo`, `current` (snapshot and progress of `stop()`). A frame is the number of the
`push_rtp` call that brought it; `None` in a queue is the sentinel. `Push` offers a
frame to every session at once, as `push_rtp` does. `Server.wait_closed()` of the
Python in the Dockerfile (3.13) waits for all connections. `Viewers` are the
clients that may ask for video; the others, like a probe, connect, send OPTIONS,
and leave or stall. `Finalized` is
asyncio's StreamWriter finalizer (external). Abstracted: response texts, parameter
sets (one `ready` flag), the pacer's sleep (any length), Sender Reports (part of
the drain).

### RtpPacer

One frame is captured per unit of time; `Arrive` brings it to the queue at most
`Jitter` late; `Take` computes anchor and target, `Send` follows the capped sleep;
`Restart` gives the publisher a new clock base. Timestamps are taken modulo `TsMod`.

### MediaPath

`Push` is `push_rtp` (583-594): the packet that arrives with the next frame is
scanned (`Scan`, 145-225) and what was found replaces the sets of its kind
(`Update`, 727-742); `Reconnect` is a restart of the upstream, after which the sets
of the session before are still there. `Packets` gives each clock base the packets
such a session sends: sets alone, aggregated, cut short, in fragments. `Carries`
reads the same packets by the packet format rather than by the loop of the code, and
`sent` keeps what the present session has said. `Take`, `Send` and `Tick` are the
pacer's, unchanged: one packet is one frame. `Scan` is a recursive function of the
number of units looked at (`Found`), so that proofs can follow it. Left out: RTP padding, extensions and
CSRCs (bytes), IRAP detection (228-275, which nothing calls).

### AgoraSignaling

`step` is the await of `connect_and_join`, `reader`, `ping`, `retry` the three
loops, `closing[c]` a run of `disconnect()` by the relay or by `on_p2p_lost`. `up`,
`inbox`, `replied`, `publisher` are gateway and mower. A message is its kind and
SSRC. The publisher may come back with the SSRC it had (`again`, history) or with
another, `MaxComings` times in all. `asked` are the SSRCs subscribed to since they
appeared, which a stream that ends takes with it; `subscribed` is
`_subscribed_video_streams`, which keeps them. Given up after 15 s, a gateway's websocket is closed but pending answer,
streams and subscriptions stay (714-715); after an exception `disconnect()` clears
them: the model keeps that difference. Left out: messages that change nothing,
the direct `answer` message (join_v3 does not send it), offers that do not parse.
An answer can always be generated once a stream is known; `NegotiationAssumption`
says what that takes. `Connected` waits for a
`disconnect()` started by `on_p2p_lost` to be over, since that needs only ready
tasks while a handshake needs the network. A handler hears of a lost peer once
(`GatewayLosesPeer`): a further `on_p2p_lost` would add a third `disconnect()` over the
same fields, beside the two that are modelled. `connected` is cleared with the other
fields; the cancelled reader does it a moment earlier and nobody looks in between.

### AgoraAnswer and Negotiation

`AgoraAnswer` has no variables. A choose-server response is a sequence of buffers, an
offer a sequence of lines; `Usable`, `Primary`, `Addresses`, `JoinAddresses` are
`AgoraResponse` (edge 149-260), `Parse` and `Capability` are `sdp.py`, `Selected`,
`Stripped`, `WithGateways`, `Candidates` what is taken from a gateway's reply, and
`Answer` is `_generate_answer_sdp` with its helpers (1404-1743). A section without a
direction is `sendrecv` to the join message (`sdp.py` 209-211) and `sendonly` to the
answer (edge 1695). A fingerprint is
known by the gateway it belongs to. The list comprehensions of the code are `Keep` (the
elements at the places to keep) and `Without`, its loops that extend a list are
`Joined`, both recursive functions that proofs can follow.

`Negotiation` runs them. `domain` is the place on the ladder of API domains
(`EndpointAnswers`, `EndpointFails`), `addresses` what the response gives; then
`AgoraSignaling` does its steps unchanged (`Next /\ Noted`) while `pt` follows the
payload type in `_video_streams`, and `sdp` is the answer, made in the step in which
the handler's answer is made. `world` fixes, per run, which bodies the API may
respond with and what each gateway replies.

Left out: ICE credentials, codec parameters (fmtp), RTX and text that never varies;
the ticket, which comes out of the same buffer as the addresses; the request's
payload. Excluded by assumption: a usable response without addresses, with which the
code returns at once, and a reply when neither it nor the response has a fingerprint,
with which no answer is made and the gateway is given up after its 15 s; of both
`AgoraSignaling` has the outcome, a join that ends without an answer.

Four assumptions say what the environment sends, and the runs evaluate them:
`NegotiationAssumption` (above); `ResponseAssumption`: the fingerprints a response
states are, in order, those of its first edges (what happens otherwise: section 5);
`OfferAssumption`: one section per kind, as the relay has one transceiver of each
(relay 351-352), each with a mid, as aiortc gives it; `ReplyAssumption`: a gateway
numbers its codecs apart and can handle video.

### Go2RtcRegistrar

`op` is the call in progress, `rung` the writing requests made so far, `awaits` the
request it is suspended at (`list` is `_list_streams`, `write` one of the POST, PUT,
PATCH and DELETE requests), `reply` the answer once it is there. `Listed` and
`Written` are the code from there to the next await (68-116). go2rtc is external: it
understands some of the requests, answers, refuses, is down, or is slow: `Fails` is
the ten-second timeout, after which the request may still be carried out (`late`). A
new producer replaces the others or joins them, `Crash` forgets all, `Rewire` is
somebody else's change. A URL is what `_normalize_source_url` looks at (179-217);
go2rtc lists it in the form `Stored`. `saw` keeps what was so of the stream during
the call. Left out: the HTTP session's life, forming of parameters.

### BridgeSession

`main` is the await of the main task, `client` `state["mammotion"]`, `live` the
clients that hold a login, `credsAge`/`refreshAge` the debounce clocks,
`toReconcile`/`toKeepalive` the loop's deadlines, `due` what the one clock reading
of a round (643) makes due, `sup` the callback the relay's supervisor is in and
`caller` the client that call was made on, which need not be the one the state holds by
then. A wake is a heartbeat (`wake`), or the command that replaces it at once or after
its failure (`fallback`, 484-513), and then the renewal. The relay is present as
`RelayContract` (`Relay == INSTANCE RelayContract`), whose promise `UpstreamRelay`
keeps. The server's `stop()` may return or not: `RtspStopped` is the one step of the
main task without fairness, since `MCRtspStop` shows that it may hang. The finally block
cancels the supervisor in the step that enters it, since `relay.stop()` does so
before its first await.

## 3. Runs

| run | specification, bounds | shows |
|---|---|---|
| `MCRelay` | 2 PC slots, threshold 2, window 2, recovery 1 + wait 1, backoff 1..3, punctual timers; `FairSpec` | types; `SingleFeeder`; `StopFindsNothing`; `RampResetsOnlyAfterRealStream`; `StopStartsNothing`; the relay implements `RelayContract`; `SilenceBounded` (a tight bound), `RevivedStreamIsSpared`, `StopCompletes`, `ChurnReachesMaxBackoff` |
| `MCRelayLeak`, `MCRelayStaleSsrc` | 2 slots | violations, section 5 |
| `MCRtspClient` | 2 clients, one of them a viewer, high water 1, 3 frames; `FairSpec` | queue bound, `NoGap`, `NothingWrittenAfterClose`, `OpenIsKnown` while `stop()` works through its snapshot, `DepartedClientIsForgotten`, `StopGivesBack` |
| `MCRtspStop` | 1 client; `PatientSpec` | violation, section 5 |
| `MCMediaPath` | jitter 3, sleep cap 5, threshold 8 of a clock of 32, three clock bases (one about to wrap) with their own packets, one restart, 22 units | `SteadyPlayout`, `LatencyBounded`, `SetsAreCurrent`, sleep cap |
| `MCPacerDrift` | no jitter, no restart, threshold 8, 20 units | violation, section 5 |
| `MCNegotiation` | 2 gateways, 2 SSRCs with different payload types, 2 retries, 2 messages under way, a publisher that appears twice, 6 API domains, 2 cases of offer and replies, 3 response bodies; `NegFairSpec` | signaling: `AnswerMatchesGateway`, `PublisherIsSubscribed`, `DisconnectLeavesNothing`, `JoinEnds`, `DisconnectEnds`; the answer: `AnswerFitsOffer`, `MediaIsOneStream`, `GatewayIsAuthentic` |
| `MCRejoin` | the same with 1 retry, 1 message under way, 1 domain; `NegSpec` | violation, section 5 |
| `MCBridge` | 2 client slots, dryness 3, keepalive 2, reconcile 3 and up to 3 long, refresh debounce 2; `FairSpec` | `ClientsAreReleased`, `NoCallOnStoppedClient`, `RefreshesAreSpaced`, `KeepaliveBounded` (a tight bound), `StuckSessionIsLeft`, `StopExits` |
| `MCBridgeDebounce` | 2 client slots, keepalive 1, reconcile 2 and up to 2 long, both debounces 2; `Spec` | violation, section 5 |
| `MCRegistrar` | 2 forms of source URL, 5 versions of go2rtc, 2 failed requests, 2 upsets (restart, rewiring, `remove_stream`); `FairSpec` | `ReportIsTrue`, `NoNeedlessWrite`, `SelfHeals` |

Why the bounds are enough. *Relay:* the code holds one PC and may leave one
lingering; with two slots every pair of an old and a new session occurs, and slots
come back, so histories of any number of reconnects are covered. Threshold 2 tells
"some packets" from "a sustained stream". Timers are punctual in `MCRelay`, as its
timed properties need; late ones are covered by the proofs, which hold for both, and
occur in the two violation runs. *Server:* a queue of one with three frames
fills, lags, drains and takes a frame again; two clients are what it takes for one to
connect, leave or stall while `stop()` awaits another, and sessions share nothing but
the table, so one of them needs a queue. Each client connects once: a reconnect is a new
session that shares nothing with the old one. *Pacer:* the threshold is a quarter of
the clock, as jumps of both signs need; the horizon passes the threshold and the
wrap; restarts jump past the threshold and stay within it, and each script of packets
is gone through more than once. *Negotiation:* what one gateway leaves meets exactly
one next gateway, and the announcement of one SSRC the payload type of the other; a publisher that appears
twice has left once, and returned with its SSRC or with the other; the
two cases differ in order of sections, directions, capability block, source of the
fingerprint, place of the invalid edges and buffer; six is the length of the code's
ladder. *Registrar:* the ladder has four rungs; two faults let a request time out, be
carried out late and its listing fail too, and two upsets are a restart and a
rewiring within one call; the versions make each rung the first that works. *Bridge:*
one client and the one that follows it; each debounce is longer than a unit in the
run that checks it, and a reconciliation is longer than the keepalive period, as with go2rtc
unreachable (nine requests of 10 s against 10 s).

`CHECK_DEADLOCK FALSE` stands where the system or its bounded inputs end: RTSP,
pacer, negotiation, bridge, registrar (go2rtc never answers in every behaviour).

### Fairness

* Relay: awaits of supervisor and watchdog return (HTTP, signaling and track waits
  have timeouts; a cheap recovery that hangs is excluded by assumption), sleeps
  expire, `stop()`'s waits are served. Nothing is assumed of publisher and viewers.
* Server: tasks that can go on do. `PatientSpec` adds, for the violation run only,
  that clients do not stall for ever and strong fairness for what can go on again
  and again; the counterexample does not owe to an unfair environment.
* Negotiation: an API call and each await of the joiner return or run into their
  timeouts (10 s, 15 s), `close()` ends the connection, ready tasks run. Nothing is
  assumed of gateways and publisher.
* Registrar: the main loop calls `ensure_stream` as long as it runs (bridge 655-675),
  a request is answered or fails in ten seconds, go2rtc comes back and gets to what
  was sent to it. Faults and upsets come to an end, as `SelfHeals` requires.
* Bridge: awaits of the main task return except the one of `rtsp_server.stop()`
  (`MainReturns`), of which nothing is assumed, time goes on, and logins that are tried for
  ever succeed at some time (strong fairness of `LoggedIn`); without the last, a
  session whose re-login fails for ever stays in `_fresh_client` (310-329), where
  dryness is not looked at.

## 4. Proofs

Every safety property that a passing run checks, invariant or action property, is also
a theorem, for every value of the constants that satisfies the named ASSUMEs (which TLC
evaluates on each run). None of the invariants is inductive alone. Each proof module
states the strengthening `IInv` with its parts named and explained, a lemma per group
of actions shows that it is kept, and the theorems follow. Each `IInv` was first
checked with TLC on the instances of the runs, and later parts of it came out of steps
that could not be proved.

| module | theorem | statement |
|---|---|---|
| `UpstreamRelayProofs` | `TypeCorrect` | `Spec => []TypeOK` |
| | `OneFeeder` | `Spec => []SingleFeeder` |
| | `StopTeardownIdle` | `Spec => []StopFindsNothing` |
| | `StopIsFinal` | `Spec => StopStartsNothing` |
| | `RampNeedsRealStream` | `Spec => RampResetsOnlyAfterRealStream` |
| | `RevivedIsSpared` | `Spec => RevivedStreamIsSpared` |
| | `SilenceIsBounded` | `Spec => [](Punctual => SilenceBounded)` |
| | `RelayKeepsContract` | `Spec => ImplementsContract` (refinement) |
| `RtspServerProofs` | `TypeCorrect` | `Spec => []TypeOK`, the bound of the queue included |
| | `ClosedIsSilent` | `Spec => []NothingWrittenAfterClose` |
| | `OpenConnectionsAreKnown` | `Spec => []OpenIsKnown` |
| | `NoFrameIsLost` | `Spec => NoGap` |
| `RtpPacerProofs` | `TypeCorrect` | `Spec => []TypeOK` |
| | `LatencyIsBounded` | `Spec => []LatencyBounded` |
| | `PlayoutIsSteady` | `Jitter <= Delay => (Spec => SteadyPlayout)` |
| `MediaPathProofs` | `PathIsPaced` | `PathSpec => Spec` (refinement of the pacer) |
| | `PathTypeCorrect`, `PathLatencyIsBounded`, `PathPlayoutIsSteady` | the pacer's theorems on the media path |
| | `InlinedSetsAreCurrent` | `PathSpec => []SetsAreCurrent` |
| `AgoraSignalingProofs` | `TypeCorrect` | `Spec => []TypeOK` |
| | `NothingIsLeft` | `Spec => []DisconnectLeavesNothing` |
| | `AnswerIsOfItsGateway` | `~Early => (Spec => []AnswerMatchesGateway)` |
| | `PublisherGetsSubscribed` | `~Early => (Spec => []PublisherIsSubscribed)` |
| `NegotiationProofs` | `NegTypeCorrect`, `NegNothingIsLeft`, `NegAnswerIsOfItsGateway`, `NegPublisherGetsSubscribed` | the same of the composed system |
| | `AnswerIsOfOneJoin` | `NegSpec => []SdpShape` |
| | `AnswerAuthenticatesGateway` | `NegSpec => []GatewayIsAuthentic` |
| | `AnswerIsOneStream` | `NegSpec => []MediaIsOneStream` |
| | `AnswerFits` | `NegSpec => []AnswerFitsOffer` |
| `BridgeSessionProofs` | `TypeCorrect` | `Spec => []TypeOK` |
| | `ClientsReleased` | `Spec => []ClientsAreReleased` |
| | `CallsAreOnLiveClients` | `Spec => NoCallOnStoppedClient` |
| | `RefreshesSpaced` | `Spec => RefreshesAreSpaced` |
| | `KeepalivesAreRegular` | `Spec => []KeepaliveBounded` |
| `Go2RtcRegistrarProofs` | `RegistrarTypes` | `Spec => []TypeOK` |
| | `RegistrarReportsTruth` | `Spec => ReportIsTrue` |
| | `RegistrarWritesOnlyIfNeeded` | `Spec => []NoNeedlessWrite` |

(`Invariant` or `RegistrarInvariant`, where there is one, is `Spec => []IInv`.)

The hypotheses that are left are behaviour of the environment, not of the code:
`Punctual` (timers expire when they are due; the event loop promises only "not
before"), `~Early` (Agora's gateways answer the join before they announce a stream;
section 5 says what fails if they do not) and `Jitter <= Delay` (a frame that comes later
than the delay it is given misses its target).

### The relay

    IInv == TypeOK /\ SessionShape /\ FeedShape /\ CountShape /\ HealthShape /\ StopShape

`SessionShape` ties `mine`, the fields and the PC's state to the supervisor's await
(for instance: outside a cycle the fields are empty, so no PC but a captured one can
be tapped); `FeedShape` says that only the PC of the present cycle, or of the
teardown in progress, is tapped; `CountShape` and `HealthShape` that the tally is
the packet count of that PC; `StopShape` relates stop event, cancellation and
supervisor. `SilenceIsBounded` adds what the watchdog's await says of the time since
the last packet, and `WaitShape` of the age when packets came during its wait: they
cannot be older than the wait. The refinement maps `feeding` to the tapped PCs, `burst` to
`cyclePackets` and `gone` to `sup = "done"`; `ContractStep` shows that each relay step
is a contract step or a stutter, and the rest of the steps is `Unseen`.

### The server

    IInv == TypeOK /\ StopShape /\ CloseShape /\ BooksShape /\ RunShape

Three tasks may close a session: its handler, `stop()` and (by marking it) `push_rtp`.
`CloseShape` relates the traces each leaves; `BooksShape` says in whose books an open
connection is: the table, the snapshot of `stop()`, a close that waits for the writer,
or marked as lagging. `RunShape` follows the frames from `push_rtp` through queue
and writer's hand to the connection: each is the successor of the one before, and the
last one is the one pushed last for as long as the session is offered frames. `NoGap`
is what `RunShape` says of the step that sends.

### Pacer and media path

    IInv == TypeOK /\ QueueShape /\ AnchorShape /\ TakenShape /\ ClockShape

The pacer sees timestamps modulo the width of the clock only. `ClockShape` says that each
session's are its offset plus the frame; lemma `Distance` that the signed difference of
two frames of one session is their true distance while that is at most half the width,
and `AnchorShape` that it is at most the threshold. Between sessions a difference means
nothing. `AgeShape` and `SteadyShape`, on top, bound the age an anchor may have when it
is taken and fix the wake-up of a frame of the anchor's session.

The proof corrected the property: an earlier `LatencyBounded` allowed one growth per
session, and its induction step could not be proved; TLC then violated it on a larger
instance (clock 32, delay 6, threshold and cap 8, jitter 3, one restart). The jump of
a restart may stay within the threshold, add up to `Reanchor` of waiting, and a later
frame re-anchor all the same, so that a session may cost `Reanchor + Delay` on top of
`Delay` for every `Reanchor + 1` frames. The run checks the corrected bound.

`MediaPath` takes each of its steps as a step of the pacer (`PathIsPaced`).
`InlinedSetsAreCurrent` is an induction over the units of a packet: `FoundShape` says of
the scan after any number of units that each kind holds the last whole set no malformed
unit precedes (`CollectKeepsShape` is its step), whence `Scan` finds what the packet
`Carries` (`ScanFindsWhatIsCarried`), and `SetsShape` relates the sets kept to what
was `sent`.

### Signaling and negotiation

    IInv == TypeOK /\ ArgShape /\ LinkShape /\ TaskShape
    OrderInv == IInv /\ OrderShape
    DutyInv == OrderInv /\ UsedShape /\ DutyShape

`LinkShape`: a connection leads where `_websocket` says; `TaskShape`: the loops run from
the answer to the first `disconnect()`, and the relay's leaves nothing behind;
`OrderShape` (with a gateway that answers the join first): which messages can still come
in which await, so that a pending answer is the present gateway's; `DutyShape`: a
publisher in the channel that was not subscribed to (since it appeared, or ever, if it
came back with an old SSRC) is told by a message under way or is in a task's hand.

A step of `Negotiation` is one of `AgoraSignaling` or the end of the join before it
begins (`NegSteps`), so all of that carries over. `SdpShape` then says what an answer is
made of, and `SourceShape` that offer, addresses and reply are those of one case. From
there on `GatewayIsAuthentic`, `MediaIsOneStream` and `AnswerFitsOffer` are about data:
`JoinedElements` and `KeepHolds` say what `Joined` and `Keep` return, by induction over
the sequence, and the lemmas `WithoutHolds`, `DistinctHolds`, `FirstPrint`,
`CapabilityTells`, `ExtensionsFit`, `NarrowedHolds`, `SectionCodecs` carry that through
the parts of the answer, for responses, offers and replies of any length.

### The bridge session

    IInv == TypeOK /\ ClientShape /\ CredsShape /\ PokeShape /\ BeatShape

`ClientShape`: each await of the main task knows which client holds a login and where it
is kept, so a client that is replaced or given up was released, and the state never holds
one that was: every call begun on the client of the state is on one that is live. The
command that replaces a failed heartbeat is not begun on that client but on the one
captured before, which is why the theorem excepts it. `BeatShape` says of each
await how long the last keepalive is ago at most, given what the clock reading of the
round made due; the bound is `KeepaliveBounded`'s.

### The registrar

    IInv == TypeOK /\ Known /\ Answered /\ Seen

An answer is read some time after it was given, when the stream may have changed
again, so the reports are not inductive. `Answered` ties what an answer says to what
the history had seen when go2rtc gave it, `Seen` says that the present state of the
stream is in the history of the call, and `Known` that only our producer and somebody
else's are ever listed, which normalisation tells apart (`ForeignIsOther`,
`MatchIsOurs`). `Quiet`, on top of it, says that a call that saw nothing amiss is still
at its first listing and finds our producer in it.

### How induction over data is done

The library's induction theorems take an operator as a parameter, which the provers
cannot instantiate. `SetInduction` (`MediaPathProofs`) and `NegSetInduction`
(`NegotiationProofs`) state induction with a *set* of numbers instead and follow from
`NatLessThanWellFounded` and `WFMin`; `FoundSteps` and `ConcatsExist` use it to show that
a recursively defined function exists, and so satisfies its equation.

### Only model-checked

All liveness: `StopCompletes`, `ChurnReachesMaxBackoff`, `DepartedClientIsForgotten`,
`StopGivesBack`, `JoinEnds`, `DisconnectEnds`, `SelfHeals`, `StuckSessionIsLeft`,
`StopExits` (fairness and ENABLED are outside the prover). What `Parse` makes of the
lines of an offer is not proved: it is a fold of the community modules, and
`OfferAssumption` states what is used of its result.

## 5. Where code and documents disagree

* `MCRelayLeak`: `stop()` can return with a PC open (relay 377-391, 584-601), although
  relay:24 says that it "tears down both the PC and the RTSP server cleanly".
* `MCRelayStaleSsrc`: a packet tapped while teardown awaits re-learns the old SSRC, so
  the next session is not asked for an IDR (relay 540-567, 584-594).
* `MCRtspStop`: a lagging client is marked closed and never dropped, and `stop()` waits
  for its connection (server 336-348, 361, 577). The bridge's finally block then never
  reaches the cloud client, and a dry session is not followed by a new one:
  `StuckSessionIsLeft` is about the way into that block, `StopExits` excepts its hanging
  there.
* `MCPacerDrift`: an ordinary stream crosses the re-anchor threshold every 30 s, and
  each time latency grows by the initial delay (server 458-477).
* `MCBridgeDebounce`: `get_stream_subscription` is debounced only after a success
  (bridge 352-370).
* `MCRejoin`: a publisher that leaves and comes back with the SSRC it had is not
  subscribed to again (edge 976-977, 1147-1148), although edge 959-965 and
  `CHANGELOG.md` 194 say that a rejoin "can subscribe immediately".
  Whether the mower keeps its SSRC, and whether a gateway drops a subscription with its
  stream, is not visible in `src/`; the run lets it do the first and assumes the second.
  `PublisherIsSubscribed` therefore says of such a publisher only that it was subscribed
  to at some time.

Seen while modelling, without a run of its own:

* With `Early = TRUE` (a gateway announces a stream before its join response)
  `AnswerMatchesGateway` fails, since an answer the gateway before it left pending is
  completed (edge 714-715, 1053-1057). That gateways do this is not visible in `src/`;
  the runs and theorems leave it out.
* `KeepaliveBounded` holds with `Keepalive + 2 * ReconcileMax`, which for an
  unreachable go2rtc is about three minutes, where bridge 30-33 and 203 ask for well under
  50 s.
* The health clock starts when the relay is constructed: a login longer than the dryness
  threshold makes the new session end before its first cycle (`Bound` with `IsDry`).
* The command that `wake_publisher` sends when the heartbeat ends in an AttributeError
  (bridge 484-493, 507) goes to the client captured at 463, which the main task may have
  stopped meanwhile (693-696): `NoCallOnStoppedClient` excepts that call. It also counts
  against the daily budget, unlike the heartbeat, and no debounce spaces it.
* `RevivedStreamIsSpared` is about a recovery wait shorter than the no-RTP window. The
  defaults are 5 s for both, and then a packet that came at the very beginning of the
  wait is as old as the window when the wait is over, so the stream counts as silent.
* The two defaults for a missing direction (`sdp.py` 211, edge 1695) differ: the join
  message offers such a section both ways, the answer receives only. aiortc states the
  direction of every section, so it does not come up.

From the data path and the negotiation:

* `_scan_h265_nals_for_parameter_sets` is said to handle "the start of a fragmented
  parameter set" (server 179-181); fragments are skipped (209-214). `SetsAreCurrent` is therefore about sets sent whole.
* The growth that `MCPacerDrift` finds goes on until the queue is at its limit of 1024
  packets; then even a client that reads promptly is marked lagging.
* A stream announced by a gateway that was given up stays known (edge 714-715, 1162-1164,
  `setdefault`), so the answer for a later gateway may declare an SSRC no longer
  sent: `MediaIsOneStream` can only say that the publisher has sent it.
* If a gateway's reply has no fingerprint, the first of the response is used even if a
  later gateway was joined (edge 867-892, 1458-1467), which is why
  `GatewayIsAuthentic` stops at "a gateway in the place of the first that has one".
  An empty entry among the response's fingerprints shifts the ones after it (edge 198).
* A response that parses but has no successful buffer raises (edge 228) and is not asked
  for again from the next domain (484-503).
* Narrowing to the publisher's payload type drops the codec of its RTX stream while the
  answer may still declare the FID group (edge 1709-1721); RTX is not modelled.
* `stop()` waits without limit, session by session, for a stalled client's buffer
  (server 376-377, 568-580); `StopGivesBack` speaks of the session it has come to.

## 6. Plan

Done, in order of importance: (1) relay and contract, (2) server, (3) pacer,
(4) signaling, (5) bridge session, (6) data path in front of the pacer, (7) API
response, offer and answer composed with signaling, (8) registrar; (9) proofs of every
safety property the passing runs check. Next:

1. Proofs: `Parse` by induction over the lines, in place of `OfferAssumption`'s part
   about its result; the relay's contract as all that the proofs about `BridgeSession`
   use of the relay.
2. A publisher that changes its SSRC inside one session (relay 258), and a cheap
   recovery that hangs (relay 455): the two hazards without a property.

## 7. Not modelled

* The aiortc patch (`h265_patch.py`): one change of tables before the first connection;
  the codec it offers is an input of `Negotiation`.
* Byte layout and text: RTP packets and Sender Reports, wording of SDP, parsing of the
  Transport header, log lines. IRAP detection is called by nothing.
* Of the API client the request's payload, and `get_ice_servers` and
  `get_turn_addresses`, which nothing calls.
* Environment variables, Docker files.
* aiortc, websockets, pymammotion, go2rtc and Agora appear only through what the code
  in `src/` relies on.

## Running

    tlc -workers 2 -config MCRelay.cfg MCUpstreamRelay
    tlc -workers 2 -config MCRtspClient.cfg MCRtspServer
    tlc -workers 2 -config MCMediaPath.cfg MCMediaPath
    tlc -workers 2 -config MCNegotiation.cfg MCNegotiation
    tlc -workers 2 -config MCRegistrar.cfg MCGo2RtcRegistrar
    tlc -workers 2 -config MCBridge.cfg MCBridgeSession
    for m in UpstreamRelay RtspServer RtpPacer MediaPath AgoraSignaling Negotiation \
             BridgeSession Go2RtcRegistrar; do tlapm ${m}Proofs.tla; done
