---------------------------- MODULE RtspServer ----------------------------
(***************************************************************************)
(* The downstream half of the bridge: Go2RtcRtspStream and its _RtspSession *)
(* objects (src/mammotion_webrtc/rtsp_server.py).                          *)
(*                                                                         *)
(* Each connection has a handler task that answers RTSP requests, and from *)
(* PLAY on a writer task that sends the frames push_rtp queued for it.     *)
(* close() may be run by the handler or by the server's stop().  As in     *)
(* UpstreamRelay an action is the code between two awaits of one task; the *)
(* server's lock is never held over an await, so it needs no action.       *)
(*                                                                         *)
(* A frame is the number of the push_rtp call that brought it.  How long   *)
(* the writer sleeps in its pacer is the subject of RtpPacer.              *)
(* A definition whose name starts with Bad is a faulty form of the one     *)
(* that follows it and is used by no other.                                *)
(***************************************************************************)
EXTENDS Integers, Sequences

CONSTANTS
    Clients,     \* connections; each is made at most once
    Viewers,     \* bound: the clients that ask for more than OPTIONS
    None,        \* Python's None: also the queue's sentinel
    HighWater,   \* _SESSION_QUEUE_HIGH_WATER
    MaxFrames,   \* bound: calls of push_rtp
    MayStop      \* bound: whether stop() is called at all

ASSUME ServerAssumption ==
    HighWater \in Nat \ {0} /\ MaxFrames \in Nat /\ None \notin Clients \cup Nat
    /\ MayStop \in BOOLEAN /\ Viewers \subseteq Clients

VARIABLES
    \* the outside
    peer,        \* the client: absent, reading, stalled (not reading), gone
    sock,        \* the connection's server side: none, open, flushing, closed
    pushed,      \* frames pushed so far
    ready,       \* _params.ready
    \* Go2RtcRtspStream
    table,       \* _sessions
    handler,     \* the await of _handle_client
    stopper,     \* progress of stop()
    todo,        \* sessions stop() has yet to close
    current,     \* the session whose close() stop() awaits
    \* _RtspSession
    channel,     \* rtp_channel is set
    playing, closed, queue,
    writer,      \* the await of _writer_loop
    inHand,      \* the frame the writer took last
    stage,       \* progress of the close() call that did the work
    delivered,   \* history: the last frame written to the connection
    lagged       \* history: closed by queue_frame

outside  == <<peer, sock>>
media    == <<pushed, ready>>
stopVars == <<stopper, todo, current>>
session  == <<channel, playing, closed, queue>>
sending  == <<writer, inHand, delivered>>
vars == <<outside, media, table, handler, stopVars, session, sending, stage, lagged>>

Frames == 1 .. MaxFrames
Listening == stopper \in {"no", "closing"}

Init ==
    /\ peer = [c \in Clients |-> "absent"] /\ sock = [c \in Clients |-> "none"]
    /\ pushed = 0 /\ ready = FALSE
    /\ table = {} /\ handler = [c \in Clients |-> "none"]
    /\ stopper = "no" /\ todo = {} /\ current = None
    /\ channel = [c \in Clients |-> FALSE] /\ playing = [c \in Clients |-> FALSE]
    /\ closed = [c \in Clients |-> FALSE] /\ queue = [c \in Clients |-> <<>>]
    /\ writer = [c \in Clients |-> "none"] /\ inHand = [c \in Clients |-> 0]
    /\ stage = [c \in Clients |-> "no"] /\ delivered = [c \in Clients |-> 0]
    /\ lagged = [c \in Clients |-> FALSE]

-----------------------------------------------------------------------------
(* The client's side, and the socket *)

\* A client connects and _handle_client registers its session.
Connect(c) ==
    /\ Listening /\ peer[c] = "absent"
    /\ peer' = [peer EXCEPT ![c] = "reading"] /\ sock' = [sock EXCEPT ![c] = "open"]
    /\ table' = table \cup {c} /\ handler' = [handler EXCEPT ![c] = "read"]
    /\ UNCHANGED <<media, stopVars, session, sending, stage, lagged>>

PeerBecomes(c, how) ==
    /\ peer' = [peer EXCEPT ![c] = how]
    /\ UNCHANGED <<sock, media, table, handler, stopVars, session, sending, stage, lagged>>

\* The client stops reading, or goes.
PeerStalls(c) == peer[c] = "reading" /\ PeerBecomes(c, "stalled")
PeerLeaves(c) == peer[c] \in {"reading", "stalled"} /\ PeerBecomes(c, "gone")
PeerRecovers(c) == peer[c] = "stalled" /\ PeerBecomes(c, "reading")

\* A closed transport is gone once what it buffered has been read, or cannot be
\* any more; then writer.wait_closed() returns.
Flushed(c) ==
    /\ sock[c] = "flushing" /\ peer[c] # "stalled"
    /\ sock' = [sock EXCEPT ![c] = "closed"] /\ stage' = [stage EXCEPT ![c] = "done"]
    /\ UNCHANGED <<peer, media, table, handler, stopVars, session, sending, lagged>>

\* A connection nobody closed is closed by StreamWriter's finalizer when the
\* last task that refers to the session has ended.
Finalized(c) ==
    /\ sock[c] = "open" /\ stage[c] = "no" /\ c \notin table \cup todo
    /\ handler[c] = "done" /\ writer[c] \in {"none", "ended"}
    /\ sock' = [sock EXCEPT ![c] = "flushing"]
    /\ UNCHANGED <<peer, media, table, handler, stopVars, session, sending, stage, lagged>>

-----------------------------------------------------------------------------
(* push_rtp *)

\* A session takes frames while it plays and nobody has closed it.
BadTakes(c) == playing[c] /\ ~closed[c] /\ Len(queue[c]) < HighWater
Takes(c) == playing[c] /\ ~closed[c]

\* queue_frame finds the queue full: the session is given up.
BadLags(c) == FALSE
Lags(c) == Takes(c) /\ Len(queue[c]) >= HighWater

Queued(c, f) ==
    IF Lags(c) THEN Append(queue[c], None)
    ELSE IF Takes(c) THEN Append(queue[c], f) ELSE queue[c]

ClosedByPush(c) == closed[c] \/ Lags(c)

\* One frame is offered to every session.  It may bring the last parameter set
\* that DESCRIBE waits for.
Push(completes) ==
    /\ pushed < MaxFrames /\ pushed' = pushed + 1
    /\ ready' = (ready \/ completes)
    /\ queue' = [c \in Clients |-> IF c \in table THEN Queued(c, pushed') ELSE queue[c]]
    /\ closed' = [c \in Clients |-> IF c \in table THEN ClosedByPush(c) ELSE closed[c]]
    /\ lagged' = [c \in Clients |-> lagged[c] \/ (c \in table /\ Lags(c))]
    /\ UNCHANGED <<outside, table, handler, stopVars, channel, playing, sending, stage>>

-----------------------------------------------------------------------------
(* Requests *)

\* A request is there to be read: also one that was sent before close() took
\* the connection away.
Asks(c) == handler[c] = "read" /\ peer[c] # "gone" /\ sock[c] \in {"open", "flushing"}
AsksForVideo(c) == c \in Viewers /\ Asks(c)

\* OPTIONS, GET_PARAMETER, SET_PARAMETER, and a refused method, SETUP or PLAY.
PlainRequest(c) ==
    /\ Asks(c) /\ handler' = [handler EXCEPT ![c] = "respond"]
    /\ UNCHANGED <<outside, media, table, stopVars, session, sending, stage, lagged>>

\* DESCRIBE answers once all three parameter sets were seen.
Describe(c) ==
    /\ AsksForVideo(c)
    /\ handler' = [handler EXCEPT ![c] = IF ready THEN "respond" ELSE "describe"]
    /\ UNCHANGED <<outside, media, table, stopVars, session, sending, stage, lagged>>

\* The sets arrived, or ten seconds passed and it answers 503.
Described(c) ==
    /\ handler[c] = "describe" /\ handler' = [handler EXCEPT ![c] = "respond"]
    /\ UNCHANGED <<outside, media, table, stopVars, session, sending, stage, lagged>>

Setup(c) ==
    /\ AsksForVideo(c) /\ channel' = [channel EXCEPT ![c] = TRUE]
    /\ handler' = [handler EXCEPT ![c] = "respond"]
    /\ UNCHANGED <<outside, media, table, stopVars, playing, closed, queue, sending,
                   stage, lagged>>

\* PLAY starts the writer, the first time it is asked for.
Play(c) ==
    /\ AsksForVideo(c) /\ channel[c] /\ writer[c] = "none"
    /\ playing' = [playing EXCEPT ![c] = TRUE] /\ writer' = [writer EXCEPT ![c] = "get"]
    /\ handler' = [handler EXCEPT ![c] = "respond"]
    /\ UNCHANGED <<outside, media, table, stopVars, channel, closed, queue, inHand,
                   delivered, stage, lagged>>

TeardownRequest(c) ==
    /\ Asks(c) /\ handler' = [handler EXCEPT ![c] = "farewell"]
    /\ UNCHANGED <<outside, media, table, stopVars, session, sending, stage, lagged>>

\* The answer went out, or the connection failed and that is ignored.
Responded(c) ==
    /\ handler[c] = "respond" /\ (peer[c] # "stalled" \/ sock[c] = "closed")
    /\ handler' = [handler EXCEPT ![c] = "read"]
    /\ UNCHANGED <<outside, media, table, stopVars, session, sending, stage, lagged>>

-----------------------------------------------------------------------------
(* close() *)

\* The call that finds the session open marks it and wakes the writer; without a
\* writer it closes the connection right away.
BeginClose(c) ==
    /\ ~closed[c] /\ closed' = [closed EXCEPT ![c] = TRUE]
    /\ playing' = [playing EXCEPT ![c] = FALSE]
    /\ queue' = [queue EXCEPT ![c] = Append(queue[c], None)]
    /\ IF writer[c] = "none"
       THEN /\ stage' = [stage EXCEPT ![c] = "flush"]
            /\ sock' = [sock EXCEPT ![c] = "flushing"]
       ELSE stage' = [stage EXCEPT ![c] = "join"] /\ UNCHANGED sock

\* Whatever the writer awaits when its two seconds are over, it ends there.
BadAfterTimeout(c) == writer[c]
AfterTimeout(c) == "ended"

BadGivesUp(c) == FALSE
GivesUp(c) == writer[c] # "ended"

\* The writer has ended, or is cancelled after two seconds.
WriterJoined(c) ==
    /\ stage[c] = "join"
    /\ \/ writer[c] = "ended" /\ UNCHANGED writer
       \/ GivesUp(c) /\ writer' = [writer EXCEPT ![c] = AfterTimeout(c)]
    /\ stage' = [stage EXCEPT ![c] = "flush"] /\ sock' = [sock EXCEPT ![c] = "flushing"]
    /\ UNCHANGED <<peer, media, table, handler, stopVars, session, inHand, delivered,
                   lagged>>

-----------------------------------------------------------------------------
(* The end of _handle_client *)

BadForgotten(c) == table
Forgotten(c) == table \ {c}

\* The finally block: the session is forgotten, then closed unless it is.
Finish(c) ==
    /\ table' = Forgotten(c)
    /\ \/ /\ closed[c] /\ handler' = [handler EXCEPT ![c] = "done"]
          /\ UNCHANGED <<sock, playing, closed, queue, stage>>
       \/ BeginClose(c) /\ handler' = [handler EXCEPT ![c] = "closing"]
    /\ UNCHANGED <<peer, media, stopVars, channel, sending, lagged>>

\* End of stream, or a connection error.
EndOfStream(c) ==
    handler[c] = "read" /\ (peer[c] = "gone" \/ sock[c] = "closed") /\ Finish(c)

\* A request line that is none.
Malformed(c) == Asks(c) /\ Finish(c)

Farewell(c) ==
    /\ handler[c] = "farewell" /\ (peer[c] # "stalled" \/ sock[c] = "closed")
    /\ Finish(c)

HandlerDone(c) ==
    /\ handler[c] = "closing" /\ stage[c] = "done"
    /\ handler' = [handler EXCEPT ![c] = "done"]
    /\ UNCHANGED <<outside, media, table, stopVars, session, sending, stage, lagged>>

-----------------------------------------------------------------------------
(* _writer_loop *)

\* The writer takes the next item: it ends on the sentinel or if the session was
\* closed, otherwise the pacer decides when to send.
Take(c) ==
    /\ writer[c] = "get" /\ queue[c] # <<>>
    /\ queue' = [queue EXCEPT ![c] = Tail(@)]
    /\ IF Head(queue[c]) = None \/ closed[c]
       THEN writer' = [writer EXCEPT ![c] = "ended"] /\ UNCHANGED inHand
       ELSE /\ writer' = [writer EXCEPT ![c] = "pace"]
            /\ inHand' = [inHand EXCEPT ![c] = Head(queue[c])]
    /\ UNCHANGED <<outside, media, table, handler, stopVars, channel, playing, closed,
                   delivered, stage, lagged>>

\* The pacer's sleep is over.  Nothing is looked at again before the write.
Send(c) ==
    /\ writer[c] = "pace" /\ writer' = [writer EXCEPT ![c] = "drain"]
    /\ delivered' = [delivered EXCEPT ![c] = inHand[c]]
    /\ UNCHANGED <<outside, media, table, handler, stopVars, session, inHand, stage,
                   lagged>>

CanDrain(c) == peer[c] # "stalled"

\* drain() returned; towards a client that is gone it raises.
Drained(c) ==
    /\ writer[c] = "drain" /\ CanDrain(c)
    /\ writer' = [writer EXCEPT ![c] = IF peer[c] = "gone" THEN "ended" ELSE "get"]
    /\ UNCHANGED <<outside, media, table, handler, stopVars, session, inHand,
                   delivered, stage, lagged>>

-----------------------------------------------------------------------------
(* stop() *)

BadRestAfter(rest, c) == {}
RestAfter(rest, c) == rest \ {c}

\* From the snapshot on to the next await: sessions that are closed already are
\* passed over, and when none is left the server stops to accept connections.
StopGoesOn(rest) ==
    \/ \E c \in rest :
          /\ BeginClose(c) /\ current' = c /\ todo' = RestAfter(rest, c)
          /\ stopper' = "closing"
    \/ /\ \A c \in rest : closed[c]
       /\ stopper' = "waiting" /\ current' = None /\ todo' = {}
       /\ UNCHANGED <<sock, playing, closed, queue, stage>>

StopBegins ==
    /\ MayStop /\ stopper = "no" /\ StopGoesOn(table) /\ table' = {}
    /\ UNCHANGED <<peer, media, handler, channel, sending, lagged>>

\* The close() it awaited has returned.
StopNext ==
    /\ current # None /\ stage[current] = "done" /\ StopGoesOn(todo)
    /\ UNCHANGED <<peer, media, table, handler, channel, sending, lagged>>

\* Server.wait_closed() of the Python the bridge runs on (3.12 and later) waits
\* for every connection the server accepted.
StopReturns ==
    /\ stopper = "waiting" /\ \A c \in Clients : sock[c] \in {"none", "closed"}
    /\ stopper' = "returned"
    /\ UNCHANGED <<outside, media, table, handler, todo, current, session, sending,
                   stage, lagged>>

-----------------------------------------------------------------------------
Request(c) ==
    \/ PlainRequest(c) \/ Describe(c) \/ Setup(c) \/ Play(c) \/ TeardownRequest(c)
    \/ Malformed(c)
Handle(c) == Described(c) \/ Responded(c) \/ EndOfStream(c) \/ Farewell(c) \/ HandlerDone(c)
Write(c) == Take(c) \/ Send(c) \/ Drained(c)
Close(c) == WriterJoined(c) \/ Flushed(c) \/ Finalized(c)
Peer(c) == PeerStalls(c) \/ PeerLeaves(c) \/ PeerRecovers(c)
StopServer == StopNext \/ StopReturns

Next ==
    \/ \E c \in Clients :
          \/ Connect(c) \/ Peer(c) \/ Request(c) \/ Handle(c) \/ Write(c)
          \/ Close(c)
    \/ \E completes \in BOOLEAN : Push(completes)
    \/ StopBegins \/ StopServer

Spec == Init /\ [][Next]_vars

\* Every task that can go on does; what clients do, and when, is left open.
Fairness ==
    /\ \A c \in Clients : WF_vars(Handle(c)) /\ WF_vars(Write(c)) /\ WF_vars(Close(c))
    /\ WF_vars(StopServer)

FairSpec == Spec /\ Fairness

\* Clients that stop reading read again or go, and what can go on again and
\* again does: then no connection stays unflushed for ever.
PatientSpec ==
    /\ FairSpec
    /\ \A c \in Clients :
          /\ WF_vars(PeerRecovers(c))
          /\ SF_vars(Handle(c)) /\ SF_vars(Write(c)) /\ SF_vars(Close(c))

-----------------------------------------------------------------------------
(* Properties *)

ServerOK ==
    /\ pushed \in 0 .. MaxFrames /\ ready \in BOOLEAN /\ table \subseteq Clients
    /\ stopper \in {"no", "closing", "waiting", "returned"}
    /\ todo \subseteq Clients /\ current \in Clients \cup {None}
ConnectionOK ==
    /\ peer \in [Clients -> {"absent", "reading", "stalled", "gone"}]
    /\ sock \in [Clients -> {"none", "open", "flushing", "closed"}]
    /\ handler \in [Clients -> {"none", "read", "describe", "respond", "farewell",
                                "closing", "done"}]
    /\ channel \in [Clients -> BOOLEAN] /\ stage \in [Clients -> {"no", "join", "flush", "done"}]
QueueOK ==
    /\ playing \in [Clients -> BOOLEAN]
    /\ closed \in [Clients -> BOOLEAN] /\ lagged \in [Clients -> BOOLEAN]
    /\ queue \in [Clients -> Seq(Frames \cup {None})]
    /\ \A c \in Clients : Len(queue[c]) <= HighWater + 1
WriterOK ==
    /\ writer \in [Clients -> {"none", "get", "pace", "drain", "ended"}]
    /\ inHand \in [Clients -> 0 .. MaxFrames] /\ delivered \in [Clients -> 0 .. MaxFrames]

\* Every variable keeps its kind.  The queue never holds more than the high-water
\* mark and one sentinel, whoever closes the session (rtsp_server.py:336-348).
TypeOK == ServerOK /\ ConnectionOK /\ QueueOK /\ WriterOK

\* What a client receives is a gapless run of the frames that were pushed: a lag
\* ends the run, it never punches a hole into it or repeats a frame
\* (rtsp_server.py:336-352, 381-418, 593-595).
NoGap ==
    [][\A c \in Clients :
          delivered'[c] # delivered[c] /\ delivered[c] # 0 =>
              delivered'[c] = delivered[c] + 1]_vars

\* Once close() has given the connection back nothing is written to it, also when
\* the writer was asleep in the pacer or blocked in drain() at that moment, or a
\* PLAY was still to be read (rtsp_server.py:366-379, 384-418).
NothingWrittenAfterClose ==
    \A c \in Clients : stage[c] \in {"flush", "done"} => writer[c] \notin {"pace", "drain"}

\* A connection that is open is in somebody's books: the server's, stop()'s, or
\* those of a close() in progress.  Only a session dropped for lagging escapes
\* them (rtsp_server.py:336-348, 360-379, 568-573, 639-641).
OpenIsKnown ==
    \A c \in Clients :
        sock[c] = "open" =>
            c \in table \cup todo \cup {current} \/ stage[c] = "join" \/ lagged[c]

\* A client that is gone is forgotten: its handler and its writer end and no
\* frame is queued for it any more (rtsp_server.py:639-641).
DepartedClientIsForgotten ==
    \A c \in Clients :
        peer[c] = "gone" ~>
            c \notin table /\ handler[c] = "done" /\ writer[c] \in {"none", "ended"}

\* The session stop() is closing has its connection given back to the transport,
\* also when its client does not read and its writer is stuck in drain(): the two
\* seconds see to that (rtsp_server.py:366-379).  The sessions after it have to
\* wait for that connection's buffer to be read (568-580).
StopGivesBack ==
    \A c \in Clients : current = c ~> lagged[c] \/ sock[c] \in {"flushing", "closed"}

\* stop() returns, so that the bridge can release what comes after the server
\* (rtsp_server.py:568-580).
StopCompletes == stopper # "no" ~> stopper = "returned"
=============================================================================
