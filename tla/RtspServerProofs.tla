-------------------------- MODULE RtspServerProofs --------------------------
(***************************************************************************)
(* Theorems about RtspServer, for any number of connections, any length of *)
(* the queue and any number of frames.                                     *)
(*                                                                         *)
(* Who closes a session first leaves traces that the others go by:         *)
(* CloseShape relates them.  RunShape follows the frames from push_rtp     *)
(* through the queue and the writer's hand to the connection.              *)
(***************************************************************************)
EXTENDS RtspServer, TLAPS

\* A client that has not connected has no session.
AbsentOf(c) ==
    peer[c] = "absent" =>
        handler[c] = "none" /\ ~closed[c] /\ writer[c] = "none" /\ c \notin table \cup todo

\* A session that somebody marked closed gets no more frames; unless push_rtp did it,
\* a close() is under way, which gives the connection back when no writer is left.
CloseOf(c) ==
    /\ ~closed[c] => Len(queue[c]) <= HighWater
    /\ stage[c] # "no" => closed[c]
    /\ closed[c] => stage[c] # "no" \/ lagged[c]
    /\ handler[c] \in {"closing", "done"} => closed[c]
    /\ stage[c] \in {"flush", "done"} => sock[c] \notin {"none", "open"}
    /\ sock[c] \notin {"none", "open"} => closed[c] /\ writer[c] \notin {"pace", "drain"}

\* An open connection is in somebody's books.
KnownOf(c) ==
    sock[c] = "open" =>
        c \in table \cup todo \cup {current} \/ stage[c] = "join" \/ lagged[c]

\* Frames in a row, and the sentinel at the end if it is there.
Run(q) ==
    /\ \A i \in 1 .. Len(q) : q[i] = None => i = Len(q)
    /\ \A i \in 1 .. Len(q) - 1 : q[i + 1] # None => q[i + 1] = q[i] + 1

\* What a session has of the stream: the last frame sent, the one in the writer's hand,
\* the ones queued and, as long as it is offered them, the one pushed last follow
\* each other.
RunOf(c) ==
    /\ Run(queue[c])
    /\ \A i \in 1 .. Len(queue[c]) : queue[c][i] = None => closed[c]
    /\ writer[c] = "none" =>
          /\ inHand[c] = 0 /\ delivered[c] = 0 /\ ~playing[c]
          /\ queue[c] = <<>> \/ closed[c]
    /\ writer[c] \in {"get", "drain"} => delivered[c] = inHand[c]
    /\ writer[c] = "pace" => delivered[c] = 0 \/ inHand[c] = delivered[c] + 1
    /\ writer[c] # "ended" /\ inHand[c] # 0 /\ queue[c] # <<>> /\ Head(queue[c]) # None =>
          Head(queue[c]) = inHand[c] + 1
    /\ c \in table /\ Takes(c) =>
          /\ queue[c] # <<>> => queue[c][Len(queue[c])] = pushed
          /\ writer[c] # "ended" /\ queue[c] = <<>> /\ inHand[c] # 0 => inHand[c] = pushed

\* Before stop() there is nothing of it.
StopShape == stopper = "no" => todo = {} /\ current = None

CloseShape == \A c \in Clients : CloseOf(c)
BooksShape == \A c \in Clients : AbsentOf(c) /\ KnownOf(c)
RunShape == \A c \in Clients : RunOf(c)

IInv == TypeOK /\ StopShape /\ CloseShape /\ BooksShape /\ RunShape

-----------------------------------------------------------------------------
(* Type correctness *)

\* The queue as a sequence: what taking and appending do to it.
LEMMA Ends ==
    ASSUME NEW S, NEW q \in Seq(S), NEW e \in S
    PROVE  /\ Append(q, e) \in Seq(S) /\ Len(Append(q, e)) = Len(q) + 1
           /\ q # <<>> => Head(q) \in S /\ Tail(q) \in Seq(S) /\ Len(Tail(q)) = Len(q) - 1
  OBVIOUS

\* The parts of the state a step leaves alone.
LEMMA Untouched ==
    ASSUME TypeOK
    PROVE  /\ UNCHANGED <<media, table, stopVars>> => ServerOK'
           /\ UNCHANGED <<outside, handler, channel, stage>> => ConnectionOK'
           /\ UNCHANGED <<playing, closed, queue, lagged>> => QueueOK'
           /\ UNCHANGED sending => WriterOK'
<1>1. ServerOK /\ ConnectionOK /\ QueueOK /\ WriterOK
  BY DEF TypeOK
<1>2. UNCHANGED <<media, table, stopVars>> => ServerOK'
  BY <1>1 DEF ServerOK, media, stopVars
<1>3. UNCHANGED <<outside, handler, channel, stage>> => ConnectionOK'
  BY <1>1 DEF ConnectionOK, outside
<1>4. UNCHANGED <<playing, closed, queue, lagged>> => QueueOK'
  BY <1>1 DEF QueueOK
<1>5. UNCHANGED sending => WriterOK'
  BY <1>1 DEF WriterOK, sending
<1> QED BY <1>2, <1>3, <1>4, <1>5

LEMMA InitTypes == Init => TypeOK
<1> SUFFICES ASSUME Init PROVE TypeOK
  OBVIOUS
<1>1. ServerOK
  <2>1. 0 \in 0 .. MaxFrames
    BY ServerAssumption
  <2> QED BY <2>1 DEF Init, ServerOK
<1>2. ConnectionOK
  BY DEF Init, ConnectionOK
<1>3. QueueOK
  BY ServerAssumption DEF Init, QueueOK
<1>4. WriterOK
  BY ServerAssumption DEF Init, WriterOK
<1> QED BY <1>1, <1>2, <1>3, <1>4 DEF TypeOK

\* The part of close() that runs at once.
LEMMA BeginCloseTypes ==
    ASSUME TypeOK, CloseShape, NEW c \in Clients, BeginClose(c), UNCHANGED lagged
    PROVE  /\ QueueOK'
           /\ stage' \in [Clients -> {"no", "join", "flush", "done"}]
           /\ sock' \in [Clients -> {"none", "open", "flushing", "closed"}]
<1>1. QueueOK /\ ConnectionOK
  BY DEF TypeOK
<1>2. /\ Append(queue[c], None) \in Seq(Frames \cup {None})
      /\ Len(Append(queue[c], None)) <= HighWater + 1
  BY <1>1, Ends, ServerAssumption DEF QueueOK, CloseShape, CloseOf, BeginClose
<1>3. QueueOK'
  BY <1>1, <1>2 DEF QueueOK, BeginClose
<1>4. /\ stage' \in [Clients -> {"no", "join", "flush", "done"}]
      /\ sock' \in [Clients -> {"none", "open", "flushing", "closed"}]
  BY <1>1 DEF ConnectionOK, BeginClose
<1> QED BY <1>3, <1>4

LEMMA PushTypes ==
    ASSUME TypeOK, CloseShape, NEW completes \in BOOLEAN, Push(completes) PROVE TypeOK'
<1>1. ServerOK /\ ConnectionOK /\ QueueOK /\ WriterOK
  BY DEF TypeOK
<1>2. pushed' \in Frames /\ pushed' \in 0 .. MaxFrames
  BY <1>1, ServerAssumption DEF ServerOK, Push, Frames
<1>3. ServerOK'
  BY <1>1, <1>2 DEF ServerOK, Push, stopVars
<1>4. \A c \in Clients :
          /\ Queued(c, pushed') \in Seq(Frames \cup {None})
          /\ Len(Queued(c, pushed')) <= HighWater + 1
  <2> SUFFICES ASSUME NEW c \in Clients
               PROVE  /\ Queued(c, pushed') \in Seq(Frames \cup {None})
                      /\ Len(Queued(c, pushed')) <= HighWater + 1
    OBVIOUS
  <2>1. queue[c] \in Seq(Frames \cup {None}) /\ Len(queue[c]) \in Nat
        /\ Len(queue[c]) <= HighWater + 1 /\ (Takes(c) => Len(queue[c]) <= HighWater)
    BY <1>1 DEF QueueOK, CloseShape, CloseOf, Takes
  <2>2. CASE Takes(c)
    BY <1>2, <2>1, <2>2, Ends, ServerAssumption DEF Queued, Lags
  <2>3. CASE ~Takes(c)
    BY <2>1, <2>3 DEF Queued, Lags
  <2> QED BY <2>2, <2>3
<1>5. QueueOK'
  <2>1. playing' \in [Clients -> BOOLEAN] /\ closed' \in [Clients -> BOOLEAN]
        /\ lagged' \in [Clients -> BOOLEAN]
    BY <1>1 DEF QueueOK, Push, ClosedByPush, Lags, Takes
  <2>2. queue' \in [Clients -> Seq(Frames \cup {None})]
        /\ \A c \in Clients : Len(queue'[c]) <= HighWater + 1
    BY <1>1, <1>4 DEF QueueOK, Push
  <2> QED BY <2>1, <2>2 DEF QueueOK
<1>6. ConnectionOK' /\ WriterOK'
  BY Untouched DEF Push
<1> QED BY <1>3, <1>5, <1>6 DEF TypeOK

\* The end of _handle_client, and a step of stop(): each runs close() or passes by.
LEMMA FinishTypes ==
    ASSUME TypeOK, CloseShape, NEW c \in Clients, Finish(c) PROVE TypeOK'
<1>1. ServerOK /\ ConnectionOK /\ QueueOK /\ WriterOK
  BY DEF TypeOK
<1>2. ServerOK'
  BY <1>1 DEF ServerOK, Finish, Forgotten, media, stopVars
<1>3. WriterOK'
  BY Untouched DEF Finish
<1>4. CASE UNCHANGED <<sock, playing, closed, queue, stage>> /\ handler' = [handler EXCEPT ![c] = "done"]
  <2>1. QueueOK'
    BY <1>4, Untouched DEF Finish
  <2>2. ConnectionOK'
    BY <1>1, <1>4 DEF ConnectionOK, Finish
  <2> QED BY <1>2, <1>3, <2>1, <2>2 DEF TypeOK
<1>5. CASE BeginClose(c) /\ handler' = [handler EXCEPT ![c] = "closing"]
  <2>1. UNCHANGED <<peer, channel, lagged>>
    BY DEF Finish
  <2>2. QueueOK' /\ ConnectionOK'
    BY <1>1, <1>5, <2>1, BeginCloseTypes DEF ConnectionOK
  <2> QED BY <1>2, <1>3, <2>2 DEF TypeOK
<1> QED BY <1>4, <1>5 DEF Finish

LEMMA StopTypes ==
    ASSUME TypeOK, CloseShape, NEW rest \in SUBSET Clients, StopGoesOn(rest),
           table' \subseteq Clients,
           UNCHANGED <<peer, media, handler, channel, sending, lagged>>
    PROVE  TypeOK'
<1>1. ServerOK /\ ConnectionOK /\ QueueOK /\ WriterOK
  BY DEF TypeOK
<1>2. WriterOK'
  BY Untouched
<1>3. ASSUME NEW c \in rest, BeginClose(c), current' = c, todo' = RestAfter(rest, c),
             stopper' = "closing"
      PROVE  TypeOK'
  <2>1. ServerOK'
    BY <1>1, <1>3 DEF ServerOK, RestAfter, media
  <2>2. QueueOK' /\ ConnectionOK'
    BY <1>1, <1>3, BeginCloseTypes DEF ConnectionOK
  <2> QED BY <1>2, <2>1, <2>2 DEF TypeOK
<1>4. CASE /\ stopper' = "waiting" /\ current' = None /\ todo' = {}
           /\ UNCHANGED <<sock, playing, closed, queue, stage>>
  <2>1. ServerOK'
    BY <1>1, <1>4 DEF ServerOK, media
  <2>2. QueueOK' /\ ConnectionOK'
    BY <1>4, Untouched DEF outside
  <2> QED BY <1>2, <2>1, <2>2 DEF TypeOK
<1> QED BY <1>3, <1>4 DEF StopGoesOn

\* The writer's steps.
LEMMA WriterTypes ==
    ASSUME TypeOK, NEW c \in Clients, Write(c) \/ WriterJoined(c) PROVE TypeOK'
<1>1. ServerOK /\ ConnectionOK /\ QueueOK /\ WriterOK
  BY DEF TypeOK
<1>2. CASE Take(c)
  <2>1. ServerOK' /\ ConnectionOK'
    BY <1>2, Untouched DEF Take
  <2>2. queue[c] \in Seq(Frames \cup {None}) /\ queue[c] # <<>>
    BY <1>1, <1>2 DEF QueueOK, Take
  <2>3. /\ Tail(queue[c]) \in Seq(Frames \cup {None}) /\ Len(Tail(queue[c])) <= HighWater + 1
        /\ Head(queue[c]) \in Frames \cup {None}
    BY <1>1, <2>2, Ends, ServerAssumption DEF QueueOK
  <2>4. QueueOK'
    BY <1>1, <1>2, <2>3 DEF QueueOK, Take
  <2>5. Head(queue[c]) # None => Head(queue[c]) \in 0 .. MaxFrames
    BY <2>3 DEF Frames
  <2>6. WriterOK'
    BY <1>1, <1>2, <2>5 DEF WriterOK, Take
  <2> QED BY <2>1, <2>4, <2>6 DEF TypeOK
<1>3. CASE Send(c) \/ Drained(c)
  <2>1. ServerOK' /\ ConnectionOK' /\ QueueOK'
    BY <1>3, Untouched DEF Send, Drained, session
  <2>2. WriterOK'
    BY <1>1, <1>3 DEF WriterOK, Send, Drained
  <2> QED BY <2>1, <2>2 DEF TypeOK
<1>4. CASE WriterJoined(c)
  <2>1. ServerOK' /\ QueueOK'
    BY <1>4, Untouched DEF WriterJoined, session
  <2>2. ConnectionOK'
    BY <1>1, <1>4 DEF WriterJoined, ConnectionOK, session
  <2>3. WriterOK'
    BY <1>1, <1>4 DEF WriterJoined, WriterOK, AfterTimeout
  <2> QED BY <2>1, <2>2, <2>3 DEF TypeOK
<1> QED BY <1>2, <1>3, <1>4 DEF Write

\* Requests, and what the outside does.
LEMMA RequestTypes ==
    ASSUME TypeOK, NEW c \in Clients,
           \/ Connect(c) \/ Peer(c) \/ PlainRequest(c) \/ Describe(c) \/ Setup(c) \/ Play(c)
           \/ TeardownRequest(c) \/ Described(c) \/ Responded(c) \/ HandlerDone(c)
           \/ Flushed(c) \/ Finalized(c)
    PROVE  TypeOK'
<1>1. ServerOK /\ ConnectionOK /\ QueueOK /\ WriterOK
  BY DEF TypeOK
<1>2. CASE Connect(c)
  <2>1. ServerOK'
    BY <1>1, <1>2 DEF Connect, ServerOK, media, stopVars
  <2>2. ConnectionOK'
    BY <1>1, <1>2 DEF Connect, ConnectionOK, session
  <2>3. QueueOK' /\ WriterOK'
    BY <1>2, Untouched DEF Connect, session
  <2> QED BY <2>1, <2>2, <2>3 DEF TypeOK
<1>3. CASE Peer(c) \/ Flushed(c) \/ Finalized(c)
  <2>1. ServerOK' /\ QueueOK' /\ WriterOK'
    BY <1>3, Untouched DEF Peer, PeerStalls, PeerLeaves, PeerRecovers, PeerBecomes,
       Flushed, Finalized, session
  <2>2. ConnectionOK'
    BY <1>1, <1>3 DEF Peer, PeerStalls, PeerLeaves, PeerRecovers, PeerBecomes, Flushed,
       Finalized, ConnectionOK, session
  <2> QED BY <2>1, <2>2 DEF TypeOK
<1>4. CASE \/ PlainRequest(c) \/ Describe(c) \/ TeardownRequest(c) \/ Described(c)
           \/ Responded(c) \/ HandlerDone(c)
  <2>1. ServerOK' /\ QueueOK' /\ WriterOK'
    BY <1>4, Untouched DEF PlainRequest, Describe, TeardownRequest, Described, Responded,
       HandlerDone, session
  <2>2. /\ \E h \in {"read", "describe", "respond", "farewell", "done"} :
              handler' = [handler EXCEPT ![c] = h]
        /\ UNCHANGED <<outside, channel, stage>>
    BY <1>4 DEF PlainRequest, Describe, TeardownRequest, Described, Responded,
       HandlerDone, session
  <2>3. ConnectionOK'
    BY <1>1, <2>2 DEF ConnectionOK, outside
  <2> QED BY <2>1, <2>3 DEF TypeOK
<1>5. CASE Setup(c)
  <2>1. ServerOK' /\ QueueOK' /\ WriterOK'
    BY <1>5, Untouched DEF Setup
  <2>2. ConnectionOK'
    BY <1>1, <1>5 DEF Setup, ConnectionOK, outside
  <2> QED BY <2>1, <2>2 DEF TypeOK
<1>6. CASE Play(c)
  <2>1. ServerOK'
    BY <1>6, Untouched DEF Play
  <2>2. ConnectionOK'
    BY <1>1, <1>6 DEF Play, ConnectionOK, outside
  <2>3. QueueOK'
    BY <1>1, <1>6 DEF Play, QueueOK
  <2>4. WriterOK'
    BY <1>1, <1>6 DEF Play, WriterOK
  <2> QED BY <2>1, <2>2, <2>3, <2>4 DEF TypeOK
<1> QED BY <1>2, <1>3, <1>4, <1>5, <1>6

LEMMA TypeStep == ASSUME TypeOK, CloseShape, [Next]_vars PROVE TypeOK'
<1>0. table \in SUBSET Clients /\ todo \in SUBSET Clients
  BY DEF TypeOK, ServerOK
<1>1. ASSUME NEW c \in Clients,
             Connect(c) \/ Peer(c) \/ Request(c) \/ Handle(c) \/ Write(c) \/ Close(c)
      PROVE  TypeOK'
  BY <1>1, RequestTypes, WriterTypes, FinishTypes
     DEF Request, Malformed, Handle, EndOfStream, Farewell, Close
<1>2. ASSUME NEW completes \in BOOLEAN, Push(completes) PROVE TypeOK'
  BY <1>2, PushTypes
<1>3. CASE StopBegins \/ StopNext
  <2>1. CASE StopBegins
    BY <1>0, <2>1, StopTypes DEF StopBegins
  <2>2. CASE StopNext
    BY <1>0, <2>2, StopTypes DEF StopNext
  <2> QED BY <1>3, <2>1, <2>2
<1>4. CASE StopReturns
  <2>1. ServerOK'
    BY <1>4 DEF StopReturns, TypeOK, ServerOK, media
  <2> QED BY <1>4, <2>1, Untouched DEF StopReturns, session, TypeOK
<1>5. CASE UNCHANGED vars
  BY <1>5, Untouched DEF vars, session, TypeOK
<1> QED BY <1>1, <1>2, <1>3, <1>4, <1>5 DEF Next, StopServer

-----------------------------------------------------------------------------
(* Sessions do not disturb each other *)

\* Nothing of d's session changes.
Same(d) ==
    /\ peer'[d] = peer[d] /\ sock'[d] = sock[d] /\ handler'[d] = handler[d]
    /\ playing'[d] = playing[d] /\ closed'[d] = closed[d] /\ queue'[d] = queue[d]
    /\ writer'[d] = writer[d] /\ inHand'[d] = inHand[d] /\ delivered'[d] = delivered[d]
    /\ stage'[d] = stage[d] /\ lagged'[d] = lagged[d]

ClientStep(c) ==
    Connect(c) \/ Peer(c) \/ Request(c) \/ Handle(c) \/ Write(c) \/ Close(c)

LEMMA OthersUntouched ==
    ASSUME TypeOK, NEW c \in Clients, ClientStep(c), NEW d \in Clients, d # c
    PROVE  Same(d) /\ (d \in table' <=> d \in table) /\ UNCHANGED <<pushed, stopVars>>
<1> USE DEF Same, outside, media, session, sending
<1>0. ConnectionOK /\ QueueOK /\ WriterOK
  BY DEF TypeOK
<1>1. ASSUME Finish(c)
      PROVE  Same(d) /\ (d \in table' <=> d \in table) /\ UNCHANGED <<pushed, stopVars>>
  BY <1>0, <1>1 DEF Finish, Forgotten, BeginClose, ConnectionOK, QueueOK
<1>2. CASE Connect(c) \/ Peer(c)
  BY <1>0, <1>2 DEF Connect, Peer, PeerStalls, PeerLeaves, PeerRecovers, PeerBecomes,
     ConnectionOK
<1>3. CASE PlainRequest(c) \/ Describe(c) \/ Setup(c) \/ TeardownRequest(c)
  BY <1>0, <1>3 DEF PlainRequest, Describe, Setup, TeardownRequest, ConnectionOK
<1>4. CASE Play(c)
  BY <1>0, <1>4 DEF Play, ConnectionOK, QueueOK, WriterOK
<1>5. CASE Described(c) \/ Responded(c) \/ HandlerDone(c)
  BY <1>0, <1>5 DEF Described, Responded, HandlerDone, ConnectionOK
<1>6. CASE Malformed(c) \/ EndOfStream(c) \/ Farewell(c)
  BY <1>1, <1>6 DEF Malformed, EndOfStream, Farewell
<1>7. CASE Write(c)
  BY <1>0, <1>7 DEF Write, Take, Send, Drained, QueueOK, WriterOK
<1>8. CASE Close(c)
  BY <1>0, <1>8 DEF Close, WriterJoined, Flushed, Finalized, ConnectionOK, WriterOK
<1> QED BY <1>2, <1>3, <1>4, <1>5, <1>6, <1>7, <1>8 DEF ClientStep, Request, Handle

LEMMA SameShape ==
    ASSUME NEW d \in Clients, Same(d), d \in table' <=> d \in table,
           UNCHANGED <<pushed, stopVars>>
    PROVE  /\ AbsentOf(d) => AbsentOf(d)'
           /\ CloseOf(d) => CloseOf(d)'
           /\ KnownOf(d) => KnownOf(d)'
           /\ RunOf(d) => RunOf(d)'
<1>1. AbsentOf(d) => AbsentOf(d)'
  BY DEF AbsentOf, Same, stopVars
<1>2. CloseOf(d) => CloseOf(d)'
  BY DEF CloseOf, Same
<1>3. KnownOf(d) => KnownOf(d)'
  BY DEF KnownOf, Same, stopVars
<1>4. RunOf(d) => RunOf(d)'
  BY DEF RunOf, Run, Takes, Same
<1> QED BY <1>1, <1>2, <1>3, <1>4

-----------------------------------------------------------------------------
(* Who closes a session, and who knows of it *)

\* What close() does at once to its session.
LEMMA BeginCloseAt ==
    ASSUME TypeOK, NEW c \in Clients, BeginClose(c)
    PROVE  /\ ~closed[c] /\ closed'[c] /\ ~playing'[c]
           /\ queue'[c] = Append(queue[c], None)
           /\ \/ writer[c] = "none" /\ stage'[c] = "flush" /\ sock'[c] = "flushing"
              \/ writer[c] # "none" /\ stage'[c] = "join" /\ sock'[c] = sock[c]
           /\ \A d \in Clients \ {c} :
                 /\ closed'[d] = closed[d] /\ playing'[d] = playing[d]
                 /\ queue'[d] = queue[d] /\ stage'[d] = stage[d] /\ sock'[d] = sock[d]
  BY DEF BeginClose, TypeOK, ConnectionOK, QueueOK

LEMMA OwnBooks ==
    ASSUME TypeOK, NEW c \in Clients, ClientStep(c), AbsentOf(c), CloseOf(c), KnownOf(c)
    PROVE  AbsentOf(c)' /\ CloseOf(c)' /\ KnownOf(c)'
<1> USE DEF AbsentOf, CloseOf, KnownOf, outside, media, session, sending, stopVars
<1>0. /\ ConnectionOK /\ QueueOK /\ WriterOK
      /\ ~closed[c] => Len(queue[c]) <= HighWater
  BY DEF TypeOK
<1>1. ASSUME Finish(c), peer[c] # "absent" PROVE AbsentOf(c)' /\ CloseOf(c)' /\ KnownOf(c)'
  <2>1. CASE BeginClose(c)
    BY <1>0, <1>1, <2>1, BeginCloseAt DEF Finish
  <2>2. CASE closed[c] /\ UNCHANGED <<sock, playing, closed, queue, stage>>
    <3>1. c \notin table' /\ UNCHANGED <<peer, writer, lagged, stopVars>>
      BY <1>1 DEF Finish, Forgotten
    <3>2. handler'[c] \in {"done", "closing"}
      BY <1>0, <1>1 DEF Finish, ConnectionOK
    <3>3. AbsentOf(c)'
      BY <1>1, <3>1
    <3>4. CloseOf(c)'
      BY <2>2, <3>1
    <3>5. stage[c] \in {"no", "join", "flush", "done"}
      BY <1>0 DEF ConnectionOK
    <3>6. KnownOf(c)'
      BY <2>2, <3>1, <3>5
    <3> QED BY <3>3, <3>4, <3>6
  <2> QED BY <1>1, <2>1, <2>2 DEF Finish
<1>2. CASE Connect(c)
  BY <1>0, <1>2 DEF Connect, ConnectionOK
<1>3. CASE Peer(c)
  BY <1>0, <1>3 DEF Peer, PeerStalls, PeerLeaves, PeerRecovers, PeerBecomes, ConnectionOK
<1>4. CASE PlainRequest(c) \/ Describe(c) \/ Setup(c) \/ TeardownRequest(c)
  BY <1>0, <1>4 DEF PlainRequest, Describe, Setup, TeardownRequest, AsksForVideo, Asks,
     ConnectionOK
<1>5. CASE Play(c)
  BY <1>0, <1>5 DEF Play, AsksForVideo, Asks, ConnectionOK, WriterOK
<1>6. CASE Described(c) \/ Responded(c) \/ HandlerDone(c)
  BY <1>0, <1>6 DEF Described, Responded, HandlerDone, ConnectionOK
<1>7. CASE Malformed(c) \/ EndOfStream(c) \/ Farewell(c)
  BY <1>1, <1>7 DEF Malformed, EndOfStream, Farewell, Asks
<1>8. CASE Take(c)
  <2>1. Len(queue'[c]) = Len(queue[c]) - 1 /\ Len(queue[c]) \in Nat
    BY <1>0, <1>8, Ends DEF Take, QueueOK
  <2> QED BY <1>0, <1>8, <2>1, ServerAssumption DEF Take, WriterOK
<1>9. CASE Send(c) \/ Drained(c)
  BY <1>0, <1>9 DEF Send, Drained, WriterOK
<1>10. CASE WriterJoined(c)
  BY <1>0, <1>10 DEF WriterJoined, AfterTimeout, ConnectionOK, WriterOK
<1>11. CASE Flushed(c) \/ Finalized(c)
  BY <1>0, <1>11 DEF Flushed, Finalized, ConnectionOK
<1> QED
  BY <1>2, <1>3, <1>4, <1>5, <1>6, <1>7, <1>8, <1>9, <1>10, <1>11
     DEF ClientStep, Request, Handle, Write, Close

LEMMA PushBooks ==
    ASSUME TypeOK, CloseShape, BooksShape, NEW completes \in BOOLEAN, Push(completes)
    PROVE  CloseShape' /\ BooksShape'
<1> SUFFICES ASSUME NEW c \in Clients PROVE CloseOf(c)' /\ AbsentOf(c)' /\ KnownOf(c)'
  BY DEF CloseShape, BooksShape
<1>0. CloseOf(c) /\ AbsentOf(c) /\ KnownOf(c)
  BY DEF CloseShape, BooksShape
<1>1. UNCHANGED <<peer, sock, handler, writer, stage, table, stopVars>>
  BY DEF Push, outside, sending
<1>2. /\ lagged'[c] = (lagged[c] \/ (c \in table /\ Lags(c)))
      /\ closed'[c] = IF c \in table THEN ClosedByPush(c) ELSE closed[c]
      /\ queue'[c] = IF c \in table THEN Queued(c, pushed') ELSE queue[c]
  BY DEF Push
<1>3. queue[c] \in Seq(Frames \cup {None}) /\ Len(queue[c]) \in Nat
  BY DEF TypeOK, QueueOK
<1>4. CASE c \in table /\ Lags(c)
  BY <1>0, <1>1, <1>2, <1>4 DEF CloseOf, AbsentOf, KnownOf, ClosedByPush, stopVars
<1>5. CASE c \in table /\ ~Lags(c) /\ Takes(c)
  <2>1. (closed'[c] <=> closed[c]) /\ (lagged'[c] <=> lagged[c])
    BY <1>2, <1>5 DEF ClosedByPush, Takes
  <2>2. queue'[c] = Append(queue[c], pushed') /\ ~(Len(queue[c]) >= HighWater)
    BY <1>2, <1>5 DEF Queued, Lags
  <2>3. Len(queue'[c]) = Len(queue[c]) + 1
    BY <1>3, <2>2
  <2>4. Len(queue'[c]) <= HighWater
    BY <1>3, <2>2, <2>3, ServerAssumption
  <2> QED BY <1>0, <1>1, <2>1, <2>4 DEF CloseOf, AbsentOf, KnownOf, stopVars
<1>6. CASE c \notin table \/ (~Lags(c) /\ ~Takes(c))
  <2>1. queue'[c] = queue[c] /\ lagged'[c] = lagged[c]
    BY <1>2, <1>6 DEF Queued, Lags, TypeOK, QueueOK
  <2>2. closed'[c] <=> closed[c]
    BY <1>2, <1>6 DEF ClosedByPush
  <2> QED BY <1>0, <1>1, <2>1, <2>2 DEF CloseOf, AbsentOf, KnownOf, stopVars
<1> QED BY <1>4, <1>5, <1>6

\* stop() takes the sessions over; rest are those it has not come to yet.
LEMMA StopBooks ==
    ASSUME TypeOK, CloseShape, BooksShape, NEW rest \in SUBSET Clients, StopGoesOn(rest),
           rest \subseteq table \cup todo, table' \subseteq table,
           \A d \in Clients : sock[d] = "open" =>
               d \in table' \cup rest \/ stage[d] = "join" \/ lagged[d],
           UNCHANGED <<peer, media, handler, channel, sending, lagged>>
    PROVE  CloseShape' /\ BooksShape'
<1> SUFFICES ASSUME NEW d \in Clients PROVE CloseOf(d)' /\ AbsentOf(d)' /\ KnownOf(d)'
  BY DEF CloseShape, BooksShape
<1>0. CloseOf(d) /\ AbsentOf(d)
  BY DEF CloseShape, BooksShape
<1>1. UNCHANGED <<peer, handler, writer, lagged>>
  BY DEF sending
<1>2. ASSUME NEW c \in rest, BeginClose(c), current' = c, todo' = RestAfter(rest, c)
      PROVE  CloseOf(d)' /\ AbsentOf(d)' /\ KnownOf(d)'
  <2>1. CASE d = c
    <3>1. peer[d] # "absent"
      BY <1>0, <1>2, <2>1 DEF AbsentOf
    <3>2. CloseOf(d)'
      BY <1>0, <1>1, <1>2, <2>1, BeginCloseAt DEF CloseOf
    <3>3. AbsentOf(d)' /\ KnownOf(d)'
      BY <1>1, <1>2, <2>1, <3>1 DEF AbsentOf, KnownOf
    <3> QED BY <3>2, <3>3
  <2>2. CASE d # c
    <3>1. /\ closed'[d] = closed[d] /\ queue'[d] = queue[d] /\ stage'[d] = stage[d]
          /\ sock'[d] = sock[d]
      BY <1>2, <2>2, BeginCloseAt
    <3>2. CloseOf(d)'
      BY <1>0, <1>1, <3>1 DEF CloseOf
    <3>3. AbsentOf(d)'
      BY <1>0, <1>1, <1>2, <3>1 DEF AbsentOf, RestAfter
    <3>4. KnownOf(d)'
      BY <1>1, <1>2, <2>2, <3>1 DEF KnownOf, RestAfter
    <3> QED BY <3>2, <3>3, <3>4
  <2> QED BY <2>1, <2>2
<1>3. CASE /\ \A c \in rest : closed[c]
           /\ current' = None /\ todo' = {} /\ UNCHANGED <<sock, playing, closed, queue, stage>>
  <2>1. CloseOf(d)'
    BY <1>0, <1>1, <1>3 DEF CloseOf
  <2>2. AbsentOf(d)'
    BY <1>0, <1>1, <1>3 DEF AbsentOf
  <2>3. stage[d] \in {"no", "join", "flush", "done"}
    BY DEF TypeOK, ConnectionOK
  <2>4. KnownOf(d)'
    BY <1>0, <1>1, <1>3, <2>3 DEF CloseOf, KnownOf
  <2> QED BY <2>1, <2>2, <2>4
<1> QED BY <1>2, <1>3 DEF StopGoesOn

LEMMA BooksStep ==
    ASSUME TypeOK, StopShape, CloseShape, BooksShape, [Next]_vars
    PROVE  StopShape' /\ CloseShape' /\ BooksShape'
<1>0. table \in SUBSET Clients /\ todo \in SUBSET Clients
  BY DEF TypeOK, ServerOK
<1>1. ASSUME NEW c \in Clients, ClientStep(c)
      PROVE  StopShape' /\ CloseShape' /\ BooksShape'
  <2>1. ASSUME NEW d \in Clients PROVE AbsentOf(d)' /\ CloseOf(d)' /\ KnownOf(d)'
    <3>1. AbsentOf(d) /\ CloseOf(d) /\ KnownOf(d)
      BY DEF CloseShape, BooksShape
    <3>2. CASE d = c
      BY <1>1, <3>1, <3>2, OwnBooks
    <3>3. CASE d # c
      BY <1>1, <3>1, <3>3, OthersUntouched, SameShape
    <3> QED BY <3>2, <3>3
  <2>2. UNCHANGED stopVars
    BY <1>1 DEF ClientStep, Connect, Peer, PeerStalls, PeerLeaves, PeerRecovers,
       PeerBecomes, Request, PlainRequest, Describe, Setup, Play, TeardownRequest,
       Malformed, Handle, Described, Responded, EndOfStream, Farewell, HandlerDone,
       Finish, Write, Take, Send, Drained, Close, WriterJoined, Flushed, Finalized
  <2> QED BY <2>1, <2>2 DEF CloseShape, BooksShape, StopShape, stopVars
<1>2. ASSUME NEW completes \in BOOLEAN, Push(completes)
      PROVE  StopShape' /\ CloseShape' /\ BooksShape'
  BY <1>2, PushBooks DEF Push, StopShape, stopVars
<1>3. CASE StopBegins
  <2>1. stopper = "no" /\ StopGoesOn(table) /\ table' = {}
        /\ UNCHANGED <<peer, media, handler, channel, sending, lagged>>
    BY <1>3 DEF StopBegins
  <2>2. ASSUME NEW d \in Clients, sock[d] = "open"
        PROVE  d \in table' \cup table \/ stage[d] = "join" \/ lagged[d]
    BY <2>1, <2>2, ServerAssumption DEF BooksShape, KnownOf, StopShape
  <2>3. CloseShape' /\ BooksShape'
    BY <1>0, <2>1, <2>2, StopBooks
  <2>4. StopShape'
    BY <2>1 DEF StopGoesOn, StopShape
  <2> QED BY <2>3, <2>4
<1>4. CASE StopNext
  <2>1. current # None /\ stage[current] = "done" /\ StopGoesOn(todo)
        /\ UNCHANGED <<peer, media, table, handler, channel, sending, lagged>>
    BY <1>4 DEF StopNext
  <2>2. ASSUME NEW d \in Clients, sock[d] = "open"
        PROVE  d \in table' \cup todo \/ stage[d] = "join" \/ lagged[d]
    BY <2>1, <2>2 DEF BooksShape, KnownOf, CloseShape, CloseOf
  <2>3. CloseShape' /\ BooksShape'
    BY <1>0, <2>1, <2>2, StopBooks
  <2>4. StopShape'
    BY <2>1 DEF StopGoesOn, StopShape
  <2> QED BY <2>3, <2>4
<1>5. CASE StopReturns \/ UNCHANGED vars
  <2>1. UNCHANGED <<pushed, table, todo, current>> /\ \A d \in Clients : Same(d)
    BY <1>5 DEF StopReturns, vars, Same, outside, media, session, sending, stopVars
  <2>2. CloseShape'
    BY <2>1 DEF CloseShape, CloseOf, Same
  <2>3. BooksShape'
    BY <2>1 DEF BooksShape, AbsentOf, KnownOf, Same
  <2>4. StopShape'
    BY <1>5 DEF StopReturns, vars, StopShape, stopVars
  <2> QED BY <2>2, <2>3, <2>4
<1> QED BY <1>1, <1>2, <1>3, <1>4, <1>5 DEF Next, ClientStep, StopServer

-----------------------------------------------------------------------------
(* What a session has of the stream *)

Items == Frames \cup {None}

\* The next item goes to the end of a run that has no sentinel.
LEMMA RunAppend ==
    ASSUME NEW q \in Seq(Items), NEW e \in Items, Run(q),
           \A i \in 1 .. Len(q) : q[i] # None,
           e # None /\ q # <<>> => e = q[Len(q)] + 1
    PROVE  /\ Run(Append(q, e)) /\ Append(q, e) # <<>>
           /\ Append(q, e)[Len(Append(q, e))] = e
           /\ q # <<>> => Head(Append(q, e)) = Head(q)
           /\ q = <<>> => Head(Append(q, e)) = e
           /\ \A i \in 1 .. Len(Append(q, e)) : Append(q, e)[i] = None => e = None
<1> DEFINE a == Append(q, e)
<1>1. Len(a) = Len(q) + 1 /\ Len(q) \in Nat /\ a[Len(a)] = e
      /\ \A i \in 1 .. Len(q) : a[i] = q[i]
  OBVIOUS
<1>2. \A i \in 1 .. Len(a) : i \in 1 .. Len(q) \/ i = Len(a)
  BY <1>1
<1>3. \A i \in 1 .. Len(a) : a[i] = None => i = Len(a)
  BY <1>1, <1>2
<1>4. \A i \in 1 .. Len(a) - 1 : a[i + 1] # None => a[i + 1] = a[i] + 1
  <2> SUFFICES ASSUME NEW i \in 1 .. Len(a) - 1, a[i + 1] # None PROVE a[i + 1] = a[i] + 1
    OBVIOUS
  <2>1. CASE i + 1 \in 1 .. Len(q)
    <3>1. i \in 1 .. Len(q) - 1 /\ a[i] = q[i] /\ a[i + 1] = q[i + 1]
      BY <1>1, <2>1
    <3> QED BY <3>1 DEF Run
  <2>2. CASE i + 1 = Len(a)
    <3>1. i = Len(q) /\ q # <<>> /\ a[i] = q[i]
      BY <1>1, <2>2
    <3> QED BY <1>1, <2>2, <3>1
  <2> QED BY <1>1, <2>1, <2>2
<1>5. q # <<>> => Head(a) = Head(q)
  BY <1>1
<1>6. q = <<>> => Head(a) = e
  BY <1>1
<1>7. \A i \in 1 .. Len(a) : a[i] = None => e = None
  BY <1>1, <1>3
<1>8. Run(a)
  BY <1>3, <1>4 DEF Run
<1>9. a # <<>>
  OBVIOUS
<1> HIDE DEF a
<1> QED BY <1>1, <1>5, <1>6, <1>7, <1>8, <1>9 DEF a

\* The first item is taken from a run.
LEMMA RunTail ==
    ASSUME NEW q \in Seq(Items), q # <<>>, Run(q)
    PROVE  /\ Run(Tail(q))
           /\ Head(q) = None => Tail(q) = <<>>
           /\ Tail(q) # <<>> /\ Head(Tail(q)) # None => Head(Tail(q)) = Head(q) + 1
           /\ Tail(q) # <<>> => Tail(q)[Len(Tail(q))] = q[Len(q)]
           /\ Tail(q) = <<>> => q[Len(q)] = Head(q)
           /\ \A i \in 1 .. Len(Tail(q)) : Tail(q)[i] = q[i + 1] /\ i + 1 \in 1 .. Len(q)
<1> DEFINE t == Tail(q)
<1>1. /\ Len(t) = Len(q) - 1 /\ Len(q) \in Nat /\ Len(q) >= 1 /\ Head(q) = q[1]
      /\ \A i \in 1 .. Len(t) : t[i] = q[i + 1] /\ i + 1 \in 1 .. Len(q)
  OBVIOUS
<1>2. \A i \in 1 .. Len(t) : t[i] = None => i = Len(t)
  <2> SUFFICES ASSUME NEW i \in 1 .. Len(t), t[i] = None PROVE i = Len(t)
    OBVIOUS
  <2>1. q[i + 1] = None /\ i + 1 \in 1 .. Len(q)
    BY <1>1
  <2>2. i + 1 = Len(q)
    BY <2>1 DEF Run
  <2>3. i \in Nat /\ Len(q) \in Nat /\ Len(t) = Len(q) - 1
    BY <1>1
  <2> HIDE DEF t
  <2> QED BY <2>2, <2>3
<1>3. \A i \in 1 .. Len(t) - 1 : t[i + 1] # None => t[i + 1] = t[i] + 1
  <2> SUFFICES ASSUME NEW i \in 1 .. Len(t) - 1, t[i + 1] # None PROVE t[i + 1] = t[i] + 1
    OBVIOUS
  <2>1. i + 1 \in 1 .. Len(q) - 1 /\ t[i] = q[i + 1] /\ t[i + 1] = q[(i + 1) + 1]
    BY <1>1
  <2> QED BY <2>1 DEF Run
<1>4. Head(q) = None => t = <<>>
  <2>1. 1 \in 1 .. Len(q)
    BY <1>1
  <2>2. q[1] = None => 1 = Len(q)
    BY <2>1 DEF Run
  <2> QED BY <1>1, <2>2
<1>5. ASSUME t # <<>> PROVE Head(t) = q[2] /\ 1 \in 1 .. Len(q) - 1 /\ t[Len(t)] = q[Len(q)]
  BY <1>1, <1>5
<1>6. t # <<>> /\ Head(t) # None => Head(t) = Head(q) + 1
  <2> SUFFICES ASSUME t # <<>>, Head(t) # None PROVE Head(t) = Head(q) + 1
    OBVIOUS
  <2>1. q[1 + 1] # None => q[1 + 1] = q[1] + 1
    BY <1>5 DEF Run
  <2> QED BY <1>1, <1>5, <2>1
<1>7. t = <<>> => q[Len(q)] = Head(q)
  BY <1>1
<1> QED BY <1>1, <1>2, <1>3, <1>4, <1>5, <1>6, <1>7 DEF Run

\* A step that touches neither the stream nor who gets it.
LEMMA SameRun ==
    ASSUME NEW c \in Clients, RunOf(c), c \in table' => c \in table \/ ~playing[c],
           pushed' = pushed, playing'[c] = playing[c], closed'[c] = closed[c],
           queue'[c] = queue[c], writer'[c] = writer[c], inHand'[c] = inHand[c],
           delivered'[c] = delivered[c]
    PROVE  RunOf(c)'
  BY DEF RunOf, Run, Takes

LEMMA BeginCloseRun ==
    ASSUME TypeOK, NEW c \in Clients, BeginClose(c), RunOf(c), UNCHANGED sending
    PROVE  RunOf(c)'
<1>1. /\ ~closed[c] /\ closed'[c] /\ ~playing'[c] /\ queue'[c] = Append(queue[c], None)
      /\ writer'[c] = writer[c] /\ inHand'[c] = inHand[c] /\ delivered'[c] = delivered[c]
  BY BeginCloseAt DEF sending
<1>2. queue[c] \in Seq(Items) /\ Run(queue[c]) /\ None \in Items
      /\ \A i \in 1 .. Len(queue[c]) : queue[c][i] # None
  BY <1>1 DEF TypeOK, QueueOK, RunOf, Items
<1>3. /\ Run(queue'[c])
      /\ queue[c] # <<>> => Head(queue'[c]) = Head(queue[c])
      /\ queue[c] = <<>> => Head(queue'[c]) = None
  BY <1>1, <1>2, RunAppend
<1>4. Run(queue[c])'
  BY <1>3 DEF Run
<1> QED BY <1>1, <1>3, <1>4 DEF RunOf, Takes

LEMMA TakeRun ==
    ASSUME TypeOK, NEW c \in Clients, Take(c), RunOf(c) PROVE RunOf(c)'
<1>1. /\ writer[c] = "get" /\ queue[c] # <<>> /\ queue'[c] = Tail(queue[c])
      /\ closed'[c] = closed[c] /\ playing'[c] = playing[c] /\ delivered'[c] = delivered[c]
      /\ table' = table /\ pushed' = pushed
      /\ IF Head(queue[c]) = None \/ closed[c]
         THEN writer'[c] = "ended" /\ inHand'[c] = inHand[c]
         ELSE writer'[c] = "pace" /\ inHand'[c] = Head(queue[c])
  BY DEF Take, TypeOK, QueueOK, WriterOK, media
<1>2. queue[c] \in Seq(Items) /\ Run(queue[c])
  BY DEF TypeOK, QueueOK, RunOf, Items
<1>3. /\ Run(Tail(queue[c])) /\ (Head(queue[c]) = None => Tail(queue[c]) = <<>>)
      /\ Tail(queue[c]) # <<>> /\ Head(Tail(queue[c])) # None =>
            Head(Tail(queue[c])) = Head(queue[c]) + 1
      /\ Tail(queue[c]) # <<>> =>
            Tail(queue[c])[Len(Tail(queue[c]))] = queue[c][Len(queue[c])]
      /\ Tail(queue[c]) = <<>> => queue[c][Len(queue[c])] = Head(queue[c])
      /\ \A i \in 1 .. Len(Tail(queue[c])) :
            Tail(queue[c])[i] = queue[c][i + 1] /\ i + 1 \in 1 .. Len(queue[c])
  BY <1>1, <1>2, RunTail
<1>4. Run(queue[c])'
  BY <1>1, <1>3 DEF Run
<1>5. \A i \in 1 .. Len(queue'[c]) : queue'[c][i] = None => closed'[c]
  BY <1>1, <1>3 DEF RunOf
<1>6. c \in table' /\ Takes(c)' /\ queue'[c] # <<>> => queue'[c][Len(queue'[c])] = pushed'
  BY <1>1, <1>3 DEF RunOf, Takes
<1>7. CASE Head(queue[c]) = None \/ closed[c]
  BY <1>1, <1>4, <1>5, <1>6, <1>7 DEF RunOf
<1>8. CASE ~(Head(queue[c]) = None \/ closed[c])
  <2>1. writer'[c] = "pace" /\ inHand'[c] = Head(queue[c])
    BY <1>1, <1>8
  <2>2. delivered[c] = 0 \/ Head(queue[c]) = delivered[c] + 1
    BY <1>1, <1>8 DEF RunOf
  <2>3. c \in table' /\ Takes(c)' /\ queue'[c] = <<>> => inHand'[c] = pushed'
    BY <1>1, <1>3, <2>1 DEF RunOf, Takes
  <2> QED BY <1>1, <1>3, <1>4, <1>5, <1>6, <2>1, <2>2, <2>3 DEF RunOf
<1> QED BY <1>7, <1>8

LEMMA OwnRun ==
    ASSUME TypeOK, NEW c \in Clients, ClientStep(c), AbsentOf(c), RunOf(c)
    PROVE  RunOf(c)'
<1> USE DEF outside, media, session, sending
<1>0. ConnectionOK /\ QueueOK /\ WriterOK
  BY DEF TypeOK
<1>1. ASSUME Finish(c) PROVE RunOf(c)'
  <2>1. CASE BeginClose(c)
    BY <1>1, <2>1, BeginCloseRun DEF Finish
  <2>2. CASE UNCHANGED <<sock, playing, closed, queue, stage>>
    BY <1>1, <2>2, SameRun DEF Finish, Forgotten
  <2> QED BY <1>1, <2>1, <2>2 DEF Finish
<1>2. CASE Connect(c)
  <2>1. ~playing[c] /\ UNCHANGED <<pushed, playing, closed, queue, writer, inHand, delivered>>
    BY <1>2 DEF Connect, AbsentOf, RunOf
  <2> QED BY <2>1, SameRun
<1>3. CASE Peer(c) \/ Flushed(c) \/ Finalized(c)
  <2>1. UNCHANGED <<table, pushed, playing, closed, queue, writer, inHand, delivered>>
    BY <1>3 DEF Peer, PeerStalls, PeerLeaves, PeerRecovers, PeerBecomes, Flushed, Finalized
  <2> QED BY <2>1, SameRun
<1>4. CASE \/ PlainRequest(c) \/ Describe(c) \/ Setup(c) \/ TeardownRequest(c)
           \/ Described(c) \/ Responded(c) \/ HandlerDone(c)
  <2>1. UNCHANGED <<table, pushed, playing, closed, queue, writer, inHand, delivered>>
    BY <1>4 DEF PlainRequest, Describe, Setup, TeardownRequest, Described, Responded,
       HandlerDone
  <2> QED BY <2>1, SameRun
<1>5. CASE Play(c)
  <2>1. /\ writer[c] = "none" /\ writer'[c] = "get"
        /\ UNCHANGED <<table, pushed, closed, queue, inHand, delivered>>
    BY <1>0, <1>5 DEF Play, WriterOK
  <2>2. Run(queue[c])'
    BY <2>1 DEF RunOf, Run
  <2> QED BY <2>1, <2>2 DEF RunOf, Takes
<1>6. CASE Malformed(c) \/ EndOfStream(c) \/ Farewell(c)
  BY <1>1, <1>6 DEF Malformed, EndOfStream, Farewell
<1>7. CASE Take(c)
  BY <1>7, TakeRun
<1>8. CASE Send(c) \/ Drained(c) \/ WriterJoined(c)
  <2>1. UNCHANGED <<table, pushed, playing, closed, queue, inHand>>
    BY <1>8 DEF Send, Drained, WriterJoined
  <2>2. \/ writer[c] = "pace" /\ writer'[c] = "drain" /\ delivered'[c] = inHand[c]
        \/ writer[c] = "drain" /\ writer'[c] \in {"get", "ended"} /\ UNCHANGED delivered
        \/ writer'[c] = "ended" /\ UNCHANGED delivered
    BY <1>0, <1>8 DEF Send, Drained, WriterJoined, AfterTimeout, WriterOK
  <2>3. Run(queue[c])'
    BY <2>1 DEF RunOf, Run
  <2> QED BY <2>1, <2>2, <2>3 DEF RunOf, Takes
<1> QED
  BY <1>2, <1>3, <1>4, <1>5, <1>6, <1>7, <1>8
     DEF ClientStep, Request, Handle, Write, Close

LEMMA PushRun ==
    ASSUME TypeOK, NEW completes \in BOOLEAN, Push(completes), NEW c \in Clients, RunOf(c)
    PROVE  RunOf(c)'
<1>1. /\ UNCHANGED <<table, playing, writer, inHand, delivered>>
      /\ pushed' = pushed + 1 /\ pushed \in Nat /\ pushed' \in Items /\ pushed' # None
  BY ServerAssumption DEF Push, sending, TypeOK, ServerOK, Items, Frames
<1>2. /\ closed'[c] = IF c \in table THEN ClosedByPush(c) ELSE closed[c]
      /\ queue'[c] = IF c \in table THEN Queued(c, pushed') ELSE queue[c]
  BY DEF Push
<1>3. queue[c] \in Seq(Items) /\ Run(queue[c])
  BY DEF TypeOK, QueueOK, RunOf, Items
<1>4. CASE c \notin table \/ ~Takes(c)
  <2>1. queue'[c] = queue[c] /\ (closed'[c] <=> closed[c])
    BY <1>2, <1>4 DEF Queued, Lags, ClosedByPush
  <2>2. ~(c \in table' /\ Takes(c)')
    BY <1>1, <1>4, <2>1 DEF Takes
  <2>3. Run(queue[c])'
    BY <1>3, <2>1 DEF Run
  <2> QED BY <1>1, <2>1, <2>2, <2>3 DEF RunOf
<1>5. CASE c \in table /\ Takes(c)
  <2>0. \A i \in 1 .. Len(queue[c]) : queue[c][i] # None
    BY <1>5 DEF RunOf, Takes
  <2>1. CASE Lags(c)
    <3>1. queue'[c] = Append(queue[c], None) /\ closed'[c]
      BY <1>2, <1>5, <2>1 DEF Queued, ClosedByPush
    <3>2. /\ Run(queue'[c])
          /\ queue[c] # <<>> => Head(queue'[c]) = Head(queue[c])
          /\ queue[c] = <<>> => Head(queue'[c]) = None
      BY <1>3, <2>0, <3>1, RunAppend DEF Items
    <3>3. Run(queue[c])'
      BY <3>2 DEF Run
    <3> QED BY <1>1, <1>5, <3>1, <3>2, <3>3 DEF RunOf, Takes
  <2>2. CASE ~Lags(c)
    <3>1. queue'[c] = Append(queue[c], pushed') /\ (closed'[c] <=> closed[c])
      BY <1>2, <1>5, <2>2 DEF Queued, ClosedByPush
    <3>2. queue[c] # <<>> => pushed' = queue[c][Len(queue[c])] + 1
      BY <1>1, <1>5 DEF RunOf
    <3>3. /\ Run(queue'[c]) /\ queue'[c] # <<>> /\ queue'[c][Len(queue'[c])] = pushed'
          /\ queue[c] # <<>> => Head(queue'[c]) = Head(queue[c])
          /\ queue[c] = <<>> => Head(queue'[c]) = pushed'
          /\ \A i \in 1 .. Len(queue'[c]) : queue'[c][i] # None
      BY <1>1, <1>3, <2>0, <3>1, <3>2, RunAppend
    <3>4. Run(queue[c])'
      BY <3>3 DEF Run
    <3>5. writer[c] # "none"
      BY <1>5 DEF RunOf, Takes
    <3>6. writer[c] # "ended" /\ inHand[c] # 0 /\ Head(queue'[c]) # None =>
              Head(queue'[c]) = inHand[c] + 1
      BY <1>1, <1>5, <3>3 DEF RunOf
    <3> QED BY <1>1, <1>5, <3>1, <3>3, <3>4, <3>5, <3>6 DEF RunOf
  <2> QED BY <2>1, <2>2
<1> QED BY <1>4, <1>5

LEMMA RunStep ==
    ASSUME TypeOK, BooksShape, RunShape, [Next]_vars PROVE RunShape'
<1> SUFFICES ASSUME NEW d \in Clients PROVE RunOf(d)'
  BY DEF RunShape
<1>0. RunOf(d) /\ AbsentOf(d)
  BY DEF RunShape, BooksShape
<1>1. ASSUME NEW c \in Clients, ClientStep(c) PROVE RunOf(d)'
  <2>1. CASE d = c
    BY <1>0, <1>1, <2>1, OwnRun
  <2>2. CASE d # c
    BY <1>0, <1>1, <2>2, OthersUntouched, SameShape
  <2> QED BY <2>1, <2>2
<1>2. ASSUME NEW completes \in BOOLEAN, Push(completes) PROVE RunOf(d)'
  BY <1>0, <1>2, PushRun
<1>3. ASSUME NEW rest \in SUBSET Clients, StopGoesOn(rest), table' \subseteq table,
             UNCHANGED <<media, sending>>
      PROVE  RunOf(d)'
  <2>1. ASSUME NEW c \in rest, BeginClose(c) PROVE RunOf(d)'
    <3>1. CASE d = c
      BY <1>0, <1>3, <2>1, <3>1, BeginCloseRun
    <3>2. CASE d # c
      BY <1>0, <1>3, <2>1, <3>2, BeginCloseAt, SameRun DEF media, sending
    <3> QED BY <3>1, <3>2
  <2>2. CASE UNCHANGED <<sock, playing, closed, queue, stage>>
    BY <1>0, <1>3, <2>2, SameRun DEF media, sending
  <2> QED BY <1>3, <2>1, <2>2 DEF StopGoesOn
<1>4. CASE StopBegins \/ StopNext
  <2>1. table \in SUBSET Clients /\ todo \in SUBSET Clients
    BY DEF TypeOK, ServerOK
  <2> QED BY <1>3, <1>4, <2>1 DEF StopBegins, StopNext
<1>5. CASE StopReturns \/ UNCHANGED vars
  BY <1>0, <1>5, SameRun DEF StopReturns, vars, media, session, sending
<1> QED BY <1>1, <1>2, <1>4, <1>5 DEF Next, ClientStep, StopServer

-----------------------------------------------------------------------------
(* The inductive invariant and the theorems *)

LEMMA InitInvariant == Init => IInv
<1> SUFFICES ASSUME Init PROVE IInv
  OBVIOUS
<1>1. TypeOK
  BY InitTypes
<1>2. StopShape /\ BooksShape
  BY DEF Init, StopShape, BooksShape, AbsentOf, KnownOf
<1>3. CloseShape
  <2> SUFFICES ASSUME NEW c \in Clients PROVE CloseOf(c)
    BY DEF CloseShape
  <2>1. Len(queue[c]) <= HighWater
    BY ServerAssumption DEF Init
  <2> QED BY <2>1 DEF Init, CloseOf
<1>4. RunShape
  <2> SUFFICES ASSUME NEW c \in Clients PROVE RunOf(c)
    BY DEF RunShape
  <2>1. queue[c] = <<>> /\ \A i \in 1 .. Len(queue[c]) : FALSE
    BY DEF Init
  <2>2. Run(queue[c])
    BY <2>1 DEF Run
  <2> QED BY <2>1, <2>2 DEF Init, RunOf, Takes
<1> QED BY <1>1, <1>2, <1>3, <1>4 DEF IInv

LEMMA NextInvariant == IInv /\ [Next]_vars => IInv'
<1> SUFFICES ASSUME IInv, [Next]_vars PROVE IInv'
  OBVIOUS
<1>1. TypeOK'
  BY TypeStep DEF IInv
<1>2. StopShape' /\ CloseShape' /\ BooksShape'
  BY BooksStep DEF IInv
<1>3. RunShape'
  BY RunStep DEF IInv
<1> QED BY <1>1, <1>2, <1>3 DEF IInv

\* However requests, frames, close() and stop() interleave, the shapes hold.
THEOREM Invariant == Spec => []IInv
<1> QED BY InitInvariant, NextInvariant, PTL DEF Spec

\* Every variable keeps its kind; a queue holds at most the high-water mark and one
\* sentinel, although push_rtp, the handler and stop() all close sessions
\* (rtsp_server.py:336-348, 360-379).
THEOREM TypeCorrect == Spec => []TypeOK
<1>1. IInv => TypeOK
  BY DEF IInv
<1> QED BY <1>1, Invariant, PTL

\* Nothing is written to a connection that close() has given back, wherever the
\* writer was then (rtsp_server.py:366-379, 384-418).
THEOREM ClosedIsSilent == Spec => []NothingWrittenAfterClose
<1>1. IInv => NothingWrittenAfterClose
  BY DEF IInv, CloseShape, CloseOf, NothingWrittenAfterClose
<1> QED BY <1>1, Invariant, PTL

\* No open connection is lost track of, but for a session dropped for lagging
\* (rtsp_server.py:336-348, 360-379, 568-573, 639-641).
THEOREM OpenConnectionsAreKnown == Spec => []OpenIsKnown
<1>1. IInv => OpenIsKnown
  BY DEF IInv, BooksShape, KnownOf, OpenIsKnown
<1> QED BY <1>1, Invariant, PTL

\* Every client receives a gapless run of the frames pushed, for any length of the
\* queue and however it lags, stalls or is closed (rtsp_server.py:336-352, 381-418).
THEOREM NoFrameIsLost == Spec => NoGap
<1>1. IInv /\ [Next]_vars =>
          [\A c \in Clients : delivered'[c] # delivered[c] /\ delivered[c] # 0 =>
               delivered'[c] = delivered[c] + 1]_vars
  <2> SUFFICES ASSUME IInv, Next, NEW c \in Clients, delivered'[c] # delivered[c],
                      delivered[c] # 0
               PROVE  delivered'[c] = delivered[c] + 1
    OBVIOUS
  <2>1. ASSUME NEW d \in Clients, ClientStep(d), d # c PROVE FALSE
    BY <2>1, OthersUntouched DEF IInv, Same
  <2>2. CASE ClientStep(c)
    <3>1. Send(c)
      BY <2>2 DEF ClientStep, Connect, Peer, PeerStalls, PeerLeaves, PeerRecovers,
         PeerBecomes, Request, PlainRequest, Describe, Setup, Play, TeardownRequest,
         Malformed, Handle, Described, Responded, EndOfStream, Farewell, HandlerDone,
         Finish, Write, Take, Drained, Close, WriterJoined, Flushed, Finalized, sending
    <3>2. writer[c] = "pace" /\ delivered'[c] = inHand[c]
      BY <3>1 DEF Send, IInv, TypeOK, WriterOK
    <3> QED BY <3>2 DEF IInv, RunShape, RunOf
  <2>3. CASE (\E completes \in BOOLEAN : Push(completes)) \/ StopBegins \/ StopServer
    BY <2>3 DEF Push, StopBegins, StopServer, StopNext, StopReturns, sending
  <2> QED BY <2>1, <2>2, <2>3 DEF Next, ClientStep
<1> QED BY <1>1, Invariant, PTL DEF Spec, NoGap
=============================================================================
