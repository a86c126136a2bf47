--------------------------- MODULE AgoraSignaling ---------------------------
(***************************************************************************)
(* One AgoraWebSocketHandler (src/mammotion_webrtc/agora_edge.py): the     *)
(* relay makes one for each cycle, has it join the channel through one of  *)
(* the edge gateways, and disconnects it in its teardown.                  *)
(*                                                                         *)
(* The tasks are the joiner (connect_and_join, run by the relay's          *)
(* supervisor), after the join the message, ping and subscribe-retry       *)
(* loops, and up to two runs of disconnect(): the relay's, and one that    *)
(* on_p2p_lost starts.  An action is the code between two awaits; timeouts *)
(* may expire at any await they cover.  A send is an await: it may be held *)
(* up, and it raises when the connection is gone.                          *)
(*                                                                         *)
(* There is one publisher, the mower.  Messages that change nothing in the *)
(* handler (acks, on_p2p_ok, errors, capability changes, token warnings,   *)
(* on_user_online) are left out, and so is the direct "answer" message,    *)
(* which join_v3 does not send.  A definition whose name starts with Bad   *)
(* is a faulty form of the one that follows it and is used by no other.    *)
(***************************************************************************)
EXTENDS Integers, Sequences

CONSTANTS
    Gateways,   \* how many gateway addresses the context has
    Ssrcs,      \* SSRCs the publisher may use
    None,       \* Python's None
    Attempts,   \* subscribe_retry_attempts
    Early,      \* a gateway may announce the stream before its join response
    MaxComings, \* bound: how often the publisher appears
    MaxInbox    \* bound: messages under way from the gateway

ASSUME SignalingAssumption ==
    /\ Gateways \in Nat \ {0} /\ Attempts \in Nat /\ MaxInbox \in Nat \ {0}
    /\ MaxComings \in Nat \ {0} /\ Early \in BOOLEAN /\ None \notin Ssrcs \cup Nat
    /\ None \notin [gateway : 1 .. Gateways, ssrc : Ssrcs]

VARIABLES
    \* the gateway and the publisher
    up,         \* the connection to the present gateway is established
    inbox,      \* messages from it that were not read yet
    replied,    \* it has answered join_v3
    asked,      \* history: SSRCs subscribed on this connection since they appeared
    publisher,  \* the SSRC the publisher sends, or None
    used,       \* SSRCs it has used
    again,      \* history: it came back with an SSRC it had used before
    comings,    \* how often it has appeared
    \* connect_and_join
    step,       \* its await, or how it ended
    gw,         \* the gateway it is at
    arg,        \* the SSRC of the message it handles
    answer,     \* history: gateway and SSRC of the answer it returned
    \* the handler's fields
    websocket,  \* _websocket: the gateway it leads to
    connected,  \* _connection_state = "CONNECTED"
    stream,     \* _video_streams: SSRC of the publisher's stream
    subscribed, \* _subscribed_video_streams
    pending,    \* _pending_answer_ortc: the gateway it came from
    \* background tasks
    reader,     \* the await of _message_loop
    readerArg,  \* the SSRC it subscribes to
    ping,       \* _ping_loop is running
    retry,      \* the await of _subscribe_retry_loop
    retryArg,   \* the SSRC it subscribes to
    tries,      \* attempts it has left
    closing     \* the await of disconnect(), for the relay's call and p2p_lost's

mower   == <<publisher, used, again, comings>>
network == <<up, inbox, replied, mower>>
joiner  == <<step, gw, arg, answer>>
fields  == <<websocket, connected, stream, subscribed, pending>>
tasks   == <<reader, readerArg, ping, retry, retryArg, tries>>
vars    == <<network, asked, joiner, fields, tasks, closing>>

Callers == {"relay", "p2p"}
Joining == {"connect", "hello", "wait", "role", "existing", "announced", "hangup", "reset"}
MaybeSsrc == Ssrcs \cup {None}

Init ==
    /\ up = FALSE /\ inbox = <<>> /\ replied = FALSE /\ asked = {}
    /\ publisher \in MaybeSsrc /\ used = {publisher} \ {None} /\ again = FALSE
    /\ comings = (IF publisher = None THEN 0 ELSE 1)
    /\ step = "connect" /\ gw = 1 /\ arg = None /\ answer = None
    /\ websocket = None /\ connected = FALSE /\ stream = None
    /\ subscribed = {} /\ pending = None
    /\ reader = "off" /\ readerArg = None /\ ping = FALSE
    /\ retry = "off" /\ retryArg = None /\ tries = 0
    /\ closing = [c \in Callers |-> "no"]

-----------------------------------------------------------------------------
(* The gateway and the publisher *)

Listens == up /\ step \notin {"connect", "hello"}
Tell(message) == inbox' = IF Listens THEN Append(inbox, message) ELSE inbox
Room == Len(inbox) < MaxInbox

PublisherComes(s) ==
    /\ publisher = None /\ comings < MaxComings /\ Room
    /\ publisher' = s /\ used' = used \cup {s} /\ again' = (s \in used)
    /\ comings' = comings + 1
    /\ IF replied \/ Early THEN Tell([kind |-> "add", ssrc |-> s])
       ELSE UNCHANGED inbox
    /\ UNCHANGED <<up, replied, asked, joiner, fields, tasks, closing>>

\* A stream that ends takes its subscriptions with it.
PublisherGoes ==
    /\ publisher # None /\ Room
    /\ publisher' = None /\ asked' = {}
    /\ IF replied \/ Early THEN Tell([kind |-> "off", ssrc |-> None])
       ELSE UNCHANGED inbox
    /\ UNCHANGED <<up, replied, used, again, comings, joiner, fields, tasks, closing>>

\* The response to join_v3 names the streams that are published already.
GatewayReplies ==
    /\ Listens /\ ~replied /\ Room
    /\ replied' = TRUE /\ Tell([kind |-> "success", ssrc |-> publisher])
    /\ UNCHANGED <<up, asked, mower, joiner, fields, tasks, closing>>

GatewayLosesPeer ==
    /\ Listens /\ replied /\ Room /\ closing["p2p"] = "no"
    /\ \A i \in DOMAIN inbox : inbox[i].kind # "lost"
    /\ Tell([kind |-> "lost", ssrc |-> None])
    /\ UNCHANGED <<up, replied, asked, mower, joiner, fields, tasks, closing>>

\* The connection ends: it fails, or a close() is carried out.
ConnectionEnds ==
    /\ up /\ up' = FALSE
    /\ UNCHANGED <<inbox, replied, asked, mower, joiner, fields, tasks, closing>>

-----------------------------------------------------------------------------
(* Steps that several tasks share *)

BadKnown(s) == subscribed # {}
Known(s) == s \in subscribed

\* _send_subscribe returned on the present connection.
Subscribe(s) == subscribed' = subscribed \cup {s} /\ asked' = asked \cup {s}

\* The fields disconnect() clears last.
BadClearFields ==
    /\ connected' = FALSE /\ stream' = None /\ subscribed' = {} /\ pending' = None
    /\ UNCHANGED websocket
ClearFields ==
    /\ websocket' = None /\ connected' = FALSE /\ stream' = None
    /\ subscribed' = {} /\ pending' = None

\* The next gateway is tried, or the join has failed.
BadNextGateway == step' = "connect" /\ gw' = (gw % Gateways) + 1
NextGateway ==
    IF gw < Gateways THEN step' = "connect" /\ gw' = gw + 1
    ELSE step' = "failed" /\ UNCHANGED gw

-----------------------------------------------------------------------------
(* connect_and_join *)

\* The handshake with the next gateway takes the network longer than a
\* disconnect() of the last one, which is ready to go on, takes the event loop.
Connected ==
    /\ step = "connect" /\ closing["p2p"] \in {"no", "done"}
    /\ step' = "hello" /\ websocket' = gw /\ connected' = TRUE
    /\ up' = TRUE /\ inbox' = <<>> /\ replied' = FALSE /\ asked' = {}
    /\ UNCHANGED <<mower, gw, arg, answer, stream, subscribed, pending,
                   tasks, closing>>

\* It failed or took ten seconds: disconnect() finds no task and no websocket,
\* so it runs through.
ConnectFailed ==
    /\ step = "connect" /\ ClearFields /\ NextGateway
    /\ UNCHANGED <<network, asked, arg, answer, tasks, closing>>

HelloSent ==
    /\ step = "hello" /\ up /\ step' = "wait"
    /\ UNCHANGED <<network, asked, gw, arg, answer, fields, tasks, closing>>

\* Sending join_v3 raised: disconnect() closes the websocket first.
HelloFailed ==
    /\ step = "hello" /\ ~up /\ step' = "reset"
    /\ UNCHANGED <<network, asked, gw, arg, answer, fields, tasks, closing>>

ResetDone ==
    /\ step = "reset" /\ ClearFields /\ NextGateway
    /\ UNCHANGED <<network, asked, arg, answer, tasks, closing>>

\* _finalize_pending_answer, the return of connect_and_join, and the tasks it
\* starts.
Finalize(ortc, ssrc) ==
    /\ answer' = [gateway |-> ortc, ssrc |-> ssrc] /\ pending' = None
    /\ step' = "answered" /\ reader' = "read" /\ ping' = TRUE
    /\ retry' = (IF Attempts > 0 THEN "sleep" ELSE "off") /\ tries' = Attempts
    /\ UNCHANGED <<readerArg, retryArg>>

\* The end of _handle_join_success: an answer needs a stream.
BadSettle ==
    IF stream' # None THEN Finalize(gw, stream')
    ELSE /\ step' = "wait" /\ pending' = (IF pending = None THEN gw ELSE pending)
         /\ UNCHANGED <<answer, tasks>>
Settle ==
    IF stream' # None THEN Finalize(gw, stream')
    ELSE step' = "wait" /\ pending' = gw /\ UNCHANGED <<answer, tasks>>

\* The end of _handle_add_video_stream.
Announced ==
    IF pending # None THEN Finalize(pending, stream')
    ELSE step' = "wait" /\ UNCHANGED <<pending, answer, tasks>>

NextMessage == inbox # <<>> /\ inbox' = Tail(inbox)

ReceiveSuccess ==
    /\ step = "wait" /\ NextMessage /\ Head(inbox).kind = "success"
    /\ step' = "role" /\ arg' = Head(inbox).ssrc
    /\ UNCHANGED <<up, replied, mower, asked, gw, answer, fields, tasks, closing>>

\* _register_existing_video_streams: a stream that is known keeps what is known of it.
BadRegistered(s) == IF s = None THEN stream ELSE s
Registered(s) == IF stream = None THEN s ELSE stream

\* set_client_role went out, or there is no websocket to send it on; then the
\* streams the response names are registered.
RoleSent ==
    /\ step = "role" /\ (up \/ websocket = None)
    /\ stream' = Registered(arg)
    /\ IF arg = None \/ Known(arg) \/ websocket = None
       THEN Settle
       ELSE step' = "existing" /\ UNCHANGED <<pending, answer, tasks>>
    /\ UNCHANGED <<network, asked, gw, arg, websocket, connected, subscribed, closing>>

ExistingSubscribed ==
    /\ step = "existing" /\ up /\ Subscribe(arg) /\ UNCHANGED stream /\ Settle
    /\ UNCHANGED <<network, gw, arg, websocket, connected, closing>>

\* on_add_video_stream: the stream is noted, subscribed to once, and completes an
\* answer that was waiting for it.
ReceiveAdd ==
    /\ step = "wait" /\ NextMessage /\ Head(inbox).kind = "add"
    /\ stream' = Head(inbox).ssrc /\ arg' = stream'
    /\ IF Known(stream') \/ websocket = None
       THEN Announced
       ELSE step' = "announced" /\ UNCHANGED <<pending, answer, tasks>>
    /\ UNCHANGED <<up, replied, mower, asked, gw, websocket, connected,
                   subscribed, closing>>

AnnouncedSubscribed ==
    /\ step = "announced" /\ up /\ Subscribe(arg) /\ UNCHANGED stream /\ Announced
    /\ UNCHANGED <<network, gw, arg, websocket, connected, closing>>

\* on_user_offline drops the stream (and renews the token); on_p2p_lost starts a
\* disconnect().  who is the task that reads: the joiner or the message loop.
Dropped ==
    /\ stream' = IF Head(inbox).kind = "off" THEN None ELSE stream
    /\ closing' = IF Head(inbox).kind = "lost" THEN [closing EXCEPT !["p2p"] = "created"]
                  ELSE closing

ReceiveOther ==
    /\ step = "wait" /\ NextMessage /\ Head(inbox).kind \in {"off", "lost"} /\ Dropped
    /\ UNCHANGED <<up, replied, mower, asked, joiner, websocket, connected,
                   subscribed, pending, tasks>>

\* Fifteen seconds are over, the connection has ended, or a send raised: the
\* websocket is closed and nothing else is undone.
WaitOver ==
    /\ step \in {"wait", "role", "existing", "announced"} /\ step' = "hangup"
    /\ connected' \in (IF up THEN {connected} ELSE {connected, FALSE})
    /\ UNCHANGED <<network, asked, gw, arg, answer, websocket, stream, subscribed,
                   pending, tasks, closing>>

HungUp ==
    /\ step = "hangup" /\ ~up /\ websocket' = None /\ NextGateway
    /\ connected' = (connected /\ step' # "failed")
    /\ UNCHANGED <<network, asked, arg, answer, stream, subscribed, pending, tasks, closing>>

-----------------------------------------------------------------------------
(* The loops that run after the join *)

ReadAdd ==
    /\ reader = "read" /\ NextMessage /\ Head(inbox).kind = "add"
    /\ stream' = Head(inbox).ssrc /\ readerArg' = stream'
    /\ reader' = IF Known(stream') \/ websocket = None THEN "read" ELSE "send"
    /\ UNCHANGED <<up, replied, mower, asked, joiner, websocket, connected,
                   subscribed, pending, ping, retry, retryArg, tries, closing>>

ReadOther ==
    /\ reader = "read" /\ NextMessage /\ Head(inbox).kind # "add" /\ Dropped
    /\ UNCHANGED <<up, replied, mower, asked, joiner, websocket, connected,
                   subscribed, pending, tasks>>

ReaderSubscribed ==
    /\ reader = "send" /\ up /\ Subscribe(readerArg) /\ reader' = "read"
    /\ UNCHANGED <<network, joiner, websocket, connected, stream, pending, readerArg,
                   ping, retry, retryArg, tries, closing>>

\* The connection ended, while reading or while sending.
ReaderEnds ==
    /\ ~up /\ (reader = "send" \/ (reader = "read" /\ inbox = <<>>))
    /\ reader' = "off" /\ connected' = FALSE
    /\ UNCHANGED <<network, asked, joiner, websocket, stream, subscribed, pending,
                   readerArg, ping, retry, retryArg, tries, closing>>

PingEnds ==
    /\ ping /\ (websocket = None \/ ~connected \/ ~up) /\ ping' = FALSE
    /\ UNCHANGED <<network, asked, joiner, fields, reader, readerArg, retry, retryArg,
                   tries, closing>>

BadNextTry == retry' = "sleep" /\ tries' = tries - 1
NextTry == retry' = (IF tries > 1 THEN "sleep" ELSE "off") /\ tries' = tries - 1

\* A second has passed: every stream known now is subscribed to again.
RetryWakes ==
    /\ retry = "sleep"
    /\ IF websocket = None \/ ~connected
       THEN retry' = "off" /\ UNCHANGED <<retryArg, tries>>
       ELSE IF stream = None THEN NextTry /\ UNCHANGED retryArg
       ELSE retry' = "send" /\ retryArg' = stream /\ UNCHANGED tries
    /\ UNCHANGED <<network, asked, joiner, fields, reader, readerArg, ping, closing>>

RetrySubscribed ==
    /\ retry = "send" /\ up /\ Subscribe(retryArg) /\ NextTry
    /\ UNCHANGED <<network, joiner, websocket, connected, stream, pending, reader,
                   readerArg, ping, retryArg, closing>>

RetryFails ==
    /\ retry = "send" /\ ~up /\ retry' = "off"
    /\ UNCHANGED <<network, asked, joiner, fields, reader, readerArg, ping, retryArg,
                   tries, closing>>

-----------------------------------------------------------------------------
(* disconnect() *)

Background == reader # "off" \/ ping \/ retry # "off"

\* A cancelled task takes no further step.
BadCancelTasks ==
    /\ reader' = "off" /\ retry' = "off" /\ UNCHANGED <<readerArg, ping, retryArg, tries>>
CancelTasks ==
    /\ reader' = "off" /\ ping' = FALSE /\ retry' = "off"
    /\ UNCHANGED <<readerArg, retryArg, tries>>

\* After the tasks: close the websocket if there is one, then clear the fields.
CloseOrClear(c) ==
    IF websocket # None
    THEN closing' = [closing EXCEPT ![c] = "close"] /\ UNCHANGED fields
    ELSE closing' = [closing EXCEPT ![c] = "done"] /\ ClearFields

StartDisconnect(c) ==
    /\ CancelTasks
    /\ IF Background
       THEN closing' = [closing EXCEPT ![c] = "gather"] /\ UNCHANGED fields
       ELSE CloseOrClear(c)

\* The relay tears down: after the join, or in the middle of it, which a
\* cancellation of the supervisor has then ended.
RelayDisconnects ==
    /\ closing["relay"] = "no" /\ StartDisconnect("relay")
    /\ step' = IF step \in Joining THEN "cancelled" ELSE step
    /\ UNCHANGED <<network, asked, gw, arg, answer>>

PeerLostDisconnects ==
    /\ closing["p2p"] = "created" /\ StartDisconnect("p2p")
    /\ UNCHANGED <<network, asked, joiner>>

\* gather() returns when the tasks have ended.
TasksGathered(c) ==
    /\ closing[c] = "gather" /\ ~Background /\ CloseOrClear(c)
    /\ UNCHANGED <<network, asked, joiner, tasks>>

WebsocketClosed(c) ==
    /\ closing[c] = "close" /\ ~up /\ ClearFields
    /\ closing' = [closing EXCEPT ![c] = "done"]
    /\ UNCHANGED <<network, asked, joiner, tasks>>

-----------------------------------------------------------------------------
Join ==
    \/ Connected \/ ConnectFailed \/ HelloSent \/ HelloFailed \/ ResetDone
    \/ ReceiveSuccess \/ RoleSent \/ ExistingSubscribed \/ ReceiveAdd
    \/ AnnouncedSubscribed \/ ReceiveOther \/ WaitOver \/ HungUp
Loops ==
    \/ ReadAdd \/ ReadOther \/ ReaderSubscribed \/ ReaderEnds \/ PingEnds
    \/ RetryWakes \/ RetrySubscribed \/ RetryFails
Disconnecting ==
    PeerLostDisconnects \/ \E c \in Callers : TasksGathered(c) \/ WebsocketClosed(c)
Outside ==
    \/ (\E s \in Ssrcs : PublisherComes(s)) \/ PublisherGoes \/ GatewayReplies
    \/ GatewayLosesPeer \/ ConnectionEnds

Next == Join \/ Loops \/ RelayDisconnects \/ Disconnecting \/ Outside

Spec == Init /\ [][Next]_vars

\* A close() is under way.
Closes == step \in {"hangup", "reset"} \/ \E c \in Callers : closing[c] = "close"

-----------------------------------------------------------------------------
(* Properties *)

Message == [kind : {"success", "add", "off", "lost"}, ssrc : MaybeSsrc]

OutsideOK ==
    /\ up \in BOOLEAN /\ inbox \in Seq(Message) /\ replied \in BOOLEAN
    /\ asked \subseteq Ssrcs /\ publisher \in MaybeSsrc 
    /\ used \subseteq Ssrcs /\ again \in BOOLEAN /\ comings \in 0 .. MaxComings
JoinerOK ==
    /\ step \in Joining \cup {"answered", "failed", "cancelled"}
    /\ gw \in 1 .. Gateways /\ arg \in MaybeSsrc
    /\ answer \in [gateway : 1 .. Gateways, ssrc : Ssrcs] \cup {None}
FieldsOK ==
    /\ websocket \in 1 .. Gateways \cup {None} /\ connected \in BOOLEAN
    /\ stream \in MaybeSsrc /\ subscribed \subseteq Ssrcs
    /\ pending \in 1 .. Gateways \cup {None}
TasksOK ==
    /\ reader \in {"off", "read", "send"} /\ readerArg \in MaybeSsrc
    /\ ping \in BOOLEAN /\ retry \in {"off", "sleep", "send"}
    /\ retryArg \in MaybeSsrc /\ tries \in 0 .. Attempts
    /\ closing \in [Callers -> {"no", "created", "gather", "close", "done"}]

\* Every variable keeps its kind.
TypeOK == OutsideOK /\ JoinerOK /\ FieldsOK /\ TasksOK

\* The answer the relay gives to its PC is made from the transport parameters of
\* the gateway whose websocket is kept, not from those of a gateway that was given
\* up before (agora_edge.py:714-715, 894-906, 1053-1057).
AnswerMatchesGateway == step = "answered" => answer.gateway = gw

\* Everything the gateway said has been read and no subscribe is under way.
Quiet ==
    /\ step = "answered" /\ up /\ inbox = <<>> /\ reader = "read" /\ retry = "off"
    /\ closing = [c \in Callers |-> "no"]

\* Where a subscription to the publisher shows.
Heard == IF again THEN subscribed ELSE asked

\* Once things are quiet, the publisher in the channel has been subscribed to: since it
\* appeared and on the present connection, through failovers, departures and streams
\* that follow each other, or, if it came back with an SSRC it had before, at some time
\* only (agora_edge.py:954-985, 1145-1170).
PublisherIsSubscribed == Quiet /\ publisher # None => publisher \in Heard

\* What agora_edge.py:959-965 says of every publisher that leaves: its stream is dropped
\* so that its return triggers a fresh flow "instead of reusing stale state", and "when
\* the publisher rejoins we can immediately subscribe again".
RejoinIsSubscribed == Quiet /\ publisher # None => publisher \in asked

\* When the relay's disconnect() has returned, no task of the handler is left and
\* no websocket: wherever the join was interrupted, and also when on_p2p_lost runs
\* a disconnect() of its own at the same time (agora_edge.py:917-924, 1833-1870).
DisconnectLeavesNothing ==
    closing["relay"] = "done" => websocket = None /\ ~connected /\ ~up /\ ~Background

\* connect_and_join comes to an end, whatever the gateways do or fail to do
\* (agora_edge.py:670-728, 737-788).
JoinEnds == <>(step \notin Joining)

\* disconnect() comes to an end (agora_edge.py:1833-1870).
DisconnectEnds ==
    \A c \in Callers : closing[c] # "no" ~> closing[c] = "done"
=============================================================================
