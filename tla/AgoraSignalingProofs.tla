------------------------ MODULE AgoraSignalingProofs ------------------------
(***************************************************************************)
(* Theorems about AgoraSignaling, for any number of gateways, subscribe    *)
(* attempts and SSRCs and an inbox of any length.                          *)
(*                                                                         *)
(* What holds in any case: a connection leads where the handler's fields   *)
(* say, and tasks run only between the join and the first disconnect()     *)
(* (LinkShape, TaskShape).  What needs a gateway that answers the join     *)
(* first: which message is read in which await (OrderShape), and that a    *)
(* publisher in the channel to which no subscription shows is on its way   *)
(* to be subscribed to (DutyShape).                                        *)
(***************************************************************************)
EXTENDS AgoraSignaling, TLAPS

\* choose_server may end the join before it begins (see Negotiation).
Fails ==
    step' = "failed" /\ UNCHANGED <<network, asked, gw, arg, answer, fields, tasks, closing>>

\* Who sends a subscribe knows for which SSRC, and the retry loop has tries left.
ArgShape ==
    /\ step \in {"existing", "announced"} => arg # None /\ (up => stream # None)
    /\ reader = "send" => readerArg # None
    /\ retry = "send" => retryArg # None
    /\ retry # "off" => tries >= 1
    /\ \A i \in 1 .. Len(inbox) : inbox[i].kind = "add" => inbox[i].ssrc # None

\* A connection that is up is the one _websocket leads to.
LinkShape ==
    /\ up => websocket # None
    /\ step \in {"connect", "reset"} => ~up

\* Background tasks run from the answer to the first disconnect(); the relay's leaves
\* nothing behind.
TaskShape ==
    /\ step \in Joining => ~Background /\ closing["relay"] = "no"
    /\ closing["relay"] # "no" => ~Background /\ closing["relay"] # "created"
    /\ closing["relay"] = "done" => websocket = None /\ ~connected

IInv == TypeOK /\ ArgShape /\ LinkShape /\ TaskShape

\* The response to the join comes first, and what was read of it shows in the await.
OrderShape ==
    /\ ~replied => inbox = <<>>
    /\ \A i \in 1 .. Len(inbox) : inbox[i].kind = "success" => i = 1
    /\ step = "hello" => ~replied
    /\ step \in {"role", "existing", "announced", "answered"} =>
          replied /\ \A i \in 1 .. Len(inbox) : inbox[i].kind # "success"
    /\ step = "wait" /\ replied =>
          \/ inbox # <<>> /\ Head(inbox).kind = "success"
          \/ pending = gw \/ (pending = None /\ ~up)
    /\ step = "announced" => pending = gw \/ (pending = None /\ ~up)
    /\ step \in Joining => subscribed = {}
    /\ AnswerMatchesGateway

\* Nobody speaks of an SSRC that the publisher has not used.
UsedShape ==
    /\ {publisher, arg, stream, readerArg, retryArg} \subseteq used \cup {None}
    /\ subscribed \subseteq used
    /\ \A i \in 1 .. Len(inbox) : inbox[i].ssrc \in used \cup {None}

\* The publisher's SSRC is subscribed to, or a message or a task is about to see to it.
Due ==
    /\ up /\ replied /\ publisher \notin Heard \cup {None}
    /\ \A c \in Callers : closing[c] = "no"
    /\ step \in {"wait", "role", "existing", "announced", "answered"}
Told == \E i \in 1 .. Len(inbox) :
            inbox[i].kind \in {"success", "add"} /\ inbox[i].ssrc = publisher
AtHand ==
    \/ step \in {"role", "existing", "announced"} /\ arg = publisher
    \/ reader = "send" /\ readerArg = publisher
DutyShape ==
    /\ publisher \in subscribed => publisher \in Heard
    /\ Due => Told \/ AtHand

OrderInv == IInv /\ OrderShape
DutyInv == OrderInv /\ UsedShape /\ DutyShape

-----------------------------------------------------------------------------
(* Messages *)

LEMMA AfterAppend ==
    ASSUME NEW q \in Seq(Message), NEW m \in Message
    PROVE  /\ Append(q, m) \in Seq(Message) /\ Append(q, m) # <<>>
           /\ \A i \in 1 .. Len(Append(q, m)) :
                 (i \in 1 .. Len(q) /\ Append(q, m)[i] = q[i]) \/ Append(q, m)[i] = m
           /\ \A i \in 1 .. Len(q) : i \in 1 .. Len(Append(q, m)) /\ Append(q, m)[i] = q[i]
           /\ \E i \in 1 .. Len(Append(q, m)) : Append(q, m)[i] = m
           /\ q # <<>> => Head(Append(q, m)) = Head(q)
           /\ q = <<>> => Head(Append(q, m)) = m /\ Len(Append(q, m)) = 1
  <1> DEFINE a == Append(q, m)
  <1>1. a \in Seq(Message) /\ Len(a) = Len(q) + 1 /\ Len(q) \in Nat
    OBVIOUS
  <1>2. a[Len(q) + 1] = m /\ \A i \in 1 .. Len(q) : a[i] = q[i]
    OBVIOUS
  <1>3. \A i \in 1 .. Len(a) : i \in 1 .. Len(q) \/ i = Len(q) + 1
    BY <1>1
  <1>4. Len(q) + 1 \in 1 .. Len(a) /\ \A i \in 1 .. Len(q) : i \in 1 .. Len(a)
    BY <1>1
  <1>5. a # <<>> /\ Head(a) = a[1]
    BY <1>1
  <1>6. q # <<>> => Head(q) = q[1] /\ 1 \in 1 .. Len(q)
    OBVIOUS
  <1>7. q = <<>> => Len(q) = 0
    OBVIOUS
  <1> QED  BY <1>1, <1>2, <1>3, <1>4, <1>5, <1>6, <1>7

LEMMA AfterTail ==
    ASSUME NEW q \in Seq(Message), q # <<>>
    PROVE  /\ Head(q) \in Message /\ Tail(q) \in Seq(Message)
           /\ 1 \in 1 .. Len(q) /\ Head(q) = q[1]
           /\ \A i \in 1 .. Len(Tail(q)) : i + 1 \in 1 .. Len(q) /\ Tail(q)[i] = q[i + 1]
           /\ \A i \in 1 .. Len(q) :
                 i = 1 \/ \E j \in 1 .. Len(Tail(q)) : Tail(q)[j] = q[i]
  <1> DEFINE t == Tail(q)
  <1>1. t \in Seq(Message) /\ Len(t) = Len(q) - 1 /\ Len(q) \in Nat /\ Len(q) >= 1
    OBVIOUS
  <1>2. \A i \in 1 .. Len(t) : t[i] = q[i + 1]
    OBVIOUS
  <1>3. Head(q) = q[1] /\ 1 \in 1 .. Len(q) /\ q[1] \in Message
    BY <1>1
  <1>4. \A i \in 1 .. Len(t) : i + 1 \in 1 .. Len(q)
    BY <1>1
  <1>5. ASSUME NEW i \in 1 .. Len(q), i # 1
        PROVE  \E j \in 1 .. Len(t) : t[j] = q[i]
    <2>1. i - 1 \in 1 .. Len(t) /\ (i - 1) + 1 = i
      BY <1>1, <1>5
    <2> QED  BY <2>1, <1>2
  <1> QED  BY <1>1, <1>2, <1>3, <1>4, <1>5

LEMMA Shorter ==
    ASSUME NEW q \in Seq(Message), q # <<>>
    PROVE  q # Tail(q) /\ \A m \in Message : Append(q, m) # Tail(q)
  <1>1. \A n \in Nat : n - 1 # n /\ n - 1 # n + 1
    OBVIOUS
  <1>2. Len(Tail(q)) = Len(q) - 1 /\ Len(q) \in Nat
    OBVIOUS
  <1>3. \A m \in Message : Len(Append(q, m)) = Len(q) + 1
    OBVIOUS
  <1> QED  BY <1>1, <1>2, <1>3, Zenon

-----------------------------------------------------------------------------
(* Types *)

LEMMA InitialTypes == Init => TypeOK
  <1> SUFFICES ASSUME Init PROVE TypeOK
    OBVIOUS
  <1> USE SignalingAssumption
  <1>1. OutsideOK
    <2>1. inbox \in Seq(Message)
      BY DEF Init
    <2>2. comings \in 0 .. MaxComings
      BY DEF Init
    <2> QED  BY <2>1, <2>2 DEF Init, OutsideOK, MaybeSsrc
  <1>2. JoinerOK
    BY DEF Init, JoinerOK, Joining, MaybeSsrc
  <1>3. FieldsOK
    BY DEF Init, FieldsOK, MaybeSsrc
  <1>4. TasksOK
    <2>1. 0 \in 0 .. Attempts
      OBVIOUS
    <2> QED  BY <2>1 DEF Init, TasksOK, MaybeSsrc
  <1> QED  BY <1>1, <1>2, <1>3, <1>4 DEF TypeOK

\* What the outside has to say goes to the end of the inbox, or is not heard.
LEMMA OutsideTells ==
    ASSUME TypeOK, Outside
    PROVE  \/ UNCHANGED inbox
           \/ \E m \in Message :
                 /\ Tell(m) /\ (m.kind = "add" => m.ssrc # None)
                 /\ (m.kind = "success" => GatewayReplies) /\ m.ssrc \in {publisher', None}
  <1>1. CASE \E s \in Ssrcs : PublisherComes(s)
    <2>1. PICK s \in Ssrcs : PublisherComes(s)
      BY <1>1
    <2>2. [kind |-> "add", ssrc |-> s] \in Message /\ s # None
      BY SignalingAssumption DEF Message, MaybeSsrc
    <2> QED  BY <2>1, <2>2 DEF PublisherComes
  <1>2. CASE PublisherGoes
    <2>1. [kind |-> "off", ssrc |-> None] \in Message
      BY DEF Message, MaybeSsrc
    <2> QED  BY <1>2, <2>1 DEF PublisherGoes
  <1>3. CASE GatewayReplies
    <2>1. [kind |-> "success", ssrc |-> publisher] \in Message
      BY DEF Message, TypeOK, OutsideOK
    <2> QED  BY <1>3, <2>1 DEF GatewayReplies, mower
  <1>4. CASE GatewayLosesPeer
    <2>1. [kind |-> "lost", ssrc |-> None] \in Message
      BY DEF Message, MaybeSsrc
    <2> QED  BY <1>4, <2>1 DEF GatewayLosesPeer
  <1>5. CASE ConnectionEnds
    BY <1>5 DEF ConnectionEnds
  <1> QED  BY <1>1, <1>2, <1>3, <1>4, <1>5 DEF Outside

LEMMA OutsideKept == TypeOK /\ ArgShape /\ ([Next]_vars \/ Fails) => OutsideOK'
  <1> SUFFICES ASSUME TypeOK, ArgShape, [Next]_vars \/ Fails PROVE OutsideOK'
    OBVIOUS
  <1> USE DEF OutsideOK, network, mower
  <1>0. OutsideOK
    BY DEF TypeOK
  <1>1. NextMessage => inbox' \in Seq(Message)
    BY <1>0, AfterTail DEF NextMessage
  <1>2. CASE Connected
    <2>1. inbox' \in Seq(Message)
      BY <1>2 DEF Connected
    <2> QED  BY <1>0, <1>2, <2>1 DEF Connected
  <1>3. CASE ConnectFailed \/ HelloSent \/ HelloFailed \/ ResetDone \/ RoleSent
             \/ WaitOver \/ HungUp
    BY <1>0, <1>3 DEF ConnectFailed, HelloSent, HelloFailed, ResetDone, RoleSent, WaitOver, HungUp
  <1>4. CASE ReceiveSuccess \/ ReceiveAdd \/ ReceiveOther \/ ReadAdd \/ ReadOther
    BY <1>0, <1>1, <1>4 DEF ReceiveSuccess, ReceiveAdd, ReceiveOther, ReadAdd, ReadOther
  <1>5. CASE ExistingSubscribed \/ AnnouncedSubscribed
    <2>1. arg \in Ssrcs
      BY <1>5 DEF ExistingSubscribed, AnnouncedSubscribed, ArgShape, TypeOK, JoinerOK, MaybeSsrc
    <2> QED  BY <1>0, <1>5, <2>1 DEF ExistingSubscribed, AnnouncedSubscribed, Subscribe
  <1>6. CASE ReaderSubscribed
    <2>1. readerArg \in Ssrcs
      BY <1>6 DEF ReaderSubscribed, ArgShape, TypeOK, TasksOK, MaybeSsrc
    <2> QED  BY <1>0, <1>6, <2>1 DEF ReaderSubscribed, Subscribe
  <1>7. CASE RetrySubscribed
    <2>1. retryArg \in Ssrcs
      BY <1>7 DEF RetrySubscribed, ArgShape, TypeOK, TasksOK, MaybeSsrc
    <2> QED  BY <1>0, <1>7, <2>1 DEF RetrySubscribed, Subscribe
  <1>8. CASE ReaderEnds \/ PingEnds \/ RetryWakes \/ RetryFails \/ RelayDisconnects \/ Disconnecting
    BY <1>0, <1>8 DEF ReaderEnds, PingEnds, RetryWakes, RetryFails, RelayDisconnects,
       Disconnecting, PeerLostDisconnects, TasksGathered, WebsocketClosed
  <1>9. CASE Outside
    <2>1. inbox' \in Seq(Message)
      BY <1>0, <1>9, OutsideTells, AfterAppend DEF Tell
    <2>2. /\ up' \in BOOLEAN /\ replied' \in BOOLEAN /\ asked' \subseteq Ssrcs
          /\ publisher' \in MaybeSsrc /\ used' \subseteq Ssrcs
      BY <1>0, <1>9 DEF Outside, PublisherComes, PublisherGoes, GatewayReplies,
         GatewayLosesPeer, ConnectionEnds, MaybeSsrc
    <2>3. comings' \in 0 .. MaxComings /\ again' \in BOOLEAN
      <3>1. CASE \E s \in Ssrcs : PublisherComes(s)
        <4>1. PICK s \in Ssrcs : PublisherComes(s)
          BY <3>1
        <4>2. comings' = comings + 1 /\ comings < MaxComings
          BY <4>1 DEF PublisherComes
        <4>3. again' = (s \in used)
          BY <4>1 DEF PublisherComes
        <4>4. (s \in used) \in BOOLEAN
          OBVIOUS
        <4>5. again' \in BOOLEAN
          BY <4>3, <4>4, Zenon
        <4> QED  BY <1>0, <4>2, <4>5, SignalingAssumption
      <3>2. CASE UNCHANGED <<comings, again>>
        BY <1>0, <3>2
      <3> QED
        BY <1>9, <3>1, <3>2 DEF mower, Outside, PublisherGoes, GatewayReplies,
           GatewayLosesPeer, ConnectionEnds
    <2> QED  BY <2>1, <2>2, <2>3
  <1>10. CASE Fails \/ UNCHANGED vars
    BY <1>0, <1>10 DEF Fails, vars
  <1> QED
    BY <1>2, <1>3, <1>4, <1>5, <1>6, <1>7, <1>8, <1>9, <1>10 DEF Next, Join, Loops

\* The joiner goes on to a gateway that there is, or ends.
LEMMA Onward ==
    ASSUME TypeOK, NextGateway
    PROVE  gw' \in 1 .. Gateways /\ step' \in {"connect", "failed"}
  <1>1. \A n \in Nat : \A g \in 1 .. n : g < n => g + 1 \in 1 .. n
    OBVIOUS
  <1>2. Gateways \in Nat /\ gw \in 1 .. Gateways
    BY SignalingAssumption DEF TypeOK, JoinerOK
  <1> QED  BY <1>1, <1>2 DEF NextGateway

\* The join goes on waiting, or gives its answer and starts the loops.
Waits == step' = "wait" /\ UNCHANGED <<answer, tasks>>
Answers(g) ==
    /\ answer' \in [gateway : 1 .. Gateways, ssrc : Ssrcs]
    /\ answer'.gateway = g /\ answer'.ssrc = stream'
    /\ step' = "answered" /\ pending' = None
    /\ reader' = "read" /\ ping' = TRUE /\ retry' \in {"off", "sleep"}
    /\ tries' \in 0 .. Attempts /\ (retry' # "off" => tries' >= 1)
    /\ UNCHANGED <<readerArg, retryArg>>

LEMMA Finalized ==
    ASSUME NEW g \in 1 .. Gateways, stream' \in Ssrcs, Finalize(g, stream')
    PROVE  Answers(g)
  <1>1. tries' \in 0 .. Attempts /\ (retry' # "off" => tries' >= 1)
    BY SignalingAssumption DEF Finalize
  <1> QED  BY <1>1 DEF Finalize, Answers

LEMMA Settled ==
    ASSUME TypeOK, stream' \in MaybeSsrc, Settle
    PROVE  (Waits /\ stream' = None /\ pending' = gw) \/ (Answers(gw) /\ stream' # None)
  <1>1. gw \in 1 .. Gateways
    BY DEF TypeOK, JoinerOK
  <1>2. CASE stream' # None
    <2>1. stream' \in Ssrcs
      BY <1>2 DEF MaybeSsrc
    <2> QED  BY <1>1, <1>2, <2>1, Finalized DEF Settle
  <1>3. CASE stream' = None
    BY <1>3 DEF Settle, Waits
  <1> QED  BY <1>2, <1>3

LEMMA AnnouncedForms ==
    ASSUME TypeOK, stream' \in Ssrcs, Announced
    PROVE  \/ Waits /\ pending = None /\ pending' = None
           \/ pending \in 1 .. Gateways /\ Answers(pending)
  <1>1. pending \in 1 .. Gateways \cup {None}
    BY DEF TypeOK, FieldsOK
  <1> QED  BY <1>1, Finalized DEF Announced, Waits

\* A handler that ends keeps the types of all it may set.
LEMMA EndingTypes ==
    ASSUME TypeOK, Waits \/ (\E g \in 1 .. Gateways : Answers(g)),
           UNCHANGED <<gw, closing>>, arg' \in MaybeSsrc
    PROVE  JoinerOK' /\ TasksOK'
  <1>1. CASE Waits
    BY <1>1 DEF Waits, TypeOK, JoinerOK, TasksOK, tasks, Joining
  <1>2. CASE \E g \in 1 .. Gateways : Answers(g)
    BY <1>2 DEF Answers, TypeOK, JoinerOK, TasksOK
  <1> QED  BY <1>1, <1>2

\* The steps that handle a message, each with its two ends.
Handles == RoleSent \/ ExistingSubscribed \/ ReceiveAdd \/ AnnouncedSubscribed

LEMMA HandledForms ==
    ASSUME TypeOK, ArgShape, Handles
    PROVE  /\ UNCHANGED <<gw, closing, websocket, connected, up, replied, publisher, used>>
           /\ stream' \in MaybeSsrc /\ arg' \in MaybeSsrc
           /\ \/ Waits /\ pending' \in {pending, gw, None}
              \/ \E g \in 1 .. Gateways : Answers(g)
              \/ /\ step' \in {"existing", "announced"} /\ arg' # None /\ stream' # None
                 /\ UNCHANGED <<pending, answer, tasks>>
  <1>0. /\ OutsideOK /\ JoinerOK /\ FieldsOK /\ TasksOK
    BY DEF TypeOK
  <1>1. UNCHANGED <<gw, closing, websocket, connected, up, replied, publisher, used>>
    BY DEF Handles, RoleSent, ExistingSubscribed, ReceiveAdd, AnnouncedSubscribed, network, mower
  <1>2. /\ stream' \in MaybeSsrc /\ arg' \in MaybeSsrc
        /\ ReceiveAdd \/ AnnouncedSubscribed => stream' \in Ssrcs
    <2>1. CASE RoleSent
      BY <1>0, <2>1 DEF RoleSent, Registered, JoinerOK, FieldsOK, ReceiveAdd, AnnouncedSubscribed
    <2>2. CASE ExistingSubscribed
      BY <1>0, <2>2 DEF ExistingSubscribed, JoinerOK, FieldsOK, ReceiveAdd, AnnouncedSubscribed
    <2>3. CASE ReceiveAdd
      <3>1. Head(inbox) \in Message /\ Head(inbox).ssrc # None
        BY <1>0, <2>3, AfterTail DEF ReceiveAdd, NextMessage, ArgShape, OutsideOK
      <3> QED  BY <2>3, <3>1 DEF ReceiveAdd, Message, MaybeSsrc
    <2>4. CASE AnnouncedSubscribed
      BY <1>0, <2>4 DEF AnnouncedSubscribed, ArgShape, JoinerOK, FieldsOK, MaybeSsrc
    <2> QED  BY <2>1, <2>2, <2>3, <2>4 DEF Handles
  <1>3. \/ Waits /\ pending' \in {pending, gw, None}
        \/ \E g \in 1 .. Gateways : Answers(g)
        \/ /\ step' \in {"existing", "announced"} /\ arg' # None /\ stream' # None
           /\ UNCHANGED <<pending, answer, tasks>>
    <2>1. Settle => (Waits /\ pending' = gw) \/ Answers(gw)
      BY <1>2, Settled
    <2>2. Announced /\ stream' \in Ssrcs =>
            (Waits /\ pending' = None) \/ (pending \in 1 .. Gateways /\ Answers(pending))
      BY AnnouncedForms
    <2>3. gw \in 1 .. Gateways
      BY <1>0 DEF JoinerOK
    <2>4. Settle \/ (Announced /\ stream' \in Ssrcs)
          \/ /\ step' \in {"existing", "announced"} /\ arg' # None /\ stream' # None
             /\ UNCHANGED <<pending, answer, tasks>>
      BY <1>2, SignalingAssumption DEF MaybeSsrc, Registered, Handles, RoleSent, ExistingSubscribed, ReceiveAdd, AnnouncedSubscribed
    <2> QED  BY <2>1, <2>2, <2>3, <2>4
  <1> QED  BY <1>1, <1>2, <1>3

LEMMA HandledTypes ==
    ASSUME TypeOK, ArgShape, Handles
    PROVE  JoinerOK' /\ FieldsOK' /\ TasksOK'
  <1>0. /\ OutsideOK /\ JoinerOK /\ FieldsOK /\ TasksOK
    BY DEF TypeOK
  <1>1. /\ UNCHANGED <<gw, closing, websocket, connected>>
        /\ stream' \in MaybeSsrc /\ arg' \in MaybeSsrc
    BY HandledForms
  <1>3. subscribed' \subseteq Ssrcs
    <2>1. ExistingSubscribed \/ AnnouncedSubscribed => arg \in Ssrcs
      BY <1>0 DEF ExistingSubscribed, AnnouncedSubscribed, ArgShape, JoinerOK, MaybeSsrc
    <2> QED
      BY <1>0, <2>1 DEF Handles, RoleSent, ExistingSubscribed, ReceiveAdd,
         AnnouncedSubscribed, FieldsOK, Subscribe
  <1>4. \/ Waits /\ pending' \in {pending, gw, None}
        \/ \E g \in 1 .. Gateways : Answers(g)
        \/ step' \in {"existing", "announced"} /\ UNCHANGED <<pending, answer, tasks>>
    BY HandledForms
  <1>5. pending' \in 1 .. Gateways \cup {None}
    BY <1>0, <1>4 DEF Answers, FieldsOK, JoinerOK
  <1>6. FieldsOK'
    BY <1>0, <1>1, <1>3, <1>5 DEF FieldsOK
  <1>7. CASE step' \in {"existing", "announced"} /\ UNCHANGED <<pending, answer, tasks>>
    BY <1>0, <1>1, <1>6, <1>7 DEF JoinerOK, TasksOK, tasks, Joining
  <1> QED  BY <1>1, <1>4, <1>6, <1>7, EndingTypes

\* What disconnect() may set, besides its own await.
LEMMA CloseOrClearTypes ==
    ASSUME TypeOK, NEW c \in Callers, CloseOrClear(c)
    PROVE  FieldsOK' /\ closing' \in [Callers -> {"no", "created", "gather", "close", "done"}]
  BY DEF TypeOK, FieldsOK, TasksOK, CloseOrClear, ClearFields, MaybeSsrc, fields

LEMMA StartTypes ==
    ASSUME TypeOK, NEW c \in Callers, StartDisconnect(c)
    PROVE  FieldsOK' /\ TasksOK'
  <1>1. FieldsOK' /\ closing' \in [Callers -> {"no", "created", "gather", "close", "done"}]
    <2>1. CASE Background
      BY <2>1 DEF StartDisconnect, TypeOK, FieldsOK, TasksOK, fields
    <2>2. CASE ~Background
      BY <2>2, CloseOrClearTypes DEF StartDisconnect
    <2> QED  BY <2>1, <2>2
  <1> QED  BY <1>1 DEF StartDisconnect, CancelTasks, TypeOK, TasksOK

LEMMA DroppedTypes ==
    ASSUME TypeOK, Dropped
    PROVE  /\ stream' \in MaybeSsrc
           /\ closing' \in [Callers -> {"no", "created", "gather", "close", "done"}]
  BY DEF Dropped, TypeOK, FieldsOK, TasksOK, MaybeSsrc

LEMMA NextTryTypes ==
    ASSUME TypeOK, ArgShape, retry # "off", NextTry
    PROVE  retry' \in {"off", "sleep"} /\ tries' \in 0 .. Attempts
  BY SignalingAssumption DEF NextTry, TypeOK, TasksOK, ArgShape

LEMMA JoinerKept == TypeOK /\ ArgShape /\ ([Next]_vars \/ Fails) => JoinerOK'
  <1> SUFFICES ASSUME TypeOK, ArgShape, [Next]_vars \/ Fails PROVE JoinerOK'
    OBVIOUS
  <1>0. JoinerOK /\ OutsideOK
    BY DEF TypeOK
  <1>1. CASE ConnectFailed \/ ResetDone \/ HungUp
    <2>1. NextGateway /\ UNCHANGED <<arg, answer>>
      BY <1>1 DEF ConnectFailed, ResetDone, HungUp
    <2> QED  BY <1>0, <2>1, Onward DEF JoinerOK, Joining
  <1>2. CASE Connected \/ HelloSent \/ HelloFailed \/ WaitOver
    BY <1>0, <1>2 DEF Connected, HelloSent, HelloFailed, WaitOver, JoinerOK, Joining
  <1>3. CASE ReceiveSuccess
    <2>1. Head(inbox) \in Message
      BY <1>0, <1>3, AfterTail DEF ReceiveSuccess, NextMessage, OutsideOK
    <2> QED  BY <1>0, <1>3, <2>1 DEF ReceiveSuccess, JoinerOK, Joining, Message
  <1>4. CASE Handles
    BY <1>4, HandledTypes
  <1>5. CASE ReceiveOther \/ Loops \/ Disconnecting \/ Outside \/ UNCHANGED vars
    <2>1. UNCHANGED joiner
      BY <1>5 DEF ReceiveOther, Loops, Disconnecting, Outside, vars, ReadAdd, ReadOther,
         ReaderSubscribed, ReaderEnds, PingEnds, RetryWakes, RetrySubscribed, RetryFails,
         PeerLostDisconnects, TasksGathered, WebsocketClosed, PublisherComes, PublisherGoes,
         GatewayReplies, GatewayLosesPeer, ConnectionEnds
    <2> QED  BY <1>0, <2>1 DEF JoinerOK, joiner
  <1>6. CASE RelayDisconnects \/ Fails
    BY <1>0, <1>6 DEF RelayDisconnects, Fails, JoinerOK
  <1> QED  BY <1>1, <1>2, <1>3, <1>4, <1>5, <1>6 DEF Next, Join, Handles

LEMMA FieldsKept == TypeOK /\ ArgShape /\ ([Next]_vars \/ Fails) => FieldsOK'
  <1> SUFFICES ASSUME TypeOK, ArgShape, [Next]_vars \/ Fails PROVE FieldsOK'
    OBVIOUS
  <1>0. OutsideOK /\ JoinerOK /\ FieldsOK /\ TasksOK
    BY DEF TypeOK
  <1>1. CASE ConnectFailed \/ ResetDone
    <2>1. ClearFields
      BY <1>1 DEF ConnectFailed, ResetDone
    <2> QED  BY <2>1 DEF ClearFields, FieldsOK, MaybeSsrc
  <1>2. CASE Connected
    BY <1>0, <1>2 DEF Connected, FieldsOK, JoinerOK
  <1>3. CASE WaitOver \/ HungUp
    BY <1>0, <1>3 DEF WaitOver, HungUp, FieldsOK
  <1>4. CASE Handles
    BY <1>4, HandledTypes
  <1>5. CASE ReceiveOther \/ ReadOther
    <2>1. Dropped /\ UNCHANGED <<websocket, connected, subscribed, pending>>
      BY <1>5 DEF ReceiveOther, ReadOther
    <2> QED  BY <1>0, <2>1, DroppedTypes DEF FieldsOK
  <1>6. CASE ReadAdd
    <2>1. Head(inbox) \in Message
      BY <1>0, <1>6, AfterTail DEF ReadAdd, NextMessage, OutsideOK
    <2> QED  BY <1>0, <1>6, <2>1 DEF ReadAdd, FieldsOK, Message
  <1>7. CASE ReaderSubscribed \/ RetrySubscribed
    <2>1. /\ ReaderSubscribed => readerArg \in Ssrcs
          /\ RetrySubscribed => retryArg \in Ssrcs
      BY <1>0 DEF ReaderSubscribed, RetrySubscribed, ArgShape, TasksOK, MaybeSsrc
    <2> QED  BY <1>0, <1>7, <2>1 DEF ReaderSubscribed, RetrySubscribed, FieldsOK, Subscribe
  <1>8. CASE ReaderEnds
    BY <1>0, <1>8 DEF ReaderEnds, FieldsOK
  <1>9. CASE \E c \in Callers : StartDisconnect(c) \/ CloseOrClear(c)
    BY <1>9, StartTypes, CloseOrClearTypes
  <1>10. CASE \E c \in Callers : WebsocketClosed(c)
    BY <1>0, <1>10 DEF WebsocketClosed, ClearFields, FieldsOK, MaybeSsrc
  <1>11. CASE \/ HelloSent \/ HelloFailed \/ ReceiveSuccess \/ PingEnds \/ RetryWakes
              \/ RetryFails \/ Outside \/ Fails \/ UNCHANGED vars
    <2>1. UNCHANGED fields
      BY <1>11 DEF HelloSent, HelloFailed, ReceiveSuccess, PingEnds, RetryWakes, RetryFails,
         Outside, Fails, vars, PublisherComes, PublisherGoes, GatewayReplies,
         GatewayLosesPeer, ConnectionEnds
    <2> QED  BY <1>0, <2>1 DEF FieldsOK, fields
  <1>12. CASE RelayDisconnects \/ PeerLostDisconnects \/ \E c \in Callers : TasksGathered(c)
    BY <1>9, <1>12 DEF RelayDisconnects, PeerLostDisconnects, TasksGathered, Callers
  <1> QED
    BY <1>1, <1>2, <1>3, <1>4, <1>5, <1>6, <1>7, <1>8, <1>10, <1>11, <1>12
    DEF Next, Join, Loops, Disconnecting, Handles

LEMMA TasksKept == TypeOK /\ ArgShape /\ ([Next]_vars \/ Fails) => TasksOK'
  <1> SUFFICES ASSUME TypeOK, ArgShape, [Next]_vars \/ Fails PROVE TasksOK'
    OBVIOUS
  <1>0. OutsideOK /\ JoinerOK /\ FieldsOK /\ TasksOK
    BY DEF TypeOK
  <1>1. CASE \/ Connected \/ ConnectFailed \/ HelloSent \/ HelloFailed \/ ResetDone
             \/ ReceiveSuccess \/ WaitOver \/ HungUp \/ Fails \/ UNCHANGED vars
             \/ (\E s \in Ssrcs : PublisherComes(s)) \/ PublisherGoes \/ GatewayReplies
             \/ GatewayLosesPeer \/ ConnectionEnds
    <2>1. UNCHANGED <<tasks, closing>>
      BY <1>1 DEF Connected, ConnectFailed, HelloSent, HelloFailed, ResetDone, ReceiveSuccess,
         WaitOver, HungUp, Fails, vars, PublisherComes, PublisherGoes, GatewayReplies,
         GatewayLosesPeer, ConnectionEnds
    <2> QED  BY <1>0, <2>1 DEF TasksOK, tasks
  <1>2. CASE Handles
    BY <1>2, HandledTypes
  <1>3. CASE ReceiveOther \/ ReadOther
    <2>1. Dropped /\ UNCHANGED tasks
      BY <1>3 DEF ReceiveOther, ReadOther
    <2> QED  BY <1>0, <2>1, DroppedTypes DEF TasksOK, tasks
  <1>4. CASE ReadAdd
    <2>1. Head(inbox) \in Message
      BY <1>0, <1>4, AfterTail DEF ReadAdd, NextMessage, OutsideOK
    <2> QED  BY <1>0, <1>4, <2>1 DEF ReadAdd, TasksOK, Message
  <1>5. CASE ReaderSubscribed \/ ReaderEnds \/ PingEnds \/ RetryFails
    BY <1>0, <1>5 DEF ReaderSubscribed, ReaderEnds, PingEnds, RetryFails, TasksOK
  <1>6. CASE RetrySubscribed
    <2>1. NextTry /\ retry # "off"
      BY <1>6 DEF RetrySubscribed
    <2> QED  BY <1>0, <1>6, <2>1, NextTryTypes DEF RetrySubscribed, TasksOK
  <1>7. CASE RetryWakes
    <2>1. UNCHANGED <<reader, readerArg, ping, closing>> /\ retry # "off"
      BY <1>7 DEF RetryWakes
    <2>2. /\ retry' \in {"off", "sleep", "send"} /\ tries' \in 0 .. Attempts
          /\ retryArg' \in MaybeSsrc
      BY <1>0, <1>7, <2>1, NextTryTypes DEF RetryWakes, TasksOK, FieldsOK
    <2> QED  BY <1>0, <2>1, <2>2 DEF TasksOK
  <1>8. CASE RelayDisconnects \/ PeerLostDisconnects
    BY <1>8, StartTypes DEF RelayDisconnects, PeerLostDisconnects, Callers
  <1>9. CASE \E c \in Callers : TasksGathered(c)
    <2>1. (\E c \in Callers : CloseOrClear(c)) /\ UNCHANGED tasks
      BY <1>9 DEF TasksGathered
    <2> QED  BY <1>0, <2>1, CloseOrClearTypes DEF TasksOK, tasks
  <1>10. CASE \E c \in Callers : WebsocketClosed(c)
    BY <1>0, <1>10 DEF WebsocketClosed, TasksOK, tasks
  <1> QED
    BY <1>1, <1>2, <1>3, <1>4, <1>5, <1>6, <1>7, <1>8, <1>9, <1>10
    DEF Next, Join, Loops, Disconnecting, Outside, Handles

-----------------------------------------------------------------------------
(* The shapes that hold in any case *)

LEMMA InitialShapes == Init => ArgShape /\ LinkShape /\ TaskShape
  <1> SUFFICES ASSUME Init PROVE ArgShape /\ LinkShape /\ TaskShape
    OBVIOUS
  <1>1. \A i \in 1 .. Len(inbox) : FALSE
    BY DEF Init
  <1>2. closing["relay"] = "no"
    BY DEF Init, Callers
  <1> QED  BY <1>1, <1>2 DEF Init, ArgShape, LinkShape, TaskShape, Background

\* While the join is on, no loop of the handler runs.
LEMMA JoinAlone ==
    ASSUME TaskShape, step \in Joining
    PROVE  reader = "off" /\ ~ping /\ retry = "off" /\ ~Loops /\ closing["relay"] = "no"
  BY DEF TaskShape, Background, Loops, ReadAdd, ReadOther, ReaderSubscribed, ReaderEnds,
     PingEnds, RetryWakes, RetrySubscribed, RetryFails

\* disconnect() with no connection open loses what the fields say; with one, nothing.
LEMMA DisconnectFields ==
    ASSUME LinkShape, RelayDisconnects \/ Disconnecting
    PROVE  UNCHANGED fields \/ (~up /\ ClearFields)
  <1>1. \A c \in Callers : CloseOrClear(c) => UNCHANGED fields \/ (~up /\ ClearFields)
    BY DEF CloseOrClear, LinkShape
  <1>2. \A c \in Callers : StartDisconnect(c) => UNCHANGED fields \/ (~up /\ ClearFields)
    BY <1>1 DEF StartDisconnect
  <1> QED
    BY <1>1, <1>2 DEF RelayDisconnects, Disconnecting, PeerLostDisconnects, TasksGathered,
       WebsocketClosed, Callers

LEMMA ArgKept == IInv /\ ([Next]_vars \/ Fails) => ArgShape'
  <1> SUFFICES ASSUME IInv, [Next]_vars \/ Fails PROVE ArgShape'
    OBVIOUS
  <1>0. TypeOK /\ ArgShape /\ LinkShape /\ TaskShape /\ OutsideOK /\ JoinerOK /\ TasksOK
    BY DEF IInv, TypeOK
  <1>1. (\A i \in 1 .. Len(inbox) : inbox[i].kind = "add" => inbox[i].ssrc # None)'
    <2>1. CASE NextMessage
      BY <1>0, <2>1, AfterTail DEF NextMessage, ArgShape, OutsideOK
    <2>2. CASE Connected
      <3>1. \A i \in 1 .. Len(inbox') : FALSE
        BY <2>2 DEF Connected
      <3> QED  BY <3>1
    <2>3. CASE Outside
      BY <1>0, <2>3, OutsideTells, AfterAppend DEF Tell, ArgShape
    <2>4. CASE UNCHANGED inbox
      BY <1>0, <2>4 DEF ArgShape
    <2> QED
      BY <2>1, <2>2, <2>3, <2>4 DEF Next, vars, network, mower, Join, Loops, Disconnecting, Fails,
         ConnectFailed, HelloSent, HelloFailed, ResetDone, ReceiveSuccess, RoleSent,
         ExistingSubscribed, ReceiveAdd, AnnouncedSubscribed, ReceiveOther, WaitOver, HungUp,
         ReadAdd, ReadOther, ReaderSubscribed, ReaderEnds, PingEnds, RetryWakes,
         RetrySubscribed, RetryFails, RelayDisconnects, PeerLostDisconnects, TasksGathered,
         WebsocketClosed
  <1>2. (step \in {"existing", "announced"} => arg # None /\ (up => stream # None))'
    <2>1. CASE Handles
      BY <1>0, <2>1, HandledForms DEF Waits, Answers
    <2>2. CASE step' \notin {"existing", "announced"}
      BY <2>2
    <2>3. CASE RelayDisconnects \/ Disconnecting
      <3>1. UNCHANGED <<arg, up>> /\ (UNCHANGED step \/ step' = "cancelled")
        BY <2>3 DEF RelayDisconnects, Disconnecting, PeerLostDisconnects, TasksGathered,
           WebsocketClosed, joiner, network, mower
      <3>2. UNCHANGED fields \/ ~up
        BY <1>0, <2>3, DisconnectFields
      <3> QED  BY <1>0, <3>1, <3>2 DEF ArgShape, fields
    <2>4. CASE Loops
      BY <1>0, <2>2, <2>4, JoinAlone DEF Joining, Loops, joiner, ReadAdd, ReadOther,
         ReaderSubscribed, ReaderEnds, PingEnds, RetryWakes, RetrySubscribed, RetryFails
    <2>5. CASE Outside
      <3>1. UNCHANGED <<step, arg, stream>> /\ (UNCHANGED up \/ ~up')
        BY <2>5 DEF Outside, joiner, fields, PublisherComes, PublisherGoes, GatewayReplies,
           GatewayLosesPeer, ConnectionEnds
      <3> QED  BY <1>0, <3>1 DEF ArgShape
    <2>6. CASE UNCHANGED vars
      BY <1>0, <2>6 DEF ArgShape, vars, joiner, network, mower, fields
    <2>7. CASE NextGateway
      BY <1>0, <2>2, <2>7, Onward
    <2>8. CASE Join /\ ~Handles
      BY <2>2, <2>7, <2>8 DEF Join, Handles, joiner, Connected, ConnectFailed, HelloSent,
         HelloFailed, ResetDone, ReceiveSuccess, ReceiveOther, WaitOver, HungUp
    <2>9. CASE Fails
      BY <2>2, <2>9 DEF Fails
    <2> QED  BY <2>1, <2>3, <2>4, <2>5, <2>6, <2>8, <2>9 DEF Next
  <1>3. (/\ reader = "send" => readerArg # None
         /\ retry = "send" => retryArg # None
         /\ retry # "off" => tries >= 1)'
    <2>1. CASE UNCHANGED tasks
      BY <1>0, <2>1 DEF tasks, ArgShape
    <2>2. CASE Handles
      BY <1>0, <2>1, <2>2, HandledForms DEF Waits, Answers
    <2>3. CASE ReadAdd
      <3>1. Head(inbox) \in Message /\ Head(inbox).ssrc # None
        BY <1>0, <2>3, AfterTail DEF ReadAdd, NextMessage, ArgShape, OutsideOK
      <3> QED  BY <1>0, <2>3, <3>1 DEF ReadAdd, ArgShape
    <2>4. CASE RetryWakes \/ RetrySubscribed
      <3>1. UNCHANGED <<reader, readerArg>>
        BY <2>4 DEF RetryWakes, RetrySubscribed
      <3>2. NextTry => (retry' = "sleep" => tries' >= 1) /\ retry' # "send"
        BY <1>0 DEF NextTry, TasksOK
      <3>3. CASE NextTry /\ UNCHANGED retryArg
        BY <1>0, <3>1, <3>2, <3>3 DEF ArgShape, NextTry
      <3>4. CASE retry' = "off" \/ (retry' = "send" /\ retryArg' # None /\ tries' >= 1)
        BY <1>0, <3>1, <3>4 DEF ArgShape
      <3> QED  BY <1>0, <2>4, <3>3, <3>4 DEF RetryWakes, RetrySubscribed, ArgShape
    <2>5. CASE ReaderSubscribed \/ ReaderEnds \/ PingEnds \/ RetryFails
      BY <1>0, <2>5 DEF ReaderSubscribed, ReaderEnds, PingEnds, RetryFails, ArgShape
    <2>6. CASE \E c \in Callers : StartDisconnect(c)
      BY <1>0, <2>6 DEF StartDisconnect, CancelTasks, ArgShape
    <2> QED
      BY <2>1, <2>2, <2>3, <2>4, <2>5, <2>6 DEF Next, vars, Join, Loops, Disconnecting, Outside,
         Fails, Handles, Connected, ConnectFailed, HelloSent, HelloFailed, ResetDone,
         ReceiveSuccess, ReceiveOther, WaitOver, HungUp, ReadOther, RelayDisconnects,
         PeerLostDisconnects, TasksGathered, WebsocketClosed, Callers, PublisherComes,
         PublisherGoes, GatewayReplies, GatewayLosesPeer, ConnectionEnds
  <1> QED  BY <1>1, <1>2, <1>3 DEF ArgShape

LEMMA LinkKept == IInv /\ ([Next]_vars \/ Fails) => LinkShape'
  <1> SUFFICES ASSUME IInv, [Next]_vars \/ Fails PROVE LinkShape'
    OBVIOUS
  <1>0. TypeOK /\ ArgShape /\ LinkShape /\ TaskShape /\ JoinerOK
    BY DEF IInv, TypeOK
  <1>1. CASE Connected
    BY <1>0, <1>1, SignalingAssumption DEF Connected, LinkShape, JoinerOK
  <1>2. CASE ConnectFailed \/ HelloFailed \/ ResetDone \/ HungUp
    BY <1>0, <1>2 DEF ConnectFailed, HelloFailed, ResetDone, HungUp, LinkShape, network, mower
  <1>3. CASE RelayDisconnects \/ Disconnecting
    <2>1. UNCHANGED up /\ (UNCHANGED step \/ step' = "cancelled")
      BY <1>3 DEF RelayDisconnects, Disconnecting, PeerLostDisconnects, TasksGathered,
         WebsocketClosed, joiner, network, mower
    <2>2. UNCHANGED fields \/ ~up
      BY <1>0, <1>3, DisconnectFields
    <2> QED  BY <1>0, <2>1, <2>2 DEF LinkShape, fields
  <1>4. CASE Handles
    <2>1. UNCHANGED <<up, websocket>>
      BY <1>0, <1>4, HandledForms
    <2>2. step' \notin {"connect", "reset"}
      BY <1>0, <1>4, HandledForms DEF Waits, Answers
    <2> QED  BY <1>0, <2>1, <2>2 DEF LinkShape
  <1>5. CASE HelloSent \/ ReceiveSuccess \/ ReceiveOther \/ WaitOver \/ Loops \/ Fails
    <2>1. UNCHANGED <<up, websocket>>
      BY <1>5 DEF HelloSent, ReceiveSuccess, ReceiveOther, WaitOver, Loops, Fails, ReadAdd,
         ReadOther, ReaderSubscribed, ReaderEnds, PingEnds, RetryWakes, RetrySubscribed,
         RetryFails, network, mower, fields
    <2>2. UNCHANGED step \/ step' \notin {"connect", "reset"}
      BY <1>5 DEF HelloSent, ReceiveSuccess, ReceiveOther, WaitOver, Loops, Fails, ReadAdd,
         ReadOther, ReaderSubscribed, ReaderEnds, PingEnds, RetryWakes, RetrySubscribed,
         RetryFails, joiner
    <2> QED  BY <1>0, <2>1, <2>2 DEF LinkShape
  <1>6. CASE Outside \/ UNCHANGED vars
    <2>1. UNCHANGED <<step, websocket>> /\ (UNCHANGED up \/ ~up')
      BY <1>6 DEF Outside, joiner, fields, network, mower, vars, PublisherComes, PublisherGoes,
         GatewayReplies, GatewayLosesPeer, ConnectionEnds
    <2> QED  BY <1>0, <2>1 DEF LinkShape
  <1> QED  BY <1>1, <1>2, <1>3, <1>4, <1>5, <1>6 DEF Next, Join, Handles

LEMMA TaskKept == IInv /\ ([Next]_vars \/ Fails) => TaskShape'
  <1> SUFFICES ASSUME IInv, [Next]_vars \/ Fails PROVE TaskShape'
    OBVIOUS
  <1>0. TypeOK /\ ArgShape /\ LinkShape /\ TaskShape /\ TasksOK
    BY DEF IInv, TypeOK
  <1>1. CASE Handles
    <2>1. step \in Joining
      BY <1>1 DEF Handles, RoleSent, ExistingSubscribed, ReceiveAdd, AnnouncedSubscribed, Joining
    <2>2. closing["relay"]' = "no"
      BY <1>0, <1>1, <2>1, HandledForms, JoinAlone
    <2>3. Background' => step' = "answered"
      BY <1>0, <1>1, <2>1, HandledForms, JoinAlone DEF Waits, tasks, Background, Answers
    <2> QED  BY <2>2, <2>3 DEF TaskShape, Joining
  <1>2. CASE Join /\ ~Handles /\ ~ReceiveOther
    <2>1. step \in Joining /\ UNCHANGED <<tasks, closing>>
      BY <1>2 DEF Join, Handles, Joining, Connected, ConnectFailed, HelloSent, HelloFailed,
         ResetDone, ReceiveSuccess, WaitOver, HungUp
    <2>2. reader' = "off" /\ ~ping' /\ retry' = "off" /\ closing["relay"]' = "no"
      BY <1>0, <2>1, JoinAlone DEF tasks
    <2> QED  BY <2>2 DEF TaskShape, Background
  <1>3. CASE ReceiveOther \/ ReadOther
    <2>1. closing["relay"]' = closing["relay"]
      BY <1>0, <1>3 DEF ReceiveOther, ReadOther, Dropped, TasksOK, Callers
    <2>2. UNCHANGED <<step, tasks, websocket, connected>>
      BY <1>3 DEF ReceiveOther, ReadOther, joiner
    <2> QED  BY <1>0, <2>1, <2>2 DEF TaskShape, Background, tasks
  <1>4. CASE Loops /\ ~ReadOther
    <2>1. Background /\ UNCHANGED <<step, closing>>
      BY <1>4 DEF Loops, Background, joiner, ReadAdd, ReaderSubscribed, ReaderEnds, PingEnds,
         RetryWakes, RetrySubscribed, RetryFails
    <2> QED  BY <1>0, <2>1 DEF TaskShape
  <1>5. CASE RelayDisconnects
    <2>1. ~Background' /\ step' \notin Joining
      BY <1>0, <1>5 DEF RelayDisconnects, StartDisconnect, CancelTasks, Background, Joining
    <2>2. CASE Background
      BY <1>0, <1>5, <2>1, <2>2 DEF RelayDisconnects, StartDisconnect, TaskShape, TasksOK, Callers
    <2>3. CASE ~Background
      BY <1>0, <1>5, <2>1, <2>3 DEF RelayDisconnects, StartDisconnect, TaskShape, TasksOK,
         Callers, CloseOrClear, ClearFields
    <2> QED  BY <2>2, <2>3
  <1>6. CASE PeerLostDisconnects
    <2>1. ~Background' /\ UNCHANGED step
      BY <1>6 DEF PeerLostDisconnects, StartDisconnect, CancelTasks, Background, joiner
    <2>2. closing["relay"]' = closing["relay"]
      BY <1>0, <1>6 DEF PeerLostDisconnects, StartDisconnect, CloseOrClear, TasksOK, Callers
    <2>3. UNCHANGED <<websocket, connected>> \/ (websocket' = None /\ ~connected')
      BY <1>6 DEF PeerLostDisconnects, StartDisconnect, CloseOrClear, ClearFields, fields
    <2> QED  BY <1>0, <2>1, <2>2, <2>3 DEF TaskShape
  <1>7. CASE \E c \in Callers : TasksGathered(c) \/ WebsocketClosed(c)
    <2>1. PICK c \in Callers : TasksGathered(c) \/ WebsocketClosed(c)
      BY <1>7
    <2>2. UNCHANGED <<step, tasks>> /\ closing[c] \in {"gather", "close"}
      BY <2>1 DEF TasksGathered, WebsocketClosed, joiner
    <2>3. \/ UNCHANGED fields /\ closing' = [closing EXCEPT ![c] = "close"]
          \/ websocket' = None /\ ~connected' /\ closing' = [closing EXCEPT ![c] = "done"]
      BY <2>1 DEF TasksGathered, WebsocketClosed, CloseOrClear, ClearFields
    <2>4. (Background' <=> Background)
      BY <2>2 DEF Background, tasks
    <2>5. CASE c = "relay"
      BY <1>0, <2>2, <2>3, <2>4, <2>5 DEF TaskShape, TasksOK
    <2>6. CASE c # "relay"
      <3>1. closing["relay"]' = closing["relay"]
        BY <1>0, <2>3, <2>6 DEF TasksOK, Callers
      <3>2. (websocket' = websocket /\ connected' = connected)
            \/ (websocket' = None /\ ~connected')
        BY <2>3 DEF fields
      <3> QED  BY <1>0, <2>2, <2>4, <3>1, <3>2 DEF TaskShape
    <2> QED  BY <2>5, <2>6
  <1>8. CASE Outside \/ Fails \/ UNCHANGED vars
    <2>1. UNCHANGED <<tasks, closing, websocket, connected>>
      BY <1>8 DEF Outside, Fails, fields, vars, PublisherComes, PublisherGoes, GatewayReplies,
         GatewayLosesPeer, ConnectionEnds
    <2>2. step' \in Joining => step \in Joining
      BY <1>8 DEF Outside, Fails, joiner, vars, PublisherComes, PublisherGoes, GatewayReplies,
         GatewayLosesPeer, ConnectionEnds, Joining
    <2> QED  BY <1>0, <2>1, <2>2 DEF TaskShape, Background, tasks
  <1> QED  BY <1>1, <1>2, <1>3, <1>4, <1>5, <1>6, <1>7, <1>8 DEF Next, Disconnecting

LEMMA Initial == Init => IInv
  BY InitialTypes, InitialShapes DEF IInv

LEMMA Kept == IInv /\ ([Next]_vars \/ Fails) => IInv'
  BY OutsideKept, JoinerKept, FieldsKept, TasksKept, ArgKept, LinkKept, TaskKept
  DEF IInv, TypeOK

\* The shapes are an invariant.
THEOREM Invariant == Spec => []IInv
  BY Initial, Kept, PTL DEF Spec

\* Every variable keeps its kind: in particular the joiner never moves to a gateway
\* beyond the last one, and every answer names a gateway there is and an SSRC.
THEOREM TypeCorrect == Spec => []TypeOK
  <1>1. IInv => TypeOK
    BY DEF IInv
  <1> QED  BY <1>1, Invariant, PTL

\* When the relay's disconnect() has returned, neither task nor websocket is left,
\* wherever it met the join and whatever a disconnect() of on_p2p_lost was doing.
THEOREM NothingIsLeft == Spec => []DisconnectLeavesNothing
  <1>1. IInv => DisconnectLeavesNothing
    BY DEF IInv, LinkShape, TaskShape, DisconnectLeavesNothing
  <1> QED  BY <1>1, Invariant, PTL

-----------------------------------------------------------------------------
(* The order of the messages, with a gateway that answers the join first *)

NoSuccess == \A i \in 1 .. Len(inbox) : inbox[i].kind # "success"

\* What a step can do to the messages.
LEMMA Arrivals ==
    ASSUME OrderInv, ~Early, [Next]_vars \/ Fails
    PROVE  \/ Connected
           \/ GatewayReplies
           \/ UNCHANGED <<inbox, replied>>
           \/ NextMessage /\ UNCHANGED replied
           \/ /\ replied /\ UNCHANGED replied
              /\ \E m \in Message : m.kind # "success" /\ inbox' = Append(inbox, m)
  <1>1. CASE Outside
    <2>1. TypeOK /\ (~replied => inbox = <<>>)
      BY DEF OrderInv, IInv, OrderShape
    <2>2. GatewayReplies \/ UNCHANGED replied
      BY <1>1 DEF Outside, PublisherComes, PublisherGoes, GatewayLosesPeer, ConnectionEnds
    <2>3. GatewayReplies \/ UNCHANGED inbox \/ replied
      BY <1>1 DEF Outside, PublisherComes, PublisherGoes, GatewayLosesPeer, ConnectionEnds
    <2> QED  BY <1>1, <2>1, <2>2, <2>3, OutsideTells DEF Tell
  <1>2. CASE \/ ConnectFailed \/ HelloSent \/ HelloFailed \/ ResetDone \/ ReceiveSuccess
             \/ Handles \/ ReceiveOther \/ WaitOver \/ HungUp
    BY <1>2 DEF network, mower, Handles, ConnectFailed, HelloSent, HelloFailed, ResetDone,
       ReceiveSuccess, RoleSent, ExistingSubscribed, ReceiveAdd, AnnouncedSubscribed,
       ReceiveOther, WaitOver, HungUp
  <1>3. CASE Loops \/ RelayDisconnects \/ Disconnecting
    BY <1>3 DEF network, mower, Loops, Disconnecting, ReadAdd, ReadOther, ReaderSubscribed, ReaderEnds,
       PingEnds, RetryWakes, RetrySubscribed, RetryFails, RelayDisconnects, PeerLostDisconnects,
       TasksGathered, WebsocketClosed
  <1>4. CASE Fails \/ UNCHANGED vars
    BY <1>4 DEF network, mower, vars, Fails
  <1> QED
    BY <1>1, <1>2, <1>3, <1>4 DEF Next, Join, Handles

LEMMA InboxOrder ==
    ASSUME OrderInv, ~Early, [Next]_vars \/ Fails
    PROVE  /\ (~replied => inbox = <<>>)'
           /\ (\A i \in 1 .. Len(inbox) : inbox[i].kind = "success" => i = 1)'
           /\ NextMessage /\ ~Connected => replied /\ NoSuccess'
           /\ replied /\ NoSuccess => Connected \/ (replied' /\ NoSuccess')
           /\ inbox # <<>> /\ Head(inbox).kind = "success" =>
                 Connected \/ NextMessage \/ (inbox # <<>> /\ Head(inbox).kind = "success")'
  <1>0. /\ inbox \in Seq(Message) /\ OrderShape
        /\ ~replied => inbox = <<>>
        /\ \A i \in 1 .. Len(inbox) : inbox[i].kind = "success" => i = 1
    BY DEF OrderInv, IInv, TypeOK, OutsideOK, OrderShape
  <1>1. CASE Connected
    <2>1. inbox' = <<>> /\ \A i \in 1 .. Len(inbox') : FALSE
      BY <1>1 DEF Connected
    <2> QED  BY <1>1, <2>1
  <1>2. CASE GatewayReplies
    <2> DEFINE m == [kind |-> "success", ssrc |-> publisher]
    <2>1. inbox = <<>> /\ inbox' = Append(inbox, m) /\ replied' /\ ~replied
      BY <1>0, <1>2 DEF GatewayReplies, Tell
    <2>2. m \in Message
      BY DEF Message, OrderInv, IInv, TypeOK, OutsideOK
    <2>3. Len(inbox') = 1
      BY <1>0, <2>1, <2>2, AfterAppend
    <2>4. \A i \in 1 .. Len(inbox') : i = 1
      BY <2>3
    <2> QED  BY <2>1, <2>4 DEF NextMessage
  <1>3. CASE UNCHANGED <<inbox, replied>>
    <2>1. inbox # <<>> => inbox # Tail(inbox)
      BY <1>0, Shorter
    <2> QED  BY <1>0, <1>3, <2>1 DEF NextMessage, NoSuccess
  <1>4. CASE NextMessage /\ UNCHANGED replied
    <2>1. replied
      BY <1>0, <1>4 DEF NextMessage
    <2>2. \A i \in 1 .. Len(inbox') : i + 1 \in 1 .. Len(inbox) /\ inbox'[i] = inbox[i + 1]
      BY <1>0, <1>4, AfterTail DEF NextMessage
    <2>3. \A i \in 1 .. Len(inbox') : i + 1 # 1
      OBVIOUS
    <2>4. \A i \in 1 .. Len(inbox') : inbox'[i].kind # "success"
      BY <1>0, <2>2, <2>3
    <2> QED  BY <1>4, <2>1, <2>4 DEF NoSuccess
  <1>5. CASE /\ replied /\ UNCHANGED replied
             /\ \E m \in Message : m.kind # "success" /\ inbox' = Append(inbox, m)
    <2>1. PICK m \in Message : m.kind # "success" /\ inbox' = Append(inbox, m)
      BY <1>5
    <2>2. \A i \in 1 .. Len(inbox') :
             (i \in 1 .. Len(inbox) /\ inbox'[i] = inbox[i]) \/ inbox'[i] = m
      BY <1>0, <2>1, AfterAppend
    <2>3. \A i \in 1 .. Len(inbox') : inbox'[i].kind = "success" =>
             i \in 1 .. Len(inbox) /\ inbox'[i] = inbox[i]
      BY <2>1, <2>2
    <2>4. inbox' # <<>> /\ (inbox # <<>> => Head(inbox') = Head(inbox))
      BY <1>0, <2>1, AfterAppend
    <2>5. NextMessage => FALSE
      BY <1>0, <2>1, Shorter DEF NextMessage
    <2>6. (\A i \in 1 .. Len(inbox) : inbox[i].kind = "success" => i = 1)'
      BY <1>0, <2>3
    <2>7. NoSuccess => NoSuccess'
      BY <2>3 DEF NoSuccess
    <2> QED  BY <1>0, <1>5, <2>4, <2>5, <2>6, <2>7
  <1> QED  BY <1>1, <1>2, <1>3, <1>4, <1>5, Arrivals

\* The parts of OrderShape that are about the await of the join and the answer.
StepOrder ==
    /\ step = "hello" => ~replied
    /\ step \in {"role", "existing", "announced", "answered"} => replied /\ NoSuccess
    /\ step = "wait" /\ replied =>
          \/ inbox # <<>> /\ Head(inbox).kind = "success"
          \/ pending = gw \/ (pending = None /\ ~up)
    /\ step = "announced" => pending = gw \/ (pending = None /\ ~up)
    /\ step \in Joining => subscribed = {}
    /\ AnswerMatchesGateway

LEMMA HandledOrder == OrderInv /\ ~Early /\ Handles => StepOrder'
  <1> SUFFICES ASSUME OrderInv, ~Early, Handles PROVE StepOrder'
    OBVIOUS
  <1>0. TypeOK /\ ArgShape /\ LinkShape /\ OrderShape /\ OutsideOK /\ JoinerOK /\ FieldsOK
    BY DEF OrderInv, IInv, TypeOK
  <1>1. Next /\ step \in Joining /\ subscribed = {}
    BY <1>0 DEF Handles, Next, Join, RoleSent, ExistingSubscribed, ReceiveAdd,
       AnnouncedSubscribed, Joining, OrderShape
  <1>2. UNCHANGED <<gw, up, replied>> /\ stream' \in MaybeSsrc
    BY <1>0, HandledForms
  <1>3. replied /\ NoSuccess'
    <2>1. CASE ReceiveAdd
      <3>1. NextMessage /\ ~Connected
        BY <2>1 DEF ReceiveAdd, Connected
      <3> QED  BY <1>1, <3>1, InboxOrder
    <2>2. CASE ~ReceiveAdd
      <3>1. UNCHANGED inbox /\ step \in {"role", "existing", "announced"}
        BY <2>2 DEF Handles, network, mower, RoleSent, ExistingSubscribed, AnnouncedSubscribed
      <3> QED  BY <1>0, <3>1 DEF OrderShape, NoSuccess
    <2> QED  BY <2>1, <2>2
  <1>4. CASE RoleSent
    <2>1. UNCHANGED subscribed
      BY <1>4 DEF RoleSent
    <2>2. CASE step' = "existing"
      BY <1>0, <1>1, <1>2, <1>3, <2>1, <2>2 DEF StepOrder, AnswerMatchesGateway
    <2>3. CASE step' # "existing"
      <3>1. Settle
        BY <1>4, <2>3 DEF RoleSent
      <3>2. (Waits /\ pending' = gw) \/ Answers(gw)
        BY <1>0, <1>2, <3>1, Settled
      <3> QED
        BY <1>1, <1>2, <1>3, <2>1, <3>2 DEF StepOrder, Waits, Answers, Joining, AnswerMatchesGateway
    <2> QED  BY <2>2, <2>3
  <1>5. CASE ExistingSubscribed
    <2>1. Settle /\ stream' # None
      BY <1>0, <1>5 DEF ExistingSubscribed, ArgShape
    <2>2. Answers(gw)
      BY <1>0, <1>2, <2>1, Settled
    <2> QED  BY <1>2, <1>3, <2>2 DEF StepOrder, Answers, Joining, AnswerMatchesGateway
  <1>6. CASE ReceiveAdd
    <2>1. Head(inbox).kind = "add" /\ step = "wait" /\ UNCHANGED subscribed
      BY <1>6 DEF ReceiveAdd
    <2>2. pending = gw \/ (pending = None /\ ~up)
      BY <1>0, <1>3, <2>1 DEF OrderShape
    <2>3. CASE step' = "announced"
      <3>1. UNCHANGED pending
        BY <1>6, <2>3 DEF ReceiveAdd, Announced, Finalize
      <3> QED  BY <1>1, <1>2, <1>3, <2>1, <2>2, <2>3, <3>1 DEF StepOrder, AnswerMatchesGateway
    <2>4. CASE step' # "announced"
      <3>1. Announced /\ stream' \in Ssrcs
        <4>1. Head(inbox) \in Message /\ Head(inbox).ssrc # None
          BY <1>0, <1>6, AfterTail DEF ReceiveAdd, NextMessage, ArgShape, OutsideOK
        <4> QED  BY <1>6, <2>4, <4>1 DEF ReceiveAdd, Message, MaybeSsrc
      <3>2. (Waits /\ pending = None /\ pending' = None)
            \/ (pending \in 1 .. Gateways /\ Answers(pending))
        BY <1>0, <3>1, AnnouncedForms
      <3>3. pending \in 1 .. Gateways => pending # None
        BY SignalingAssumption
      <3> QED
        BY <1>1, <1>2, <1>3, <2>1, <2>2, <3>2, <3>3
        DEF StepOrder, Waits, Answers, Joining, AnswerMatchesGateway
    <2> QED  BY <2>3, <2>4
  <1>7. CASE AnnouncedSubscribed
    <2>1. pending = gw /\ pending # None /\ Announced
      BY <1>0, <1>7, SignalingAssumption DEF AnnouncedSubscribed, OrderShape, JoinerOK
    <2>2. stream' \in Ssrcs
      BY <1>0, <1>2, <1>7 DEF AnnouncedSubscribed, ArgShape, MaybeSsrc
    <2>3. Answers(gw)
      BY <1>0, <2>1, <2>2, AnnouncedForms
    <2> QED  BY <1>2, <1>3, <2>3 DEF StepOrder, Answers, Joining, AnswerMatchesGateway
  <1> QED  BY <1>4, <1>5, <1>6, <1>7 DEF Handles

LEMMA OrderKept == OrderInv /\ ~Early /\ ([Next]_vars \/ Fails) => OrderShape'
  <1> SUFFICES ASSUME OrderInv, ~Early, [Next]_vars \/ Fails PROVE OrderShape'
    OBVIOUS
  <1>0. TypeOK /\ ArgShape /\ LinkShape /\ TaskShape /\ OrderShape
    BY DEF OrderInv, IInv
  <1> SUFFICES StepOrder'
    BY InboxOrder DEF OrderShape, StepOrder, NoSuccess
  <1>1. StepOrder
    BY <1>0 DEF OrderShape, StepOrder, NoSuccess
  <1>2. CASE Handles
    BY <1>2, HandledOrder
  <1>3. CASE Connected
    BY <1>1, <1>3 DEF Connected, StepOrder, Joining, AnswerMatchesGateway
  <1>4. CASE ConnectFailed \/ ResetDone \/ HungUp
    <2>1. NextGateway /\ (subscribed' = {} \/ UNCHANGED subscribed) /\ step \in Joining
      BY <1>4 DEF ConnectFailed, ResetDone, HungUp, ClearFields, Joining
    <2> QED  BY <1>0, <1>1, <2>1, Onward DEF StepOrder, AnswerMatchesGateway
  <1>5. CASE HelloSent \/ HelloFailed \/ WaitOver
    <2>1. step \in Joining /\ UNCHANGED subscribed /\ UNCHANGED replied
      BY <1>5 DEF HelloSent, HelloFailed, WaitOver, Joining, fields, network, mower
    <2>2. step' \in {"reset", "hangup"} \/ (step' = "wait" /\ step = "hello")
      BY <1>5 DEF HelloSent, HelloFailed, WaitOver
    <2> QED  BY <1>1, <2>1, <2>2 DEF StepOrder, AnswerMatchesGateway
  <1>6. CASE ReceiveSuccess
    <2>1. replied' /\ NoSuccess'
      <3>1. NextMessage /\ ~Connected /\ UNCHANGED replied
        BY <1>6 DEF ReceiveSuccess, Connected
      <3> QED  BY <3>1, InboxOrder
    <2>2. step = "wait" /\ step' = "role" /\ UNCHANGED subscribed
      BY <1>6 DEF ReceiveSuccess, fields
    <2> QED  BY <1>1, <2>1, <2>2 DEF StepOrder, AnswerMatchesGateway, Joining
  <1>7. CASE ReceiveOther
    <2>1. /\ Head(inbox).kind # "success" /\ step = "wait"
          /\ UNCHANGED <<up, replied, step, gw, answer, subscribed, pending>>
      BY <1>7 DEF ReceiveOther, joiner
    <2> QED  BY <1>1, <2>1 DEF StepOrder, AnswerMatchesGateway
  <1>8. CASE Loops
    <2>1. step \notin Joining
      BY <1>0, <1>8, JoinAlone
    <2>2. UNCHANGED <<step, gw, answer>> /\ ~Connected
      BY <1>8, <2>1 DEF Loops, joiner, Connected, Joining, ReadAdd, ReadOther, ReaderSubscribed,
         ReaderEnds, PingEnds, RetryWakes, RetrySubscribed, RetryFails
    <2>3. replied /\ NoSuccess => replied' /\ NoSuccess'
      BY <2>2, InboxOrder
    <2> QED  BY <1>1, <2>1, <2>2, <2>3 DEF StepOrder, AnswerMatchesGateway, Joining
  <1>9. CASE RelayDisconnects \/ Disconnecting
    <2>1. /\ UNCHANGED <<up, inbox, replied, gw, answer>>
          /\ UNCHANGED step \/ step' = "cancelled"
      BY <1>9 DEF RelayDisconnects, Disconnecting, PeerLostDisconnects, TasksGathered,
         WebsocketClosed, joiner, network, mower
    <2>2. (UNCHANGED <<subscribed, pending>>) \/ (~up /\ subscribed' = {} /\ pending' = None)
      BY <1>0, <1>9, DisconnectFields DEF fields, ClearFields
    <2>3. CASE step' = "cancelled"
      BY <2>3 DEF StepOrder, AnswerMatchesGateway, Joining
    <2>4. CASE UNCHANGED step
      BY <1>1, <2>1, <2>2, <2>4 DEF StepOrder, AnswerMatchesGateway, NoSuccess
    <2> QED  BY <2>1, <2>3, <2>4
  <1>10. CASE Outside
    <2>1. UNCHANGED <<step, gw, answer, subscribed, pending>> /\ (UNCHANGED up \/ ~up')
      BY <1>10 DEF Outside, joiner, fields, PublisherComes, PublisherGoes, GatewayReplies,
         GatewayLosesPeer, ConnectionEnds
    <2>2. ~Connected
      BY <2>1 DEF Connected
    <2>3. inbox # <<>> => ~NextMessage
      BY <1>0, <1>10, OutsideTells, Shorter DEF NextMessage, Tell, TypeOK, OutsideOK
    <2>4. GatewayReplies => step # "hello" /\ inbox' # <<>> /\ Head(inbox').kind = "success"
      BY <1>0, AfterAppend DEF GatewayReplies, Tell, Listens, OrderShape
    <2>5. UNCHANGED replied \/ GatewayReplies
      BY <1>10 DEF Outside, PublisherComes, PublisherGoes, GatewayLosesPeer, ConnectionEnds
    <2>6. /\ replied /\ NoSuccess => replied' /\ NoSuccess'
          /\ inbox # <<>> /\ Head(inbox).kind = "success" =>
                inbox' # <<>> /\ Head(inbox').kind = "success"
      BY <2>2, <2>3, InboxOrder
    <2> QED  BY <1>1, <2>1, <2>4, <2>5, <2>6 DEF StepOrder, AnswerMatchesGateway
  <1>11. CASE Fails
    BY <1>11 DEF Fails, StepOrder, AnswerMatchesGateway, Joining
  <1>12. CASE UNCHANGED vars
    BY <1>1, <1>12 DEF vars, network, mower, joiner, fields, StepOrder, AnswerMatchesGateway, NoSuccess
  <1> QED
    BY <1>2, <1>3, <1>4, <1>5, <1>6, <1>7, <1>8, <1>9, <1>10, <1>11, <1>12
    DEF Next, Join, Handles

LEMMA InitialOrder == Init => OrderShape
  <1> SUFFICES ASSUME Init PROVE OrderShape
    OBVIOUS
  <1>1. \A i \in 1 .. Len(inbox) : FALSE
    BY DEF Init
  <1> QED  BY <1>1 DEF Init, OrderShape, AnswerMatchesGateway

LEMMA OrderInvariant == ~Early => (Spec => []OrderInv)
  <1> SUFFICES ASSUME ~Early PROVE Spec => []OrderInv
    OBVIOUS
  <1>1. Init => OrderInv
    BY Initial, InitialOrder DEF OrderInv
  <1>2. OrderInv /\ [Next]_vars => OrderInv'
    BY Kept, OrderKept DEF OrderInv
  <1> QED  BY <1>1, <1>2, PTL DEF Spec

\* With a gateway that answers the join before it announces a stream, the answer of the
\* relay is made from the parameters of the gateway whose websocket is kept, through
\* any number of gateways given up before.
THEOREM AnswerIsOfItsGateway == ~Early => (Spec => []AnswerMatchesGateway)
  <1> SUFFICES ASSUME ~Early PROVE Spec => []AnswerMatchesGateway
    OBVIOUS
  <1>1. OrderInv => AnswerMatchesGateway
    BY DEF OrderInv, OrderShape
  <1> QED  BY <1>1, OrderInvariant, PTL

-----------------------------------------------------------------------------
(* Who subscribes *)

\* Messages that were read named SSRCs the publisher has used.
LEMMA UsedKept == IInv /\ UsedShape /\ ([Next]_vars \/ Fails) => UsedShape'
  <1> SUFFICES ASSUME IInv, UsedShape, [Next]_vars \/ Fails PROVE UsedShape'
    OBVIOUS
  <1>0. TypeOK /\ ArgShape /\ OutsideOK /\ JoinerOK /\ FieldsOK /\ TasksOK
    BY DEF IInv, TypeOK
  <1> DEFINE Old == used \cup {None}
  <1>1. NextMessage => Head(inbox).ssrc \in Old
    BY <1>0, AfterTail DEF NextMessage, UsedShape, OutsideOK
  <1>2. Outside \/ UNCHANGED <<publisher, used>>
    BY DEF Next, Join, Loops, Disconnecting, Fails, vars, network, mower, Connected, ConnectFailed,
       HelloSent, HelloFailed, ResetDone, ReceiveSuccess, RoleSent, ExistingSubscribed,
       ReceiveAdd, AnnouncedSubscribed, ReceiveOther, WaitOver, HungUp, ReadAdd, ReadOther,
       ReaderSubscribed, ReaderEnds, PingEnds, RetryWakes, RetrySubscribed, RetryFails,
       RelayDisconnects, PeerLostDisconnects, TasksGathered, WebsocketClosed
  <1>3. used \subseteq used' /\ publisher' \in used' \cup {None}
    BY <1>2 DEF mower, UsedShape, Outside, PublisherComes, PublisherGoes, GatewayReplies,
       GatewayLosesPeer, ConnectionEnds
  <1>4. (\A i \in 1 .. Len(inbox) : inbox[i].ssrc \in used \cup {None})'
    <2>1. CASE NextMessage
      BY <1>0, <1>3, <2>1, AfterTail DEF NextMessage, UsedShape, OutsideOK
    <2>2. CASE Connected
      <3>1. \A i \in 1 .. Len(inbox') : FALSE
        BY <2>2 DEF Connected
      <3> QED  BY <3>1
    <2>3. CASE UNCHANGED inbox
      BY <1>3, <2>3 DEF UsedShape
    <2>4. CASE Outside
      BY <1>0, <1>3, <2>4, OutsideTells, AfterAppend DEF Tell, UsedShape, OutsideOK
    <2> QED
      BY <2>1, <2>2, <2>3, <2>4 DEF Next, vars, network, mower, Join, Loops, Disconnecting, Fails,
         ConnectFailed, HelloSent, HelloFailed, ResetDone, ReceiveSuccess, RoleSent,
         ExistingSubscribed, ReceiveAdd, AnnouncedSubscribed, ReceiveOther, WaitOver, HungUp,
         ReadAdd, ReadOther, ReaderSubscribed, ReaderEnds, PingEnds, RetryWakes,
         RetrySubscribed, RetryFails, RelayDisconnects, PeerLostDisconnects, TasksGathered,
         WebsocketClosed
  <1>5. {arg, stream, readerArg, retryArg} \subseteq Old /\ subscribed \subseteq used
    BY DEF UsedShape
  <1>6. CASE Handles
    <2>1. /\ arg' \in Old /\ stream' \in Old
          /\ subscribed' \subseteq used
      <3>1. CASE RoleSent
        BY <1>5, <3>1 DEF RoleSent, Registered
      <3>2. CASE ExistingSubscribed \/ AnnouncedSubscribed
        BY <1>0, <1>5, <3>2 DEF ExistingSubscribed, AnnouncedSubscribed, Subscribe, ArgShape
      <3>3. CASE ReceiveAdd
        BY <1>1, <1>5, <3>3 DEF ReceiveAdd
      <3> QED  BY <1>6, <3>1, <3>2, <3>3 DEF Handles
    <2>2. UNCHANGED <<readerArg, retryArg>>
      BY <1>0, <1>6, HandledForms DEF Waits, Answers, tasks
    <2> QED  BY <1>3, <1>4, <1>5, <2>1, <2>2 DEF UsedShape
  <1>7. CASE Loops
    <2>1. arg' = arg
      BY <1>7 DEF Loops, joiner, ReadAdd, ReadOther, ReaderSubscribed, ReaderEnds, PingEnds,
         RetryWakes, RetrySubscribed, RetryFails
    <2>2. stream' \in Old /\ readerArg' \in Old
      BY <1>1, <1>5, <1>7 DEF Loops, Dropped, fields, tasks, ReadAdd, ReadOther,
         ReaderSubscribed, ReaderEnds, PingEnds, RetryWakes, RetrySubscribed, RetryFails
    <2>3. retryArg' \in Old
      BY <1>5, <1>7 DEF Loops, tasks, ReadAdd, ReadOther, ReaderSubscribed, ReaderEnds,
         PingEnds, RetryWakes, RetrySubscribed, RetryFails
    <2>4. subscribed' \subseteq used
      BY <1>0, <1>5, <1>7 DEF Loops, fields, Subscribe, ArgShape, ReadAdd, ReadOther,
         ReaderSubscribed, ReaderEnds, PingEnds, RetryWakes, RetrySubscribed, RetryFails
    <2> QED  BY <1>3, <1>4, <2>1, <2>2, <2>3, <2>4 DEF UsedShape
  <1>8. CASE RelayDisconnects \/ Disconnecting
    <2>1. UNCHANGED <<arg, readerArg, retryArg>>
      BY <1>8 DEF RelayDisconnects, Disconnecting, PeerLostDisconnects, TasksGathered,
         WebsocketClosed, StartDisconnect, CancelTasks, joiner, tasks
    <2>2. stream' \in {stream, None} /\ (UNCHANGED subscribed \/ subscribed' = {})
      BY <1>0, <1>8, DisconnectFields DEF IInv, fields, ClearFields
    <2> QED  BY <1>3, <1>4, <1>5, <2>1, <2>2 DEF UsedShape
  <1>9. CASE Join /\ ~Handles
    <2>1. arg' \in Old /\ stream' \in {stream, None} /\ UNCHANGED <<readerArg, retryArg>>
      BY <1>1, <1>5, <1>9 DEF Join, Handles, ClearFields, Dropped, joiner, fields, tasks, Connected,
         ConnectFailed, HelloSent, HelloFailed, ResetDone, ReceiveSuccess, ReceiveOther,
         WaitOver, HungUp
    <2>2. UNCHANGED subscribed \/ subscribed' = {}
      BY <1>9 DEF Join, Handles, ClearFields, fields, Connected, ConnectFailed, HelloSent,
         HelloFailed, ResetDone, ReceiveSuccess, ReceiveOther, WaitOver, HungUp
    <2> QED  BY <1>3, <1>4, <1>5, <2>1, <2>2 DEF UsedShape
  <1>10. CASE Outside \/ Fails \/ UNCHANGED vars
    <2>1. UNCHANGED <<arg, stream, readerArg, retryArg, subscribed>>
      BY <1>10 DEF Outside, Fails, vars, joiner, fields, tasks, PublisherComes, PublisherGoes,
         GatewayReplies, GatewayLosesPeer, ConnectionEnds
    <2> QED  BY <1>3, <1>4, <1>5, <2>1 DEF UsedShape
  <1> QED  BY <1>6, <1>7, <1>8, <1>9, <1>10 DEF Next

\* What is noted as subscribed has been asked for: a new connection starts from
\* nothing, and a publisher with a new SSRC finds nothing noted.
LEMMA AskedKept ==
    DutyInv /\ ([Next]_vars \/ Fails) => (publisher \in subscribed => publisher \in Heard)'
  <1> SUFFICES ASSUME DutyInv, [Next]_vars \/ Fails, publisher' \in subscribed', ~again'
               PROVE  publisher' \in asked'
    BY DEF Heard
  <1>0. /\ OrderInv /\ OrderShape /\ TypeOK /\ OutsideOK /\ FieldsOK /\ LinkShape /\ TaskShape
        /\ ~again /\ publisher \in subscribed => publisher \in asked
    BY DEF DutyInv, OrderInv, IInv, TypeOK, DutyShape, Heard
  <1>1. None \notin subscribed /\ subscribed \subseteq used
    BY <1>0, SignalingAssumption DEF FieldsOK, DutyInv, UsedShape
  <1>2. CASE Connected
    BY <1>0, <1>1, <1>2 DEF Connected, OrderShape, Joining
  <1>3. CASE Outside
    <2>1. UNCHANGED subscribed
      BY <1>3 DEF Outside, fields, PublisherComes, PublisherGoes, GatewayReplies,
         GatewayLosesPeer, ConnectionEnds
    <2>2. publisher' = None \/ publisher' \notin used \/ UNCHANGED <<publisher, again, asked>>
      BY <1>3 DEF mower, Outside, PublisherComes, PublisherGoes, GatewayReplies, GatewayLosesPeer,
         ConnectionEnds
    <2> QED  BY <1>0, <1>1, <2>1, <2>2
  <1>4. CASE RelayDisconnects \/ Disconnecting
    <2>1. UNCHANGED <<publisher, again, asked>>
      BY <1>4 DEF RelayDisconnects, Disconnecting, PeerLostDisconnects, TasksGathered,
         WebsocketClosed, network, mower
    <2>2. UNCHANGED subscribed \/ subscribed' = {}
      BY <1>0, <1>4, DisconnectFields DEF fields, ClearFields
    <2> QED  BY <1>0, <2>1, <2>2
  <1>5. CASE (Join \/ Loops) /\ ~Connected
    <2>1. UNCHANGED <<publisher, again>>
      BY <1>5 DEF Join, Loops, network, mower, ConnectFailed, HelloSent, HelloFailed, ResetDone,
         ReceiveSuccess, RoleSent, ExistingSubscribed, ReceiveAdd, AnnouncedSubscribed,
         ReceiveOther, WaitOver, HungUp, ReadAdd, ReadOther, ReaderSubscribed, ReaderEnds,
         PingEnds, RetryWakes, RetrySubscribed, RetryFails
    <2>2. \/ UNCHANGED <<subscribed, asked>>
          \/ subscribed' = {}
          \/ \E s \in {arg, readerArg, retryArg} : Subscribe(s)
      BY <1>5 DEF Join, Loops, fields, ClearFields, ConnectFailed, HelloSent, HelloFailed,
         ResetDone, ReceiveSuccess, RoleSent, ExistingSubscribed, ReceiveAdd,
         AnnouncedSubscribed, ReceiveOther, WaitOver, HungUp, ReadAdd, ReadOther,
         ReaderSubscribed, ReaderEnds, PingEnds, RetryWakes, RetrySubscribed, RetryFails
    <2> QED  BY <1>0, <2>1, <2>2 DEF Subscribe
  <1>6. CASE Fails \/ UNCHANGED vars
    BY <1>0, <1>6 DEF Fails, vars, network, mower, fields
  <1> QED  BY <1>2, <1>3, <1>4, <1>5, <1>6 DEF Next

\* A message that was not the one read now is still there.
LEMMA StillTold ==
    ASSUME TypeOK, NextMessage, Told, UNCHANGED publisher
    PROVE  \/ Told'
           \/ Head(inbox).kind \in {"success", "add"} /\ Head(inbox).ssrc = publisher
  <1>1. PICK i \in 1 .. Len(inbox) :
            inbox[i].kind \in {"success", "add"} /\ inbox[i].ssrc = publisher
    BY DEF Told
  <1>2. inbox \in Seq(Message) /\ inbox # <<>> /\ inbox' = Tail(inbox)
    BY DEF TypeOK, OutsideOK, NextMessage
  <1>3. Head(inbox) = inbox[1]
    BY <1>2, AfterTail
  <1>4. i = 1 \/ \E j \in 1 .. Len(inbox') : inbox'[j] = inbox[i]
    BY <1>2, AfterTail
  <1> QED  BY <1>1, <1>3, <1>4 DEF Told

\* Only the end of the connection or of the join lifts the duty.
LEMMA DutyKept ==
    DutyInv /\ ~Early /\ ([Next]_vars \/ Fails) /\ Due' => (Told \/ AtHand)'
  <1> SUFFICES ASSUME DutyInv, ~Early, [Next]_vars \/ Fails, Due'
               PROVE  Told' \/ AtHand'
    OBVIOUS
  <1>0. /\ OrderInv /\ OrderShape /\ TypeOK /\ LinkShape /\ TaskShape /\ DutyShape /\ ArgShape
        /\ publisher \in subscribed => publisher \in Heard
        /\ Due => Told \/ AtHand
    BY DEF DutyInv, OrderInv, IInv, DutyShape
  <1>1. CASE ReceiveSuccess \/ ReceiveOther
    <2>0. UNCHANGED <<up, replied, publisher, Heard>>
      BY <1>1 DEF Heard, fields, mower, ReceiveSuccess, ReceiveOther
    <2>1. /\ UNCHANGED <<up, replied, publisher, Heard>> /\ step = "wait" /\ NextMessage
          /\ \A c \in Callers : closing[c] = "no"
      BY <1>0, <1>1, <2>0 DEF ReceiveSuccess, ReceiveOther, Due, Dropped, TypeOK, TasksOK,
         Callers
    <2>2. Due /\ reader = "off"
      BY <1>0, <2>1, JoinAlone DEF Due, Joining
    <2>3. Told
      BY <1>0, <2>1, <2>2 DEF AtHand
    <2>4. Told' \/ (Head(inbox).kind \in {"success", "add"} /\ Head(inbox).ssrc = publisher)
      BY <1>0, <2>1, <2>3, StillTold
    <2> QED  BY <1>1, <2>1, <2>4 DEF ReceiveSuccess, ReceiveOther, AtHand
  <1>2. CASE RoleSent
    <2>1. /\ UNCHANGED <<up, replied, publisher, Heard, closing, inbox, arg>>
          /\ step = "role"
      BY <1>2 DEF Heard, fields, RoleSent, network, mower
    <2>2. Due /\ reader = "off"
      BY <1>0, <2>1, JoinAlone DEF Due, Joining
    <2>3. Told => Told'
      BY <2>1 DEF Told
    <2>4. ASSUME arg = publisher PROVE AtHand'
      <3>1. arg \notin subscribed /\ arg # None /\ websocket # None
        BY <1>0, <2>2, <2>4 DEF Due, LinkShape
      <3>2. step' = "existing"
        BY <1>2, <3>1 DEF RoleSent, Known
      <3> QED  BY <2>1, <2>4, <3>2 DEF AtHand
    <2> QED  BY <1>0, <2>2, <2>3, <2>4 DEF AtHand
  <1>3. CASE ExistingSubscribed \/ AnnouncedSubscribed
    <2>1. /\ UNCHANGED <<up, replied, publisher, closing, inbox>>
          /\ Heard' = Heard \cup {arg} /\ step \in {"existing", "announced"}
      BY <1>3 DEF Heard, fields, ExistingSubscribed, AnnouncedSubscribed, network, mower, Subscribe
    <2>2. Due /\ reader = "off" /\ arg # publisher
      BY <1>0, <2>1, JoinAlone DEF Due, Joining
    <2>3. Told
      BY <1>0, <2>2 DEF AtHand
    <2> QED  BY <2>1, <2>3 DEF Told
  <1>4. CASE ReceiveAdd
    <2>1. /\ UNCHANGED <<up, replied, publisher, Heard, closing>> /\ step = "wait"
          /\ NextMessage /\ arg' = Head(inbox).ssrc /\ stream' = Head(inbox).ssrc
          /\ Head(inbox).kind = "add"
      BY <1>4 DEF Heard, fields, mower, ReceiveAdd
    <2>2. Due /\ reader = "off"
      BY <1>0, <2>1, JoinAlone DEF Due, Joining
    <2>3. Told
      BY <1>0, <2>1, <2>2 DEF AtHand
    <2>4. Told' \/ Head(inbox).ssrc = publisher
      BY <1>0, <2>1, <2>3, StillTold
    <2>5. ASSUME Head(inbox).ssrc = publisher PROVE AtHand'
      <3>1. publisher \notin subscribed /\ websocket # None
        BY <1>0, <2>2 DEF Due, LinkShape
      <3>2. step' = "announced"
        BY <1>4, <2>1, <2>5, <3>1 DEF ReceiveAdd, Known
      <3> QED  BY <2>1, <2>5, <3>2 DEF AtHand
    <2> QED  BY <2>4, <2>5
  <1>5. CASE ReadAdd
    <2>1. /\ UNCHANGED <<up, replied, publisher, Heard, closing, step>>
          /\ NextMessage /\ readerArg' = Head(inbox).ssrc /\ stream' = Head(inbox).ssrc
          /\ Head(inbox).kind = "add" /\ reader = "read"
      BY <1>5 DEF Heard, fields, mower, ReadAdd, joiner
    <2>2. Due /\ step = "answered"
      BY <1>0, <2>1, JoinAlone DEF Due, Joining
    <2>3. Told
      BY <1>0, <2>1, <2>2 DEF AtHand
    <2>4. Told' \/ Head(inbox).ssrc = publisher
      BY <1>0, <2>1, <2>3, StillTold
    <2>5. ASSUME Head(inbox).ssrc = publisher PROVE AtHand'
      <3>1. publisher \notin subscribed /\ websocket # None
        BY <1>0, <2>2 DEF Due, LinkShape
      <3>2. reader' = "send"
        BY <1>5, <2>1, <2>5, <3>1 DEF ReadAdd, Known
      <3> QED  BY <2>1, <2>5, <3>2 DEF AtHand
    <2> QED  BY <2>4, <2>5
  <1>6. CASE ReadOther
    <2>1. /\ UNCHANGED <<up, replied, publisher, Heard, step>> /\ NextMessage
          /\ Head(inbox).kind # "add" /\ reader = "read"
          /\ \A c \in Callers : closing[c] = "no"
      BY <1>0, <1>6 DEF Heard, fields, mower, ReadOther, joiner, Due, Dropped, TypeOK, TasksOK, Callers
    <2>2. Due /\ step = "answered"
      BY <1>0, <2>1, JoinAlone DEF Due, Joining, Loops
    <2>3. Told
      BY <1>0, <2>1, <2>2 DEF AtHand
    <2>4. Head(inbox).kind # "success"
      BY <1>0, <2>1, <2>2, AfterTail DEF OrderShape, NextMessage, TypeOK, OutsideOK
    <2> QED  BY <1>0, <2>1, <2>3, <2>4, StillTold
  <1>7. CASE ReaderSubscribed \/ RetrySubscribed
    <2>1. /\ UNCHANGED <<up, replied, publisher, closing, inbox, step, arg>>
          /\ Heard \subseteq Heard'
          /\ \/ reader = "send" /\ readerArg \in Heard'
             \/ UNCHANGED <<reader, readerArg>>
      BY <1>7 DEF Heard, fields, ReaderSubscribed, RetrySubscribed, network, mower, joiner, Subscribe
    <2>2. Due /\ publisher \notin Heard'
      BY <2>1 DEF Due
    <2> QED  BY <1>0, <2>1, <2>2 DEF Told, AtHand
  <1>8. CASE PingEnds \/ RetryWakes \/ RetryFails \/ ReaderEnds
    <2>1. /\ UNCHANGED <<up, replied, publisher, Heard, closing, inbox, step, arg>>
          /\ UNCHANGED <<reader, readerArg>> \/ ~up
      BY <1>8 DEF Heard, fields, PingEnds, RetryWakes, RetryFails, ReaderEnds, network, mower, joiner
    <2>2. Due /\ UNCHANGED <<reader, readerArg>>
      BY <2>1 DEF Due
    <2> QED  BY <1>0, <2>1, <2>2 DEF Told, AtHand
  <1>9. CASE RelayDisconnects \/ Disconnecting
    <2>1. \E c \in Callers : closing'[c] # "no"
      <3>1. \A c \in Callers : CloseOrClear(c) \/ StartDisconnect(c) => closing'[c] # "no"
        BY <1>0 DEF CloseOrClear, StartDisconnect, TypeOK, TasksOK
      <3>2. \A c \in Callers : WebsocketClosed(c) => closing'[c] # "no"
        BY <1>0 DEF WebsocketClosed, TypeOK, TasksOK
      <3> QED
        BY <1>9, <3>1, <3>2 DEF RelayDisconnects, Disconnecting, PeerLostDisconnects,
           TasksGathered, Callers
    <2> QED  BY <2>1 DEF Due
  <1>10. CASE Outside
    <2>1. UNCHANGED <<step, arg, reader, readerArg, closing>>
      BY <1>10 DEF Outside, joiner, tasks, PublisherComes, PublisherGoes, GatewayReplies,
         GatewayLosesPeer, ConnectionEnds
    <2>2. up /\ up' /\ Listens
      BY <1>10, <2>1 DEF Due, Listens, Outside, PublisherComes, PublisherGoes, GatewayReplies,
         GatewayLosesPeer, ConnectionEnds
    <2>3. \/ inbox' = inbox
          \/ \E m \in Message : inbox' = Append(inbox, m)
      BY <1>0, <1>10, <2>2, OutsideTells DEF Tell
    <2>4. UNCHANGED publisher /\ Told => Told'
      BY <1>0, <2>3, AfterAppend DEF Told, TypeOK, OutsideOK
    <2>5. CASE \E s \in Ssrcs : PublisherComes(s)
      <3>1. PICK s \in Ssrcs : PublisherComes(s)
        BY <2>5
      <3> DEFINE m == [kind |-> "add", ssrc |-> s]
      <3>2. m \in Message /\ replied /\ publisher' = s
        BY <3>1 DEF Message, MaybeSsrc, Due, PublisherComes
      <3>3. inbox' = Append(inbox, m)
        BY <2>2, <3>1, <3>2 DEF PublisherComes, Tell
      <3>4. \E i \in 1 .. Len(inbox') : inbox'[i] = m
        BY <1>0, <3>2, <3>3, AfterAppend DEF TypeOK, OutsideOK
      <3> QED  BY <3>2, <3>4 DEF Told
    <2>6. CASE GatewayReplies
      <3> DEFINE m == [kind |-> "success", ssrc |-> publisher]
      <3>1. m \in Message /\ inbox' = Append(inbox, m) /\ UNCHANGED publisher
        BY <1>0, <2>2, <2>6 DEF Message, TypeOK, OutsideOK, GatewayReplies, Tell, mower
      <3>2. \E i \in 1 .. Len(inbox') : inbox'[i] = m
        BY <1>0, <3>1, AfterAppend DEF TypeOK, OutsideOK
      <3> QED  BY <3>1, <3>2 DEF Told
    <2>7. CASE PublisherGoes
      BY <2>7 DEF PublisherGoes, Due
    <2>8. CASE GatewayLosesPeer
      <3>1. UNCHANGED <<up, replied, publisher, Heard>>
        BY <2>8 DEF Heard, fields, mower, GatewayLosesPeer
      <3>2. Due
        BY <2>1, <3>1 DEF Due
      <3> QED  BY <1>0, <2>1, <2>4, <3>1, <3>2 DEF AtHand
    <2> QED  BY <1>10, <2>2, <2>5, <2>6, <2>7, <2>8 DEF Outside, ConnectionEnds
  <1>11. CASE Connected \/ HelloSent
    BY <1>0, <1>11 DEF Connected, HelloSent, Due, OrderShape, network, mower
  <1>12. CASE ConnectFailed \/ HelloFailed \/ ResetDone \/ WaitOver \/ HungUp \/ Fails
    <2>1. step' \in {"connect", "failed", "reset", "hangup"}
      BY <1>0, <1>12, Onward DEF ConnectFailed, HelloFailed, ResetDone, WaitOver, HungUp, Fails
    <2> QED  BY <2>1 DEF Due
  <1>13. CASE UNCHANGED vars
    BY <1>0, <1>13 DEF vars, network, mower, fields, Heard, joiner, tasks, Due, Told, AtHand
  <1> QED
    BY <1>1, <1>2, <1>3, <1>4, <1>5, <1>6, <1>7, <1>8, <1>9, <1>10, <1>11, <1>12, <1>13
    DEF Next, Join, Loops

LEMMA InitialDuty == Init => UsedShape /\ DutyShape
  <1> SUFFICES ASSUME Init PROVE UsedShape /\ DutyShape
    OBVIOUS
  <1>1. \A i \in 1 .. Len(inbox) : FALSE
    BY DEF Init
  <1> QED  BY <1>1 DEF Init, UsedShape, DutyShape, Due

LEMMA DutyStep == DutyInv /\ ~Early /\ ([Next]_vars \/ Fails) => DutyInv'
  <1>1. DutyInv /\ ~Early /\ ([Next]_vars \/ Fails) => DutyShape'
    BY AskedKept, DutyKept DEF DutyShape
  <1> QED  BY <1>1, Kept, OrderKept, UsedKept DEF DutyInv, OrderInv

LEMMA InitialDutyInv == Init => DutyInv
  BY Initial, InitialOrder, InitialDuty DEF DutyInv, OrderInv

LEMMA DutySuffices == DutyInv => PublisherIsSubscribed
  <1> SUFFICES ASSUME DutyInv, Quiet, publisher # None, publisher \notin Heard
               PROVE  FALSE
    BY DEF PublisherIsSubscribed
  <1>1. replied /\ OrderShape
    BY DEF DutyInv, OrderInv, OrderShape, Quiet
  <1>2. Due
    BY <1>1 DEF Quiet, Due
  <1>3. ~AtHand
    BY DEF AtHand, Quiet
  <1>4. ~Told
    <2>1. \A i \in 1 .. Len(inbox) : FALSE
      BY DEF Quiet
    <2> QED  BY <2>1 DEF Told
  <1> QED  BY <1>2, <1>3, <1>4 DEF DutyInv, DutyShape

\* With such a gateway, whenever everything has been read and no subscribe is under way
\* the publisher in the channel has been subscribed to: since it appeared if its SSRC is
\* a new one, at some time if it came back with an old one; however often it left and
\* came back, and through whichever of the join response, the announcements and the
\* retries the handler learned of it.
THEOREM PublisherGetsSubscribed == ~Early => (Spec => []PublisherIsSubscribed)
  <1> SUFFICES ASSUME ~Early PROVE Spec => []PublisherIsSubscribed
    OBVIOUS
  <1>1. Init => DutyInv
    BY InitialDutyInv
  <1>2. DutyInv /\ [Next]_vars => DutyInv'
    BY DutyStep
  <1>3. DutyInv => PublisherIsSubscribed
    BY DutySuffices
  <1> QED  BY <1>1, <1>2, <1>3, PTL DEF Spec
=============================================================================
