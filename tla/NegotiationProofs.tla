------------------------- MODULE NegotiationProofs -------------------------
(***************************************************************************)
(* Theorems about Negotiation, for any number of API domains, gateways,    *)
(* attempts and SSRCs, and whatever the API and the gateways reply.        *)
(*                                                                         *)
(* A step of Negotiation is one of AgoraSignaling or ends the join before  *)
(* it begins, so the theorems of AgoraSignalingProofs hold of it too; and  *)
(* the answer is a function of the offer, the gateway addresses, the reply *)
(* of the one gateway it was made for and one stream of the publisher.     *)
(*                                                                         *)
(* What the answer says follows by induction over its data: what Joined    *)
(* and Keep return, then each part of an answer in turn (SourceShape for   *)
(* the addresses and prints, SectionCodecs for the media), for responses,  *)
(* offers and replies of any length under the assumptions of Negotiation.  *)
(***************************************************************************)
EXTENDS WellFoundedInduction, Negotiation, AgoraSignalingProofs

\* A payload type is noted with its stream.
PtShape == pt # None => stream \in Ssrcs /\ pt = Pt[stream]

\* Nothing is answered before the API has.
ChooseShape == domain # None => answer = None /\ sdp = None

\* What an answer is made of.
MadeOf(p) == Answer(offer, addresses, Reply, [ssrc |-> answer.ssrc, pt |-> p])
SdpShape ==
    sdp # None =>
        /\ answer # None /\ answer.ssrc \in used
        /\ \E p \in {None, Pt[answer.ssrc]} : sdp = MadeOf(p)

NegInv == PtShape /\ ChooseShape /\ SdpShape

-----------------------------------------------------------------------------
(* A step of Negotiation is one of AgoraSignaling, or ends the join. *)

LEMMA NegSteps == NegNext => Next \/ Fails \/ UNCHANGED vars
  <1> SUFFICES ASSUME NegNext PROVE Next \/ Fails \/ UNCHANGED vars
    OBVIOUS
  <1>1. CASE Choose
    BY <1>1 DEF Choose, EndpointAnswers, EndpointFails, Fails, vars, joiner, network, mower, fields, tasks
  <1> QED  BY <1>1 DEF NegNext

LEMMA NegKept == IInv /\ [NegNext]_negVars => IInv'
  <1>1. UNCHANGED negVars => UNCHANGED vars
    BY DEF negVars
  <1> QED  BY <1>1, NegSteps, Kept

LEMMA NegInvariant == NegSpec => []IInv
  <1>1. NegInit => IInv
    BY Initial DEF NegInit
  <1> QED  BY <1>1, NegKept, PTL DEF NegSpec

\* Every variable of the join keeps its kind when the API is asked first.
THEOREM NegTypeCorrect == NegSpec => []TypeOK
  <1>1. IInv => TypeOK
    BY DEF IInv
  <1> QED  BY <1>1, NegInvariant, PTL

\* A disconnect() of the relay leaves nothing, also when the API refused or was down.
THEOREM NegNothingIsLeft == NegSpec => []DisconnectLeavesNothing
  <1>1. IInv => DisconnectLeavesNothing
    BY DEF IInv, LinkShape, TaskShape, DisconnectLeavesNothing
  <1> QED  BY <1>1, NegInvariant, PTL

LEMMA NegOrderInvariant == ~Early => (NegSpec => []OrderInv)
  <1> SUFFICES ASSUME ~Early PROVE NegSpec => []OrderInv
    OBVIOUS
  <1>1. NegInit => OrderInv
    BY Initial, InitialOrder DEF NegInit, OrderInv
  <1>2. UNCHANGED negVars => UNCHANGED vars
    BY DEF negVars
  <1>3. OrderInv /\ [NegNext]_negVars => OrderInv'
    BY <1>2, NegSteps, Kept, OrderKept DEF OrderInv
  <1> QED  BY <1>1, <1>3, PTL DEF NegSpec

\* The answer is the kept gateway's, whichever API domain the addresses came from.
THEOREM NegAnswerIsOfItsGateway == ~Early => (NegSpec => []AnswerMatchesGateway)
  <1> SUFFICES ASSUME ~Early PROVE NegSpec => []AnswerMatchesGateway
    OBVIOUS
  <1>1. OrderInv => AnswerMatchesGateway
    BY DEF OrderInv, OrderShape
  <1> QED  BY <1>1, NegOrderInvariant, PTL

\* A publisher in the channel has been subscribed to once things are quiet.
THEOREM NegPublisherGetsSubscribed == ~Early => (NegSpec => []PublisherIsSubscribed)
  <1> SUFFICES ASSUME ~Early PROVE NegSpec => []PublisherIsSubscribed
    OBVIOUS
  <1>1. NegInit => DutyInv
    BY InitialDutyInv DEF NegInit
  <1>2. UNCHANGED negVars => UNCHANGED vars
    BY DEF negVars
  <1>3. DutyInv /\ [NegNext]_negVars => DutyInv'
    BY <1>2, NegSteps, DutyStep
  <1>4. DutyInv => PublisherIsSubscribed
    BY DutySuffices
  <1> QED  BY <1>1, <1>3, <1>4, PTL DEF NegSpec

-----------------------------------------------------------------------------
(* What the answer is made of *)

\* An answer is given at most in the steps that handle a message, of the stream known then.
LEMMA OnlyHandlersAnswer ==
    ASSUME IInv, UsedShape, Next
    PROVE  \/ UNCHANGED answer
           \/ /\ answer' # None /\ answer'.ssrc \in Ssrcs /\ answer'.ssrc = stream'
              /\ stream' \in used'
  <1>0. TypeOK /\ ArgShape
    BY DEF IInv
  <1>1. CASE Handles
    <2>1. UNCHANGED answer \/ \E g \in 1 .. Gateways : Answers(g)
      BY <1>0, <1>1, HandledForms DEF Waits
    <2>2. stream' \in used' \cup {None}
      BY <1>1, UsedKept DEF UsedShape
    <2>3. ASSUME NEW g \in 1 .. Gateways, Answers(g)
          PROVE  answer' # None /\ answer'.ssrc \in Ssrcs /\ answer'.ssrc = stream'
      BY <2>3, SignalingAssumption DEF Answers
    <2> QED  BY <2>1, <2>2, <2>3, SignalingAssumption
  <1>2. CASE ~Handles
    BY <1>2 DEF Next, Join, Handles, Loops, Disconnecting, Outside, joiner, Connected,
       ConnectFailed, HelloSent, HelloFailed, ResetDone, ReceiveSuccess, ReceiveOther, WaitOver,
       HungUp, ReadAdd, ReadOther, ReaderSubscribed, ReaderEnds, PingEnds, RetryWakes,
       RetrySubscribed, RetryFails, RelayDisconnects, PeerLostDisconnects, TasksGathered,
       WebsocketClosed, PublisherComes, PublisherGoes, GatewayReplies, GatewayLosesPeer,
       ConnectionEnds
  <1> QED  BY <1>1, <1>2

\* The stream changes for another only by an announcement.
LEMMA OnlyAnnouncementsChange ==
    ASSUME IInv, Next
    PROVE  stream' \in {stream, None} \/ stream = None \/ Announcing
  <1>1. CASE Join \/ Loops
    BY <1>1 DEF Announcing, Join, Loops, Registered, Dropped, ClearFields, fields, Connected,
       ConnectFailed, HelloSent, HelloFailed, ResetDone, ReceiveSuccess, RoleSent,
       ExistingSubscribed, ReceiveAdd, AnnouncedSubscribed, ReceiveOther, WaitOver, HungUp,
       ReadAdd, ReadOther, ReaderSubscribed, ReaderEnds, PingEnds, RetryWakes, RetrySubscribed,
       RetryFails
  <1>2. CASE RelayDisconnects \/ Disconnecting
    BY <1>2, DisconnectFields DEF IInv, fields, ClearFields
  <1>3. CASE Outside
    BY <1>3 DEF Outside, fields, PublisherComes, PublisherGoes, GatewayReplies,
       GatewayLosesPeer, ConnectionEnds
  <1> QED  BY <1>1, <1>2, <1>3 DEF Next

LEMMA UsedGrows ==
    ASSUME Next \/ Fails \/ UNCHANGED vars
    PROVE  used \subseteq used'
  BY DEF Next, Join, Loops, Disconnecting, Outside, Fails, vars, network, mower, Connected, ConnectFailed,
     HelloSent, HelloFailed, ResetDone, ReceiveSuccess, RoleSent, ExistingSubscribed, ReceiveAdd,
     AnnouncedSubscribed, ReceiveOther, WaitOver, HungUp, ReadAdd, ReadOther, ReaderSubscribed,
     ReaderEnds, PingEnds, RetryWakes, RetrySubscribed, RetryFails, RelayDisconnects,
     PeerLostDisconnects, TasksGathered, WebsocketClosed, PublisherComes, PublisherGoes,
     GatewayReplies, GatewayLosesPeer, ConnectionEnds

LEMMA SourcesKept == IInv /\ UsedShape /\ NegInv /\ [NegNext]_negVars => NegInv'
  <1> SUFFICES ASSUME IInv, UsedShape, NegInv, [NegNext]_negVars PROVE NegInv'
    OBVIOUS
  <1>0. PtShape /\ ChooseShape /\ SdpShape
    BY DEF NegInv
  <1>1. CASE Choose
    <2>1. domain # None /\ UNCHANGED <<stream, pt, answer, sdp, used>>
      BY <1>1 DEF Choose, EndpointAnswers, EndpointFails, fields, network, mower
    <2> QED  BY <1>0, <2>1 DEF NegInv, PtShape, ChooseShape, SdpShape
  <1>2. CASE UNCHANGED negVars
    <2>1. UNCHANGED <<stream, pt, answer, sdp, used, domain, addresses, offer, world>>
      BY <1>2 DEF negVars, vars, fields, network, mower, joiner
    <2>2. PtShape' /\ ChooseShape'
      BY <1>0, <2>1 DEF PtShape, ChooseShape
    <2>3. SdpShape'
      BY <1>0, <2>1 DEF SdpShape, MadeOf, Reply
    <2> QED  BY <2>2, <2>3 DEF NegInv
  <1>3. CASE Next /\ Noted
    <2>1. /\ domain = None /\ NotePt /\ Answered
          /\ UNCHANGED <<domain, addresses, offer, world>>
      BY <1>3 DEF Noted
    <2>2. stream' \in MaybeSsrc
      BY <1>3, Kept DEF IInv, TypeOK, FieldsOK
    <2>3. PtShape'
      <3>1. stream' \in {stream, None} \/ stream = None \/ Announcing
        BY <1>3, OnlyAnnouncementsChange
      <3>2. stream = None => pt = None
        BY <1>0, SignalingAssumption DEF PtShape
      <3> QED  BY <1>0, <2>1, <2>2, <3>1, <3>2 DEF PtShape, NotePt, MaybeSsrc
    <2>4. ChooseShape'
      BY <2>1 DEF ChooseShape
    <2>5. used \subseteq used'
      BY <1>3, UsedGrows
    <2>6. CASE Made
      <3>1. answer' # None /\ answer'.ssrc \in Ssrcs /\ answer'.ssrc = stream' /\ stream' \in used'
        BY <1>3, <2>6, OnlyHandlersAnswer DEF Made
      <3>2. pt' \in {None, Pt[answer'.ssrc]}
        BY <2>3, <3>1 DEF PtShape
      <3>3. sdp' = Answer(offer', addresses', world'.replies[answer'.gateway],
                          [ssrc |-> answer'.ssrc, pt |-> pt'])
        BY <2>1, <2>6 DEF Answered
      <3> QED  BY <2>3, <2>4, <3>1, <3>2, <3>3 DEF NegInv, SdpShape, MadeOf, Reply
    <2>7. CASE ~Made
      <3>1. UNCHANGED <<answer, sdp>>
        BY <1>3, <2>1, <2>7, OnlyHandlersAnswer DEF Made, Answered
      <3>2. SdpShape'
        BY <1>0, <2>1, <2>5, <3>1 DEF SdpShape, MadeOf, Reply
      <3> QED  BY <2>3, <2>4, <3>2 DEF NegInv
    <2> QED  BY <2>6, <2>7
  <1> QED  BY <1>1, <1>2, <1>3 DEF NegNext

\* The answer handed to the peer connection is made of the offer, the gateway addresses,
\* the reply of the one gateway it was made for, and one stream the publisher has sent,
\* with that stream's payload type or none; nothing of a gateway given up, of another
\* stream or of a later message gets into it, and nothing changes it afterwards.
THEOREM AnswerIsOfOneJoin == NegSpec => []SdpShape
  <1> DEFINE Inv == IInv /\ UsedShape /\ NegInv
  <1>1. NegInit => Inv
    <2>1. NegInit => NegInv
      BY DEF NegInit, Init, NegInv, PtShape, ChooseShape, SdpShape
    <2>2. NegInit => IInv /\ UsedShape
      BY Initial, InitialDuty DEF NegInit
    <2> QED  BY <2>1, <2>2
  <1>2. Inv /\ [NegNext]_negVars => Inv'
    <2>1. UNCHANGED negVars => UNCHANGED vars
      BY DEF negVars
    <2>2. [NegNext]_negVars => [Next]_vars \/ Fails
      BY <2>1, NegSteps
    <2> QED  BY <2>2, NegKept, UsedKept, SourcesKept
  <1>3. Inv => SdpShape
    BY DEF NegInv
  <1> QED  BY <1>1, <1>2, <1>3, PTL DEF NegSpec

-----------------------------------------------------------------------------
(* Induction, and the sequences the answer is put together from *)

LEMMA NegSetInduction ==
    ASSUME NEW S, 0 \in S, \A n \in Nat : n \in S => n + 1 \in S
    PROVE  Nat \subseteq S
  <1> DEFINE R == OpToRel(<, Nat)
             T == Nat \ S
  <1>1. IsWellFoundedOn(R, Nat)
    BY NatLessThanWellFounded
  <1>2. \A a, b \in Nat : a < b => <<a, b>> \in R
    BY DEF OpToRel
  <1> HIDE DEF R
  <1> SUFFICES ASSUME T # {}  PROVE FALSE
    OBVIOUS
  <1>3. PICK x \in T : \A y \in T : ~ (<<y, x>> \in R)
    <2>1. T \subseteq Nat
      OBVIOUS
    <2> HIDE DEF T
    <2> QED  BY <1>1, <2>1, WFMin
  <1>4. x \in Nat /\ x # 0
    OBVIOUS
  <1>5. x - 1 \in Nat /\ x - 1 < x /\ (x - 1) + 1 = x
    BY <1>4
  <1>6. x - 1 \notin T
    BY <1>2, <1>3, <1>4, <1>5
  <1> QED  BY <1>5, <1>6

\* The concatenations of the first pieces of a sequence, one after the other.
Concats(g, piece, N) ==
    g = [n \in 0 .. N |-> IF n = 0 THEN <<>> ELSE g[n - 1] \o piece[n]]

LEMMA ConcatsExist ==
    ASSUME NEW piece, NEW N \in Nat
    PROVE  \E g : Concats(g, piece, N)
  <1> DEFINE Step(g, n) == IF n = 0 THEN <<>> ELSE g[n - 1] \o piece[n]
             Done(g, n) == g = [i \in 0 .. n |-> Step(g, i)]
             S == {n \in Nat : \E g : Done(g, n)}
  <1>1. 0 \in S
    <2> DEFINE g == [i \in 0 .. 0 |-> <<>>]
    <2>1. [i \in 0 .. 0 |-> Step(g, i)] = [i \in 0 .. 0 |-> <<>>]
      OBVIOUS
    <2> QED  BY <2>1
  <1>2. ASSUME NEW n \in Nat, n \in S  PROVE n + 1 \in S
    <2>1. PICK g : Done(g, n)
      BY <1>2
    <2> DEFINE h == [i \in 0 .. n + 1 |-> IF i = n + 1 THEN g[n] \o piece[n + 1] ELSE g[i]]
    <2>2. \A i \in 0 .. n : g[i] = Step(g, i)
      BY <2>1
    <2>3. ASSUME NEW i \in 0 .. n + 1  PROVE h[i] = Step(h, i)
      <3>1. CASE i = n + 1
        <4>1. h[n] = g[n] /\ i # 0 /\ i - 1 = n
          BY <3>1
        <4> QED  BY <3>1, <4>1
      <3>2. CASE i # n + 1
        <4>1. i \in 0 .. n /\ h[i] = g[i]
          BY <3>2
        <4>2. i # 0 => i - 1 \in 0 .. n + 1 /\ i - 1 # n + 1
          BY <4>1
        <4>3. i # 0 => h[i - 1] = g[i - 1]
          BY <4>2
        <4> QED  BY <2>2, <4>1, <4>3
      <3> QED  BY <3>1, <3>2
    <2>4. Done(h, n + 1)
      <3>1. h = [i \in 0 .. n + 1 |-> h[i]]
        OBVIOUS
      <3>2. \A i \in 0 .. n + 1 : h[i] = Step(h, i)
        BY <2>3
      <3> HIDE DEF h, Step
      <3>3. [i \in 0 .. n + 1 |-> h[i]] = [i \in 0 .. n + 1 |-> Step(h, i)]
        BY <3>2
      <3>4. h = [i \in 0 .. n + 1 |-> Step(h, i)]
        BY <3>1, <3>3
      <3> QED  BY <3>4
    <2>5. n + 1 \in Nat
      OBVIOUS
    <2> HIDE DEF Done, h
    <2> QED  BY <2>4, <2>5
  <1>3. \E g : Done(g, N)
    <2> HIDE DEF S
    <2>1. Nat \subseteq S
      BY <1>1, <1>2, NegSetInduction
    <2> QED  BY <2>1 DEF S
  <1> QED  BY <1>3 DEF Concats

\* Each is the last one and the next piece.
LEMMA ConcatsSteps ==
    ASSUME NEW piece, NEW N \in Nat, NEW g, Concats(g, piece, N)
    PROVE  /\ g[0] = <<>>
           /\ \A n \in Nat : n + 1 <= N => g[n + 1] = g[n] \o piece[n + 1]
  <1>1. \A i \in 0 .. N : g[i] = IF i = 0 THEN <<>> ELSE g[i - 1] \o piece[i]
    <2> DEFINE F == [n \in 0 .. N |-> IF n = 0 THEN <<>> ELSE g[n - 1] \o piece[n]]
    <2>1. g = F
      BY DEF Concats
    <2>2. \A i \in 0 .. N : F[i] = IF i = 0 THEN <<>> ELSE g[i - 1] \o piece[i]
      OBVIOUS
    <2> HIDE DEF F
    <2> QED  BY <2>1, <2>2
  <1>2. 0 \in 0 .. N
    OBVIOUS
  <1>3. ASSUME NEW n \in Nat, n + 1 <= N
        PROVE  n + 1 \in 0 .. N /\ n + 1 # 0 /\ (n + 1) - 1 = n
    BY <1>3
  <1> QED  BY <1>1, <1>2, <1>3

LEMMA JoinedIsConcats ==
    ASSUME NEW X, NEW seqs \in Seq(X)
    PROVE  \E g : Concats(g, seqs, Len(seqs)) /\ Joined(seqs) = g[Len(seqs)]
  <1>1. Len(seqs) \in Nat
    OBVIOUS
  <1> DEFINE f == CHOOSE g : Concats(g, seqs, Len(seqs))
  <1>2. Concats(f, seqs, Len(seqs))
    BY <1>1, ConcatsExist
  <1>3. Joined(seqs) = f[Len(seqs)]
    BY DEF Joined, Concats
  <1> QED  BY <1>2, <1>3

LEMMA KeepIsConcats ==
    ASSUME NEW T, NEW seq \in Seq(T), NEW places,
           NEW piece, piece = [i \in 1 .. Len(seq) |-> IF i \in places THEN <<seq[i]>> ELSE <<>>]
    PROVE  \E g : Concats(g, piece, Len(seq)) /\ Keep(seq, places) = g[Len(seq)]
  <1> DEFINE N == Len(seq)
             Filtered(g) == g = [n \in 0 .. N |->
                                IF n = 0 THEN <<>>
                                ELSE g[n - 1] \o (IF n \in places THEN <<seq[n]>> ELSE <<>>)]
             f == CHOOSE g : Filtered(g)
  <1>1. N \in Nat
    OBVIOUS
  <1>2. ASSUME NEW g  PROVE Concats(g, piece, N) <=> Filtered(g)
    <2>1. \A n \in 0 .. N : n # 0 => n \in 1 .. N
      BY <1>1
    <2>2. \A n \in 0 .. N : n # 0 => piece[n] = IF n \in places THEN <<seq[n]>> ELSE <<>>
      BY <2>1
    <2>3. \A n \in 0 .. N : n # 0 =>
             g[n - 1] \o piece[n] = g[n - 1] \o (IF n \in places THEN <<seq[n]>> ELSE <<>>)
      BY <2>2
    <2> QED  BY <2>3 DEF Concats
  <1>3. Filtered(f)
    <2>1. \E g : Concats(g, piece, N)
      BY <1>1, ConcatsExist
    <2>2. \E g : Filtered(g)
      <3> HIDE DEF Filtered
      <3> QED  BY <1>2, <2>1
    <2> HIDE DEF Filtered
    <2> QED  BY <2>2
  <1>4. Keep(seq, places) = f[N]
    BY DEF Keep
  <1> HIDE DEF f, Filtered
  <1> QED  BY <1>2, <1>3, <1>4

LEMMA AfterConcat ==
    ASSUME NEW T, NEW a \in Seq(T), NEW b \in Seq(T), NEW c, c = a \o b
    PROVE  /\ c \in Seq(T) /\ Len(c) = Len(a) + Len(b)
           /\ \A k \in 1 .. Len(a) : k \in 1 .. Len(c) /\ c[k] = a[k]
           /\ \A j \in 1 .. Len(b) : Len(a) + j \in 1 .. Len(c) /\ c[Len(a) + j] = b[j]
           /\ \A k \in 1 .. Len(c) :
                 \/ k \in 1 .. Len(a) /\ c[k] = a[k]
                 \/ \E j \in 1 .. Len(b) : k = Len(a) + j /\ c[k] = b[j]
  <1>1. c \in Seq(T) /\ Len(c) = Len(a) + Len(b) /\ Len(a) \in Nat /\ Len(b) \in Nat
    OBVIOUS
  <1>2. \A k \in 1 .. Len(a) : k \in 1 .. Len(c) /\ c[k] = a[k]
    OBVIOUS
  <1>3. \A j \in 1 .. Len(b) : Len(a) + j \in 1 .. Len(c) /\ c[Len(a) + j] = b[j]
    OBVIOUS
  <1>4. \A x, y \in Nat : \A k \in 1 .. x + y : k \in 1 .. x \/ \E j \in 1 .. y : k = x + j
    <2>1. ASSUME NEW x \in Nat, NEW y \in Nat, NEW k \in 1 .. x + y, k \notin 1 .. x
          PROVE  k - x \in 1 .. y /\ k = x + (k - x)
      BY <2>1
    <2> QED  BY <2>1
  <1>5. ASSUME NEW k \in 1 .. Len(c)
        PROVE  \/ k \in 1 .. Len(a) /\ c[k] = a[k]
               \/ \E j \in 1 .. Len(b) : k = Len(a) + j /\ c[k] = b[j]
    BY <1>1, <1>2, <1>3, <1>4
  <1> QED  BY <1>1, <1>2, <1>3, <1>5

\* The elements of sequences one after the other are theirs, and all of theirs.
HoldsAll(r, seqs) ==
    \A i \in 1 .. Len(seqs) : \A j \in 1 .. Len(seqs[i]) : \E k \in 1 .. Len(r) : r[k] = seqs[i][j]
HoldsOnly(r, seqs) ==
    \A k \in 1 .. Len(r) : \E i \in 1 .. Len(seqs) : \E j \in 1 .. Len(seqs[i]) : r[k] = seqs[i][j]

LEMMA JoinedElements ==
    ASSUME NEW T, NEW seqs \in Seq(Seq(T)), NEW r, r = Joined(seqs)
    PROVE  r \in Seq(T) /\ HoldsAll(r, seqs) /\ HoldsOnly(r, seqs)
  <1> DEFINE N == Len(seqs)
             All(q, n) == \A i \in 1 .. n : \A j \in 1 .. Len(seqs[i]) :
                              \E k \in 1 .. Len(q) : q[k] = seqs[i][j]
             Own(q, n) == \A k \in 1 .. Len(q) : \E i \in 1 .. n : \E j \in 1 .. Len(seqs[i]) :
                              q[k] = seqs[i][j]
             P(q, n) == q \in Seq(T) /\ All(q, n) /\ Own(q, n)
  <1>1. N \in Nat /\ \A i \in 1 .. N : seqs[i] \in Seq(T)
    OBVIOUS
  <1>2. PICK g : Concats(g, seqs, N) /\ r = g[N]
    BY JoinedIsConcats
  <1>3. /\ g[0] = <<>>
        /\ \A n \in Nat : n + 1 <= N => g[n + 1] = g[n] \o seqs[n + 1]
    BY <1>1, <1>2, ConcatsSteps
  <1> DEFINE S == {n \in Nat : n <= N => P(g[n], n)}
  <1>4. 0 \in S
    <2>1. P(<<>>, 0)
      OBVIOUS
    <2> HIDE DEF P
    <2> QED  BY <1>3, <2>1
  <1>5. ASSUME NEW n \in Nat, n \in S  PROVE n + 1 \in S
    <2> SUFFICES ASSUME n + 1 <= N  PROVE P(g[n + 1], n + 1)
      <3> HIDE DEF P
      <3> QED  OBVIOUS
    <2> DEFINE a == g[n]
               b == seqs[n + 1]
               c == g[n + 1]
    <2>1. P(a, n)
      <3>1. n <= N
        BY <1>1
      <3> HIDE DEF P
      <3> QED  BY <1>5, <3>1
    <2>2. n + 1 \in 1 .. N /\ b \in Seq(T) /\ c = a \o b
      <3>1. n + 1 \in 1 .. N
        BY <1>1
      <3>2. c = a \o b
        BY <1>3
      <3> QED  BY <1>1, <3>1, <3>2
    <2>3. \A i \in 1 .. n + 1 : i \in 1 .. n \/ i = n + 1
      OBVIOUS
    <2>4. \A i \in 1 .. n : i \in 1 .. n + 1
      OBVIOUS
    <2>5. n + 1 \in 1 .. n + 1
      OBVIOUS
    <2> HIDE DEF a, c
    <2>6. /\ c \in Seq(T)
          /\ \A k \in 1 .. Len(a) : k \in 1 .. Len(c) /\ c[k] = a[k]
          /\ \A j \in 1 .. Len(b) : Len(a) + j \in 1 .. Len(c) /\ c[Len(a) + j] = b[j]
          /\ \A k \in 1 .. Len(c) :
                \/ k \in 1 .. Len(a) /\ c[k] = a[k]
                \/ \E j \in 1 .. Len(b) : k = Len(a) + j /\ c[k] = b[j]
      <3>1. a \in Seq(T)
        BY <2>1
      <3> HIDE DEF b
      <3> QED  BY <2>2, <3>1, AfterConcat
    <2>7. All(c, n + 1)
      <3> SUFFICES ASSUME NEW i \in 1 .. n + 1, NEW j \in 1 .. Len(seqs[i])
                   PROVE  \E k \in 1 .. Len(c) : c[k] = seqs[i][j]
        OBVIOUS
      <3>1. CASE i = n + 1
        BY <2>6, <3>1
      <3>2. CASE i \in 1 .. n
        <4>1. PICK k \in 1 .. Len(a) : a[k] = seqs[i][j]
          BY <2>1, <3>2
        <4> QED  BY <2>6, <4>1
      <3> QED  BY <2>3, <3>1, <3>2
    <2>8. Own(c, n + 1)
      <3> SUFFICES ASSUME NEW k \in 1 .. Len(c)
                   PROVE  \E i \in 1 .. n + 1 : \E j \in 1 .. Len(seqs[i]) : c[k] = seqs[i][j]
        OBVIOUS
      <3>1. CASE k \in 1 .. Len(a) /\ c[k] = a[k]
        <4>1. PICK i \in 1 .. n : \E j \in 1 .. Len(seqs[i]) : a[k] = seqs[i][j]
          BY <2>1, <3>1
        <4> QED  BY <2>4, <3>1, <4>1
      <3>2. CASE \E j \in 1 .. Len(b) : k = Len(a) + j /\ c[k] = b[j]
        BY <2>5, <3>2
      <3> QED  BY <2>6, <3>1, <3>2
    <2> QED  BY <2>6, <2>7, <2>8 DEF c
  <1> HIDE DEF P
  <1>6. N \in S
    <2> HIDE DEF S
    <2>1. Nat \subseteq S
      BY <1>4, <1>5, NegSetInduction
    <2> QED  BY <1>1, <2>1
  <1>7. P(r, N)
    BY <1>1, <1>2, <1>6
  <1> QED  BY <1>7 DEF P, HoldsAll, HoldsOnly

IsIn(x, seqs) == \E i \in 1 .. Len(seqs) : \E j \in 1 .. Len(seqs[i]) : x = seqs[i][j]

LEMMA JoinedElement ==
    ASSUME NEW T, NEW seqs \in Seq(Seq(T)), NEW r, r = Joined(seqs), NEW k \in 1 .. Len(r)
    PROVE  IsIn(r[k], seqs)
  <1>1. HoldsOnly(r, seqs)
    BY JoinedElements
  <1> QED  BY <1>1 DEF HoldsOnly, IsIn

LEMMA EachIsJoined ==
    ASSUME NEW T, NEW seqs \in Seq(Seq(T)), NEW r, r = Joined(seqs), NEW x, IsIn(x, seqs)
    PROVE  \E k \in 1 .. Len(r) : r[k] = x
  <1>1. HoldsAll(r, seqs)
    BY JoinedElements
  <1> QED  BY <1>1 DEF HoldsAll, IsIn

\* r holds the elements of seq at those of its first n places that are to keep, at telling
\* the place of each.
Holds(r, at, seq, n, places) ==
    /\ at \in [1 .. Len(r) -> Nat]
    /\ \A k \in 1 .. Len(r) : at[k] \in 1 .. n /\ at[k] \in places /\ r[k] = seq[at[k]]
    /\ \A k, l \in 1 .. Len(r) : k < l => at[k] < at[l]
    /\ \A i \in 1 .. n : i \in places => \E k \in 1 .. Len(r) : at[k] = i

LEMMA HoldsMore ==
    ASSUME NEW T, NEW seq \in Seq(T), NEW places, NEW n \in Nat, n + 1 <= Len(seq),
           NEW a \in Seq(T), NEW at, Holds(a, at, seq, n, places),
           NEW c, c = a \o (IF n + 1 \in places THEN <<seq[n + 1]>> ELSE <<>>)
    PROVE  c \in Seq(T) /\ \E ct : Holds(c, ct, seq, n + 1, places)
  <1>1. \A i \in 1 .. n : i \in 1 .. n + 1 /\ i < n + 1
    OBVIOUS
  <1>2. \A i \in 1 .. n + 1 : i \in 1 .. n \/ i = n + 1
    OBVIOUS
  <1>3. n + 1 \in 1 .. n + 1 /\ n + 1 \in Nat /\ n + 1 \in 1 .. Len(seq)
    OBVIOUS
  <1>4. CASE n + 1 \notin places
    <2>1. c = a
      BY <1>4
    <2>2. Holds(c, at, seq, n + 1, places)
      BY <1>1, <1>2, <1>4, <2>1 DEF Holds
    <2> QED  BY <2>1, <2>2
  <1>5. CASE n + 1 \in places
    <2> DEFINE x == seq[n + 1]
               L == Len(a)
               ct == [k \in 1 .. L + 1 |-> IF k = L + 1 THEN n + 1 ELSE at[k]]
    <2>0. x \in T /\ L \in Nat
      BY <1>3
    <2>1. c = a \o <<x>>
      BY <1>5
    <2> HIDE DEF x
    <2>2. c \in Seq(T) /\ Len(c) = L + 1 /\ c[L + 1] = x /\ \A k \in 1 .. L : c[k] = a[k]
      BY <2>0, <2>1
    <2> HIDE DEF L
    <2>3. \A k \in 1 .. L + 1 : k = L + 1 \/ (k \in 1 .. L /\ k # L + 1)
      BY <2>0
    <2>4. L + 1 \in 1 .. L + 1 /\ \A k \in 1 .. L : k \in 1 .. L + 1 /\ k # L + 1
      BY <2>0
    <2>5. /\ at \in [1 .. L -> Nat]
          /\ \A k \in 1 .. L : at[k] \in 1 .. n /\ at[k] \in places /\ a[k] = seq[at[k]]
          /\ \A k, l \in 1 .. L : k < l => at[k] < at[l]
          /\ \A i \in 1 .. n : i \in places => \E k \in 1 .. L : at[k] = i
      BY DEF Holds, L
    <2>6. ct[L + 1] = n + 1 /\ \A k \in 1 .. L : ct[k] = at[k]
      BY <2>4
    <2>7. ct \in [1 .. L + 1 -> Nat]
      BY <1>3, <2>3, <2>5
    <2> HIDE DEF ct
    <2>8. \A k \in 1 .. L + 1 : ct[k] \in 1 .. n + 1 /\ ct[k] \in places /\ c[k] = seq[ct[k]]
      <3> SUFFICES ASSUME NEW k \in 1 .. L + 1
                   PROVE  ct[k] \in 1 .. n + 1 /\ ct[k] \in places /\ c[k] = seq[ct[k]]
        OBVIOUS
      <3>1. CASE k = L + 1
        BY <1>3, <1>5, <2>2, <2>6, <3>1 DEF x
      <3>2. CASE k \in 1 .. L
        BY <1>1, <2>2, <2>5, <2>6, <3>2
      <3> QED  BY <2>3, <3>1, <3>2
    <2>9. \A k, l \in 1 .. L + 1 : k < l => ct[k] < ct[l]
      <3> SUFFICES ASSUME NEW k \in 1 .. L + 1, NEW l \in 1 .. L + 1, k < l
                   PROVE  ct[k] < ct[l]
        OBVIOUS
      <3>1. k \in 1 .. L
        BY <2>0
      <3>2. CASE l = L + 1
        BY <1>1, <2>5, <2>6, <3>1, <3>2
      <3>3. CASE l \in 1 .. L
        BY <2>5, <2>6, <3>1, <3>3
      <3> QED  BY <2>3, <3>2, <3>3
    <2>10. ASSUME NEW i \in 1 .. n + 1, i \in places
           PROVE  \E k \in 1 .. L + 1 : ct[k] = i
      <3>1. CASE i = n + 1
        BY <2>4, <2>6, <3>1
      <3>2. CASE i \in 1 .. n
        <4>1. PICK k \in 1 .. L : at[k] = i
          BY <2>5, <2>10, <3>2
        <4> QED  BY <2>4, <2>6, <4>1
      <3> QED  BY <1>2, <3>1, <3>2
    <2>11. Holds(c, ct, seq, n + 1, places)
      BY <2>2, <2>7, <2>8, <2>9, <2>10 DEF Holds
    <2> QED  BY <2>2, <2>11
  <1> QED  BY <1>4, <1>5

\* Keep keeps what it is to keep, in its order.
LEMMA KeepHolds ==
    ASSUME NEW T, NEW seq \in Seq(T), NEW places, NEW r, r = Keep(seq, places)
    PROVE  r \in Seq(T) /\ \E at : Holds(r, at, seq, Len(seq), places)
  <1> DEFINE N == Len(seq)
             piece == [i \in 1 .. N |-> IF i \in places THEN <<seq[i]>> ELSE <<>>]
             P(q, n) == q \in Seq(T) /\ \E at : Holds(q, at, seq, n, places)
  <1>1. N \in Nat
    OBVIOUS
  <1>2. PICK g : Concats(g, piece, N) /\ r = g[N]
    BY KeepIsConcats
  <1>3. \A n \in Nat : n + 1 <= N =>
           piece[n + 1] = IF n + 1 \in places THEN <<seq[n + 1]>> ELSE <<>>
    <2>1. \A n \in Nat : n + 1 <= N => n + 1 \in 1 .. N
      BY <1>1
    <2> QED  BY <2>1
  <1> HIDE DEF piece
  <1>4. /\ g[0] = <<>>
        /\ \A n \in Nat : n + 1 <= N => g[n + 1] = g[n] \o piece[n + 1]
    BY <1>1, <1>2, ConcatsSteps
  <1> DEFINE S == {n \in Nat : n <= N => P(g[n], n)}
  <1>5. 0 \in S
    <2>1. Holds(<<>>, <<>>, seq, 0, places)
      <3>1. 1 .. Len(<<>>) = {} /\ 1 .. 0 = {}
        OBVIOUS
      <3>2. <<>> \in [1 .. Len(<<>>) -> Nat]
        OBVIOUS
      <3> QED  BY <3>1, <3>2 DEF Holds
    <2>2. P(<<>>, 0)
      BY <2>1
    <2> HIDE DEF P
    <2> QED  BY <1>4, <2>2
  <1>6. ASSUME NEW n \in Nat, n \in S  PROVE n + 1 \in S
    <2> SUFFICES ASSUME n + 1 <= N  PROVE P(g[n + 1], n + 1)
      <3> HIDE DEF P
      <3> QED  OBVIOUS
    <2>1. P(g[n], n)
      <3>1. n <= N
        BY <1>1
      <3> HIDE DEF P
      <3> QED  BY <1>6, <3>1
    <2>2. PICK at : Holds(g[n], at, seq, n, places)
      BY <2>1
    <2>3. g[n + 1] = g[n] \o (IF n + 1 \in places THEN <<seq[n + 1]>> ELSE <<>>)
      BY <1>3, <1>4
    <2>4. g[n] \in Seq(T)
      BY <2>1
    <2> QED  BY <2>2, <2>3, <2>4, HoldsMore
  <1> HIDE DEF P
  <1>7. N \in S
    <2> HIDE DEF S
    <2>1. Nat \subseteq S
      BY <1>5, <1>6, NegSetInduction
    <2> QED  BY <1>1, <2>1
  <1>8. P(r, N)
    BY <1>1, <1>2, <1>7
  <1> QED  BY <1>8 DEF P

LEMMA FirstHeld ==
    ASSUME NEW T, NEW r \in Seq(T), NEW N \in Nat, NEW seq, NEW places, NEW at,
           Holds(r, at, seq, N, places)
    PROVE  /\ \A i \in 1 .. N : i \in places => r # <<>>
           /\ r # <<>> => \E i \in 1 .. N : /\ i \in places /\ Head(r) = seq[i]
                                           /\ \A j \in 1 .. i - 1 : j \notin places
  <1>1. ASSUME NEW i \in 1 .. N, i \in places  PROVE r # <<>>
    <2>1. PICK k \in 1 .. Len(r) : at[k] = i
      BY <1>1 DEF Holds
    <2>2. 1 .. Len(r) # {}
      BY <2>1
    <2> QED  BY <2>2
  <1>2. ASSUME r # <<>>
        PROVE  \E i \in 1 .. N : /\ i \in places /\ Head(r) = seq[i]
                                 /\ \A j \in 1 .. i - 1 : j \notin places
    <2> DEFINE i == at[1]
    <2>1. 1 \in 1 .. Len(r) /\ Head(r) = r[1] /\ Len(r) \in Nat
      BY <1>2
    <2>2. i \in 1 .. N /\ i \in places /\ Head(r) = seq[i]
      BY <2>1 DEF Holds
    <2>3. ASSUME NEW j \in 1 .. i - 1, j \in places  PROVE FALSE
      <3>1. j \in 1 .. N /\ j < i
        BY <2>2
      <3>2. PICK k \in 1 .. Len(r) : at[k] = j
        BY <2>3, <3>1 DEF Holds
      <3>3. k # 1 => 1 < k
        BY <2>1
      <3>4. \A k1, k2 \in 1 .. Len(r) : k1 < k2 => at[k1] < at[k2]
        BY DEF Holds
      <3>5. k # 1 => i < j
        BY <2>1, <3>2, <3>3, <3>4
      <3> HIDE DEF i
      <3>6. k # 1
        BY <2>2, <3>1, <3>2 DEF i
      <3> QED  BY <2>2, <3>1, <3>5, <3>6
    <2> HIDE DEF i
    <2> QED  BY <2>2, <2>3
  <1> QED  BY <1>1, <1>2

LEMMA WithoutHolds ==
    ASSUME NEW T, NEW seq \in Seq(T), NEW x, NEW r, r = Without(seq, x)
    PROVE  /\ r \in Seq(T)
           /\ \A k \in 1 .. Len(r) : r[k] # x /\ \E i \in 1 .. Len(seq) : r[k] = seq[i]
           /\ r # <<>> => \E i \in 1 .. Len(seq) : /\ seq[i] # x /\ Head(r) = seq[i]
                                                  /\ \A j \in 1 .. i - 1 : seq[j] = x
  <1> DEFINE N == Len(seq)
             places == {i \in DOMAIN seq : seq[i] # x}
  <1>1. N \in Nat /\ DOMAIN seq = 1 .. N
    OBVIOUS
  <1>2. \A i \in 1 .. N : i \in places <=> seq[i] # x
    BY <1>1
  <1>3. r = Keep(seq, places)
    BY DEF Without
  <1> HIDE DEF places
  <1>4. r \in Seq(T) /\ \E at : Holds(r, at, seq, N, places)
    BY <1>3, KeepHolds
  <1>5. PICK at : Holds(r, at, seq, N, places)
    BY <1>4
  <1>6. \A k \in 1 .. Len(r) : r[k] # x /\ \E i \in 1 .. N : r[k] = seq[i]
    <2>1. \A k \in 1 .. Len(r) : at[k] \in 1 .. N /\ at[k] \in places /\ r[k] = seq[at[k]]
      BY <1>5 DEF Holds
    <2> QED  BY <1>2, <2>1
  <1>7. ASSUME r # <<>>
        PROVE  \E i \in 1 .. N : /\ seq[i] # x /\ Head(r) = seq[i]
                                 /\ \A j \in 1 .. i - 1 : seq[j] = x
    <2>1. PICK i \in 1 .. N : /\ i \in places /\ Head(r) = seq[i]
                             /\ \A j \in 1 .. i - 1 : j \notin places
      BY <1>1, <1>4, <1>5, <1>7, FirstHeld
    <2>2. \A j \in 1 .. i - 1 : j \in 1 .. N
      BY <1>1
    <2> QED  BY <1>2, <2>1, <2>2
  <1> QED  BY <1>4, <1>6, <1>7

LEMMA DistinctHolds ==
    ASSUME NEW T, NEW seq \in Seq(T), NEW r, r = Distinct(seq)
    PROVE  /\ r \in Seq(T)
           /\ \A k \in 1 .. Len(r) : \E i \in 1 .. Len(seq) : r[k] = seq[i]
           /\ \A k \in 1 .. Len(r) : \A l \in 1 .. k - 1 : r[l] # r[k]
           /\ seq # <<>> => r # <<>> /\ Head(r) = Head(seq)
           /\ r # <<>> => seq # <<>>
  <1> DEFINE N == Len(seq)
             places == {i \in DOMAIN seq : \A j \in 1 .. i - 1 : seq[j] # seq[i]}
  <1>1. N \in Nat /\ DOMAIN seq = 1 .. N
    OBVIOUS
  <1>2. \A i \in 1 .. N : i \in places <=> \A j \in 1 .. i - 1 : seq[j] # seq[i]
    BY <1>1
  <1>3. r = Keep(seq, places)
    BY DEF Distinct
  <1> HIDE DEF places
  <1>4. r \in Seq(T) /\ \E at : Holds(r, at, seq, N, places)
    BY <1>3, KeepHolds
  <1>5. PICK at : Holds(r, at, seq, N, places)
    BY <1>4
  <1>6. \A k \in 1 .. Len(r) : at[k] \in 1 .. N /\ at[k] \in places /\ r[k] = seq[at[k]]
    BY <1>5 DEF Holds
  <1>7. ASSUME NEW k \in 1 .. Len(r), NEW l \in 1 .. k - 1  PROVE r[l] # r[k]
    <2>1. l \in 1 .. Len(r) /\ l < k
      BY <1>4
    <2>2. at[l] < at[k]
      BY <1>5, <2>1 DEF Holds
    <2>3. at[l] \in 1 .. at[k] - 1
      BY <1>6, <2>1, <2>2
    <2> QED  BY <1>2, <1>6, <2>1, <2>3
  <1>8. ASSUME seq # <<>>  PROVE r # <<>> /\ Head(r) = Head(seq)
    <2>1. 1 \in 1 .. N /\ Head(seq) = seq[1] /\ 1 .. 1 - 1 = {}
      BY <1>1, <1>8
    <2>2. 1 \in places
      BY <1>2, <2>1
    <2>3. r # <<>>
      BY <1>1, <1>4, <1>5, <2>1, <2>2, FirstHeld
    <2>4. PICK i \in 1 .. N : /\ i \in places /\ Head(r) = seq[i]
                             /\ \A j \in 1 .. i - 1 : j \notin places
      BY <1>1, <1>4, <1>5, <2>3, FirstHeld
    <2>5. i # 1 => 1 \in 1 .. i - 1
      BY <1>1
    <2> QED  BY <2>1, <2>2, <2>3, <2>4, <2>5
  <1>9. ASSUME r # <<>>  PROVE seq # <<>>
    <2>1. 1 \in 1 .. Len(r)
      BY <1>4, <1>9
    <2>2. at[1] \in 1 .. N
      BY <1>6, <2>1
    <2> QED  BY <1>1, <2>2
  <1> QED  BY <1>4, <1>6, <1>7, <1>8, <1>9

-----------------------------------------------------------------------------
(* The gateway addresses and the fingerprint *)

LEMMA KeptAreOfIt ==
    ASSUME NEW T, NEW seq \in Seq(T), NEW places, NEW r, r = Keep(seq, places)
    PROVE  /\ r \in Seq(T)
           /\ \A k \in 1 .. Len(r) : \E i \in 1 .. Len(seq) : i \in places /\ r[k] = seq[i]
           /\ \A i \in 1 .. Len(seq) : i \in places => r # <<>>
  <1>1. r \in Seq(T) /\ \E at : Holds(r, at, seq, Len(seq), places)
    BY KeepHolds
  <1>2. PICK at : Holds(r, at, seq, Len(seq), places)
    BY <1>1
  <1>3. \A i \in 1 .. Len(seq) : i \in places => r # <<>>
    <2>1. Len(seq) \in Nat
      OBVIOUS
    <2> QED  BY <1>1, <1>2, <2>1, FirstHeld
  <1>4. \A k \in 1 .. Len(r) : at[k] \in 1 .. Len(seq) /\ at[k] \in places /\ r[k] = seq[at[k]]
    BY <1>2 DEF Holds
  <1> QED  BY <1>1, <1>3, <1>4

\* The buffer the gateways are taken from is one of the response.
LEMMA PrimaryIsOfBody ==
    ASSUME NEW body, IsSeq(body), Usable(body)
    PROVE  \E i \in DOMAIN body : Primary(body) = body[i]
  <1> DEFINE T == {body[i] : i \in DOMAIN body}
             ok == Successful(body)
  <1>1. body \in Seq(T) /\ DOMAIN body = 1 .. Len(body)
    BY DEF IsSeq
  <1>2. ok \in Seq(T) /\ ok # <<>>
    <2> HIDE DEF T
    <2> QED  BY <1>1, KeptAreOfIt DEF Successful, Usable
  <1>3. 1 \in 1 .. Len(ok) /\ DOMAIN ok = 1 .. Len(ok) /\ Head(ok) = ok[1]
    <2> HIDE DEF T, ok
    <2> QED  BY <1>2
  <1>4. ASSUME NEW flag
        PROVE  /\ OfFlag(body, flag) \in Seq(T)
               /\ flag = Head(ok).flag => OfFlag(body, flag) # <<>>
    <2> DEFINE places == {i \in DOMAIN ok : ok[i].flag = flag}
    <2>1. OfFlag(body, flag) = Keep(ok, places)
      BY DEF OfFlag
    <2>2. flag = Head(ok).flag => 1 \in places
      <3> HIDE DEF ok
      <3> QED  BY <1>3
    <2> HIDE DEF places, ok, T
    <2> QED  BY <1>2, <1>3, <2>1, <2>2, KeptAreOfIt
  <1>5. ASSUME NEW flag, OfFlag(body, flag) # <<>>
        PROVE  Buffer(body, flag) \in T
    <2> DEFINE bs == OfFlag(body, flag)
    <2>1. bs \in Seq(T) /\ bs # <<>>
      BY <1>4, <1>5
    <2>2. Buffer(body, flag) = bs[Len(bs)]
      BY DEF Buffer
    <2> HIDE DEF bs, T
    <2>3. Len(bs) \in 1 .. Len(bs)
      BY <2>1
    <2> QED  BY <2>1, <2>2, <2>3
  <1>6. Primary(body) \in T
    <2>1. CASE OfFlag(body, "gateway") # <<>>
      <3>1. Primary(body) = Buffer(body, "gateway")
        BY <2>1 DEF Primary
      <3> HIDE DEF T
      <3> QED  BY <1>5, <2>1, <3>1
    <2>2. CASE ~(OfFlag(body, "gateway") # <<>>)
      <3>1. Primary(body) = Buffer(body, Head(ok).flag)
        BY <2>2 DEF Primary
      <3>2. OfFlag(body, Head(ok).flag) # <<>>
        BY <1>4
      <3> HIDE DEF T, ok
      <3> QED  BY <1>5, <3>1, <3>2
    <2> QED  BY <2>1, <2>2
  <1> QED  BY <1>6

\* An address has the fingerprint of its gateway, or none.
LEMMA AddressPrints ==
    ASSUME NEW c \in Cases, NEW b \in c.bodies, Usable(b), NEW addr, addr = JoinAddresses(b)
    PROVE  /\ \E U : addr \in Seq(U)
           /\ Len(addr) = Gateways
           /\ \A i \in 1 .. Len(addr) : addr[i].print # None => addr[i].print = addr[i].host
  <1>1. PICK n \in DOMAIN b : Primary(b) = b[n]
    BY ResponseAssumption, PrimaryIsOfBody
  <1> DEFINE edges  == b[n].edges
             prints == Without(b[n].prints, None)
             all    == [i \in DOMAIN edges |-> [host |-> edges[i].host, print |-> Chosen(prints, i, None)]]
             U      == {all[i] : i \in DOMAIN edges}
             places == {i \in DOMAIN edges : edges[i].valid}
  <1>2. /\ IsSeq(edges)
        /\ \A j \in DOMAIN prints : j \in DOMAIN edges /\ prints[j] = edges[j].host
    BY ResponseAssumption
  <1>3. addr = Keep(all, places)
    BY <1>1 DEF JoinAddresses, Addresses
  <1>4. DOMAIN edges = 1 .. Len(edges) /\ Len(edges) \in Nat
    <2> HIDE DEF edges
    <2> QED  BY <1>2 DEF IsSeq
  <1>5. all \in Seq(U) /\ Len(all) = Len(edges)
    <2> HIDE DEF edges, prints
    <2> QED  BY <1>4
  <1>6. \A i \in 1 .. Len(all) : all[i].print # None => all[i].print = all[i].host
    <2> SUFFICES ASSUME NEW i \in 1 .. Len(all), all[i].print # None
                 PROVE  all[i].print = all[i].host
      OBVIOUS
    <2>1. i \in DOMAIN edges
      <3> HIDE DEF edges, all
      <3> QED  BY <1>4, <1>5
    <2>2. all[i].host = edges[i].host /\ all[i].print = Chosen(prints, i, None)
      <3> HIDE DEF edges, prints, U
      <3> QED  BY <2>1
    <2>3. \A j \in DOMAIN prints : prints[j] = edges[j].host
      BY <1>2
    <2> HIDE DEF edges, prints, all
    <2>4. i \in DOMAIN prints /\ all[i].print = prints[i]
      BY <2>2 DEF Chosen
    <2> QED  BY <2>2, <2>3, <2>4
  <1>7. addr \in Seq(U) /\ \A k \in 1 .. Len(addr) : \E i \in 1 .. Len(all) : addr[k] = all[i]
    <2> HIDE DEF U, places, all
    <2> QED  BY <1>3, <1>5, KeptAreOfIt
  <1>8. \A k \in 1 .. Len(addr) : addr[k].print # None => addr[k].print = addr[k].host
    <2> HIDE DEF all, U
    <2> QED  BY <1>6, <1>7
  <1>9. Len(addr) = Gateways
    BY NegotiationAssumption
  <1>10. \E V : addr \in Seq(V)
    <2> HIDE DEF U, all
    <2> QED  BY <1>7
  <1> QED  BY <1>8, <1>9, <1>10

\* Which fingerprint the answer takes.
LEMMA FirstPrint ==
    ASSUME NEW c \in Cases, NEW b \in c.bodies, Usable(b), NEW addr, addr = JoinAddresses(b),
           NEW own, IsSeq(own), NEW prints, prints = WithGateways(own, addr), prints # <<>>
    PROVE  IF own # <<>> THEN Head(prints) = Head(own)
           ELSE \E i \in 1 .. Gateways :
                   /\ Head(prints) = addr[i].host
                   /\ \A j \in 1 .. i - 1 : addr[j].print = None
  <1> DEFINE raw   == [i \in DOMAIN addr |-> addr[i].print]
             known == Without(raw, None)
             both  == own \o known
             O     == {own[i] : i \in DOMAIN own}
             R     == {raw[i] : i \in DOMAIN addr}
  <1>1. /\ Len(addr) = Gateways
        /\ \A i \in 1 .. Len(addr) : addr[i].print # None => addr[i].print = addr[i].host
    BY AddressPrints
  <1>2. DOMAIN addr = 1 .. Gateways /\ Gateways \in Nat
    <2>1. PICK U : addr \in Seq(U)
      BY AddressPrints
    <2> QED  BY <1>1, <2>1, SignalingAssumption
  <1>3. raw \in Seq(R) /\ Len(raw) = Gateways /\ \A i \in 1 .. Gateways : raw[i] = addr[i].print
    BY <1>2
  <1>4. /\ known \in Seq(R)
        /\ known # <<>> => \E i \in 1 .. Gateways : /\ raw[i] # None /\ Head(known) = raw[i]
                                                  /\ \A j \in 1 .. i - 1 : raw[j] = None
    <2> HIDE DEF raw, R
    <2> QED  BY <1>3, WithoutHolds
  <1>5. own \in Seq(O \cup R) /\ known \in Seq(O \cup R)
    <2>1. own \in Seq(O)
      BY DEF IsSeq
    <2> HIDE DEF O, R, known
    <2> QED  BY <1>4, <2>1
  <1>6. both \in Seq(O \cup R) /\ (own # <<>> => both # <<>> /\ Head(both) = Head(own))
        /\ (own = <<>> => both = known)
    <2> HIDE DEF O, R, known
    <2> QED  BY <1>5
  <1>7. prints = Distinct(both)
    BY DEF WithGateways
  <1>8. both # <<>> /\ Head(prints) = Head(both)
    <2> HIDE DEF both, O, R
    <2> QED  BY <1>6, <1>7, DistinctHolds
  <1>9. CASE own = <<>>
    <2>1. known # <<>> /\ Head(prints) = Head(known)
      <3> HIDE DEF both, known
      <3> QED  BY <1>6, <1>8, <1>9
    <2>2. PICK i \in 1 .. Gateways : /\ raw[i] # None /\ Head(known) = raw[i]
                                    /\ \A j \in 1 .. i - 1 : raw[j] = None
      <3> HIDE DEF known, raw
      <3> QED  BY <1>4, <2>1
    <2>3. \A j \in 1 .. i - 1 : j \in 1 .. Gateways
      BY <1>2
    <2> HIDE DEF known, raw
    <2>4. Head(prints) = addr[i].host /\ \A j \in 1 .. i - 1 : addr[j].print = None
      BY <1>1, <1>3, <2>1, <2>2, <2>3
    <2> QED  BY <1>9, <2>4
  <1>10. CASE own # <<>>
    <2> HIDE DEF both
    <2> QED  BY <1>6, <1>8, <1>10
  <1> QED  BY <1>9, <1>10

-----------------------------------------------------------------------------
(* What the answer says *)

\* The join works with one offer, one response of the API and the replies that go with it.
SourceShape ==
    /\ \E c \in Cases :
          /\ offer = Parse(c.offer) /\ world = [bodies |-> c.bodies, replies |-> c.replies]
          /\ addresses # None => \E b \in c.bodies : Usable(b) /\ addresses = JoinAddresses(b)
    /\ sdp # None => addresses # None

JoinInv == IInv /\ UsedShape /\ NegInv
SourceInv == JoinInv /\ SourceShape

LEMMA SourceKept == SourceInv /\ [NegNext]_negVars => SourceInv'
  <1> SUFFICES ASSUME SourceInv, [NegNext]_negVars PROVE SourceInv'
    OBVIOUS
  <1>0. JoinInv /\ SourceShape
    BY DEF SourceInv
  <1>1. JoinInv'
    <2>1. UNCHANGED negVars => UNCHANGED vars
      BY DEF negVars
    <2>2. [Next]_vars \/ Fails
      BY <2>1, NegSteps
    <2> QED  BY <1>0, <2>2, NegKept, UsedKept, SourcesKept DEF JoinInv
  <1>2. SourceShape'
    <2> DEFINE From(c, a) == a # None => \E b \in c.bodies : Usable(b) /\ a = JoinAddresses(b)
    <2>1. PICK c \in Cases : /\ offer = Parse(c.offer)
                             /\ world = [bodies |-> c.bodies, replies |-> c.replies]
                             /\ From(c, addresses)
      BY <1>0 DEF SourceShape
    <2>2. offer' = offer /\ world' = world
      BY DEF NegNext, Choose, EndpointAnswers, EndpointFails, Noted, negVars
    <2>3. From(c, addresses')
      <3>1. CASE EndpointAnswers
        <4>1. world.bodies = c.bodies
          BY <2>1
        <4> QED  BY <2>1, <3>1, <4>1 DEF EndpointAnswers
      <3>2. CASE ~EndpointAnswers
        <4>1. addresses' = addresses
          BY <3>2 DEF NegNext, Choose, EndpointFails, Noted, negVars
        <4> QED  BY <2>1, <4>1
      <3> QED  BY <3>1, <3>2
    <2>4. sdp' # None => addresses' # None
      <3>1. CASE Choose
        <4>1. domain # None /\ UNCHANGED sdp
          BY <3>1 DEF Choose, EndpointAnswers, EndpointFails
        <4> QED  BY <1>0, <4>1 DEF JoinInv, NegInv, ChooseShape
      <3>2. CASE UNCHANGED negVars
        BY <1>0, <3>2 DEF SourceShape, negVars
      <3>3. CASE Noted
        BY <3>3 DEF Noted
      <3> QED  BY <3>1, <3>2, <3>3 DEF NegNext
    <2> QED  BY <2>1, <2>2, <2>3, <2>4 DEF SourceShape
  <1> QED  BY <1>1, <1>2 DEF SourceInv

LEMMA SourceInvariant == NegSpec => []SourceInv
  <1>1. NegInit => SourceInv
    <2> SUFFICES ASSUME NegInit PROVE SourceInv
      OBVIOUS
    <2>1. NegInv
      BY DEF NegInit, Init, NegInv, PtShape, ChooseShape, SdpShape
    <2>2. IInv /\ UsedShape
      BY Initial, InitialDuty DEF NegInit
    <2>3. SourceShape
      BY DEF NegInit, SourceShape
    <2> QED  BY <2>1, <2>2, <2>3 DEF SourceInv, JoinInv
  <1> QED  BY <1>1, SourceKept, PTL DEF NegSpec

\* The answer that was given is the one of the offer, a response, a reply and a stream.
MadeFrom(c, b, g, p) ==
    /\ Usable(b) /\ addresses = JoinAddresses(b)
    /\ offer = Parse(c.offer) /\ Reply = c.replies[g]
    /\ answer.ssrc \in Ssrcs /\ answer.ssrc \in used
    /\ sdp = Answer(offer, addresses, c.replies[g], [ssrc |-> answer.ssrc, pt |-> p])

LEMMA AnswerParts ==
    ASSUME SourceInv, sdp # None
    PROVE  \E c \in Cases : \E b \in c.bodies, g \in 1 .. Gateways, p \in {None, Pt[answer.ssrc]} :
              MadeFrom(c, b, g, p)
  <1>1. PICK c \in Cases : /\ offer = Parse(c.offer)
                          /\ world = [bodies |-> c.bodies, replies |-> c.replies]
                          /\ \E b \in c.bodies : Usable(b) /\ addresses = JoinAddresses(b)
    BY DEF SourceInv, SourceShape
  <1>2. PICK b \in c.bodies : Usable(b) /\ addresses = JoinAddresses(b)
    BY <1>1
  <1>3. answer # None /\ answer.ssrc \in used
    BY DEF SourceInv, JoinInv, NegInv, SdpShape
  <1>4. answer.gateway \in 1 .. Gateways /\ answer.ssrc \in Ssrcs
    BY <1>3 DEF SourceInv, JoinInv, IInv, TypeOK, JoinerOK
  <1>5. Reply = c.replies[answer.gateway]
    BY <1>1 DEF Reply
  <1>6. PICK p \in {None, Pt[answer.ssrc]} : sdp = MadeOf(p)
    BY DEF SourceInv, JoinInv, NegInv, SdpShape
  <1>7. sdp = Answer(offer, addresses, c.replies[answer.gateway], [ssrc |-> answer.ssrc, pt |-> p])
    BY <1>5, <1>6 DEF MadeOf
  <1> QED  BY <1>1, <1>2, <1>3, <1>4, <1>5, <1>7 DEF MadeFrom

\* The answer authenticates the gateway it was made for: by the fingerprint of its reply,
\* or else by that of the first gateway the response of the API states one for.
THEOREM AnswerAuthenticatesGateway == NegSpec => []GatewayIsAuthentic
  <1>1. SourceInv => GatewayIsAuthentic
    <2> SUFFICES ASSUME SourceInv, sdp # None
                 PROVE  IF Reply.prints # <<>> THEN sdp.print = Head(Reply.prints)
                        ELSE \E i \in 1 .. Gateways :
                                /\ sdp.print = addresses[i].host
                                /\ \A j \in 1 .. i - 1 : addresses[j].print = None
      BY DEF GatewayIsAuthentic
    <2>0. PICK c \in Cases : \E b \in c.bodies, g \in 1 .. Gateways, p \in {None, Pt[answer.ssrc]} :
              MadeFrom(c, b, g, p)
      BY AnswerParts
    <2>1. PICK b \in c.bodies, g \in 1 .. Gateways, p \in {None, Pt[answer.ssrc]} :
              MadeFrom(c, b, g, p)
      BY <2>0
    <2> DEFINE own    == c.replies[g].prints
               prints == WithGateways(own, addresses)
    <2>2. prints # <<>> /\ sdp.print = Head(prints)
      BY <2>1 DEF MadeFrom, Answer
    <2>3. IsSeq(own)
      BY ReplyAssumption
    <2>4. Reply.prints = own
      BY <2>1 DEF MadeFrom
    <2> HIDE DEF own
    <2> QED  BY <2>1, <2>2, <2>3, <2>4, FirstPrint DEF MadeFrom
  <1> QED  BY <1>1, SourceInvariant, PTL

-----------------------------------------------------------------------------
(* The sections of the answer *)

LEMMA SeqOfSeqs ==
    ASSUME NEW N \in Nat, NEW f, f = [i \in 1 .. N |-> f[i]], \A i \in 1 .. N : IsSeq(f[i])
    PROVE  \E T : f \in Seq(Seq(T))
  <1> DEFINE Own(i) == {f[i][j] : j \in DOMAIN f[i]}
             T      == UNION {Own(i) : i \in 1 .. N}
  <1>1. ASSUME NEW i \in 1 .. N  PROVE f[i] \in Seq(T)
    <2>1. f[i] \in Seq(Own(i))
      BY DEF IsSeq
    <2>2. Own(i) \subseteq T
      <3> HIDE DEF Own
      <3> QED  OBVIOUS
    <2> HIDE DEF Own, T
    <2> QED  BY <2>1, <2>2
  <1> HIDE DEF T
  <1>2. f \in [1 .. N -> Seq(T)]
    BY <1>1
  <1>3. f \in Seq(Seq(T))
    BY <1>2
  <1> QED  BY <1>3

LEMMA LastOne ==
    ASSUME NEW P, NEW N \in Nat, NEW i \in 1 .. N, i \in P
    PROVE  \E m \in 1 .. N : m \in P /\ \A j \in 1 .. N : j \in P => j <= m
  <1> DEFINE Last(n) == \E m \in 1 .. n : m \in P /\ \A j \in 1 .. n : j \in P => j <= m
             S == {n \in Nat : 1 .. n \cap P # {} => Last(n)}
  <1>1. 0 \in S
    OBVIOUS
  <1>2. ASSUME NEW n \in Nat, n \in S  PROVE n + 1 \in S
    <2>1. \A j \in 1 .. n + 1 : j \in 1 .. n \/ j = n + 1
      OBVIOUS
    <2>2. \A j \in 1 .. n : j \in 1 .. n + 1 /\ j <= n + 1
      OBVIOUS
    <2>3. CASE n + 1 \in P
      <3>1. Last(n + 1)
        BY <2>3
      <3> QED  BY <3>1
    <2>4. CASE n + 1 \notin P
      <3>1. 1 .. n + 1 \cap P # {} => 1 .. n \cap P # {}
        BY <2>1, <2>4
      <3>2. Last(n) => Last(n + 1)
        BY <2>1, <2>2, <2>4
      <3>3. 1 .. n \cap P # {} => Last(n)
        BY <1>2
      <3> HIDE DEF Last
      <3>4. 1 .. n + 1 \cap P # {} => Last(n + 1)
        BY <3>1, <3>2, <3>3
      <3> QED  BY <3>4
    <2> QED  BY <2>3, <2>4
  <1>3. N \in S
    <2> HIDE DEF S
    <2> QED  BY <1>1, <1>2, NegSetInduction
  <1> QED  BY <1>3

\* What OfferAssumption says of one offer.
Fits(media) ==
    /\ IsSeq(media)
    /\ \A i, j \in DOMAIN media : media[i].kind = media[j].kind => i = j
    /\ \A i \in DOMAIN media :
          /\ media[i].mid # None /\ IsSeq(media[i].rtp) /\ IsSeq(media[i].ext)
          /\ \A j \in DOMAIN media[i].ext :
                media[i].ext[j] = [id |-> media[i].ext[j].id, uri |-> media[i].ext[j].uri]

LEMMA OffersFit == \A c \in Cases : Fits(Parse(c.offer).media)
  BY OfferAssumption DEF Fits

LEMMA DomainOfSeq == \A s : IsSeq(s) => DOMAIN s = 1 .. Len(s) /\ Len(s) \in Nat
  <1> SUFFICES ASSUME NEW s, IsSeq(s) PROVE DOMAIN s = 1 .. Len(s) /\ Len(s) \in Nat
    OBVIOUS
  <1> DEFINE T == {s[i] : i \in DOMAIN s}
  <1>1. s \in Seq(T)
    BY DEF IsSeq
  <1> HIDE DEF T
  <1> QED  BY <1>1

LEMMA EmptyIsSeq == IsSeq(<<>>)
  BY DEF IsSeq

\* The gateway is told the codecs of each section on the sides it opens.
LEMMA CapabilityTells ==
    ASSUME NEW media, Fits(media), NEW i \in DOMAIN media, NEW side \in Side(media[i].direction),
           NEW j \in DOMAIN media[i].rtp, NEW told, told = Capability(media, side, media[i].kind)
    PROVE  \E k \in DOMAIN told : told[k] = media[i].rtp[j]
  <1> DEFINE N == Len(media)
             f == [n \in 1 .. N |->
                     IF side \in Side(media[n].direction) /\ media[n].kind = media[i].kind
                     THEN media[n].rtp ELSE <<>>]
  <1>1. DOMAIN media = 1 .. N /\ N \in Nat
    BY DomainOfSeq DEF Fits
  <1>2. told = Joined(f)
    BY <1>1 DEF Capability
  <1>3. f[i] = media[i].rtp /\ f = [n \in 1 .. N |-> f[n]] /\ DOMAIN f = 1 .. N
    BY <1>1
  <1>4. \A n \in 1 .. N : f[n] = media[n].rtp \/ f[n] = <<>>
    OBVIOUS
  <1> HIDE DEF f
  <1>5. \A n \in 1 .. N : IsSeq(f[n])
    BY <1>1, <1>4, EmptyIsSeq DEF Fits
  <1>6. PICK T : f \in Seq(Seq(T))
    BY <1>1, <1>3, <1>5, SeqOfSeqs
  <1>7. Len(f) = N /\ j \in 1 .. Len(f[i])
    BY <1>1, <1>3, <1>5, <1>6, DomainOfSeq
  <1>8. told \in Seq(T)
    BY <1>2, <1>6, JoinedElements
  <1>9. IsIn(f[i][j], f)
    BY <1>1, <1>7 DEF IsIn
  <1>10. \E k \in 1 .. Len(told) : told[k] = f[i][j]
    BY <1>2, <1>6, <1>9, EachIsJoined
  <1> QED  BY <1>3, <1>8, <1>10, DomainOfSeq

\* The extensions a kind is offered are those of its section.
LEMMA OfferExtensionsFit ==
    ASSUME NEW media, Fits(media), NEW i \in DOMAIN media,
           NEW ext, ext = OfferExtensions(media, media[i].kind)
    PROVE  /\ \E T : ext \in Seq(T)
           /\ \A k \in 1 .. Len(ext) : \E j \in DOMAIN media[i].ext : ext[k] = media[i].ext[j]
  <1> DEFINE N == Len(media)
             f == [n \in 1 .. N |-> IF media[n].kind = media[i].kind THEN media[n].ext ELSE <<>>]
  <1>1. DOMAIN media = 1 .. N /\ N \in Nat
    BY DomainOfSeq DEF Fits
  <1>2. ext = Joined(f)
    BY <1>1 DEF OfferExtensions
  <1>3. f[i] = media[i].ext /\ f = [n \in 1 .. N |-> f[n]]
    BY <1>1
  <1>4. \A n \in 1 .. N : n # i => f[n] = <<>>
    BY <1>1 DEF Fits
  <1> HIDE DEF f
  <1>5. \A n \in 1 .. N : IsSeq(f[n])
    BY <1>1, <1>3, <1>4, EmptyIsSeq DEF Fits
  <1>6. PICK T : f \in Seq(Seq(T))
    BY <1>1, <1>3, <1>5, SeqOfSeqs
  <1>7. Len(f) = N
    BY <1>1, <1>3, <1>6
  <1>8. ext \in Seq(T)
    BY <1>2, <1>6, JoinedElements
  <1>9. ASSUME NEW k \in 1 .. Len(ext)
        PROVE  \E j \in DOMAIN media[i].ext : ext[k] = media[i].ext[j]
    <2>0. IsIn(ext[k], f)
      BY <1>2, <1>6, <1>9, JoinedElement
    <2>1. PICK n \in 1 .. N : \E j \in 1 .. Len(f[n]) : ext[k] = f[n][j]
      BY <1>7, <2>0 DEF IsIn
    <2>2. n = i
      BY <1>4, <2>1
    <2> QED  BY <1>1, <1>3, <1>5, <2>1, <2>2, DomainOfSeq
  <1> QED  BY <1>8, <1>9

\* An extension of the answer: one offered, under its number, that the gateway lists.
Proper(e, offered, uris) ==
    /\ \E k \in DOMAIN offered.ext : e = offered.ext[k]
    /\ e.uri # MidUri
    /\ \E k \in 1 .. Len(uris) : e.uri = uris[k]

\* The gateway's extensions appear under the numbers they were offered with.
LEMMA ExtensionsFit ==
    ASSUME NEW media, Fits(media), NEW i \in DOMAIN media, NEW uris, NEW V, uris \in Seq(V),
           NEW made, made = Extensions(OfferExtensions(media, media[i].kind), uris),
           NEW j \in DOMAIN made
    PROVE  Proper(made[j], media[i], uris)
  <1> DEFINE ext    == OfferExtensions(media, media[i].kind)
             places == {n \in DOMAIN uris : uris[n] # MidUri
                                            /\ \E m \in DOMAIN ext : ext[m].uri = uris[n]}
             shared == Keep(uris, places)
             u      == shared[j]
  <1>1. /\ \E T : ext \in Seq(T)
        /\ \A k \in 1 .. Len(ext) : \E m \in DOMAIN media[i].ext : ext[k] = media[i].ext[m]
    BY OfferExtensionsFit
  <1>2. DOMAIN ext = 1 .. Len(ext) /\ Len(ext) \in Nat
    <2> HIDE DEF ext
    <2> QED  BY <1>1
  <1>3. shared \in Seq(V) /\ \A k \in 1 .. Len(shared) : \E n \in 1 .. Len(uris) : n \in places /\ shared[k] = uris[n]
    <2> HIDE DEF places
    <2> QED  BY KeptAreOfIt
  <1>4. made = [n \in DOMAIN shared |-> [id |-> OfferId(ext, shared[n]), uri |-> shared[n]]]
    BY DEF Extensions
  <1>5. j \in DOMAIN shared
    <2> HIDE DEF shared, ext
    <2> QED  BY <1>4
  <1>6. made[j] = [id |-> OfferId(ext, u), uri |-> u]
    <2> HIDE DEF shared, ext
    <2> QED  BY <1>4, <1>5
  <1>7. PICK n \in 1 .. Len(uris) : n \in places /\ u = uris[n]
    <2> HIDE DEF shared, places
    <2> QED  BY <1>3, <1>5
  <1>8. u # MidUri /\ \E m \in DOMAIN ext : ext[m].uri = u
    <2> HIDE DEF shared, ext
    <2> QED  BY <1>7
  <1> HIDE DEF u, shared, places, ext
  <1> DEFINE P == {m \in DOMAIN ext : ext[m].uri = u}
  <1>9. \E m \in DOMAIN ext : ext[m].uri = u /\ \A l \in DOMAIN ext : ext[l].uri = u => l <= m
    <2>1. PICK m \in 1 .. Len(ext) : m \in P
      BY <1>2, <1>8
    <2> HIDE DEF P
    <2>2. PICK k \in 1 .. Len(ext) : k \in P /\ \A l \in 1 .. Len(ext) : l \in P => l <= k
      BY <1>2, <2>1, LastOne
    <2> QED  BY <1>2, <2>2 DEF P
  <1> DEFINE last == CHOOSE m \in DOMAIN ext : ext[m].uri = u /\ \A l \in DOMAIN ext : ext[l].uri = u => l <= m
  <1>10. last \in DOMAIN ext /\ ext[last].uri = u
    BY <1>9
  <1>11. OfferId(ext, u) = ext[last].id
    BY DEF OfferId
  <1> HIDE DEF last
  <1>12. PICK k \in DOMAIN media[i].ext : ext[last] = media[i].ext[k]
    BY <1>1, <1>2, <1>10
  <1>13. media[i].ext[k] = [id |-> media[i].ext[k].id, uri |-> media[i].ext[k].uri]
    BY DEF Fits
  <1>14. made[j] = media[i].ext[k]
    BY <1>6, <1>10, <1>11, <1>12, <1>13
  <1>15. made[j].uri = u
    BY <1>6
  <1> QED  BY <1>7, <1>8, <1>14, <1>15 DEF Proper

\* What ReplyAssumption says of one capability block.
Able(block) ==
    /\ IsSeq(block.uris) /\ IsSeq(block.codecs)
    /\ \A j \in DOMAIN block.codecs :
          /\ {"pt", "feedback"} \subseteq DOMAIN block.codecs[j]
          /\ IsSeq(block.codecs[j].feedback) /\ block.codecs[j].pt \in Nat
          /\ \A k \in DOMAIN block.codecs : block.codecs[j].pt = block.codecs[k].pt => j = k

LEMMA RepliesAble ==
    \A c \in Cases : \A g \in 1 .. Gateways : \A i \in DOMAIN Parse(c.offer).media :
        Able(Selected(c.replies[g].caps)[Parse(c.offer).media[i].kind])
  BY ReplyAssumption DEF Able

\* Feedback without transport-cc and without duplicates.
Clean(feedback) ==
    \A k \in DOMAIN feedback :
        /\ feedback[k] # "transport-cc"
        /\ \A l \in 1 .. k - 1 : feedback[l] # feedback[k]

LEMMA FeedbackIsClean ==
    ASSUME NEW feedback, IsSeq(feedback)
    PROVE  Clean(Distinct(Without(feedback, "transport-cc")))
  <1> DEFINE T == {feedback[i] : i \in DOMAIN feedback}
             w == Without(feedback, "transport-cc")
             d == Distinct(w)
  <1>1. feedback \in Seq(T)
    BY DEF IsSeq
  <1> HIDE DEF T
  <1>2. w \in Seq(T) /\ \A k \in 1 .. Len(w) : w[k] # "transport-cc"
    BY <1>1, WithoutHolds
  <1> HIDE DEF w
  <1>3. /\ d \in Seq(T)
        /\ \A k \in 1 .. Len(d) : \E i \in 1 .. Len(w) : d[k] = w[i]
        /\ \A k \in 1 .. Len(d) : \A l \in 1 .. k - 1 : d[l] # d[k]
    BY <1>2, DistinctHolds
  <1> HIDE DEF d
  <1>4. DOMAIN d = 1 .. Len(d)
    BY <1>3
  <1>5. Clean(d)
    BY <1>2, <1>3, <1>4 DEF Clean
  <1> QED  BY <1>5 DEF d, w

LEMMA StrippedHolds ==
    ASSUME NEW block, Able(block), NEW s, s = Stripped(block)
    PROVE  /\ IsSeq(s.codecs) /\ DOMAIN s.codecs = DOMAIN block.codecs
           /\ \A j \in DOMAIN s.codecs :
                 s.codecs[j].pt = block.codecs[j].pt /\ Clean(s.codecs[j].feedback)
           /\ \E V : s.uris \in Seq(V) /\ \A k \in 1 .. Len(s.uris) : s.uris[k] # TwccUri
  <1> DEFINE codecs == block.codecs
             new    == [i \in DOMAIN codecs |->
                          [codecs[i] EXCEPT !.feedback = Distinct(Without(@, "transport-cc"))]]
             left   == Without(block.uris, TwccUri)
  <1>1. s.codecs = new /\ s.uris = left
    BY DEF Stripped
  <1>2. DOMAIN codecs = 1 .. Len(codecs) /\ Len(codecs) \in Nat
    BY DomainOfSeq DEF Able
  <1>3. IsSeq(new)
    <2> DEFINE T == {new[i] : i \in DOMAIN new}
    <2>1. new \in Seq(T)
      <3> HIDE DEF codecs
      <3>1. DOMAIN new = 1 .. Len(codecs)
        BY <1>2
      <3>2. new = [i \in 1 .. Len(codecs) |-> new[i]]
        BY <1>2
      <3> HIDE DEF new
      <3> QED  BY <1>2, <3>1, <3>2
    <2> HIDE DEF new
    <2> QED  BY <2>1 DEF IsSeq
  <1>4. ASSUME NEW j \in DOMAIN codecs
        PROVE  new[j].pt = codecs[j].pt /\ Clean(new[j].feedback)
    <2> DEFINE r == codecs[j]
               f == Distinct(Without(r.feedback, "transport-cc"))
    <2>1. {"pt", "feedback"} \subseteq DOMAIN r /\ IsSeq(r.feedback)
      BY DEF Able
    <2>2. new[j] = [r EXCEPT !.feedback = f]
      OBVIOUS
    <2>3. Clean(f)
      BY <2>1, FeedbackIsClean
    <2> HIDE DEF r, f, new
    <2>4. new[j].pt = r.pt /\ new[j].feedback = f
      BY <2>1, <2>2
    <2> QED  BY <2>3, <2>4 DEF r
  <1>5. \E V : left \in Seq(V) /\ \A k \in 1 .. Len(left) : left[k] # TwccUri
    <2> DEFINE V == {block.uris[i] : i \in DOMAIN block.uris}
    <2>1. block.uris \in Seq(V)
      BY DEF Able, IsSeq
    <2> HIDE DEF V
    <2>2. left \in Seq(V) /\ \A k \in 1 .. Len(left) : left[k] # TwccUri
      BY <2>1, WithoutHolds
    <2> QED  BY <2>2
  <1>6. DOMAIN new = DOMAIN codecs
    OBVIOUS
  <1> HIDE DEF new, left, codecs
  <1>7. \A j \in DOMAIN new : new[j].pt = codecs[j].pt /\ Clean(new[j].feedback)
    BY <1>4, <1>6
  <1> QED  BY <1>1, <1>3, <1>5, <1>6, <1>7 DEF codecs

\* Codecs are narrowed to the one with the payload type, if it is among them.
LEMMA NarrowedHolds ==
    ASSUME NEW codecs, IsSeq(codecs), NEW p, NEW n, n = Narrowed(codecs, p),
           \A i, j \in DOMAIN codecs : codecs[i].pt = codecs[j].pt => i = j
    PROVE  /\ \A k \in DOMAIN n : \E i \in DOMAIN codecs : n[k] = codecs[i]
           /\ \/ n = codecs
              \/ /\ DOMAIN n = {1} /\ n # <<>> /\ n[1].pt = p
                 /\ \E i \in DOMAIN codecs : codecs[i].pt = p
  <1> DEFINE T        == {codecs[i] : i \in DOMAIN codecs}
             places   == {i \in DOMAIN codecs : codecs[i].pt = p}
             matching == Keep(codecs, places)
  <1>1. DOMAIN codecs = 1 .. Len(codecs) /\ codecs \in Seq(T)
    BY DomainOfSeq DEF IsSeq
  <1>2. n = IF matching # <<>> THEN matching ELSE codecs
    BY DEF Narrowed
  <1>3. CASE matching # <<>>
    <2>1. n = matching
      BY <1>2, <1>3
    <2>2. n \in Seq(T) /\ \E at : Holds(n, at, codecs, Len(codecs), places)
      <3> HIDE DEF T, places
      <3> QED  BY <1>1, <2>1, KeepHolds
    <2>3. PICK at : Holds(n, at, codecs, Len(codecs), places)
      BY <2>2
    <2> HIDE DEF T, matching
    <2>4. \A k \in 1 .. Len(n) : at[k] \in DOMAIN codecs /\ codecs[at[k]].pt = p /\ n[k] = codecs[at[k]]
      BY <1>1, <2>3 DEF Holds
    <2>5. n # <<>> /\ Len(n) \in Nat /\ DOMAIN n = 1 .. Len(n) /\ 1 \in 1 .. Len(n)
      BY <1>3, <2>1, <2>2
    <2>6. \A k \in 1 .. Len(n) : k # 1 => 1 < k
      OBVIOUS
    <2>7. \A k \in 1 .. Len(n) : k # 1 => at[1] < at[k]
      BY <2>3, <2>5, <2>6 DEF Holds
    <2>8. \A k \in 1 .. Len(n) : at[k] = at[1] /\ at[k] \in Nat
      <3>1. \A k \in 1 .. Len(n) : at[k] = at[1]
        BY <2>4, <2>5
      <3>2. \A k \in 1 .. Len(n) : at[k] \in Nat
        BY <2>3 DEF Holds
      <3> QED  BY <3>1, <3>2
    <2>9. \A k \in 1 .. Len(n) : k = 1
      BY <2>5, <2>7, <2>8
    <2>10. DOMAIN n = {1}
      BY <2>5, <2>9
    <2> QED  BY <2>4, <2>5, <2>10
  <1>4. CASE matching = <<>>
    BY <1>2, <1>4
  <1> QED  BY <1>3, <1>4

\* The media of a section: the codecs of the gateway, or for video the publisher's alone.
LEMMA SectionCodecs ==
    ASSUME NEW all, Fits(all), NEW i \in DOMAIN all, NEW caps, NEW block, block = caps[all[i].kind],
           Able(block), NEW declared, declared # None, declared.pt \in Nat \cup {None},
           NEW sec, sec = AnswerSection(all, i, caps, declared)
    PROVE  /\ \A j \in DOMAIN sec.codecs : Clean(sec.codecs[j].feedback)
           /\ sec.ssrc = IF sec.kind = "video" THEN declared.ssrc ELSE None
           /\ block.codecs # <<>> => sec.codecs # <<>>
           /\ \/ sec.payloads = <<declared.pt>> /\ declared.pt # None
              \/ Len(sec.codecs) = Len(block.codecs)
  <1> DEFINE s      == Stripped(block)
             video  == all[i].kind = "video"
             codecs == IF video /\ declared # None THEN Narrowed(s.codecs, declared.pt) ELSE s.codecs
  <1>1. /\ sec.kind = all[i].kind /\ sec.codecs = codecs
        /\ sec.payloads = IF codecs = <<>> THEN all[i].payloads
                          ELSE [j \in DOMAIN codecs |-> codecs[j].pt]
        /\ sec.ssrc = IF video /\ declared # None THEN declared.ssrc ELSE None
    BY DEF AnswerSection
  <1>2. /\ IsSeq(s.codecs) /\ DOMAIN s.codecs = DOMAIN block.codecs
        /\ \A j \in DOMAIN s.codecs :
              s.codecs[j].pt = block.codecs[j].pt /\ Clean(s.codecs[j].feedback)
    BY StrippedHolds
  <1>3. /\ \A j \in DOMAIN block.codecs : block.codecs[j].pt \in Nat
        /\ \A j, k \in DOMAIN block.codecs : block.codecs[j].pt = block.codecs[k].pt => j = k
        /\ IsSeq(block.codecs)
    BY DEF Able
  <1> HIDE DEF s
  <1>4. \A j, k \in DOMAIN s.codecs : s.codecs[j].pt = s.codecs[k].pt => j = k
    BY <1>2, <1>3
  <1>5. /\ \A k \in DOMAIN codecs : \E j \in DOMAIN s.codecs : codecs[k] = s.codecs[j]
        /\ \/ codecs = s.codecs
           \/ /\ DOMAIN codecs = {1} /\ codecs # <<>> /\ codecs[1].pt = declared.pt
              /\ \E j \in DOMAIN s.codecs : s.codecs[j].pt = declared.pt
    <2>1. CASE video
      <3>1. codecs = Narrowed(s.codecs, declared.pt)
        BY <2>1
      <3> HIDE DEF codecs
      <3> QED  BY <1>2, <1>4, <3>1, NarrowedHolds
    <2>2. CASE ~video
      <3>1. codecs = s.codecs
        BY <2>2
      <3> HIDE DEF codecs
      <3> QED  BY <3>1
    <2> QED  BY <2>1, <2>2
  <1>6. sec.ssrc = IF sec.kind = "video" THEN declared.ssrc ELSE None
    BY <1>1
  <1> HIDE DEF codecs
  <1>7. \A j \in DOMAIN sec.codecs : Clean(sec.codecs[j].feedback)
    BY <1>1, <1>2, <1>5
  <1>8. Len(s.codecs) = Len(block.codecs) /\ (block.codecs # <<>> => s.codecs # <<>>)
    <2> DEFINE a == s.codecs
               b == block.codecs
    <2>1. /\ DOMAIN a = 1 .. Len(a) /\ DOMAIN b = 1 .. Len(b)
          /\ Len(a) \in Nat /\ Len(b) \in Nat /\ DOMAIN a = DOMAIN b
      BY <1>2, <1>3, DomainOfSeq
    <2>2. a \in Seq({a[j] : j \in DOMAIN a}) /\ b \in Seq({b[j] : j \in DOMAIN b})
      BY <1>2, <1>3 DEF IsSeq
    <2> DEFINE A == {a[j] : j \in DOMAIN a}
               B == {b[j] : j \in DOMAIN b}
    <2>3. a \in Seq(A) /\ b \in Seq(B)
      BY <2>2
    <2> HIDE DEF a, b, A, B
    <2>4. \A m, n \in Nat : 1 .. m = 1 .. n => m = n
      <3> SUFFICES ASSUME NEW m \in Nat, NEW n \in Nat, 1 .. m = 1 .. n, m # n PROVE FALSE
        OBVIOUS
      <3>1. m \in 1 .. m \/ m = 0
        OBVIOUS
      <3>2. n \in 1 .. n \/ n = 0
        OBVIOUS
      <3>3. (m \in 1 .. m <=> m \in 1 .. n) /\ (n \in 1 .. n <=> n \in 1 .. m)
        OBVIOUS
      <3> QED  BY <3>1, <3>2, <3>3
    <2>5. Len(a) = Len(b)
      BY <2>1, <2>4
    <2>6. (b # <<>> => Len(b) # 0) /\ (a = <<>> => Len(a) = 0)
      BY <2>3
    <2> QED  BY <2>5, <2>6 DEF a, b
  <1>9. block.codecs # <<>> => sec.codecs # <<>>
    BY <1>1, <1>5, <1>8
  <1>10. \/ sec.payloads = <<declared.pt>> /\ declared.pt # None
         \/ Len(sec.codecs) = Len(block.codecs)
    <2>1. CASE codecs = s.codecs
      BY <1>1, <1>8, <2>1
    <2>2. CASE /\ DOMAIN codecs = {1} /\ codecs # <<>> /\ codecs[1].pt = declared.pt
               /\ \E j \in DOMAIN s.codecs : s.codecs[j].pt = declared.pt
      <3>1. declared.pt # None
        BY <1>2, <1>3, <2>2, SignalingAssumption
      <3>2. sec.payloads = [j \in {1} |-> codecs[j].pt]
        BY <1>1, <2>2
      <3>3. [j \in {1} |-> codecs[j].pt] = [j \in {1} |-> declared.pt]
        BY <2>2
      <3>4. \A x : [j \in {1} |-> x] = <<x>>
        OBVIOUS
      <3> QED  BY <3>1, <3>2, <3>3, <3>4
    <2> QED  BY <1>5, <2>1, <2>2
  <1> QED  BY <1>6, <1>7, <1>9, <1>10

\* The sections of the answer that was given.
SectionsFrom(c, g, p) ==
    /\ offer = Parse(c.offer) /\ Reply = c.replies[g]
    /\ answer.ssrc \in Ssrcs /\ answer.ssrc \in used
    /\ sdp.sections = [i \in DOMAIN offer.media |->
                         AnswerSection(offer.media, i, Selected(c.replies[g].caps),
                                       [ssrc |-> answer.ssrc, pt |-> p])]

LEMMA AnswerSections ==
    ASSUME SourceInv, sdp # None
    PROVE  \E c \in Cases, g \in 1 .. Gateways, p \in {None, Pt[answer.ssrc]} : SectionsFrom(c, g, p)
  <1>1. PICK c \in Cases : \E b \in c.bodies, g \in 1 .. Gateways, p \in {None, Pt[answer.ssrc]} :
            MadeFrom(c, b, g, p)
    BY AnswerParts
  <1>2. PICK b \in c.bodies, g \in 1 .. Gateways, p \in {None, Pt[answer.ssrc]} :
            MadeFrom(c, b, g, p)
    BY <1>1
  <1>3. SectionsFrom(c, g, p)
    BY <1>2 DEF MadeFrom, SectionsFrom, Answer
  <1> QED  BY <1>3

\* One section of it: where its parts come from, and what is known of those.
LEMMA OneSection ==
    ASSUME SourceInv, sdp # None,
           NEW c \in Cases, NEW g \in 1 .. Gateways, NEW p \in {None, Pt[answer.ssrc]},
           SectionsFrom(c, g, p), NEW i \in DOMAIN sdp.sections,
           NEW media, media = offer.media, NEW caps, caps = Selected(Reply.caps),
           NEW str, str = [ssrc |-> answer.ssrc, pt |-> p]
    PROVE  /\ DOMAIN sdp.sections = DOMAIN media
           /\ sdp.sections[i] = AnswerSection(media, i, caps, str)
           /\ Fits(media) /\ Able(caps[media[i].kind]) /\ caps.video.codecs # <<>>
           /\ str # None /\ str.pt \in Nat \cup {None} /\ str.ssrc = answer.ssrc
           /\ str.pt # None => str.pt = Pt[answer.ssrc]
  <1>1. /\ offer = Parse(c.offer) /\ caps = Selected(c.replies[g].caps) /\ answer.ssrc \in Ssrcs
        /\ sdp.sections = [n \in DOMAIN media |-> AnswerSection(media, n, caps, str)]
    BY DEF SectionsFrom
  <1>2. DOMAIN sdp.sections = DOMAIN media /\ sdp.sections[i] = AnswerSection(media, i, caps, str)
    BY <1>1
  <1>3. Fits(media) /\ Able(caps[media[i].kind])
    BY <1>1, <1>2, OffersFit, RepliesAble
  <1>4. caps.video.codecs # <<>>
    <2>1. Selected(c.replies[g].caps).video.codecs # <<>>
      BY ReplyAssumption
    <2> QED  BY <1>1, <2>1
  <1>5. /\ str # None /\ str.pt \in Nat \cup {None} /\ str.ssrc = answer.ssrc
        /\ str.pt # None => str.pt = Pt[answer.ssrc]
    BY <1>1, NegotiationAssumption
  <1> QED  BY <1>2, <1>3, <1>4, <1>5

\* The SSRC and the payload type of an answer are of one stream, one the publisher has
\* sent, whatever messages told of it and in what order; and a section that is narrowed
\* still has its codec.
THEOREM AnswerIsOneStream == NegSpec => []MediaIsOneStream
  <1>1. SourceInv => MediaIsOneStream
    <2> SUFFICES ASSUME SourceInv, sdp # None, NEW i \in DOMAIN sdp.sections
                 PROVE  IF sdp.sections[i].kind # "video" THEN sdp.sections[i].ssrc = None
                        ELSE /\ sdp.sections[i].ssrc \in used /\ sdp.sections[i].codecs # <<>>
                             /\ \/ sdp.sections[i].payloads = <<Pt[sdp.sections[i].ssrc]>>
                                \/ Len(sdp.sections[i].codecs) = Len(Selected(Reply.caps).video.codecs)
      BY DEF MediaIsOneStream
    <2>1. PICK c \in Cases, g \in 1 .. Gateways, p \in {None, Pt[answer.ssrc]} : SectionsFrom(c, g, p)
      BY AnswerSections
    <2> DEFINE media == offer.media
               caps  == Selected(Reply.caps)
               str   == [ssrc |-> answer.ssrc, pt |-> p]
               block == caps[media[i].kind]
               sec   == sdp.sections[i]
    <2> HIDE DEF media, caps, str
    <2>2. /\ DOMAIN sdp.sections = DOMAIN media /\ sec = AnswerSection(media, i, caps, str)
          /\ Fits(media) /\ Able(block) /\ caps.video.codecs # <<>>
          /\ str # None /\ str.pt \in Nat \cup {None} /\ str.ssrc = answer.ssrc
          /\ str.pt # None => str.pt = Pt[answer.ssrc]
      BY <2>1, OneSection DEF media, caps, str
    <2> HIDE DEF sec
    <2>3. /\ sec.ssrc = IF sec.kind = "video" THEN str.ssrc ELSE None
          /\ block.codecs # <<>> => sec.codecs # <<>>
          /\ \/ sec.payloads = <<str.pt>> /\ str.pt # None
             \/ Len(sec.codecs) = Len(block.codecs)
      <3>1. i \in DOMAIN media
        BY <2>2
      <3> HIDE DEF block
      <3> QED  BY <2>2, <3>1, SectionCodecs DEF block
    <2>4. CASE sec.kind # "video"
      BY <2>3, <2>4 DEF sec
    <2>5. CASE sec.kind = "video"
      <3>1. block = caps.video
        BY <2>2, <2>5 DEF AnswerSection
      <3>2. sec.ssrc = answer.ssrc /\ sec.codecs # <<>>
        BY <2>2, <2>3, <2>5, <3>1
      <3>3. sec.payloads = <<Pt[sec.ssrc]>> \/ Len(sec.codecs) = Len(caps.video.codecs)
        BY <2>2, <2>3, <3>1, <3>2
      <3>4. answer.ssrc \in used
        BY <2>1 DEF SectionsFrom
      <3> QED  BY <2>5, <3>2, <3>3, <3>4 DEF sec, caps
    <2> QED  BY <2>4, <2>5
  <1> QED  BY <1>1, SourceInvariant, PTL

\* What AnswerFitsOffer says of one section.
SectionFits(section, offered) ==
    /\ section.kind = offered.kind /\ section.mid = offered.mid
    /\ Opens(section.direction) \subseteq Offers(offered.direction)
    /\ offered.direction # None => Offers(offered.direction) \subseteq Opens(section.direction)
    /\ \A side \in Opens(section.direction) : \A j \in DOMAIN offered.rtp :
          \E k \in DOMAIN Capability(offer.media, side, offered.kind) :
              Capability(offer.media, side, offered.kind)[k] = offered.rtp[j]
    /\ \A j \in DOMAIN section.ext :
          /\ \E k \in DOMAIN offered.ext : section.ext[j] = offered.ext[k]
          /\ section.ext[j].uri \notin {MidUri, TwccUri}
    /\ \A j \in DOMAIN section.codecs : Clean(section.codecs[j].feedback)

\* The answer has the sections of the offer with their mids, directions that open what
\* the offer leaves open, and extensions under their offered numbers, without the MID
\* extension and without anything of transport-cc; and for each side a section opens the
\* gateway was told every codec the offer has for it.
THEOREM AnswerFits == NegSpec => []AnswerFitsOffer
  <1>1. SourceInv => AnswerFitsOffer
    <2> SUFFICES ASSUME SourceInv, sdp # None
                 PROVE  AnswerFitsOffer
      BY DEF AnswerFitsOffer
    <2>1. PICK c \in Cases, g \in 1 .. Gateways, p \in {None, Pt[answer.ssrc]} : SectionsFrom(c, g, p)
      BY AnswerSections
    <2>2. DOMAIN sdp.sections = DOMAIN offer.media
      BY <2>1 DEF SectionsFrom
    <2> DEFINE media == offer.media
               caps  == Selected(Reply.caps)
               str   == [ssrc |-> answer.ssrc, pt |-> p]
    <2> HIDE DEF media, caps, str
    <2>3. ASSUME NEW i \in DOMAIN media,
                 NEW sec, sec = sdp.sections[i], NEW offered, offered = media[i]
          PROVE  SectionFits(sec, offered)
      <3> DEFINE block == caps[offered.kind]
                 ext   == OfferExtensions(media, offered.kind)
                 uris  == Stripped(block).uris
      <3>1. i \in DOMAIN sdp.sections
        BY <2>2, <2>3 DEF media
      <3>2. /\ sec = AnswerSection(media, i, caps, str) /\ Fits(media) /\ Able(block)
            /\ str # None /\ str.pt \in Nat \cup {None}
        BY <2>1, <2>3, <3>1, OneSection DEF media, caps, str
      <3>3. /\ sec.kind = offered.kind
            /\ sec.mid = IF offered.mid = None THEN i - 1 ELSE offered.mid
            /\ sec.direction = AnswerDirection(IF offered.direction = None THEN "sendonly"
                                               ELSE offered.direction)
            /\ sec.ext = Extensions(ext, uris)
        BY <2>3, <3>2 DEF AnswerSection
      <3>4. offered.mid # None
        BY <2>3, <3>2 DEF Fits
      <3>5. /\ Opens(sec.direction) \subseteq Offers(offered.direction)
            /\ offered.direction # None => Offers(offered.direction) \subseteq Opens(sec.direction)
            /\ Opens(sec.direction) \subseteq Side(offered.direction)
        <4>1. CASE offered.direction = None
          <5>1. sec.direction = "recvonly"
            BY <3>3, <4>1 DEF AnswerDirection
          <5> QED  BY <4>1, <5>1, DirectionAssumption DEF Opens, Offers, Side
        <4>2. CASE offered.direction # None
          <5>1. sec.direction = AnswerDirection(offered.direction)
            BY <3>3, <4>2
          <5>2. CASE offered.direction \in {"sendonly", "recvonly", "sendrecv"}
            BY <4>2, <5>1, <5>2 DEF AnswerDirection, Opens, Offers, Side
          <5>3. CASE offered.direction \notin {"sendonly", "recvonly", "sendrecv"}
            <6>1. sec.direction = "inactive"
              BY <5>1, <5>3 DEF AnswerDirection
            <6> QED  BY <4>2, <5>3, <6>1 DEF Opens, Offers
          <5> QED  BY <5>2, <5>3
        <4> QED  BY <4>1, <4>2
      <3>6. \A side \in Opens(sec.direction) : side \in Side(offered.direction)
        BY <3>5
      <3>7. ASSUME NEW side \in Opens(sec.direction), NEW j \in DOMAIN offered.rtp
            PROVE  \E k \in DOMAIN Capability(media, side, offered.kind) :
                       Capability(media, side, offered.kind)[k] = offered.rtp[j]
        <4>1. side \in Side(media[i].direction)
          BY <2>3, <3>6
        <4> QED  BY <2>3, <3>2, <4>1, CapabilityTells
      <3>8. PICK V : uris \in Seq(V) /\ \A k \in 1 .. Len(uris) : uris[k] # TwccUri
        <4> HIDE DEF block
        <4> QED  BY <3>2, StrippedHolds
      <3>9. ASSUME NEW j \in DOMAIN sec.ext
            PROVE  /\ \E k \in DOMAIN offered.ext : sec.ext[j] = offered.ext[k]
                   /\ sec.ext[j].uri \notin {MidUri, TwccUri}
        <4> DEFINE made == sec.ext
        <4>1. made = Extensions(OfferExtensions(media, media[i].kind), uris)
          BY <2>3, <3>3
        <4> HIDE DEF uris, made
        <4>2. Proper(made[j], media[i], uris)
          <5>1. j \in DOMAIN made
            BY DEF made
          <5>2. Fits(media) /\ uris \in Seq(V)
            BY <3>2, <3>8
          <5> QED  BY <4>1, <5>1, <5>2, ExtensionsFit
        <4> QED  BY <2>3, <3>8, <4>2 DEF made, Proper
      <3>10. \A j \in DOMAIN sec.codecs : Clean(sec.codecs[j].feedback)
        <4>1. block = caps[media[i].kind]
          BY <2>3
        <4> HIDE DEF block
        <4> QED  BY <3>2, <4>1, SectionCodecs
      <3> QED  BY <3>3, <3>4, <3>5, <3>7, <3>9, <3>10 DEF SectionFits, media
    <2>4. \A i \in DOMAIN offer.media : SectionFits(sdp.sections[i], offer.media[i])
      BY <2>3 DEF media
    <2> QED  BY <2>2, <2>4, Zenon DEF AnswerFitsOffer, SectionFits, Clean
  <1> QED  BY <1>1, SourceInvariant, PTL
=============================================================================
