---------------------------- MODULE Negotiation ----------------------------
(***************************************************************************)
(* From the choose-server call to the answer (refresh_agora_context,       *)
(* AgoraAPIClient, connect_and_join): AgoraSignaling joins through the     *)
(* gateways and decides when the answer is made; AgoraAnswer says what is  *)
(* in it, from the response of the API, the offer, the reply of a gateway  *)
(* and what is known of the publisher's stream by then.                    *)
(***************************************************************************)
EXTENDS AgoraSignaling

CONSTANTS
    MidUri, TwccUri,    \* the two header extensions the code treats apart
    Domains,    \* API domains: WEBCS_DOMAIN and WEBCS_DOMAIN_BACKUP
    Cases,      \* bound: an offer, the bodies the API may respond with, and what each
                \* gateway replies
    Pt          \* the payload type the publisher uses with an SSRC

INSTANCE AgoraAnswer

\* No direction is None.
ASSUME DirectionAssumption == None \notin {"sendonly", "recvonly", "sendrecv"}

\* A usable response lists the gateways; every reply comes with a fingerprint, its
\* own or one of the response.
ASSUME NegotiationAssumption ==
    /\ Domains \in Nat \ {0} /\ Pt \in [Ssrcs -> Nat]
    /\ None \notin [ssrc : Ssrcs, pt : Nat \cup {None}]
    /\ \A c \in Cases : DOMAIN c.replies = 1 .. Gateways
    /\ \A c \in Cases : \A body \in c.bodies : Usable(body) =>
           /\ Len(JoinAddresses(body)) = Gateways
           /\ \A g \in 1 .. Gateways :
                  WithGateways(c.replies[g].prints, JoinAddresses(body)) # <<>>

IsSeq(s) == s \in Seq({s[i] : i \in DOMAIN s})

\* The fingerprints a response states are, in their order, those of its first edges.
ASSUME ResponseAssumption ==
    \A c \in Cases : \A body \in c.bodies :
        /\ IsSeq(body)
        /\ \A i \in DOMAIN body :
              LET stated == Without(body[i].prints, None) IN
              /\ IsSeq(body[i].edges)
              /\ \A j \in DOMAIN stated :
                    j \in DOMAIN body[i].edges /\ stated[j] = body[i].edges[j].host

\* The relay has one transceiver of each kind, and aiortc gives every section a mid
\* (aiortc_relay.py:351-352).
ASSUME OfferAssumption ==
    \A c \in Cases :
        LET media == Parse(c.offer).media IN
        /\ IsSeq(media)
        /\ \A i, j \in DOMAIN media : media[i].kind = media[j].kind => i = j
        /\ \A i \in DOMAIN media :
              /\ media[i].mid # None /\ IsSeq(media[i].rtp) /\ IsSeq(media[i].ext)
              /\ \A j \in DOMAIN media[i].ext :
                    media[i].ext[j] = [id |-> media[i].ext[j].id, uri |-> media[i].ext[j].uri]

\* A gateway numbers its codecs apart, and it can handle video.
ASSUME ReplyAssumption ==
    \A c \in Cases : \A g \in 1 .. Gateways :
        LET caps == Selected(c.replies[g].caps) IN
        /\ IsSeq(c.replies[g].prints) /\ caps.video.codecs # <<>>
        /\ \A i \in DOMAIN Parse(c.offer).media :
              LET block == caps[Parse(c.offer).media[i].kind] IN
              /\ IsSeq(block.uris) /\ IsSeq(block.codecs)
              /\ \A j \in DOMAIN block.codecs :
                    /\ {"pt", "feedback"} \subseteq DOMAIN block.codecs[j]
                    /\ IsSeq(block.codecs[j].feedback) /\ block.codecs[j].pt \in Nat
                    /\ \A k \in DOMAIN block.codecs :
                          block.codecs[j].pt = block.codecs[k].pt => j = k

VARIABLES
    domain,     \* the API domain asked, or None once that is over
    addresses,  \* the gateway addresses of its response, or None
    offer,      \* the parsed offer
    world,      \* what the API may respond and each gateway replies in this run
    pt,         \* _video_streams: payload type of the publisher's stream, or None
    sdp         \* history: the answer connect_and_join returned

negVars == <<vars, domain, addresses, offer, world, pt, sdp>>

NegInit ==
    /\ Init /\ domain = 1 /\ addresses = None /\ pt = None /\ sdp = None
    /\ \E c \in Cases : offer = Parse(c.offer) /\ world = [bodies |-> c.bodies, replies |-> c.replies]

-----------------------------------------------------------------------------
(* choose_server *)

\* A response that has no successful buffer is not asked for again elsewhere.
EndpointAnswers ==
    /\ domain # None /\ domain' = None
    /\ \E b \in world.bodies :
          IF Usable(b) THEN addresses' = JoinAddresses(b) /\ UNCHANGED step
          ELSE step' = "failed" /\ UNCHANGED addresses
    /\ UNCHANGED <<network, asked, gw, arg, answer, fields, tasks, closing, offer, world,
                   pt, sdp>>

\* Another status than 200, no JSON, a connection error or ten seconds.
EndpointFails ==
    /\ domain # None
    /\ IF domain < Domains THEN domain' = domain + 1 /\ UNCHANGED step
       ELSE domain' = None /\ step' = "failed"
    /\ UNCHANGED <<network, asked, gw, arg, answer, fields, tasks, closing, addresses,
                   offer, world, pt, sdp>>

Choose == EndpointAnswers \/ EndpointFails

-----------------------------------------------------------------------------
(* The join *)

\* An announcement tells the payload type, the join response does not.
Announcing ==
    (step = "wait" \/ reader = "read") /\ NextMessage /\ Head(inbox).kind = "add"
NotePt ==
    pt' = IF stream' = None THEN None
          ELSE IF Announcing THEN Pt[stream'] ELSE pt

Made == answer' # answer /\ answer' # None

\* _primary_video_stream is looked up when the answer is made.
Answered ==
    sdp' = IF Made THEN Answer(offer, addresses, world.replies[answer'.gateway],
                               [ssrc |-> answer'.ssrc, pt |-> pt'])
           ELSE sdp

Noted ==
    /\ domain = None /\ addresses # None /\ NotePt /\ Answered
    /\ UNCHANGED <<domain, addresses, offer, world>>

Joins == Join /\ Noted
Disconnects == Disconnecting /\ Noted
Hangs == ConnectionEnds /\ Noted

NegNext == Choose \/ (Next /\ Noted)

NegSpec == NegInit /\ [][NegNext]_negVars

\* An API call and every await of the joiner return or time out, close() ends the
\* connection (its own timeout sees to that), and ready tasks run.  Nothing is assumed
\* of the gateways, the publisher and the relay.
NegFairSpec ==
    /\ NegSpec /\ WF_negVars(Choose) /\ WF_negVars(Joins) /\ WF_negVars(WaitOver /\ Noted)
    /\ WF_negVars(Disconnects) /\ WF_negVars(Closes /\ Hangs)

-----------------------------------------------------------------------------
(* Properties *)

\* The sides of the bridge that the direction of an answer opens.
Opens(direction) ==
    (IF direction \in {"sendonly", "sendrecv"} THEN {"recv"} ELSE {})
    \cup (IF direction \in {"recvonly", "sendrecv"} THEN {"send"} ELSE {})

\* The sides that the offer leaves open; one that states no direction leaves both.
Offers(direction) ==
    (IF direction \in {"sendonly", "sendrecv", None} THEN {"send"} ELSE {})
    \cup (IF direction \in {"recvonly", "sendrecv", None} THEN {"recv"} ELSE {})
Reply == world.replies[answer.gateway]

\* The answer has a section for each of the offer's, in its order and with its mids,
\* a direction that opens no side the offer keeps shut (and, if the offer states one,
\* opens every side it leaves open), extensions under the numbers the offer gave them,
\* and neither the MID extension nor anything of transport-cc, which the media servers
\* get wrong; and for each side the section opens, the gateway was told every codec the
\* offer has for it (agora_edge.py:1404-1456, 1507-1514, 1597-1612, 1680-1743; sdp.py:22-278).
AnswerFitsOffer ==
    sdp # None =>
        /\ DOMAIN sdp.sections = DOMAIN offer.media
        /\ \A i \in DOMAIN offer.media :
              LET section == sdp.sections[i]
                  offered == offer.media[i] IN
              /\ section.kind = offered.kind /\ section.mid = offered.mid
              /\ Opens(section.direction) \subseteq Offers(offered.direction)
              /\ offered.direction # None =>
                    Offers(offered.direction) \subseteq Opens(section.direction)
              /\ \A side \in Opens(section.direction) : \A j \in DOMAIN offered.rtp :
                    \E k \in DOMAIN Capability(offer.media, side, offered.kind) :
                        Capability(offer.media, side, offered.kind)[k] = offered.rtp[j]
              /\ \A j \in DOMAIN section.ext :
                    /\ \E k \in DOMAIN offered.ext : section.ext[j] = offered.ext[k]
                    /\ section.ext[j].uri \notin {MidUri, TwccUri}
              /\ \A j \in DOMAIN section.codecs :
                    \A k \in DOMAIN section.codecs[j].feedback :
                        /\ section.codecs[j].feedback[k] # "transport-cc"
                        /\ \A l \in 1 .. k - 1 :
                              section.codecs[j].feedback[l] # section.codecs[j].feedback[k]

\* The SSRC the answer declares is one the publisher has sent, the payload type it is
\* narrowed to is the one of that very SSRC, whichever messages of which gateways told
\* of them and in what order, and a narrowed section still has its codec
\* (agora_edge.py:1036-1057, 1162-1164, 1517-1525, 1709-1721).
MediaIsOneStream ==
    sdp # None =>
        \A i \in DOMAIN sdp.sections :
            LET section == sdp.sections[i] IN
            IF section.kind # "video" THEN section.ssrc = None
            ELSE /\ section.ssrc \in used /\ section.codecs # <<>>
                 /\ \/ section.payloads = <<Pt[section.ssrc]>>
                    \/ Len(section.codecs) = Len(Selected(Reply.caps).video.codecs)

\* The answer authenticates the gateway it was made for: by the fingerprint its reply
\* carries if it carries one, and else by the one the response of the API gives for a
\* gateway in the place of the first that has one (agora_edge.py:192-215, 867-892,
\* 1458-1467).
GatewayIsAuthentic ==
    sdp # None =>
        IF Reply.prints # <<>> THEN sdp.print = Head(Reply.prints)
        ELSE \E i \in 1 .. Gateways :
                /\ sdp.print = addresses[i].host
                /\ \A j \in 1 .. i - 1 : addresses[j].print = None
=============================================================================
