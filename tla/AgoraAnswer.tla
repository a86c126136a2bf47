---------------------------- MODULE AgoraAnswer ----------------------------
(***************************************************************************)
(* The values a join works with, as functions of what comes in: the        *)
(* choose-server response (AgoraResponse), the offer of the peer           *)
(* connection (SDPParser, parse_offer_to_ortc, _parse_offer_sdp), a        *)
(* gateway's ORTC parameters and the streams announced, and the answer     *)
(* made of them (src/mammotion_webrtc/agora_edge.py, sdp.py).              *)
(*                                                                         *)
(* A fingerprint is known by the gateway it belongs to, an SDP text by its *)
(* lines.  ICE credentials, codec parameters, RTX and the texts that never *)
(* vary are left out.  A definition whose name starts with Bad is a faulty *)
(* form of the next and is used by no other.                               *)
(***************************************************************************)
EXTENDS Integers, Sequences
LOCAL INSTANCE SequencesExt

CONSTANTS
    None,       \* Python's None, and an empty value
    MidUri,     \* urn:ietf:params:rtp-hdrext:sdes:mid
    TwccUri     \* _TWCC_URI

Chosen(seq, i, otherwise) == IF i \in DOMAIN seq THEN seq[i] ELSE otherwise

\* The sequences of a sequence one after the other, and the elements of a sequence at the
\* places to keep.  (As functions of the place, which proofs can reason about.)
Joined(seqs) ==
    LET joined[n \in 0 .. Len(seqs)] ==
            IF n = 0 THEN <<>> ELSE joined[n - 1] \o seqs[n]
    IN  joined[Len(seqs)]
Keep(seq, places) ==
    LET kept[n \in 0 .. Len(seq)] ==
            IF n = 0 THEN <<>>
            ELSE kept[n - 1] \o (IF n \in places THEN <<seq[n]>> ELSE <<>>)
    IN  kept[Len(seq)]

Without(seq, x) == Keep(seq, {i \in DOMAIN seq : seq[i] # x})

-----------------------------------------------------------------------------
(* The choose-server response: a sequence of buffers, each with a code, a  *)
(* flag, a ticket, edges (host; valid if it has an ip and a port) and a    *)
(* list of fingerprints in which entries may be empty.                     *)

Successful(body) == Keep(body, {i \in DOMAIN body : body[i].code = 0})
OfFlag(body, flag) ==
    Keep(Successful(body), {i \in DOMAIN Successful(body) : Successful(body)[i].flag = flag})

\* A buffer replaces an earlier one with its flag.
Buffer(body, flag) == LET bs == OfFlag(body, flag) IN bs[Len(bs)]

\* from_api_response fails if no buffer was successful.
Usable(body) == Successful(body) # <<>>

\* The gateway's buffer if there is one, else that of the flag seen first.
Primary(body) ==
    Buffer(body, IF OfFlag(body, "gateway") # <<>> THEN "gateway"
                 ELSE Head(Successful(body)).flag)

\* Each edge gets the fingerprint of its place; then invalid edges are dropped.
BadAddresses(buffer) ==
    LET prints == Without(buffer.prints, None)
        edges  == Keep(buffer.edges, {i \in DOMAIN buffer.edges : buffer.edges[i].valid})
    IN  [i \in DOMAIN edges |-> [host |-> edges[i].host, print |-> Chosen(prints, i, None)]]
Addresses(buffer) ==
    LET prints == Without(buffer.prints, None)
        all    == [i \in DOMAIN buffer.edges |->
                      [host |-> buffer.edges[i].host, print |-> Chosen(prints, i, None)]]
    IN  Keep(all, {i \in DOMAIN buffer.edges : buffer.edges[i].valid})

\* get_gateway_addresses() or addresses: without the gateway's buffer the addresses
\* of the primary one are tried.
JoinAddresses(body) == Addresses(Primary(body))

-----------------------------------------------------------------------------
(* The offer: a sequence of lines. *)

Section(kind, payloads) ==
    [kind |-> kind, payloads |-> payloads, direction |-> None, mid |-> None,
     rtp |-> <<>>, ext |-> <<>>]

\* What SDPParser.parse has after one more line: an attribute belongs to the section
\* opened last; aiortc states these attributes section by section.
ParseLine(parsed, line) ==
    LET n == Len(parsed.media) IN
    CASE line.type = "media" ->
             [parsed EXCEPT !.media = Append(@, Section(line.kind, line.payloads))]
      [] line.type = "group" -> [parsed EXCEPT !.groups = Append(@, line.mids)]
      [] line.type = "extmap-allow-mixed" -> [parsed EXCEPT !.mixed = TRUE]
      [] line.type = "direction" -> [parsed EXCEPT !.media[n].direction = line.value]
      [] line.type = "mid" -> [parsed EXCEPT !.media[n].mid = line.value]
      [] line.type = "rtpmap" ->
             [parsed EXCEPT !.media[n].rtp = Append(@, [pt |-> line.pt, codec |-> line.codec])]
      [] line.type = "extmap" ->
             [parsed EXCEPT !.media[n].ext = Append(@, [id |-> line.id, uri |-> line.uri])]

Parse(lines) ==
    FoldLeft(ParseLine, [media |-> <<>>, groups |-> <<>>, mixed |-> FALSE], lines)

\* parse_offer_to_ortc: the codecs the gateway is told the bridge can send or receive.
\* A section without a direction is one of both (sdp.py:211).
BadSide(direction) ==
    CASE direction = "sendonly" -> {"recv"} [] direction = "recvonly" -> {"send"}
      [] OTHER -> {"send", "recv"}
Side(direction) ==
    CASE direction = "sendonly" -> {"send"} [] direction = "recvonly" -> {"recv"}
      [] OTHER -> {"send", "recv"}
Capability(media, side, kind) ==
    Joined([i \in DOMAIN media |->
        IF side \in Side(media[i].direction) /\ media[i].kind = kind THEN media[i].rtp
        ELSE <<>>])

-----------------------------------------------------------------------------
(* A gateway's reply: capability blocks by name (None: missing or empty),  *)
(* its own fingerprints and its ICE candidates.                            *)

\* _select_rtp_capabilities
Selected(caps) ==
    IF caps.sendrecv # None THEN caps.sendrecv
    ELSE IF caps.recv # None THEN caps.recv
    ELSE IF caps.send # None THEN caps.send ELSE caps.flat

Distinct(seq) == Keep(seq, {i \in DOMAIN seq : \A j \in 1 .. i - 1 : seq[j] # seq[i]})

\* _strip_transport_cc on one kind of media, with _dedupe_rtcp_feedbacks.
BadStripped(block) == block
Stripped(block) ==
    [codecs |-> [i \in DOMAIN block.codecs |->
                    [block.codecs[i] EXCEPT
                        !.feedback = Distinct(Without(@, "transport-cc"))]],
     uris   |-> Without(block.uris, TwccUri)]

\* The gateways' fingerprints follow those of the reply, each once.
WithGateways(own, addresses) ==
    Distinct(own \o Without([i \in DOMAIN addresses |-> addresses[i].print], None))

\* _build_candidate_lines: hosts reached by IPv4 only.
Candidates(candidates) ==
    Keep(candidates, {i \in DOMAIN candidates : candidates[i] = "v4"})

-----------------------------------------------------------------------------
(* The answer *)

AnswerDirection(offered) ==
    CASE offered = "sendonly" -> "recvonly" [] offered = "recvonly" -> "sendonly"
      [] offered = "sendrecv" -> "sendrecv" [] OTHER -> "inactive"

\* The video codecs are narrowed to the publisher's if the gateway listed it.
Narrowed(codecs, pt) ==
    LET matching == Keep(codecs, {i \in DOMAIN codecs : codecs[i].pt = pt}) IN
    IF matching # <<>> THEN matching ELSE codecs

\* _build_extension_lines: the gateway's extensions under the offer's numbers.
OfferId(ext, uri) ==
    ext[CHOOSE i \in DOMAIN ext : ext[i].uri = uri
            /\ \A j \in DOMAIN ext : ext[j].uri = uri => j <= i].id
Extensions(ext, uris) ==
    LET shared == Keep(uris, {i \in DOMAIN uris :
                      uris[i] # MidUri /\ \E j \in DOMAIN ext : ext[j].uri = uris[i]})
    IN  [i \in DOMAIN shared |-> [id |-> OfferId(ext, shared[i]), uri |-> shared[i]]]

\* The extensions of every section of a kind together (_parse_offer_sdp).
OfferExtensions(media, kind) ==
    Joined([i \in DOMAIN media |-> IF media[i].kind = kind THEN media[i].ext ELSE <<>>])

\* One section of the answer; stream is None or the stream declared.  An offered section
\* without a direction counts as one that sends only, here (agora_edge.py:1695).
AnswerSection(all, index, caps, stream) ==
    LET media  == all[index]
        video  == media.kind = "video"
        block  == Stripped(caps[media.kind])
        codecs == IF video /\ stream # None THEN Narrowed(block.codecs, stream.pt)
                  ELSE block.codecs
    IN  [kind      |-> media.kind,
         mid       |-> IF media.mid = None THEN index - 1 ELSE media.mid,
         direction |-> AnswerDirection(IF media.direction = None THEN "sendonly"
                                       ELSE media.direction),
         codecs    |-> codecs,
         payloads  |-> IF codecs = <<>> THEN media.payloads
                       ELSE [i \in DOMAIN codecs |-> codecs[i].pt],
         ext       |-> Extensions(OfferExtensions(all, media.kind), block.uris),
         ssrc      |-> IF video /\ stream # None THEN stream.ssrc ELSE None]

\* _generate_answer_sdp; there is no answer without a fingerprint.
Answer(parsed, addresses, reply, stream) ==
    LET prints == WithGateways(reply.prints, addresses) IN
    IF prints = <<>> \/ parsed.media = <<>> THEN None
    ELSE [bundle     |-> Chosen(parsed.groups, 1, <<0, 1>>),
          mixed      |-> parsed.mixed,
          print      |-> Head(prints),
          candidates |-> Candidates(reply.candidates),
          sections   |-> [i \in DOMAIN parsed.media |->
                             AnswerSection(parsed.media, i, Selected(reply.caps), stream)]]
=============================================================================
