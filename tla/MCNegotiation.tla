--------------------------- MODULE MCNegotiation ---------------------------
(***************************************************************************)
(* Values for checking Negotiation: two gateways show what one leaves      *)
(* behind for the next, two SSRCs a publisher that comes back, with        *)
(* another payload type.                                                   *)
(***************************************************************************)
EXTENDS Negotiation, TLC

CONSTANTS s1, s2

TwoSsrcs == {s1, s2}
TwoPts == s1 :> 100 @@ s2 :> 101

Edge(h) == [host |-> h, valid |-> TRUE]
Invalid(h) == [host |-> h, valid |-> FALSE]
BufferOf(code, flag, edges, prints) ==
    [code |-> code, flag |-> flag, edges |-> edges, prints |-> prints]

\* The gateways with an invalid edge between them, and a proxy.
Plain ==
    << BufferOf(0, "gateway", <<Edge("g1"), Invalid("x"), Edge("g2")>>, <<"g1", "x", "g2">>),
       BufferOf(0, "proxy", <<Edge("t1")>>, <<>>) >>
\* A proxy before the gateways, the second of which has no fingerprint.
ProxyFirst ==
    << BufferOf(0, "proxy", <<Edge("t1"), Invalid("x")>>, <<"t1">>),
       BufferOf(0, "gateway", <<Invalid("x"), Edge("g1"), Edge("g2")>>, <<"x", "g1">>),
       BufferOf(1, "gateway", <<>>, <<>>) >>
Refused == << BufferOf(2, "gateway", <<Edge("g1")>>, <<"g1">>) >>

Codec(number, name) ==
    [pt |-> number, codec |-> name,
     feedback |-> <<"nack", "transport-cc", "nack pli", "nack">>]
Video(codecs) == [codecs |-> codecs, uris |-> <<MidUri, "abs-send-time", TwccUri>>]
Audio == [codecs |-> <<Codec(111, "opus")>>, uris |-> <<"audio-level", MidUri>>]
Both == [video |-> Video(<<Codec(99, "H264"), Codec(100, "H265")>>), audio |-> Audio]
OnlyH265 == [video |-> Video(<<Codec(100, "H265"), Codec(101, "H265")>>), audio |-> Audio]
Reply1(prints, block) ==
    [prints |-> prints, candidates |-> <<"v6", "v4">>,
     caps |-> [sendrecv |-> None, recv |-> block, send |-> Both, flat |-> None]]
Reply2(prints, block) ==
    [prints |-> prints, candidates |-> <<"v4">>,
     caps |-> [sendrecv |-> block, recv |-> None, send |-> None, flat |-> None]]

Attr(type, value) == [type |-> type, value |-> value]
Ext(id, uri) == [type |-> "extmap", id |-> id, uri |-> uri]
Rtpmap(number, codec) == [type |-> "rtpmap", pt |-> number, codec |-> codec]
MLine(kind, payloads) == [type |-> "media", kind |-> kind, payloads |-> payloads]

\* The offer aiortc makes for the two transceivers of the relay, and one of a peer
\* that sends audio and states no direction for video.
RelayOffer ==
    << [type |-> "group", mids |-> <<0, 1>>],
       MLine("video", <<97, 99, 103>>), Attr("direction", "recvonly"), Attr("mid", 0),
       Ext(1, MidUri), Ext(2, "abs-send-time"), Rtpmap(99, "H264"), Rtpmap(103, "H265"),
       MLine("audio", <<96>>), Attr("direction", "recvonly"), Attr("mid", 1),
       Ext(1, MidUri), Ext(2, "audio-level"), Rtpmap(96, "opus") >>
OtherOffer ==
    << [type |-> "group", mids |-> <<5, 6>>], [type |-> "extmap-allow-mixed"],
       MLine("audio", <<96>>), Attr("direction", "sendonly"), Attr("mid", 5),
       Ext(7, "audio-level"), Rtpmap(96, "opus"),
       MLine("video", <<103>>), Attr("mid", 6), Ext(4, TwccUri), Ext(3, "abs-send-time"),
       Rtpmap(103, "H265") >>

TwoCases ==
    { [offer |-> RelayOffer, bodies |-> {Plain},
       replies |-> <<Reply1(<<"g1">>, Both), Reply2(<<"g2">>, OnlyH265)>>],
      [offer |-> OtherOffer, bodies |-> {ProxyFirst, Refused},
       replies |-> <<Reply1(<<>>, OnlyH265), Reply2(<<>>, Both)>>] }
=============================================================================
