----------------------------- MODULE MediaPath -----------------------------
(***************************************************************************)
(* What one RTP packet from upstream does in the RTSP server: push_rtp     *)
(* looks it through for parameter sets, which the next DESCRIBE inlines,   *)
(* and queues it for the session whose pacer RtpPacer models               *)
(* (src/mammotion_webrtc/rtsp_server.py).                                  *)
(*                                                                         *)
(* A packet holds one NAL unit, several (an aggregation packet), or a      *)
(* fragment of one.  A unit is known by its kind and, if it is a parameter *)
(* set, by its version; two sessions never send the same set.              *)
(***************************************************************************)
EXTENDS RtpPacer

CONSTANT
    Packets     \* bound: for each clock offset the packets such a session sends,
                \* over and over

Kinds == {"vps", "sps", "pps"}
\* A unit of an aggregation packet may be too short to have a type, or announce a
\* length of zero or beyond the packet.
Unit == [kind : Kinds \cup {"slice"}, version : Nat, length : {"whole", "short", "bad"}]
Packet == [form : {"single", "aggregate", "fragment"}, units : Seq(Unit)]

ASSUME PacketsAssumption ==
    /\ Packets \in [Bases -> Seq(Packet)] /\ \A b \in Bases : Packets[b] # <<>>
    /\ None \notin [session : Nat, version : Nat]

VARIABLES
    first,      \* frames that arrived before the present upstream session
    params,     \* _params: the set of each kind seen last, or None
    ready,      \* _params.ready
    sent        \* history: the set of each kind the present session sent last, whole

pathVars == <<vars, first, params, ready, sent>>

Nothing == [k \in Kinds |-> None]

-----------------------------------------------------------------------------
(* push_rtp *)

\* What the scan has found after one more unit of an aggregation packet.
Collect(found, unit) ==
    IF found.stopped \/ unit.length = "bad" THEN [found EXCEPT !.stopped = TRUE]
    ELSE IF unit.length = "whole" /\ unit.kind \in Kinds
         THEN [found EXCEPT !.sets[unit.kind] = unit.version]
         ELSE found

\* The versions of the sets in a packet, unit after unit.  A fragment is never looked
\* into.
Found(units) ==
    LET found[n \in 0 .. Len(units)] ==
            IF n = 0 THEN [stopped |-> FALSE, sets |-> Nothing]
            ELSE Collect(found[n - 1], units[n])
    IN  found
Scan(packet) ==
    IF packet.form = "fragment" THEN Nothing
    ELSE Found(packet.units)[Len(packet.units)].sets

\* Sets that were found replace those of their kind; what is ready stays so.
BadUpdate(found) ==
    /\ params' = IF ready THEN params
                 ELSE [k \in Kinds |-> IF found[k] = None THEN params[k]
                                       ELSE [session |-> session, version |-> found[k]]]
    /\ ready' = (ready \/ \A k \in Kinds : params'[k] # None)
Update(found) ==
    /\ params' = [k \in Kinds |-> IF found[k] = None THEN params[k]
                                  ELSE [session |-> session, version |-> found[k]]]
    /\ ready' = (ready \/ \A k \in Kinds : params'[k] # None)

\* The packet that arrives next, and what is in it by the packet format: the last
\* unit of the kind with nothing malformed before it.
Present == Packets[base][((arrived - first) % Len(Packets[base])) + 1]
Carries(packet, k) ==
    {i \in DOMAIN packet.units :
        /\ packet.form # "fragment" /\ packet.units[i].kind = k
        /\ packet.units[i].length = "whole"
        /\ \A j \in 1 .. i : packet.units[j].length # "bad"}
Carried(packet, k) ==
    packet.units[CHOOSE i \in Carries(packet, k) :
                    \A j \in Carries(packet, k) : j <= i].version

Push ==
    /\ Arrive /\ Update(Scan(Present))
    /\ sent' = [k \in Kinds |-> IF Carries(Present, k) = {} THEN sent[k]
                                ELSE [session |-> session, version |-> Carried(Present, k)]]
    /\ UNCHANGED first

-----------------------------------------------------------------------------
PathInit == Init /\ first = 0 /\ params = Nothing /\ ready = FALSE /\ sent = Nothing

\* The sets outlive the session that sent them.
Reconnect ==
    Restart /\ first' = arrived /\ sent' = Nothing /\ UNCHANGED <<params, ready>>

Pace == (Take \/ Send \/ Tick) /\ UNCHANGED <<first, params, ready, sent>>

PathNext == Push \/ Reconnect \/ Pace

PathSpec == PathInit /\ [][PathNext]_pathVars

-----------------------------------------------------------------------------
(* Properties *)

\* Once DESCRIBE may answer it has a set of every kind to inline, and for each kind
\* the present session has sent whole, alone or aggregated, it is the one sent last:
\* sets of an earlier session are inlined only until then, and a packet cut short
\* takes nothing back (rtsp_server.py:145-225, 589-591, 727-742, 839-861).
SetsAreCurrent ==
    /\ \A k \in Kinds : sent[k] # None => params[k] = sent[k]
    /\ ready => \A k \in Kinds : params[k] # None
=============================================================================
