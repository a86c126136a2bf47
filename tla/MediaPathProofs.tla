--------------------------- MODULE MediaPathProofs ---------------------------
(***************************************************************************)
(* Theorems about MediaPath, for any packets, clock offsets and number of  *)
(* upstream sessions.                                                      *)
(*                                                                         *)
(* With parameter sets the path is still the paced path of RtpPacer        *)
(* (PathIsPaced), so its theorems hold here too.  The scan finds, after    *)
(* every unit of a packet, for each kind the last whole set that no        *)
(* malformed unit precedes (FoundShape, by induction over the units), so   *)
(* what the next DESCRIBE inlines is current.                              *)
(***************************************************************************)
EXTENDS MediaPath, RtpPacerProofs, WellFoundedInduction

-----------------------------------------------------------------------------
(* The paced path *)

\* Looking for parameter sets changes nothing about when a frame is sent
\* (rtsp_server.py:582-595).
THEOREM PathIsPaced == PathSpec => Spec
  <1>1. PathInit => Init
    BY DEF PathInit
  <1>2. [PathNext]_pathVars => [Next]_vars
    BY DEF PathNext, Push, Reconnect, Pace, Next, pathVars
  <1> QED  BY <1>1, <1>2, PTL DEF PathSpec, Spec

\* Every variable of the paced path keeps its kind and no sleep is longer than the cap
\* (rtsp_server.py:399-402, 448-483).
THEOREM PathTypeCorrect == PathSpec => []TypeOK
  BY PathIsPaced, TypeCorrect, PTL

\* No frame of the path is older when it leaves than LatencyBounded allows
\* (rtsp_server.py:71-89, 399-402, 463-483).
THEOREM PathLatencyIsBounded == PathSpec => []LatencyBounded
  BY PathIsPaced, LatencyIsBounded, PTL

\* With no more jitter than Delay, the frames of the path leave at a constant distance
\* from their capture while their anchor holds (rtsp_server.py:71-76, 393-402, 463-483).
THEOREM PathPlayoutIsSteady == Jitter <= Delay => (PathSpec => SteadyPlayout)
  <1> SUFFICES ASSUME Jitter <= Delay
               PROVE  PathSpec => SteadyPlayout
    OBVIOUS
  <1>1. Spec => SteadyPlayout
    BY PlayoutIsSteady
  <1> QED  BY <1>1, PathIsPaced, PTL

-----------------------------------------------------------------------------
(* Induction and recursion *)

LEMMA SetInduction ==
    ASSUME NEW S, 0 \in S, \A n \in Nat : n \in S => n + 1 \in S
    PROVE  Nat \subseteq S
  <1> DEFINE R == OpToRel(<, Nat)
             T == Nat \ S
  <1>1. IsWellFoundedOn(R, Nat)
    BY NatLessThanWellFounded
  <1>2. \A a, b \in Nat : a < b => <<a, b>> \in R
    BY DEF OpToRel
  <1> HIDE DEF R
  <1> SUFFICES ASSUME T # {}  PROVE FALSE
    OBVIOUS
  <1>3. PICK x \in T : \A y \in T : ~ (<<y, x>> \in R)
    <2>1. T \subseteq Nat
      OBVIOUS
    <2> HIDE DEF T
    <2> QED  BY <1>1, <2>1, WFMin
  <1>4. x \in Nat /\ x # 0
    OBVIOUS
  <1>5. x - 1 \in Nat /\ x - 1 < x /\ (x - 1) + 1 = x
    BY <1>4
  <1>6. x - 1 \notin T
    BY <1>2, <1>3, <1>4, <1>5
  <1> QED  BY <1>5, <1>6

Start == [stopped |-> FALSE, sets |-> Nothing]

\* What Found is: the scan unit by unit.
LEMMA FoundSteps ==
    ASSUME NEW units \in Seq(Unit)
    PROVE  /\ Found(units)[0] = Start
           /\ \A n \in Nat : n + 1 <= Len(units) =>
                 Found(units)[n + 1] = Collect(Found(units)[n], units[n + 1])
  <1> DEFINE N == Len(units)
             Step(g, n) == IF n = 0 THEN Start ELSE Collect(g[n - 1], units[n])
             Scanned(g, n) == g = [i \in 0 .. n |-> Step(g, i)]
             S == {n \in Nat : \E g : Scanned(g, n)}
  <1>1. 0 \in S
    <2> DEFINE g == [i \in 0 .. 0 |-> Start]
    <2>1. [i \in 0 .. 0 |-> Step(g, i)] = [i \in 0 .. 0 |-> Start]
      OBVIOUS
    <2> QED  BY <2>1
  <1>2. ASSUME NEW n \in Nat, n \in S  PROVE n + 1 \in S
    <2>1. PICK g : Scanned(g, n)
      BY <1>2
    <2> DEFINE h == [i \in 0 .. n + 1 |-> IF i = n + 1 THEN Collect(g[n], units[n + 1]) ELSE g[i]]
    <2>2. \A i \in 0 .. n : g[i] = Step(g, i)
      BY <2>1
    <2>3. ASSUME NEW i \in 0 .. n + 1  PROVE h[i] = Step(h, i)
      <3>1. CASE i = n + 1
        <4>1. h[n] = g[n] /\ i # 0 /\ i - 1 = n
          BY <3>1
        <4> QED  BY <3>1, <4>1
      <3>2. CASE i # n + 1
        <4>1. i \in 0 .. n /\ h[i] = g[i]
          BY <3>2
        <4>2. i # 0 => i - 1 \in 0 .. n + 1 /\ i - 1 # n + 1
          BY <4>1
        <4>3. i # 0 => h[i - 1] = g[i - 1]
          BY <4>2
        <4> QED  BY <2>2, <4>1, <4>3
      <3> QED  BY <3>1, <3>2
    <2>4. Scanned(h, n + 1)
      <3>1. h = [i \in 0 .. n + 1 |-> h[i]]
        OBVIOUS
      <3>2. \A i \in 0 .. n + 1 : h[i] = Step(h, i)
        BY <2>3
      <3> HIDE DEF h, Step
      <3>3. [i \in 0 .. n + 1 |-> h[i]] = [i \in 0 .. n + 1 |-> Step(h, i)]
        BY <3>2
      <3>4. h = [i \in 0 .. n + 1 |-> Step(h, i)]
        BY <3>1, <3>3
      <3> QED  BY <3>4
    <2>5. n + 1 \in Nat
      OBVIOUS
    <2> HIDE DEF Scanned, h
    <2> QED  BY <2>4, <2>5
  <1>3. N \in Nat
    OBVIOUS
  <1>4. \E g : Scanned(g, N)
    <2> HIDE DEF S
    <2>1. Nat \subseteq S
      BY <1>1, <1>2, SetInduction
    <2> QED  BY <1>3, <2>1 DEF S
  <1> DEFINE f == CHOOSE g : Scanned(g, N)
  <1>5. Scanned(f, N)
    <2> HIDE DEF Scanned
    <2> QED  BY <1>4
  <1>6. Found(units) = f
    BY DEF Found, Start
  <1> HIDE DEF f
  <1>7. \A i \in 0 .. N : f[i] = Step(f, i)
    BY <1>5
  <1>8. f[0] = Start
    BY <1>3, <1>7
  <1>9. ASSUME NEW n \in Nat, n + 1 <= Len(units)
        PROVE  f[n + 1] = Collect(f[n], units[n + 1])
    <2>1. n + 1 \in 0 .. N /\ n + 1 # 0 /\ (n + 1) - 1 = n
      BY <1>3, <1>9
    <2> QED  BY <1>7, <2>1
  <1> QED  BY <1>6, <1>8, <1>9

-----------------------------------------------------------------------------
(* The scan *)

\* The whole sets of a kind among the first n units, up to the first malformed one.
Before(units, n, k) ==
    {i \in 1 .. n : /\ units[i].kind = k /\ units[i].length = "whole"
                    /\ \A j \in 1 .. i : units[j].length # "bad"}

\* What was found is the last of them.
LastOf(found, units, seen) ==
    \/ seen = {} /\ found = None
    \/ \E i \in seen : (\A j \in seen : j <= i) /\ found = units[i].version

FoundShape(found, units, n) ==
    /\ found = [stopped |-> found.stopped, sets |-> found.sets]
    /\ found.stopped \in BOOLEAN /\ found.sets \in [Kinds -> Nat \cup {None}]
    /\ found.stopped <=> \E j \in 1 .. n : units[j].length = "bad"
    /\ \A k \in Kinds : LastOf(found.sets[k], units, Before(units, n, k))

LEMMA CollectKeepsShape ==
    ASSUME NEW units \in Seq(Unit), NEW n \in Nat, n + 1 <= Len(units),
           NEW found, FoundShape(found, units, n)
    PROVE  FoundShape(Collect(found, units[n + 1]), units, n + 1)
  <1> DEFINE u == units[n + 1]
             next == Collect(found, u)
             s == found.sets
  <1>1. /\ \A i \in 1 .. n + 1 : i \in 1 .. n \/ i = n + 1
        /\ n + 1 \in 1 .. n + 1 /\ \A i \in 1 .. n : i \in 1 .. n + 1 /\ i <= n + 1
        /\ \A i \in 1 .. n + 1 : 1 .. i \subseteq 1 .. n + 1
        /\ n + 1 \notin 1 .. n
    OBVIOUS
  <1>2. u \in Unit /\ u.kind \in Kinds \cup {"slice"} /\ u.version \in Nat
    <2>1. n + 1 \in 1 .. Len(units)
      OBVIOUS
    <2>2. u \in Unit
      BY <2>1
    <2> HIDE DEF u
    <2> QED  BY <2>2 DEF Unit
  <1>3. /\ found = [stopped |-> found.stopped, sets |-> s]
        /\ found.stopped \in BOOLEAN /\ s \in [Kinds -> Nat \cup {None}]
        /\ found.stopped <=> \E j \in 1 .. n : units[j].length = "bad"
        /\ \A k \in Kinds : LastOf(s[k], units, Before(units, n, k))
    BY DEF FoundShape
  <1>4. (\E j \in 1 .. n + 1 : units[j].length = "bad") <=> found.stopped \/ u.length = "bad"
    BY <1>1, <1>3
  <1>5. CASE found.stopped \/ u.length = "bad"
    <2>1. next = [stopped |-> TRUE, sets |-> s]
      BY <1>3, <1>5 DEF Collect
    <2>2. \A k \in Kinds : Before(units, n + 1, k) = Before(units, n, k)
      BY <1>1, <1>4, <1>5 DEF Before
    <2>3. next.stopped = TRUE /\ next.sets = s
      BY <2>1
    <2> HIDE DEF u, next, s
    <2> QED  BY <1>3, <1>4, <1>5, <2>1, <2>2, <2>3 DEF FoundShape, next, u
  <1>6. CASE ~(found.stopped \/ u.length = "bad") /\ u.length = "whole" /\ u.kind \in Kinds
    <2>1. next = [stopped |-> FALSE, sets |-> [s EXCEPT ![u.kind] = u.version]]
      BY <1>3, <1>6 DEF Collect
    <2>2. next.stopped = FALSE /\ next.sets = [s EXCEPT ![u.kind] = u.version]
      BY <2>1
    <2>3. Before(units, n + 1, u.kind) = Before(units, n, u.kind) \cup {n + 1}
      BY <1>1, <1>4, <1>6 DEF Before
    <2>4. \A k \in Kinds : k # u.kind => Before(units, n + 1, k) = Before(units, n, k)
      BY <1>1, <1>6 DEF Before
    <2>5. \A i \in Before(units, n, u.kind) : i <= n + 1
      BY <1>1 DEF Before
    <2>6. LastOf(u.version, units, Before(units, n + 1, u.kind))
      BY <2>3, <2>5 DEF LastOf
    <2>7. next.sets \in [Kinds -> Nat \cup {None}]
      BY <1>2, <1>3, <2>2
    <2>8. ASSUME NEW k \in Kinds
          PROVE  LastOf(next.sets[k], units, Before(units, n + 1, k))
      <3>1. CASE k = u.kind
        <4>1. next.sets[k] = u.version
          BY <1>3, <1>6, <2>2, <3>1
        <4> QED  BY <2>6, <3>1, <4>1
      <3>2. CASE k # u.kind
        <4>1. next.sets[k] = s[k]
          BY <1>3, <2>2, <3>2
        <4> QED  BY <1>3, <2>4, <3>2, <4>1
      <3> QED  BY <3>1, <3>2
    <2> HIDE DEF u, next, s
    <2>9. next = [stopped |-> next.stopped, sets |-> next.sets]
      BY <2>1, <2>2
    <2>10. FoundShape(next, units, n + 1)
      BY <1>4, <1>6, <2>2, <2>7, <2>8, <2>9 DEF FoundShape
    <2> QED  BY <2>10 DEF next, u
  <1>7. CASE ~(found.stopped \/ u.length = "bad") /\ ~(u.length = "whole" /\ u.kind \in Kinds)
    <2>1. next = found
      BY <1>7 DEF Collect
    <2>2. \A k \in Kinds : Before(units, n + 1, k) = Before(units, n, k)
      BY <1>1, <1>7 DEF Before
    <2>3. (\E j \in 1 .. n + 1 : units[j].length = "bad") <=> found.stopped
      BY <1>4, <1>7
    <2> HIDE DEF u, next, s
    <2>4. FoundShape(next, units, n + 1)
      BY <1>3, <2>1, <2>2, <2>3 DEF FoundShape, s
    <2> QED  BY <2>4 DEF next, u
  <1> QED  BY <1>5, <1>6, <1>7

LEMMA FoundIsShaped ==
    ASSUME NEW units \in Seq(Unit)
    PROVE  FoundShape(Found(units)[Len(units)], units, Len(units))
  <1> DEFINE S == {n \in Nat : n <= Len(units) => FoundShape(Found(units)[n], units, n)}
  <1>1. 0 \in S
    <2>1. Found(units)[0] = Start
      BY FoundSteps
    <2>2. \A k \in Kinds : Before(units, 0, k) = {} /\ Nothing[k] = None
      BY DEF Before, Nothing
    <2>3. Nothing \in [Kinds -> Nat \cup {None}] /\ ~(\E j \in 1 .. 0 : units[j].length = "bad")
      BY DEF Nothing
    <2>4. FoundShape(Start, units, 0)
      BY <2>2, <2>3 DEF FoundShape, Start, LastOf
    <2> QED  BY <2>1, <2>4
  <1>2. ASSUME NEW n \in Nat, n \in S  PROVE n + 1 \in S
    <2> SUFFICES ASSUME n + 1 <= Len(units)
                 PROVE  FoundShape(Found(units)[n + 1], units, n + 1)
      OBVIOUS
    <2>1. n <= Len(units)
      OBVIOUS
    <2>2. FoundShape(Found(units)[n], units, n)
      BY <1>2, <2>1
    <2>3. Found(units)[n + 1] = Collect(Found(units)[n], units[n + 1])
      BY FoundSteps
    <2>4. FoundShape(Collect(Found(units)[n], units[n + 1]), units, n + 1)
      BY <2>2, CollectKeepsShape
    <2> QED  BY <2>3, <2>4
  <1>3. Len(units) \in Nat /\ Len(units) <= Len(units)
    OBVIOUS
  <1> HIDE DEF S
  <1>4. Nat \subseteq S
    BY <1>1, <1>2, SetInduction
  <1> QED  BY <1>3, <1>4 DEF S

\* The scan of a packet finds what is in it by the packet format.
LEMMA ScanFindsWhatIsCarried ==
    ASSUME NEW packet \in Packet, NEW k \in Kinds
    PROVE  /\ Carries(packet, k) = {} => Scan(packet)[k] = None
           /\ Carries(packet, k) # {} =>
                 Scan(packet)[k] = Carried(packet, k) /\ Carried(packet, k) \in Nat
  <1> DEFINE units == packet.units
             N == Len(units)
  <1>1. units \in Seq(Unit) /\ N \in Nat /\ DOMAIN units = 1 .. N
    BY DEF Packet
  <1>2. \A i \in 1 .. N : units[i].version \in Nat
    <2>1. \A i \in 1 .. N : units[i] \in Unit
      BY <1>1
    <2> QED  BY <2>1 DEF Unit
  <1>3. CASE packet.form = "fragment"
    <2>1. Carries(packet, k) = {} /\ Scan(packet) = Nothing
      BY <1>3 DEF Carries, Scan
    <2> QED  BY <2>1 DEF Nothing
  <1>4. CASE packet.form # "fragment"
    <2>1. Carries(packet, k) = Before(units, N, k)
      BY <1>1, <1>4 DEF Carries, Before
    <2>2. Scan(packet) = Found(units)[N].sets
      BY <1>4 DEF Scan
    <2>3. FoundShape(Found(units)[N], units, N)
      BY <1>1, FoundIsShaped
    <2>4. LastOf(Scan(packet)[k], units, Before(units, N, k))
      BY <2>2, <2>3 DEF FoundShape
    <2>5. Carries(packet, k) = {} => Scan(packet)[k] = None
      BY <2>1, <2>4 DEF LastOf
    <2>6. ASSUME Carries(packet, k) # {}
          PROVE  Scan(packet)[k] = Carried(packet, k) /\ Carried(packet, k) \in Nat
      <3> DEFINE C == Carries(packet, k)
                 c == CHOOSE i \in C : \A j \in C : j <= i
      <3>1. PICK i \in C : (\A j \in C : j <= i) /\ Scan(packet)[k] = units[i].version
        BY <2>1, <2>4, <2>6 DEF LastOf
      <3>2. C \subseteq 1 .. N
        BY <1>1 DEF Carries
      <3> HIDE DEF C
      <3>3. c \in C /\ \A j \in C : j <= c
        BY <3>1
      <3>4. Carried(packet, k) = units[c].version
        BY DEF Carried, C
      <3> HIDE DEF c
      <3>5. i \in 1 .. N /\ c \in 1 .. N /\ i <= c /\ c <= i
        BY <3>1, <3>2, <3>3
      <3>6. i = c
        BY <1>1, <3>5
      <3> QED  BY <1>2, <3>1, <3>4, <3>5, <3>6
    <2> QED  BY <2>5, <2>6
  <1> QED  BY <1>3, <1>4

-----------------------------------------------------------------------------
(* What DESCRIBE inlines *)

Known == [session : Nat, version : Nat]
SetsShape ==
    /\ first \in Nat /\ ready \in BOOLEAN
    /\ params \in [Kinds -> Known \cup {None}] /\ sent \in [Kinds -> Known \cup {None}]
    /\ SetsAreCurrent

LEMMA PushKeepsSets ==
    ASSUME TypeOK, SetsShape, Push
    PROVE  SetsShape'
  <1> DEFINE found == Scan(Present)
  <1>1. /\ params' = [k \in Kinds |-> IF found[k] = None THEN params[k]
                                      ELSE [session |-> session, version |-> found[k]]]
        /\ ready' = (ready \/ \A k \in Kinds : params'[k] # None)
        /\ sent' = [k \in Kinds |-> IF Carries(Present, k) = {} THEN sent[k]
                                    ELSE [session |-> session, version |-> Carried(Present, k)]]
        /\ first' = first
    BY DEF Push, Update
  <1>2. Present \in Packet
    <2> DEFINE n == Len(Packets[base])
               i == (arrived - first) % n
    <2>1. Packets[base] \in Seq(Packet) /\ Packets[base] # <<>>
      BY PacketsAssumption DEF TypeOK
    <2>2. n \in Nat /\ n >= 1
      BY <2>1
    <2>3. arrived - first \in Int
      BY Constants DEF TypeOK, SetsShape
    <2>4. i \in 0 .. n - 1
      <3> HIDE DEF n
      <3> QED  BY <2>2, <2>3, ModRange
    <2> HIDE DEF i
    <2>5. i + 1 \in 1 .. n
      BY <2>2, <2>4
    <2>6. Packets[base][i + 1] \in Packet
      BY <2>1, <2>5
    <2> QED  BY <2>6 DEF Present, i
  <1>3. \A k \in Kinds : /\ Carries(Present, k) = {} => found[k] = None
                         /\ Carries(Present, k) # {} => found[k] = Carried(Present, k) /\ found[k] \in Nat
    BY <1>2, ScanFindsWhatIsCarried
  <1> HIDE DEF found
  <1>4. session \in Nat /\ None \notin Nat /\ None \notin Known
    BY Constants, PacketsAssumption DEF TypeOK, Known
  <1>5. \A k \in Kinds : /\ (Carries(Present, k) = {}) = (found[k] = None)
                         /\ found[k] # None => [session |-> session, version |-> found[k]] \in Known
    BY <1>3, <1>4 DEF Known
  <1>6. \A k \in Kinds :
           IF found[k] = None THEN params'[k] = params[k] /\ sent'[k] = sent[k]
           ELSE /\ params'[k] = [session |-> session, version |-> found[k]]
                /\ sent'[k] = params'[k] /\ params'[k] \in Known
    BY <1>1, <1>3, <1>5
  <1>7. params' \in [Kinds -> Known \cup {None}] /\ sent' \in [Kinds -> Known \cup {None}]
    <2>1. \A k \in Kinds : params'[k] \in Known \cup {None} /\ sent'[k] \in Known \cup {None}
      BY <1>6 DEF SetsShape
    <2>2. params' = [k \in Kinds |-> params'[k]] /\ sent' = [k \in Kinds |-> sent'[k]]
      BY <1>1
    <2> QED  BY <2>1, <2>2
  <1>8. first' \in Nat /\ ready' \in BOOLEAN
    BY <1>1 DEF SetsShape
  <1>9. \A k \in Kinds : sent'[k] # None => params'[k] = sent'[k]
    BY <1>6 DEF SetsShape, SetsAreCurrent
  <1>10. ready' => \A k \in Kinds : params'[k] # None
    BY <1>1, <1>4, <1>6 DEF SetsShape, SetsAreCurrent
  <1> QED  BY <1>7, <1>8, <1>9, <1>10 DEF SetsShape, SetsAreCurrent

\* What the next DESCRIBE inlines is, for each kind the present session has sent whole,
\* the set sent last, whatever packets they came in; and once it may answer it has all
\* three (rtsp_server.py:145-225, 589-591, 727-742, 839-861).
THEOREM InlinedSetsAreCurrent == PathSpec => []SetsAreCurrent
  <1>1. PathInit => SetsShape
    <2> SUFFICES ASSUME PathInit  PROVE SetsShape
      OBVIOUS
    <2>1. first = 0 /\ ready = FALSE /\ params = Nothing /\ sent = Nothing
      BY DEF PathInit
    <2>2. Nothing \in [Kinds -> Known \cup {None}] /\ \A k \in Kinds : Nothing[k] = None
      BY DEF Nothing
    <2> QED  BY <2>1, <2>2 DEF SetsShape, SetsAreCurrent
  <1>2. TypeOK /\ SetsShape /\ [PathNext]_pathVars => SetsShape'
    <2> SUFFICES ASSUME TypeOK, SetsShape, [PathNext]_pathVars
                 PROVE  SetsShape'
      OBVIOUS
    <2>1. CASE Push
      BY <2>1, PushKeepsSets
    <2>2. CASE Reconnect
      <3>1. first' \in Nat
        BY <2>2, Constants DEF Reconnect, TypeOK
      <3> QED  BY <2>2, <3>1 DEF Reconnect, SetsShape, SetsAreCurrent, Nothing
    <2>3. CASE Pace \/ UNCHANGED pathVars
      BY <2>3 DEF Pace, pathVars, SetsShape, SetsAreCurrent
    <2> QED  BY <2>1, <2>2, <2>3 DEF PathNext
  <1>3. SetsShape => SetsAreCurrent
    BY DEF SetsShape
  <1> QED  BY <1>1, <1>2, <1>3, PathTypeCorrect, PTL DEF PathSpec
=============================================================================
