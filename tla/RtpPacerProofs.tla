--------------------------- MODULE RtpPacerProofs ---------------------------
(***************************************************************************)
(* Theorems about RtpPacer, for any width of the timestamps, delay,        *)
(* re-anchor threshold, sleep cap, jitter and number of upstream sessions, *)
(* and for all time.                                                       *)
(*                                                                         *)
(* The argument: the frames the writer has not seen follow the one it took *)
(* last without a gap and with sessions that never go back (QueueShape,    *)
(* TakenShape), and each session's timestamps are its offset plus the      *)
(* frame, modulo the width (ClockShape); so the signed difference of two   *)
(* frames of a session is their true distance as long as that is at most   *)
(* half the width.  The age at which a frame becomes the anchor is bounded *)
(* by what came before it (AgeShape), and with no more jitter than Delay   *)
(* every frame of the anchor's session is sent at its target (SteadyShape).*)
(***************************************************************************)
EXTENDS RtpPacer, TLAPS

Last == arrived - Len(queue)        \* the frame taken last, 0 for none
Taken == IF inHand # None THEN inHand.session ELSE sentAt.session
Started == anchorFrame # None

QueueShape ==
    /\ arrived <= now /\ Len(queue) <= arrived
    /\ \A i \in 1 .. Len(queue) : queue[i].frame = Last + i /\ queue[i].session <= session
    /\ \A i, j \in 1 .. Len(queue) : i <= j => queue[i].session <= queue[j].session

AnchorShape ==
    /\ (anchorTs = None <=> ~Started) /\ (anchorWall = None <=> ~Started)
    /\ Started => /\ anchorTs = anchorFrame.ts
                  /\ anchorFrame.frame <= anchorWall /\ anchorWall <= now
                  /\ anchorFrame.session <= Taken /\ anchorFrame.frame <= Last
                  /\ Taken = anchorFrame.session => Last - anchorFrame.frame <= Reanchor

TakenShape ==
    /\ Started <=> inHand # None \/ sentAt # None
    /\ ~Started => Last = 0
    /\ Started => Taken <= session /\ \A i \in 1 .. Len(queue) : Taken <= queue[i].session
    /\ inHand # None => inHand.frame = Last /\ now <= wake
    /\ inHand = None /\ sentAt # None =>
          sentAt.frame = Last /\ sentAt.at = wake /\ wake <= now
    /\ inHand = None => now <= Last + 1 + Jitter \/ (Started /\ now = wake)

Stamped(f, offset) == f.ts = (offset[f.session] + f.frame) % TsMod
ClockShape ==
    \E offset \in [0 .. Restarts -> Nat] :
        /\ offset[session] = base
        /\ \A i \in 1 .. Len(queue) : Stamped(queue[i], offset)
        /\ Started => Stamped(anchorFrame, offset)

IInv == TypeOK /\ QueueShape /\ AnchorShape /\ TakenShape /\ ClockShape

\* The age an anchor may have when it is taken.
Allowed(f, s) == Jitter + Delay * (f \div (Reanchor + 1)) + (Reanchor + Delay) * s
Age == anchorWall - anchorFrame.frame

AgeShape ==
    /\ Started =>
          /\ Age <= Allowed(anchorFrame.frame, anchorFrame.session)
          /\ \/ wake - Last <= Jitter
             \/ wake - Last <= Age + Delay
             \/ Taken # anchorFrame.session /\ wake - Last <= Age + Delay + Reanchor
    /\ LatencyBounded

SteadyShape ==
    Started /\ Taken = anchorFrame.session => wake = anchorWall + Delay + (Last - anchorFrame.frame)

-----------------------------------------------------------------------------
(* Arithmetic *)

LEMMA ModRange == \A n \in Nat, a \in Int : n >= 1 => a % n \in 0 .. n - 1
  OBVIOUS

LEMMA ModUnique ==
    \A n \in Nat, q \in Int, r \in Int : n >= 1 /\ 0 <= r /\ r < n => (n * q + r) % n = r
  OBVIOUS

LEMMA ModSum ==
    ASSUME NEW n \in Nat, n >= 1, NEW u \in Nat, NEW e \in Nat, e < n
    PROVE  (u + e) % n = (u % n) + e \/ (u + e) % n = (u % n) + e - n
  <1> DEFINE q == u \div n
             r == u % n
  <1>1. q \in Int /\ r \in Int /\ 0 <= r /\ r < n /\ u = n * q + r
    OBVIOUS
  <1> HIDE DEF q, r
  <1>2. CASE r + e < n
    <2>1. u + e = n * q + (r + e) /\ r + e \in Int /\ 0 <= r + e
      BY <1>1
    <2>2. (n * q + (r + e)) % n = r + e
      BY <1>1, <1>2, <2>1, ModUnique
    <2> QED  BY <2>1, <2>2 DEF r
  <1>3. CASE r + e >= n
    <2>1. /\ u + e = n * (q + 1) + (r + e - n) /\ q + 1 \in Int
          /\ r + e - n \in Int /\ 0 <= r + e - n /\ r + e - n < n
      BY <1>1, <1>3
    <2>2. (n * (q + 1) + (r + e - n)) % n = r + e - n
      BY <2>1, ModUnique
    <2> QED  BY <2>1, <2>2 DEF r
  <1> QED  BY <1>1, <1>2, <1>3

\* Two timestamps of one clock: the signed difference is the distance, across the wrap
\* too, as long as that is at most half the width.
LEMMA Distance ==
    ASSUME NEW o \in Nat, NEW x \in Nat, NEW y \in Nat, y <= x, x - y <= TsMod \div 2
    PROVE  SignedDelta((o + x) % TsMod, (o + y) % TsMod) = x - y
  <1> DEFINE e == x - y
             u == o + y
  <1>1. TsMod \in Nat /\ TsMod >= 1 /\ TsMod % 2 = 0
    BY PacerAssumption
  <1>2. TsMod \div 2 < TsMod /\ 2 * (TsMod \div 2) = TsMod /\ TsMod \div 2 \in Nat
    BY <1>1
  <1>3. e \in Nat /\ e < TsMod /\ u \in Nat /\ o + x = u + e
    BY <1>2
  <1> HIDE DEF e, u
  <1> DEFINE p == (u + e) % TsMod
             r == u % TsMod
             h == TsMod \div 2
  <1>4. (p = r + e \/ p = r + e - TsMod) /\ r \in Int /\ p \in Int
    <2>1. (u + e) % TsMod = (u % TsMod) + e \/ (u + e) % TsMod = (u % TsMod) + e - TsMod
      BY <1>1, <1>3, ModSum
    <2>2. \A v \in Int : v % TsMod \in Int
      BY <1>1
    <2> QED  BY <1>3, <2>1, <2>2
  <1>5. h \in Nat /\ e <= h
    BY <1>2 DEF e
  <1>6. SignedDelta(p, r) = IF (p - r) % TsMod > h THEN ((p - r) % TsMod) - TsMod
                            ELSE (p - r) % TsMod
    BY DEF SignedDelta
  <1> HIDE DEF p, r, h
  <1>7. p - r = e \/ p - r = e - TsMod
    BY <1>1, <1>3, <1>4
  <1>8. e % TsMod = e /\ (e - TsMod) % TsMod = e
    BY <1>1, <1>3
  <1>9. (p - r) % TsMod = e
    BY <1>7, <1>8
  <1>10. SignedDelta(p, r) = e
    BY <1>3, <1>5, <1>6, <1>9
  <1>11. p = (o + x) % TsMod /\ r = (o + y) % TsMod /\ e = x - y
    BY <1>3 DEF p, r, e, u
  <1> QED  BY <1>10, <1>11

LEMMA DeltaIsInteger == \A a, b \in Int : SignedDelta(a, b) \in Int
  <1>1. TsMod \in Nat /\ TsMod >= 1
    BY PacerAssumption
  <1>2. \A d \in Int : d % TsMod \in Int
    BY <1>1
  <1> QED  BY <1>1, <1>2 DEF SignedDelta

\* The age allowed grows with the frame and the session, by a Delay with a threshold's
\* worth of frames, and by a Delay and a threshold with a session.
LEMMA AllowedGrows ==
    ASSUME NEW f \in Nat, NEW g \in Nat, NEW s \in Nat, NEW t \in Nat, f <= g, s <= t
    PROVE  /\ Allowed(f, s) \in Nat /\ Allowed(f, s) >= Jitter
           /\ Allowed(f, s) <= Allowed(g, t)
           /\ g - f > Reanchor => Allowed(f, s) + Delay <= Allowed(g, t)
           /\ s < t => Allowed(f, s) + Delay + Reanchor <= Allowed(g, t)
  <1> DEFINE a == f \div (Reanchor + 1)
             b == g \div (Reanchor + 1)
  <1>1. Jitter \in Nat /\ Delay \in Nat /\ Reanchor \in Nat
    BY PacerAssumption
  <1>2. a \in Nat /\ b \in Nat /\ a <= b /\ (g - f > Reanchor => a + 1 <= b)
    <2>1. \A n \in Nat, x \in Nat, y \in Nat : n >= 1 /\ x <= y =>
            x \div n \in Nat /\ y \div n \in Nat /\ x \div n <= y \div n
      OBVIOUS
    <2>2. \A n \in Nat, x \in Nat, y \in Nat : n >= 1 /\ y - x >= n => (x \div n) + 1 <= y \div n
      OBVIOUS
    <2>3. Reanchor + 1 \in Nat /\ Reanchor + 1 >= 1 /\ (g - f > Reanchor => g - f >= Reanchor + 1)
      BY <1>1
    <2> QED  BY <2>1, <2>2, <2>3
  <1> HIDE DEF a, b
  <1>3. \A d \in Nat, x \in Nat, y \in Nat :
           /\ d * x \in Nat /\ (x <= y => d * x <= d * y)
           /\ x + 1 <= y => d * x + d <= d * y
    <2>1. \A d \in Nat, x \in Nat, y \in Nat : d * x \in Nat /\ (x <= y => d * x <= d * y)
      OBVIOUS
    <2>2. \A d \in Nat, x \in Nat : d * (x + 1) = d * x + d
      OBVIOUS
    <2> QED  BY <2>1, <2>2
  <1>4. /\ Delay * a \in Nat /\ Delay * b \in Nat /\ Delay * a <= Delay * b
        /\ g - f > Reanchor => Delay * a + Delay <= Delay * b
    BY <1>1, <1>2, <1>3
  <1> DEFINE c == Reanchor + Delay
  <1>5. c \in Nat
    BY <1>1
  <1> HIDE DEF c
  <1>6. c * s \in Nat /\ c * t \in Nat /\ c * s <= c * t /\ (s < t => c * s + c <= c * t)
    <2>1. s < t => s + 1 <= t
      OBVIOUS
    <2> QED  BY <1>3, <1>5, <2>1
  <1>7. Allowed(f, s) = Jitter + Delay * a + c * s /\ Allowed(g, t) = Jitter + Delay * b + c * t
    BY DEF Allowed, a, b, c
  <1> DEFINE m == Delay * a
             n == Delay * b
             u == c * s
             v == c * t
  <1>8. m \in Nat /\ n \in Nat /\ u \in Nat /\ v \in Nat /\ m <= n /\ u <= v
        /\ (g - f > Reanchor => m + Delay <= n) /\ (s < t => u + c <= v)
    BY <1>4, <1>6
  <1>9. Allowed(f, s) = Jitter + m + u /\ Allowed(g, t) = Jitter + n + v
    BY <1>7
  <1>10. c = Reanchor + Delay
    BY DEF c
  <1> HIDE DEF m, n, u, v
  <1> QED  BY <1>1, <1>8, <1>9, <1>10

LEMMA AllowedAtLeast == \A f, s \in Nat : Allowed(f, s) \in Nat /\ Allowed(f, s) >= Jitter
  <1> SUFFICES ASSUME NEW f \in Nat, NEW s \in Nat
               PROVE  Allowed(f, s) \in Nat /\ Allowed(f, s) >= Jitter
    OBVIOUS
  <1>1. f <= f /\ s <= s
    OBVIOUS
  <1> QED  BY <1>1, AllowedGrows

-----------------------------------------------------------------------------
(* The queue *)

LEMMA Appended ==
    ASSUME NEW q \in Seq(Frame), NEW m \in Frame
    PROVE  /\ Append(q, m) \in Seq(Frame) /\ Len(Append(q, m)) = Len(q) + 1 /\ Len(q) \in Nat
           /\ Append(q, m)[Len(q) + 1] = m
           /\ \A i \in 1 .. Len(q) : Append(q, m)[i] = q[i]
           /\ \A i \in 1 .. Len(q) + 1 : i \in 1 .. Len(q) \/ i = Len(q) + 1
  <1>1. Len(q) \in Nat /\ \A i \in 1 .. Len(q) + 1 : i \in 1 .. Len(q) \/ i = Len(q) + 1
    OBVIOUS
  <1> QED  BY <1>1

LEMMA Removed ==
    ASSUME NEW q \in Seq(Frame), q # <<>>
    PROVE  /\ Tail(q) \in Seq(Frame) /\ Len(Tail(q)) = Len(q) - 1 /\ Len(q) \in Nat
           /\ Head(q) = q[1] /\ 1 \in 1 .. Len(q) /\ q[1] \in Frame
           /\ \A i \in 1 .. Len(Tail(q)) : i \in Nat /\ i >= 1 /\ i + 1 \in 1 .. Len(q) /\ Tail(q)[i] = q[i + 1]
  <1>1. Tail(q) \in Seq(Frame) /\ Len(Tail(q)) = Len(q) - 1 /\ Len(q) \in Nat /\ Len(q) >= 1
    OBVIOUS
  <1>2. Head(q) = q[1] /\ 1 \in 1 .. Len(q) /\ q[1] \in Frame
    BY <1>1
  <1>3. \A i \in 1 .. Len(q) - 1 : i \in Nat /\ i >= 1 /\ i + 1 \in 1 .. Len(q)
    BY <1>1
  <1>4. \A i \in 1 .. Len(Tail(q)) : Tail(q)[i] = q[i + 1]
    OBVIOUS
  <1> QED  BY <1>1, <1>2, <1>3, <1>4

LEMMA Constants ==
    /\ TsMod \in Nat /\ TsMod >= 1 /\ Reanchor \in Nat /\ Reanchor < TsMod \div 2
    /\ TsMod \div 2 \in Nat /\ Delay \in Nat /\ MaxSleep \in Nat /\ MaxSleep >= 1
    /\ Delay <= MaxSleep /\ Jitter \in Nat /\ Restarts \in Nat /\ Horizon \in Nat
    /\ None \notin Int /\ None \notin Frame
    /\ None \notin [frame : 1 .. Horizon, session : 0 .. Restarts, at : 0 .. Horizon]
    /\ \A b \in Bases : b \in Nat
  <1>1. \A n \in Nat : n >= 1 => n \div 2 \in Nat
    OBVIOUS
  <1>2. TsMod \in Nat /\ TsMod >= 1
    BY PacerAssumption
  <1>3. Frame \subseteq [frame : Nat, session : Nat, ts : Nat]
    BY <1>2, PacerAssumption DEF Frame
  <1>4. [frame : 1 .. Horizon, session : 0 .. Restarts, at : 0 .. Horizon]
            \subseteq [frame : Nat, session : Nat, at : Nat]
    BY PacerAssumption
  <1>5. 0 .. TsMod - 1 \subseteq Nat
    BY <1>2
  <1> QED  BY <1>1, <1>2, <1>3, <1>4, <1>5, PacerAssumption

\* The capped sleep ends at the target, at the cap, or at once.
LEMMA WakeForms ==
    ASSUME now \in Nat, NEW target \in Int
    PROVE  /\ WakeAt(target) \in Nat /\ now <= WakeAt(target) /\ WakeAt(target) <= now + MaxSleep
           /\ WakeAt(target) = now \/ WakeAt(target) <= target
           /\ now <= target /\ target - now <= MaxSleep => WakeAt(target) = target
  BY Constants DEF WakeAt

\* What the writer does with a frame it takes.
LEMMA Taking ==
    ASSUME IInv, Take, NEW k, k = Head(queue)
    PROVE  /\ k \in Frame /\ k.frame = Last + 1 /\ k.session <= session /\ Last' = Last + 1
           /\ k.frame <= now /\ Last \in Nat /\ k # None /\ inHand' = k
           /\ Started => Taken <= k.session
           /\ Started /\ k.session = anchorFrame.session =>
                 /\ SignedDelta(k.ts, anchorTs) = k.frame - anchorFrame.frame
                 /\ k.frame - anchorFrame.frame \in 1 .. Reanchor + 1
                 /\ Taken = anchorFrame.session
  <1>0. TypeOK /\ QueueShape /\ AnchorShape /\ TakenShape /\ ClockShape
    BY DEF IInv
  <1>1. /\ queue \in Seq(Frame) /\ queue # <<>> /\ queue' = Tail(queue) /\ UNCHANGED arrived
        /\ inHand' = Head(queue) /\ arrived \in Nat /\ now \in Nat
    BY <1>0, Constants DEF TypeOK, Take
  <1>2. /\ Len(Tail(queue)) = Len(queue) - 1 /\ Len(queue) \in Nat
        /\ k = queue[1] /\ 1 \in 1 .. Len(queue) /\ queue[1] \in Frame
    BY <1>1, Removed
  <1>3. Last \in Nat /\ Last' = Last + 1 /\ k.frame = Last + 1 /\ k.session <= session
    BY <1>0, <1>1, <1>2 DEF Last, QueueShape
  <1>4. Last + 1 <= now
    BY <1>0, <1>1, <1>2 DEF Last, QueueShape
  <1>5. Started => Taken <= k.session
    BY <1>0, <1>2 DEF TakenShape
  <1>6. ASSUME Started, k.session = anchorFrame.session
        PROVE  /\ SignedDelta(k.ts, anchorTs) = k.frame - anchorFrame.frame
               /\ k.frame - anchorFrame.frame \in 1 .. Reanchor + 1
               /\ Taken = anchorFrame.session
    <2>1. anchorFrame \in Frame /\ inHand = None /\ sentAt # None
      BY <1>0, <1>6 DEF TypeOK, Started, TakenShape, Take
    <2>2. Taken \in Nat /\ anchorFrame.session \in Nat /\ anchorFrame.frame \in Nat
      BY <1>0, <2>1, Constants DEF Taken, TypeOK, Frame
    <2>3. Taken = anchorFrame.session
      BY <1>0, <1>5, <1>6, <2>2 DEF AnchorShape
    <2>4. anchorFrame.frame <= Last /\ Last - anchorFrame.frame <= Reanchor
      BY <1>0, <1>6, <2>3 DEF AnchorShape
    <2>5. k.frame - anchorFrame.frame \in 1 .. Reanchor + 1 /\ k.frame \in Nat
      BY <1>3, <2>2, <2>4, Constants
    <2>6. anchorFrame.frame <= k.frame /\ k.frame - anchorFrame.frame <= TsMod \div 2
      BY <2>2, <2>5, Constants
    <2>7. PICK offset \in [0 .. Restarts -> Nat] : Stamped(queue[1], offset) /\ Stamped(anchorFrame, offset)
      BY <1>0, <1>2, <1>6 DEF ClockShape
    <2>8. offset[k.session] \in Nat /\ anchorTs = anchorFrame.ts
      BY <1>0, <1>2, <1>6 DEF Frame, AnchorShape
    <2>9. /\ k.ts = (offset[k.session] + k.frame) % TsMod
          /\ anchorTs = (offset[k.session] + anchorFrame.frame) % TsMod
      BY <1>2, <1>6, <2>7, <2>8 DEF Stamped
    <2>10. SignedDelta((offset[k.session] + k.frame) % TsMod,
                       (offset[k.session] + anchorFrame.frame) % TsMod) = k.frame - anchorFrame.frame
      <3> DEFINE o == offset[k.session]
                 x == k.frame
                 y == anchorFrame.frame
      <3>1. o \in Nat /\ x \in Nat /\ y \in Nat /\ y <= x /\ x - y <= TsMod \div 2
        BY <2>2, <2>5, <2>6, <2>8
      <3> HIDE DEF o, x, y
      <3>2. SignedDelta((o + x) % TsMod, (o + y) % TsMod) = x - y
        BY <3>1, Distance
      <3> QED  BY <3>2 DEF o, x, y
    <2>11. SignedDelta(k.ts, anchorTs) = k.frame - anchorFrame.frame
      BY <2>9, <2>10, Zenon
    <2> QED  BY <2>3, <2>5, <2>11
  <1> QED  BY <1>1, <1>2, <1>3, <1>4, <1>5, <1>6, Constants

-----------------------------------------------------------------------------
(* The inductive invariant *)

LEMMA StartsWell == Init => IInv
  <1> SUFFICES ASSUME Init  PROVE IInv
    OBVIOUS
  <1>1. TypeOK
    <2>1. queue \in Seq(Frame) /\ 0 \in 0 .. now + MaxSleep
      BY Constants DEF Init
    <2> QED  BY <2>1, Constants DEF Init, TypeOK
  <1>2. QueueShape
    BY DEF Init, QueueShape, Last
  <1>3. AnchorShape /\ TakenShape
    <2>1. ~Started /\ anchorTs = None /\ anchorWall = None /\ inHand = None /\ sentAt = None
      BY DEF Init, Started
    <2>2. Last = 0 /\ now = 0
      <3>1. Len(queue) = 0 /\ arrived = 0 /\ now = 0
        BY DEF Init
      <3> QED  BY <3>1 DEF Last
    <2>3. AnchorShape
      BY <2>1 DEF AnchorShape
    <2>4. now <= Last + 1 + Jitter
      BY <2>2, Constants
    <2> QED  BY <2>1, <2>2, <2>3, <2>4 DEF TakenShape
  <1>4. ClockShape
    <2> DEFINE offset == [s \in 0 .. Restarts |-> base]
    <2>1. offset \in [0 .. Restarts -> Nat] /\ offset[session] = base
      BY Constants DEF Init
    <2>2. ~Started /\ ~(\E i \in 1 .. Len(queue) : TRUE)
      BY DEF Init, Started
    <2> HIDE DEF offset
    <2> QED  BY <2>1, <2>2 DEF ClockShape
  <1> QED  BY <1>1, <1>2, <1>3, <1>4 DEF IInv

LEMMA ArriveKeeps ==
    ASSUME IInv, Arrive
    PROVE  IInv'
  <1> DEFINE m == [frame |-> arrived + 1, session |-> session, ts |-> (base + (arrived + 1)) % TsMod]
  <1>0. TypeOK /\ QueueShape /\ AnchorShape /\ TakenShape /\ ClockShape
    BY DEF IInv
  <1>1. /\ arrived < now /\ arrived' = arrived + 1 /\ queue' = Append(queue, m)
        /\ UNCHANGED <<now, base, session, anchorTs, anchorWall, anchorFrame, inHand, wake, sentAt>>
    BY DEF Arrive
  <1>2. /\ now \in 0 .. Horizon /\ arrived \in Nat /\ session \in 0 .. Restarts
        /\ base \in Nat /\ queue \in Seq(Frame)
    BY <1>0, Constants DEF TypeOK
  <1>3. m \in Frame
    <2>1. (base + (arrived + 1)) % TsMod \in 0 .. TsMod - 1
      BY <1>2, Constants, ModRange
    <2>2. arrived + 1 \in 1 .. Horizon
      BY <1>1, <1>2, Constants
    <2> QED  BY <1>2, <2>1, <2>2 DEF Frame
  <1>4. /\ queue' \in Seq(Frame) /\ Len(queue') = Len(queue) + 1 /\ Len(queue) \in Nat
        /\ queue'[Len(queue) + 1] = m
        /\ \A i \in 1 .. Len(queue) : queue'[i] = queue[i]
        /\ \A i \in 1 .. Len(queue') : i \in 1 .. Len(queue) \/ i = Len(queue) + 1
    <2>1. /\ Append(queue, m) \in Seq(Frame) /\ Len(Append(queue, m)) = Len(queue) + 1
          /\ Len(queue) \in Nat /\ Append(queue, m)[Len(queue) + 1] = m
          /\ \A i \in 1 .. Len(queue) : Append(queue, m)[i] = queue[i]
          /\ \A i \in 1 .. Len(queue) + 1 : i \in 1 .. Len(queue) \/ i = Len(queue) + 1
      <3> HIDE DEF m
      <3> QED  BY <1>2, <1>3, Appended
    <2> HIDE DEF m
    <2> QED  BY <1>1, <2>1
  <1>5. m.frame = arrived + 1 /\ m.session = session /\ m.ts = (base + (arrived + 1)) % TsMod
    OBVIOUS
  <1> HIDE DEF m
  <1>6. Last' = Last /\ Last + (Len(queue) + 1) = arrived + 1 /\ Last \in Int
    BY <1>1, <1>2, <1>4 DEF Last
  <1>7. Taken' = Taken /\ Started' = Started
    BY <1>1 DEF Taken, Started
  <1>8. TypeOK'
    <2>1. arrived + 1 \in 0 .. Horizon
      BY <1>1, <1>2, Constants
    <2> QED  BY <1>0, <1>1, <1>4, <2>1 DEF TypeOK
  <1>9. QueueShape'
    <2>1. arrived' <= now' /\ Len(queue') <= arrived'
      BY <1>0, <1>1, <1>2, <1>4 DEF QueueShape
    <2>2. ASSUME NEW i \in 1 .. Len(queue')
          PROVE  queue'[i].frame = Last' + i /\ queue'[i].session <= session'
      <3>1. CASE i \in 1 .. Len(queue)
        BY <1>0, <1>1, <1>4, <1>6, <3>1 DEF QueueShape
      <3>2. CASE i = Len(queue) + 1
        <4>1. queue'[i].frame = arrived + 1 /\ queue'[i].session = session
          BY <1>4, <1>5, <3>2
        <4> QED  BY <1>1, <1>2, <1>6, <3>2, <4>1
      <3> QED  BY <1>4, <3>1, <3>2
    <2>3. ASSUME NEW i \in 1 .. Len(queue'), NEW j \in 1 .. Len(queue'), i <= j
          PROVE  queue'[i].session <= queue'[j].session
      <3>1. CASE i \in 1 .. Len(queue) /\ j \in 1 .. Len(queue)
        BY <1>0, <1>4, <2>3, <3>1 DEF QueueShape
      <3>2. CASE j = Len(queue) + 1
        <4>1. queue'[j].session = session /\ queue'[i].session <= session
          BY <1>1, <1>4, <1>5, <2>2, <3>2
        <4> QED  BY <4>1
      <3>3. CASE i = Len(queue) + 1 /\ j \in 1 .. Len(queue)
        BY <1>4, <2>3, <3>3
      <3> QED  BY <1>4, <3>1, <3>2, <3>3
    <2> QED  BY <2>1, <2>2, <2>3 DEF QueueShape
  <1>10. AnchorShape'
    BY <1>0, <1>1, <1>6, <1>7 DEF AnchorShape
  <1>11. TakenShape'
    <2>1. ASSUME Started, NEW i \in 1 .. Len(queue')  PROVE Taken <= queue'[i].session
      <3>1. CASE i \in 1 .. Len(queue)
        BY <1>0, <1>4, <2>1, <3>1 DEF TakenShape
      <3>2. CASE i = Len(queue) + 1
        BY <1>0, <1>4, <1>5, <2>1, <3>2 DEF TakenShape
      <3> QED  BY <1>4, <3>1, <3>2
    <2>2. Started => Taken <= session
      BY <1>0 DEF TakenShape
    <2> QED  BY <1>0, <1>1, <1>6, <1>7, <2>1, <2>2 DEF TakenShape
  <1>12. ClockShape'
    <2>1. PICK offset \in [0 .. Restarts -> Nat] :
              /\ offset[session] = base
              /\ \A i \in 1 .. Len(queue) : Stamped(queue[i], offset)
              /\ Started => Stamped(anchorFrame, offset)
      BY <1>0 DEF ClockShape
    <2>2. Stamped(m, offset)
      BY <1>5, <2>1 DEF Stamped
    <2>3. \A i \in 1 .. Len(queue') : Stamped(queue'[i], offset)
      BY <1>4, <2>1, <2>2 DEF Stamped
    <2>4. Started' => Stamped(anchorFrame', offset)
      BY <1>1, <1>7, <2>1 DEF Stamped
    <2>5. offset[session'] = base'
      BY <1>1, <2>1
    <2> QED  BY <2>3, <2>4, <2>5 DEF ClockShape, Stamped
  <1> QED  BY <1>8, <1>9, <1>10, <1>11, <1>12 DEF IInv

LEMMA RestartKeeps ==
    ASSUME IInv, Restart
    PROVE  IInv'
  <1>0. TypeOK /\ QueueShape /\ AnchorShape /\ TakenShape /\ ClockShape
    BY DEF IInv
  <1>1. /\ session < Restarts /\ session' = session + 1 /\ base' \in Bases
        /\ UNCHANGED <<now, arrived, queue, anchorTs, anchorWall, anchorFrame, inHand, wake, sentAt>>
    BY DEF Restart
  <1>2. session \in Nat /\ session' \in 0 .. Restarts /\ base' \in Nat /\ queue \in Seq(Frame)
    BY <1>0, <1>1, Constants DEF TypeOK
  <1>3. Last' = Last /\ Taken' = Taken /\ Started' = Started
    BY <1>1 DEF Last, Taken, Started
  <1>4. \A i \in 1 .. Len(queue) : queue[i] \in Frame /\ queue[i].session \in Nat
                                   /\ queue[i].session <= session
    <2>1. \A i \in 1 .. Len(queue) : queue[i] \in Frame
      BY <1>2
    <2> QED  BY <1>0, <2>1, Constants DEF QueueShape, Frame
  <1>5. Started => /\ anchorFrame \in Frame /\ anchorFrame.session \in Nat
                   /\ anchorFrame.session <= session /\ Taken <= session
    <2>1. Started => anchorFrame \in Frame
      BY <1>0 DEF TypeOK, Started
    <2>2. Started => anchorFrame.session \in Nat
      BY <2>1, Constants DEF Frame
    <2>3. Started => Taken \in Nat
      BY <1>0, Constants DEF TakenShape, Taken, TypeOK, Frame
    <2> QED  BY <1>0, <1>2, <2>1, <2>2, <2>3 DEF AnchorShape, TakenShape
  <1>6. TypeOK'
    BY <1>0, <1>1, <1>2 DEF TypeOK
  <1>7. QueueShape'
    <2>1. \A i \in 1 .. Len(queue) : queue[i].session <= session + 1
      BY <1>2, <1>4
    <2> QED  BY <1>0, <1>1, <1>3, <2>1 DEF QueueShape
  <1>8. AnchorShape'
    BY <1>0, <1>1, <1>3 DEF AnchorShape
  <1>9. TakenShape'
    <2>1. Started => Taken \in Nat
      BY <1>0, Constants DEF TakenShape, Taken, TypeOK, Frame
    <2>2. Started => Taken <= session + 1
      BY <1>2, <1>5, <2>1
    <2> QED  BY <1>0, <1>1, <1>3, <2>2 DEF TakenShape
  <1>10. ClockShape'
    <2>1. PICK offset \in [0 .. Restarts -> Nat] :
              /\ \A i \in 1 .. Len(queue) : Stamped(queue[i], offset)
              /\ Started => Stamped(anchorFrame, offset)
      BY <1>0 DEF ClockShape
    <2> DEFINE other == [offset EXCEPT ![session'] = base']
    <2>2. /\ other \in [0 .. Restarts -> Nat] /\ other[session'] = base'
          /\ \A s \in 0 .. Restarts : s # session' => other[s] = offset[s]
      BY <1>2
    <2> HIDE DEF other
    <2>3. \A s \in Nat : s <= session => s \in 0 .. Restarts /\ s # session'
      BY <1>1, <1>2, Constants
    <2>4. \A i \in 1 .. Len(queue) : Stamped(queue[i], other)
      BY <1>4, <2>1, <2>2, <2>3 DEF Stamped
    <2>5. Started => Stamped(anchorFrame, other)
      BY <1>5, <2>1, <2>2, <2>3 DEF Stamped
    <2>6. \A i \in 1 .. Len(queue') : Stamped(queue'[i], other)
      BY <1>1, <2>4 DEF Stamped
    <2>7. Started' => Stamped(anchorFrame', other)
      BY <1>1, <1>3, <2>5 DEF Stamped
    <2> QED  BY <2>2, <2>6, <2>7 DEF ClockShape, Stamped
  <1> QED  BY <1>6, <1>7, <1>8, <1>9, <1>10 DEF IInv

LEMMA TakeKeeps ==
    ASSUME IInv, Take
    PROVE  IInv'
  <1> DEFINE k == Head(queue)
  <1>0. TypeOK /\ QueueShape /\ AnchorShape /\ TakenShape /\ ClockShape
    BY DEF IInv
  <1>1. /\ inHand = None /\ queue # <<>> /\ inHand' = k /\ queue' = Tail(queue)
        /\ wake' = WakeAt(Target(k.ts))
        /\ UNCHANGED <<now, base, session, arrived, sentAt>>
        /\ \/ Anchors(k.ts) /\ anchorTs' = k.ts /\ anchorWall' = now /\ anchorFrame' = k
           \/ ~Anchors(k.ts) /\ UNCHANGED <<anchorTs, anchorWall, anchorFrame>>
    BY DEF Take
  <1>2. /\ k \in Frame /\ k.frame = Last + 1 /\ k.session <= session /\ Last' = Last + 1
        /\ k.frame <= now /\ Last \in Nat /\ k # None
        /\ Started => Taken <= k.session
        /\ Started /\ k.session = anchorFrame.session =>
              SignedDelta(k.ts, anchorTs) = k.frame - anchorFrame.frame
    BY Taking
  <1>3. /\ queue \in Seq(Frame) /\ Tail(queue) \in Seq(Frame)
        /\ Len(Tail(queue)) = Len(queue) - 1 /\ Len(queue) \in Nat /\ k = queue[1]
        /\ 1 \in 1 .. Len(queue)
        /\ \A i \in 1 .. Len(Tail(queue)) :
              i \in Nat /\ i >= 1 /\ i + 1 \in 1 .. Len(queue) /\ Tail(queue)[i] = queue[i + 1]
    BY <1>0, <1>1, Removed DEF TypeOK
  <1> HIDE DEF k
  <1>4. now \in Nat /\ now \in 0 .. Horizon /\ arrived \in Nat /\ k.session \in 0 .. Restarts
        /\ k.frame \in Nat /\ k.ts \in 0 .. TsMod - 1 /\ k.ts \in Int
    BY <1>0, <1>2, Constants DEF TypeOK, Frame
  <1>5. /\ anchorTs # None => anchorTs \in Int /\ anchorWall \in Int /\ Started
        /\ Started => anchorFrame \in Frame /\ anchorTs \in Int /\ anchorWall \in Int
    BY <1>0, Constants DEF TypeOK, AnchorShape, Started
  <1>6. Target(k.ts) \in Int
    <2>1. CASE Anchors(k.ts)
      BY <1>4, <2>1, Constants DEF Target
    <2>2. CASE ~Anchors(k.ts)
      <3>1. anchorTs # None
        BY <2>2 DEF Anchors
      <3>2. SignedDelta(k.ts, anchorTs) \in Int
        BY <1>4, <1>5, <3>1, DeltaIsInteger
      <3> QED  BY <1>5, <2>2, <3>1, <3>2, Constants DEF Target
    <2> QED  BY <2>1, <2>2
  <1>7. wake' \in Nat /\ now <= wake' /\ wake' <= now + MaxSleep
    BY <1>1, <1>4, <1>6, WakeForms
  <1>8. /\ Taken' = k.session /\ Started' /\ inHand' # None /\ now' = now /\ Last' = k.frame
        /\ anchorTs' # None /\ anchorWall' # None
    <2>1. CASE Anchors(k.ts)
      BY <1>1, <1>2, <1>4, <2>1, Constants DEF Taken, Started
    <2>2. CASE ~Anchors(k.ts)
      <3>1. anchorTs # None
        BY <2>2 DEF Anchors
      <3> QED  BY <1>1, <1>2, <1>5, <2>2, <3>1, Constants DEF Taken, Started
    <2> QED  BY <2>1, <2>2
  <1>9. TypeOK'
    <2>1. wake' \in 0 .. now' + MaxSleep
      BY <1>4, <1>7, <1>8, Constants
    <2>2. anchorTs' \in 0 .. TsMod - 1 \cup {None} /\ anchorWall' \in 0 .. Horizon \cup {None}
          /\ anchorFrame' \in Frame \cup {None}
      BY <1>0, <1>1, <1>2, <1>4 DEF TypeOK
    <2> QED  BY <1>0, <1>1, <1>2, <1>3, <2>1, <2>2 DEF TypeOK
  <1>10. QueueShape'
    <2>1. Len(Tail(queue)) <= arrived /\ arrived <= now
      BY <1>0, <1>3, <1>4 DEF QueueShape
    <2>2. \A i \in 1 .. Len(Tail(queue)) :
             Tail(queue)[i].frame = Last + 1 + i /\ Tail(queue)[i].session <= session
      <3> TAKE i \in 1 .. Len(Tail(queue))
      <3>1. i \in Nat /\ i + 1 \in 1 .. Len(queue) /\ Tail(queue)[i] = queue[i + 1]
        BY <1>3
      <3>2. queue[i + 1].frame = Last + (i + 1) /\ queue[i + 1].session <= session
        BY <1>0, <3>1 DEF QueueShape
      <3>3. Last + (i + 1) = Last + 1 + i
        BY <1>2, <3>1
      <3> QED  BY <3>1, <3>2, <3>3
    <2>3. \A i, j \in 1 .. Len(Tail(queue)) :
             i <= j => Tail(queue)[i].session <= Tail(queue)[j].session
      <3> TAKE i, j \in 1 .. Len(Tail(queue))
      <3>1. /\ i \in Nat /\ i + 1 \in 1 .. Len(queue) /\ Tail(queue)[i] = queue[i + 1]
            /\ j \in Nat /\ j + 1 \in 1 .. Len(queue) /\ Tail(queue)[j] = queue[j + 1]
        BY <1>3
      <3>2. i <= j => i + 1 <= j + 1
        BY <3>1
      <3> QED  BY <1>0, <3>1, <3>2 DEF QueueShape
    <2>4. queue' = Tail(queue) /\ arrived' = arrived /\ now' = now /\ session' = session
          /\ Last' = Last + 1
      BY <1>1, <1>2
    <2> QED  BY <2>1, <2>2, <2>3, <2>4 DEF QueueShape
  <1>11. AnchorShape'
    <2>1. CASE Anchors(k.ts)
      <3>1. anchorTs' = k.ts /\ anchorWall' = now /\ anchorFrame' = k
        BY <1>1, <2>1
      <3>2. k.frame - k.frame <= Reanchor /\ k.session <= k.session /\ k.frame <= k.frame /\ now <= now
        BY <1>4, Constants
      <3> QED  BY <1>2, <1>8, <3>1, <3>2 DEF AnchorShape
    <2>2. CASE ~Anchors(k.ts)
      <3>1. /\ anchorTs # None /\ UNCHANGED <<anchorTs, anchorWall, anchorFrame>>
            /\ ~(Magnitude(SignedDelta(k.ts, anchorTs)) > Reanchor)
        BY <1>1, <2>2 DEF Anchors
      <3>2. /\ Started /\ anchorFrame \in Frame /\ anchorFrame.session \in Nat
            /\ anchorFrame.frame \in Nat /\ Taken \in Nat
        BY <1>0, <1>5, <3>1, Constants DEF Frame, Taken, TypeOK, TakenShape
      <3>3. /\ anchorTs = anchorFrame.ts /\ anchorFrame.frame <= anchorWall /\ anchorWall <= now
            /\ anchorFrame.session <= Taken /\ anchorFrame.frame <= Last
        BY <1>0, <3>2 DEF AnchorShape
      <3>4. anchorFrame.session <= k.session /\ anchorFrame.frame <= k.frame
        BY <1>2, <1>4, <3>2, <3>3
      <3>5. k.session = anchorFrame.session => k.frame - anchorFrame.frame <= Reanchor
        <4> SUFFICES ASSUME k.session = anchorFrame.session
                     PROVE  k.frame - anchorFrame.frame <= Reanchor
          OBVIOUS
        <4>1. Magnitude(k.frame - anchorFrame.frame) <= Reanchor
          BY <1>2, <1>4, <3>1, <3>2, Constants DEF Magnitude
        <4> QED  BY <1>4, <3>2, <3>4, <4>1, Constants DEF Magnitude
      <3> QED  BY <1>8, <3>1, <3>3, <3>4, <3>5 DEF AnchorShape
    <2> QED  BY <2>1, <2>2
  <1>12. TakenShape'
    <2>1. \A i \in 1 .. Len(Tail(queue)) : k.session <= Tail(queue)[i].session
      <3> TAKE i \in 1 .. Len(Tail(queue))
      <3>1. i \in Nat /\ i + 1 \in 1 .. Len(queue) /\ Tail(queue)[i] = queue[i + 1] /\ 1 <= i + 1
        BY <1>3
      <3> QED  BY <1>0, <1>3, <3>1 DEF QueueShape
    <2>2. queue' = Tail(queue) /\ session' = session /\ inHand' = k
      BY <1>1
    <2> QED  BY <1>2, <1>7, <1>8, <2>1, <2>2 DEF TakenShape
  <1>13. ClockShape'
    <2>1. PICK offset \in [0 .. Restarts -> Nat] :
              /\ offset[session] = base
              /\ \A i \in 1 .. Len(queue) : Stamped(queue[i], offset)
              /\ Started => Stamped(anchorFrame, offset)
      BY <1>0 DEF ClockShape
    <2>2. Stamped(k, offset) /\ \A i \in 1 .. Len(Tail(queue)) : Stamped(Tail(queue)[i], offset)
      BY <1>3, <2>1 DEF Stamped
    <2>3. Started' => Stamped(anchorFrame', offset)
      <3>1. CASE Anchors(k.ts)
        BY <1>1, <2>2, <3>1 DEF Stamped
      <3>2. CASE ~Anchors(k.ts)
        <4>1. anchorFrame' = anchorFrame /\ Started
          BY <1>1, <1>5, <3>2 DEF Anchors
        <4> QED  BY <2>1, <4>1 DEF Stamped
      <3> QED  BY <3>1, <3>2
    <2>4. \A i \in 1 .. Len(queue') : Stamped(queue'[i], offset)
      BY <1>1, <2>2 DEF Stamped
    <2>5. offset[session'] = base'
      BY <1>1, <2>1
    <2> QED  BY <2>3, <2>4, <2>5 DEF ClockShape, Stamped
  <1> QED  BY <1>9, <1>10, <1>11, <1>12, <1>13 DEF IInv

\* The frame in hand leaves when its sleep ends, not later.
LEMMA Sending ==
    ASSUME IInv, Send
    PROVE  /\ now = wake /\ now \in Nat /\ inHand.frame = Last /\ Last \in Nat /\ Started
           /\ inHand.session \in Nat /\ Taken = inHand.session
           /\ sentAt' = [frame |-> Last, session |-> Taken, at |-> now]
           /\ sentAt' # None /\ inHand' = None
           /\ Last' = Last /\ Taken' = Taken /\ Started'
           /\ UNCHANGED <<now, base, session, arrived, queue, anchorTs, anchorWall,
                          anchorFrame, wake>>
  <1>0. TypeOK /\ TakenShape
    BY DEF IInv
  <1>1. /\ inHand # None /\ wake <= now
        /\ sentAt' = [frame |-> inHand.frame, session |-> inHand.session, at |-> now]
        /\ inHand' = None
        /\ UNCHANGED <<now, base, session, arrived, queue, anchorTs, anchorWall,
                       anchorFrame, wake>>
    BY DEF Send
  <1>2. inHand.frame = Last /\ now <= wake /\ Started
    BY <1>0, <1>1 DEF TakenShape
  <1>3. /\ now \in 0 .. Horizon /\ now \in Nat /\ wake \in Nat /\ inHand \in Frame
        /\ inHand.frame \in 1 .. Horizon /\ inHand.session \in 0 .. Restarts
    BY <1>0, <1>1, Constants DEF TypeOK, Frame
  <1>4. now = wake
    BY <1>1, <1>2, <1>3
  <1>5. sentAt' \in [frame : 1 .. Horizon, session : 0 .. Restarts, at : 0 .. Horizon]
    BY <1>1, <1>3
  <1>6. sentAt' # None
    BY <1>5, Constants
  <1>7. Taken = inHand.session /\ Taken' = sentAt'.session /\ Started' = Started /\ Last' = Last
    BY <1>1 DEF Taken, Started, Last
  <1>8. sentAt'.session = inHand.session
    BY <1>1
  <1>9. Last \in Nat /\ inHand.session \in Nat
    BY <1>2, <1>3, Constants
  <1> QED  BY <1>1, <1>2, <1>3, <1>4, <1>6, <1>7, <1>8, <1>9

LEMMA SendKeeps ==
    ASSUME IInv, Send
    PROVE  IInv'
  <1>0. TypeOK /\ QueueShape /\ AnchorShape /\ TakenShape /\ ClockShape
    BY DEF IInv
  <1>1. /\ now = wake /\ now \in Nat /\ inHand.frame = Last /\ Started
        /\ sentAt' = [frame |-> Last, session |-> Taken, at |-> now]
        /\ sentAt' # None /\ inHand' = None /\ Taken = inHand.session
        /\ Last' = Last /\ Taken' = Taken /\ Started'
    BY Sending
  <1>2. UNCHANGED <<now, base, session, arrived, queue, anchorTs, anchorWall, anchorFrame, wake>>
    BY Sending
  <1>3. inHand # None
    BY DEF Send
  <1>4. TypeOK'
    <2>1. now \in 0 .. Horizon /\ Last \in 1 .. Horizon /\ Taken \in 0 .. Restarts
      BY <1>0, <1>1, <1>3 DEF TypeOK, Frame
    <2>2. sentAt' \in [frame : 1 .. Horizon, session : 0 .. Restarts, at : 0 .. Horizon]
      BY <1>1, <2>1
    <2> QED  BY <1>0, <1>1, <1>2, <2>2 DEF TypeOK
  <1>5. QueueShape'
    BY <1>0, <1>1, <1>2 DEF QueueShape
  <1>6. AnchorShape'
    BY <1>0, <1>1, <1>2 DEF AnchorShape
  <1>7. TakenShape'
    <2>1. sentAt'.frame = Last /\ sentAt'.at = now
      BY <1>1
    <2>2. wake <= now
      BY <1>1
    <2> QED  BY <1>0, <1>1, <1>2, <2>1, <2>2 DEF TakenShape
  <1>8. ClockShape'
    BY <1>0, <1>1, <1>2 DEF ClockShape, Stamped
  <1> QED  BY <1>4, <1>5, <1>6, <1>7, <1>8 DEF IInv

LEMMA TickKeeps ==
    ASSUME IInv, Tick
    PROVE  IInv'
  <1>0. TypeOK /\ QueueShape /\ AnchorShape /\ TakenShape /\ ClockShape
    BY DEF IInv
  <1>1. /\ now < Horizon /\ now < arrived + 1 + Jitter /\ now' = now + 1
        /\ (inHand = None /\ queue = <<>>) \/ (inHand # None /\ wake > now)
        /\ UNCHANGED <<base, session, arrived, queue, anchorTs, anchorWall, anchorFrame,
                       inHand, wake, sentAt>>
    BY DEF Tick
  <1>2. now \in Nat /\ arrived \in Nat /\ wake \in Nat /\ (anchorWall # None => anchorWall \in Nat)
        /\ now \in 0 .. Horizon
    BY <1>0, Constants DEF TypeOK
  <1>3. Last' = Last /\ Taken' = Taken /\ Started' = Started
    BY <1>1 DEF Last, Taken, Started
  <1>4. TypeOK'
    <2>1. now' \in 0 .. Horizon
      BY <1>1, <1>2, Constants
    <2>2. wake \in 0 .. now' + MaxSleep
      <3>1. wake \in 0 .. now + MaxSleep
        BY <1>0 DEF TypeOK
      <3> QED  BY <1>1, <1>2, <3>1, Constants
    <2> QED  BY <1>0, <1>1, <2>1, <2>2 DEF TypeOK
  <1>5. QueueShape'
    <2>1. arrived <= now'
      BY <1>0, <1>1, <1>2 DEF QueueShape
    <2> QED  BY <1>0, <1>1, <1>3, <2>1 DEF QueueShape
  <1>6. AnchorShape'
    <2>1. Started => anchorWall <= now'
      <3> SUFFICES ASSUME Started  PROVE anchorWall <= now'
        OBVIOUS
      <3>1. anchorWall # None /\ anchorWall <= now
        BY <1>0 DEF AnchorShape
      <3> QED  BY <1>1, <1>2, <3>1
    <2> QED  BY <1>0, <1>1, <1>3, <2>1 DEF AnchorShape
  <1>7. TakenShape'
    <2>1. inHand # None => inHand.frame = Last /\ now' <= wake
      <3>1. inHand # None => now + 1 <= wake
        BY <1>1, <1>2
      <3> QED  BY <1>0, <1>1, <3>1 DEF TakenShape
    <2>2. inHand = None /\ sentAt # None =>
             sentAt.frame = Last /\ sentAt.at = wake /\ wake <= now'
      BY <1>0, <1>1, <1>2 DEF TakenShape
    <2>3. inHand = None => now' <= Last + 1 + Jitter
      <3> SUFFICES ASSUME inHand = None  PROVE now' <= Last + 1 + Jitter
        OBVIOUS
      <3>1. Last = arrived
        BY <1>1, <1>2 DEF Last
      <3> QED  BY <1>1, <1>2, <3>1, Constants
    <2> QED  BY <1>0, <1>1, <1>3, <2>1, <2>2, <2>3 DEF TakenShape
  <1>8. ClockShape'
    BY <1>0, <1>1, <1>3 DEF ClockShape, Stamped
  <1> QED  BY <1>4, <1>5, <1>6, <1>7, <1>8 DEF IInv

LEMMA NothingKeeps ==
    ASSUME IInv, UNCHANGED vars
    PROVE  IInv'
  <1>1. UNCHANGED <<now, base, session, arrived, queue, anchorTs, anchorWall, anchorFrame,
                    inHand, wake, sentAt>>
    BY DEF vars
  <1>2. Last' = Last /\ Taken' = Taken /\ Started' = Started
    BY <1>1 DEF Last, Taken, Started
  <1>3. TypeOK'
    BY <1>1 DEF IInv, TypeOK
  <1>4. QueueShape' /\ AnchorShape'
    BY <1>1, <1>2 DEF IInv, QueueShape, AnchorShape
  <1>5. TakenShape'
    BY <1>1, <1>2 DEF IInv, TakenShape
  <1>6. ClockShape'
    BY <1>1, <1>2 DEF IInv, ClockShape, Stamped
  <1> QED  BY <1>3, <1>4, <1>5, <1>6 DEF IInv

LEMMA StepKeeps == IInv /\ [Next]_vars => IInv'
  BY ArriveKeeps, RestartKeeps, TakeKeeps, SendKeeps, TickKeeps, NothingKeeps DEF Next

\* The inductive invariant holds in every state of the writer and its queue
\* (rtsp_server.py:384-417, 448-483).
THEOREM Invariant == Spec => []IInv
  <1> QED  BY StartsWell, StepKeeps, PTL DEF Spec

\* Every variable keeps its kind, and no sleep is longer than the cap
\* (rtsp_server.py:399-402).
THEOREM TypeCorrect == Spec => []TypeOK
  <1>1. IInv => TypeOK
    BY DEF IInv
  <1> QED  BY <1>1, Invariant, PTL

-----------------------------------------------------------------------------
(* The age of the frames *)

\* The writer takes a frame: the kinds of what it compares, and what it knows of the
\* anchor there was.
LEMMA TakingKinds ==
    ASSUME IInv, Take, NEW k, k = Head(queue)
    PROVE  /\ now \in Nat /\ wake \in Nat /\ Last \in Nat /\ k.frame \in Nat /\ k.session \in Nat
           /\ k.ts \in Int /\ wake' \in Nat /\ now' = now /\ sentAt' = sentAt
           /\ k.frame = Last + 1 /\ Last' = k.frame /\ Taken' = k.session /\ k.frame <= now
           /\ wake' = WakeAt(Target(k.ts)) /\ Target(k.ts) \in Int
           /\ now <= Last + 1 + Jitter \/ (Started /\ now = wake)
           /\ Started => /\ anchorFrame.frame \in Nat /\ anchorFrame.session \in Nat
                         /\ Taken \in Nat /\ anchorTs \in Int /\ anchorWall \in Nat
                         /\ anchorFrame.frame <= k.frame
                         /\ anchorFrame.session <= Taken /\ Taken <= k.session
           /\ (anchorTs = None) = FALSE <=> Started
           /\ \/ Anchors(k.ts) /\ anchorWall' = now /\ anchorFrame' = k
              \/ ~Anchors(k.ts) /\ Started /\ UNCHANGED <<anchorTs, anchorWall, anchorFrame>>
  <1>0. TypeOK /\ AnchorShape /\ TakenShape
    BY DEF IInv
  <1>1. /\ inHand = None /\ inHand' = k /\ wake' = WakeAt(Target(k.ts))
        /\ UNCHANGED <<now, base, session, arrived, sentAt>>
        /\ \/ Anchors(k.ts) /\ anchorWall' = now /\ anchorFrame' = k
           \/ ~Anchors(k.ts) /\ UNCHANGED <<anchorTs, anchorWall, anchorFrame>>
    BY DEF Take
  <1>2. /\ k \in Frame /\ k.frame = Last + 1 /\ Last' = Last + 1 /\ k.frame <= now /\ Last \in Nat
        /\ k # None /\ inHand' = k /\ (Started => Taken <= k.session)
    BY Taking
  <1>3. now \in Nat /\ wake \in Nat /\ k.frame \in Nat /\ k.session \in Nat /\ k.ts \in Int
    BY <1>0, <1>2, Constants DEF TypeOK, Frame
  <1>4. Taken' = k.session /\ Last' = k.frame
    BY <1>1, <1>2 DEF Taken
  <1>5. (anchorTs = None) = FALSE <=> Started
    BY <1>0 DEF AnchorShape
  <1>6. now <= Last + 1 + Jitter \/ (Started /\ now = wake)
    BY <1>0, <1>1 DEF TakenShape
  <1>7. ASSUME Started
        PROVE  /\ anchorFrame.frame \in Nat /\ anchorFrame.session \in Nat
               /\ Taken \in Nat /\ anchorTs \in Int /\ anchorWall \in Nat
               /\ anchorFrame.frame <= k.frame
               /\ anchorFrame.session <= Taken /\ Taken <= k.session
    <2>1. anchorFrame \in Frame /\ anchorTs # None /\ anchorWall # None
      BY <1>0, <1>7 DEF TypeOK, AnchorShape, Started
    <2>2. anchorFrame.frame \in Nat /\ anchorFrame.session \in Nat /\ anchorTs \in Int
          /\ anchorWall \in Nat
      BY <1>0, <2>1, Constants DEF TypeOK, Frame
    <2>3. Taken \in Nat
      BY <1>0, <1>7, Constants DEF TypeOK, Frame, Taken, TakenShape
    <2>4. anchorFrame.frame <= Last /\ anchorFrame.session <= Taken
      BY <1>0, <1>7 DEF AnchorShape
    <2>5. anchorFrame.frame <= k.frame
      BY <1>2, <2>2, <2>4
    <2> QED  BY <1>2, <1>7, <2>2, <2>3, <2>4, <2>5
  <1>8. Target(k.ts) \in Int
    <2>1. CASE Anchors(k.ts)
      BY <1>3, <2>1, Constants DEF Target
    <2>2. CASE ~Anchors(k.ts)
      <3>1. anchorTs # None
        BY <2>2 DEF Anchors
      <3>2. Started /\ anchorTs \in Int /\ anchorWall \in Nat
        BY <1>5, <1>7, <3>1
      <3>3. SignedDelta(k.ts, anchorTs) \in Int
        BY <1>3, <3>2, DeltaIsInteger
      <3> QED  BY <2>2, <3>2, <3>3, Constants DEF Target
    <2> QED  BY <2>1, <2>2
  <1>9. wake' \in Nat
    BY <1>1, <1>3, <1>8, WakeForms
  <1>10. ~Anchors(k.ts) => Started
    BY <1>5 DEF Anchors
  <1> QED  BY <1>1, <1>2, <1>3, <1>4, <1>5, <1>6, <1>7, <1>8, <1>9, <1>10

\* A frame that becomes the anchor waits one Delay from now on.
LEMMA Anchoring ==
    ASSUME IInv, Take, NEW k, k = Head(queue), Anchors(k.ts)
    PROVE  wake' = now + Delay
  <1>1. now \in Nat /\ wake' = WakeAt(Target(k.ts)) /\ Target(k.ts) \in Int
    BY TakingKinds
  <1>2. Target(k.ts) = now + Delay
    BY DEF Target
  <1> QED  BY <1>1, <1>2, WakeForms, Constants

\* An anchor that is replaced is a threshold behind the frame that replaces it, or of an
\* earlier session.
LEMMA Replacing ==
    ASSUME IInv, Take, NEW k, k = Head(queue), Anchors(k.ts), Started,
           k.session = anchorFrame.session
    PROVE  k.frame - anchorFrame.frame > Reanchor
  <1>1. anchorFrame.frame \in Nat /\ k.frame \in Nat /\ anchorFrame.frame <= k.frame /\ anchorTs # None
    BY TakingKinds
  <1>2. SignedDelta(k.ts, anchorTs) = k.frame - anchorFrame.frame
    BY Taking
  <1>3. Magnitude(SignedDelta(k.ts, anchorTs)) > Reanchor
    BY <1>1 DEF Anchors
  <1>4. Magnitude(k.frame - anchorFrame.frame) > Reanchor
    BY <1>2, <1>3
  <1> QED  BY <1>1, <1>4 DEF Magnitude

\* An anchor that holds: the frame waits for its target, if that is not past.
LEMMA Holding ==
    ASSUME IInv, Take, NEW k, k = Head(queue), ~Anchors(k.ts),
           NEW t, t = anchorWall + Delay + SignedDelta(k.ts, anchorTs)
    PROVE  /\ t \in Int /\ (wake' = now \/ wake' <= t)
           /\ SignedDelta(k.ts, anchorTs) \in Int /\ SignedDelta(k.ts, anchorTs) <= Reanchor
           /\ now <= t /\ t - now <= MaxSleep => wake' = t
  <1>1. /\ now \in Nat /\ wake' = WakeAt(Target(k.ts)) /\ Target(k.ts) \in Int
        /\ k.ts \in Int /\ anchorTs \in Int
    BY TakingKinds
  <1>2. Target(k.ts) = t
    BY DEF Target
  <1>3. SignedDelta(k.ts, anchorTs) \in Int
    BY <1>1, DeltaIsInteger
  <1>4. SignedDelta(k.ts, anchorTs) <= Reanchor
    <2>1. ~(Magnitude(SignedDelta(k.ts, anchorTs)) > Reanchor)
      BY DEF Anchors
    <2> QED  BY <1>3, <2>1, Constants DEF Magnitude
  <1>5. wake' = WakeAt(t) /\ t \in Int
    BY <1>1, <1>2
  <1>6. (WakeAt(t) = now \/ WakeAt(t) <= t) /\ (now <= t /\ t - now <= MaxSleep => WakeAt(t) = t)
    BY <1>1, <1>5, WakeForms
  <1> QED  BY <1>3, <1>4, <1>5, <1>6

\* The bound on the latency is the age allowed and one Delay more.
LEMMA OneMoreDelay ==
    \A f, s \in Nat :
        Jitter + Delay * (1 + f \div (Reanchor + 1)) + (Reanchor + Delay) * s = Allowed(f, s) + Delay
  <1> SUFFICES ASSUME NEW f \in Nat, NEW s \in Nat
               PROVE  Jitter + Delay * (1 + f \div (Reanchor + 1)) + (Reanchor + Delay) * s
                         = Allowed(f, s) + Delay
    OBVIOUS
  <1> DEFINE a == f \div (Reanchor + 1)
             c == (Reanchor + Delay) * s
  <1>1. \A n \in Nat, x \in Nat : n >= 1 => x \div n \in Nat
    OBVIOUS
  <1>2. Jitter \in Nat /\ Delay \in Nat /\ Reanchor + 1 \in Nat /\ Reanchor + 1 >= 1
        /\ Reanchor + Delay \in Nat
    BY Constants
  <1>3. \A x, y \in Nat : x * y \in Nat /\ x * (1 + y) = x * y + x
    OBVIOUS
  <1>4. a \in Nat /\ c \in Nat
    BY <1>1, <1>2, <1>3
  <1>5. Allowed(f, s) = Jitter + Delay * a + c
    BY DEF Allowed
  <1> HIDE DEF a, c
  <1>6. Delay * a \in Nat /\ Delay * (1 + a) = Delay * a + Delay
    BY <1>2, <1>3, <1>4
  <1>7. Jitter + Delay * (1 + a) + c = Allowed(f, s) + Delay
    BY <1>2, <1>4, <1>5, <1>6
  <1> QED  BY <1>7 DEF a, c

LEMMA TakeKeepsAge ==
    ASSUME IInv, AgeShape, Take
    PROVE  AgeShape'
  <1> DEFINE k == Head(queue)
             al == Allowed(anchorFrame.frame, anchorFrame.session)
             an == Allowed(k.frame, k.session)
             old == anchorWall - anchorFrame.frame
  <1>1. /\ now \in Nat /\ wake \in Nat /\ Last \in Nat /\ k.frame \in Nat /\ k.session \in Nat
        /\ wake' \in Nat /\ k.frame = Last + 1 /\ Last' = k.frame /\ Taken' = k.session
        /\ now <= Last + 1 + Jitter \/ (Started /\ now = wake)
    BY TakingKinds
  <1>2. /\ Started => /\ anchorFrame.frame \in Nat /\ anchorFrame.session \in Nat
                      /\ Taken \in Nat /\ anchorWall \in Nat /\ anchorFrame.frame <= k.frame
                      /\ anchorFrame.session <= Taken /\ Taken <= k.session
        /\ \/ Anchors(k.ts) /\ anchorWall' = now /\ anchorFrame' = k
           \/ ~Anchors(k.ts) /\ Started /\ UNCHANGED <<anchorTs, anchorWall, anchorFrame>>
    BY TakingKinds
  <1>3. LatencyBounded'
    <2>1. sentAt' = sentAt
      BY TakingKinds
    <2> QED  BY <2>1 DEF AgeShape, LatencyBounded
  <1>4. Jitter \in Nat /\ Delay \in Nat /\ Reanchor \in Nat
    BY Constants
  <1>5. an \in Nat /\ an >= Jitter
    <2> HIDE DEF k
    <2> QED  BY <1>1, AllowedAtLeast
  <1>6. Started => al \in Nat /\ old \in Int
    <2>1. Started => al \in Nat
      BY <1>2, AllowedAtLeast, Zenon
    <2> QED  BY <1>2, <2>1
  <1>7. Started => /\ old <= al
                   /\ \/ wake - Last <= Jitter
                      \/ wake - Last <= old + Delay
                      \/ Taken # anchorFrame.session /\ wake - Last <= old + Delay + Reanchor
    BY DEF AgeShape, Age
  <1>8. CASE Anchors(k.ts)
    <2>1. anchorWall' = now /\ anchorFrame' = k /\ wake' = now + Delay
      BY <1>2, <1>8, Anchoring
    <2>2. ASSUME Started, k.session = anchorFrame.session  PROVE al + Delay <= an
      <3>1. k.frame - anchorFrame.frame > Reanchor
        BY <1>8, <2>2, Replacing
      <3>2. k.session <= k.session
        BY <1>1
      <3> HIDE DEF k
      <3> QED  BY <1>1, <1>2, <2>2, <3>1, <3>2, AllowedGrows
    <2>3. ASSUME Started, k.session # anchorFrame.session  PROVE al + Delay + Reanchor <= an
      <3>1. anchorFrame.session < k.session /\ anchorFrame.session <= k.session
        BY <1>1, <1>2, <2>3
      <3> QED  BY <1>1, <1>2, <2>3, <3>1, AllowedGrows
    <2>4. ASSUME Started, Taken # anchorFrame.session  PROVE k.session # anchorFrame.session
      BY <1>1, <1>2, <2>4
    <2> HIDE DEF al, an, old
    <2>5. now - k.frame <= an
      <3>1. CASE now <= Last + 1 + Jitter
        BY <1>1, <1>4, <1>5, <3>1
      <3>2. CASE Started /\ now = wake
        <4>1. now - k.frame = wake - Last - 1
          BY <1>1, <3>2
        <4>2. CASE wake - Last <= Jitter
          BY <1>1, <1>4, <1>5, <4>1, <4>2
        <4>3. CASE wake - Last <= old + Delay
          <5>1. al + Delay <= an
            BY <1>4, <1>5, <1>6, <2>2, <2>3, <3>2
          <5> QED  BY <1>1, <1>4, <1>5, <1>6, <1>7, <3>2, <4>1, <4>3, <5>1
        <4>4. CASE Taken # anchorFrame.session /\ wake - Last <= old + Delay + Reanchor
          <5>1. al + Delay + Reanchor <= an
            BY <2>3, <2>4, <3>2, <4>4
          <5> QED  BY <1>1, <1>4, <1>5, <1>6, <1>7, <3>2, <4>1, <4>4, <5>1
        <4> QED  BY <1>7, <3>2, <4>2, <4>3, <4>4
      <3> QED  BY <1>1, <3>1, <3>2
    <2>6. anchorWall' - anchorFrame'.frame <= Allowed(anchorFrame'.frame, anchorFrame'.session)
      BY <2>1, <2>5 DEF an
    <2>7. wake' - Last' <= anchorWall' - anchorFrame'.frame + Delay
      <3>1. anchorFrame'.frame = k.frame
        BY <2>1
      <3> HIDE DEF k
      <3> QED  BY <1>1, <1>4, <2>1, <3>1
    <2> QED  BY <1>3, <2>6, <2>7 DEF AgeShape, Age, Allowed
  <1>9. CASE ~Anchors(k.ts)
    <2> DEFINE d == SignedDelta(k.ts, anchorTs)
    <2>1. Started /\ UNCHANGED <<anchorTs, anchorWall, anchorFrame>>
      BY <1>2, <1>9
    <2>2. d \in Int /\ d <= Reanchor /\ (wake' = now \/ wake' <= anchorWall + Delay + d)
      BY <1>9, Holding, Zenon
    <2>3. k.session = anchorFrame.session => d = k.frame - anchorFrame.frame
      BY <2>1, Taking
    <2> HIDE DEF al, an, old, d
    <2>4. \/ wake' - Last' <= Jitter
          \/ wake' - Last' <= old + Delay
          \/ Taken' # anchorFrame.session /\ wake' - Last' <= old + Delay + Reanchor
      <3>1. CASE wake' = now
        <4>1. wake' - Last' = now - Last - 1
          BY <1>1, <3>1
        <4>2. CASE now <= Last + 1 + Jitter
          BY <1>1, <1>4, <4>1, <4>2
        <4>3. CASE now = wake
          <5>1. Taken # anchorFrame.session => Taken' # anchorFrame.session
            BY <1>1, <1>2, <2>1
          <5> QED  BY <1>1, <1>4, <1>6, <1>7, <2>1, <4>1, <4>3, <5>1
        <4> QED  BY <1>1, <4>2, <4>3
      <3>2. CASE wake' <= anchorWall + Delay + d
        <4>1. CASE k.session = anchorFrame.session
          BY <1>1, <1>2, <1>4, <2>1, <2>2, <2>3, <3>2, <4>1 DEF old
        <4>2. CASE k.session # anchorFrame.session
          BY <1>1, <1>2, <1>4, <2>1, <2>2, <3>2, <4>2 DEF old
        <4> QED  BY <4>1, <4>2
      <3> QED  BY <2>2, <3>1, <3>2
    <2>5. Age' = old /\ anchorFrame' = anchorFrame
      BY <2>1 DEF Age, old
    <2>6. Age' <= Allowed(anchorFrame'.frame, anchorFrame'.session)
      BY <1>7, <2>1, <2>5 DEF al
    <2>7. \/ wake' - Last' <= Jitter
          \/ wake' - Last' <= Age' + Delay
          \/ Taken' # anchorFrame'.session /\ wake' - Last' <= Age' + Delay + Reanchor
      BY <2>4, <2>5
    <2> QED  BY <1>3, <2>6, <2>7 DEF AgeShape, Allowed
  <1> QED  BY <1>8, <1>9

LEMMA SendKeepsAge ==
    ASSUME IInv, AgeShape, Send
    PROVE  AgeShape'
  <1> DEFINE al == Allowed(anchorFrame.frame, anchorFrame.session)
             an == Allowed(Last, Taken)
             old == anchorWall - anchorFrame.frame
  <1>1. /\ now = wake /\ now \in Nat /\ Last \in Nat /\ Started /\ Taken \in Nat
        /\ sentAt' = [frame |-> Last, session |-> Taken, at |-> now] /\ sentAt' # None
        /\ Last' = Last /\ Taken' = Taken /\ Started'
        /\ UNCHANGED <<anchorTs, anchorWall, anchorFrame, wake>>
    BY Sending
  <1>2. /\ anchorFrame.frame \in Nat /\ anchorFrame.session \in Nat /\ anchorWall \in Nat
        /\ anchorFrame.frame <= Last /\ anchorFrame.session <= Taken
    BY <1>1, Constants DEF IInv, TypeOK, AnchorShape, Started, Frame
  <1>3. Jitter \in Nat /\ Delay \in Nat /\ Reanchor \in Nat
    BY Constants
  <1>4. /\ al \in Nat /\ old \in Int /\ al <= an /\ an \in Nat /\ an >= Jitter
        /\ Taken # anchorFrame.session => al + Delay + Reanchor <= an
    <2>1. Taken # anchorFrame.session => anchorFrame.session < Taken
      BY <1>1, <1>2
    <2>2. /\ al \in Nat /\ al <= an
          /\ anchorFrame.session < Taken => al + Delay + Reanchor <= an
      BY <1>1, <1>2, AllowedGrows
    <2>3. an \in Nat /\ an >= Jitter
      BY <1>1, AllowedGrows
    <2>4. old \in Int
      BY <1>2
    <2> QED  BY <2>1, <2>2, <2>3, <2>4
  <1>5. /\ old <= al
        /\ \/ wake - Last <= Jitter
           \/ wake - Last <= old + Delay
           \/ Taken # anchorFrame.session /\ wake - Last <= old + Delay + Reanchor
    BY <1>1 DEF AgeShape, Age
  <1>6. now - Last <= an + Delay
    <2> HIDE DEF al, an, old
    <2> QED  BY <1>1, <1>3, <1>4, <1>5
  <1>7. LatencyBounded'
    <2>1. sentAt'.at = now /\ sentAt'.frame = Last /\ sentAt'.session = Taken
      BY <1>1
    <2>2. Jitter + Delay * (1 + Last \div (Reanchor + 1)) + (Reanchor + Delay) * Taken = an + Delay
      BY <1>1, OneMoreDelay
    <2> QED  BY <1>6, <2>1, <2>2 DEF LatencyBounded
  <1> QED  BY <1>1, <1>7 DEF AgeShape, Age, Allowed

LEMMA ArriveLeavesLast ==
    ASSUME TypeOK, Arrive
    PROVE  Last' = Last
  <1>1. queue \in Seq(Frame) /\ arrived \in Nat
    BY Constants DEF TypeOK
  <1> DEFINE m == [frame |-> arrived', session |-> session, ts |-> (base + arrived') % TsMod]
  <1>2. queue' = Append(queue, m) /\ arrived' = arrived + 1
    BY DEF Arrive
  <1> HIDE DEF m
  <1>3. Len(queue') = Len(queue) + 1 /\ Len(queue) \in Nat
    BY <1>1, <1>2
  <1> QED  BY <1>1, <1>2, <1>3 DEF Last

\* Nothing else changes what the age depends on.
LEMMA OthersKeepAge ==
    ASSUME IInv, AgeShape, Arrive \/ Restart \/ Tick \/ UNCHANGED vars
    PROVE  AgeShape'
  <1>1. Last' = Last
    <2>1. CASE Arrive
      BY <2>1, ArriveLeavesLast DEF IInv
    <2>2. CASE Restart \/ Tick \/ UNCHANGED vars
      BY <2>2 DEF Restart, Tick, vars, Last
    <2> QED  BY <2>1, <2>2
  <1>2. UNCHANGED <<anchorTs, anchorWall, anchorFrame, inHand, wake, sentAt>>
    BY DEF Arrive, Restart, Tick, vars
  <1>3. Taken' = Taken /\ Started' = Started /\ Age' = Age
    BY <1>2 DEF Taken, Started, Age
  <1>4. LatencyBounded'
    BY <1>2 DEF AgeShape, LatencyBounded
  <1> QED  BY <1>1, <1>2, <1>3, <1>4 DEF AgeShape, Allowed

\* Whatever the timestamps do, no frame is older when it leaves than LatencyBounded
\* allows (rtsp_server.py:71-89, 399-402, 463-483).
THEOREM LatencyIsBounded == Spec => []LatencyBounded
  <1>1. Init => AgeShape
    BY DEF Init, AgeShape, Started, LatencyBounded
  <1>2. IInv /\ AgeShape /\ [Next]_vars => AgeShape'
    BY TakeKeepsAge, SendKeepsAge, OthersKeepAge DEF Next
  <1>3. AgeShape => LatencyBounded
    BY DEF AgeShape
  <1> QED  BY <1>1, <1>2, <1>3, Invariant, PTL DEF Spec

-----------------------------------------------------------------------------
(* Steady playout *)

LEMMA TakeKeepsSteady ==
    ASSUME Jitter <= Delay, IInv, SteadyShape, Take
    PROVE  SteadyShape'
  <1> DEFINE k == Head(queue)
  <1>1. /\ now \in Nat /\ wake \in Nat /\ Last \in Nat /\ k.frame \in Nat /\ k.session \in Nat
        /\ k.frame = Last + 1 /\ Last' = k.frame /\ Taken' = k.session
        /\ now <= Last + 1 + Jitter \/ (Started /\ now = wake)
    BY TakingKinds
  <1>2. /\ Started => anchorFrame.frame \in Nat /\ anchorWall \in Nat
        /\ \/ Anchors(k.ts) /\ anchorWall' = now /\ anchorFrame' = k
           \/ ~Anchors(k.ts) /\ Started /\ UNCHANGED <<anchorTs, anchorWall, anchorFrame>>
    BY TakingKinds
  <1>3. Jitter \in Nat /\ Delay \in Nat /\ MaxSleep \in Nat /\ MaxSleep >= 1
    BY Constants
  <1>4. CASE Anchors(k.ts)
    <2>1. anchorWall' = now /\ anchorFrame' = k /\ wake' = now + Delay
      BY <1>2, <1>4, Anchoring
    <2>2. anchorFrame'.frame = k.frame /\ k.frame - k.frame = 0
      BY <1>1, <2>1
    <2>3. wake' = anchorWall' + Delay + (Last' - anchorFrame'.frame)
      <3> HIDE DEF k
      <3> QED  BY <1>1, <1>3, <2>1, <2>2
    <2> QED  BY <2>3 DEF SteadyShape
  <1>5. CASE ~Anchors(k.ts)
    <2>1. Started /\ UNCHANGED <<anchorTs, anchorWall, anchorFrame>>
      BY <1>2, <1>5
    <2> SUFFICES ASSUME k.session = anchorFrame.session
                 PROVE  wake' = anchorWall + Delay + (k.frame - anchorFrame.frame)
      BY <1>1, <2>1 DEF SteadyShape
    <2>2. SignedDelta(k.ts, anchorTs) = k.frame - anchorFrame.frame /\ Taken = anchorFrame.session
      BY <2>1, Taking
    <2>3. wake = anchorWall + Delay + (Last - anchorFrame.frame)
      BY <2>1, <2>2 DEF SteadyShape
    <2>4. wake <= now /\ anchorFrame.frame <= anchorWall
      BY <2>1 DEF IInv, TakenShape, AnchorShape, Take
    <2>5. anchorFrame.frame \in Nat /\ anchorWall \in Nat
      BY <1>2, <2>1
    <2> DEFINE t == anchorWall + Delay + SignedDelta(k.ts, anchorTs)
    <2>6. now <= t /\ t - now <= MaxSleep => wake' = t
      <3> HIDE DEF t
      <3>1. t = anchorWall + Delay + SignedDelta(k.ts, anchorTs)
        BY DEF t
      <3> QED  BY <1>5, <3>1, Holding
    <2>7. t = anchorWall + Delay + (k.frame - anchorFrame.frame)
      BY <2>2
    <2> HIDE DEF k, t
    <2>8. t = wake + 1 /\ t \in Int
      BY <1>1, <1>3, <2>3, <2>5, <2>7
    <2>9. now <= t
      <3>1. CASE now <= Last + 1 + Jitter
        BY <1>1, <1>3, <2>4, <2>5, <2>7, <3>1
      <3>2. CASE now = wake
        BY <1>1, <2>8, <3>2
      <3> QED  BY <1>1, <3>1, <3>2
    <2>10. t - now <= MaxSleep
      BY <1>1, <1>3, <2>4, <2>8
    <2> QED  BY <2>6, <2>7, <2>9, <2>10
  <1> QED  BY <1>4, <1>5

LEMMA OthersKeepSteady ==
    ASSUME IInv, SteadyShape, Send \/ Arrive \/ Restart \/ Tick \/ UNCHANGED vars
    PROVE  SteadyShape'
  <1>1. Last' = Last
    <2>1. CASE Arrive
      BY <2>1, ArriveLeavesLast DEF IInv
    <2>2. CASE Send \/ Restart \/ Tick \/ UNCHANGED vars
      BY <2>2 DEF Send, Restart, Tick, vars, Last
    <2> QED  BY <2>1, <2>2
  <1>2. UNCHANGED <<anchorWall, anchorFrame, wake>>
    BY DEF Send, Arrive, Restart, Tick, vars
  <1>3. Taken' = Taken
    <2>1. CASE Send
      BY <2>1, Sending
    <2>2. CASE Arrive \/ Restart \/ Tick \/ UNCHANGED vars
      BY <2>2 DEF Arrive, Restart, Tick, vars, Taken
    <2> QED  BY <2>1, <2>2
  <1>4. Started' = Started
    BY <1>2 DEF Started
  <1> QED  BY <1>1, <1>2, <1>3, <1>4 DEF SteadyShape

\* With no more jitter than Delay, the frames of the anchor's session leave at a constant
\* distance from their capture, and within a session the anchor holds for a threshold
\* (rtsp_server.py:71-76, 393-402, 463-483).
THEOREM PlayoutIsSteady == Jitter <= Delay => (Spec => SteadyPlayout)
  <1> SUFFICES ASSUME Jitter <= Delay
               PROVE  Spec => SteadyPlayout
    OBVIOUS
  <1>1. Init => SteadyShape
    BY DEF Init, SteadyShape, Started
  <1>2. IInv /\ SteadyShape /\ [Next]_vars => SteadyShape'
    BY TakeKeepsSteady, OthersKeepSteady DEF Next
  <1>3. IInv /\ SteadyShape /\ [Next]_vars =>
           [sentAt' # sentAt /\ sentAt'.session = anchorFrame.session =>
               now = anchorWall + Delay + (sentAt'.frame - anchorFrame.frame)]_vars
    <2> SUFFICES ASSUME IInv, SteadyShape, Next, sentAt' # sentAt,
                        sentAt'.session = anchorFrame.session
                 PROVE  now = anchorWall + Delay + (sentAt'.frame - anchorFrame.frame)
      OBVIOUS
    <2>1. Send
      BY DEF Next, Arrive, Restart, Take, Tick
    <2>2. now = wake /\ Started /\ sentAt'.frame = Last /\ sentAt'.session = Taken
      BY <2>1, Sending
    <2> QED  BY <2>2 DEF SteadyShape
  <1>4. IInv /\ SteadyShape /\ [Next]_vars =>
           [anchorFrame' # anchorFrame /\ anchorFrame # None =>
               \/ anchorFrame'.session # anchorFrame.session
               \/ anchorFrame'.frame - anchorFrame.frame > Reanchor]_vars
    <2> SUFFICES ASSUME IInv, Next, anchorFrame' # anchorFrame, anchorFrame # None,
                        anchorFrame'.session = anchorFrame.session
                 PROVE  anchorFrame'.frame - anchorFrame.frame > Reanchor
      OBVIOUS
    <2>1. Take
      BY DEF Next, Arrive, Restart, Send, Tick
    <2>2. Anchors(Head(queue).ts) /\ anchorFrame' = Head(queue)
      BY <2>1 DEF Take
    <2>3. Started
      BY DEF Started
    <2> QED  BY <2>1, <2>2, <2>3, Replacing
  <1> QED  BY <1>1, <1>2, <1>3, <1>4, Invariant, PTL DEF Spec, SteadyPlayout
=============================================================================
