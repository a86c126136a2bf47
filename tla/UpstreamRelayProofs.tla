------------------------ MODULE UpstreamRelayProofs ------------------------
(***************************************************************************)
(* Theorems about UpstreamRelay, for any set of peer connections and any   *)
(* values of the thresholds and timers.                                    *)
(***************************************************************************)
EXTENDS UpstreamRelay, TLAPS

-----------------------------------------------------------------------------
(* Type correctness *)

\* The relay's arithmetic stays inside its bounds: the tally saturates at
\* Threshold, the ramp stays between its base and its maximum.
LEMMA Arithmetic ==
    /\ \A n \in 0 .. Threshold : CountPacket(n) \in 0 .. Threshold
    /\ PollInterval \in Nat
    /\ \A n \in Nat : Less(n) \in Nat
    /\ \A n \in 0 .. AgeCap : Smaller(n + 1, AgeCap) \in 0 .. AgeCap
    /\ \A b \in BaseBackoff .. MaxBackoff :
          Doubled(b) \in BaseBackoff .. MaxBackoff /\ Doubled(b) >= b
  BY CountAssumption, TimeAssumption
     DEF CountPacket, PollInterval, Less, Smaller, Doubled

\* Every variable keeps its type over the end of a cycle.
LEMMA TeardownTypes ==
    ASSUME TypeOK, NEW leaving \in BOOLEAN, BeginTeardown(leaving), UNCHANGED stop
    PROVE  TypeOK'
<1>1. ConnsOK' /\ ClocksOK' /\ FieldsOK' /\ DogOK' /\ FlagsOK'
  BY DEF BeginTeardown, Cleared, TypeOK, ConnsOK, ClocksOK, FieldsOK,
         DogOK, FlagsOK, MaybePC, conns, clocks, pli, stop
<1>2. TaskOK'
  BY Arithmetic, TimeAssumption
     DEF BeginTeardown, AfterTeardown, Captured, IsHealthy, RampAfter, BackoffAfter,
         TypeOK, TaskOK, FieldsOK, MaybePC, Running, Teardown
<1> QED BY <1>1, <1>2 DEF TypeOK
\* Every variable keeps its type over the supervisor's own steps.
LEMMA CycleTypes == ASSUME TypeOK, Cycle PROVE TypeOK'
<1> USE DEF TypeOK, ConnsOK, FieldsOK, ClocksOK, TaskOK, DogOK, FlagsOK, MaybePC,
            Running, At, conns, fields, clocks, dog, pli, stop
<1>1. ASSUME StartCycle PROVE TypeOK'
  <2>1. ClocksOK' /\ ConnsOK' /\ FieldsOK'
    BY <1>1, CountAssumption DEF StartCycle, CountAtTop
  <2>2. DogOK' /\ FlagsOK'
    BY <1>1 DEF StartCycle
  <2>3. TaskOK'
    BY <1>1 DEF StartCycle
  <2> QED BY <2>1, <2>2, <2>3
<1>2. ASSUME Woken PROVE TypeOK'
  BY <1>2 DEF Woken
<1>3. ASSUME CredentialsFetched PROVE TypeOK'
  BY <1>3 DEF CredentialsFetched
<1>4. ASSUME NEW p \in PCs, OpenPC(p) PROVE TypeOK'
  BY <1>4, CountAssumption DEF OpenPC
<1>5. ASSUME OfferReady PROVE TypeOK'
  BY <1>5 DEF OfferReady
<1>6. ASSUME AnswerReceived PROVE TypeOK'
  BY <1>6 DEF AnswerReceived
<1>7. ASSUME RemoteDescriptionSet PROVE TypeOK'
  BY <1>7, TimeAssumption DEF RemoteDescriptionSet
<1>8. ASSUME StartPump PROVE TypeOK'
  BY <1>8, Arithmetic, CountAssumption DEF StartPump
<1> QED BY <1>1, <1>2, <1>3, <1>4, <1>5, <1>6, <1>7, <1>8 DEF Cycle

\* Every variable keeps its type when a cycle ends or is cancelled.
LEMMA CycleEndTypes ==
    ASSUME TypeOK, CycleEnd \/ Cancelled \/ Stop \/ StopReturns PROVE TypeOK'
<1>1. ASSUME StepFailed \/ OfferFailed \/ TrackTimedOut \/ PumpEnded PROVE TypeOK'
  BY <1>1, TeardownTypes DEF StepFailed, OfferFailed, TrackTimedOut, PumpEnded
<1>2. ASSUME CancelledInCycle PROVE TypeOK'
  <2>1. ConnsOK' /\ ClocksOK' /\ FieldsOK' /\ DogOK' /\ FlagsOK'
    BY <1>2 DEF CancelledInCycle, BeginTeardown, Cleared, TypeOK, ConnsOK,
         ClocksOK, FieldsOK, DogOK, FlagsOK, MaybePC, conns, clocks, pli
  <2>2. TaskOK'
    BY <1>2 DEF CancelledInCycle, BeginTeardown, AfterTeardown, Captured, IsHealthy,
         TypeOK, TaskOK, FieldsOK, MaybePC, Teardown
  <2> QED BY <2>1, <2>2 DEF TypeOK
<1> USE DEF TypeOK, ConnsOK, FieldsOK, ClocksOK, TaskOK, DogOK, FlagsOK, MaybePC,
            Teardown, At, conns, fields, clocks, task, dog, pli, stop
<1>3. ASSUME Disconnected PROVE TypeOK'
  <2>1. ConnsOK' /\ ClocksOK' /\ FieldsOK' /\ DogOK'
    BY <1>3 DEF Disconnected
  <2>2. TaskOK' /\ FlagsOK'
    BY <1>3 DEF Disconnected
  <2> QED BY <2>1, <2>2
<1>4. ASSUME Closed PROVE TypeOK'
  <2>1. ConnsOK' /\ ClocksOK' /\ FieldsOK' /\ DogOK' /\ FlagsOK'
    BY <1>4 DEF Closed
  <2>2. TaskOK'
    BY <1>4, Arithmetic, TimeAssumption
       DEF Closed, AfterTeardown, RampAfter, BackoffAfter
  <2> QED BY <2>1, <2>2
<1>5. ASSUME CancelledOutside PROVE TypeOK'
  <2>1. ConnsOK' /\ ClocksOK' /\ FieldsOK' /\ DogOK'
    BY <1>5 DEF CancelledOutside
  <2>2. TaskOK' /\ FlagsOK'
    BY <1>5 DEF CancelledOutside
  <2> QED BY <2>1, <2>2
<1>6. ASSUME Stop PROVE TypeOK'
  BY <1>6 DEF Stop, StopSignals
<1>7. ASSUME StopReturns PROVE TypeOK'
  BY <1>7 DEF StopReturns
<1> QED
  BY <1>1, <1>2, <1>3, <1>4, <1>5, <1>6, <1>7 DEF CycleEnd, Cancelled

\* Every variable keeps its type over the steps of the other tasks, and of time.
LEMMA OtherTypes ==
    ASSUME TypeOK, Watchdog \/ Network \/ RequestKeyframe \/ Tick PROVE TypeOK'
<1> USE DEF TypeOK, ConnsOK, FieldsOK, ClocksOK, TaskOK, DogOK, FlagsOK, MaybePC,
            conns, fields, clocks, task, dog, pli, stop
<1>1. ASSUME Polled PROVE TypeOK'
  <2>1. DogOK'
    BY <1>1, Arithmetic, TimeAssumption DEF Polled, Resleep, Escalate
  <2>2. ConnsOK' /\ ClocksOK' /\ FieldsOK' /\ TaskOK' /\ FlagsOK'
    BY <1>1 DEF Polled
  <2> QED BY <2>1, <2>2
<1>2. ASSUME Recovered PROVE TypeOK'
  <2>1. DogOK'
    BY <1>2, TimeAssumption DEF Recovered
  <2>2. ConnsOK' /\ ClocksOK' /\ FieldsOK' /\ TaskOK' /\ FlagsOK'
    BY <1>2 DEF Recovered
  <2> QED BY <2>1, <2>2
<1>3. ASSUME Rechecked PROVE TypeOK'
  <2>1. DogOK'
    BY <1>3, Arithmetic DEF Rechecked, Resleep, Escalate
  <2>2. ConnsOK' /\ ClocksOK' /\ FieldsOK' /\ TaskOK' /\ FlagsOK'
    BY <1>3 DEF Rechecked
  <2> QED BY <2>1, <2>2
<1>4. ASSUME TrackEvent PROVE TypeOK'
  <2>1. ConnsOK' /\ FieldsOK'
    BY <1>4 DEF TrackEvent
  <2>2. ClocksOK' /\ TaskOK' /\ DogOK' /\ FlagsOK'
    BY <1>4 DEF TrackEvent
  <2> QED BY <2>1, <2>2
<1>5. ASSUME ConnectionLost PROVE TypeOK'
  BY <1>5 DEF ConnectionLost
<1>6. ASSUME ViewerJoins PROVE TypeOK'
  BY <1>6 DEF ViewerJoins
<1>7. ASSUME NEW p \in PCs, NEW hasPayload \in BOOLEAN, Tap(p, hasPayload)
      PROVE TypeOK'
  <2>1. ConnsOK' /\ ClocksOK'
    BY <1>7, Arithmetic, CountAssumption DEF Tap, HealthyAgeAfter
  <2>2. FieldsOK' /\ TaskOK' /\ FlagsOK'
    BY <1>7 DEF Tap, FirstPacket
  <2>3. DogOK'
    BY <1>7, Zenon DEF Tap
  <2> QED BY <2>1, <2>2, <2>3
<1>8. ASSUME RequestKeyframe PROVE TypeOK'
  <2>1. FlagsOK'
    BY <1>8 DEF RequestKeyframe
  <2>2. ConnsOK' /\ ClocksOK' /\ FieldsOK' /\ TaskOK' /\ DogOK'
    BY <1>8 DEF RequestKeyframe
  <2> QED BY <2>1, <2>2
<1>9. ASSUME Tick PROVE TypeOK'
  BY <1>9, Arithmetic DEF Tick
<1> QED
  BY <1>1, <1>2, <1>3, <1>4, <1>5, <1>6, <1>7, <1>8, <1>9 DEF Watchdog, Network

LEMMA TypeStep == TypeOK /\ [Next]_vars => TypeOK'
<1>1. ASSUME TypeOK, UNCHANGED vars PROVE TypeOK'
  BY <1>1 DEF vars, conns, fields, clocks, task, dog, pli, stop, TypeOK, ConnsOK,
              FieldsOK, ClocksOK, TaskOK, DogOK, FlagsOK
<1> QED BY <1>1, CycleTypes, CycleEndTypes, OtherTypes DEF Next

LEMMA InitTypes == Init => TypeOK
<1> SUFFICES ASSUME Init PROVE TypeOK
  OBVIOUS
<1>1. ConnsOK /\ ClocksOK
  BY CountAssumption DEF Init, ConnsOK, ClocksOK
<1>2. FieldsOK
  BY DEF Init, FieldsOK, MaybePC
<1>3. offlineBackoff \in BaseBackoff .. MaxBackoff
  BY TimeAssumption DEF Init
<1>4. TaskOK
  BY <1>3 DEF Init, TaskOK, MaybePC
<1>5. DogOK /\ FlagsOK
  BY DEF Init, DogOK, FlagsOK
<1> QED BY <1>1, <1>2, <1>4, <1>5 DEF TypeOK

\* In every behaviour each variable of the relay keeps its type: the PC slots,
\* the fields teardown clears, the tally, the ramp between its two bounds.
THEOREM TypeCorrect == Spec => []TypeOK
  BY InitTypes, TypeStep, PTL DEF Spec

-----------------------------------------------------------------------------
(* The inductive invariant: what each await of the supervisor implies      *)
(* about the fields, the PC of the session and the tally.                  *)

\* The relay's fields name the session's PC exactly while it is joined, and the
\* PC is opened before, and tapped by the time it is pumped.
SessionShape ==
    /\ sup \in Joined => upstream = mine /\ mine \in PCs
    /\ sup \notin Joined => upstream = None /\ videoReceiver = None
    /\ sup \in {"offer"} \cup Teardown => mine \in PCs
    /\ sup \in {"offer", "join"} => pc[mine] = "open"

\* Only the session's own PC is tapped, and only between its track event and
\* the start of its pc.close(); a cancelled teardown may leave it so.
FeedShape ==
    \A p \in PCs : pc[p] = "tapped" =>
        p = mine /\ sup \in {"answer", "track", "pump", "disc", "done"}

\* The tally is the session's own.
CountShape ==
    /\ sup \in {"wake", "creds", "context"} => cyclePackets = 0 /\ mine = None
    /\ mine \in PCs => cyclePackets = rx[mine]
    /\ sup \in {"offer", "join", "answer", "track"} /\ pc[mine] = "open"
          => cyclePackets = 0

\* A cycle judged healthy is judged so by its own PC's packets.
HealthShape == sup \in Teardown /\ healthyCycle => rx[mine] = Threshold

\* Once stop() was called the supervisor is about to be cancelled, or leaves.
StopShape == stopEvent => cancelReq \/ sup \in Teardown \cup {"done"}

IInv == TypeOK /\ SessionShape /\ FeedShape /\ CountShape /\ HealthShape /\ StopShape

\* The tally is preserved by a packet of the session, whatever comes after.
LEMMA TapKeepsShape ==
    ASSUME IInv, NEW p \in PCs, NEW hasPayload \in BOOLEAN, Tap(p, hasPayload)
    PROVE  SessionShape' /\ FeedShape' /\ CountShape' /\ HealthShape' /\ StopShape'
<1>1. p = mine /\ sup \in {"answer", "track", "pump", "disc", "done"}
  BY DEF IInv, FeedShape, Tap
<1>2. CountShape'
  BY <1>1 DEF IInv, CountShape, Tap, TypeOK, ConnsOK, clocks, task
<1>3. HealthShape'
  BY <1>1, CountAssumption
     DEF IInv, HealthShape, Tap, CountPacket, Smaller, TypeOK, ConnsOK, clocks, task
<1>4. SessionShape' /\ FeedShape' /\ StopShape'
  BY DEF IInv, SessionShape, FeedShape, StopShape, Tap, task, stop
<1> QED BY <1>2, <1>3, <1>4

\* Teardown takes the session's PC over from the fields and clears them.
LEMMA TeardownKeepsShape ==
    ASSUME IInv, NEW leaving \in BOOLEAN, BeginTeardown(leaving),
           sup \in Running
    PROVE  SessionShape' /\ FeedShape' /\ CountShape' /\ HealthShape'
<1> USE DEF BeginTeardown, Captured, Cleared, IInv
<1>1. CASE sup \in Joined
  <2>1. mine \in PCs /\ mine' = mine /\ sup' = "disc"
    BY <1>1, NoneAssumption DEF SessionShape
  <2>2. SessionShape' /\ FeedShape'
    BY <1>1, <2>1 DEF SessionShape, FeedShape, Joined, Teardown, conns
  <2>3. CountShape'
    BY <1>1, <2>1 DEF CountShape, conns, clocks
  <2>4. HealthShape'
    <3>1. rx[mine] \in 0 .. Threshold /\ cyclePackets = rx[mine]
      BY <2>1 DEF CountShape, TypeOK, ConnsOK
    <3>2. IsHealthy => rx[mine] = Threshold
      BY <3>1, CountAssumption DEF IsHealthy
    <3>3. (healthyCycle' <=> IsHealthy) /\ rx' = rx
      BY DEF conns
    <3> QED BY <2>1, <3>2, <3>3 DEF HealthShape
  <2> QED BY <2>1, <2>2, <2>3, <2>4
<1>2. CASE sup \notin Joined
  <2>1. mine' = None /\ sup' \in {"done", "backoff"}
    BY <1>2 DEF SessionShape, AfterTeardown
  <2>2. SessionShape'
    BY <2>1 DEF SessionShape, Joined, Teardown
  <2>3. FeedShape'
    BY <1>2 DEF FeedShape, Running, Joined, conns
  <2>4. CountShape' /\ HealthShape'
    BY <2>1, NoneAssumption DEF CountShape, HealthShape, Teardown
  <2> QED BY <2>2, <2>3, <2>4
<1> QED BY <1>1, <1>2

\* The supervisor's own steps up to the pump.
LEMMA CycleKeepsShape ==
    ASSUME IInv, Cycle
    PROVE  SessionShape' /\ FeedShape' /\ CountShape' /\ HealthShape' /\ StopShape'
<1> DEFINE Shape == SessionShape /\ FeedShape /\ CountShape /\ HealthShape /\ StopShape
<1> USE DEF IInv, At, Joined, Teardown, conns, fields, clocks, dog, pli, stop
<1>1. ASSUME StartCycle PROVE Shape'
  <2>1. SessionShape' /\ FeedShape' /\ HealthShape' /\ StopShape'
    BY <1>1 DEF StartCycle, SessionShape, FeedShape, HealthShape, StopShape
  <2>2. CountShape'
    BY <1>1, NoneAssumption DEF StartCycle, CountShape, CountAtTop
  <2> QED BY <2>1, <2>2
<1>2. ASSUME Woken \/ CredentialsFetched \/ AnswerReceived \/ RemoteDescriptionSet
      PROVE Shape'
  <2>1. SessionShape' /\ FeedShape' /\ StopShape'
    BY <1>2 DEF Woken, CredentialsFetched, AnswerReceived, RemoteDescriptionSet,
                SessionShape, FeedShape, StopShape
  <2>2. CountShape' /\ HealthShape'
    BY <1>2 DEF Woken, CredentialsFetched, AnswerReceived, RemoteDescriptionSet,
                CountShape, HealthShape
  <2> QED BY <2>1, <2>2
<1>3. ASSUME NEW p \in PCs, OpenPC(p) PROVE Shape'
  <2>1. SessionShape' /\ FeedShape' /\ StopShape'
    BY <1>3 DEF OpenPC, SessionShape, FeedShape, StopShape, TypeOK, ConnsOK
  <2>2. CountShape' /\ HealthShape'
    BY <1>3 DEF OpenPC, CountShape, HealthShape, TypeOK, ConnsOK
  <2> QED BY <2>1, <2>2
<1>4. ASSUME OfferReady PROVE Shape'
  <2>1. SessionShape' /\ FeedShape' /\ StopShape'
    BY <1>4 DEF OfferReady, SessionShape, FeedShape, StopShape
  <2>2. CountShape' /\ HealthShape'
    BY <1>4 DEF OfferReady, CountShape, HealthShape
  <2> QED BY <2>1, <2>2
<1>5. ASSUME StartPump PROVE Shape'
  <2>1. SessionShape' /\ FeedShape' /\ StopShape'
    BY <1>5 DEF StartPump, SessionShape, FeedShape, StopShape
  <2>2. CountShape' /\ HealthShape'
    BY <1>5 DEF StartPump, CountShape, HealthShape
  <2> QED BY <2>1, <2>2
<1> QED BY <1>1, <1>2, <1>3, <1>4, <1>5 DEF Cycle

\* The steps that end or cancel a cycle, and stop().
LEMMA CycleEndKeepsShape ==
    ASSUME IInv, CycleEnd \/ Cancelled \/ Stop \/ StopReturns
    PROVE  SessionShape' /\ FeedShape' /\ CountShape' /\ HealthShape' /\ StopShape'
<1> DEFINE Shape == SessionShape /\ FeedShape /\ CountShape /\ HealthShape /\ StopShape
<1>1. ASSUME StepFailed \/ OfferFailed \/ TrackTimedOut \/ PumpEnded PROVE Shape'
  <2>1. BeginTeardown(FALSE) /\ sup \in Running /\ ~cancelReq /\ UNCHANGED stop
    BY <1>1 DEF StepFailed, OfferFailed, TrackTimedOut, PumpEnded, At, Running
  <2>2. ~stopEvent'
    BY <2>1 DEF IInv, StopShape, Running, Teardown, stop
  <2> QED BY <2>1, <2>2, TeardownKeepsShape DEF StopShape
<1>2. ASSUME CancelledInCycle PROVE Shape'
  <2>1. BeginTeardown(TRUE) /\ sup \in Running
    BY <1>2 DEF CancelledInCycle
  <2>2. sup' \in Teardown \cup {"done"}
    BY <2>1 DEF BeginTeardown, AfterTeardown, Teardown
  <2> QED BY <2>1, <2>2, TeardownKeepsShape DEF StopShape
<1> USE DEF IInv, At, Joined, Teardown, conns, fields, clocks, task, dog, pli, stop
<1>3. ASSUME Disconnected PROVE Shape'
  <2>1. SessionShape' /\ FeedShape' /\ StopShape'
    BY <1>3 DEF Disconnected, SessionShape, FeedShape, StopShape, TypeOK, ConnsOK
  <2>2. CountShape' /\ HealthShape'
    BY <1>3 DEF Disconnected, CountShape, HealthShape
  <2> QED BY <2>1, <2>2
<1>4. ASSUME Closed PROVE Shape'
  <2>1. sup' \in {"done", "backoff"}
    BY <1>4 DEF Closed, AfterTeardown
  <2>2. SessionShape' /\ FeedShape'
    BY <1>4, <2>1 DEF Closed, SessionShape, FeedShape, TypeOK, ConnsOK
  <2>3. CountShape' /\ HealthShape'
    BY <1>4, <2>1, NoneAssumption DEF Closed, CountShape, HealthShape
  <2>4. StopShape'
    BY <1>4 DEF Closed, AfterTeardown, StopShape
  <2> QED BY <2>2, <2>3, <2>4
<1>5. ASSUME CancelledOutside PROVE Shape'
  <2>1. SessionShape' /\ FeedShape' /\ StopShape'
    BY <1>5 DEF CancelledOutside, SessionShape, FeedShape, StopShape
  <2>2. CountShape' /\ HealthShape'
    BY <1>5 DEF CancelledOutside, CountShape, HealthShape
  <2> QED BY <2>1, <2>2
<1>6. ASSUME Stop PROVE Shape'
  BY <1>6 DEF Stop, StopSignals, SessionShape, FeedShape, CountShape, HealthShape,
              StopShape
<1>7. ASSUME StopReturns PROVE Shape'
  <2>1. SessionShape' /\ FeedShape' /\ StopShape'
    BY <1>7 DEF StopReturns, SessionShape, FeedShape, StopShape
  <2>2. CountShape' /\ HealthShape'
    BY <1>7 DEF StopReturns, CountShape, HealthShape
  <2> QED BY <2>1, <2>2
<1> QED
  BY <1>1, <1>2, <1>3, <1>4, <1>5, <1>6, <1>7 DEF CycleEnd, Cancelled

\* The steps of the other tasks, and of time, other than a packet.
LEMMA OthersKeepShape ==
    ASSUME IInv, Watchdog \/ TrackEvent \/ ConnectionLost \/ ViewerJoins
                 \/ RequestKeyframe \/ Tick
    PROVE  SessionShape' /\ FeedShape' /\ CountShape' /\ HealthShape' /\ StopShape'
<1> DEFINE Shape == SessionShape /\ FeedShape /\ CountShape /\ HealthShape /\ StopShape
<1> USE DEF IInv, conns, fields, clocks, task, dog, pli, stop
<1>1. ASSUME UNCHANGED <<conns, fields, cyclePackets, sup, mine, healthyCycle, stop>>
      PROVE  Shape'
  <2>1. SessionShape' /\ FeedShape' /\ StopShape'
    BY <1>1 DEF SessionShape, FeedShape, StopShape
  <2>2. CountShape' /\ HealthShape'
    BY <1>1 DEF CountShape, HealthShape
  <2> QED BY <2>1, <2>2
<1>2. CASE Watchdog
  BY <1>1, <1>2 DEF Watchdog, Polled, Recovered, Rechecked
<1>3. CASE TrackEvent
  <2>1. SessionShape' /\ FeedShape' /\ StopShape'
    BY <1>3 DEF TrackEvent, At, Joined, Teardown, SessionShape, FeedShape, StopShape,
                TypeOK, ConnsOK
  <2>2. CountShape' /\ HealthShape'
    BY <1>3 DEF TrackEvent, CountShape, HealthShape
  <2> QED BY <2>1, <2>2
<1>4. CASE ConnectionLost \/ ViewerJoins \/ RequestKeyframe
  BY <1>1, <1>4 DEF ConnectionLost, ViewerJoins, RequestKeyframe
<1>5. CASE Tick
  BY <1>1, <1>5 DEF Tick
<1> QED BY <1>2, <1>3, <1>4, <1>5

\* The invariant holds at the start and is kept by every step.
LEMMA Inductive == Spec => []IInv
<1>1. Init => IInv
  <2> SUFFICES ASSUME Init PROVE IInv
    OBVIOUS
  <2>1. TypeOK
    BY InitTypes
  <2> QED
    BY <2>1, NoneAssumption DEF Init, IInv, SessionShape, FeedShape, CountShape,
       HealthShape, StopShape, Joined, Teardown
<1>2. IInv /\ [Next]_vars => IInv'
  <2> SUFFICES ASSUME IInv, [Next]_vars PROVE IInv'
    OBVIOUS
  <2>1. TypeOK'
    BY TypeStep DEF IInv
  <2>2. SessionShape' /\ FeedShape' /\ CountShape' /\ HealthShape' /\ StopShape'
    <3>1. CASE UNCHANGED vars
      BY <3>1 DEF vars, conns, fields, clocks, task, stop, IInv, SessionShape,
                  FeedShape, CountShape, HealthShape, StopShape
    <3>2. CASE Next
      BY <3>2, CycleKeepsShape, CycleEndKeepsShape, OthersKeepShape, TapKeepsShape
         DEF Next, Network
    <3> QED BY <3>1, <3>2
  <2> QED BY <2>1, <2>2 DEF IInv
<1> QED BY <1>1, <1>2, PTL DEF Spec

-----------------------------------------------------------------------------
(* What follows from it *)

\* At most one session ever feeds the RTSP server, also across reconnects,
\* failed set-ups, cancellation and a stop that leaves its PC open.
THEOREM OneFeeder == Spec => []SingleFeeder
<1>1. IInv => SingleFeeder
  BY DEF IInv, FeedShape, SingleFeeder, Feeding
<1> QED BY <1>1, Inductive, PTL

\* stop()'s own teardown never has anything to tear down.
THEOREM StopTeardownIdle == Spec => []StopFindsNothing
<1>1. IInv => StopFindsNothing
  BY DEF IInv, SessionShape, StopFindsNothing, Joined
<1> QED BY <1>1, Inductive, PTL

\* Whatever the supervisor is awaiting when stop() is called, it starts nothing
\* more towards the cloud.
THEOREM StopIsFinal == Spec => StopStartsNothing
<1>1. IInv /\ [Next]_vars
      => [stopEvent /\ sup' # sup => sup' \in Teardown \cup {"done"}]_vars
  <2> SUFFICES ASSUME IInv, Next, stopEvent, sup' # sup
               PROVE  sup' \in Teardown \cup {"done"}
    BY DEF vars, task
  <2>1. cancelReq \/ sup \in Teardown \cup {"done"}
    BY DEF IInv, StopShape
  <2> USE DEF At, Running, Teardown, task
  <2>2. CASE Cycle
    BY <2>1, <2>2 DEF Cycle, StartCycle, Woken, CredentialsFetched, OpenPC,
       OfferReady, AnswerReceived, RemoteDescriptionSet, StartPump
  <2>3. CASE CycleEnd
    BY <2>1, <2>3 DEF CycleEnd, StepFailed, OfferFailed, TrackTimedOut, PumpEnded,
       Disconnected, Closed, AfterTeardown
  <2>4. CASE Cancelled
    BY <2>4 DEF Cancelled, CancelledInCycle, CancelledOutside, BeginTeardown,
       AfterTeardown
  <2>5. CASE Watchdog \/ Network \/ RequestKeyframe \/ Tick \/ Stop \/ StopReturns
    BY <2>5 DEF Watchdog, Polled, Recovered, Rechecked, Network, TrackEvent,
       ConnectionLost, ViewerJoins, Tap, RequestKeyframe, Tick, Stop, StopReturns
  <2> QED BY <2>2, <2>3, <2>4, <2>5 DEF Next
<1> QED BY <1>1, Inductive, PTL DEF Spec, StopStartsNothing

\* The offline ramp never falls back on the strength of packets of another
\* cycle, nor on fewer than Threshold packets of this one.
THEOREM RampNeedsRealStream == Spec => RampResetsOnlyAfterRealStream
<1>1. ASSUME IInv, NEW healthy \in BOOLEAN, offlineBackoff' = RampAfter(healthy),
             offlineBackoff' < offlineBackoff
      PROVE  healthy
  <2>1. offlineBackoff \in BaseBackoff .. MaxBackoff
    BY <1>1 DEF IInv, TypeOK, TaskOK
  <2>2. Doubled(offlineBackoff) >= offlineBackoff
    BY <2>1, Arithmetic
  <2> QED BY <1>1, <2>1, <2>2, Arithmetic, TimeAssumption DEF RampAfter
<1>2. ASSUME IInv, Next, offlineBackoff' < offlineBackoff
      PROVE  mine # None /\ rx[mine] = Threshold
  <2>0. offlineBackoff \in Int
    BY <1>2, TimeAssumption DEF IInv, TypeOK, TaskOK
  <2>1. CASE Closed
    <3>1. healthyCycle /\ sup = "close"
      BY <1>1, <1>2, <2>0, <2>1
         DEF Closed, AfterTeardown, At, IInv, TypeOK, TaskOK
    <3> QED
      BY <1>2, <3>1, NoneAssumption
         DEF IInv, HealthShape, SessionShape, Teardown
  <2>2. ASSUME NEW leaving \in BOOLEAN, BeginTeardown(leaving), sup \in Running
        PROVE  mine # None /\ rx[mine] = Threshold
    <3>1. IsHealthy
      <4>1. IsHealthy \in BOOLEAN
        BY DEF IsHealthy
      <4>2. offlineBackoff' = RampAfter(IsHealthy)
        BY <1>2, <2>0, <2>2 DEF BeginTeardown, AfterTeardown
      <4> QED BY <1>1, <1>2, <4>1, <4>2
    <3>2. sup \notin {"wake", "creds", "context"} /\ cyclePackets = Threshold
      BY <1>2, <3>1, CountAssumption
         DEF IsHealthy, IInv, CountShape, TypeOK, ClocksOK
    <3>3. mine \in PCs
      BY <1>2, <2>2, <3>2 DEF IInv, SessionShape, Running, Joined
    <3> QED BY <1>2, <3>2, <3>3, NoneAssumption DEF IInv, CountShape
  <2>3. CASE StepFailed \/ OfferFailed \/ TrackTimedOut \/ PumpEnded
    BY <2>2, <2>3 DEF StepFailed, OfferFailed, TrackTimedOut, PumpEnded, At, Running
  <2>4. CASE CancelledInCycle
    BY <2>2, <2>4 DEF CancelledInCycle
  <2>5. CASE Cycle \/ Disconnected \/ CancelledOutside
    BY <1>2, <2>0, <2>5 DEF Cycle, StartCycle, Woken, CredentialsFetched, OpenPC,
       OfferReady, AnswerReceived, RemoteDescriptionSet, StartPump, Disconnected,
       CancelledOutside
  <2>6. CASE Watchdog \/ Network \/ RequestKeyframe \/ Tick \/ Stop \/ StopReturns
    BY <1>2, <2>0, <2>6 DEF Watchdog, Polled, Recovered, Rechecked, Network,
       TrackEvent, ConnectionLost, ViewerJoins, Tap, RequestKeyframe, Tick, Stop,
       StopReturns, task
  <2> QED
    BY <1>2, <2>1, <2>3, <2>4, <2>5, <2>6 DEF Next, CycleEnd, Cancelled
<1>3. IInv /\ [Next]_vars
      => [offlineBackoff' < offlineBackoff => mine # None /\ rx[mine] = Threshold]_vars
  BY <1>2
<1> QED BY <1>3, Inductive, PTL DEF Spec, RampResetsOnlyAfterRealStream

-----------------------------------------------------------------------------
(* Refinement *)

\* The PCs and the supervisor's end, as the contract sees them, over a step
\* that leaves them, the tally and the health clock alone.
LEMMA Unseen ==
    ASSUME UNCHANGED <<pc, cyclePackets, healthyAge>>, (sup' = "done") <=> (sup = "done")
    PROVE  UNCHANGED Contract!vars
<1>1. Feeding' = Feeding
  BY DEF Feeding
<1> QED BY <1>1 DEF Contract!vars

\* Every step of the relay is a step of its contract or invisible to it.
LEMMA ContractStep == IInv /\ [Next]_vars => [Contract!Next]_(Contract!vars)
<1> SUFFICES ASSUME IInv, [Next]_vars PROVE [Contract!Next]_(Contract!vars)
  OBVIOUS
<1>u. CASE UNCHANGED vars
  BY <1>u, Unseen DEF vars, conns, clocks, task
<1>1. CASE StartCycle
  <2>1. Feeding = {} /\ Feeding' = {}
    BY <1>1 DEF StartCycle, At, Feeding, IInv, FeedShape, conns
  <2>2. Contract!Rearm
    BY <1>1, <2>1 DEF StartCycle, At, CountAtTop, Contract!Rearm
  <2> QED BY <2>2 DEF Contract!Next
<1>2. CASE Woken \/ CredentialsFetched \/ OfferReady \/ AnswerReceived
           \/ RemoteDescriptionSet \/ StartPump
  BY <1>2, Unseen DEF Woken, CredentialsFetched, OfferReady, AnswerReceived,
     RemoteDescriptionSet, StartPump, At, conns, clocks
<1>3. ASSUME NEW p \in PCs, OpenPC(p) PROVE [Contract!Next]_(Contract!vars)
  <2>1. Feeding' = Feeding
    BY <1>3 DEF OpenPC, Feeding, IInv, TypeOK, ConnsOK
  <2> QED BY <1>3, <2>1 DEF OpenPC, At, clocks, Contract!vars
<1>4. CASE TrackEvent
  <2>1. mine \in PCs /\ sup # "done" /\ Feeding = {} /\ cyclePackets = 0
    BY <1>4 DEF TrackEvent, At, Feeding, IInv, SessionShape, FeedShape, CountShape,
                Joined
  <2>2. Feeding' = {mine}
    BY <1>4, <2>1 DEF TrackEvent, Feeding, IInv, TypeOK, ConnsOK
  <2>3. Contract!Attach(mine)
    BY <1>4, <2>1, <2>2 DEF TrackEvent, Contract!Attach, clocks, task
  <2> QED BY <2>1, <2>3 DEF Contract!Next
<1>5. ASSUME NEW p \in PCs, NEW hasPayload \in BOOLEAN, Tap(p, hasPayload)
      PROVE  [Contract!Next]_(Contract!vars)
  <2>1. CASE ~hasPayload
    BY <1>5, <2>1, Unseen DEF Tap, clocks, task
  <2>2. CASE hasPayload
    <3>1. Feeding # {} /\ Feeding' = Feeding
      BY <1>5 DEF Tap, Feeding
    <3>2. /\ cyclePackets' = IF cyclePackets < Threshold THEN cyclePackets + 1
                             ELSE cyclePackets
          /\ cyclePackets' >= Threshold <=> cyclePackets' = Threshold
      BY <1>5, <2>2, CountAssumption
         DEF Tap, CountPacket, Smaller, IInv, TypeOK, ClocksOK
    <3>3. healthyAge' = IF cyclePackets' = Threshold THEN 0 ELSE healthyAge
      BY <1>5, <2>2, <3>2 DEF Tap, HealthyAgeAfter
    <3>4. Contract!Deliver
      BY <1>5, <3>1, <3>2, <3>3 DEF Tap, Contract!Deliver, task
    <3> QED BY <3>4 DEF Contract!Next
  <2> QED BY <2>1, <2>2
<1>6. ASSUME NEW leaving \in BOOLEAN, BeginTeardown(leaving), sup \in Running
      PROVE  [Contract!Next]_(Contract!vars)
  <2>1. Feeding' = Feeding /\ sup # "done" /\ UNCHANGED <<cyclePackets, healthyAge>>
    BY <1>6 DEF BeginTeardown, Feeding, Running, conns, clocks
  <2>2. CASE sup' = "done"
    BY <2>1, <2>2 DEF Contract!Leave, Contract!Next
  <2>3. CASE sup' # "done"
    BY <2>1, <2>3 DEF Contract!vars
  <2> QED BY <2>2, <2>3
<1>7. CASE StepFailed \/ OfferFailed \/ TrackTimedOut \/ PumpEnded
  BY <1>6, <1>7 DEF StepFailed, OfferFailed, TrackTimedOut, PumpEnded, At, Running
<1>8. CASE CancelledInCycle
  BY <1>6, <1>8 DEF CancelledInCycle
<1>9. CASE Disconnected
  <2>1. Feeding' = {}
    BY <1>9 DEF Disconnected, Feeding, IInv, FeedShape, TypeOK, ConnsOK
  <2>2. Contract!Detach
    BY <1>9, <2>1 DEF Disconnected, At, Contract!Detach, clocks
  <2> QED BY <2>2 DEF Contract!Next
<1>10. CASE Closed
  <2>1. Feeding' = Feeding /\ sup = "close" /\ UNCHANGED <<cyclePackets, healthyAge>>
    BY <1>10 DEF Closed, At, Feeding, IInv, FeedShape, TypeOK, ConnsOK, clocks
  <2>2. CASE sup' = "done"
    BY <2>1, <2>2 DEF Contract!Leave, Contract!Next
  <2>3. CASE sup' # "done"
    BY <2>1, <2>3 DEF Contract!vars
  <2> QED BY <2>2, <2>3
<1>11. CASE CancelledOutside
  <2>1. Feeding' = Feeding /\ sup # "done" /\ sup' = "done"
        /\ UNCHANGED <<cyclePackets, healthyAge>>
    BY <1>11 DEF CancelledOutside, Feeding, Teardown, conns, clocks
  <2>2. Contract!Leave
    BY <2>1 DEF Contract!Leave
  <2> QED BY <2>2 DEF Contract!Next
<1>12. CASE StopReturns
  <2>1. UNCHANGED <<pc, cyclePackets, healthyAge, sup>>
    BY <1>12 DEF StopReturns, IInv, SessionShape, Joined, clocks, task
  <2> QED BY <2>1, Unseen
<1>13. CASE Watchdog \/ ConnectionLost \/ ViewerJoins \/ RequestKeyframe \/ Stop
  BY <1>13, Unseen DEF Watchdog, Polled, Recovered, Rechecked, ConnectionLost,
     ViewerJoins, RequestKeyframe, Stop, conns, clocks, task
<1>14. CASE Tick
  <2>1. UNCHANGED <<pc, cyclePackets, sup>>
    BY <1>14 DEF Tick, conns
  <2>2. \/ healthyAge' = healthyAge
        \/ healthyAge < AgeCap /\ healthyAge' = healthyAge + 1
    <3>1. healthyAge \in 0 .. AgeCap /\ AgeCap \in Nat
      BY CountAssumption DEF IInv, TypeOK, ClocksOK
    <3>2. healthyAge' = IF healthyAge + 1 <= AgeCap THEN healthyAge + 1 ELSE AgeCap
      BY <1>14 DEF Tick, Smaller
    <3> QED BY <3>1, <3>2
  <2>3. Feeding' = Feeding
    BY <2>1 DEF Feeding
  <2>4. CASE healthyAge' = healthyAge
    BY <2>1, <2>3, <2>4 DEF Contract!vars
  <2>5. CASE healthyAge < AgeCap /\ healthyAge' = healthyAge + 1
    BY <2>1, <2>3, <2>5 DEF Contract!Age, Contract!Next
  <2> QED BY <2>2, <2>4, <2>5
<1> QED
  BY <1>u, <1>1, <1>2, <1>3, <1>4, <1>5, <1>7, <1>8, <1>9, <1>10, <1>11, <1>12,
     <1>13, <1>14 DEF Next, Cycle, CycleEnd, Cancelled, Network

\* The relay implements its contract: one session feeds at a time, none is added
\* once the supervisor is gone, and only a session's own sustained stream resets
\* the health clock the bridge restarts on.
THEOREM RelayKeepsContract == Spec => ImplementsContract
<1>1. Init => Contract!Init
  BY DEF Init, Contract!Init, Feeding
<1> QED BY <1>1, ContractStep, Inductive, PTL DEF Spec, ImplementsContract, Contract!Spec

-----------------------------------------------------------------------------
(* The watchdog *)

\* How long the stream may have been silent when the watchdog's present sleep began,
\* plus that sleep.
SleepBound == NoRtp + PollInterval
RecoverBound == SleepBound + RecoverMax

\* While a session is pumped the watchdog sleeps, recovers or waits towards a moment at
\* which the silence is still short enough, or has given the session up.
DogShape ==
    sup = "pump" =>
        \/ wd = "sleep" /\ wdTimer <= PollInterval /\ rtpAge + wdTimer < SleepBound
        \/ /\ wd = "recover" /\ HasCheapRecovery /\ wdTimer <= RecoverMax
           /\ rtpAge + wdTimer < RecoverBound
        \/ /\ wd = "wait" /\ HasCheapRecovery /\ wdTimer <= RecoveryWait
           /\ rtpAge + wdTimer < RecoverBound + RecoveryWait
        \/ wd = "fired" /\ connFailed /\ SilenceBounded

\* The watchdog's own steps.
LEMMA WatchdogKeepsDogShape == ASSUME TypeOK, DogShape, Watchdog PROVE DogShape'
<1> USE TimeAssumption, Arithmetic DEF TypeOK, ClocksOK, DogOK, clocks, task
<1>1. sup' = sup /\ rtpAge' = rtpAge
  BY DEF Watchdog, Polled, Recovered, Rechecked
<1>2. CASE Polled
  BY <1>1, <1>2 DEF Polled, Resleep, Escalate, Stalled, DogShape, SilenceBounded,
     SleepBound, RecoverBound
<1>3. CASE Recovered
  BY <1>1, <1>3 DEF Recovered, DogShape, SleepBound, RecoverBound
<1>4. CASE Rechecked
  BY <1>1, <1>4 DEF Rechecked, Resleep, Escalate, Restored, Stalled, DogShape, SilenceBounded,
     SleepBound, RecoverBound
<1> QED BY <1>2, <1>3, <1>4 DEF Watchdog

\* A unit of time moves the silence and the sleep towards the same moment.
LEMMA SameMoment ==
    ASSUME NEW age \in Nat, NEW later \in Nat, NEW left \in Nat, NEW b \in Int,
           later <= age + 1, left # 0, age + left < b
    PROVE  later + (left - 1) < b /\ left - 1 <= left
  OBVIOUS

\* Time shortens the sleep as much as it lengthens the silence, and does not pass while
\* a session that was given up has yet to end.
LEMMA TickKeepsDogShape == ASSUME TypeOK, DogShape, Punctual, Tick PROVE DogShape'
<1> USE TimeAssumption, CountAssumption, Arithmetic DEF TypeOK, ClocksOK, DogOK
<1>1. sup' = sup /\ wd' = wd /\ connFailed' = connFailed /\ ~Due
  BY DEF Tick
<1>2. rtpAge' \in 0 .. AgeCap /\ rtpAge' <= rtpAge + 1
  BY DEF Tick, Smaller
<1>3. wdTimer' = IF wdTimer = 0 THEN 0 ELSE wdTimer - 1
  BY DEF Tick, Less
<1>0. rtpAge \in Nat /\ wdTimer \in Nat /\ rtpAge' \in Nat
  BY <1>2
<1>4. ASSUME NEW b \in Int, rtpAge + wdTimer < b, wdTimer # 0
      PROVE  rtpAge' + wdTimer' < b /\ wdTimer' <= wdTimer
  <2>1. wdTimer' = wdTimer - 1
    BY <1>3, <1>4
  <2> QED BY <1>0, <1>2, <1>4, <2>1, SameMoment
<1>5. CASE sup = "pump" /\ wd = "sleep"
  BY <1>1, <1>4, <1>3, <1>5 DEF Due, DogShape, SleepBound
<1>6. CASE sup = "pump" /\ wd = "recover"
  BY <1>1, <1>4, <1>3, <1>6 DEF Due, DogShape, SleepBound, RecoverBound
<1>7. CASE sup = "pump" /\ wd = "wait"
  BY <1>1, <1>4, <1>3, <1>7 DEF Due, DogShape, SleepBound, RecoverBound
<1>8. sup = "pump" => wd \in {"sleep", "recover", "wait"}
  BY <1>1 DEF Due, DogShape
<1> QED BY <1>1, <1>5, <1>6, <1>7, <1>8 DEF DogShape

LEMMA NextKeepsDogShape == ASSUME TypeOK, DogShape, Punctual, Next PROVE DogShape'
<1>1. CASE Watchdog
  BY <1>1, WatchdogKeepsDogShape
<1>2. CASE Tick
  BY <1>2, TickKeepsDogShape
<1>3. CASE StartPump
  BY <1>3, TimeAssumption, Arithmetic DEF StartPump, DogShape, SleepBound
<1>4. ASSUME NEW p \in PCs, NEW hasPayload \in BOOLEAN, Tap(p, hasPayload)
      PROVE DogShape'
  <2>1. UNCHANGED <<sup, wd, wdTimer, connFailed>> /\ rtpAge' \in {0, rtpAge}
    BY <1>4 DEF Tap, task, dog, clocks
  <2>2. rtpAge' <= rtpAge /\ rtpAge \in Nat /\ rtpAge' \in Nat
    BY <2>1 DEF TypeOK, ClocksOK
  <2>3. SleepBound \in Nat /\ RecoverBound \in Nat /\ wdTimer \in Nat /\ RecoveryWait \in Nat
    BY TimeAssumption, Arithmetic DEF SleepBound, RecoverBound, TypeOK, DogOK
  <2>4. SilenceBounded => SilenceBounded'
    BY <2>1, <2>2, TimeAssumption, Arithmetic DEF SilenceBounded
  <2> QED BY <2>1, <2>2, <2>3, <2>4 DEF DogShape, SleepBound, RecoverBound
<1>5. CASE ConnectionLost
  BY <1>5 DEF ConnectionLost, DogShape, SilenceBounded, clocks, task
<1>6. CASE (Cycle /\ ~StartPump) \/ CycleEnd \/ Cancelled
  <2>1. sup' # "pump"
    BY <1>6 DEF Cycle, StartCycle, Woken, CredentialsFetched, OpenPC, OfferReady,
       AnswerReceived, RemoteDescriptionSet, CycleEnd, StepFailed, OfferFailed,
       TrackTimedOut, PumpEnded, Disconnected, Closed, Cancelled, CancelledInCycle,
       CancelledOutside, BeginTeardown, AfterTeardown
  <2> QED BY <2>1 DEF DogShape
<1>7. CASE TrackEvent \/ ViewerJoins \/ RequestKeyframe \/ Stop \/ StopReturns
  BY <1>7 DEF TrackEvent, ViewerJoins, RequestKeyframe, Stop, StopReturns, DogShape,
     SilenceBounded, clocks, task, dog
<1> QED BY <1>1, <1>2, <1>3, <1>4, <1>5, <1>6, <1>7 DEF Next, Network

\* With punctual timers a pumped session is never silent longer than the window, one
\* poll, and the cheap recovery with its wait, for all values of these.
THEOREM SilenceIsBounded == Spec => [](Punctual => SilenceBounded)
<1>1. Init => DogShape
  BY DEF Init, DogShape
<1>2. ASSUME TypeOK, Punctual => DogShape, [Next]_vars PROVE (Punctual => DogShape)'
  <2>1. CASE UNCHANGED vars
    BY <1>2, <2>1 DEF vars, clocks, task, dog, DogShape, SilenceBounded
  <2> QED BY <1>2, <2>1, NextKeepsDogShape
<1>3. TypeOK /\ DogShape => SilenceBounded
  BY TimeAssumption, Arithmetic
     DEF DogShape, SilenceBounded, SleepBound, RecoverBound, TypeOK, ClocksOK, DogOK
<1> QED BY TypeCorrect, <1>1, <1>2, <1>3, PTL DEF Spec

\* The watchdog runs only while a session is pumped; while it waits, a packet that came
\* during the wait is no older than the part of the wait that is over.
WaitShape ==
    /\ wd # "off" => sup = "pump"
    /\ wd = "wait" => wdTimer <= RecoveryWait
    /\ revived => wd = "wait" /\ rtpAge + wdTimer <= RecoveryWait

\* What a unit of time takes off the sleep it adds to the silence at most.
LEMMA OneUnitLater ==
    ASSUME NEW age \in Nat, NEW later \in Nat, NEW left \in Nat, NEW b \in Nat,
           later <= age + 1, left # 0, left <= b
    PROVE  left - 1 <= b /\ (age + left <= b => later + (left - 1) <= b)
  OBVIOUS

LEMMA NextKeepsWaitShape == ASSUME TypeOK, WaitShape, Punctual, Next PROVE WaitShape'
<1> USE TimeAssumption DEF TypeOK, ClocksOK, DogOK
<1>1. CASE Watchdog
  BY <1>1 DEF Watchdog, Polled, Recovered, Rechecked, Resleep, Escalate, WaitShape, task,
     clocks
<1>2. CASE Tick
  <2>1. /\ UNCHANGED <<sup, wd, revived>> /\ wdTimer \in Nat /\ rtpAge \in Nat
        /\ rtpAge' \in Nat /\ rtpAge' <= rtpAge + 1
    BY <1>2, CountAssumption DEF Tick, Smaller
  <2>2. wdTimer' = IF wdTimer = 0 THEN 0 ELSE wdTimer - 1
    BY <1>2 DEF Tick, Less
  <2>3. wd = "wait" => wdTimer # 0
    BY <1>2 DEF Tick, Due
  <2>4. CASE wd # "wait"
    BY <2>1, <2>4 DEF WaitShape
  <2>5. CASE wd = "wait"
    <3>1. wdTimer' = wdTimer - 1
      BY <2>2, <2>3, <2>5
    <3>2. wdTimer <= RecoveryWait /\ RecoveryWait \in Nat
      BY <2>5 DEF WaitShape
    <3>3. revived => rtpAge + wdTimer <= RecoveryWait
      BY DEF WaitShape
    <3>4. wd' = "wait" /\ (revived' <=> revived) /\ (wd # "off" => sup = "pump")
      BY <2>1, <2>5 DEF WaitShape
    <3>5. wdTimer' <= RecoveryWait /\ (revived => rtpAge' + wdTimer' <= RecoveryWait)
      BY <2>1, <2>3, <2>5, <3>1, <3>2, <3>3, OneUnitLater
    <3> QED BY <2>1, <2>5, <3>4, <3>5 DEF WaitShape
  <2> QED BY <2>4, <2>5
<1>3. CASE StartPump
  BY <1>3 DEF StartPump, At, WaitShape
<1>4. ASSUME NEW p \in PCs, NEW hasPayload \in BOOLEAN, Tap(p, hasPayload)
      PROVE WaitShape'
  BY <1>4 DEF Tap, WaitShape, task, clocks
<1>5. CASE CycleEnd \/ CancelledInCycle \/ CancelledOutside
  <2>1. CASE wd' = "off" /\ ~revived'
    BY <2>1 DEF WaitShape
  <2>2. CASE sup \in {"start", "backoff"} \cup Teardown /\ UNCHANGED dog
    BY <2>2 DEF WaitShape, Teardown, dog
  <2> QED BY <1>5, <2>1, <2>2 DEF CycleEnd, StepFailed, OfferFailed, TrackTimedOut,
     PumpEnded, Disconnected, Closed, CancelledInCycle, CancelledOutside, BeginTeardown, At,
     Teardown
<1>6. CASE (Cycle /\ ~StartPump) \/ ConnectionLost
  BY <1>6 DEF Cycle, StartCycle, Woken, CredentialsFetched, OpenPC, OfferReady,
     AnswerReceived, RemoteDescriptionSet, ConnectionLost, At, WaitShape, dog, task, clocks
<1>7. CASE TrackEvent \/ ViewerJoins \/ RequestKeyframe \/ Stop \/ StopReturns
  BY <1>7 DEF TrackEvent, ViewerJoins, RequestKeyframe, Stop, StopReturns, WaitShape,
     clocks, task, dog
<1> QED BY <1>1, <1>2, <1>3, <1>4, <1>5, <1>6, <1>7 DEF Next, Network, Cancelled

\* A stream that comes back while the watchdog waits after the cheap recovery is not torn
\* down, for all timing constants with a wait shorter than the window, if timers are
\* served on time.
THEOREM RevivedIsSpared == Spec => RevivedStreamIsSpared
<1>1. Init => WaitShape
  BY DEF Init, WaitShape
<1>2. ASSUME TypeOK, Punctual => WaitShape, [Next]_vars PROVE (Punctual => WaitShape)'
  <2>1. CASE UNCHANGED vars
    BY <1>2, <2>1 DEF vars, clocks, task, dog, WaitShape
  <2> QED BY <1>2, <2>1, NextKeepsWaitShape
<1>3. ASSUME TypeOK, Punctual => WaitShape, Next,
             wd = "wait", wd' = "fired", Punctual, RecoveryWait < NoRtp
      PROVE  ~revived
  <2>1. Rechecked
    BY <1>3 DEF Next, Cycle, StartCycle, Woken, CredentialsFetched, OpenPC, OfferReady,
       AnswerReceived, RemoteDescriptionSet, StartPump, Cancelled, CancelledInCycle,
       CancelledOutside, BeginTeardown, Stop, StopReturns, CycleEnd, StepFailed,
       OfferFailed, TrackTimedOut, PumpEnded, Disconnected, Closed, Network, TrackEvent,
       ConnectionLost, ViewerJoins, Tap, RequestKeyframe, Tick, Watchdog, Polled,
       Recovered, dog
  <2>2. wdTimer = 0 /\ rtpAge >= NoRtp
    BY <1>3, <2>1 DEF Rechecked, Resleep, Restored, Stalled
  <2> QED BY <1>3, <2>2, TimeAssumption DEF WaitShape, TypeOK, ClocksOK, DogOK
<1>4. [Next]_vars /\ TypeOK /\ (Punctual => WaitShape) =>
      [wd = "wait" /\ wd' = "fired" /\ Punctual /\ RecoveryWait < NoRtp => ~revived]_vars
  BY <1>3
<1> QED BY TypeCorrect, <1>1, <1>2, <1>4, PTL DEF Spec, RevivedStreamIsSpared
=============================================================================
