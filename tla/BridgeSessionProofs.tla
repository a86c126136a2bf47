------------------------ MODULE BridgeSessionProofs ------------------------
(***************************************************************************)
(* Theorems about BridgeSession, for any number of cloud clients and any    *)
(* values of its periods, debounces and limits.                            *)
(*                                                                         *)
(* Each property needs to know what the await of the main task says about  *)
(* the rest of the state: which client there is (ClientShape), and how     *)
(* much of the time until the next keepalive has gone by (BeatShape).      *)
(***************************************************************************)
EXTENDS BridgeSession, TLAPS

\* Awaits in which the session has no client.
Clientless == {"loginBackoff", "fetchBackoff", "pause", "exited"}
Making     == {"login", "discard"}

\* A client is being made, or the state holds the only one there is, or there is none.
ClientShape ==
    /\ main \in Making => fresh \in Cloud /\ live = {fresh} /\ client = None
    /\ main \notin Making => fresh = None /\ live = {client} \ {None}
    /\ main \in Clientless => client = None

\* The first cycle of the relay finds credentials.
CredsShape == main = "bind" => creds

\* The debounce's clock starts when the call does.
PokeShape == pokeAge = refreshAge

\* Awaits of a round before its keepalive.
Early == {"login", "discard", "loginBackoff", "reconcile"}

\* Awaits in which the relay is not there: before its start, or after its stop.
Relayless == {"fetchBackoff", "pause"}

\* On one client: the last keepalive was sent so long ago that the next one falls due
\* Keepalive after it; a round that found it not due yet, and the wait after it, end
\* before Keepalive and one reconciliation are over, and a round that found it due
\* asks go2rtc once more before it sends.
BeatShape ==
    /\ client # None /\ toKeepalive > 0 => beat + toKeepalive <= Keepalive
    /\ relayOn /\ main \in Early /\ "keepalive" \notin due => Keepalive > 0
    /\ main \in Relayless => ~relayOn
    /\ main = "wait" =>
          /\ spent <= 1
          /\ client # None => beat + 1 <= Keepalive + ReconcileMax + spent
    /\ main = "reconcile" =>
          /\ spent <= ReconcileMax
          /\ client # None =>
                IF "keepalive" \in due THEN beat <= Keepalive + ReconcileMax + spent
                ELSE beat + 1 <= Keepalive + spent

IInv == TypeOK /\ ClientShape /\ CredsShape /\ PokeShape /\ BeatShape

\* What the supervisor's call is, wherever it is part of a step.
USE DEF call, Idles, CallsOn

-----------------------------------------------------------------------------
(* Type correctness *)

\* The timers stay inside their bounds.
LEMMA Arithmetic ==
    /\ SinceCap \in Nat
    /\ \A n \in Nat : 0 \in 0 .. n /\ n \in 0 .. n
    /\ \A n \in Nat, s \in Nat : AtLeast0(n - s) \in 0 .. n
    /\ \A n \in Nat : \A a \in 0 .. n : AtLeast0(a - 1) \in 0 .. n
    /\ \A n \in Nat : \A a \in 0 .. n : AtMost(a + 1, n) \in 0 .. n
  BY BridgeAssumption DEF SinceCap, AtLeast0, AtMost

\* What a session begins with, and ends with.
LEMMA Origins ==
    /\ 0 \in 0 .. SinceCap /\ 0 \in 0 .. Reconcile /\ 0 \in 0 .. Keepalive
    /\ CredsDebounce \in 0 .. CredsDebounce /\ RefreshDebounce \in 0 .. RefreshDebounce
    /\ 0 \in 0 .. CredsDebounce /\ 0 \in 0 .. RefreshDebounce
    /\ 0 \in 0 .. BeatCap /\ 0 \in 0 .. Threshold /\ 0 \in 0 .. AgeCap
  BY BridgeAssumption, Arithmetic

LEMMA InitTypes == Init => TypeOK
<1> SUFFICES ASSUME Init PROVE TypeOK
  OBVIOUS
<1>1. MainOK
  BY Origins DEF Init, MainOK, Places
<1>2. StateOK
  BY Origins DEF Init, StateOK
<1>3. OutsideOK
  BY Origins DEF Init, OutsideOK, Relay!Init
<1> QED BY <1>1, <1>2, <1>3 DEF TypeOK

\* The parts of the state a step leaves alone.
LEMMA Untouched ==
    ASSUME TypeOK
    PROVE  /\ UNCHANGED <<stop, mainVars, timers>> => MainOK'
           /\ UNCHANGED <<relayOn, client, cache, calls>> => StateOK'
           /\ UNCHANGED <<live, beat, relay>> => OutsideOK'
<1>1. MainOK /\ StateOK /\ OutsideOK
  BY DEF TypeOK
<1>2. UNCHANGED <<stop, mainVars, timers>> => MainOK'
  BY <1>1 DEF MainOK, mainVars, timers
<1>3. UNCHANGED <<relayOn, client, cache, calls>> => StateOK'
  BY <1>1 DEF StateOK, cache, calls
<1>4. UNCHANGED <<live, beat, relay>> => OutsideOK'
  BY <1>1 DEF OutsideOK, relay
<1> QED BY <1>2, <1>3, <1>4

\* The relay's own steps keep its part of the state.
LEMMA RelayTypes ==
    ASSUME OutsideOK, UNCHANGED <<live, beat>>,
           \/ Relay!Leave \/ Relay!Rearm \/ Relay!Detach \/ Relay!Deliver \/ Relay!Age
           \/ \E p \in PCs : Relay!Attach(p)
           \/ UNCHANGED relay
    PROVE  OutsideOK'
<1> USE BridgeAssumption DEF OutsideOK
<1>1. CASE Relay!Leave
  BY <1>1 DEF Relay!Leave
<1>2. CASE Relay!Rearm \/ Relay!Detach
  BY <1>2 DEF Relay!Rearm, Relay!Detach
<1>3. CASE Relay!Deliver
  BY <1>3 DEF Relay!Deliver
<1>4. CASE Relay!Age
  BY <1>4 DEF Relay!Age
<1>5. ASSUME NEW p \in PCs, Relay!Attach(p) PROVE OutsideOK'
  BY <1>5 DEF Relay!Attach
<1>6. CASE UNCHANGED relay
  BY <1>6 DEF relay
<1> QED BY <1>1, <1>2, <1>3, <1>4, <1>5, <1>6

\* A login that starts, and the finally block.
LEMMA GoesTypes ==
    ASSUME TypeOK
    PROVE  /\ LogsIn => main' \in Places /\ spent' \in Nat /\ fresh' \in Cloud
                        /\ live' \subseteq Cloud
           /\ \A reason \in {"stop", "dry", "error"} : Finally(reason) =>
                 /\ main' \in Places /\ spent' \in Nat /\ why' = reason
                 /\ sup' = "idle" /\ caller' = None /\ due' = {} /\ (Relay!Leave \/ UNCHANGED relay)
  BY DEF LogsIn, Finally, Goes, Places, TypeOK, OutsideOK

\* The main task goes on to its next await.
LEMMA MovesOn ==
    ASSUME MainOK, UNCHANGED <<stop, sinceNow, fresh, relayOn, timers>>,
           main' \in Places, spent' = 0, due' \subseteq {"reconcile", "keepalive"},
           why' \in {"stop", "dry", "error"}
    PROVE  MainOK'
  BY DEF MainOK, timers

LEMMA FromTopTypes ==
    ASSUME TypeOK, FromTop(client),
           UNCHANGED <<stop, relayOn, timers, client, cache, callAge, pokeAge, beat>>
    PROVE  TypeOK'
<1> USE Arithmetic DEF TypeOK, MainOK, StateOK, timers, cache, relay
<1>1. CASE stop \/ IsDry
  <2>1. \E reason \in {"stop", "dry", "error"} : Finally(reason)
    BY <1>1 DEF FromTop
  <2>2. UNCHANGED <<sinceNow, fresh, live>>
    BY <1>1 DEF FromTop
  <2>3. OutsideOK'
    BY <2>1, <2>2, GoesTypes, RelayTypes
  <2> QED BY <2>1, <2>2, <2>3, GoesTypes
<1>2. CASE ~stop /\ ~IsDry
  <2>1. sinceNow' = 0 /\ due' \subseteq {"reconcile", "keepalive"} /\ UNCHANGED <<why, call, relay>>
    BY <1>2 DEF FromTop, DueNow
  <2>2. main' \in Places /\ spent' \in Nat /\ fresh' \in Cloud \cup {None} /\ live' \subseteq Cloud
    BY <1>2, GoesTypes DEF FromTop, FromReconcile, FromKeepalive, Goes, Places, OutsideOK
  <2> QED BY <2>1, <2>2 DEF OutsideOK
<1> QED BY <1>1, <1>2

\* What a session ends with.
LEMMA ResetTypes ==
    ASSUME TypeOK, Reset, SessionOver, UNCHANGED <<stop, fresh>> PROVE TypeOK'
<1>1. MainOK'
  BY Origins DEF TypeOK, MainOK, Places, Reset, SessionOver, Goes
<1>2. StateOK'
  BY Origins DEF TypeOK, StateOK, Reset
<1>3. OutsideOK'
  BY Origins DEF TypeOK, OutsideOK, Reset, SessionOver
<1> QED BY <1>1, <1>2, <1>3 DEF TypeOK

LEMMA MainTypes == ASSUME TypeOK, CredsShape, MainStep PROVE TypeOK'
<1>0. MainOK /\ StateOK /\ OutsideOK
  BY DEF TypeOK
<1>1. CASE LoggedIn
  BY <1>0, <1>1, Origins DEF LoggedIn, FromReconcile, FromKeepalive, Goes, Places, TypeOK,
     MainOK, StateOK, OutsideOK, timers, cache, calls, relay
<1>2. CASE LoginFailed \/ FetchFailed \/ KeepaliveFailed \/ RelayStopped
  <2>1. StateOK' /\ OutsideOK'
    BY <1>2, Untouched DEF LoginFailed, FetchFailed, KeepaliveFailed, RelayStopped
  <2>2. /\ UNCHANGED <<stop, sinceNow, due, fresh, relayOn, why, timers>>
        /\ spent' = 0 /\ main' \in Places
    BY <1>2 DEF LoginFailed, FetchFailed, KeepaliveFailed, RelayStopped, Goes, Places
  <2>3. MainOK'
    BY <1>0, <2>2, MovesOn DEF MainOK
  <2> QED BY <2>1, <2>3 DEF TypeOK
<1>3. CASE Discarded
  BY <1>0, <1>3 DEF Discarded, Goes, Places, TypeOK, MainOK, StateOK, OutsideOK, timers,
     cache, calls, relay
<1>4. CASE BackoffOver
  <2>1. CASE stop
    <3>1. Finally("stop") /\ UNCHANGED <<fresh, live, beat>>
      BY <1>4, <2>1 DEF BackoffOver
    <3>2. OutsideOK'
      BY <3>1, GoesTypes, RelayTypes, <1>0
    <3>3. MainOK'
      BY <1>0, <1>4, <3>1, GoesTypes DEF BackoffOver, MainOK, timers
    <3>4. StateOK'
      BY <1>0, <1>4, <3>1, GoesTypes DEF BackoffOver, StateOK, cache
    <3> QED BY <3>2, <3>3, <3>4 DEF TypeOK
  <2>2. CASE ~stop
    BY <1>0, <1>4, <2>2, GoesTypes DEF BackoffOver, TypeOK, MainOK, StateOK, OutsideOK,
       timers, cache, relay
  <2> QED BY <2>1, <2>2
<1>5. CASE Fetched
  <2>1. UNCHANGED <<live, beat>> /\ (Finally("stop") \/ UNCHANGED relay)
    BY <1>5 DEF Fetched
  <2>2. OutsideOK'
    BY <1>0, <2>1, GoesTypes, RelayTypes
  <2>3. MainOK'
    <3>1. UNCHANGED <<stop, sinceNow, fresh, relayOn, timers>>
      BY <1>5 DEF Fetched
    <3>2. CASE stop
      <4>1. Finally("stop")
        BY <1>5, <3>2 DEF Fetched
      <4> QED BY <1>0, <3>1, <4>1, MovesOn DEF Finally, Goes, Places
    <3>3. CASE ~stop
      <4>1. Goes("bind") /\ UNCHANGED <<due, why>>
        BY <1>5, <3>3 DEF Fetched
      <4> QED BY <1>0, <3>1, <4>1, MovesOn DEF Goes, Places, MainOK
    <3> QED BY <3>2, <3>3
  <2>4. StateOK'
    BY <1>0, <1>5, GoesTypes, Origins DEF Fetched, FirstCredentials, StateOK
  <2> QED BY <2>2, <2>3, <2>4 DEF TypeOK
<1>6. CASE Bound
  <2>1. OutsideOK'
    BY <1>0, <1>6, Origins DEF Bound, OutsideOK, Relay!Leave, relay
  <2>2. MainOK'
    BY <1>0, <1>6, Origins DEF Bound, MainOK, Goes, Places
  <2>3. StateOK'
    BY <1>0, <1>6 DEF Bound, CredsShape, StateOK, cache, calls
  <2> QED BY <2>1, <2>2, <2>3 DEF TypeOK
<1>7. CASE BindFailed
  <2>1. OutsideOK'
    BY <1>0, <1>7, GoesTypes, RelayTypes DEF BindFailed
  <2>2. MainOK'
    BY <1>0, <1>7, GoesTypes DEF BindFailed, MainOK, timers
  <2>3. StateOK'
    BY <1>0, <1>7, GoesTypes DEF BindFailed, StateOK, cache
  <2> QED BY <2>1, <2>2, <2>3 DEF TypeOK
<1>8. CASE Reconciled
  <2>1. StateOK' /\ OutsideOK'
    BY <1>8, Untouched DEF Reconciled
  <2>2. sinceNow \in Nat /\ toReconcile' \in 0 .. Reconcile
    BY <1>0, <1>8, Arithmetic, BridgeAssumption DEF MainOK, Reconciled
  <2>3. MainOK'
    BY <1>0, <1>8, <2>2 DEF Reconciled, FromKeepalive, Goes, Places, MainOK
  <2> QED BY <2>1, <2>3 DEF TypeOK
<1>9. CASE KeepaliveSent \/ Dropped
  <2>1. sinceNow \in Nat /\ (toKeepalive' \in 0 .. Keepalive \/ UNCHANGED toKeepalive)
    BY <1>0, <1>9, Arithmetic, BridgeAssumption
       DEF MainOK, KeepaliveSent, Dropped, NextKeepalive
  <2>2. MainOK'
    <3>1. /\ UNCHANGED <<stop, sinceNow, due, fresh, relayOn, why, toReconcile>>
          /\ spent' = 0 /\ main' \in Places
      BY <1>9 DEF KeepaliveSent, Dropped, Goes, Places
    <3> QED BY <1>0, <2>1, <3>1 DEF MainOK
  <2>3. StateOK'
    BY <1>0, <1>9 DEF KeepaliveSent, Dropped, Forgets, StateOK, cache, calls
  <2>4. OutsideOK'
    BY <1>0, <1>9, Origins DEF KeepaliveSent, Dropped, OutsideOK, relay
  <2> QED BY <2>2, <2>3, <2>4 DEF TypeOK
<1>10. CASE WaitOver
  BY <1>10, FromTopTypes DEF WaitOver
<1>11. CASE RtspStopped
  <2>1. CASE client # None
    <3>1. StateOK' /\ OutsideOK'
      BY <1>11, <2>1, Untouched DEF RtspStopped
    <3>2. MainOK'
      <4>1. /\ UNCHANGED <<stop, sinceNow, due, fresh, relayOn, why, timers>>
            /\ spent' = 0 /\ main' \in Places
        BY <1>11, <2>1 DEF RtspStopped, Goes, Places
      <4> QED BY <1>0, <4>1, MovesOn DEF MainOK
    <3> QED BY <3>1, <3>2 DEF TypeOK
  <2>2. CASE client = None
    BY <1>11, <2>2, ResetTypes DEF RtspStopped
  <2> QED BY <2>1, <2>2
<1>12. CASE ClientStopped
  BY <1>12, ResetTypes DEF ClientStopped
<1>13. CASE Restarted
  BY <1>0, <1>13, GoesTypes, Origins DEF Restarted, Goes, Places, TypeOK, MainOK, StateOK,
     OutsideOK, timers, cache, calls
<1> QED
  BY <1>1, <1>2, <1>3, <1>4, <1>5, <1>6, <1>7, <1>8, <1>9, <1>10, <1>11, <1>12, <1>13
     DEF MainStep, MainReturns

LEMMA OtherTypes == ASSUME TypeOK, Supervisor \/ StopSignal \/ Tick PROVE TypeOK'
<1>0. MainOK /\ StateOK /\ OutsideOK
  BY DEF TypeOK
<1>1. CASE Streams \/ Delivers
  <2>1. OutsideOK'
    BY <1>0, <1>1, RelayTypes DEF Streams, Delivers
  <2>2. MainOK'
    BY <1>1, Untouched DEF Streams, Delivers
  <2>3. StateOK'
    BY <1>1, Untouched DEF Streams, Delivers, mainVars
  <2> QED BY <2>1, <2>2, <2>3 DEF TypeOK
<1>2. CASE Supervisor /\ ~Streams /\ ~Delivers
  <2>1. MainOK' /\ OutsideOK'
    BY <1>2, Untouched DEF Supervisor, AsksForCredentials, CredentialsFetched,
       FetchingFailed, WakesPublisher, WakeFellBack, WakeSent, RecoversCheaply, Refreshed
  <2>2. UNCHANGED <<relayOn, client>> /\ (creds' = creds \/ creds' = TRUE)
    BY <1>2 DEF Supervisor, AsksForCredentials, CredentialsFetched, FetchingFailed,
       WakesPublisher, WakeFellBack, WakeSent, RecoversCheaply, Refreshed, mainVars, cache
  <2>3. /\ credsAge' \in 0 .. CredsDebounce /\ callAge' \in 0 .. CredsDebounce
        /\ refreshAge' \in 0 .. RefreshDebounce /\ pokeAge' \in 0 .. RefreshDebounce
        /\ sup' \in {"idle", "fetch", "wake", "fallback", "refresh"}
        /\ caller' \in Cloud \cup {None}
    BY <1>0, <1>2, Origins DEF Supervisor, AsksForCredentials, CredentialsFetched,
       FetchingFailed, WakesPublisher, WakeFellBack, WakeSent, RecoversCheaply, Refreshed,
       Refreshes, RefreshStarts, Idles, CallsOn, StateOK, cache
  <2> QED BY <1>0, <2>1, <2>2, <2>3 DEF TypeOK, StateOK
<1>3. CASE StopSignal
  BY <1>0, <1>3, Untouched DEF StopSignal, MainOK, mainVars, timers, TypeOK
<1>4. CASE Tick
  <2>1. OutsideOK'
    <3>1. beat' \in 0 .. BeatCap
      BY <1>0, <1>4, Arithmetic, BridgeAssumption DEF Tick, OutsideOK
    <3>2. CASE healthyAge < AgeCap
      BY <1>0, <1>4, <3>1, <3>2, BridgeAssumption DEF Tick, OutsideOK, Relay!Age
    <3>3. CASE ~(healthyAge < AgeCap)
      BY <1>0, <1>4, <3>1, <3>3 DEF Tick, OutsideOK, relay
    <3> QED BY <3>2, <3>3
  <2>2. /\ sinceNow' \in 0 .. SinceCap
        /\ toReconcile' \in 0 .. Reconcile /\ toKeepalive' \in 0 .. Keepalive
    BY <1>0, <1>4, Arithmetic, BridgeAssumption DEF Tick, MainOK
  <2>3. MainOK'
    BY <1>0, <1>4, <2>2 DEF Tick, MainOK
  <2>4. /\ credsAge' \in 0 .. CredsDebounce /\ callAge' \in 0 .. CredsDebounce
        /\ refreshAge' \in 0 .. RefreshDebounce /\ pokeAge' \in 0 .. RefreshDebounce
    BY <1>0, <1>4, Arithmetic, BridgeAssumption DEF Tick, StateOK
  <2>5. StateOK'
    BY <1>0, <1>4, <2>4 DEF Tick, StateOK
  <2> QED BY <2>1, <2>3, <2>5 DEF TypeOK
<1> QED BY <1>1, <1>2, <1>3, <1>4 DEF Supervisor

LEMMA TypeStep == ASSUME TypeOK, CredsShape, [Next]_vars PROVE TypeOK'
<1>1. CASE Next
  BY <1>1, MainTypes, OtherTypes DEF Next
<1>2. CASE UNCHANGED vars
  BY <1>2, Untouched DEF vars, mainVars, timers, cache, calls, relay, TypeOK
<1> QED BY <1>1, <1>2

-----------------------------------------------------------------------------
(* Which clients there are *)

\* A login begins where there is no client: the new one is the only one.
LEMMA OneLogin ==
    ASSUME ClientShape, main \notin Making, client = None, LogsIn, UNCHANGED client
    PROVE  ClientShape'
<1>1. live = {}
  BY DEF ClientShape
<1>2. main' = "login" /\ fresh' \in Cloud /\ live' = {fresh'}
  BY <1>1 DEF LogsIn, Goes
<1> QED BY <1>2 DEF ClientShape, Making, Clientless

\* A step that takes the client along.
LEMMA SameClient ==
    ASSUME ClientShape, UNCHANGED <<fresh, client, live>>,
           main \notin Making \/ main' = main, main' \notin Making \/ main' = main,
           main' \in Clientless => client = None \/ main' = main
    PROVE  ClientShape'
  BY DEF ClientShape

LEMMA ClientStep == ASSUME TypeOK, ClientShape, [Next]_vars PROVE ClientShape'
<1> USE DEF Making, Clientless
<1>1. CASE LoggedIn
  <2>1. client' = fresh /\ fresh \in Cloud /\ live' = {fresh} /\ fresh' = None
    BY <1>1 DEF LoggedIn, ClientShape
  <2>2. main' \in {"reconcile", "keepalive", "wait", "fetch"}
    BY <1>1 DEF LoggedIn, FromReconcile, FromKeepalive, Goes
  <2> QED BY <2>1, <2>2, BridgeAssumption DEF ClientShape
<1>2. CASE LoginFailed
  BY <1>2 DEF LoginFailed, Goes, ClientShape
<1>3. CASE Discarded
  BY <1>3, BridgeAssumption DEF Discarded, Goes, ClientShape
<1>4. CASE BackoffOver
  <2>1. client = None /\ main \notin Making
    BY <1>4 DEF BackoffOver, ClientShape
  <2>2. CASE stop
    BY <1>4, <2>1, <2>2, SameClient DEF BackoffOver, Finally, Goes
  <2>3. CASE ~stop
    BY <1>4, <2>1, <2>3, OneLogin DEF BackoffOver
  <2> QED BY <2>2, <2>3
<1>5. CASE Fetched
  <2>1. CASE stop
    BY <1>5, <2>1, SameClient DEF Fetched, Finally, Goes
  <2>2. CASE ~stop
    BY <1>5, <2>2, SameClient DEF Fetched, Goes
  <2> QED BY <2>1, <2>2
<1>6. CASE FetchFailed \/ KeepaliveFailed \/ RelayStopped
  BY <1>6, SameClient DEF FetchFailed, KeepaliveFailed, RelayStopped, Goes
<1>7. CASE Bound
  <2>1. main = "bind" /\ main' \in {"stopRelay", "reconcile"} /\ UNCHANGED <<fresh, client, live>>
    BY <1>7 DEF Bound, Goes
  <2> QED BY <2>1, SameClient
<1>8. CASE BindFailed
  BY <1>8, SameClient DEF BindFailed, Finally, Goes
<1>9. CASE Reconciled \/ KeepaliveSent
  <2>1. /\ main \in {"reconcile", "keepalive"} /\ main' \in {"keepalive", "wait"}
        /\ UNCHANGED <<fresh, client, live>>
    BY <1>9 DEF Reconciled, KeepaliveSent, FromKeepalive, Goes
  <2> QED BY <2>1, SameClient
<1>10. CASE Dropped
  <2>1. client' = None /\ fresh' = None /\ live' = {}
    BY <1>10 DEF Dropped, Forgets, ClientShape
  <2>2. main' \in {"wait", "fetchBackoff"}
    BY <1>10 DEF Dropped, Goes
  <2> QED BY <2>1, <2>2 DEF ClientShape
<1>11. CASE WaitOver
  <2>1. CASE client = None /\ ~stop /\ ~IsDry
    BY <1>11, <2>1, OneLogin DEF WaitOver, FromTop
  <2>2. CASE ~(client = None /\ ~stop /\ ~IsDry)
    <3>1. UNCHANGED <<fresh, client, live>>
      BY <1>11, <2>2 DEF WaitOver, FromTop
    <3>2. main' \in {"stopRelay", "stopRtsp", "reconcile", "keepalive", "wait"}
      BY <1>11, <2>2 DEF WaitOver, FromTop, Finally, FromReconcile, FromKeepalive, Goes
    <3> QED BY <1>11, <3>1, <3>2, SameClient DEF WaitOver
  <2> QED BY <2>1, <2>2
<1>12. CASE RtspStopped
  <2>1. CASE client # None
    BY <1>12, <2>1, SameClient DEF RtspStopped, Goes
  <2>2. CASE client = None
    BY <1>12, <2>2 DEF RtspStopped, SessionOver, Reset, Goes, ClientShape
  <2> QED BY <2>1, <2>2
<1>13. CASE ClientStopped
  BY <1>13 DEF ClientStopped, SessionOver, Reset, Goes, ClientShape
<1>14. CASE Restarted
  <2>1. client = None /\ main \notin Making /\ UNCHANGED client
    BY <1>14 DEF Restarted, ClientShape
  <2>2. CASE stop
    BY <1>14, <2>1, <2>2, SameClient DEF Restarted, Goes
  <2>3. CASE ~stop
    BY <1>14, <2>1, <2>3, OneLogin DEF Restarted
  <2> QED BY <2>2, <2>3
<1>15. CASE Supervisor \/ StopSignal \/ Tick \/ UNCHANGED vars
  <2>1. UNCHANGED <<main, fresh, client, live>>
    BY <1>15 DEF Supervisor, Streams, Delivers, AsksForCredentials, CredentialsFetched,
       FetchingFailed, WakesPublisher, WakeFellBack, WakeSent, RecoversCheaply,
       Refreshed, StopSignal, Tick, vars, mainVars
  <2> QED BY <2>1, SameClient
<1> QED
  BY <1>1, <1>2, <1>3, <1>4, <1>5, <1>6, <1>7, <1>8, <1>9, <1>10, <1>11, <1>12, <1>13,
     <1>14, <1>15 DEF Next, MainStep, MainReturns

-----------------------------------------------------------------------------
(* Credentials, and the clock of the debounce *)

\* Awaits the steps of the main task end in, the first fetch apart.
LEMMA WhereMainGoes ==
    ASSUME MainStep, ~Fetched PROVE main' # "bind"
<1>1. CASE LoggedIn \/ Reconciled
  BY <1>1 DEF LoggedIn, Reconciled, FromReconcile, FromKeepalive, Goes
<1>2. CASE BackoffOver \/ Restarted
  BY <1>2 DEF BackoffOver, Restarted, Finally, LogsIn, Goes
<1>3. CASE Bound \/ BindFailed \/ Dropped
  BY <1>3 DEF Bound, BindFailed, Finally, Dropped, Goes
<1>4. CASE WaitOver
  BY <1>4 DEF WaitOver, FromTop, Finally, LogsIn, FromReconcile, FromKeepalive, Goes
<1>5. CASE RtspStopped \/ ClientStopped
  BY <1>5 DEF RtspStopped, ClientStopped, SessionOver, Goes
<1>6. CASE \/ LoginFailed \/ Discarded \/ FetchFailed \/ KeepaliveSent \/ KeepaliveFailed
           \/ RelayStopped
  BY <1>6 DEF LoginFailed, Discarded, FetchFailed, KeepaliveSent, KeepaliveFailed,
     RelayStopped, Goes
<1> QED BY <1>1, <1>2, <1>3, <1>4, <1>5, <1>6 DEF MainStep, MainReturns

LEMMA CredsStep == ASSUME CredsShape, [Next]_vars PROVE CredsShape'
<1>1. CASE Fetched
  BY <1>1 DEF Fetched, FirstCredentials, CredsShape
<1>2. CASE MainStep /\ ~Fetched
  BY <1>2, WhereMainGoes DEF CredsShape
<1>3. CASE Supervisor \/ StopSignal \/ Tick \/ UNCHANGED vars
  <2>1. main' = main /\ (creds' = creds \/ creds' = TRUE)
    BY <1>3 DEF Supervisor, Streams, Delivers, AsksForCredentials, CredentialsFetched,
       FetchingFailed, WakesPublisher, WakeFellBack, WakeSent, RecoversCheaply,
       Refreshed, StopSignal, Tick, vars, mainVars, cache
  <2> QED BY <2>1 DEF CredsShape
<1> QED BY <1>1, <1>2, <1>3 DEF Next

LEMMA PokeStep == ASSUME PokeShape, [Next]_vars PROVE PokeShape'
<1>1. CASE RtspStopped \/ ClientStopped
  BY <1>1 DEF RtspStopped, ClientStopped, Reset, PokeShape, cache, calls
<1>2. CASE MainStep /\ ~RtspStopped /\ ~ClientStopped
  BY <1>2 DEF MainStep, MainReturns, LoggedIn, LoginFailed, Discarded, BackoffOver, Fetched,
     FetchFailed, Bound, BindFailed, Reconciled, KeepaliveSent, KeepaliveFailed, Dropped,
     WaitOver, RelayStopped, Restarted, PokeShape, cache, calls
<1>3. CASE WakesPublisher \/ WakeSent \/ RecoversCheaply
  BY <1>3 DEF WakesPublisher, WakeSent, RecoversCheaply, Refreshes, RefreshStarts, PokeShape
<1>4. CASE Supervisor /\ ~WakesPublisher /\ ~WakeSent /\ ~RecoversCheaply
  BY <1>4 DEF Supervisor, Streams, Delivers, AsksForCredentials, CredentialsFetched,
     FetchingFailed, WakeFellBack, Refreshed, PokeShape, cache, calls
<1>5. CASE Tick
  BY <1>5 DEF Tick, PokeShape
<1>6. CASE StopSignal \/ UNCHANGED vars
  BY <1>6 DEF StopSignal, vars, PokeShape, cache, calls
<1> QED BY <1>1, <1>2, <1>3, <1>4, <1>5, <1>6 DEF Next

-----------------------------------------------------------------------------
(* The time between two keepalives *)

Numbers == beat \in Nat /\ toKeepalive \in 0 .. Keepalive /\ spent \in Nat

LEMMA Periods == Keepalive \in Nat /\ ReconcileMax \in Nat /\ ReconcileMax >= 1
  BY BridgeAssumption

\* A bound that grows with the time spent in an await outlives a tick.
LEMMA OneMore ==
    \A a \in Nat, b \in Nat, n \in Nat, s \in Nat :
        b <= a + 1 =>
            /\ a + 1 <= n + s => b + 1 <= n + (s + 1)
            /\ a <= n + s => b <= n + (s + 1)
  OBVIOUS

\* What is known of a beat at the beginning of an await is within its bound.
LEMMA Slack ==
    \A b \in Nat, k \in Nat, r \in Nat :
        r >= 1 => /\ b + 1 <= k => b + 1 <= k + r + 0 /\ b + 1 <= k + 0
                  /\ b <= k + r => b <= k + r + 0
                  /\ b = 0 => /\ b + 1 <= k + r + 0
                              /\ \A t \in 0 .. k : b + t <= k
  OBVIOUS

\* A step to an await of which BeatShape says nothing, or one of the same shape.
LEMMA NotInTheLoop ==
    ASSUME BeatShape, UNCHANGED <<client, toKeepalive, beat>>,
           main' \notin Early \cup Relayless \cup {"wait"}
    PROVE  BeatShape'
  BY DEF BeatShape, Early, Relayless

\* The rest of a round, from the reconciliation on: the client's last keepalive is
\* known to be recent, or not needed yet.
LEMMA RestOfRound ==
    ASSUME beat' \in Nat, FromReconcile, relayOn' => ("keepalive" \notin due' => Keepalive > 0),
           client' # None /\ toKeepalive' > 0 => beat' + toKeepalive' <= Keepalive,
           client' # None /\ "keepalive" \in due' => beat' <= Keepalive + ReconcileMax,
           client' # None /\ "keepalive" \notin due' => beat' + 1 <= Keepalive
    PROVE  BeatShape'
<1>1. spent' = 0 /\ main' \in {"reconcile", "keepalive", "wait"}
  BY DEF FromReconcile, FromKeepalive, Goes
<1>2. main' = "wait" => "keepalive" \notin due'
  BY DEF FromReconcile, FromKeepalive, Goes
<1>3. main' = "wait" =>
          spent' <= 1 /\ (client' # None => beat' + 1 <= Keepalive + ReconcileMax + spent')
  <2> SUFFICES ASSUME main' = "wait", client' # None
               PROVE  beat' + 1 <= Keepalive + ReconcileMax + spent'
    BY <1>1
  <2>1. beat' + 1 <= Keepalive
    BY <1>2
  <2> QED BY <1>1, <2>1, Periods, Slack
<1>4. client' # None =>
          IF "keepalive" \in due' THEN beat' <= Keepalive + ReconcileMax + spent'
          ELSE beat' + 1 <= Keepalive + spent'
  BY <1>1, Periods, Slack
<1>5. spent' <= ReconcileMax
  BY <1>1, Periods
<1> QED BY <1>1, <1>3, <1>4, <1>5 DEF BeatShape, Early, Relayless

LEMMA BeatTick == ASSUME TypeOK, BeatShape, Numbers, Tick PROVE BeatShape'
<1>1. UNCHANGED <<main, client, due, relayOn>>
  BY DEF Tick
<1>2. toKeepalive' = AtLeast0(toKeepalive - 1) /\ beat' \in Nat /\ beat' <= beat + 1
  BY BridgeAssumption DEF Tick, AtMost, Numbers
<1>3. main = "wait" => spent' = spent + 1 /\ spent < 1
  BY DEF Tick, Limits
<1>4. main = "reconcile" => spent' = spent + 1 /\ spent < ReconcileMax
  BY DEF Tick, Limits
<1>5. (client # None /\ toKeepalive > 0 => beat + toKeepalive <= Keepalive)'
  <2> SUFFICES ASSUME client # None, toKeepalive' > 0
               PROVE  beat' + toKeepalive' <= Keepalive
    BY <1>1
  <2>1. toKeepalive' = toKeepalive - 1 /\ toKeepalive > 0
    BY <1>2, Periods DEF AtLeast0, Numbers
  <2>2. beat + toKeepalive <= Keepalive
    BY <2>1 DEF BeatShape
  <2> QED BY <1>2, <2>1, <2>2, Periods DEF Numbers
<1>6. /\ (relayOn /\ main \in Early /\ "keepalive" \notin due => Keepalive > 0)'
      /\ (main \in Relayless => ~relayOn)'
  BY <1>1 DEF BeatShape
<1>7. CASE main = "wait"
  <2>1. spent' <= 1
    BY <1>3, <1>7, Periods DEF Numbers
  <2>2. ASSUME client # None PROVE beat' + 1 <= Keepalive + ReconcileMax + spent'
    <3>1. beat + 1 <= Keepalive + ReconcileMax + spent
      BY <1>7, <2>2 DEF BeatShape
    <3>2. beat \in Nat /\ spent \in Nat /\ Keepalive + ReconcileMax \in Nat
      BY Periods DEF Numbers
    <3> QED BY <1>2, <1>3, <1>7, <3>1, <3>2, OneMore
  <2> QED BY <1>1, <1>5, <1>6, <1>7, <2>1, <2>2 DEF BeatShape
<1>8. CASE main = "reconcile"
  <2>1. spent' <= ReconcileMax
    BY <1>4, <1>8, Periods DEF Numbers
  <2>2. ASSUME client # None
        PROVE  IF "keepalive" \in due THEN beat' <= Keepalive + ReconcileMax + spent'
               ELSE beat' + 1 <= Keepalive + spent'
    <3>1. IF "keepalive" \in due THEN beat <= Keepalive + ReconcileMax + spent
          ELSE beat + 1 <= Keepalive + spent
      BY <1>8, <2>2 DEF BeatShape
    <3>2. /\ beat \in Nat /\ spent \in Nat
          /\ Keepalive \in Nat /\ Keepalive + ReconcileMax \in Nat
      BY Periods DEF Numbers
    <3> QED BY <1>2, <1>4, <1>8, <3>1, <3>2, OneMore
  <2> QED BY <1>1, <1>5, <1>6, <1>8, <2>1, <2>2 DEF BeatShape
<1>9. CASE main \notin {"wait", "reconcile"}
  BY <1>1, <1>5, <1>6, <1>9 DEF BeatShape
<1> QED BY <1>7, <1>8, <1>9

LEMMA BeatTop ==
    ASSUME TypeOK, BeatShape, Numbers, Numbers', main = "wait", FromTop(client),
           UNCHANGED <<relayOn, toKeepalive, client, beat>>
    PROVE  BeatShape'
<1>1. CASE stop \/ IsDry
  <2>1. main' \in {"stopRelay", "stopRtsp"}
    BY <1>1 DEF FromTop, Finally, Goes
  <2> QED BY <2>1, NotInTheLoop DEF Early, Relayless
<1>2. CASE ~stop /\ ~IsDry
  <2>1. due' = DueNow
    BY <1>2 DEF FromTop
  <2>2. "keepalive" \in due' <=> toKeepalive = 0
    BY <2>1 DEF DueNow
  <2>3. CASE client = None
    <3>1. main' = "login"
      BY <1>2, <2>3 DEF FromTop, LogsIn, Goes
    <3>2. "keepalive" \notin due' => Keepalive > 0
      BY <2>2, Periods DEF Numbers
    <3> QED BY <2>3, <3>1, <3>2 DEF BeatShape, Relayless
  <2>4. CASE client # None
    <3>1. FromReconcile
      BY <1>2, <2>4 DEF FromTop
    <3>2. toKeepalive > 0 => beat + 1 <= Keepalive
      BY <2>4, Periods DEF BeatShape, Numbers
    <3>3. beat <= Keepalive + ReconcileMax
      BY <2>4, Periods DEF BeatShape, Numbers
    <3>4. "keepalive" \notin due' => toKeepalive > 0 /\ Keepalive > 0
      BY <2>2, Periods DEF Numbers
    <3>5. toKeepalive > 0 => beat + toKeepalive <= Keepalive
      BY <2>4 DEF BeatShape
    <3>6. beat' \in Nat
      BY DEF Numbers
    <3> QED BY <3>1, <3>2, <3>3, <3>4, <3>5, <3>6, RestOfRound
  <2> QED BY <2>3, <2>4
<1> QED BY <1>1, <1>2

LEMMA BeatStep ==
    ASSUME TypeOK, TypeOK', ClientShape, BeatShape, [Next]_vars PROVE BeatShape'
<1>0. Numbers /\ Numbers'
  BY BridgeAssumption DEF TypeOK, MainOK, OutsideOK, Numbers
<1>1. CASE LoggedIn
  <2>1. UNCHANGED <<relayOn, due, toKeepalive>> /\ beat' = 0
    BY <1>1 DEF LoggedIn, timers
  <2>2. CASE relayOn
    <3>1. "keepalive" \notin due => Keepalive > 0
      BY <1>1, <2>2 DEF LoggedIn, BeatShape, Early
    <3>2. FromReconcile
      BY <1>1, <2>2 DEF LoggedIn
    <3> QED BY <1>0, <2>1, <3>1, <3>2, RestOfRound, Periods DEF Numbers
  <2>3. CASE ~relayOn
    <3>1. main' = "fetch"
      BY <1>1, <2>3 DEF LoggedIn, Goes
    <3> QED BY <1>0, <2>1, <3>1, Periods DEF BeatShape, Early, Relayless, Numbers
  <2> QED BY <2>2, <2>3
<1>2. CASE LoginFailed \/ Discarded
  <2>1. /\ UNCHANGED <<relayOn, due, toKeepalive, client, beat>>
        /\ main \in Early /\ main' \in {"discard", "loginBackoff"}
    BY <1>2 DEF LoginFailed, Discarded, Goes, timers, Early
  <2> QED BY <2>1 DEF BeatShape, Relayless
<1>3. CASE BackoffOver
  <2>1. UNCHANGED <<relayOn, toKeepalive, client, beat>> /\ client = None
    BY <1>3 DEF BackoffOver, timers, ClientShape, Clientless
  <2>2. CASE stop
    <3>1. main' \in {"stopRelay", "stopRtsp"}
      BY <1>3, <2>2 DEF BackoffOver, Finally, Goes
    <3> QED BY <2>1, <3>1, NotInTheLoop DEF Early, Relayless
  <2>3. CASE ~stop
    <3>1. main' = "login" /\ UNCHANGED due
      BY <1>3, <2>3 DEF BackoffOver, LogsIn, Goes
    <3>2. main \in {"loginBackoff", "fetchBackoff"}
      BY <1>3 DEF BackoffOver
    <3> QED BY <2>1, <3>1, <3>2 DEF BeatShape, Early, Relayless
  <2> QED BY <2>2, <2>3
<1>4. CASE Fetched \/ FetchFailed \/ BindFailed \/ KeepaliveFailed \/ RelayStopped
  <2>1. UNCHANGED <<client, toKeepalive, beat>>
    BY <1>4 DEF Fetched, FetchFailed, BindFailed, KeepaliveFailed, RelayStopped, timers
  <2>2. main' \in {"stopRelay", "stopRtsp", "bind", "drop"}
    BY <1>4 DEF Fetched, FetchFailed, BindFailed, KeepaliveFailed, RelayStopped, Finally,
       Goes
  <2> QED BY <2>1, <2>2, NotInTheLoop DEF Early, Relayless
<1>5. CASE Bound
  <2>1. beat' = 0 /\ toKeepalive' = 0 /\ spent' = 0
    BY <1>5 DEF Bound, Goes
  <2>2. main' = "stopRelay" \/ (main' = "reconcile" /\ "keepalive" \in due')
    BY <1>5 DEF Bound, Goes
  <2> QED BY <1>0, <2>1, <2>2, Periods DEF BeatShape, Early, Relayless, Numbers
<1>6. CASE Reconciled
  <2>1. UNCHANGED <<client, toKeepalive, beat, due, relayOn>> /\ FromKeepalive
    BY <1>6 DEF Reconciled
  <2>2. CASE "keepalive" \in due
    <3>1. main' = "keepalive"
      BY <2>1, <2>2 DEF FromKeepalive, Goes
    <3> QED BY <2>1, <3>1, NotInTheLoop DEF Early, Relayless
  <2>3. CASE "keepalive" \notin due
    <3>1. main' = "wait" /\ spent' = 0 /\ main = "reconcile"
      BY <1>6, <2>1, <2>3 DEF Reconciled, FromKeepalive, Goes
    <3>2. client # None => beat + 1 <= Keepalive + ReconcileMax
      BY <1>0, <2>3, <3>1, Periods DEF BeatShape, Numbers
    <3> QED BY <1>0, <2>1, <3>1, <3>2, Periods DEF BeatShape, Early, Relayless, Numbers
  <2> QED BY <2>2, <2>3
<1>7. CASE KeepaliveSent
  <2>1. beat' = 0 /\ main' = "wait" /\ spent' = 0
    BY <1>7 DEF KeepaliveSent, Goes
  <2>2. toKeepalive' \in 0 .. Keepalive
    BY <1>0 DEF Numbers
  <2>3. beat' + 1 <= Keepalive + ReconcileMax + spent'
    BY <2>1, Periods, Slack
  <2>4. beat' + toKeepalive' <= Keepalive
    <3>1. 0 \in Nat /\ 0 + toKeepalive' <= Keepalive
      BY <2>2, Periods, Slack
    <3> QED BY <2>1, <3>1
  <2>5. spent' <= 1
    BY <2>1
  <2> QED BY <2>1, <2>3, <2>4, <2>5 DEF BeatShape, Early, Relayless
<1>8. CASE Dropped
  <2>1. /\ client' = None /\ spent' = 0 /\ UNCHANGED relayOn
        /\ main' = "wait" \/ (main' = "fetchBackoff" /\ ~relayOn)
    BY <1>8 DEF Dropped, Forgets, Goes
  <2> QED BY <1>0, <2>1, Periods DEF BeatShape, Early, Relayless, Numbers
<1>9. CASE WaitOver
  BY <1>0, <1>9, BeatTop DEF WaitOver, timers
<1>10. CASE RtspStopped
  <2>1. CASE client # None
    <3>1. UNCHANGED <<client, toKeepalive, beat>> /\ main' = "stopClient"
      BY <1>10, <2>1 DEF RtspStopped, timers, Goes
    <3> QED BY <3>1, NotInTheLoop DEF Early, Relayless
  <2>2. CASE client = None
    <3>1. client' = None /\ main' \in {"pause", "exited"} /\ ~relayOn'
      BY <1>10, <2>2 DEF RtspStopped, SessionOver, Reset, Goes
    <3> QED BY <3>1 DEF BeatShape, Early, Relayless
  <2> QED BY <2>1, <2>2
<1>11. CASE ClientStopped
  <2>1. client' = None /\ main' \in {"pause", "exited"} /\ ~relayOn'
    BY <1>11 DEF ClientStopped, SessionOver, Reset, Goes
  <2> QED BY <2>1 DEF BeatShape, Early, Relayless
<1>12. CASE Restarted
  <2>1. UNCHANGED <<client, toKeepalive, beat, relayOn>> /\ main = "pause"
    BY <1>12 DEF Restarted, timers
  <2>3. ~relayOn' /\ client' = None
    BY <2>1 DEF ClientShape, Clientless, BeatShape, Relayless
  <2>2. main' \in {"login", "exited"}
    BY <1>12 DEF Restarted, LogsIn, Goes
  <2> QED BY <2>2, <2>3 DEF BeatShape, Relayless
<1>13. CASE Supervisor \/ StopSignal \/ UNCHANGED vars
  <2>1. UNCHANGED <<main, spent, due, relayOn, client, toKeepalive, beat>>
    BY <1>13 DEF Supervisor, Streams, Delivers, AsksForCredentials, CredentialsFetched,
       FetchingFailed, WakesPublisher, WakeFellBack, WakeSent, RecoversCheaply,
       Refreshed, StopSignal, vars, mainVars, timers
  <2> QED BY <2>1 DEF BeatShape
<1>14. CASE Tick
  BY <1>0, <1>14, BeatTick
<1> QED
  BY <1>1, <1>2, <1>3, <1>4, <1>5, <1>6, <1>7, <1>8, <1>9, <1>10, <1>11, <1>12, <1>13,
     <1>14 DEF Next, MainStep, MainReturns

-----------------------------------------------------------------------------
(* The inductive invariant and the theorems *)

LEMMA InitInvariant == Init => IInv
<1> SUFFICES ASSUME Init PROVE IInv
  OBVIOUS
<1>1. TypeOK
  BY InitTypes
<1>2. ClientShape
  BY BridgeAssumption DEF Init, ClientShape, Making, Clientless
<1>3. CredsShape /\ PokeShape
  BY BridgeAssumption DEF Init, CredsShape, PokeShape
<1>4. BeatShape
  BY DEF Init, BeatShape, Early, Relayless
<1> QED BY <1>1, <1>2, <1>3, <1>4 DEF IInv

LEMMA NextInvariant == IInv /\ [Next]_vars => IInv'
<1> SUFFICES ASSUME IInv, [Next]_vars PROVE IInv'
  OBVIOUS
<1>1. TypeOK'
  BY TypeStep DEF IInv
<1>2. ClientShape'
  BY ClientStep DEF IInv
<1>3. CredsShape' /\ PokeShape'
  BY CredsStep, PokeStep DEF IInv
<1>4. BeatShape'
  BY <1>1, BeatStep DEF IInv
<1> QED BY <1>1, <1>2, <1>3, <1>4 DEF IInv

\* The state keeps its shape: IInv is inductive, and holds of the bridge from its
\* first login to its exit (242-718).
THEOREM Invariant == Spec => []IInv
<1> QED BY InitInvariant, NextInvariant, PTL DEF Spec

\* Every variable keeps its kind, and the relay is only started with credentials in
\* the cache (573-575, 609-618).
THEOREM TypeCorrect == Spec => []TypeOK
<1>1. IInv => TypeOK
  BY DEF IInv
<1> QED BY <1>1, Invariant, PTL

\* However logins, fetches and keepalives fail, one client at most holds a login, and
\* none does when a session is over (276-283, 310-329, 597-604, 688-718).
THEOREM ClientsReleased == Spec => []ClientsAreReleased
<1>1. IInv => ClientsAreReleased
  <2> SUFFICES ASSUME IInv PROVE ClientsAreReleased
    OBVIOUS
  <2>1. ClientShape
    BY DEF IInv
  <2>2. CASE main \in Making
    BY <2>1, <2>2 DEF ClientShape, ClientsAreReleased, Making
  <2>3. CASE main \notin Making
    <3>1. live = {client} \ {None}
      BY <2>1, <2>3 DEF ClientShape
    <3>2. main \in {"pause", "exited"} => live = {}
      BY <2>1, <3>1 DEF ClientShape, Clientless
    <3> QED BY <3>1, <3>2 DEF ClientsAreReleased
  <2> QED BY <2>2, <2>3
<1> QED BY <1>1, Invariant, PTL

\* The supervisor's callbacks never start on a client whose stop() has returned,
\* although the main task drops clients at any of its awaits; the only call that may
\* fall on such a client is the command that replaces a heartbeat under way (340-513,
\* 677-697).
THEOREM CallsAreOnLiveClients == Spec => NoCallOnStoppedClient
<1>1. IInv /\ [Next]_vars =>
          [sup' # sup /\ sup' # "idle"
              => caller' \in live \/ (sup = "wake" /\ sup' = "fallback")]_vars
  <2> SUFFICES ASSUME IInv, Next, sup' # sup, sup' # "idle",
                      ~(sup = "wake" /\ sup' = "fallback")
               PROVE  caller' \in live
    OBVIOUS
  <2>1. AsksForCredentials \/ WakesPublisher \/ WakeSent \/ RecoversCheaply
    BY DEF Next, MainStep, MainReturns, LoggedIn, LoginFailed, Discarded, BackoffOver,
       Fetched, FetchFailed, Bound, BindFailed, Reconciled, KeepaliveSent, KeepaliveFailed,
       Dropped, WaitOver, FromTop, RelayStopped, RtspStopped, ClientStopped, Restarted,
       Finally, Reset, Supervisor, Streams, Delivers, CredentialsFetched, FetchingFailed,
       Refreshed, WakeFellBack, StopSignal, Tick, calls
  <2>2. client # None /\ caller' = client
    BY <2>1 DEF AsksForCredentials, WakesPublisher, WakeSent, RecoversCheaply, Refreshes
  <2>3. main \notin Making
    BY <2>2 DEF IInv, ClientShape
  <2> QED BY <2>2, <2>3 DEF IInv, ClientShape
<1> QED BY <1>1, Invariant, PTL DEF Spec, NoCallOnStoppedClient

\* The debounce of refresh_stream_subscription holds between any two calls of a
\* session, whoever makes them and however they end (97-102, 383-438).
THEOREM RefreshesSpaced == Spec => RefreshesAreSpaced
<1>1. IInv /\ [Next]_vars =>
          [sup' = "refresh" /\ sup # "refresh" => pokeAge >= RefreshDebounce]_vars
  <2> SUFFICES ASSUME IInv, Next, sup' = "refresh", sup # "refresh"
               PROVE  pokeAge >= RefreshDebounce
    OBVIOUS
  <2>1. WakesPublisher \/ WakeSent \/ RecoversCheaply
    BY DEF Next, MainStep, MainReturns, LoggedIn, LoginFailed, Discarded, BackoffOver,
       Fetched, FetchFailed, Bound, BindFailed, Reconciled, KeepaliveSent, KeepaliveFailed,
       Dropped, WaitOver, FromTop, RelayStopped, RtspStopped, ClientStopped, Restarted,
       Finally, Reset, Supervisor, Streams, Delivers, AsksForCredentials,
       CredentialsFetched, FetchingFailed, WakeFellBack, Refreshed, StopSignal, Tick,
       calls
  <2>2. ~(refreshAge < RefreshDebounce)
    BY <2>1 DEF WakesPublisher, WakeSent, RecoversCheaply, Refreshes
  <2>3. refreshAge \in Nat /\ RefreshDebounce \in Nat /\ pokeAge = refreshAge
    BY BridgeAssumption DEF IInv, TypeOK, StateOK, PokeShape
  <2> QED BY <2>2, <2>3
<1> QED BY <1>1, Invariant, PTL DEF Spec, RefreshesAreSpaced

\* On one client two keepalives are at most the interval and two reconciliations
\* apart, wherever in the round the loop has found the next one due (643-697).
THEOREM KeepalivesAreRegular == Spec => []KeepaliveBounded
<1>1. IInv => KeepaliveBounded
  <2> SUFFICES ASSUME IInv, main \in {"reconcile", "wait"}, client # None
               PROVE  beat <= Keepalive + 2 * ReconcileMax
    BY DEF KeepaliveBounded
  <2>1. beat \in Nat /\ spent \in Nat
    BY BridgeAssumption DEF IInv, TypeOK, MainOK, OutsideOK
  <2>2. CASE main = "wait"
    <3>1. spent <= 1 /\ beat + 1 <= Keepalive + ReconcileMax + spent
      BY <2>2 DEF IInv, BeatShape
    <3> QED BY <2>1, <3>1, Periods
  <2>3. CASE main = "reconcile"
    <3>1. /\ spent <= ReconcileMax
          /\ beat <= Keepalive + ReconcileMax + spent \/ beat + 1 <= Keepalive + spent
      BY <2>3 DEF IInv, BeatShape
    <3> QED BY <2>1, <3>1, Periods
  <2> QED BY <2>2, <2>3
<1> QED BY <1>1, Invariant, PTL
=============================================================================
