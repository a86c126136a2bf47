--------------------------- MODULE BridgeSession ---------------------------
(***************************************************************************)
(* The bridge process: main and _run_bridge_session                        *)
(* (src/mammotion_webrtc_bridge.py).                                       *)
(*                                                                         *)
(* The main task logs in to the cloud, fetches the first credentials,      *)
(* starts RTSP server and relay, and then runs a loop: dryness check, a    *)
(* new login if the client was dropped, go2rtc registration, keepalive, a  *)
(* second of waiting.  It ends by a signal, or by the dryness check, after *)
(* which main starts over.  Meanwhile the relay's supervisor calls back:   *)
(* it wakes the publisher, renews the subscription and asks for            *)
(* credentials on whatever client the state holds.                         *)
(*                                                                         *)
(* Of the relay only its contract is used (RelayContract); the RTSP        *)
(* server's stop() may return or not (RtspServer, StopCompletes).  Line    *)
(* numbers in the comments are those of mammotion_webrtc_bridge.py.  An    *)
(* action is the code between two awaits; time passes in the awaits.  A    *)
(* definition whose name starts with Bad is a faulty form of the one that  *)
(* follows it and is used by no other.                                     *)
(***************************************************************************)
EXTENDS Integers

CONSTANTS
    Cloud,            \* slots for MammotionClient objects
    None,             \* Python's None
    PCs, Threshold, AgeCap,   \* of the relay: see RelayContract
    Dry,              \* dry_restart_seconds
    Keepalive,        \* keepalive_interval
    Reconcile,        \* go2rtc_reconcile_interval
    ReconcileMax,     \* how long one reconciliation may take
    Backoff,          \* reconnect_backoff
    Pause,            \* the pause before a restart
    CredsDebounce,    \* CREDS_DEBOUNCE_S
    RefreshDebounce,  \* REFRESH_SUB_DEBOUNCE_S
    BeatCap           \* bound: where the history of heartbeats saturates

ASSUME BridgeAssumption ==
    /\ None \notin Cloud /\ Dry \in Nat /\ Dry < AgeCap /\ AgeCap \in Nat
    /\ Threshold \in Nat /\ Keepalive \in Nat /\ Reconcile \in Nat
    /\ ReconcileMax \in Nat \ {0} /\ Backoff \in Nat /\ Pause \in Nat
    /\ BeatCap \in Nat
    /\ CredsDebounce \in Nat /\ RefreshDebounce \in Nat

VARIABLES
    stop,         \* stop_async
    \* the main task
    main,         \* its await, or "exited"
    spent,        \* time it has spent there, if that has a limit
    sinceNow,     \* time since it last read the clock
    due,          \* what that reading makes due in this round of the loop
    fresh,        \* the client _fresh_client is making
    relayOn,      \* relay_started
    why,          \* what ends the session: "stop", "dry" or "error"
    toReconcile,  \* time until next_go2rtc_reconcile
    toKeepalive,  \* time until next_keepalive
    \* the state dictionary
    client,       \* mammotion
    creds,        \* credentials are cached
    credsAge,     \* time since creds_fetched_at
    refreshAge,   \* time since refresh_sub_at
    \* the relay's supervisor, as far as it calls back
    sup,          \* the call it awaits
    caller,       \* the client that call was made on
    callAge,      \* time since it last called get_stream_subscription
    pokeAge,      \* history: time since it last called refresh_stream_subscription
    \* outside
    live,         \* clients that hold a login, or are about to
    beat,         \* history: time since the last keepalive on this client
    feeding, burst, healthyAge, gone   \* the relay: see RelayContract

mainVars == <<main, spent, sinceNow, due, fresh, relayOn, why>>
timers   == <<toReconcile, toKeepalive>>
cache    == <<creds, credsAge, refreshAge>>
call     == <<sup, caller>>
calls    == <<call, callAge, pokeAge>>
relay    == <<feeding, burst, healthyAge, gone>>
vars     == <<stop, mainVars, timers, client, cache, calls, live, beat, relay>>

Relay == INSTANCE RelayContract

AtMost(a, cap) == IF a <= cap THEN a ELSE cap
AtLeast0(a) == IF a >= 0 THEN a ELSE 0

SinceCap == IF Keepalive >= Reconcile THEN Keepalive ELSE Reconcile

-----------------------------------------------------------------------------
(* Where the main task goes next.  Each of these is the code from there to *)
(* the next await; "goes" means main', spent', fresh', live' and due'.     *)

Goes(place) == main' = place /\ spent' = 0

\* The supervisor awaits no call, or one on the client the state holds.
Idles == sup' = "idle" /\ caller' = None
CallsOn(what) == sup' = what /\ caller' = client

\* Nothing of a session that has not begun: also what a restart begins with.
Reset ==
    /\ sinceNow' = 0 /\ due' = {} /\ relayOn' = FALSE /\ why' = "stop"
    /\ toReconcile' = 0 /\ toKeepalive' = 0
    /\ client' = None /\ creds' = FALSE /\ credsAge' = CredsDebounce
    /\ refreshAge' = RefreshDebounce
    /\ Idles /\ callAge' = CredsDebounce /\ pokeAge' = RefreshDebounce
    /\ beat' = 0
    /\ feeding' = {} /\ burst' = 0 /\ healthyAge' = 0 /\ gone' = FALSE

Init ==
    /\ stop = FALSE /\ main = "login" /\ spent = 0 /\ sinceNow = 0 /\ due = {}
    /\ relayOn = FALSE /\ why = "stop" /\ toReconcile = 0 /\ toKeepalive = 0
    /\ fresh \in Cloud /\ live = {fresh}
    /\ client = None /\ creds = FALSE /\ credsAge = CredsDebounce
    /\ refreshAge = RefreshDebounce
    /\ sup = "idle" /\ caller = None
    /\ callAge = CredsDebounce /\ pokeAge = RefreshDebounce
    /\ beat = 0 /\ Relay!Init

\* The finally block: relay.stop() cancels the supervisor at once.
Finally(reason) ==
    /\ why' = reason /\ Idles /\ due' = {}
    /\ Goes(IF relayOn THEN "stopRelay" ELSE "stopRtsp")
    /\ IF relayOn THEN Relay!Leave ELSE UNCHANGED relay

\* A pass of _fresh_client's loop.
LogsIn == \E k \in Cloud \ live : fresh' = k /\ live' = live \cup {k} /\ Goes("login")

\* The loop from the keepalive on, from the reconciliation on, and from its top,
\* where mammotion is the client the state holds then.
FromKeepalive == Goes(IF "keepalive" \in due' THEN "keepalive" ELSE "wait")
FromReconcile == IF "reconcile" \in due' THEN Goes("reconcile") ELSE FromKeepalive

BadIsDry == FALSE
IsDry == healthyAge > Dry

BadDueNow ==
    IF toReconcile = 0 THEN {"reconcile"}
    ELSE IF toKeepalive = 0 THEN {"keepalive"} ELSE {}
DueNow ==
    {x \in {"reconcile", "keepalive"} :
        IF x = "reconcile" THEN toReconcile = 0 ELSE toKeepalive = 0}

BadFromTop(mammotion) ==
    IF IsDry THEN Finally("dry") /\ UNCHANGED <<sinceNow, fresh, live>>
    ELSE /\ sinceNow' = 0 /\ due' = DueNow /\ UNCHANGED <<why, call, relay>>
         /\ IF mammotion = None THEN LogsIn
            ELSE FromReconcile /\ UNCHANGED <<fresh, live>>
FromTop(mammotion) ==
    IF stop THEN Finally("stop") /\ UNCHANGED <<sinceNow, fresh, live>>
    ELSE IF IsDry THEN Finally("dry") /\ UNCHANGED <<sinceNow, fresh, live>>
    ELSE /\ sinceNow' = 0 /\ due' = DueNow /\ UNCHANGED <<why, call, relay>>
         /\ IF mammotion = None THEN LogsIn
            ELSE FromReconcile /\ UNCHANGED <<fresh, live>>

-----------------------------------------------------------------------------
(* Login and the first fetch *)

\* Within the loop a login goes on with the rest of the round.
LoggedIn ==
    /\ main = "login" /\ client' = fresh /\ fresh' = None /\ beat' = 0
    /\ UNCHANGED due /\ IF relayOn THEN FromReconcile ELSE Goes("fetch")
    /\ UNCHANGED <<stop, sinceNow, relayOn, why, timers, cache, calls, live, relay>>

LoginFailed ==
    /\ main = "login" /\ Goes("discard")
    /\ UNCHANGED <<stop, sinceNow, due, fresh, relayOn, why, timers, client, cache,
                   calls, live, beat, relay>>

\* client.stop() returned, or raised.
Discarded ==
    /\ main = "discard" /\ Goes("loginBackoff") /\ live' = live \ {fresh} /\ fresh' = None
    /\ UNCHANGED <<stop, sinceNow, due, relayOn, why, timers, client, cache, calls,
                   beat, relay>>

\* Both sleeps end in the loop of _fresh_client, or leave the session.
BackoffOver ==
    /\ main \in {"loginBackoff", "fetchBackoff"} /\ spent = Backoff
    /\ IF stop THEN Finally("stop") /\ UNCHANGED <<fresh, live>>
       ELSE LogsIn /\ UNCHANGED <<due, why, call, relay>>
    /\ UNCHANGED <<stop, sinceNow, relayOn, timers, client, cache, callAge, pokeAge, beat>>

BadFirstCredentials == creds
FirstCredentials == TRUE

Fetched ==
    /\ main = "fetch" /\ creds' = FirstCredentials /\ credsAge' = 0
    /\ IF stop THEN Finally("stop") ELSE Goes("bind") /\ UNCHANGED <<due, why, call, relay>>
    /\ UNCHANGED <<stop, sinceNow, fresh, relayOn, timers, client, refreshAge, callAge,
                   pokeAge, live, beat>>

FetchFailed ==
    /\ main = "fetch" /\ Goes("drop")
    /\ UNCHANGED <<stop, sinceNow, due, fresh, relayOn, why, timers, client, cache,
                   calls, live, beat, relay>>

\* rtsp_server.start(), and relay.start(), which does not await; then the loop.
Bound ==
    /\ main = "bind" /\ relayOn' = TRUE /\ toReconcile' = 0 /\ toKeepalive' = 0
    /\ beat' = 0 /\ sinceNow' = 0 /\ UNCHANGED <<fresh, live>>
    /\ IF stop
       THEN /\ why' = "stop" /\ due' = {} /\ Goes("stopRelay") /\ Relay!Leave
       ELSE IF IsDry
       THEN /\ why' = "dry" /\ due' = {} /\ Goes("stopRelay") /\ Relay!Leave
       ELSE /\ due' = {"reconcile", "keepalive"} /\ Goes("reconcile")
            /\ UNCHANGED <<why, relay>>
    /\ UNCHANGED <<stop, client, cache, calls, live>>

\* The port is taken: the exception leaves main, after the finally block.
BindFailed ==
    /\ main = "bind" /\ Finally("error")
    /\ UNCHANGED <<stop, sinceNow, fresh, relayOn, timers, client, cache, callAge,
                   pokeAge, live, beat>>

-----------------------------------------------------------------------------
(* The loop *)

\* ensure_stream returned, with whatever result, or raised.
Reconciled ==
    /\ main = "reconcile" /\ UNCHANGED due /\ FromKeepalive
    /\ toReconcile' = AtLeast0(Reconcile - sinceNow)
    /\ UNCHANGED <<stop, sinceNow, fresh, relayOn, why, toKeepalive, client, cache,
                   calls, live, beat, relay>>

NextKeepalive == AtLeast0(Keepalive - sinceNow)

\* The await "keepalive" is the heartbeat and, where pymammotion has none, the command
\* sent in its place: between the two nobody but this task changes the client.

KeepaliveSent ==
    /\ main = "keepalive" /\ Goes("wait") /\ toKeepalive' = NextKeepalive /\ beat' = 0
    /\ UNCHANGED <<stop, sinceNow, due, fresh, relayOn, why, toReconcile, client, cache,
                   calls, live, relay>>

\* The client is dropped, to be replaced in the next round.
KeepaliveFailed ==
    /\ main = "keepalive" /\ Goes("drop")
    /\ UNCHANGED <<stop, sinceNow, due, fresh, relayOn, why, timers, client, cache,
                   calls, live, beat, relay>>

\* mammotion.stop() returned or raised, in the loop or after the first fetch.
BadForgets == client
Forgets == None

Dropped ==
    /\ main = "drop" /\ live' = live \ {client} /\ client' = Forgets
    /\ IF relayOn THEN Goes("wait") /\ toKeepalive' = NextKeepalive
       ELSE Goes("fetchBackoff") /\ UNCHANGED toKeepalive
    /\ UNCHANGED <<stop, sinceNow, due, fresh, relayOn, why, toReconcile, cache, calls,
                   beat, relay>>

WaitOver ==
    /\ main = "wait" /\ (stop \/ spent = 1) /\ FromTop(client)
    /\ UNCHANGED <<stop, relayOn, timers, client, cache, callAge, pokeAge, beat>>

-----------------------------------------------------------------------------
(* The finally block, and main *)

RelayStopped ==
    /\ main = "stopRelay" /\ Goes("stopRtsp")
    /\ UNCHANGED <<stop, sinceNow, due, fresh, relayOn, why, timers, client, cache,
                   calls, live, beat, relay>>

\* The session is over: its state is dropped, and main goes on.
BadSessionOver == live' = live /\ Goes(IF why = "dry" THEN "pause" ELSE "exited")
SessionOver ==
    /\ live' = live \ {client}
    /\ Goes(IF why = "dry" THEN "pause" ELSE "exited")

RtspStopped ==
    /\ main = "stopRtsp"
    /\ IF client # None
       THEN Goes("stopClient") /\ UNCHANGED <<sinceNow, due, relayOn, why, timers, client,
                                              cache, calls, live, beat, relay>>
       ELSE SessionOver /\ Reset
    /\ UNCHANGED <<stop, fresh>>

ClientStopped ==
    /\ main = "stopClient" /\ SessionOver /\ Reset /\ UNCHANGED <<stop, fresh>>

Restarted ==
    /\ main = "pause" /\ (stop \/ spent = Pause)
    /\ IF stop THEN Goes("exited") /\ UNCHANGED <<fresh, live>> ELSE LogsIn
    /\ healthyAge' = 0
    /\ UNCHANGED <<stop, sinceNow, due, relayOn, why, timers, client, cache, calls, beat,
                   feeding, burst, gone>>

-----------------------------------------------------------------------------
(* What the relay's supervisor does: stream, and call the bridge *)

Streams ==
    /\ relayOn /\ sup = "idle"
    /\ \/ Relay!Rearm \/ Relay!Detach \/ \E p \in PCs : Relay!Attach(p)
    /\ UNCHANGED <<stop, mainVars, timers, client, cache, calls, live, beat>>

\* Packets arrive in any await.
Delivers ==
    /\ Relay!Deliver
    /\ UNCHANGED <<stop, mainVars, timers, client, cache, calls, live, beat>>

Calls == relayOn /\ ~gone /\ sup = "idle"

\* credentials_provider on a new cycle.  With no client, or with credentials that
\* are young enough, it returns what is cached.
AsksForCredentials ==
    /\ Calls /\ feeding = {} /\ client # None /\ credsAge >= CredsDebounce
    /\ CallsOn("fetch") /\ callAge' = 0
    /\ UNCHANGED <<stop, mainVars, timers, client, cache, pokeAge, live, beat, relay>>

\* creds_fetched_at is when the call began.
CredentialsFetched ==
    /\ sup = "fetch" /\ Idles /\ creds' = TRUE /\ credsAge' = callAge
    /\ UNCHANGED <<stop, mainVars, timers, client, refreshAge, callAge, pokeAge, live,
                   beat, relay>>

FetchingFailed ==
    /\ sup = "fetch" /\ Idles
    /\ UNCHANGED <<stop, mainVars, timers, client, cache, callAge, pokeAge, live, beat,
                   relay>>

BadRefreshStarts == UNCHANGED refreshAge
RefreshStarts == refreshAge' = 0

\* _refresh_stream_subscription, up to its await.
Refreshes ==
    IF client = None \/ refreshAge < RefreshDebounce
    THEN Idles /\ UNCHANGED <<refreshAge, pokeAge>>
    ELSE CallsOn("refresh") /\ RefreshStarts /\ pokeAge' = 0

\* wake_publisher sends a ble_sync before it renews the subscription: a heartbeat on
\* a connected transport; a command where pymammotion has no heartbeat; nothing where
\* the device or a transport is missing.
WakesPublisher ==
    /\ Calls /\ feeding = {} /\ client # None
    /\ \/ CallsOn("wake") /\ UNCHANGED <<refreshAge, pokeAge>>
       \/ CallsOn("fallback") /\ UNCHANGED <<refreshAge, pokeAge>>
       \/ Refreshes
    /\ UNCHANGED <<stop, mainVars, timers, client, creds, credsAge, callAge, live, beat,
                   relay>>

\* The heartbeat ended in an AttributeError: the command is sent instead, on the client
\* the heartbeat was sent on, whatever has become of it.
WakeFellBack ==
    /\ sup = "wake" /\ sup' = "fallback"
    /\ UNCHANGED <<stop, mainVars, timers, client, cache, caller, callAge, pokeAge, live,
                   beat, relay>>

\* The heartbeat, or the command, returned or failed otherwise.
WakeSent ==
    /\ sup \in {"wake", "fallback"} /\ Refreshes
    /\ UNCHANGED <<stop, mainVars, timers, client, creds, credsAge, callAge, live, beat,
                   relay>>

\* cheap_recovery: the relay's watchdog renews the subscription of a silent session.
RecoversCheaply ==
    /\ Calls /\ feeding # {} /\ Refreshes
    /\ UNCHANGED <<stop, mainVars, timers, client, creds, credsAge, callAge, live, beat,
                   relay>>

\* The response brings credentials, or it does not, or the call failed.
Refreshed ==
    /\ sup = "refresh" /\ Idles
    /\ \/ creds' = TRUE /\ credsAge' = 0
       \/ UNCHANGED <<creds, credsAge>>
    /\ UNCHANGED <<stop, mainVars, timers, client, refreshAge, callAge, pokeAge, live,
                   beat, relay>>

-----------------------------------------------------------------------------
StopSignal ==
    /\ ~stop /\ stop' = TRUE
    /\ UNCHANGED <<mainVars, timers, client, cache, calls, live, beat, relay>>

\* How long the main task may be in an await that times out.
Limits ==
    [wait |-> 1, reconcile |-> ReconcileMax, loginBackoff |-> Backoff,
     fetchBackoff |-> Backoff, pause |-> Pause]

Tick ==
    /\ main # "exited" /\ main \in DOMAIN Limits => spent < Limits[main]
    /\ spent' = IF main \in DOMAIN Limits THEN spent + 1 ELSE 0
    /\ sinceNow' = AtMost(sinceNow + 1, SinceCap)
    /\ toReconcile' = AtLeast0(toReconcile - 1) /\ toKeepalive' = AtLeast0(toKeepalive - 1)
    /\ credsAge' = AtMost(credsAge + 1, CredsDebounce)
    /\ refreshAge' = AtMost(refreshAge + 1, RefreshDebounce)
    /\ callAge' = AtMost(callAge + 1, CredsDebounce)
    /\ pokeAge' = AtMost(pokeAge + 1, RefreshDebounce)
    /\ beat' = AtMost(beat + 1, BeatCap)
    /\ IF healthyAge < AgeCap THEN Relay!Age ELSE UNCHANGED relay
    /\ UNCHANGED <<stop, main, due, fresh, relayOn, why, client, creds, call, live>>

MainReturns ==
    \/ LoggedIn \/ LoginFailed \/ Discarded \/ BackoffOver \/ Fetched \/ FetchFailed
    \/ Bound \/ BindFailed \/ Reconciled \/ KeepaliveSent \/ KeepaliveFailed \/ Dropped
    \/ WaitOver \/ RelayStopped \/ ClientStopped \/ Restarted
MainStep == MainReturns \/ RtspStopped
Supervisor ==
    \/ Streams \/ Delivers \/ AsksForCredentials \/ CredentialsFetched \/ FetchingFailed
    \/ WakesPublisher \/ WakeFellBack \/ WakeSent \/ RecoversCheaply \/ Refreshed

Next == MainStep \/ Supervisor \/ StopSignal \/ Tick

Spec == Init /\ [][Next]_vars

\* Every await of the main task returns in the end, rtsp_server.stop() excepted, time
\* goes on, and the cloud does not refuse logins for ever.
FairSpec ==
    Spec /\ WF_vars(MainReturns) /\ WF_vars(Tick) /\ SF_vars(LoggedIn)

-----------------------------------------------------------------------------
(* Properties *)

Places ==
    {"login", "discard", "loginBackoff", "fetch", "drop", "fetchBackoff", "bind",
     "reconcile", "keepalive", "wait", "stopRelay", "stopRtsp", "stopClient", "pause",
     "exited"}

MainOK ==
    /\ stop \in BOOLEAN /\ main \in Places /\ spent \in Nat /\ sinceNow \in 0 .. SinceCap
    /\ due \subseteq {"reconcile", "keepalive"} /\ fresh \in Cloud \cup {None}
    /\ relayOn \in BOOLEAN /\ why \in {"stop", "dry", "error"}
    /\ toReconcile \in 0 .. Reconcile /\ toKeepalive \in 0 .. Keepalive
StateOK ==
    /\ client \in Cloud \cup {None} /\ creds \in BOOLEAN /\ (relayOn => creds)
    /\ credsAge \in 0 .. CredsDebounce /\ callAge \in 0 .. CredsDebounce
    /\ refreshAge \in 0 .. RefreshDebounce /\ pokeAge \in 0 .. RefreshDebounce
    /\ sup \in {"idle", "fetch", "wake", "fallback", "refresh"}
    /\ caller \in Cloud \cup {None}
OutsideOK ==
    /\ live \subseteq Cloud /\ beat \in 0 .. BeatCap /\ feeding \subseteq PCs
    /\ burst \in 0 .. Threshold /\ healthyAge \in 0 .. AgeCap /\ gone \in BOOLEAN

\* Every variable keeps its kind, and the relay's supervisor only runs with
\* credentials in the cache: its first cycle would fail without them (573-575, 609-618).
TypeOK == MainOK /\ StateOK /\ OutsideOK

\* Whatever fails, a client that holds a login is the one the state holds or the one
\* being logged in, there is one at most, and none when a session is over:
\* "All resources allocated here (relay, RTSP server, pymammotion client) are
\* released in the finally block" (276-283, 310-329, 597-604, 688-696,
\* 703-718).
ClientsAreReleased ==
    /\ live \subseteq {client, fresh} /\ \A j, k \in live : j = k
    /\ main \in {"pause", "exited"} => live = {}

\* The supervisor begins no call on a client whose stop() has returned, although the
\* main task drops clients while the supervisor runs (677-697), with the one exception
\* the code has: the command that replaces a failed heartbeat goes to the client that
\* heartbeat went to, which may have been stopped meanwhile (463, 484-493).  The
\* renewal that follows it is on the client the state holds by then (396).
NoCallOnStoppedClient ==
    [][sup' # sup /\ sup' # "idle"
          => caller' \in live \/ (sup = "wake" /\ sup' = "fallback")]_vars

\* Two refresh_stream_subscription calls of a session are at least the debounce
\* apart, also when they fail or when wake and recovery alternate: each costs a send
\* of the 300 allowed in a day (97-102, 383-438).
RefreshesAreSpaced ==
    [][sup' = "refresh" /\ sup # "refresh" => pokeAge >= RefreshDebounce]_vars

\* credentials_provider's get_stream_subscription calls are at least the debounce
\* apart: "Minimum seconds between get_stream_subscription calls" (92-95, 340-370).
FetchesAreSpaced ==
    [][sup' = "fetch" /\ sup # "fetch" => callAge >= CredsDebounce]_vars

\* A keepalive is due Keepalive after the clock reading of the round that sent the
\* last one, but go2rtc is asked first and the round's reading is old by then: on one
\* client two keepalives are up to two reconciliations further apart (643-697).
KeepaliveBounded ==
    main \in {"reconcile", "wait"} /\ client # None
        => beat <= Keepalive + 2 * ReconcileMax

FinallyBlock == {"stopRelay", "stopRtsp", "stopClient"}

\* A session that stays without a sustained stream is left for the finally block: the
\* dryness check is reached again and again, also while clients are dropped (623-656).
StuckSessionIsLeft ==
    relayOn /\ healthyAge > 0 ~> healthyAge = 0 \/ main \in FinallyBlock

\* A signal ends the process from wherever it is (242-268, 314, 576, 606, 623), unless
\* rtsp_server.stop() never returns, which it need not (710-711; RtspServer's
\* StopCompletes): then the process hangs there, in the finally block.
StopExits == <>[](main = "stopRtsp") \/ (stop ~> main = "exited")
=============================================================================
