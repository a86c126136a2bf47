--------------------------- MODULE Go2RtcRegistrar ---------------------------
(***************************************************************************)
(* The registration of the stream with go2rtc: Go2RTCStreamRegistrar       *)
(* (src/mammotion_webrtc/go2rtc_register.py) against a go2rtc that may      *)
(* refuse a method, answer late or not at all, restart and forget, or have *)
(* its streams changed by somebody else.                                   *)
(*                                                                         *)
(* The bridge's main loop calls ensure_stream again and again; one call    *)
(* lists the streams and climbs a ladder of writing requests.  A call      *)
(* awaits one request at a time, so its place is the request it awaits.    *)
(* go2rtc is known only from this use of it.  A definition whose name      *)
(* starts with Bad is a faulty form of the next and is used by no other.   *)
(***************************************************************************)
EXTENDS Integers, Sequences

CONSTANTS
    Sources,     \* the source URLs the bridge may be configured with
    Foreign,     \* a producer somebody else may wire under the same name
    Versions,    \* the sets of writing requests a version of go2rtc may understand
    MaxFaults,   \* bound: requests that fail while go2rtc is up
    MaxUpsets    \* bound: restarts of go2rtc and changes by somebody else

Writes == {"post", "put", "patchName", "patchDst"}
Deletes == {"deleteDst", "deleteName"}
Requests == Writes \cup Deletes

\* What _normalize_source_url looks at in a URL.
Url == [wrapper : {"none", "webrtc", "ffmpeg"}, http : BOOLEAN, path : {"ours", "other"},
        authSig : BOOLEAN, slash : BOOLEAN]

ASSUME RegistrarAssumption ==
    /\ Sources \subseteq Url /\ Foreign \in Url /\ \A u \in Sources : u.path # Foreign.path
    /\ \A v \in Versions : v \subseteq Requests /\ v \cap Writes # {}
    /\ MaxFaults \in Nat /\ MaxUpsets \in Nat

VARIABLES
    \* go2rtc
    up,          \* it answers
    supports,    \* the writing requests it understands
    producers,   \* the stream's producers, as it lists them
    late,        \* requests the registrar gave up that may still be carried out
    \* the registrar
    source,      \* the bridge's own RTSP URL
    op,          \* the call in progress: idle, ensure, remove
    rung,        \* writing requests made so far
    awaits,      \* list, write, or nothing
    reply,       \* go2rtc's answer, once it is there
    result,      \* what the last call returned
    \* history
    saw,         \* what was so of the stream at some moment of this call, and whether
                 \* one of its requests failed
    faults, upsets

go2rtc == <<up, supports, producers, late>>
call   == <<op, rung, awaits, reply, result>>
vars == <<go2rtc, source, call, saw, faults, upsets>>

-----------------------------------------------------------------------------
(* URLs *)

Unwrapped(u) == IF u.wrapper = "webrtc" /\ u.http THEN "none" ELSE u.wrapper

\* _normalize_source_url: signatures, trailing slashes and the wrapper go2rtc takes
\* off do not count.
BadNormalized(u) == [wrapper |-> u.wrapper, http |-> u.http, path |-> u.path]
Normalized(u) == [wrapper |-> Unwrapped(u), http |-> u.http, path |-> u.path]

\* go2rtc stores HTTP-backed WebRTC producers as plain HTTP URLs.
Stored(u) ==
    [wrapper |-> Unwrapped(u), http |-> u.http, path |-> u.path,
     authSig |-> u.authSig, slash |-> u.slash]

\* _stream_matches, on the producers a listing shows.
Matches(listed) == \E u \in listed : Normalized(u) = Normalized(source)

Wired(ps) == Stored(source) \in ps

\* What the history keeps of the stream's state.
Shows(ps) ==
    {IF Wired(ps) THEN "wired" ELSE "unwired"} \cup (IF ps = {} THEN {"absent"} ELSE {})

-----------------------------------------------------------------------------
(* The ladders *)

BadLadder(o) == IF o = "remove" THEN <<"deleteDst", "deleteName">> ELSE <<"post", "put">>
Ladder(o) ==
    IF o = "remove" THEN <<"deleteDst", "deleteName">>
    ELSE <<"post", "put", "patchName", "patchDst">>

Pending == Ladder(op)[rung]

\* What a request does to the stream: a new producer may replace the others.
Effects(r) ==
    IF r \in Deletes THEN {{}} ELSE {{Stored(source)}, producers \cup {Stored(source)}}

Replies == [kind : {"none", "failed", "refused", "ok"}, listed : SUBSET Url]
Reply(kind, listed) == [kind |-> kind, listed |-> listed]
NoReply == Reply("none", {})
Failed  == Reply("failed", {})

\* 200, 201 and 204 are success; anything else is not, a request without a status too.
BadSucceeded(r) == r.kind # "failed"
Succeeded(r) == r.kind = "ok"

-----------------------------------------------------------------------------
Init ==
    /\ up \in BOOLEAN /\ supports \in Versions
    /\ source \in Sources /\ late = {} /\ producers \in {{}, {Foreign}, {Stored(source)}}
    /\ op = "idle" /\ rung = 0 /\ awaits = "nothing" /\ reply = NoReply
    /\ result = "none" /\ saw = {} /\ faults = 0 /\ upsets = 0

Observed == saw' = saw \cup Shows(producers')

Asks(what) == awaits' = what /\ reply' = NoReply

\* ensure_stream is called, or remove_stream.
Begin(o) ==
    /\ op = "idle" /\ op' = o
    /\ IF o = "ensure" THEN rung' = 0 /\ Asks("list") ELSE rung' = 1 /\ Asks("write")
    /\ saw' = Shows(producers)
    /\ UNCHANGED <<go2rtc, source, result, faults>>

BeginEnsure == Begin("ensure") /\ UNCHANGED upsets
\* Nothing in the bridge calls it.
BeginRemove == upsets < MaxUpsets /\ upsets' = upsets + 1 /\ Begin("remove")

Returns(value) ==
    /\ op' = "idle" /\ result' = value /\ Asks("nothing") /\ UNCHANGED rung

BadExhausted == rung > Len(Ladder(op))
Exhausted == rung = Len(Ladder(op))

\* The next writing request, if the ladder has one.
Climbs ==
    IF Exhausted THEN Returns("false")
    ELSE rung' = rung + 1 /\ Asks("write") /\ UNCHANGED <<op, result>>

Resumes == reply # NoReply /\ UNCHANGED <<go2rtc, source, faults, upsets>>

\* The listing is there, or failed.
Listed ==
    /\ awaits = "list" /\ Resumes /\ UNCHANGED saw
    /\ IF Matches(reply.listed) THEN Returns("true") ELSE Climbs

\* The answer to a writing request is there, or there is none.
Written ==
    /\ awaits = "write" /\ Resumes /\ UNCHANGED saw
    /\ IF Succeeded(reply) THEN Returns("true")
       ELSE IF op = "remove" THEN Climbs
       ELSE Asks("list") /\ UNCHANGED <<op, rung, result>>

-----------------------------------------------------------------------------
(* go2rtc and the network *)

\* go2rtc carries a request out.
Serve ==
    /\ up /\ awaits # "nothing" /\ reply = NoReply
    /\ \/ /\ awaits = "list" /\ reply' = Reply("ok", producers)
          /\ UNCHANGED producers
       \/ /\ awaits = "write" /\ Pending \in supports
          /\ producers' \in Effects(Pending) /\ reply' = Reply("ok", {})
       \/ /\ awaits = "write" /\ Pending \notin supports
          /\ reply' = Reply("refused", {}) /\ UNCHANGED producers
    /\ Observed
    /\ UNCHANGED <<up, supports, late, source, op, rung, awaits, result, faults, upsets>>

\* Nobody is there to connect to.
Unreachable ==
    /\ ~up /\ awaits # "nothing" /\ reply = NoReply /\ reply' = Failed
    /\ saw' = saw \cup {"failure"}
    /\ UNCHANGED <<go2rtc, source, op, rung, awaits, result, faults, upsets>>

\* Ten seconds pass, the connection breaks, or the answer makes no sense: the request
\* may have been carried out already, or be carried out later.
Fails ==
    /\ up /\ awaits # "nothing" /\ reply # Failed /\ faults < MaxFaults
    /\ faults' = faults + 1 /\ reply' = Failed /\ saw' = saw \cup {"failure"}
    /\ \/ UNCHANGED late
       \/ awaits = "write" /\ reply = NoReply /\ late' = late \cup {Pending}
    /\ UNCHANGED <<up, supports, producers, source, op, rung, awaits, result, upsets>>

CarriedOutLate(r) ==
    /\ r \in late /\ late' = late \ {r}
    /\ IF r \in supports THEN producers' \in Effects(r) ELSE UNCHANGED producers
    /\ Observed
    /\ UNCHANGED <<up, supports, source, call, faults, upsets>>

Disturb ==
    /\ upsets < MaxUpsets /\ upsets' = upsets + 1 /\ Observed
    /\ UNCHANGED <<supports, source, call, faults>>

\* go2rtc goes down with everything it was told; or somebody changes its streams.
Crash == up /\ up' = FALSE /\ producers' = {} /\ late' = {} /\ Disturb
Rewire == up /\ producers' \in {{}, {Foreign}} /\ Disturb /\ UNCHANGED <<up, late>>

Start ==
    /\ ~up /\ up' = TRUE
    /\ UNCHANGED <<supports, producers, late, source, call, saw, faults, upsets>>

Registrar == BeginEnsure \/ Listed \/ Written
Answer == Serve \/ Unreachable

Next ==
    \/ Registrar \/ BeginRemove \/ Answer \/ Fails \/ Crash \/ Start \/ Rewire
    \/ \E r \in Requests : CarriedOutLate(r)

Spec == Init /\ [][Next]_vars

\* The main loop reconciles for as long as it runs, every request is answered or
\* fails, and go2rtc comes back and gets to what was sent to it.
FairSpec ==
    /\ Spec /\ WF_vars(Registrar) /\ WF_vars(Answer) /\ WF_vars(Start)
    /\ \A r \in Requests : WF_vars(CarriedOutLate(r))

-----------------------------------------------------------------------------
(* Properties *)

ServerOK ==
    /\ up \in BOOLEAN /\ supports \subseteq Requests /\ producers \subseteq Url
    /\ late \subseteq Requests /\ source \in Sources

CallOK ==
    /\ op \in {"idle", "ensure", "remove"} /\ awaits \in {"list", "write", "nothing"}
    /\ op = "idle" <=> awaits = "nothing"
    /\ awaits = "list" => op = "ensure"
    /\ rung \in 0 .. 4 /\ (awaits = "write" => rung \in 1 .. Len(Ladder(op)))
    /\ reply \in Replies /\ result \in {"none", "true", "false"}

HistoryOK ==
    /\ saw \subseteq {"wired", "unwired", "absent", "failure"}
    /\ faults \in 0 .. MaxFaults /\ upsets \in 0 .. MaxUpsets

\* Every variable keeps its kind; a call that awaits a writing request is on its
\* ladder (go2rtc_register.py:75-94, 108-116).
TypeOK == ServerOK /\ CallOK /\ HistoryOK

\* ensure_stream answers True only if the stream was wired to the source at some
\* moment of the call, and remove_stream only if it was gone, whatever timed out,
\* was carried out late or was undone meanwhile (go2rtc_register.py:68-94, 108-116).
ReportIsTrue ==
    [][op # "idle" /\ op' = "idle" /\ result' = "true" =>
          (IF op = "ensure" THEN "wired" ELSE "absent") \in saw]_vars

\* A stream that is wired already is not registered again, in whatever form go2rtc
\* lists its source (go2rtc_register.py:71-73, 118-135, 179-217).
NoNeedlessWrite == op = "ensure" /\ saw \subseteq {"wired"} => awaits # "write"

\* "go2rtc registration is reconciled periodically, so the stream comes back on its
\* own after a Frigate restart" (README.md:132-133): once nothing disturbs go2rtc any
\* more, the stream is wired for good.
SelfHeals == <>[]Wired(producers)
=============================================================================
