------------------------ MODULE Go2RtcRegistrarProofs ------------------------
(***************************************************************************)
(* For every set of URLs, every version of go2rtc and any number of faults: *)
(* what a call of Go2RTCStreamRegistrar reports was so while it ran.       *)
(*                                                                         *)
(* ReportIsTrue is not inductive: an answer is read some time after it was *)
(* given.  Answered ties what an answer says to what the history saw when  *)
(* go2rtc gave it, and Known keeps the listing to producers that           *)
(* _normalize_source_url tells apart.                                      *)
(***************************************************************************)
EXTENDS Go2RtcRegistrar, TLAPS

\* The producers there can be.
Known == producers \subseteq {Foreign, Stored(source)}

\* An answer to a listing shows what was wired then, an answer to a writing request
\* says what it did.
Answered ==
    /\ reply.listed \subseteq {Foreign, Stored(source)}
    /\ Stored(source) \in reply.listed => "wired" \in saw
    /\ awaits = "write" /\ reply.kind = "ok" =>
          (IF op = "remove" THEN "absent" ELSE "wired") \in saw

\* What is so now was seen by the call in progress.
Seen ==
    op # "idle" => Shows(producers) \subseteq saw

IInv == TypeOK /\ Known /\ Answered /\ Seen

\* Storing a URL keeps its kind and what normalisation makes of it.
LEMMA StoredUrl ==
    ASSUME NEW u \in Url
    PROVE  Stored(u) \in Url /\ Stored(u).path = u.path
  BY DEF Stored, Url, Unwrapped

\* The producer somebody else wires is never taken for ours.
LEMMA ForeignIsOther == ASSUME source \in Sources PROVE Normalized(Foreign) # Normalized(source)
<1>1. source \in Url /\ Foreign \in Url /\ source.path # Foreign.path
  BY RegistrarAssumption
<1>2. Normalized(Foreign).path = Foreign.path /\ Normalized(source).path = source.path
  BY DEF Normalized
<1> QED BY <1>1, <1>2

\* A listing matches only if our producer is in it.
LEMMA MatchIsOurs ==
    ASSUME source \in Sources, NEW L \in SUBSET {Foreign, Stored(source)}, Matches(L)
    PROVE  Stored(source) \in L
  BY ForeignIsOther DEF Matches

\* The ladders and what they are made of (go2rtc_register.py:75-80, 110).
LEMMA LadderShape ==
    ASSUME NEW o
    PROVE  /\ Len(Ladder(o)) = IF o = "remove" THEN 2 ELSE 4
           /\ \A i \in 1 .. Len(Ladder(o)) :
                 Ladder(o)[i] \in IF o = "remove" THEN Deletes ELSE Writes
  BY DEF Ladder, Deletes, Writes

\* What the answers hold.
LEMMA ReplyFields ==
    /\ NoReply \in Replies /\ NoReply.kind = "none" /\ NoReply.listed = {}
    /\ Failed \in Replies /\ Failed.kind = "failed" /\ Failed.listed = {}
    /\ \A L \in SUBSET Url : \A k \in {"ok", "refused"} :
          /\ Reply(k, L) \in Replies /\ Reply(k, L).kind = k /\ Reply(k, L).listed = L
  BY DEF NoReply, Failed, Reply, Replies

LEMMA InitIInv == Init => IInv
<1> SUFFICES ASSUME Init PROVE IInv
  OBVIOUS
<1>1. source \in Url /\ Stored(source) \in Url /\ Foreign \in Url
  BY RegistrarAssumption, StoredUrl DEF Init
<1>2. ServerOK
  BY <1>1, RegistrarAssumption DEF Init, ServerOK
<1>3. CallOK
  BY ReplyFields DEF Init, CallOK
<1>4. HistoryOK
  BY RegistrarAssumption DEF Init, HistoryOK
<1>5. Known /\ Answered /\ Seen
  BY ReplyFields DEF Init, Known, Answered, Seen
<1> QED BY <1>2, <1>3, <1>4, <1>5 DEF IInv, TypeOK

\* Every step keeps go2rtc's part of the state.
LEMMA NextServerOK == ASSUME ServerOK, CallOK, Next PROVE ServerOK'
<1> USE DEF ServerOK
<1>0. source \in Url /\ Stored(source) \in Url /\ Foreign \in Url
  BY RegistrarAssumption, StoredUrl
<1>1. CASE Registrar \/ BeginRemove
  BY <1>1 DEF Registrar, BeginEnsure, BeginRemove, Begin, Listed, Written, Resumes, go2rtc
<1>2. CASE Serve
  BY <1>2, <1>0 DEF Serve, Effects
<1>3. CASE Fails
  BY <1>3, LadderShape DEF Fails, Pending, Requests, CallOK
<1>4. CASE Unreachable \/ Start \/ Crash
  BY <1>4 DEF Unreachable, Start, Crash, Disturb, go2rtc
<1>5. CASE Rewire
  BY <1>5, <1>0 DEF Rewire, Disturb
<1>6. ASSUME NEW r \in Requests, CarriedOutLate(r) PROVE ServerOK'
  BY <1>6, <1>0 DEF CarriedOutLate, Effects
<1> QED BY <1>1, <1>2, <1>3, <1>4, <1>5, <1>6 DEF Next, Answer

\* Every step keeps the call's place on its ladder.
LEMMA NextCallOK == ASSUME ServerOK, CallOK, Next PROVE CallOK'
<1> USE ReplyFields DEF CallOK
<1>1. CASE BeginEnsure
  BY <1>1 DEF BeginEnsure, Begin, Asks
<1>2. CASE BeginRemove
  <2>1. Len(Ladder("remove")) = 2
    BY LadderShape
  <2>2. op' = "remove" /\ rung' = 1 /\ awaits' = "write" /\ reply' = NoReply
    BY <1>2 DEF BeginRemove, Begin, Asks
  <2> QED BY <1>2, <2>1, <2>2 DEF BeginRemove, Begin
<1>3. CASE Listed
  <2>1. Len(Ladder("ensure")) = 4
    BY LadderShape
  <2>2. CASE Returns("true") \/ Returns("false")
    BY <2>2 DEF Returns, Asks
  <2>3. CASE ~Exhausted /\ rung' = rung + 1 /\ Asks("write") /\ UNCHANGED <<op, result>>
    <3>1. op = "ensure" /\ op' = op /\ result' = result /\ awaits' = "write"
          /\ reply' = NoReply /\ rung \in 0 .. 4 /\ rung # 4 /\ rung' = rung + 1
      BY <1>3, <2>1, <2>3 DEF Listed, Exhausted, Asks
    <3>2. rung' \in 1 .. 4 /\ rung' \in 0 .. 4
      BY <3>1
    <3>3. rung' \in 1 .. Len(Ladder(op'))
      BY <2>1, <3>1, <3>2
    <3> QED BY <3>1, <3>2, <3>3
  <2> QED BY <1>3, <2>2, <2>3 DEF Listed, Climbs
<1>4. CASE Written
  BY <1>4, LadderShape DEF Written, Returns, Climbs, Exhausted, Asks
<1>5. CASE Serve
  BY <1>5 DEF Serve, ServerOK
<1>6. CASE Unreachable \/ Fails
  BY <1>6 DEF Unreachable, Fails
<1>7. CASE Crash \/ Start \/ Rewire
  BY <1>7 DEF Crash, Start, Rewire, Disturb, call
<1>8. ASSUME NEW r \in Requests, CarriedOutLate(r) PROVE CallOK'
  BY <1>8 DEF CarriedOutLate, call
<1> QED BY <1>1, <1>2, <1>3, <1>4, <1>5, <1>6, <1>7, <1>8 DEF Next, Registrar, Answer

\* Every step keeps the history's kinds.
LEMMA NextHistoryOK == ASSUME HistoryOK, Next PROVE HistoryOK'
<1> USE RegistrarAssumption DEF HistoryOK
<1>1. CASE BeginEnsure \/ BeginRemove
  BY <1>1 DEF BeginEnsure, BeginRemove, Begin, Wired, Shows
<1>2. CASE Listed \/ Written
  BY <1>2 DEF Listed, Written, Resumes
<1>3. CASE Serve
  BY <1>3 DEF Serve, Observed, Wired, Shows
<1>4. CASE Unreachable
  BY <1>4 DEF Unreachable
<1>5. CASE Fails
  BY <1>5 DEF Fails
<1>6. CASE Crash \/ Rewire
  <2>1. saw' = saw \cup Shows(producers') /\ upsets < MaxUpsets /\ upsets' = upsets + 1
    BY <1>6 DEF Crash, Rewire, Disturb, Observed
  <2>2. faults' = faults
    BY <1>6 DEF Crash, Rewire, Disturb
  <2> QED BY <2>1, <2>2 DEF Shows
<1>7. CASE Start
  BY <1>7 DEF Start
<1>8. ASSUME NEW r \in Requests, CarriedOutLate(r) PROVE HistoryOK'
  BY <1>8 DEF CarriedOutLate, Observed, Wired, Shows
<1> QED BY <1>1, <1>2, <1>3, <1>4, <1>5, <1>6, <1>7, <1>8
  DEF Next, Registrar, Answer

\* Every step keeps answers in line with what was seen.
LEMMA NextAnswered == ASSUME IInv, Next PROVE (Known /\ Answered /\ Seen)'
<1> USE ReplyFields DEF IInv, Known, Answered, Seen
<1>0. Stored(source') = Stored(source)
  <2>1. source' = source
    BY DEF Next, Registrar, Answer, BeginEnsure, BeginRemove, Begin, Listed, Written, Resumes,
       Serve, Unreachable, Fails, Crash, Start, Rewire, Disturb, CarriedOutLate
  <2> QED BY <2>1
<1>1. CASE BeginEnsure
  BY <1>0, <1>1 DEF BeginEnsure, Begin, Asks, go2rtc, Wired, Shows
<1>2. CASE BeginRemove
  BY <1>0, <1>2 DEF BeginRemove, Begin, Asks, go2rtc, Wired, Shows
<1>3. CASE Listed
  BY <1>0, <1>3 DEF Listed, Resumes, Returns, Climbs, Asks, go2rtc, Wired, Shows
<1>4. CASE Written
  BY <1>0, <1>4 DEF Written, Resumes, Returns, Climbs, Asks, go2rtc, Wired, Shows
<1>5. CASE Serve
  <2>1. source' = source /\ op' = op /\ awaits' = awaits /\ awaits # "nothing"
    BY <1>5 DEF Serve
  <2>2. (Known /\ Seen)'
    BY <1>0, <1>5, <2>1 DEF Serve, Effects, Observed, Wired, Shows
  <2>3. CASE awaits = "list"
    <3>1. reply' = Reply("ok", producers) /\ producers' = producers
      BY <1>5, <2>3 DEF Serve
    <3>2. reply'.listed = producers
      BY <3>1 DEF Reply
    <3>3. op # "idle"
      BY <2>3 DEF TypeOK, CallOK
    <3>4. Stored(source) \in producers => "wired" \in saw'
      BY <1>5, <3>1 DEF Serve, Observed, Wired, Shows
    <3> QED BY <1>0, <2>1, <2>2, <2>3, <3>2, <3>4
  <2>4. CASE awaits = "write" /\ Pending \in supports
    <3>1. Pending \in IF op = "remove" THEN Deletes ELSE Writes
      BY <2>4, LadderShape DEF TypeOK, CallOK, Pending
    <3>2. IF op = "remove" THEN producers' = {} ELSE Wired(producers')
      BY <1>5, <2>4, <3>1 DEF Serve, Effects, Writes, Deletes, Wired, Shows
    <3>3. reply' = Reply("ok", {})
      BY <1>5, <2>4 DEF Serve
    <3>4. (IF op = "remove" THEN "absent" ELSE "wired") \in saw'
      BY <1>5, <3>2 DEF Serve, Observed, Shows
    <3> QED BY <1>0, <2>1, <2>2, <3>3, <3>4
  <2>5. CASE awaits = "write" /\ Pending \notin supports
    <3>1. reply' = Reply("refused", {})
      BY <1>5, <2>5 DEF Serve
    <3> QED BY <2>2, <3>1
  <2> QED BY <1>5, <2>3, <2>4, <2>5 DEF Serve
<1>6. CASE Unreachable
  BY <1>0, <1>6 DEF Unreachable, go2rtc, Wired, Shows
<1>7. CASE Fails
  BY <1>0, <1>7 DEF Fails, Wired, Shows
<1>8. CASE Crash
  BY <1>0, <1>8 DEF Crash, Disturb, Observed, Wired, Shows, call
<1>9. CASE Start
  BY <1>0, <1>9 DEF Start, call, Wired, Shows
<1>10. CASE Rewire
  BY <1>0, <1>10 DEF Rewire, Disturb, Observed, Wired, Shows, call
<1>11. ASSUME NEW r \in Requests, CarriedOutLate(r) PROVE (Known /\ Answered /\ Seen)'
  <2>1. /\ producers' \in {{}, {Stored(source)}, producers \cup {Stored(source)}, producers}
        /\ reply' = reply /\ op' = op /\ awaits' = awaits
    BY <1>11 DEF CarriedOutLate, Effects, call
  <2>2. saw' = saw \cup Shows(producers')
    BY <1>11 DEF CarriedOutLate, Observed
  <2> QED BY <1>0, <2>1, <2>2 DEF Wired, Shows
<1> QED
  BY <1>1, <1>2, <1>3, <1>4, <1>5, <1>6, <1>7, <1>8, <1>9, <1>10, <1>11
  DEF Next, Registrar, Answer

THEOREM RegistrarInvariant == Spec => []IInv
<1>1. IInv /\ Next => IInv'
  BY NextServerOK, NextCallOK, NextHistoryOK, NextAnswered DEF IInv, TypeOK
<1>2. IInv /\ UNCHANGED vars => IInv'
  BY DEF vars, go2rtc, call, IInv, TypeOK, ServerOK, CallOK, HistoryOK, Known,
     Answered, Seen, Wired, Shows, Stored
<1> QED BY InitIInv, <1>1, <1>2, PTL DEF Spec

\* A call that saw nothing amiss still awaits its first listing, or has our producer in it.
Quiet ==
    op = "ensure" /\ saw \subseteq {"wired"} =>
        awaits = "list" /\ (reply = NoReply \/ Stored(source) \in reply.listed)

\* go2rtc's form of a URL is recognised as that URL (go2rtc_register.py:179-217).
LEMMA StoredMatches == Stored(source) \in reply.listed => Matches(reply.listed)
<1>1. Normalized(Stored(source)) = Normalized(source)
  BY DEF Normalized, Stored, Unwrapped
<1> QED BY <1>1 DEF Matches

LEMMA NextQuiet == ASSUME IInv, Quiet, [Next]_vars PROVE Quiet'
<1> USE DEF Quiet
<1>0. Stored(source') = Stored(source)
  <2>1. source' = source
    BY DEF Next, Registrar, Answer, BeginEnsure, BeginRemove, Begin, Listed, Written, Resumes,
       Serve, Unreachable, Fails, Crash, Start, Rewire, Disturb, CarriedOutLate, vars
  <2> QED BY <2>1
<1>1. CASE BeginEnsure \/ BeginRemove
  BY <1>1 DEF BeginEnsure, BeginRemove, Begin, Asks
<1>2. CASE Listed
  <2>1. saw' = saw /\ reply # NoReply
    BY <1>2 DEF Listed, Resumes
  <2>2. IF Matches(reply.listed) THEN op' = "idle" ELSE op' \in {op, "idle"}
    BY <1>2 DEF Listed, Returns, Climbs
  <2> QED BY <2>1, <2>2, StoredMatches
<1>3. CASE Written
  <2>1. saw' = saw /\ op' \in {op, "idle"} /\ awaits = "write"
    BY <1>3 DEF Written, Returns, Climbs
  <2> QED BY <2>1
<1>4. CASE Serve
  <2>1. saw' = saw \cup Shows(producers') /\ op' = op /\ awaits' = awaits
    BY <1>4 DEF Serve, Observed
  <2>2. awaits = "list" => producers' = producers /\ reply'.listed = producers
    BY <1>4 DEF Serve, Reply
  <2>3. saw' \subseteq {"wired"} => Stored(source) \in producers'
    BY <2>1 DEF Shows, Wired
  <2> QED BY <1>0, <2>1, <2>2, <2>3
<1>5. CASE Unreachable \/ Fails
  BY <1>5 DEF Unreachable, Fails
<1>6. CASE Crash \/ Rewire
  BY <1>0, <1>6 DEF Crash, Rewire, Disturb, Observed, call
<1>7. ASSUME NEW r \in Requests, CarriedOutLate(r) PROVE Quiet'
  BY <1>0, <1>7 DEF CarriedOutLate, Observed, call
<1>8. CASE Start \/ UNCHANGED vars
  BY <1>0, <1>8 DEF Start, vars, call
<1> QED BY <1>1, <1>2, <1>3, <1>4, <1>5, <1>6, <1>7, <1>8 DEF Next, Registrar, Answer

\* A stream that stays wired during a call is not registered again, whatever its source
\* looks like (go2rtc_register.py:71-73, 118-135, 179-217).
THEOREM RegistrarWritesOnlyIfNeeded == Spec => []NoNeedlessWrite
<1>1. Init => Quiet
  BY DEF Init, Quiet
<1>2. Quiet => NoNeedlessWrite
  BY DEF Quiet, NoNeedlessWrite
<1> QED BY RegistrarInvariant, NextQuiet, <1>1, <1>2, PTL DEF Spec

\* Every variable keeps its kind (go2rtc_register.py:59-116).
THEOREM RegistrarTypes == Spec => []TypeOK
<1>1. IInv => TypeOK
  BY DEF IInv
<1> QED BY RegistrarInvariant, <1>1, PTL

\* What ensure_stream and remove_stream report was so at some moment of the call, for
\* every source, every version of go2rtc and any number of faults and restarts
\* (go2rtc_register.py:68-94, 108-116).
THEOREM RegistrarReportsTruth == Spec => ReportIsTrue
<1> DEFINE Reports == op # "idle" /\ op' = "idle" /\ result' = "true"
           Truth == (IF op = "ensure" THEN "wired" ELSE "absent") \in saw
<1>1. ASSUME IInv, Next, Reports PROVE Truth
  <2> USE DEF IInv, TypeOK, CallOK
  <2>1. CASE Listed
    <3>1. Matches(reply.listed) /\ op = "ensure"
      BY <1>1, <2>1, LadderShape DEF Listed, Returns, Climbs, Asks
    <3> QED BY <1>1, <3>1, MatchIsOurs DEF Answered, ServerOK
  <2>2. CASE Written
    BY <1>1, <2>2 DEF Written, Returns, Climbs, Asks, Answered, Succeeded
  <2>3. Listed \/ Written
    BY <1>1 DEF Next, Registrar, Answer, BeginEnsure, BeginRemove, Begin, Serve, Unreachable,
       Fails, Crash, Start, Rewire, Disturb, CarriedOutLate, call
  <2> QED BY <2>1, <2>2, <2>3
<1>2. IInv /\ [Next]_vars => [Reports => Truth]_vars
  BY <1>1
<1> QED BY RegistrarInvariant, <1>2, PTL DEF Spec, ReportIsTrue
=============================================================================
