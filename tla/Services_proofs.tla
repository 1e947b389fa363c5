--------------------------- MODULE Services_proofs ---------------------------
(***************************************************************************)
(* The services beside the task control plane: what a call for a tool is   *)
(* told (RemoteExecution), how often a signed request is taken             *)
(* (RequestSignature), what is told of the bootstrap runs (Observability)  *)
(* and what a session starts with (CapabilityClient), for every number of  *)
(* callers, requests, reports and sessions.                                *)
(***************************************************************************)
EXTENDS RequestSignature, RemoteExecution, Observability, CapabilityClient,
        Operators_proofs

----------------------------------------------------------------------------
(* RemoteExecution *)

RemoteSpec == RemoteInit /\ [][RemoteNext]_executionVars

ScriptStates == {"none", "arriving", "refused", "running", "orphan",
                 "exited", "failed", "killed"}

Statuses == {200, 400, 401, 403, 404, 500, 503, 504}

CallRecords ==
    {Idle} \cup {Waiting(q) : q \in Requests}
      \cup {Answered(q, s, h) : q \in Requests, s \in Statuses, h \in BOOLEAN}

RemoteTypeOK ==
    /\ call \in [Calls -> CallRecords]
    /\ script \in [Calls -> ScriptStates]
    /\ reply \in [Calls -> {0} \cup Statuses]

(* What an answer of the remote executor says of the script of its call.   *)
Tells(status, ran) ==
    /\ status = 200 => ran = "exited"
    /\ status \in {400, 401, 403} => ran = "refused"
    /\ status = 500 => ran \in {"failed", "killed", "refused"}

(* The inductive invariant, of one call: an answer on its way already      *)
(* tells what happened, there is none while the script may still begin or  *)
(* end, and a call that was never made has no script.                      *)
CallFits(x, ran, status) ==
    /\ x.stage = "idle" => ran = "none" /\ status = 0
    /\ ran \in {"none", "arriving", "running", "orphan"} => status = 0
    /\ x.stage = "waiting" /\ ReachesServer(x.request) /\ status # 0 => Tells(status, ran)
    /\ x.stage = "answered" =>
          /\ x.hasResult => x.ok
          /\ ReachesServer(x.request) => Tells(x.status, ran)

CallsFit == \A c \in Calls : CallFits(call[c], script[c], reply[c])

RemoteInv == RemoteTypeOK /\ CallsFit

(* What the stage of a call says of its record.                            *)
LEMMA CallRecordFields ==
  ASSUME NEW x \in CallRecords
  PROVE  /\ x.stage \in {"idle", "waiting", "answered"}
         /\ x.stage = "idle" => x = Idle
         /\ x.stage = "waiting" => x = Waiting(x.request) /\ x.request \in Requests
         /\ x.stage = "answered" => x.status \in Statuses /\ x.request \in Requests
<1>1. CASE x = Idle
  BY <1>1 DEF Idle
<1>2. ASSUME NEW q \in Requests, x = Waiting(q)
      PROVE  x.stage = "waiting" /\ x = Waiting(x.request) /\ x.request \in Requests
  BY <1>2 DEF Waiting
<1>3. ASSUME NEW q \in Requests, NEW s \in Statuses, NEW h \in BOOLEAN, x = Answered(q, s, h)
      PROVE  x.stage = "answered" /\ x.status \in Statuses /\ x.request \in Requests
  BY <1>3 DEF Answered
<1>4. QED
  BY <1>1, <1>2, <1>3 DEF CallRecords

LEMMA NewCallRecords ==
  ASSUME NEW q \in Requests
  PROVE  /\ Waiting(q) \in CallRecords
         /\ Waiting(q).stage = "waiting" /\ Waiting(q).request = q
         /\ \A s \in Statuses, h \in BOOLEAN :
              /\ Answered(q, s, h) \in CallRecords
              /\ Answered(q, s, h).stage = "answered"
              /\ Answered(q, s, h).request = q
              /\ Answered(q, s, h).status = s
              /\ Answered(q, s, h).ok = (s = 200)
              /\ Answered(q, s, h).hasResult = h
BY DEF CallRecords, Waiting, Answered

(* What the worker and the two executors may answer by themselves.         *)
LEMMA AnswerStatuses ==
  ASSUME NEW q
  PROVE  /\ WorkerAnswer(q) \in {0, 400, 500}
         /\ ServerAnswer(q) \in {0, 400, 401, 500}
         /\ \A store : Phase1Answer(q, store) \in Statuses
<1>1. WorkerAnswer(q) \in {0, 400, 500}
  BY DEF WorkerAnswer
<1>2. ServerAnswer(q) \in {0, 400, 401, 500}
  BY DEF ServerAnswer
<1>3. ASSUME NEW store
      PROVE  Phase1Answer(q, store) \in Statuses
  <2>1. ReadStatus(store) \in {200, 404, 500}
    BY DEF ReadStatus
  <2>2. DispatchPhase1Tool(q, store) \in {200, 400, 404, 500, 503}
    BY <2>1 DEF DispatchPhase1Tool, GetSkillMetadata, GetArtifact, SkillStatsCached
  <2>3. QED
    BY <2>2 DEF Phase1Answer, Statuses
<1>4. QED
  BY <1>1, <1>2, <1>3

LEMMA RemoteInitInv == RemoteInit => RemoteInv
<1> SUFFICES ASSUME RemoteInit
             PROVE  RemoteInv
  OBVIOUS
<1>1. RemoteTypeOK
  BY DEF RemoteInit, RemoteTypeOK, CallRecords, ScriptStates
<1>2. CallsFit
  BY DEF RemoteInit, CallsFit, CallFits, Idle
<1>3. QED
  BY <1>1, <1>2 DEF RemoteInv

(* A step that touches one call only has to be looked at there.            *)
LEMMA OneCallChanges ==
  ASSUME RemoteInv, NEW c \in Calls, UNCHANGED setting,
         NEW x \in CallRecords, NEW ran \in ScriptStates, NEW status \in {0} \cup Statuses,
         call' = [call EXCEPT ![c] = x],
         script' = [script EXCEPT ![c] = ran],
         reply' = [reply EXCEPT ![c] = status],
         CallFits(x, ran, status)
  PROVE  RemoteInv'
<1>1. RemoteTypeOK'
  BY DEF RemoteInv, RemoteTypeOK
<1>2. ASSUME NEW d \in Calls
      PROVE  CallFits(call[d], script[d], reply[d])'
  <2>1. CASE d = c
    <3>1. call'[d] = x /\ script'[d] = ran /\ reply'[d] = status
      BY <2>1 DEF RemoteInv, RemoteTypeOK
    <3>2. QED
      BY <3>1 DEF CallFits, ReachesServer
  <2>2. CASE d # c
    <3>1. call'[d] = call[d] /\ script'[d] = script[d] /\ reply'[d] = reply[d]
      BY <2>2 DEF RemoteInv, RemoteTypeOK
    <3>2. CallFits(call[d], script[d], reply[d])
      BY DEF RemoteInv, CallsFit
    <3>3. QED
      BY <3>1, <3>2 DEF CallFits, ReachesServer
  <2>3. QED
    BY <2>1, <2>2
<1>3. QED
  BY <1>1, <1>2 DEF RemoteInv, CallsFit

(* What a component that a step leaves alone looks like.                   *)
LEMMA CallUntouched ==
  ASSUME RemoteInv, NEW c \in Calls
  PROVE  /\ call[c] \in CallRecords /\ script[c] \in ScriptStates
         /\ reply[c] \in {0} \cup Statuses
         /\ call = [call EXCEPT ![c] = call[c]]
         /\ script = [script EXCEPT ![c] = script[c]]
         /\ reply = [reply EXCEPT ![c] = reply[c]]
         /\ CallFits(call[c], script[c], reply[c])
<1>1. /\ call[c] \in CallRecords /\ script[c] \in ScriptStates
      /\ reply[c] \in {0} \cup Statuses
      /\ call = [call EXCEPT ![c] = call[c]]
      /\ script = [script EXCEPT ![c] = script[c]]
      /\ reply = [reply EXCEPT ![c] = reply[c]]
  <2> HIDE DEF CallRecords
  <2>1. QED
    BY DEF RemoteInv, RemoteTypeOK
<1>2. QED
  BY <1>1 DEF RemoteInv, CallsFit

LEMMA ExecutePreserves ==
  ASSUME RemoteInv, NEW c \in Calls, NEW q \in Requests, Execute(c, q)
  PROVE  RemoteInv'
<1> DEFINE status == IF q.via = "direct" THEN 0 ELSE WorkerAnswer(q)
           has == FALSE
           x == IF status = 0 THEN Waiting(q) ELSE Answered(q, status, has)
           ran == IF status = 0 THEN "arriving" ELSE "refused"
<1>1. status \in {0, 400, 500}
  BY AnswerStatuses
<1>2. /\ call[c] = Idle /\ UNCHANGED setting
      /\ call' = [call EXCEPT ![c] = x]
      /\ script' = [script EXCEPT ![c] = ran]
      /\ reply' = reply
  BY DEF Execute
<1>3. reply[c] = 0 /\ reply' = [reply EXCEPT ![c] = 0]
  <2>1. call[c].stage = "idle"
    BY <1>2 DEF Idle
  <2>2. reply[c] = 0
    BY <2>1, CallUntouched DEF CallFits
  <2>3. QED
    BY <1>2, <2>2, CallUntouched
<1>. has \in BOOLEAN
  OBVIOUS
<1> HIDE DEF status, has
<1>4. /\ x \in CallRecords
      /\ status = 0 => x.stage = "waiting"
      /\ status # 0 => /\ x.stage = "answered" /\ x.status = status
                       /\ x.hasResult = has
  <2>1. CASE status = 0
    BY <2>1, NewCallRecords
  <2>2. CASE status # 0
    <3>1. status \in Statuses
      BY <1>1, <2>2 DEF Statuses
    <3>2. x = Answered(q, status, has)
      BY <2>2
    <3>3. QED
      BY <2>2, <3>1, <3>2, NewCallRecords
  <2>3. QED
    BY <2>1, <2>2
<1> HIDE DEF x
<1>5. CallFits(x, ran, 0)
  BY <1>1, <1>4 DEF CallFits, Tells, has
<1>6. ran \in ScriptStates
  BY DEF ScriptStates
<1>7. QED
  BY <1>2, <1>3, <1>4, <1>5, <1>6, OneCallChanges

LEMMA ServerReceivesPreserves ==
  ASSUME RemoteInv, NEW c \in Calls, ServerReceives(c)
  PROVE  RemoteInv'
<1> DEFINE status == ServerAnswer(call[c].request)
           ran == IF status = 0 THEN "running" ELSE "refused"
<1>1. status \in {0, 400, 401, 500}
  BY AnswerStatuses
<1>2. /\ script[c] = "arriving" /\ UNCHANGED <<setting, call>>
      /\ script' = [script EXCEPT ![c] = ran]
      /\ reply' = [reply EXCEPT ![c] = status]
  BY DEF ServerReceives
<1> HIDE DEF status
<1>3. CallFits(call[c], ran, status)
  <2>1. CallFits(call[c], "arriving", reply[c])
    BY <1>2, CallUntouched
  <2>2. call[c].stage = "answered" => ~(ReachesServer(call[c].request) /\ call[c].status \in {200, 400, 401, 403, 500})
    BY <2>1 DEF CallFits, Tells
  <2>3. call[c].stage # "idle"
    BY <2>1 DEF CallFits
  <2>4. QED
    BY <1>1, <2>1, <2>2, <2>3 DEF CallFits, Tells
<1>4. ran \in ScriptStates /\ status \in {0} \cup Statuses
  BY <1>1 DEF ScriptStates, Statuses
<1>5. QED
  BY <1>2, <1>3, <1>4, CallUntouched, OneCallChanges

LEMMA Phase1ReceivesPreserves ==
  ASSUME RemoteInv, NEW c \in Calls, NEW store \in Stores, Phase1Receives(c, store)
  PROVE  RemoteInv'
<1> DEFINE status == Phase1Answer(call[c].request, store)
<1>1. status \in Statuses
  BY AnswerStatuses
<1>2. /\ script[c] = "arriving" /\ ~ReachesServer(call[c].request)
      /\ UNCHANGED <<setting, call>>
      /\ script' = [script EXCEPT ![c] = "refused"]
      /\ reply' = [reply EXCEPT ![c] = status]
  BY DEF Phase1Receives
<1> HIDE DEF status
<1>3. CallFits(call[c], "refused", status)
  BY <1>2, CallUntouched DEF CallFits
<1>4. "refused" \in ScriptStates
  BY DEF ScriptStates
<1>5. QED
  BY <1>1, <1>2, <1>3, <1>4, CallUntouched, OneCallChanges

LEMMA ScriptEndsPreserves ==
  ASSUME RemoteInv, NEW c \in Calls, NEW how \in {"exited", "failed", "killed"},
         ScriptEnds(c, how)
  PROVE  RemoteInv'
<1> DEFINE status == IF how = "exited" THEN 200 ELSE 500
<1>1. /\ script[c] = "running" /\ UNCHANGED <<setting, call>>
      /\ script' = [script EXCEPT ![c] = how]
      /\ reply' = [reply EXCEPT ![c] = status]
  BY DEF ScriptEnds
<1>2. CallFits(call[c], "running", reply[c])
  BY <1>1, CallUntouched
<1>3. CallFits(call[c], how, status)
  BY <1>2 DEF CallFits, Tells
<1>4. how \in ScriptStates /\ status \in {0} \cup Statuses
  BY DEF ScriptStates, Statuses
<1> HIDE DEF status
<1>5. QED
  BY <1>1, <1>3, <1>4, CallUntouched, OneCallChanges

(* A script that ends for nobody, or a request that gets lost.             *)
LEMMA ScriptMovesPreserves ==
  ASSUME RemoteInv, NEW c \in Calls, OrphanEnds(c) \/ RequestIsLost(c)
  PROVE  RemoteInv'
<1> DEFINE ran == IF script[c] = "orphan" THEN "exited" ELSE "refused"
<1>1. /\ script[c] \in {"orphan", "arriving"} /\ UNCHANGED <<setting, call, reply>>
      /\ script' = [script EXCEPT ![c] = ran]
  BY DEF OrphanEnds, RequestIsLost
<1>2. CallFits(call[c], ran, reply[c])
  BY <1>1, CallUntouched DEF CallFits, Tells
<1>3. ran \in ScriptStates
  BY DEF ScriptStates
<1>4. QED
  BY <1>1, <1>2, <1>3, CallUntouched, OneCallChanges

LEMMA ServerCrashesPreserves ==
  ASSUME RemoteInv, ServerCrashes
  PROVE  RemoteInv'
<1>1. /\ UNCHANGED <<setting, call>>
      /\ script' = [c \in Calls |-> IF script[c] = "running" THEN "orphan" ELSE script[c]]
      /\ reply' = [c \in Calls |-> IF call[c] # Idle /\ ReachesServer(call[c].request)
                                   THEN 0 ELSE reply[c]]
  BY DEF ServerCrashes
<1>2. ASSUME NEW d \in Calls
      PROVE  CallFits(call[d], script[d], reply[d])'
  <2>1. CallFits(call[d], script[d], reply[d])
    BY CallUntouched
  <2>2. /\ call'[d] = call[d]
        /\ script'[d] = IF script[d] = "running" THEN "orphan" ELSE script[d]
        /\ reply'[d] \in {0, reply[d]}
    BY <1>1
  <2>3. QED
    BY <1>1, <2>1, <2>2 DEF CallFits, ReachesServer, Tells
<1>3. RemoteTypeOK'
  <2> HIDE DEF CallRecords
  <2>1. QED
    BY <1>1 DEF RemoteInv, RemoteTypeOK, ScriptStates
<1>4. QED
  BY <1>2, <1>3 DEF RemoteInv, CallsFit

LEMMA DeliverPreserves ==
  ASSUME RemoteInv, NEW c \in Calls, NEW whole \in BOOLEAN, Deliver(c, whole)
  PROVE  RemoteInv'
<1> DEFINE q == call[c].request
           has == whole /\ reply[c] = 200
           x == Answered(q, reply[c], has)
<1>1. /\ call[c].stage = "waiting" /\ reply[c] # 0 /\ UNCHANGED <<setting, script>>
      /\ call' = [call EXCEPT ![c] = x]
      /\ reply' = [reply EXCEPT ![c] = 0]
  BY DEF Deliver
<1>2. q \in Requests /\ reply[c] \in Statuses /\ has \in BOOLEAN
  BY <1>1, CallUntouched, CallRecordFields
<1> HIDE DEF q, has
<1>3. /\ x \in CallRecords /\ x.stage = "answered" /\ x.request = q
      /\ x.status = reply[c] /\ x.ok = (reply[c] = 200) /\ x.hasResult = has
  BY <1>2, NewCallRecords
<1> HIDE DEF x
<1>4. CallFits(x, script[c], 0)
  <2>1. CallFits(call[c], script[c], reply[c])
    BY CallUntouched
  <2>2. ReachesServer(q) => Tells(reply[c], script[c])
    BY <1>1, <2>1 DEF CallFits, q
  <2>3. has => reply[c] = 200
    BY DEF has
  <2>4. QED
    BY <1>3, <2>2, <2>3 DEF CallFits
<1>5. 0 \in {0} \cup Statuses
  OBVIOUS
<1>6. QED
  BY <1>1, <1>3, <1>4, <1>5, CallUntouched, OneCallChanges

LEMMA UpstreamTimeoutPreserves ==
  ASSUME RemoteInv, NEW c \in Calls, UpstreamTimeout(c)
  PROVE  RemoteInv'
<1> DEFINE q == call[c].request
           has == FALSE
           x == Answered(q, 504, has)
           ran == script[c]
           status == reply[c]
<1>1. /\ call[c].stage = "waiting" /\ UNCHANGED <<setting, script, reply>>
      /\ call' = [call EXCEPT ![c] = x]
  BY DEF UpstreamTimeout
<1>2. q \in Requests /\ 504 \in Statuses /\ has \in BOOLEAN
  BY <1>1, CallUntouched, CallRecordFields DEF Statuses
<1> HIDE DEF q, has
<1>3. /\ x \in CallRecords /\ x.stage = "answered"
      /\ x.status = 504 /\ x.hasResult = has
  BY <1>2, NewCallRecords
<1> HIDE DEF x
<1>4. CallFits(x, ran, status)
  BY <1>3, CallUntouched DEF CallFits, Tells, has
<1>5. /\ ran \in ScriptStates /\ status \in {0} \cup Statuses
      /\ script' = [script EXCEPT ![c] = ran]
      /\ reply' = [reply EXCEPT ![c] = status]
  BY <1>1, CallUntouched
<1> HIDE DEF ran, status
<1>6. UNCHANGED setting /\ call' = [call EXCEPT ![c] = x]
  BY <1>1
<1>7. x \in CallRecords
  BY <1>3
<1>8. QED
  BY <1>4, <1>5, <1>6, <1>7, OneCallChanges, Zenon

LEMMA RemoteStutterPreserves ==
  ASSUME RemoteInv, UNCHANGED <<setting, call, script, reply>>
  PROVE  RemoteInv'
BY DEF RemoteInv, RemoteTypeOK, CallsFit, CallFits, ReachesServer

LEMMA RemoteNextInv == RemoteInv /\ [RemoteNext]_executionVars => RemoteInv'
<1> SUFFICES ASSUME RemoteInv, [RemoteNext]_executionVars
             PROVE  RemoteInv'
  OBVIOUS
<1>1. CASE ServerCrashes
  BY <1>1, ServerCrashesPreserves
<1>2. CASE ServerStarts
  BY <1>2, RemoteStutterPreserves DEF ServerStarts
<1>3. ASSUME NEW c \in Calls,
             \/ \E r \in Requests : Execute(c, r)
             \/ ServerReceives(c)
             \/ \E s \in Stores : Phase1Receives(c, s)
             \/ \E how \in {"exited", "failed", "killed"} : ScriptEnds(c, how)
             \/ OrphanEnds(c)
             \/ \E whole \in BOOLEAN : Deliver(c, whole)
             \/ UpstreamTimeout(c)
             \/ RequestIsLost(c)
      PROVE  RemoteInv'
  BY <1>3, ExecutePreserves, ServerReceivesPreserves, Phase1ReceivesPreserves,
     ScriptEndsPreserves, ScriptMovesPreserves, DeliverPreserves, UpstreamTimeoutPreserves
<1>4. CASE UNCHANGED executionVars
  BY <1>4, RemoteStutterPreserves DEF executionVars
<1>5. QED
  BY <1>1, <1>2, <1>3, <1>4 DEF RemoteNext

(* However the connection, the server and the script fail, and in whatever *)
(* order their news arrives, a caller is never told that a script exited,  *)
(* was refused or failed when it was not so, and gets a result only with   *)
(* a 200 (executor.ts and the remote executor).                            *)
THEOREM AnswersAreTrue == RemoteSpec => []AnswersTellWhatRan
<1>1. RemoteInv => AnswersTellWhatRan
  BY DEF RemoteInv, CallsFit, CallFits, Tells, AnswersTellWhatRan
<1>2. QED
  BY <1>1, RemoteInitInv, RemoteNextInv, PTL DEF RemoteSpec

----------------------------------------------------------------------------
(* RequestSignature *)

SignatureSpec == SignatureInit /\ [][SignatureNext]_signatureVars

SignedRequests == [nonce : Nonces, timestamp : Int]
Acceptances == [at : Nat, timestamp : Int, damage : Damages]

SignatureTypeOK ==
    /\ now \in Nat
    /\ signed \subseteq SignedRequests
    /\ DOMAIN seen \subseteq Nonces
    /\ accepted \in [Nonces -> Seq(Acceptances)]

(* A client takes a new nonce for each request.                            *)
NoncesAreNew ==
    \A r, q \in signed : r.nonce = q.nonce => r = q

(* What was accepted under a nonce was the one request signed with it,     *)
(* undamaged, fresh, and at least the skew after the time before.          *)
TakenRightly(n) ==
    \A i \in DOMAIN accepted[n] :
        /\ accepted[n][i].damage = "none"
        /\ accepted[n][i].at <= now
        /\ [nonce |-> n, timestamp |-> accepted[n][i].timestamp] \in signed
        /\ Distance(accepted[n][i].at, accepted[n][i].timestamp) <= Skew
        /\ i > 1 => accepted[n][i].at - accepted[n][i - 1].at >= Skew

(* What the store still knows of a nonce, or that it may have forgotten.   *)
SeenTells(n) ==
    IF n \in DOMAIN seen
    THEN accepted[n] # << >> /\ seen[n] = accepted[n][Len(accepted[n])].at + Skew
    ELSE accepted[n] # << >> => accepted[n][Len(accepted[n])].at + Skew <= now

(* The inductive invariant.                                                *)
SignatureInv ==
    /\ SignatureTypeOK
    /\ NoncesAreNew
    /\ \A n \in Nonces : TakenRightly(n) /\ SeenTells(n) /\ Len(accepted[n]) <= 3

(* A request is taken only when none of the eight checks fails.            *)
LEMMA TakenPassesTheChecks ==
  ASSUME NEW r, NEW d \in Damages, VerifySignedRequest(r, d) = "ok"
  PROVE  d = "none" /\ ~IsStale(r.timestamp) /\ ~IsReplayed(r.nonce)
<1> DEFINE failed == {i \in DOMAIN Checks : Fails(Checks[i], r, d)}
<1>1. DOMAIN Checks = 1..8 /\ \A i \in 1..8 : Checks[i] # "ok"
  BY DEF Checks
<1>2. failed = {}
  <2> SUFFICES ASSUME failed # {}
               PROVE  FALSE
    OBVIOUS
  <2>1. failed \in SUBSET Nat /\ failed \subseteq 1..8
    BY <1>1
  <2>2. VerifySignedRequest(r, d) = Checks[Min(failed)]
    BY DEF VerifySignedRequest
  <2> HIDE DEF failed
  <2>3. \E x \in failed : \A y \in failed : x <= y
    BY <2>1, LeastElement
  <2>4. Min(failed) \in failed
    BY <2>3 DEF Min
  <2>5. QED
    BY <1>1, <2>1, <2>2, <2>4
<1>3. \A i \in 1..8 : ~Fails(Checks[i], r, d)
  BY <1>1, <1>2
<1> HIDE DEF failed
<1>4. ~IsStale(r.timestamp) /\ ~IsReplayed(r.nonce)
  <2>1. Checks[4] = "stale_timestamp" /\ Checks[8] = "replayed_nonce"
    BY DEF Checks
  <2>2. ~Fails("stale_timestamp", r, d) /\ ~Fails("replayed_nonce", r, d)
    BY <1>3, <2>1
  <2>3. QED
    BY <2>2 DEF Fails
<1>5. d = "none"
  <2> SUFFICES ASSUME d # "none"
               PROVE  FALSE
    OBVIOUS
  <2>1. PICK i \in 1..8 : Checks[i] = d /\ d \notin {"stale_timestamp", "replayed_nonce"}
    BY DEF Damages, Checks
  <2>2. Fails(Checks[i], r, d)
    BY <2>1 DEF Fails
  <2>3. QED
    BY <1>3, <2>2
<1>6. QED
  BY <1>4, <1>5

(* What is known of the acceptances of a nonce.                            *)
LEMMA AcceptedFacts ==
  ASSUME SignatureInv, NEW n \in Nonces
  PROVE  /\ accepted[n] \in Seq(Acceptances)
         /\ Len(accepted[n]) \in Nat
         /\ DOMAIN accepted[n] = 1..Len(accepted[n])
         /\ \A i \in 1..Len(accepted[n]) :
               accepted[n][i].at \in Nat /\ accepted[n][i].timestamp \in Int
         /\ accepted[n] # << >> => Len(accepted[n]) \in 1..Len(accepted[n])
         /\ TakenRightly(n) /\ SeenTells(n) /\ Len(accepted[n]) <= 3
<1>1. accepted[n] \in Seq(Acceptances)
  BY DEF SignatureInv, SignatureTypeOK
<1>2. \A i \in 1..Len(accepted[n]) : accepted[n][i] \in Acceptances
  BY <1>1
<1>3. \A i \in 1..Len(accepted[n]) :
         accepted[n][i].at \in Nat /\ accepted[n][i].timestamp \in Int
  BY <1>2 DEF Acceptances
<1>4. QED
  BY <1>1, <1>3 DEF SignatureInv

(* Nothing but time passes for a nonce that a step leaves alone.           *)
LEMMA TakenRightlyStays ==
  ASSUME SignatureInv, NEW n \in Nonces,
         accepted'[n] = accepted[n], signed' = signed, now \in Nat, now' \in {now, now + 1}
  PROVE  TakenRightly(n)'
<1>1. \A i \in DOMAIN accepted[n] : accepted[n][i].at \in Nat
  BY AcceptedFacts
<1>2. \A i \in DOMAIN accepted[n] :
        /\ accepted[n][i].damage = "none"
        /\ accepted[n][i].at <= now'
        /\ [nonce |-> n, timestamp |-> accepted[n][i].timestamp] \in signed
        /\ Distance(accepted[n][i].at, accepted[n][i].timestamp) <= Skew
        /\ i > 1 => accepted[n][i].at - accepted[n][i - 1].at >= Skew
  <2> SUFFICES ASSUME NEW i \in DOMAIN accepted[n]
               PROVE  /\ accepted[n][i].damage = "none"
                      /\ accepted[n][i].at <= now'
                      /\ [nonce |-> n, timestamp |-> accepted[n][i].timestamp] \in signed
                      /\ Distance(accepted[n][i].at, accepted[n][i].timestamp) <= Skew
                      /\ i > 1 => accepted[n][i].at - accepted[n][i - 1].at >= Skew
    OBVIOUS
  <2>1. /\ accepted[n][i].damage = "none"
        /\ accepted[n][i].at <= now
        /\ [nonce |-> n, timestamp |-> accepted[n][i].timestamp] \in signed
        /\ Distance(accepted[n][i].at, accepted[n][i].timestamp) <= Skew
        /\ i > 1 => accepted[n][i].at - accepted[n][i - 1].at >= Skew
    BY AcceptedFacts, Zenon DEF TakenRightly
  <2>2. accepted[n][i].at <= now'
    BY <1>1, <2>1
  <2>3. QED
    BY <2>1, <2>2, Zenon
<1>3. QED
  BY <1>2 DEF TakenRightly

LEMMA SignatureInitInv == SignatureInit => SignatureInv
<1> SUFFICES ASSUME SignatureInit
             PROVE  SignatureInv
  OBVIOUS
<1>1. \A n \in Nonces : accepted[n] = << >>
  BY DEF SignatureInit
<1>2. QED
  BY <1>1 DEF SignatureInit, SignatureInv, SignatureTypeOK, NoncesAreNew, TakenRightly,
     SeenTells, SignedRequests

LEMMA SignPreserves ==
  ASSUME SignatureInv, NEW n \in Nonces, NEW t \in (now - Drift)..(now + Drift), Sign(n, t)
  PROVE  SignatureInv'
<1>1. /\ \A r \in signed : r.nonce # n
      /\ signed' = signed \cup {[nonce |-> n, timestamp |-> t]}
      /\ UNCHANGED <<now, seen, accepted>>
  BY DEF Sign
<1>2. t \in Int
  BY SignatureAssumption DEF SignatureInv, SignatureTypeOK
<1>3. SignatureTypeOK'
  BY <1>1, <1>2 DEF SignatureInv, SignatureTypeOK, SignedRequests
<1>4. NoncesAreNew'
  BY <1>1 DEF SignatureInv, NoncesAreNew
<1>5. ASSUME NEW m \in Nonces
      PROVE  (TakenRightly(m) /\ SeenTells(m) /\ Len(accepted[m]) <= 3)'
  BY <1>1 DEF SignatureInv, TakenRightly, SeenTells
<1>6. QED
  BY <1>3, <1>4, <1>5 DEF SignatureInv

LEMMA TickPreserves ==
  ASSUME SignatureInv, Tick
  PROVE  SignatureInv'
<1>1. now \in Nat /\ now' = now + 1 /\ UNCHANGED <<signed, seen, accepted>>
  BY DEF Tick, SignatureInv, SignatureTypeOK
<1>2. SignatureTypeOK' /\ NoncesAreNew'
  BY <1>1 DEF SignatureInv, SignatureTypeOK, NoncesAreNew
<1>3. ASSUME NEW m \in Nonces
      PROVE  (TakenRightly(m) /\ SeenTells(m) /\ Len(accepted[m]) <= 3)'
  <2>1. /\ TakenRightly(m) /\ SeenTells(m) /\ Len(accepted[m]) <= 3
        /\ accepted[m] \in Seq(Acceptances)
    BY DEF SignatureInv, SignatureTypeOK
  <2>3. TakenRightly(m)'
    BY <1>1, TakenRightlyStays
  <2>4. SeenTells(m)'
    <3>1. accepted[m] # << >> => accepted[m][Len(accepted[m])].at \in Nat
      BY AcceptedFacts
    <3>2. QED
      BY <1>1, <2>1, <3>1, SignatureAssumption DEF SeenTells
  <2>5. QED
    BY <1>1, <2>1, <2>3, <2>4
<1>4. QED
  BY <1>2, <1>3 DEF SignatureInv

(* consume: the nonce is kept for the skew, the others while they last.    *)
LEMMA ConsumedFacts ==
  ASSUME NEW n
  PROVE  /\ DOMAIN Consumed(n) \subseteq DOMAIN seen \cup {n}
         /\ \A m : m \in DOMAIN Consumed(n) => Consumed(n)[m] = IF m = n THEN now + Skew ELSE seen[m]
         /\ \A m \in DOMAIN seen \ {n} : m \notin DOMAIN Consumed(n) => ~(seen[m] > now)
         /\ now + Skew > now => n \in DOMAIN Consumed(n)
BY DEF Consumed, SeenWith, Restrict

LEMMA ReceivePreserves ==
  ASSUME SignatureInv, NEW r \in signed, NEW d \in Damages, Receive(r, d)
  PROVE  SignatureInv'
<1> DEFINE n == r.nonce
           new == [at |-> now, timestamp |-> r.timestamp, damage |-> d]
<1>1. CASE VerifySignedRequest(r, d) # "ok"
  <2>1. UNCHANGED <<now, signed, seen, accepted>>
    BY <1>1 DEF Receive
  <2>2. QED
    BY <2>1 DEF SignatureInv, SignatureTypeOK, NoncesAreNew, TakenRightly, SeenTells
<1>2. CASE VerifySignedRequest(r, d) = "ok"
  <2>1. d = "none" /\ ~IsStale(r.timestamp) /\ ~IsReplayed(n)
    BY <1>2, TakenPassesTheChecks
  <2>2. /\ UNCHANGED <<now, signed>> /\ seen' = Consumed(n)
        /\ accepted' = [accepted EXCEPT ![n] = Append(@, new)]
    BY <1>2 DEF Receive
  <2>3. /\ now \in Nat /\ n \in Nonces /\ r.timestamp \in Int /\ Skew \in Nat \ {0}
        /\ r = [nonce |-> n, timestamp |-> r.timestamp]
        /\ accepted \in [Nonces -> Seq(Acceptances)] /\ DOMAIN seen \subseteq Nonces
    BY SignatureAssumption DEF SignatureInv, SignatureTypeOK, SignedRequests
  <2>4. new \in Acceptances /\ new.at = now /\ new.timestamp = r.timestamp /\ new.damage = "none"
    BY <2>1, <2>3 DEF Acceptances
  <2>5. TakenRightly(n) /\ SeenTells(n) /\ Len(accepted[n]) <= 3 /\ accepted[n] \in Seq(Acceptances)
    BY <2>3, AcceptedFacts
  <2> DEFINE old == accepted[n]  len == Len(accepted[n])
  <2>6. \A i \in 1..len : /\ old[i].at \in Nat /\ old[i].timestamp = r.timestamp
                          /\ Distance(old[i].at, r.timestamp) <= Skew
                          /\ i > 1 => old[i].at - old[i - 1].at >= Skew
    <3>1. ASSUME NEW i \in 1..len
          PROVE  old[i].timestamp = r.timestamp
      <4>1. [nonce |-> n, timestamp |-> old[i].timestamp] \in signed
        BY <2>3, AcceptedFacts DEF TakenRightly
      <4>2. [nonce |-> n, timestamp |-> old[i].timestamp] = r
        BY <4>1 DEF SignatureInv, NoncesAreNew
      <4>3. QED
        BY <4>2
    <3>2. \A i \in 1..len :
            /\ old[i].at \in Nat
            /\ Distance(old[i].at, old[i].timestamp) <= Skew
            /\ i > 1 => old[i].at - old[i - 1].at >= Skew
      BY <2>3, AcceptedFacts DEF TakenRightly
    <3> HIDE DEF old
    <3>3. QED
      BY <3>1, <3>2
  <2>7. len \in Nat /\ Distance(now, r.timestamp) <= Skew
    BY <2>1, <2>3, <2>5 DEF IsStale, Distance
  <2>8. len > 0 => now - old[len].at >= Skew
    <3>1. CASE n \in DOMAIN seen
      <4>1. ~(old[len].at + Skew > now)
        BY <2>1, <2>5, <3>1 DEF SeenTells, IsReplayed
      <4>2. QED
        BY <2>3, <2>6, <2>7, <4>1
    <3>2. CASE n \notin DOMAIN seen
      BY <2>3, <2>5, <2>6, <2>7, <3>2 DEF SeenTells
    <3>3. QED
      BY <3>1, <3>2
  <2>9. len <= 2
    <3>0. len \in 0..3
      <4>1. len \in Nat /\ len <= 3
        BY <2>3, AcceptedFacts
      <4> HIDE DEF len
      <4>2. QED
        BY <4>1
    <3> HIDE DEF len
    <3> SUFFICES ASSUME len = 3
                 PROVE  FALSE
      BY <3>0
    <3>1. /\ old[1].at \in Nat /\ old[2].at \in Nat /\ old[3].at \in Nat
          /\ old[2].at - old[1].at >= Skew /\ old[3].at - old[2].at >= Skew
          /\ now - old[3].at >= Skew
      BY <2>6, <2>8
    <3>2. Distance(old[1].at, r.timestamp) <= Skew /\ Distance(now, r.timestamp) <= Skew
      BY <2>6, <2>7
    <3> DEFINE a1 == old[1].at  a2 == old[2].at  a3 == old[3].at  t == r.timestamp
    <3>3. a1 \in Nat /\ a2 \in Nat /\ a3 \in Nat /\ t \in Int
      BY <2>3, <3>1
    <3>4. a2 - a1 >= Skew /\ a3 - a2 >= Skew /\ now - a3 >= Skew
      BY <3>1
    <3>5. Distance(a1, t) <= Skew /\ Distance(now, t) <= Skew
      BY <3>2
    <3> HIDE DEF a1, a2, a3, t
    <3>6. t - a1 <= Skew /\ now - t <= Skew
      BY <2>3, <3>3, <3>5 DEF Distance
    <3>7. QED
      BY <2>3, <3>3, <3>4, <3>6
  <2>10. SignatureTypeOK' /\ NoncesAreNew'
    <3>1. DOMAIN seen' \subseteq Nonces
      BY <2>2, <2>3, ConsumedFacts
    <3>2. accepted' \in [Nonces -> Seq(Acceptances)]
      <4> HIDE DEF new
      <4>1. Append(accepted[n], new) \in Seq(Acceptances)
        BY <2>4, <2>5
      <4>2. QED
        BY <2>2, <2>3, <4>1
    <3>3. QED
      BY <2>2, <3>1, <3>2 DEF SignatureInv, SignatureTypeOK, NoncesAreNew
  <2>11. ASSUME NEW m \in Nonces
         PROVE  (TakenRightly(m) /\ SeenTells(m) /\ Len(accepted[m]) <= 3)'
    <3>1. CASE m = n
      <4> DEFINE s == Append(old, new)
      <4>1. accepted'[m] = s
        BY <2>2, <2>3, <3>1
      <4> HIDE DEF new, n
      <4>2. /\ Len(s) = len + 1 /\ s[len + 1] = new /\ DOMAIN s = 1..(len + 1)
            /\ \A i \in 1..len : s[i] = old[i]
        BY <2>4, <2>5, <2>7
      <4> HIDE DEF s
      <4>3. TakenRightly(m)'
        <5>1. ASSUME NEW i \in 1..(len + 1)
              PROVE  /\ s[i].damage = "none"
                     /\ s[i].at <= now
                     /\ [nonce |-> n, timestamp |-> s[i].timestamp] \in signed
                     /\ Distance(s[i].at, s[i].timestamp) <= Skew
                     /\ i > 1 => s[i].at - s[i - 1].at >= Skew
          <6>1. CASE i = len + 1
            <7>1. s[i] = new /\ (i > 1 => len > 0 /\ s[i - 1] = old[len])
              BY <4>2, <2>7, <6>1
            <7>2. QED
              BY <7>1, <2>3, <2>4, <2>7, <2>8
          <6>2. CASE i # len + 1
            <7>1. i \in 1..len /\ s[i] = old[i] /\ (i > 1 => s[i - 1] = old[i - 1])
              BY <4>2, <2>7, <6>2
            <7>2. i \in DOMAIN accepted[n]
              BY <7>1, <2>5
            <7>3. QED
              BY <7>1, <7>2, <2>5 DEF TakenRightly
          <6>3. QED
            BY <6>1, <6>2
        <5>2. QED
          BY <5>1, <4>1, <4>2, <2>2, <3>1 DEF TakenRightly
      <4>4. SeenTells(m)'
        <5>1. n \in DOMAIN seen' /\ seen'[n] = now + Skew
          BY <2>2, <2>3, ConsumedFacts
        <5>2. s # << >> /\ s[Len(s)].at = now
          BY <4>2, <2>4, <2>7
        <5>3. QED
          BY <5>1, <5>2, <4>1, <3>1 DEF SeenTells
      <4>5. QED
        BY <4>1, <4>2, <4>3, <4>4, <2>7, <2>9
    <3>2. CASE m # n
      <4>1. accepted'[m] = accepted[m]
        BY <2>2, <2>3, <3>2
      <4>2. TakenRightly(m) /\ SeenTells(m) /\ Len(accepted[m]) <= 3
        BY DEF SignatureInv
      <4>3. TakenRightly(m)'
        BY <2>2, <2>3, <4>1, TakenRightlyStays
      <4>4. SeenTells(m)'
        <5>1. CASE m \in DOMAIN seen'
          <6>1. m \in DOMAIN seen /\ seen'[m] = seen[m]
            BY <5>1, <2>2, <3>2, ConsumedFacts
          <6>2. QED
            BY <6>1, <5>1, <4>1, <4>2 DEF SeenTells
        <5>2. CASE m \notin DOMAIN seen' /\ m \in DOMAIN seen
          <6>1. ~(seen[m] > now)
            BY <5>2, <2>2, <3>2, ConsumedFacts
          <6>2. accepted[m] # << >> /\ seen[m] = accepted[m][Len(accepted[m])].at + Skew
            BY <5>2, <4>2 DEF SeenTells
          <6>3. accepted[m][Len(accepted[m])].at \in Nat
            BY <6>2, AcceptedFacts
          <6>4. accepted[m][Len(accepted[m])].at + Skew <= now
            BY <6>1, <6>2, <6>3, <2>3
          <6>5. QED
            BY <6>4, <5>2, <4>1, <2>2 DEF SeenTells
        <5>3. CASE m \notin DOMAIN seen' /\ m \notin DOMAIN seen
          BY <5>3, <4>1, <4>2, <2>2 DEF SeenTells
        <5>4. QED
          BY <5>1, <5>2, <5>3
      <4>5. QED
        BY <4>1, <4>2, <4>3, <4>4
    <3>3. QED
      BY <3>1, <3>2
  <2>12. QED
    BY <2>10, <2>11 DEF SignatureInv
<1>3. QED
  BY <1>1, <1>2

LEMMA SignatureNextInv == SignatureInv /\ [SignatureNext]_signatureVars => SignatureInv'
<1> SUFFICES ASSUME SignatureInv, [SignatureNext]_signatureVars
             PROVE  SignatureInv'
  OBVIOUS
<1>1. CASE \E n \in Nonces, t \in (now - Drift)..(now + Drift) : Sign(n, t)
  BY <1>1, SignPreserves
<1>2. CASE \E r \in signed, d \in Damages : Receive(r, d)
  BY <1>2, ReceivePreserves
<1>3. CASE Tick
  BY <1>3, TickPreserves
<1>4. CASE UNCHANGED signatureVars
  BY <1>4 DEF signatureVars, SignatureInv, SignatureTypeOK, NoncesAreNew, TakenRightly, SeenTells
<1>5. QED
  BY <1>1, <1>2, <1>3, <1>4 DEF SignatureNext

(* A second acceptance is a skew after the first, when a request that was  *)
(* dated before the first is stale.                                        *)
LEMMA PastIsAcceptedOnce ==
  ASSUME SignatureInv, NEW n \in Nonces, accepted[n] # << >>,
         accepted[n][1].timestamp < accepted[n][1].at
  PROVE  Len(accepted[n]) = 1
<1> DEFINE len == Len(accepted[n])
           a1 == accepted[n][1].at  a2 == accepted[n][2].at
           t1 == accepted[n][1].timestamp  t2 == accepted[n][2].timestamp
<1>1. len \in Nat /\ len > 0 /\ t1 < a1
  <2>1. accepted[n] \in Seq(Acceptances)
    BY AcceptedFacts
  <2>2. QED
    BY <2>1
<1>2. SUFFICES ASSUME len # 1 PROVE FALSE
  OBVIOUS
<1>3. 1 \in 1..len /\ 2 \in 1..len /\ DOMAIN accepted[n] = 1..len
  <2>1. DOMAIN accepted[n] = 1..len
    BY AcceptedFacts
  <2> HIDE DEF len
  <2>2. QED
    BY <1>1, <1>2, <2>1
<1>4. a1 \in Nat /\ a2 \in Nat /\ t1 \in Int /\ t2 \in Int
  BY <1>3, AcceptedFacts
<1>5. /\ [nonce |-> n, timestamp |-> t1] \in signed /\ [nonce |-> n, timestamp |-> t2] \in signed
      /\ Distance(a2, t2) <= Skew /\ a2 - a1 >= Skew
  BY <1>3, AcceptedFacts DEF TakenRightly
<1>6. t2 = t1
  <2>1. [nonce |-> n, timestamp |-> t1] = [nonce |-> n, timestamp |-> t2]
    BY <1>5 DEF SignatureInv, NoncesAreNew
  <2>2. QED
    BY <2>1
<1> HIDE DEF len, a1, a2, t1, t2
<1>7. a2 - t2 <= Skew
  BY <1>4, <1>5, SignatureAssumption DEF Distance
<1>8. QED
  BY <1>1, <1>4, <1>5, <1>6, <1>7, SignatureAssumption

(* However clocks drift and however often the network repeats a request,   *)
(* it is taken only as it was signed, while it is fresh and never twice    *)
(* within the skew, and one dated before it first arrives is taken once    *)
(* (request-signature.mjs).                                                *)
THEOREM ReplaysAreApart == SignatureSpec => []AcceptancesAreApart
<1>1. SignatureInv => AcceptancesAreApart
  BY PastIsAcceptedOnce DEF SignatureInv, TakenRightly, AcceptancesAreApart
<1>2. QED
  BY <1>1, SignatureInitInv, SignatureNextInv, PTL DEF SignatureSpec

----------------------------------------------------------------------------
(* CapabilityClient *)

(* An answer is no newer than the clock, and one about skills is about the *)
(* capabilities it was asked for.                                          *)
AnswerFits(key, a) ==
    a.status = 200 =>
        /\ a.at \in Nat /\ a.at <= clock
        /\ key[1] = "compatible" =>
              /\ a.requested = key[2]
              /\ \A i \in a.skills : Releases[a.release].skills[i] \subseteq a.requested

(* What is kept was an answer, and expires in time.                        *)
EntryFits(key, e) ==
    /\ e.answer.status = 200 /\ AnswerFits(key, e.answer)
    /\ e.expiresAt \in Nat
    /\ ~browser => e.expiresAt - e.answer.at <= TTL + Transfer

NotOlder(profile, time, age) ==
    profile.at \in Nat /\ profile.at <= time /\ (~browser => time - profile.at <= age)

ChoosesSkills(x) ==
    /\ x = [stage |-> x.stage, platform |-> x.platform, profile |-> x.profile]
    /\ NotOlder(x.profile, clock, TTL + Transfer)

Receives(x) ==
    /\ x.since \in Nat /\ x.since <= clock /\ clock - x.since <= Transfer
    /\ AnswerFits(x.key, x.answer)
    /\ ~browser /\ x.answer.status = 200 => x.answer.at = x.since
    /\ x.before.stage \in {"get_profile", "get_skills"}
    /\ x.before.stage = "get_skills" =>
          /\ x.key = SkillsKey(Asked(x.before.profile))
          /\ NotOlder(x.before.profile, x.since, TTL + Transfer)

HangsTogether(x) ==
    /\ x.skills.requested = Asked(x.profile)
    /\ \A i \in x.skills.skills :
          Releases[x.skills.release].skills[i] \subseteq Asked(x.profile)
    /\ ~browser => /\ x.at - x.profile.at <= TTL + 2 * Transfer
                   /\ x.at - x.skills.at <= TTL + Transfer

SessionFits(x) ==
    /\ x.stage \in {"skills", "get_skills"} => ChoosesSkills(x)
    /\ x.stage = "receiving" => Receives(x)
    /\ x.stage = "done" => HangsTogether(x)

(* The inductive invariant: everything that is on its way or kept has its  *)
(* age, and a session that has a profile goes on with it at once.          *)
ClientInv ==
    /\ clock \in Nat
    /\ session = [s \in Sessions |-> session[s]]
    /\ \A key \in DOMAIN kept : EntryFits(key, kept[key])
    /\ \A key \in DOMAIN http : AnswerFits(key, http[key])
    /\ \A s \in Sessions : SessionFits(session[s])

LEMMA ClientInitInv == ClientInit => ClientInv
<1> SUFFICES ASSUME ClientInit
             PROVE  ClientInv
  OBVIOUS
<1>1. session = [s \in Sessions |-> session[s]] /\ \A s \in Sessions : session[s].stage = "idle"
  BY DEF ClientInit
<1>2. DOMAIN kept = {} /\ DOMAIN http = {} /\ clock = 0
  BY DEF ClientInit, Nowhere
<1>3. QED
  BY <1>1, <1>2 DEF ClientInv, SessionFits

(* A step of one session in which no time passes.                          *)
LEMMA OneSessionChanges ==
  ASSUME ClientInv, NEW s \in Sessions, NEW x,
         session' = [session EXCEPT ![s] = x], SessionFits(x),
         UNCHANGED <<clock, browser>>,
         \A key \in DOMAIN kept' :
            EntryFits(key, kept'[key]) \/ (key \in DOMAIN kept /\ kept'[key] = kept[key]),
         \A key \in DOMAIN http' :
            AnswerFits(key, http'[key]) \/ (key \in DOMAIN http /\ http'[key] = http[key])
  PROVE  ClientInv'
<1>1. clock' \in Nat /\ session' = [r \in Sessions |-> session'[r]]
  BY DEF ClientInv
<1>2. ASSUME NEW key \in DOMAIN kept'
      PROVE  EntryFits(key, kept[key])'
  <2>1. EntryFits(key, kept'[key])
    BY DEF ClientInv
  <2>2. QED
    BY <2>1 DEF EntryFits, AnswerFits
<1>3. ASSUME NEW key \in DOMAIN http'
      PROVE  AnswerFits(key, http[key])'
  <2>1. AnswerFits(key, http'[key])
    BY DEF ClientInv
  <2>2. QED
    BY <2>1 DEF AnswerFits
<1>4. ASSUME NEW r \in Sessions
      PROVE  SessionFits(session[r])'
  <2>1. SessionFits(session'[r])
    BY DEF ClientInv
  <2>2. QED
    BY <2>1 DEF SessionFits, ChoosesSkills, Receives, HangsTogether, AnswerFits, NotOlder
<1>5. QED
  BY <1>1, <1>2, <1>3, <1>4 DEF ClientInv

LEMMA StartSessionPreserves ==
  ASSUME ClientInv, NEW s \in Sessions, NEW p, StartSession(s, p)
  PROVE  ClientInv'
<1> DEFINE x == NeedProfile(s, p)
           key == ProfileKey(p)
<1>1. session' = [session EXCEPT ![s] = x] /\ UNCHANGED <<clock, browser, kept, http>>
  BY DEF StartSession, Put
<1>2. SessionFits(x)
  <2>1. CASE Fresh(key)
    <3>1. key \in DOMAIN kept /\ clock <= kept[key].expiresAt /\ EntryFits(key, kept[key])
      BY <2>1 DEF Fresh, ClientInv
    <3>2. x = [stage |-> "skills", platform |-> p, profile |-> kept[key].answer]
      BY <2>1 DEF NeedProfile
    <3> HIDE DEF x, key
    <3>3. NotOlder(kept[key].answer, clock, TTL + Transfer)
      BY <3>1, CapabilityClientAssumption DEF EntryFits, AnswerFits, NotOlder, ClientInv
    <3>4. QED
      BY <3>2, <3>3 DEF SessionFits, ChoosesSkills
  <2>2. CASE ~Fresh(key)
    BY <2>2 DEF NeedProfile, SessionFits
  <2>3. QED
    BY <2>1, <2>2
<1> HIDE DEF x
<1>3. QED
  BY <1>1, <1>2, OneSessionChanges

LEMMA NeedSkillsPreserves ==
  ASSUME ClientInv, NEW s \in Sessions, NeedSkills(s)
  PROVE  ClientInv'
<1> DEFINE key == SkillsKey(Asked(session[s].profile))
           x == IF Fresh(key) THEN Done(s, kept[key].answer)
                ELSE [session[s] EXCEPT !.stage = "get_skills"]
<1>1. /\ session[s].stage = "skills" /\ UNCHANGED <<clock, browser, kept, http>>
      /\ session' = [session EXCEPT ![s] = x]
  BY DEF NeedSkills, Put, SessionAt
<1>2. ChoosesSkills(session[s])
  BY <1>1 DEF ClientInv, SessionFits
<1>3. SessionFits(x)
  <2>1. CASE Fresh(key)
    <3>1. key \in DOMAIN kept /\ clock <= kept[key].expiresAt /\ EntryFits(key, kept[key])
      BY <2>1 DEF Fresh, ClientInv
    <3>2. /\ x.stage = "done" /\ x.profile = session[s].profile
          /\ x.skills = kept[key].answer /\ x.at = clock
      BY <2>1 DEF Done
    <3>3. key[1] = "compatible" /\ key[2] = Asked(session[s].profile)
      BY DEF SkillsKey
    <3> HIDE DEF x, key
    <3>4. HangsTogether(x)
      <4>1. /\ x.skills.requested = Asked(x.profile)
            /\ \A i \in x.skills.skills :
                  Releases[x.skills.release].skills[i] \subseteq Asked(x.profile)
        BY <3>1, <3>2, <3>3 DEF EntryFits, AnswerFits
      <4>2. ASSUME ~browser
            PROVE  /\ x.at - x.profile.at <= TTL + 2 * Transfer
                   /\ x.at - x.skills.at <= TTL + Transfer
        BY <4>2, <1>2, <3>1, <3>2, CapabilityClientAssumption
           DEF EntryFits, AnswerFits, ChoosesSkills, NotOlder, ClientInv
      <4>3. QED
        BY <4>1, <4>2 DEF HangsTogether
    <3>5. QED
      BY <3>2, <3>4 DEF SessionFits
  <2>2. CASE ~Fresh(key)
    <3>1. x = [session[s] EXCEPT !.stage = "get_skills"]
      BY <2>2
    <3> HIDE DEF x, key
    <3>2. /\ x = [stage |-> "get_skills", platform |-> session[s].platform,
                  profile |-> session[s].profile]
      BY <3>1, <1>2 DEF ChoosesSkills
    <3>3. ChoosesSkills(x)
      BY <3>2, <1>2 DEF ChoosesSkills
    <3>4. QED
      BY <3>2, <3>3 DEF SessionFits
  <2>3. QED
    BY <2>1, <2>2
<1> HIDE DEF x
<1>4. QED
  BY <1>1, <1>3, OneSessionChanges

(* What the Worker answers, and what a browser kept of it, fits.           *)
LEMMA WorkerAnswersFit ==
  ASSUME ClientInv
  PROVE  /\ \A p : AnswerFits(ProfileKey(p), HandleCapabilitiesForPlatform(p))
         /\ \A caps : AnswerFits(SkillsKey(caps), HandleSkillsCompatible(caps))
         /\ \A p : HandleCapabilitiesForPlatform(p).status = 200
                     => HandleCapabilitiesForPlatform(p).at = clock
         /\ \A caps : HandleSkillsCompatible(caps).status = 200
                     => HandleSkillsCompatible(caps).at = clock
<1>1. ASSUME NEW p
      PROVE  LET a == HandleCapabilitiesForPlatform(p)
             IN  AnswerFits(ProfileKey(p), a) /\ (a.status = 200 => a.at = clock)
  BY DEF HandleCapabilitiesForPlatform, AnswerFits, ProfileKey, ClientInv
<1>2. ASSUME NEW caps
      PROVE  LET a == HandleSkillsCompatible(caps)
             IN  AnswerFits(SkillsKey(caps), a) /\ (a.status = 200 => a.at = clock)
  BY DEF HandleSkillsCompatible, AnswerFits, SkillsKey, ClientInv
<1>3. QED
  BY <1>1, <1>2

LEMMA FetchedPreserves ==
  ASSUME ClientInv, NEW s \in Sessions, NEW key, NEW fromWorker,
         AnswerFits(key, fromWorker), fromWorker.status = 200 => fromWorker.at = clock,
         session[s].stage \in {"get_profile", "get_skills"},
         session[s].stage = "get_skills" => key = SkillsKey(Asked(session[s].profile)),
         Fetched(s, key, fromWorker)
  PROVE  ClientInv'
<1> DEFINE answer == IF browser /\ key \in DOMAIN http THEN http[key] ELSE fromWorker
           x == [stage |-> "receiving", key |-> key, answer |-> answer, since |-> clock,
                 before |-> session[s]]
<1>1. /\ session' = [session EXCEPT ![s] = x] /\ UNCHANGED <<clock, browser, kept>>
      /\ http' = IF browser /\ answer.status = 200 THEN With(http, key, answer) ELSE http
  BY DEF Fetched, Put
<1>2. AnswerFits(key, answer) /\ (~browser /\ answer.status = 200 => answer.at = clock)
  BY DEF ClientInv
<1>3. /\ x.stage = "receiving" /\ x.key = key /\ x.answer = answer
      /\ x.since = clock /\ x.before = session[s]
  OBVIOUS
<1> HIDE DEF x, answer
<1>4. Receives(x)
  <2>1. session[s].stage = "get_skills" => NotOlder(session[s].profile, clock, TTL + Transfer)
    BY DEF ClientInv, SessionFits, ChoosesSkills
  <2>2. x.since \in Nat /\ x.since <= clock /\ clock - x.since <= Transfer
    BY <1>3, CapabilityClientAssumption DEF ClientInv
  <2>3. QED
    BY <1>2, <1>3, <2>1, <2>2 DEF Receives
<1>5. SessionFits(x)
  BY <1>3, <1>4 DEF SessionFits
<1>6. \A k \in DOMAIN http' :
         AnswerFits(k, http'[k]) \/ (k \in DOMAIN http /\ http'[k] = http[k])
  BY <1>1, <1>2 DEF With
<1>7. QED
  BY <1>1, <1>5, <1>6, OneSessionChanges

LEMMA GetPreserves ==
  ASSUME ClientInv, NEW s \in Sessions, GetProfile(s) \/ GetSkills(s)
  PROVE  ClientInv'
<1>1. CASE GetProfile(s)
  <2> DEFINE p == session[s].platform
  <2>1. session[s].stage = "get_profile"
        /\ Fetched(s, ProfileKey(p), HandleCapabilitiesForPlatform(p))
    BY <1>1 DEF GetProfile, SessionAt
  <2>2. /\ AnswerFits(ProfileKey(p), HandleCapabilitiesForPlatform(p))
        /\ HandleCapabilitiesForPlatform(p).status = 200
             => HandleCapabilitiesForPlatform(p).at = clock
    BY WorkerAnswersFit
  <2> HIDE DEF p
  <2>3. QED
    BY <2>1, <2>2, FetchedPreserves
<1>2. CASE GetSkills(s)
  <2> DEFINE caps == Asked(session[s].profile)
  <2>1. session[s].stage = "get_skills"
        /\ Fetched(s, SkillsKey(caps), HandleSkillsCompatible(caps))
    BY <1>2 DEF GetSkills, SessionAt
  <2>2. /\ AnswerFits(SkillsKey(caps), HandleSkillsCompatible(caps))
        /\ HandleSkillsCompatible(caps).status = 200 => HandleSkillsCompatible(caps).at = clock
    BY WorkerAnswersFit
  <2>3. QED
    BY <2>1, <2>2, FetchedPreserves
<1>3. QED
  BY <1>1, <1>2

LEMMA ReceiveAnswerPreserves ==
  ASSUME ClientInv, NEW s \in Sessions, NEW stored \in BOOLEAN, ReceiveAnswer(s, stored)
  PROVE  ClientInv'
<1> DEFINE got == session[s]
           entry == [answer |-> got.answer, expiresAt |-> clock + TTL]
           x == IF got.before.stage = "get_profile"
                THEN [stage |-> "skills", platform |-> got.before.platform,
                      profile |-> got.answer]
                ELSE [stage |-> "done", profile |-> got.before.profile,
                      skills |-> got.answer, at |-> clock]
<1>1. /\ got.stage = "receiving" /\ got.answer.status = 200
      /\ kept' = IF stored THEN With(kept, got.key, entry) ELSE kept
      /\ session' = [session EXCEPT ![s] = x] /\ UNCHANGED <<clock, browser, http>>
  BY DEF ReceiveAnswer, SessionAt, Put
<1>2. Receives(got) /\ clock \in Nat
  BY <1>1 DEF ClientInv, SessionFits
<1> HIDE DEF got
<1>3. /\ got.answer.at \in Nat /\ got.answer.at <= clock
      /\ ~browser => clock - got.answer.at <= Transfer
  BY <1>1, <1>2 DEF Receives, AnswerFits
<1>4. EntryFits(got.key, entry)
  <2>1. entry.answer = got.answer /\ entry.expiresAt = clock + TTL
    OBVIOUS
  <2>2. entry.expiresAt \in Nat
    BY <1>2, <2>1, CapabilityClientAssumption
  <2> HIDE DEF entry
  <2>3. ~browser => entry.expiresAt - entry.answer.at <= TTL + Transfer
    BY <1>2, <1>3, <2>1, CapabilityClientAssumption
  <2>4. QED
    BY <1>1, <1>2, <2>1, <2>2, <2>3 DEF EntryFits, Receives
<1>5. SessionFits(x)
  <2>1. CASE got.before.stage = "get_profile"
    <3>1. x = [stage |-> "skills", platform |-> got.before.platform, profile |-> got.answer]
      BY <2>1
    <3> HIDE DEF x
    <3>2. NotOlder(got.answer, clock, TTL + Transfer)
      BY <1>2, <1>3, CapabilityClientAssumption DEF NotOlder
    <3>3. QED
      BY <3>1, <3>2 DEF SessionFits, ChoosesSkills
  <2>2. CASE got.before.stage # "get_profile"
    <3>1. /\ x.stage = "done" /\ x.profile = got.before.profile
          /\ x.skills = got.answer /\ x.at = clock
      BY <2>2
    <3>2. /\ got.key = SkillsKey(Asked(got.before.profile))
          /\ NotOlder(got.before.profile, got.since, TTL + Transfer)
      BY <1>2, <2>2 DEF Receives
    <3> HIDE DEF x
    <3>3. /\ x.skills.requested = Asked(x.profile)
          /\ \A i \in x.skills.skills :
                Releases[x.skills.release].skills[i] \subseteq Asked(x.profile)
      <4>1. got.key[1] = "compatible" /\ got.key[2] = Asked(got.before.profile)
        BY <3>2 DEF SkillsKey
      <4>2. QED
        BY <1>1, <1>2, <3>1, <4>1 DEF Receives, AnswerFits
    <3>4. ASSUME ~browser
          PROVE  /\ x.at - x.profile.at <= TTL + 2 * Transfer
                 /\ x.at - x.skills.at <= TTL + Transfer
      <4>1. /\ got.since \in Nat /\ clock - got.since <= Transfer
            /\ got.before.profile.at \in Nat
            /\ got.since - got.before.profile.at <= TTL + Transfer
        BY <3>2, <3>4, <1>2 DEF NotOlder, Receives
      <4>2. clock - got.before.profile.at <= TTL + 2 * Transfer
        BY <4>1, <1>2, CapabilityClientAssumption
      <4>3. clock - got.answer.at <= TTL + Transfer
        BY <3>4, <1>2, <1>3, CapabilityClientAssumption
      <4>4. QED
        BY <3>1, <4>2, <4>3
    <3>5. QED
      BY <3>1, <3>3, <3>4 DEF SessionFits, HangsTogether
  <2>3. QED
    BY <2>1, <2>2
<1>6. \A key \in DOMAIN kept' :
         EntryFits(key, kept'[key]) \/ (key \in DOMAIN kept /\ kept'[key] = kept[key])
  <2> HIDE DEF entry
  <2>1. QED
    BY <1>1, <1>4 DEF With
<1> HIDE DEF x
<1>7. QED
  BY <1>1, <1>5, <1>6, OneSessionChanges

LEMMA FailurePreserves ==
  ASSUME ClientInv, NEW s \in Sessions, Refused(s) \/ Unreachable(s)
  PROVE  ClientInv'
<1>1. PICK code : /\ session' = [session EXCEPT ![s] = [stage |-> "failed", code |-> code]]
                  /\ UNCHANGED <<clock, browser, kept, http>>
  BY DEF Refused, Unreachable, Put
<1> DEFINE x == [stage |-> "failed", code |-> code]
<1>2. SessionFits(x)
  BY DEF SessionFits
<1> HIDE DEF x
<1>3. session' = [session EXCEPT ![s] = x]
  BY <1>1 DEF x
<1>4. QED
  BY <1>1, <1>2, <1>3, OneSessionChanges

LEMMA TimePassesPreserves ==
  ASSUME ClientInv, TimePasses
  PROVE  ClientInv'
<1>1. /\ clock \in Nat /\ clock' = clock + 1 /\ UNCHANGED <<browser, kept, http, session>>
      /\ \A s \in Sessions :
            /\ session[s].stage \notin {"get_profile", "skills", "get_skills"}
            /\ session[s].stage = "receiving" => clock - session[s].since < Transfer
  BY DEF TimePasses, ClientInv, SessionAt
<1>2. ASSUME NEW key, NEW a, AnswerFits(key, a)
      PROVE  AnswerFits(key, a)'
  BY <1>1, <1>2 DEF AnswerFits
<1>3. ASSUME NEW key \in DOMAIN kept
      PROVE  EntryFits(key, kept[key])'
  <2>1. EntryFits(key, kept[key])
    BY DEF ClientInv
  <2>2. QED
    BY <1>1, <1>2, <2>1 DEF EntryFits
<1>4. ASSUME NEW s \in Sessions
      PROVE  SessionFits(session[s])'
  <2>1. SessionFits(session[s])
    BY DEF ClientInv
  <2>2. CASE session[s].stage = "receiving"
    <3>1. Receives(session[s])
      BY <2>1, <2>2 DEF SessionFits
    <3>2. /\ session[s].since \in Nat /\ session[s].since <= clock'
          /\ clock' - session[s].since <= Transfer
      BY <1>1, <2>2, <3>1, CapabilityClientAssumption DEF Receives
    <3>3. Receives(session[s])'
      BY <1>1, <1>2, <3>1, <3>2 DEF Receives, NotOlder
    <3>4. QED
      BY <1>1, <2>2, <3>3 DEF SessionFits
  <2>3. CASE session[s].stage # "receiving"
    BY <1>1, <2>1, <2>3 DEF SessionFits, HangsTogether
  <2>4. QED
    BY <2>2, <2>3
<1>5. \A key \in DOMAIN http : AnswerFits(key, http[key])'
  BY <1>1, <1>2 DEF ClientInv
<1>6. QED
  BY <1>1, <1>3, <1>4, <1>5 DEF ClientInv

LEMMA ClientStutterPreserves ==
  ASSUME ClientInv, UNCHANGED <<clock, browser, kept, http, session>>
  PROVE  ClientInv'
BY DEF ClientInv, EntryFits, SessionFits, ChoosesSkills, Receives, HangsTogether,
       AnswerFits, NotOlder

LEMMA ClientNextInv == ClientInv /\ [ClientNext]_clientVars => ClientInv'
<1> SUFFICES ASSUME ClientInv, [ClientNext]_clientVars
             PROVE  ClientInv'
  OBVIOUS
<1>1. ASSUME NEW s \in Sessions,
             \/ \E p \in Platforms : StartSession(s, p)
             \/ NeedSkills(s) \/ GetProfile(s) \/ GetSkills(s)
             \/ \E stored \in BOOLEAN : ReceiveAnswer(s, stored)
             \/ Refused(s) \/ Unreachable(s)
      PROVE  ClientInv'
  BY <1>1, StartSessionPreserves, NeedSkillsPreserves, GetPreserves, ReceiveAnswerPreserves,
     FailurePreserves
<1>2. CASE Release
  BY <1>2, ClientStutterPreserves DEF Release
<1>3. CASE TimePasses
  BY <1>3, TimePassesPreserves
<1>4. CASE UNCHANGED clientVars
  BY <1>4, ClientStutterPreserves DEF clientVars
<1>5. QED
  BY <1>1, <1>2, <1>3, <1>4 DEF ClientNext

(* Whatever was cached when, and whenever the Worker is released: the      *)
(* skills a session starts with were chosen for its profile's capabilities *)
(* by one release, and outside a browser neither is older than it may be   *)
(* (capabilities-client.mjs).                                              *)
THEOREM SessionsFit == ClientSpec => []SessionsHangTogether
<1>1. ClientInv => SessionsHangTogether
  BY DEF ClientInv, SessionFits, HangsTogether, SessionsHangTogether, SessionAt
<1>2. QED
  BY <1>1, ClientInitInv, ClientNextInv, PTL DEF ClientSpec

----------------------------------------------------------------------------
(* Observability *)

ObservabilitySpec == ObservabilityInit /\ [][ObservabilityNext]_observabilityVars

ReportStates ==
    [stage : {"idle", "record", "meta", "latest", "read_index"}]
        \cup [stage : {"put_index"}, read : Seq(RunIds)]
        \cup [stage : {"answered"}, answer : {"201", "not_recorded"}]

ObservabilityTypes ==
    /\ report \in [Reports -> ReportStates]
    /\ record \in [RunIds -> {Unwritten} \cup {ContentOf[r] : r \in Reports}]
    /\ meta \in [RunIds -> {Unwritten} \cup {BuildRunSummary(ContentOf[r]) : r \in Reports}]
    /\ latest \in {<< >>} \cup {<<i>> : i \in RunIds}
    /\ index \in Seq(RunIds) /\ puts \in Seq(RunIds)
    /\ shared \in [index : BOOLEAN, run : SUBSET RunIds]

(* A run is listed, and is the latest, after its record and its summary    *)
(* have been written, and these stay.                                      *)
IsStored(i) == record[i] # Unwritten /\ meta[i] # Unwritten

Listable(ids) == Len(ids) <= MAX_INDEX_SIZE /\ \A k \in 1..Len(ids) : IsStored(ids[k])

ReportIsInOrder(r) ==
    /\ ReportAt(r, "meta") => record[Run(r)] # Unwritten
    /\ report[r].stage \in {"latest", "read_index", "put_index"} => IsStored(Run(r))
    /\ ReportAt(r, "put_index") => Listable(report[r].read)

WritesAreInOrder ==
    /\ \A r \in Reports : ReportIsInOrder(r)
    /\ \A i \in RunIds : meta[i] # Unwritten => record[i] # Unwritten
    /\ latest # << >> => IsStored(latest[1])
    /\ Listable(index)

(* While reports take turns, each has read the index as it is.             *)
Distinct(ids) == \A j, k \in 1..Len(ids) : ids[j] = ids[k] => j = k

Occurs(id, ids) == \E k \in 1..Len(ids) : ids[k] = id

HistoryIsKept ==
    /\ Distinct(puts)
    /\ \A r \in Reports : ReportAt(r, "answered") /\ report[r].answer = "201" =>
          Occurs(Run(r), puts)
    /\ ~shared.index =>
          /\ index = UpTo(MAX_INDEX_SIZE, puts)
          /\ \A r \in Reports : ReportAt(r, "put_index") =>
                /\ report[r].read = index
                /\ \A s \in Reports : ReportAt(s, "put_index") => s = r

(* A run that only one report writes at a time has a summary of its record,*)
(* except between the two puts.                                            *)
RunAgrees(i) ==
    /\ \A r, s \in Reports :
          Writing(r) /\ Writing(s) /\ Run(r) = i /\ Run(s) = i => r = s
    /\ \A r \in Reports : ReportAt(r, "meta") /\ Run(r) = i => record[i] = ContentOf[r]
    /\ meta[i] # Unwritten /\ (\A r \in Reports : Run(r) = i => ~ReportAt(r, "meta")) =>
          \E r \in Reports :
              record[i] = ContentOf[r] /\ meta[i] = BuildRunSummary(ContentOf[r])

ObservabilityInv ==
    /\ ObservabilityTypes
    /\ WritesAreInOrder
    /\ HistoryIsKept
    /\ \A i \in RunIds \ shared.run : RunAgrees(i)

(* The list cut to its first entries. *)
LEMMA UpToFacts ==
  ASSUME NEW S, NEW ids \in Seq(S), NEW n \in Nat
  PROVE  LET cut == UpTo(n, ids)
         IN  /\ cut \in Seq(S) /\ Len(cut) \in Nat /\ Len(cut) <= n
             /\ Len(cut) = IF Len(ids) < n THEN Len(ids) ELSE n
             /\ \A k \in 1..Len(cut) : k \in 1..Len(ids) /\ cut[k] = ids[k]
             /\ Len(ids) <= n => cut = ids
<1> DEFINE len == IF Len(ids) < n THEN Len(ids) ELSE n
<1>1. Len(ids) \in Nat /\ len \in 0..Len(ids) /\ len <= n
  OBVIOUS
<1> HIDE DEF len
<1>2. PICK cut : cut = SubSeq(ids, 1, len)
  OBVIOUS
<1>3. /\ cut \in Seq(S) /\ Len(cut) = len
      /\ \A k \in 1..len : cut[k] = ids[k]
  BY <1>1, <1>2
<1>4. Len(ids) <= n => cut = ids
  <2>1. ASSUME Len(ids) <= n PROVE len = Len(ids)
    BY <1>1, <2>1 DEF len
  <2>2. QED
    BY <2>1, <1>3, SameSequence
<1>5. UpTo(n, ids) = cut
  BY <1>2 DEF UpTo, len
<1>6. len = IF Len(ids) < n THEN Len(ids) ELSE n
  BY DEF len
<1>7. QED
  BY <1>1, <1>3, <1>4, <1>5, <1>6

(* A run that is put in front is there once, and pushes nothing else out.  *)
LEMMA InFrontFacts ==
  ASSUME NEW S, NEW id \in S, NEW ids \in Seq(S)
  PROVE  LET list == InFront(id, ids)
         IN  /\ list \in Seq(S) /\ Len(list) = Len(Others(id, ids)) + 1
             /\ Others(id, ids) \in Seq(S)
             /\ \A k \in 1..Len(list) :
                   list[k] = IF k = 1 THEN id ELSE Others(id, ids)[k - 1]
             /\ Occurs(id, list)
             /\ \A k \in 1..Len(list) : list[k] = id \/ Occurs(list[k], ids)
             /\ \A i : Occurs(i, ids) => Occurs(i, list)
             /\ Distinct(ids) => Distinct(list)
<1>1. DOMAIN ids = 1..Len(ids) /\ Len(ids) \in Nat
  OBVIOUS
<1>2. PICK positions : positions = {n \in DOMAIN ids : ids[n] # id}
  OBVIOUS
<1>3. PICK others : others = SelectAt(ids, positions)
  OBVIOUS
<1>4. /\ others \in Seq(S)
      /\ \A k \in 1..Len(others) :
            \E i \in positions \cap 1..Len(ids) : others[k] = ids[i]
      /\ \A i \in positions \cap 1..Len(ids) :
            \E k \in 1..Len(others) : others[k] = ids[i]
      /\ (\A i, j \in 1..Len(ids) : ids[i] = ids[j] => i = j) =>
            \A i, j \in 1..Len(others) : others[i] = others[j] => i = j
  <2>1. others \in Seq(S) /\ Selects(others, ids, positions)
    BY <1>3, SelectAtElements
  <2>2. QED
    BY <2>1 DEF Selects
<1>5. /\ Others(id, ids) = others /\ InFront(id, ids) = <<id>> \o others
  BY <1>2, <1>3 DEF Others, InFront
<1>6. PICK list : list = <<id>> \o others
  OBVIOUS
<1>7. /\ list \in Seq(S) /\ Len(list) = Len(others) + 1 /\ Len(others) \in Nat
      /\ \A k \in 1..Len(list) : list[k] = IF k = 1 THEN id ELSE others[k - 1]
  BY <1>4, <1>6
<1>8. \A k \in 1..Len(others) : others[k] # id /\ Occurs(others[k], ids)
  BY <1>2, <1>4 DEF Occurs
<1>9. \A k \in 1..Len(list) : list[k] = id \/ Occurs(list[k], ids)
  <2>1. ASSUME NEW k \in 1..Len(list), k # 1 PROVE k - 1 \in 1..Len(others)
    BY <1>7, <2>1
  <2>2. QED
    BY <1>7, <1>8, <2>1
<1>10. Occurs(id, list)
  BY <1>7 DEF Occurs
<1>11. ASSUME NEW i, Occurs(i, ids) PROVE Occurs(i, list)
  <2>1. PICK n \in 1..Len(ids) : ids[n] = i
    BY <1>11 DEF Occurs
  <2>2. CASE i = id
    BY <1>10, <2>2
  <2>3. CASE i # id
    <3>1. n \in positions \cap 1..Len(ids)
      BY <1>1, <1>2, <2>1, <2>3
    <3>2. PICK k \in 1..Len(others) : others[k] = i
      BY <1>4, <2>1, <3>1
    <3>3. k + 1 \in 1..Len(list) /\ list[k + 1] = i
      BY <1>7, <3>2
    <3>4. QED
      BY <3>3 DEF Occurs
  <2>4. QED
    BY <2>2, <2>3
<1>12. ASSUME Distinct(ids), NEW j \in 1..Len(list), NEW k \in 1..Len(list),
              list[j] = list[k]
       PROVE  j = k
  <2>1. \A a, b \in 1..Len(others) : others[a] = others[b] => a = b
    BY <1>4, <1>12 DEF Distinct
  <2>2. CASE j = 1 /\ k = 1
    BY <2>2
  <2>3. CASE j # 1 /\ k # 1
    <3>1. j - 1 \in 1..Len(others) /\ k - 1 \in 1..Len(others)
      BY <1>7, <1>12, <2>3
    <3>2. others[j - 1] = others[k - 1]
      BY <1>7, <1>12, <2>3
    <3>3. j - 1 = k - 1
      BY <2>1, <3>1, <3>2
    <3>4. QED
      BY <1>7, <3>3
  <2>4. CASE j = 1 /\ k # 1
    <3>1. k - 1 \in 1..Len(others)
      BY <1>7, <1>12, <2>4
    <3>2. QED
      BY <1>7, <1>8, <1>12, <2>4, <3>1
  <2>5. CASE j # 1 /\ k = 1
    <3>1. j - 1 \in 1..Len(others)
      BY <1>7, <1>12, <2>5
    <3>2. QED
      BY <1>7, <1>8, <1>12, <2>5, <3>1
  <2>6. QED
    BY <2>2, <2>3, <2>4, <2>5
<1>13. Distinct(ids) => Distinct(list)
  BY <1>12 DEF Distinct
<1>14. QED
  BY <1>4, <1>5, <1>6, <1>7, <1>9, <1>10, <1>11, <1>13

(* It makes no difference to the first entries whether the list was cut    *)
(* before another run was put in front.                                    *)
LEMMA CutAgain ==
  ASSUME NEW S, NEW id \in S, NEW ids \in Seq(S), NEW n \in Nat \ {0}, Distinct(ids)
  PROVE  UpTo(n, InFront(id, UpTo(n, ids))) = UpTo(n, InFront(id, ids))
<1>1. Len(ids) \in Nat /\ DOMAIN ids = 1..Len(ids)
  OBVIOUS
<1>2. CASE Len(ids) <= n
  <2>1. UpTo(n, ids) = ids
    BY <1>2, UpToFacts
  <2>2. QED
    BY <2>1
<1>3. CASE Len(ids) > n
  <2>1. PICK head : head = UpTo(n, ids)
    OBVIOUS
  <2>2. /\ head \in Seq(S) /\ Len(head) = n
        /\ \A k \in 1..n : k \in 1..Len(ids) /\ head[k] = ids[k]
    BY <1>1, <1>3, <2>1, UpToFacts
  <2>3. DOMAIN head = 1..n /\ n \in 0..Len(ids)
    BY <1>1, <1>3, <2>2
  <2>4. PICK few, all : /\ few = {k \in DOMAIN head : head[k] # id}
                        /\ all = {k \in DOMAIN ids : ids[k] # id}
    OBVIOUS
  <2>5. few \cap 1..n = all \cap 1..n
    BY <1>1, <2>2, <2>3, <2>4
  <2>6. PICK a, b : a = SelectAt(head, few) /\ b = SelectAt(ids, all)
    OBVIOUS
  <2>7. a \in Seq(S) /\ b \in Seq(S) /\ Len(a) <= Len(b) /\ \A k \in 1..Len(a) : b[k] = a[k]
    <3>1. a \in Seq(S) /\ b \in Seq(S) /\ Begins(a, b)
      BY <2>2, <2>3, <2>5, <2>6, SelectAtOfBeginning
    <3>2. QED
      BY <3>1 DEF Begins
  <2>8. Len(a) >= n - 1
    <3>1. PICK p : few \cap 1..n = (1..n) \ {p}
      <4>1. CASE \E p \in 1..n : head[p] = id
        <5>1. PICK p \in 1..n : head[p] = id
          BY <4>1
        <5>2. \A k \in 1..n : k \in few <=> k # p
          <6>1. ASSUME NEW k \in 1..n, head[k] = id PROVE k = p
            BY <2>2, <5>1, <6>1 DEF Distinct
          <6>2. QED
            BY <2>3, <2>4, <5>1, <6>1
        <5>3. QED
          BY <5>2
      <4>2. CASE \A p \in 1..n : head[p] # id
        <5>1. few \cap 1..n = (1..n) \ {0}
          BY <2>3, <2>4, <4>2
        <5>2. QED
          BY <5>1
      <4>3. QED
        BY <4>1, <4>2
    <3>2. Len(SelectAt(head, few)) = IF p \in 1..n THEN n - 1 ELSE n
      BY <2>2, <3>1, SelectAtLeavesOne
    <3>3. QED
      BY <2>6, <3>2
  <2>9. PICK x, y : x = InFront(id, head) /\ y = InFront(id, ids)
    OBVIOUS
  <2>10. Others(id, head) = a /\ Others(id, ids) = b
    BY <2>4, <2>6 DEF Others
  <2>11. /\ x \in Seq(S) /\ Len(x) = Len(a) + 1
         /\ \A k \in 1..Len(x) : x[k] = IF k = 1 THEN id ELSE a[k - 1]
         /\ y \in Seq(S) /\ Len(y) = Len(b) + 1
         /\ \A k \in 1..Len(y) : y[k] = IF k = 1 THEN id ELSE b[k - 1]
    BY <2>2, <2>9, <2>10, InFrontFacts
  <2>12. Len(a) \in Nat /\ Len(b) \in Nat /\ Len(x) >= n /\ Len(y) >= n
    BY <2>7, <2>8, <2>11
  <2>13. PICK u, v : u = UpTo(n, x) /\ v = UpTo(n, y)
    OBVIOUS
  <2>14. /\ u \in Seq(S) /\ Len(u) = n /\ \A k \in 1..n : k \in 1..Len(x) /\ u[k] = x[k]
         /\ v \in Seq(S) /\ Len(v) = n /\ \A k \in 1..n : k \in 1..Len(y) /\ v[k] = y[k]
    <3>1. u \in Seq(S) /\ Len(u) = n /\ \A k \in 1..n : k \in 1..Len(x) /\ u[k] = x[k]
      BY <2>11, <2>12, <2>13, UpToFacts
    <3>2. v \in Seq(S) /\ Len(v) = n /\ \A k \in 1..n : k \in 1..Len(y) /\ v[k] = y[k]
      BY <2>11, <2>12, <2>13, UpToFacts
    <3>3. QED
      BY <3>1, <3>2
  <2>15. ASSUME NEW k \in 1..n PROVE u[k] = v[k]
    <3>1. u[k] = x[k] /\ v[k] = y[k] /\ k \in 1..Len(x) /\ k \in 1..Len(y)
      BY <2>14
    <3>2. CASE k = 1
      BY <2>11, <3>1, <3>2
    <3>3. CASE k # 1
      <4>1. k - 1 \in 1..Len(a)
        BY <2>11, <2>12, <3>1, <3>3
      <4>2. QED
        BY <2>7, <2>11, <3>1, <3>3, <4>1
    <3>4. QED
      BY <3>2, <3>3
  <2>16. u = v
    BY <2>14, <2>15, SameSequence
  <2>17. QED
    BY <2>1, <2>9, <2>13, <2>16
<1>4. QED
  BY <1>1, <1>2, <1>3

(* A report moves on, alone.                                               *)
Moves(r, x) ==
    /\ x \in ReportStates /\ report' \in [Reports -> ReportStates]
    /\ report'[r] = x
    /\ \A s \in Reports : s # r => report'[s] = report[s]

LEMMA ReportMoves ==
  ASSUME ObservabilityTypes, NEW r \in Reports
  PROVE  /\ \A d, b : Emit(r, d, b) =>
                \/ Moves(r, [stage |-> "answered", answer |-> "not_recorded"])
                   /\ UNCHANGED shared
                \/ /\ Moves(r, [stage |-> "record"])
                   /\ shared' = [shared EXCEPT !.run = @ \cup SharedRuns(r)]
         /\ PutRecord(r) => Moves(r, [stage |-> "meta"])
         /\ PutMeta(r) => Moves(r, [stage |-> "latest"])
         /\ PutLatest(r) => Moves(r, [stage |-> "read_index"])
         /\ ReadIndex(r) => Moves(r, [stage |-> "put_index", read |-> index])
         /\ PutIndex(r) => Moves(r, [stage |-> "answered", answer |-> "201"])
         /\ StorageFails(r) => Moves(r, [stage |-> "answered", answer |-> "not_recorded"])
<1>0. report \in [Reports -> ReportStates] /\ index \in Seq(RunIds)
  BY DEF ObservabilityTypes
<1>1. ASSUME NEW x \in ReportStates, report' = [report EXCEPT ![r] = x]
      PROVE  Moves(r, x)
  BY <1>0, <1>1 DEF Moves
<1>2. ASSUME NEW stage \in {"meta", "latest", "read_index"}, Step(r, stage),
             report[r].stage \in {"record", "meta", "latest"}
      PROVE  Moves(r, [stage |-> stage])
  <2>1. report[r] \in [stage : {"idle", "record", "meta", "latest", "read_index"}]
    BY <1>0, <1>2 DEF ReportStates
  <2>2. [report[r] EXCEPT !.stage = stage] = [stage |-> stage]
    BY <2>1
  <2>3. [stage |-> stage] \in ReportStates
    BY DEF ReportStates
  <2>4. QED
    BY <1>1, <1>2, <2>2, <2>3 DEF Step
<1>3. /\ [stage |-> "record"] \in ReportStates
      /\ [stage |-> "put_index", read |-> index] \in ReportStates
      /\ [stage |-> "answered", answer |-> "201"] \in ReportStates
      /\ [stage |-> "answered", answer |-> "not_recorded"] \in ReportStates
  BY <1>0 DEF ReportStates
<1> HIDE DEF ReportStates, Moves
<1>4. ASSUME NEW d, NEW b, Emit(r, d, b)
      PROVE  \/ Moves(r, [stage |-> "answered", answer |-> "not_recorded"])
                /\ UNCHANGED shared
             \/ /\ Moves(r, [stage |-> "record"])
                /\ shared' = [shared EXCEPT !.run = @ \cup SharedRuns(r)]
  BY <1>1, <1>3, <1>4 DEF Emit
<1>5. PutRecord(r) => Moves(r, [stage |-> "meta"])
  BY <1>2 DEF PutRecord, ReportAt
<1>6. PutMeta(r) => Moves(r, [stage |-> "latest"])
  BY <1>2 DEF PutMeta, ReportAt
<1>7. PutLatest(r) => Moves(r, [stage |-> "read_index"])
  BY <1>2 DEF PutLatest, ReportAt
<1>8. ReadIndex(r) => Moves(r, [stage |-> "put_index", read |-> index])
  BY <1>1, <1>3 DEF ReadIndex
<1>9. PutIndex(r) => Moves(r, [stage |-> "answered", answer |-> "201"])
  BY <1>1, <1>3 DEF PutIndex
<1>10. StorageFails(r) => Moves(r, [stage |-> "answered", answer |-> "not_recorded"])
  BY <1>1, <1>3 DEF StorageFails
<1>11. QED
  BY <1>4, <1>5, <1>6, <1>7, <1>8, <1>9, <1>10

(* The ways an observability step goes.                                    *)
LEMMA ObservabilitySteps ==
  ASSUME [ObservabilityNext]_observabilityVars
  PROVE  \/ \E r \in Reports :
              \/ \E d, b : Emit(r, d, b)
              \/ PutRecord(r) \/ PutMeta(r) \/ PutLatest(r) \/ ReadIndex(r) \/ PutIndex(r)
              \/ StorageFails(r)
         \/ UNCHANGED <<report, record, meta, latest, index, puts, shared>>
BY DEF ObservabilityNext, PutSettings, observabilityVars

LEMMA ReadIsAList ==
  ASSUME ObservabilityTypes, NEW r \in Reports, ReportAt(r, "put_index")
  PROVE  report[r].read \in Seq(RunIds)
BY DEF ObservabilityTypes, ReportStates, ReportAt

LEMMA ObservabilityTypesStep ==
  ASSUME ObservabilityTypes, [ObservabilityNext]_observabilityVars
  PROVE  ObservabilityTypes'
<1>0. RunIds' = RunIds /\ \A r \in Reports : Run(r) \in RunIds
  BY DEF RunIds, Run
<1> HIDE DEF RunIds, Run
<1>1. ASSUME NEW r \in Reports, NEW d, NEW b, Emit(r, d, b)
      PROVE  ObservabilityTypes'
  <2>1. SharedRuns(r) \subseteq RunIds
    BY <1>0 DEF SharedRuns
  <2>2. report' \in [Reports -> ReportStates] /\ shared' \in [index : BOOLEAN, run : SUBSET RunIds]
    <3>1. CASE UNCHANGED shared
      BY <1>1, <3>1, ReportMoves DEF ObservabilityTypes, Moves
    <3>2. CASE shared' = [shared EXCEPT !.run = @ \cup SharedRuns(r)]
      BY <1>1, <2>1, <3>2, ReportMoves DEF ObservabilityTypes, Moves
    <3>3. QED
      BY <1>1, <3>1, <3>2, ReportMoves
  <2>3. QED
    BY <1>1, <2>2 DEF ObservabilityTypes, Emit
<1>2. ASSUME NEW r \in Reports, PutRecord(r) PROVE ObservabilityTypes'
  BY <1>0, <1>2, ReportMoves DEF ObservabilityTypes, Moves, PutRecord
<1>3. ASSUME NEW r \in Reports, PutMeta(r) PROVE ObservabilityTypes'
  <2>1. report' \in [Reports -> ReportStates]
    BY <1>3, ReportMoves DEF Moves
  <2> HIDE DEF BuildRunSummary
  <2>2. QED
    BY <1>0, <1>3, <2>1 DEF ObservabilityTypes, PutMeta
<1>4. ASSUME NEW r \in Reports, PutLatest(r) PROVE ObservabilityTypes'
  BY <1>0, <1>4, ReportMoves DEF ObservabilityTypes, Moves, PutLatest
<1>5. ASSUME NEW r \in Reports, ReadIndex(r) PROVE ObservabilityTypes'
  BY <1>0, <1>5, ReportMoves DEF ObservabilityTypes, Moves, ReadIndex
<1>6. ASSUME NEW r \in Reports, PutIndex(r) PROVE ObservabilityTypes'
  <2>1. report[r].read \in Seq(RunIds) /\ puts \in Seq(RunIds)
    BY <1>6, ReadIsAList DEF PutIndex, ObservabilityTypes
  <2>2. InFront(Run(r), report[r].read) \in Seq(RunIds) /\ InFront(Run(r), puts) \in Seq(RunIds)
    BY <1>0, <2>1, InFrontFacts
  <2>3. NewIndex(Run(r), report[r].read) \in Seq(RunIds)
    BY <2>2, UpToFacts, ObservabilityAssumption DEF NewIndex
  <2>4. report' \in [Reports -> ReportStates]
    BY <1>6, ReportMoves DEF Moves
  <2>5. QED
    BY <1>6, <2>2, <2>3, <2>4 DEF ObservabilityTypes, PutIndex
<1>7. ASSUME NEW r \in Reports, StorageFails(r) PROVE ObservabilityTypes'
  <2>1. report' \in [Reports -> ReportStates]
    BY <1>7, ReportMoves DEF Moves
  <2>2. shared' \in [index : BOOLEAN, run : SUBSET RunIds]
    BY <1>0, <1>7 DEF StorageFails, ObservabilityTypes
  <2>3. QED
    BY <1>7, <2>1, <2>2 DEF ObservabilityTypes, StorageFails
<1>8. CASE UNCHANGED <<report, record, meta, latest, index, puts, shared>>
  BY <1>8 DEF ObservabilityTypes
<1>9. QED
  BY <1>1, <1>2, <1>3, <1>4, <1>5, <1>6, <1>7, <1>8, ObservabilitySteps

(* What has been written stays.                                            *)
LEMMA StoredStays ==
  ASSUME ObservabilityTypes, [ObservabilityNext]_observabilityVars, NEW i \in RunIds
  PROVE  /\ record[i] # Unwritten => record'[i] # Unwritten
         /\ meta[i] # Unwritten => meta'[i] # Unwritten
<1>1. /\ \A r \in Reports : ContentOf[r] # Unwritten
      /\ \A r \in Reports : BuildRunSummary(ContentOf[r]) # Unwritten
  <2>1. ASSUME NEW r \in Reports
        PROVE  ContentOf[r] # Unwritten /\ BuildRunSummary(ContentOf[r]) # Unwritten
    <3>1. ContentOf[r].status # "none" /\ Unwritten.status = "none"
      BY ObservabilityAssumption DEF Unwritten
    <3>2. BuildRunSummary(ContentOf[r]).status = ContentOf[r].status
      BY DEF BuildRunSummary
    <3>3. QED
      BY <3>1, <3>2
  <2>2. QED
    BY <2>1
<1> HIDE DEF Unwritten, BuildRunSummary
<1>2. ASSUME NEW r \in Reports, PutRecord(r)
      PROVE  /\ record[i] # Unwritten => record'[i] # Unwritten
             /\ meta[i] # Unwritten => meta'[i] # Unwritten
  BY <1>1, <1>2 DEF ObservabilityTypes, PutRecord
<1>3. ASSUME NEW r \in Reports, PutMeta(r)
      PROVE  /\ record[i] # Unwritten => record'[i] # Unwritten
             /\ meta[i] # Unwritten => meta'[i] # Unwritten
  BY <1>1, <1>3 DEF ObservabilityTypes, PutMeta
<1>4. QED
  BY <1>2, <1>3, ObservabilitySteps
     DEF Emit, PutLatest, ReadIndex, PutIndex, StorageFails

LEMMA ListableStays ==
  ASSUME ObservabilityTypes, [ObservabilityNext]_observabilityVars,
         NEW ids \in Seq(RunIds), Listable(ids)
  PROVE  Listable(ids)'
<1>1. \A k \in 1..Len(ids) : ids[k] \in RunIds
  OBVIOUS
<1>2. QED
  BY <1>1, StoredStays DEF Listable, IsStored

(* A list cut to its size, with another run in front, can be shown.        *)
LEMMA NewIndexIsListable ==
  ASSUME NEW id \in RunIds, IsStored(id), NEW ids \in Seq(RunIds), Listable(ids)
  PROVE  NewIndex(id, ids) \in Seq(RunIds) /\ Listable(NewIndex(id, ids))
<1>1. PICK list : list = InFront(id, ids)
  OBVIOUS
<1>2. list \in Seq(RunIds) /\ \A k \in 1..Len(list) : list[k] = id \/ Occurs(list[k], ids)
  BY <1>1, InFrontFacts
<1>3. \A k \in 1..Len(list) : IsStored(list[k])
  BY <1>2 DEF Occurs, Listable
<1>4. PICK cut : cut = UpTo(MAX_INDEX_SIZE, list)
  OBVIOUS
<1>5. /\ cut \in Seq(RunIds) /\ Len(cut) <= MAX_INDEX_SIZE
      /\ \A k \in 1..Len(cut) : k \in 1..Len(list) /\ cut[k] = list[k]
  BY <1>2, <1>4, UpToFacts, ObservabilityAssumption
<1>6. NewIndex(id, ids) = cut
  BY <1>1, <1>4 DEF NewIndex
<1>7. QED
  BY <1>3, <1>5, <1>6 DEF Listable

LEMMA WritesAreInOrderStep ==
  ASSUME ObservabilityTypes, WritesAreInOrder, [ObservabilityNext]_observabilityVars
  PROVE  WritesAreInOrder'
<1>0. /\ RunIds' = RunIds /\ \A r \in Reports : Run(r) \in RunIds
      /\ report \in [Reports -> ReportStates]
  BY DEF RunIds, Run, ObservabilityTypes
<1> HIDE DEF RunIds, Run, ReportStates, Unwritten
<1>1. \A i \in RunIds : IsStored(i) => IsStored(i)'
  BY StoredStays DEF IsStored
<1>2. \A i \in RunIds : record[i] # Unwritten => record'[i] # Unwritten
  BY StoredStays
<1>3. ASSUME NEW s \in Reports, report'[s] = report[s]
      PROVE  ReportIsInOrder(s)'
  <2>1. ReportIsInOrder(s)
    BY DEF WritesAreInOrder
  <2>2. CASE ReportAt(s, "put_index")
    <3>1. PICK ids : ids = report[s].read
      OBVIOUS
    <3>2. ids \in Seq(RunIds) /\ Listable(ids)
      BY <2>1, <2>2, <3>1, ReadIsAList DEF ReportIsInOrder
    <3>3. Listable(ids)' /\ report'[s].read = ids
      BY <1>3, <3>1, <3>2, ListableStays
    <3>4. Listable(report[s].read)'
      BY <3>3 DEF Listable, IsStored
    <3>5. QED
      BY <1>0, <1>1, <1>3, <2>1, <2>2, <3>4 DEF ReportIsInOrder, ReportAt, IsStored, Run
  <2>3. CASE ~ReportAt(s, "put_index")
    BY <1>0, <1>1, <1>2, <1>3, <2>1, <2>3 DEF ReportIsInOrder, ReportAt, IsStored, Run
  <2>4. QED
    BY <2>2, <2>3
<1>4. ASSUME NEW r \in Reports, NEW x, Moves(r, x), ReportIsInOrder(r)'
      PROVE  \A s \in Reports : ReportIsInOrder(s)'
  BY <1>3, <1>4 DEF Moves
<1>5. \A r \in Reports : \A x : Moves(r, x) => report'[r] = x
  BY DEF Moves
<1>6. \A r \in Reports : ReportIsInOrder(r)'
  <2>1. ASSUME NEW r \in Reports, NEW x, Moves(r, x), x.stage \in {"record", "answered"}
        PROVE  \A s \in Reports : ReportIsInOrder(s)'
    <3>1. ReportIsInOrder(r)'
      BY <1>5, <2>1 DEF ReportIsInOrder, ReportAt
    <3>2. QED
      BY <1>4, <2>1, <3>1
  <2>2. ASSUME NEW r \in Reports, PutRecord(r)
        PROVE  \A s \in Reports : ReportIsInOrder(s)'
    <3>1. Moves(r, [stage |-> "meta"])
      BY <2>2, ReportMoves DEF ObservabilityTypes
    <3>2. record'[Run(r)] = ContentOf[r]
      BY <1>0, <2>2 DEF PutRecord, ObservabilityTypes
    <3>3. ContentOf[r] # Unwritten
      BY ObservabilityAssumption DEF Unwritten
    <3>4. ReportIsInOrder(r)'
      BY <1>5, <3>1, <3>2, <3>3 DEF ReportIsInOrder, ReportAt, Run
    <3>5. QED
      BY <1>4, <3>1, <3>4
  <2>3. ASSUME NEW r \in Reports, PutMeta(r)
        PROVE  \A s \in Reports : ReportIsInOrder(s)'
    <3>1. Moves(r, [stage |-> "latest"])
      BY <2>3, ReportMoves DEF ObservabilityTypes
    <3>2. /\ meta'[Run(r)] = BuildRunSummary(ContentOf[r])
          /\ record'[Run(r)] # Unwritten
      <4>1. ReportIsInOrder(r) /\ ReportAt(r, "meta")
        BY <2>3 DEF WritesAreInOrder, PutMeta
      <4>2. QED
        BY <1>0, <2>3, <4>1 DEF PutMeta, ObservabilityTypes, ReportIsInOrder
    <3>3. BuildRunSummary(ContentOf[r]) # Unwritten
      BY ObservabilityAssumption DEF Unwritten, BuildRunSummary
    <3>4. ReportIsInOrder(r)'
      BY <1>5, <3>1, <3>2, <3>3 DEF ReportIsInOrder, ReportAt, Run, IsStored
    <3>5. QED
      BY <1>4, <3>1, <3>4
  <2>4. ASSUME NEW r \in Reports, PutLatest(r)
        PROVE  \A s \in Reports : ReportIsInOrder(s)'
    <3>1. Moves(r, [stage |-> "read_index"])
      BY <2>4, ReportMoves DEF ObservabilityTypes
    <3>2. IsStored(Run(r))
      BY <2>4 DEF WritesAreInOrder, ReportIsInOrder, PutLatest, ReportAt
    <3>3. ReportIsInOrder(r)'
      BY <1>0, <1>1, <1>5, <3>1, <3>2 DEF ReportIsInOrder, ReportAt, Run, IsStored
    <3>4. QED
      BY <1>4, <3>1, <3>3
  <2>5. ASSUME NEW r \in Reports, ReadIndex(r)
        PROVE  \A s \in Reports : ReportIsInOrder(s)'
    <3>1. PICK ids : ids = index
      OBVIOUS
    <3>2. Moves(r, [stage |-> "put_index", read |-> ids])
      BY <2>5, <3>1, ReportMoves DEF ObservabilityTypes
    <3>3. IsStored(Run(r)) /\ ids \in Seq(RunIds) /\ Listable(ids)
      BY <2>5, <3>1
         DEF WritesAreInOrder, ReportIsInOrder, ReadIndex, ReportAt, ObservabilityTypes
    <3>4. Listable(ids)' /\ report'[r] = [stage |-> "put_index", read |-> ids]
      BY <1>5, <3>2, <3>3, ListableStays
    <3>5. Listable(report[r].read)' /\ report'[r].stage = "put_index"
      BY <3>4 DEF Listable, IsStored
    <3>6. IsStored(Run(r))'
      BY <1>0, <1>1, <3>3 DEF IsStored, Run
    <3>7. ReportIsInOrder(r)'
      BY <3>5, <3>6 DEF ReportIsInOrder, ReportAt
    <3>8. QED
      BY <1>4, <3>2, <3>7
  <2>6. ASSUME NEW r \in Reports, (\E d, b : Emit(r, d, b)) \/ PutIndex(r) \/ StorageFails(r)
        PROVE  \A s \in Reports : ReportIsInOrder(s)'
    <3>1. \/ Moves(r, [stage |-> "answered", answer |-> "not_recorded"])
          \/ Moves(r, [stage |-> "record"])
          \/ Moves(r, [stage |-> "answered", answer |-> "201"])
      BY <2>6, ReportMoves DEF ObservabilityTypes
    <3> HIDE DEF Moves
    <3>2. QED
      BY <2>1, <3>1
  <2>7. CASE UNCHANGED report
    BY <1>3, <2>7
  <2>8. QED
    BY <2>2, <2>3, <2>4, <2>5, <2>6, <2>7, ObservabilitySteps
<1>7. ASSUME NEW i \in RunIds, meta'[i] # Unwritten PROVE record'[i] # Unwritten
  <2>1. CASE meta[i] # Unwritten
    BY <1>2, <2>1 DEF WritesAreInOrder
  <2>2. CASE meta[i] = Unwritten
    <3>1. PICK r \in Reports : PutMeta(r)
      BY <1>7, <2>2, ObservabilitySteps
         DEF Emit, PutRecord, PutLatest, ReadIndex, PutIndex, StorageFails
    <3>2. i = Run(r)
      BY <1>0, <1>7, <2>2, <3>1 DEF PutMeta, ObservabilityTypes
    <3>3. record[i] # Unwritten
      BY <3>1, <3>2 DEF PutMeta, WritesAreInOrder, ReportIsInOrder
    <3>4. QED
      BY <1>2, <3>3
  <2>3. QED
    BY <2>1, <2>2
<1>8. latest' # << >> => IsStored(latest[1])'
  <2>1. CASE UNCHANGED latest
    <3>1. latest # << >> => latest[1] \in RunIds
      BY DEF ObservabilityTypes
    <3>2. QED
      BY <1>1, <2>1, <3>1 DEF WritesAreInOrder, IsStored
  <2>2. ASSUME NEW r \in Reports, PutLatest(r) PROVE IsStored(latest[1])'
    <3>1. IsStored(Run(r)) /\ latest'[1] = Run(r)
      BY <2>2 DEF WritesAreInOrder, ReportIsInOrder, PutLatest, ReportAt
    <3>2. QED
      BY <1>0, <1>1, <3>1 DEF IsStored
  <2>3. QED
    BY <2>1, <2>2, ObservabilitySteps
       DEF Emit, PutRecord, PutMeta, ReadIndex, PutIndex, StorageFails
<1>9. Listable(index)'
  <2>1. PICK ids : ids = index'
    OBVIOUS
  <2>2. ids \in Seq(RunIds) /\ Listable(ids)
    <3>1. CASE UNCHANGED index
      BY <2>1, <3>1 DEF WritesAreInOrder, ObservabilityTypes
    <3>2. ASSUME NEW r \in Reports, PutIndex(r) PROVE ids \in Seq(RunIds) /\ Listable(ids)
      <4>1. /\ report[r].read \in Seq(RunIds) /\ Listable(report[r].read)
            /\ IsStored(Run(r))
        BY <3>2, ReadIsAList
           DEF PutIndex, WritesAreInOrder, ReportIsInOrder, ObservabilityTypes, ReportAt
      <4>2. ids = NewIndex(Run(r), report[r].read)
        BY <2>1, <3>2 DEF PutIndex
      <4>3. QED
        BY <1>0, <4>1, <4>2, NewIndexIsListable
    <3>3. QED
      BY <3>1, <3>2, ObservabilitySteps
         DEF Emit, PutRecord, PutMeta, PutLatest, ReadIndex, StorageFails
  <2>3. Listable(ids)'
    BY <2>2, ListableStays
  <2>4. QED
    BY <2>1, <2>3 DEF Listable, IsStored
<1>10. QED
  BY <1>0, <1>6, <1>7, <1>8, <1>9 DEF WritesAreInOrder, Unwritten

LEMMA HistoryIsKeptStep ==
  ASSUME ObservabilityTypes, HistoryIsKept, [ObservabilityNext]_observabilityVars
  PROVE  HistoryIsKept'
<1>0. /\ RunIds' = RunIds /\ \A r \in Reports : Run(r) \in RunIds
      /\ report \in [Reports -> ReportStates]
      /\ shared \in [index : BOOLEAN, run : SUBSET RunIds]
      /\ puts \in Seq(RunIds) /\ index \in Seq(RunIds)
  BY DEF RunIds, Run, ObservabilityTypes
<1> HIDE DEF RunIds, Run, ReportStates
<1>1. ASSUME NEW r \in Reports, PutIndex(r)
      PROVE  /\ Distinct(puts)' /\ Occurs(Run(r), puts)'
             /\ \A i : Occurs(i, puts) => Occurs(i, puts)'
  <2>1. PICK list : list = InFront(Run(r), puts)
    OBVIOUS
  <2>2. Distinct(list) /\ Occurs(Run(r), list) /\ \A i : Occurs(i, puts) => Occurs(i, list)
    BY <1>0, <2>1, InFrontFacts DEF HistoryIsKept
  <2>3. puts' = list
    BY <1>1, <2>1 DEF PutIndex
  <2>4. QED
    BY <2>2, <2>3 DEF Distinct, Occurs, Run
<1>2. ASSUME UNCHANGED puts
      PROVE  Distinct(puts)' /\ \A i : Occurs(i, puts) => Occurs(i, puts)'
  BY <1>2 DEF HistoryIsKept, Distinct, Occurs
<1>3. /\ Distinct(puts)'
      /\ \A r \in Reports : ReportAt(r, "answered")' /\ report'[r].answer = "201" =>
            Occurs(Run(r), puts)'
  <2>1. /\ Distinct(puts)' /\ \A i : Occurs(i, puts) => Occurs(i, puts)'
    BY <1>1, <1>2, ObservabilitySteps
       DEF Emit, PutRecord, PutMeta, PutLatest, ReadIndex, StorageFails
  <2>2. ASSUME NEW s \in Reports, report'[s] = report[s],
               report'[s].stage = "answered", report'[s].answer = "201"
        PROVE  Occurs(Run(s), puts)'
    <3>1. Occurs(Run(s), puts)
      BY <2>2 DEF HistoryIsKept, ReportAt
    <3>2. QED
      BY <2>1, <3>1
  <2>3. ASSUME NEW r \in Reports, NEW x, Moves(r, x),
               x.stage = "answered" /\ x.answer = "201" => Occurs(Run(r), puts)',
               NEW s \in Reports, report'[s].stage = "answered", report'[s].answer = "201"
        PROVE  Occurs(Run(s), puts)'
    <3>1. CASE s = r
      BY <2>3, <3>1 DEF Moves
    <3>2. CASE s # r
      BY <2>2, <2>3, <3>2 DEF Moves
    <3>3. QED
      BY <3>1, <3>2
  <2> HIDE DEF Occurs, Moves
  <2>4. ASSUME NEW s \in Reports, report'[s].stage = "answered", report'[s].answer = "201"
        PROVE  Occurs(Run(s), puts)'
    <3>1. ASSUME NEW r \in Reports, PutIndex(r) PROVE Occurs(Run(s), puts)'
      <4>1. Moves(r, [stage |-> "answered", answer |-> "201"]) /\ Occurs(Run(r), puts)'
        BY <1>1, <3>1, ReportMoves
      <4>2. QED
        BY <2>3, <2>4, <4>1
    <3>2. ASSUME NEW r \in Reports, NEW x, Moves(r, x),
                 x.stage # "answered" \/ x.answer # "201"
          PROVE  Occurs(Run(s), puts)'
      BY <2>3, <2>4, <3>2
    <3>3. ASSUME NEW r \in Reports,
                 \/ \E d, b : Emit(r, d, b)
                 \/ PutRecord(r) \/ PutMeta(r) \/ PutLatest(r) \/ ReadIndex(r)
                 \/ StorageFails(r)
          PROVE  \E x : Moves(r, x) /\ (x.stage # "answered" \/ x.answer # "201")
      <4>1. \/ Moves(r, [stage |-> "answered", answer |-> "not_recorded"])
            \/ Moves(r, [stage |-> "record"]) \/ Moves(r, [stage |-> "meta"])
            \/ Moves(r, [stage |-> "latest"]) \/ Moves(r, [stage |-> "read_index"])
            \/ Moves(r, [stage |-> "put_index", read |-> index])
        BY <3>3, ReportMoves
      <4>2. QED
        BY <4>1
    <3>4. CASE UNCHANGED report
      BY <2>2, <2>4, <3>4
    <3>5. QED
      BY <3>1, <3>2, <3>3, <3>4, ObservabilitySteps
  <2>5. QED
    BY <2>1, <2>4 DEF ReportAt
<1>4. ASSUME ~shared'.index
      PROVE  /\ index' = UpTo(MAX_INDEX_SIZE, puts')
             /\ \A r \in Reports : ReportAt(r, "put_index")' =>
                   /\ report'[r].read = index'
                   /\ \A s \in Reports : ReportAt(s, "put_index")' => s = r
  <2>1. ~shared.index
    BY <1>0, <1>4, ObservabilitySteps
       DEF Emit, PutRecord, PutMeta, PutLatest, ReadIndex, PutIndex, StorageFails
  <2>2. /\ index = UpTo(MAX_INDEX_SIZE, puts)
        /\ \A r \in Reports : ReportAt(r, "put_index") =>
              /\ report[r].read = index
              /\ \A s \in Reports : ReportAt(s, "put_index") => s = r
    BY <2>1 DEF HistoryIsKept
  <2>3. ASSUME NEW r \in Reports, PutIndex(r)
        PROVE  /\ index' = UpTo(MAX_INDEX_SIZE, puts')
               /\ \A s \in Reports : ~ReportAt(s, "put_index")'
    <3>1. report[r].read = UpTo(MAX_INDEX_SIZE, puts)
      BY <2>2, <2>3 DEF PutIndex
    <3>2. /\ index' = UpTo(MAX_INDEX_SIZE, InFront(Run(r), UpTo(MAX_INDEX_SIZE, puts)))
          /\ puts' = InFront(Run(r), puts)
      BY <2>3, <3>1 DEF PutIndex, NewIndex
    <3>3. index' = UpTo(MAX_INDEX_SIZE, puts')
      BY <1>0, <3>2, CutAgain, ObservabilityAssumption DEF HistoryIsKept
    <3>4. Moves(r, [stage |-> "answered", answer |-> "201"])
      BY <2>3, ReportMoves
    <3>5. \A s \in Reports : ~ReportAt(s, "put_index")'
      BY <2>2, <2>3, <3>4 DEF Moves, ReportAt, PutIndex
    <3>6. QED
      BY <3>3, <3>5
  <2>4. ASSUME NEW r \in Reports, ReadIndex(r)
        PROVE  /\ index' = UpTo(MAX_INDEX_SIZE, puts')
               /\ \A s \in Reports : ReportAt(s, "put_index")' =>
                     s = r /\ report'[s].read = index'
    <3>1. \A s \in Reports : ReportAt(s, "put_index") => s = r
      BY <1>0, <1>4, <2>4 DEF ReadIndex
    <3>2. Moves(r, [stage |-> "put_index", read |-> index])
      BY <2>4, ReportMoves
    <3>3. QED
      BY <2>2, <2>4, <3>1, <3>2 DEF Moves, ReportAt, ReadIndex
  <2>5. ASSUME NEW r \in Reports,
               \/ \E d, b : Emit(r, d, b)
               \/ PutRecord(r) \/ PutMeta(r) \/ PutLatest(r) \/ StorageFails(r)
        PROVE  /\ UNCHANGED <<index, puts>>
               /\ \A s \in Reports : ReportAt(s, "put_index")' => report'[s] = report[s]
    <3>1. \/ Moves(r, [stage |-> "answered", answer |-> "not_recorded"])
          \/ Moves(r, [stage |-> "record"]) \/ Moves(r, [stage |-> "meta"])
          \/ Moves(r, [stage |-> "latest"]) \/ Moves(r, [stage |-> "read_index"])
      BY <2>5, ReportMoves
    <3>2. \A s \in Reports : ReportAt(s, "put_index")' => report'[s] = report[s]
      BY <3>1 DEF Moves, ReportAt
    <3>3. QED
      BY <2>5, <3>2 DEF Emit, PutRecord, PutMeta, PutLatest, StorageFails
  <2>6. ASSUME UNCHANGED <<index, puts>>,
               \A s \in Reports : ReportAt(s, "put_index")' => report'[s] = report[s]
        PROVE  /\ index' = UpTo(MAX_INDEX_SIZE, puts')
               /\ \A r \in Reports : ReportAt(r, "put_index")' =>
                     /\ report'[r].read = index'
                     /\ \A s \in Reports : ReportAt(s, "put_index")' => s = r
    <3>1. \A s \in Reports : ReportAt(s, "put_index")' => ReportAt(s, "put_index")
      BY <2>6 DEF ReportAt
    <3>2. QED
      BY <2>2, <2>6, <3>1
  <2>7. QED
    BY <2>3, <2>4, <2>5, <2>6, ObservabilitySteps
<1>5. UpTo(MAX_INDEX_SIZE, puts)' = UpTo(MAX_INDEX_SIZE, puts')
  BY DEF UpTo
<1>6. QED
  BY <1>3, <1>4, <1>5 DEF HistoryIsKept

LEMMA RunAgreesStep ==
  ASSUME ObservabilityTypes, [ObservabilityNext]_observabilityVars,
         NEW i \in RunIds, i \notin shared.run => RunAgrees(i)
  PROVE  i \notin shared'.run => RunAgrees(i)'
<1>0. /\ \A r \in Reports : Run(r) \in RunIds
      /\ report \in [Reports -> ReportStates]
      /\ record = [k \in RunIds |-> record[k]] /\ meta = [k \in RunIds |-> meta[k]]
      /\ shared \in [index : BOOLEAN, run : SUBSET RunIds]
  BY DEF RunIds, Run, ObservabilityTypes
<1> HIDE DEF RunIds, Run, ReportStates, Unwritten, BuildRunSummary
<1>a. \A r \in Reports : Run(r)' = Run(r)
  BY DEF Run
<1> SUFFICES ASSUME i \notin shared'.run PROVE RunAgrees(i)'
  OBVIOUS
<1>1. i \notin shared.run
  BY <1>0, ObservabilitySteps
     DEF Emit, PutRecord, PutMeta, PutLatest, ReadIndex, PutIndex, StorageFails
<1>2. /\ \A r, s \in Reports :
            Writing(r) /\ Writing(s) /\ Run(r) = i /\ Run(s) = i => r = s
      /\ \A r \in Reports : ReportAt(r, "meta") /\ Run(r) = i => record[i] = ContentOf[r]
      /\ meta[i] # Unwritten /\ (\A r \in Reports : Run(r) = i => ~ReportAt(r, "meta")) =>
            \E r \in Reports :
                record[i] = ContentOf[r] /\ meta[i] = BuildRunSummary(ContentOf[r])
  BY <1>1 DEF RunAgrees
<1>3. ASSUME UNCHANGED <<record, meta>>,
             \A r \in Reports : Run(r) = i =>
                 /\ Writing(r)' => Writing(r)
                 /\ ReportAt(r, "meta")' <=> ReportAt(r, "meta")
      PROVE  RunAgrees(i)'
  BY <1>a, <1>2, <1>3 DEF RunAgrees, Unwritten, BuildRunSummary
<1>4. ASSUME NEW r \in Reports, NEW d, NEW b, Emit(r, d, b) PROVE RunAgrees(i)'
  <2>1. CASE Moves(r, [stage |-> "answered", answer |-> "not_recorded"])
    BY <1>3, <1>4, <2>1 DEF Emit, Moves, Writing, ReportAt
  <2>2. CASE /\ Moves(r, [stage |-> "record"])
             /\ shared' = [shared EXCEPT !.run = @ \cup SharedRuns(r)]
    <3>1. i \notin SharedRuns(r)
      BY <1>0, <2>2
    <3>2. Run(r) = i => \A s \in Reports : Run(s) = i /\ Writing(s) => s = r
      BY <3>1 DEF SharedRuns
    <3>3. \A s \in Reports : (Writing(s)' => Writing(s) \/ s = r) /\
                             (ReportAt(s, "meta")' <=> ReportAt(s, "meta"))
      BY <1>4, <2>2 DEF Emit, Moves, Writing, ReportAt
    <3>4. \A s, t \in Reports :
              Writing(s)' /\ Writing(t)' /\ Run(s) = i /\ Run(t) = i => s = t
      BY <1>2, <3>2, <3>3
    <3>5. UNCHANGED <<record, meta>>
      BY <1>4 DEF Emit
    <3>6. QED
      BY <1>a, <1>2, <3>3, <3>4, <3>5 DEF RunAgrees, Unwritten, BuildRunSummary
  <2>3. QED
    BY <1>4, <2>1, <2>2, ReportMoves
<1>5. ASSUME NEW r \in Reports, PutRecord(r) PROVE RunAgrees(i)'
  <2>1. Moves(r, [stage |-> "meta"]) /\ ReportAt(r, "record") /\ UNCHANGED meta
    BY <1>5, ReportMoves DEF PutRecord
  <2>2. \A s \in Reports : (Writing(s)' => Writing(s)) /\
                           (ReportAt(s, "meta")' <=> ReportAt(s, "meta") \/ s = r)
    BY <2>1 DEF Moves, Writing, ReportAt
  <2>3. \A k \in RunIds : record'[k] = IF k = Run(r) THEN ContentOf[r] ELSE record[k]
    BY <1>0, <1>5 DEF PutRecord
  <2>4. CASE Run(r) = i
    <3>1. \A s \in Reports : ReportAt(s, "meta")' /\ Run(s) = i => s = r
      BY <1>2, <2>1, <2>2, <2>4 DEF Writing, ReportAt
    <3>2. QED
      BY <1>a, <1>2, <2>2, <2>3, <2>4, <3>1 DEF RunAgrees, Unwritten, BuildRunSummary
  <2>5. CASE Run(r) # i
    BY <1>a, <1>2, <2>1, <2>2, <2>3, <2>5 DEF RunAgrees, Unwritten, BuildRunSummary
  <2>6. QED
    BY <2>4, <2>5
<1>6. ASSUME NEW r \in Reports, PutMeta(r) PROVE RunAgrees(i)'
  <2>1. Moves(r, [stage |-> "latest"]) /\ ReportAt(r, "meta") /\ UNCHANGED record
    BY <1>6, ReportMoves DEF PutMeta
  <2>2. \A s \in Reports : (Writing(s)' => Writing(s)) /\
                           (ReportAt(s, "meta")' <=> ReportAt(s, "meta") /\ s # r)
    BY <2>1 DEF Moves, Writing, ReportAt
  <2>3. \A k \in RunIds : meta'[k] = IF k = Run(r) THEN BuildRunSummary(ContentOf[r])
                                     ELSE meta[k]
    BY <1>0, <1>6 DEF PutMeta
  <2>4. CASE Run(r) = i
    <3>1. record'[i] = ContentOf[r] /\ meta'[i] = BuildRunSummary(ContentOf[r])
      BY <1>2, <2>1, <2>3, <2>4
    <3>2. QED
      BY <1>a, <1>2, <2>1, <2>2, <3>1 DEF RunAgrees, Unwritten, BuildRunSummary
  <2>5. CASE Run(r) # i
    BY <1>a, <1>2, <2>1, <2>2, <2>3, <2>5 DEF RunAgrees, Unwritten, BuildRunSummary
  <2>6. QED
    BY <2>4, <2>5
<1>7. ASSUME NEW r \in Reports, PutLatest(r) \/ ReadIndex(r) \/ PutIndex(r)
      PROVE  RunAgrees(i)'
  <2>1. /\ Writing(r) /\ ~ReportAt(r, "meta") /\ UNCHANGED <<record, meta>>
    BY <1>7 DEF PutLatest, ReadIndex, PutIndex, Writing, ReportAt
  <2>2. \/ Moves(r, [stage |-> "answered", answer |-> "201"])
        \/ Moves(r, [stage |-> "read_index"])
        \/ Moves(r, [stage |-> "put_index", read |-> index])
    BY <1>7, ReportMoves
  <2>3. \A s \in Reports : (Writing(s)' => Writing(s)) /\
                           (ReportAt(s, "meta")' <=> ReportAt(s, "meta"))
    BY <2>1, <2>2 DEF Moves, Writing, ReportAt
  <2>4. QED
    BY <1>3, <2>1, <2>3
<1>8. ASSUME NEW r \in Reports, StorageFails(r) PROVE RunAgrees(i)'
  <2>1. /\ Moves(r, [stage |-> "answered", answer |-> "not_recorded"])
        /\ UNCHANGED <<record, meta>>
    BY <1>8, ReportMoves DEF StorageFails
  <2>2. ReportAt(r, "meta") => Run(r) # i
    BY <1>0, <1>8 DEF StorageFails
  <2>3. \A s \in Reports : Run(s) = i =>
            (Writing(s)' => Writing(s)) /\ (ReportAt(s, "meta")' <=> ReportAt(s, "meta"))
    BY <2>1, <2>2 DEF Moves, Writing, ReportAt
  <2>4. QED
    BY <1>3, <2>1, <2>3
<1>9. CASE UNCHANGED <<report, record, meta, latest, index, puts, shared>>
  BY <1>3, <1>9 DEF Writing, ReportAt
<1>10. QED
  BY <1>4, <1>5, <1>6, <1>7, <1>8, <1>9, ObservabilitySteps

LEMMA ObservabilityInitInv == ObservabilityInit => ObservabilityInv
<1> SUFFICES ASSUME ObservabilityInit PROVE ObservabilityInv
  OBVIOUS
<1>1. [stage |-> "idle"] \in ReportStates
  BY DEF ReportStates
<1>2. ObservabilityTypes
  BY <1>1 DEF ObservabilityInit, ObservabilityTypes
<1>3. WritesAreInOrder
  BY ObservabilityAssumption
     DEF ObservabilityInit, WritesAreInOrder, ReportIsInOrder, ReportAt, Listable
<1>4. UpTo(MAX_INDEX_SIZE, << >>) = << >>
  <2>1. PICK empty : empty = << >>
    OBVIOUS
  <2>2. PICK n : n = MAX_INDEX_SIZE
    OBVIOUS
  <2>3. empty \in Seq(RunIds) /\ n \in Nat /\ Len(empty) <= n
    BY <2>1, <2>2, ObservabilityAssumption
  <2>4. UpTo(n, empty) = empty
    BY <2>3, UpToFacts
  <2>5. QED
    BY <2>1, <2>2, <2>4
<1>5. HistoryIsKept
  BY <1>4 DEF ObservabilityInit, HistoryIsKept, Distinct, Occurs, ReportAt
<1>6. \A i \in RunIds : RunAgrees(i)
  BY DEF ObservabilityInit, RunAgrees, ReportAt, Writing
<1>7. QED
  BY <1>2, <1>3, <1>5, <1>6 DEF ObservabilityInv

LEMMA ObservabilityNextInv ==
  ObservabilityInv /\ [ObservabilityNext]_observabilityVars => ObservabilityInv'
<1> SUFFICES ASSUME ObservabilityInv, [ObservabilityNext]_observabilityVars
             PROVE  ObservabilityInv'
  OBVIOUS
<1>1. ObservabilityTypes' /\ WritesAreInOrder' /\ HistoryIsKept'
  BY ObservabilityTypesStep, WritesAreInOrderStep, HistoryIsKeptStep DEF ObservabilityInv
<1>2. \A i \in RunIds : i \notin shared'.run => RunAgrees(i)'
  BY RunAgreesStep DEF ObservabilityInv
<1>3. RunIds' = RunIds
  BY DEF RunIds
<1>4. QED
  BY <1>1, <1>2, <1>3 DEF ObservabilityInv

LEMMA WhatIsToldIsRight ==
  ASSUME ObservabilityInv
  PROVE  RunsAreToldRight
<1>0. /\ index \in Seq(RunIds) /\ puts \in Seq(RunIds) /\ Len(index) \in Nat
      /\ DOMAIN index = 1..Len(index) /\ MAX_INDEX_SIZE \in Nat
      /\ Listable(index)
  BY ObservabilityAssumption DEF ObservabilityInv, ObservabilityTypes, WritesAreInOrder
<1>1. Len(ListBootstrapRuns(MAX_INDEX_SIZE)) = Len(index)
  <2>1. UpTo(MAX_INDEX_SIZE, index) = index
    BY <1>0, UpToFacts DEF Listable
  <2>2. PICK positions : positions = {n \in DOMAIN index : meta[index[n]] # Unwritten}
    OBVIOUS
  <2>3. PICK p : p = 0 /\ positions \cap 1..Len(index) = (1..Len(index)) \ {p}
    BY <1>0, <2>2 DEF Listable, IsStored
  <2>4. PICK ids : ids = SelectAt(index, positions)
    OBVIOUS
  <2>5. ids \in Seq(RunIds)
    BY <1>0, <2>4, SelectAtElements
  <2>6. Len(SelectAt(index, positions)) = Len(index)
    <3>1. Len(SelectAt(index, positions))
            = IF p \in 1..Len(index) THEN Len(index) - 1 ELSE Len(index)
      BY <1>0, <2>3, SelectAtLeavesOne
    <3>2. QED
      BY <2>3, <3>1
  <2>7. DOMAIN ids = 1..Len(index)
    BY <2>4, <2>5, <2>6
  <2>8. ListBootstrapRuns(MAX_INDEX_SIZE)
          = [k \in DOMAIN ids |-> [id |-> ids[k], signals |-> DeriveRunSignals(meta[ids[k]])]]
    BY <2>1, <2>2, <2>4 DEF ListBootstrapRuns
  <2>9. PICK told : told = ListBootstrapRuns(MAX_INDEX_SIZE)
    OBVIOUS
  <2> HIDE DEF DeriveRunSignals
  <2>10. told = [k \in 1..Len(index) |->
                    [id |-> ids[k], signals |-> DeriveRunSignals(meta[ids[k]])]]
    BY <2>7, <2>8, <2>9
  <2>11. \E S : told \in Seq(S) /\ Len(told) = Len(index)
    <3>1. PICK S : S = {[id |-> ids[k], signals |-> DeriveRunSignals(meta[ids[k]])] :
                           k \in 1..Len(index)}
      OBVIOUS
    <3>2. told \in [1..Len(index) -> S]
      BY <2>10, <3>1
    <3>3. PICK n \in Nat : n = Len(index)
      BY <1>0
    <3>4. told \in Seq(S)
      BY <3>2, <3>3
    <3>5. Len(told) = n
      BY <3>2, <3>3, <3>4
    <3>6. QED
      BY <3>3, <3>4, <3>5
  <2>12. QED
    BY <2>9, <2>11
<1>2. WhatIsListedIsThere
  <2>1. latest # << >> => GetLatestRunSummary # << >>
    BY DEF ObservabilityInv, WritesAreInOrder, IsStored, GetLatestRunSummary
  <2>2. \A i \in ToSet(index) : GetBootstrapRun(i) # << >>
    BY <1>0 DEF ToSet, Listable, IsStored, GetBootstrapRun
  <2>3. QED
    BY <1>1, <2>1, <2>2 DEF WhatIsListedIsThere
<1>3. IndexHoldsTheLastRuns
  <2>1. ASSUME ~shared.index, NEW r \in Reports, ReportAt(r, "answered"),
               report[r].answer = "201", ~(Len(puts) > MAX_INDEX_SIZE)
        PROVE  Run(r) \in ToSet(index)
    <3>1. index = puts
      BY <1>0, <2>1, UpToFacts DEF ObservabilityInv, HistoryIsKept
    <3>2. Occurs(Run(r), index)
      BY <2>1, <3>1 DEF ObservabilityInv, HistoryIsKept
    <3>3. QED
      BY <1>0, <3>2 DEF Occurs, ToSet
  <2>2. QED
    BY <2>1 DEF IndexHoldsTheLastRuns, ObservabilityInv, HistoryIsKept
<1>4. ListAndPageAgree
  <2>1. ASSUME NEW r \in Reports
        PROVE  DeriveRunSignals(BuildRunSummary(ContentOf[r])) = DeriveRunSignals(ContentOf[r])
    <3>1. PICK run : run = ContentOf[r]
      OBVIOUS
    <3>2. PICK short : short = BuildRunSummary(run)
      OBVIOUS
    <3>3. /\ short.status = run.status /\ short.failed = run.failed /\ short.code = run.code
          /\ short.expected = run.expected /\ short.observed = run.observed
      BY <3>2 DEF BuildRunSummary
    <3>4. Mismatch(short) = Mismatch(run)
      BY <3>3 DEF Mismatch
    <3>5. SummarizeFailureReason(short) = SummarizeFailureReason(run)
      BY <3>3, <3>4 DEF SummarizeFailureReason
    <3>6. InferNextActions(short) = InferNextActions(run)
      BY <3>3, <3>4 DEF InferNextActions
    <3> HIDE DEF SummarizeFailureReason, InferNextActions
    <3>7. DeriveRunSignals(short) = DeriveRunSignals(run)
      BY <3>3, <3>5, <3>6 DEF DeriveRunSignals
    <3>8. QED
      BY <3>1, <3>2, <3>7
  <2>2. ASSUME NEW i \in RunIds \ shared.run,
               \A r \in Reports : Writing(r) => Run(r) # i, meta[i] # Unwritten
        PROVE  <<DeriveRunSignals(meta[i])>> = GetBootstrapRun(i)
    <3>1. \A r \in Reports : Run(r) = i => ~ReportAt(r, "meta")
      BY <2>2 DEF Writing, ReportAt
    <3>2. PICK r \in Reports :
              record[i] = ContentOf[r] /\ meta[i] = BuildRunSummary(ContentOf[r])
      BY <2>2, <3>1 DEF ObservabilityInv, RunAgrees
    <3>3. record[i] # Unwritten
      BY <2>2 DEF ObservabilityInv, WritesAreInOrder
    <3> HIDE DEF DeriveRunSignals, BuildRunSummary
    <3>4. QED
      BY <2>1, <3>2, <3>3 DEF GetBootstrapRun
  <2>3. QED
    BY <2>2 DEF ListAndPageAgree
<1>5. SettingsReadAreValid
  <2>1. SettingsAreValid(DefaultSettings)
    <3>1. WithDefaults(DefaultSettings) = DefaultSettings
      BY DEF WithDefaults, DefaultSettings
    <3>2. QED
      BY <3>1, ObservabilityAssumption DEF SettingsAreValid, DefaultSettings
  <2>2. ASSUME NEW s, SettingsAreValid(s) PROVE SettingsAreValid(WithDefaults(s))
    <3>1. WithDefaults(WithDefaults(s)) = WithDefaults(s)
      BY DEF WithDefaults
    <3>2. QED
      BY <2>2, <3>1 DEF SettingsAreValid
  <2> HIDE DEF SettingsAreValid, WithDefaults, DefaultSettings
  <2>3. QED
    BY <2>1, <2>2 DEF SettingsReadAreValid, ReadObservabilitySettings
<1>6. QED
  BY <1>2, <1>3, <1>4, <1>5 DEF RunsAreToldRight

(* Whichever of the four writes of a report fails, and whoever else writes *)
(* in between: everything that is listed can be shown; as long as reports  *)
(* take turns at the index it holds the last runs, in their order; and the *)
(* list and the page of a run agree unless its writes were crossed or cut  *)
(* short.  Settings that are read are valid, whatever is stored.           *)
THEOREM RunsAreTold == ObservabilitySpec => []RunsAreToldRight
<1>1. ObservabilityInv => RunsAreToldRight
  BY WhatIsToldIsRight
<1>2. QED
  BY <1>1, ObservabilityInitInv, ObservabilityNextInv, PTL DEF ObservabilitySpec
=============================================================================
