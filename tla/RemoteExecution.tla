--------------------------- MODULE RemoteExecution ---------------------------
(***************************************************************************)
(* A tool run for somebody else: worker/src/handlers/executor.ts takes the *)
(* call and passes it to the Phase-1 executor (worker/executor, a service  *)
(* binding, pure reads) or to the remote executor                          *)
(* (runtime/remote-executor, over HTTP, shell scripts).  The connection    *)
(* may break at any moment, the server may crash and start again, and a    *)
(* script runs on when nobody waits for it any more.                       *)
(***************************************************************************)
EXTENDS Integers, FiniteSets

CONSTANTS
    Calls,       \* calls; one that repeats another is a call of its own
    Requests,    \* what a call may carry: records [via, defect, tool, args, signature]
    Settings     \* how the deployment may be configured: records
                 \* [target, secret, sameSecret, signatureRequired, publicKey]

VARIABLES
    setting,     \* the configuration in force
    serverUp,    \* is the remote executor running?
    call,        \* what each caller asked and was told
    script,      \* the script that runs for a call
    reply        \* the status on its way back, 0 when there is none

executionVars == <<setting, serverUp, call, script, reply>>

Idle == [stage |-> "idle"]
Waiting(request) == [stage |-> "waiting", request |-> request]
Answered(request, status, hasResult) ==
    [stage |-> "answered", request |-> request, status |-> status,
     ok |-> status = 200, hasResult |-> hasResult]

RemoteInit ==
    /\ setting \in Settings
    /\ serverUp = TRUE
    /\ call = [c \in Calls |-> Idle]
    /\ script = [c \in Calls |-> "none"]
    /\ reply = [c \in Calls |-> 0]

----------------------------------------------------------------------------
(* What the three programs refuse.                                         *)

(* validateExecutePayload of the worker, and of the Phase-1 executor. *)
InvalidPayload == {"shape", "blank_tool", "args", "timeout", "request_id", "metadata"}
InvalidPhase1Payload == {"shape", "blank_tool", "args", "timeout", "request_id", "metadata"}

(* validateContract of the remote executor: it neither trims the tool nor  *)
(* looks at request_id and metadata.                                       *)
InvalidContract == {"shape", "args", "timeout"}

ToolScripts == {"sync_tools", "list_tools", "get_config", "skill_stats",
                "context_cost", "validate_all"}

Phase1Tools == {"health_check", "list_phase1_tools", "get_skill_metadata",
                "get_artifact", "skill_stats_cached"}

(* What handleExecute answers before it calls an executor; 0: it calls one. *)
WorkerAnswer(request) ==
    CASE ~setting.secret                      -> 500
      [] request.defect = "json"              -> 400
      [] request.defect \in InvalidPayload    -> 400
      [] setting.target = "none"              -> 500
      [] OTHER                                -> 0

(* verifyRequestSignature: null without a key; a key that is not PEM throws *)
(* an Error, unless the signature is missing.                               *)
SignatureVerified(request) ==
    CASE setting.publicKey = "none"        -> "null"
      [] request.signature = "missing"     -> "false"
      [] setting.publicKey = "unreadable"  -> "throws"
      [] request.signature = "wrong"       -> "false"
      [] OTHER                             -> "true"

(* The handler of the remote executor up to the script; 0: it is started. *)
ServerAnswer(request) ==
    CASE ~setting.sameSecret                                       -> 401
      [] request.defect = "json"                                   -> 400
      [] request.defect \in InvalidContract                        -> 400
      [] SignatureVerified(request) = "throws"                     -> 500
      [] setting.signatureRequired
           /\ SignatureVerified(request) # "true"                  -> 401
      [] request.defect = "blank_tool"
           \/ request.tool \notin ToolScripts                      -> 400
      [] OTHER                                                     -> 0

(* The Phase-1 tools are reads of a store that may be unbound, lack the    *)
(* key, fail, or hold what is not JSON.                                    *)
ReadStatus(store) ==
    CASE store = "absent"                      -> 404
      [] store \in {"malformed", "failing"}    -> 500
      [] OTHER                                 -> 200

GetSkillMetadata(args, store) ==
    CASE args = "missing"    -> 400
      [] store = "unbound"   -> 503
      [] args = "improper"   -> 400
      [] OTHER               -> ReadStatus(store)

GetArtifact(args, store) ==
    CASE args = "missing"    -> 400
      [] store = "unbound"   -> 503
      [] args = "improper"   -> 400
      [] OTHER               -> ReadStatus(store)

SkillStatsCached(store) ==
    IF store \in {"unbound", "absent"} THEN 503 ELSE ReadStatus(store)

DispatchPhase1Tool(request, store) ==
    CASE request.tool = "get_skill_metadata" -> GetSkillMetadata(request.args, store)
      [] request.tool = "get_artifact"       -> GetArtifact(request.args, store)
      [] request.tool = "skill_stats_cached" -> SkillStatsCached(store)
      [] OTHER                               -> 200

Phase1Answer(request, store) ==
    CASE ~setting.sameSecret                            -> 401
      [] request.defect = "json"                        -> 400
      [] request.defect \in InvalidPhase1Payload        -> 400
      [] request.tool \notin Phase1Tools                -> 403
      [] OTHER                                          -> DispatchPhase1Tool(request, store)

Stores == {"unbound", "absent", "malformed", "failing", "ok"}

----------------------------------------------------------------------------

ReachesServer(request) == request.via = "direct" \/ setting.target = "proxy"

(* handleExecute: the call is answered at once or passed on.  A caller     *)
(* with the secret may also call the remote executor directly.             *)
Execute(c, request) ==
    LET status == IF request.via = "direct" THEN 0 ELSE WorkerAnswer(request)
    IN /\ call[c] = Idle
       /\ call' = [call EXCEPT ![c] = IF status = 0 THEN Waiting(request)
                                      ELSE Answered(request, status, FALSE)]
       /\ script' = [script EXCEPT ![c] = IF status = 0 THEN "arriving" ELSE "refused"]
       /\ UNCHANGED <<setting, serverUp, reply>>

(* A mistake: no return after the signature was refused. *)
ServerReceivesWithoutReturn(c) ==
    /\ script[c] = "arriving" /\ serverUp
    /\ ReachesServer(call[c].request)
    /\ LET status == ServerAnswer(call[c].request)
       IN /\ script' = [script EXCEPT ![c] = IF status \in {0, 401} THEN "running" ELSE "refused"]
          /\ reply' = [reply EXCEPT ![c] = status]
    /\ UNCHANGED <<setting, serverUp, call>>

(* The remote executor receives a call: it refuses or starts the script.   *)
ServerReceives(c) ==
    /\ script[c] = "arriving" /\ serverUp
    /\ ReachesServer(call[c].request)
    /\ LET status == ServerAnswer(call[c].request)
       IN /\ script' = [script EXCEPT ![c] = IF status = 0 THEN "running" ELSE "refused"]
          /\ reply' = [reply EXCEPT ![c] = status]
    /\ UNCHANGED <<setting, serverUp, call>>

(* The Phase-1 executor receives a call and answers it in one go. *)
Phase1Receives(c, store) ==
    /\ script[c] = "arriving"
    /\ ~ReachesServer(call[c].request)
    /\ script' = [script EXCEPT ![c] = "refused"]
    /\ reply' = [reply EXCEPT ![c] = Phase1Answer(call[c].request, store)]
    /\ UNCHANGED <<setting, serverUp, call>>

(* execFile: the script exits with 0 and its output is parsed, exits with  *)
(* something else, or runs out of time or of buffer and is killed.  One    *)
(* whose server is gone, or whose shell was killed while its own children  *)
(* run on, ends for nobody.                                                *)
ScriptEnds(c, how) ==
    /\ script[c] = "running"
    /\ script' = [script EXCEPT ![c] = how]
    /\ reply' = [reply EXCEPT ![c] = IF how = "exited" THEN 200 ELSE 500]
    /\ UNCHANGED <<setting, serverUp, call>>

OrphanEnds(c) ==
    /\ script[c] = "orphan"
    /\ script' = [script EXCEPT ![c] = "exited"]
    /\ UNCHANGED <<setting, serverUp, call, reply>>

ServerCrashes ==
    /\ serverUp
    /\ serverUp' = FALSE
    /\ script' = [c \in Calls |-> IF script[c] = "running" THEN "orphan" ELSE script[c]]
    /\ reply' = [c \in Calls |-> IF call[c] # Idle /\ ReachesServer(call[c].request)
                                 THEN 0 ELSE reply[c]]
    /\ UNCHANGED <<setting, call>>

ServerStarts ==
    /\ ~serverUp
    /\ serverUp' = TRUE
    /\ UNCHANGED <<setting, call, script, reply>>

(* The answer arrives, whole or cut off: response.json() then fails and    *)
(* the caller gets the status with a null result.                          *)
Deliver(c, whole) ==
    /\ call[c].stage = "waiting" /\ reply[c] # 0
    /\ call' = [call EXCEPT ![c] =
          Answered(@.request, reply[c], whole /\ reply[c] = 200)]
    /\ reply' = [reply EXCEPT ![c] = 0]
    /\ UNCHANGED <<setting, serverUp, script>>

(* A mistake: the timer is disarmed as soon as the request is out. *)
UpstreamTimeoutUnlessSent(c) ==
    /\ call[c].stage = "waiting" /\ script[c] = "arriving"
    /\ call' = [call EXCEPT ![c] = Answered(@.request, 504, FALSE)]
    /\ UNCHANGED <<setting, serverUp, script, reply>>

(* AbortSignal.timeout, or the connection breaks: the caller is told       *)
(* UPSTREAM_TIMEOUT.  What was sent is received all the same, or never     *)
(* (RequestIsLost).                                                        *)
UpstreamTimeout(c) ==
    /\ call[c].stage = "waiting"
    /\ call' = [call EXCEPT ![c] = Answered(@.request, 504, FALSE)]
    /\ UNCHANGED <<setting, serverUp, script, reply>>

RequestIsLost(c) ==
    /\ script[c] = "arriving"
    /\ script' = [script EXCEPT ![c] = "refused"]
    /\ UNCHANGED <<setting, serverUp, call, reply>>

RemoteNext ==
    \/ ServerCrashes \/ ServerStarts
    \/ \E c \in Calls :
          \/ \E r \in Requests : Execute(c, r)
          \/ ServerReceives(c)
          \/ \E s \in Stores : Phase1Receives(c, s)
          \/ \E how \in {"exited", "failed", "killed"} : ScriptEnds(c, how)
          \/ OrphanEnds(c)
          \/ \E whole \in BOOLEAN : Deliver(c, whole)
          \/ UpstreamTimeout(c)
          \/ RequestIsLost(c)

(* Only the proxied fetch has a timer: invokeExecutorServiceBinding        *)
(* computes timeoutMs and does not use it.                                 *)
TimerRuns(c) ==
    /\ call[c].stage = "waiting"
    /\ call[c].request.via = "worker" /\ setting.target = "proxy"
    /\ UpstreamTimeout(c)

----------------------------------------------------------------------------

(* An answer tells what happened to the script: 200 only when it exited    *)
(* with 0 (or was a Phase-1 read), a refusal only when it never began, an  *)
(* error of the remote executor never for a script that exited; a result   *)
(* comes with 200 only.  504 says nothing: the script may not have begun,  *)
(* may be running, or may be done.                                         *)
AnswersTellWhatRan ==
    \A c \in Calls : call[c].stage = "answered" =>
        /\ call[c].hasResult => call[c].ok
        /\ ReachesServer(call[c].request) =>
              /\ call[c].status = 200 => script[c] = "exited"
              /\ call[c].status \in {400, 401, 403} => script[c] = "refused"
              /\ call[c].status = 500 => script[c] \in {"failed", "killed", "refused"}

(* A call that went through the proxy is answered, whatever happens to the *)
(* server, its script and the connection.                                  *)
EveryCallIsAnswered ==
    \A c \in Calls :
        (call[c].stage = "waiting" /\ setting.target = "proxy"
           /\ call[c].request.via = "worker") ~> (call[c].stage = "answered")
=============================================================================
