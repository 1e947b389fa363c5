------------------------------- MODULE TaskApi -------------------------------
(***************************************************************************)
(* The worker with its in-memory store: routing, authorisation, validation *)
(* and the task handlers (worker/src/router.ts, auth.ts, validation/       *)
(* tasks.ts, task-mutation-context.ts, handlers/tasks.ts, task-runtime.ts) *)
(* over MemoryTaskStore, for one task.                                     *)
(*                                                                         *)
(* A handler yields at its awaits.  Reading the body touches no state; a   *)
(* command then looks the task up for its context, awaits, and calls the   *)
(* service; a continuation calls the service, awaits, and remembers its    *)
(* fingerprint.  Only these two leave a request under way.                 *)
(***************************************************************************)
EXTENDS MemoryTaskStore, Router, FiniteSets

CONSTANTS
    Slots,            \* requests under way at the same time
    Requests,         \* the requests clients may send
    Contracts,        \* effective execution contracts
    SigningKey,       \* HANDOFF_TOKEN_SIGNING_KEY is set
    MaxFingerprints   \* MAX_CONTINUATION_FINGERPRINTS

ASSUME TaskApiAssumption ==
    /\ SigningKey \in BOOLEAN
    /\ MaxFingerprints \in Nat \ {0}
    /\ NoTask \notin MemoryTasks(Routes, NextActions)

(* What validation leaves through to the handlers: a creation is any JSON  *)
(* object, so that the task it is born as is the client's choice.          *)
ASSUME RequestsAssumption ==
    \A r \in Requests :
        /\ r.route \in Routes /\ r.state \in TaskStates /\ r.action \in NextActions
        /\ r.progress \in Progress /\ r.finding \in Findings
        /\ r.token \in Tokens /\ r.at \in Nat
        /\ r.born \in MemoryTasks(Routes, NextActions)
        /\ "finding" \in DOMAIN r

VARIABLES
    boundary,      \* owner and workspace of the task
    fingerprints,  \* continuationFingerprints, oldest first
    calls,         \* calls[s]: the request under way in slot s
    answer,        \* the last answer: which handler gave it, and its status
    packages,      \* history: the packages made, with token and contract
    loosened       \* history: tokens whose fingerprint was dropped, or
                   \* that two requests presented at once

apiVars == <<boundary, fingerprints, calls, packages, loosened>>
vars == <<store, apiVars, answer>>

(* What the states are told apart by: nothing depends on the last answer.  *)
View == <<store, apiVars>>

NoBoundary == [owner |-> "none", workspace |-> "none"]
IdleCall == [stage |-> "idle"]
NoAnswer == [handler |-> "none", wanted |-> "none", status |-> 0]

Init ==
    /\ StoreInit
    /\ boundary = NoBoundary
    /\ fingerprints = << >>
    /\ calls = [s \in Slots |-> IdleCall]
    /\ answer = NoAnswer
    /\ packages = {}
    /\ loosened = {}

----------------------------------------------------------------------------
(* Validation: the fields a payload must have, and those it may leave out. *)
(* A request carries at most one fault, a field that is absent or of the   *)
(* wrong shape.                                                            *)

Fields(required, optional) == [required |-> required, optional |-> optional]

TaskCreatePayload == Fields({}, {})
TaskStatePayload ==
    Fields({"expected_version", "next_state", "next_action", "updated_at"},
           {"idempotency_key", "progress"})
RouteSelectionPayload ==
    Fields({"expected_version", "route_id", "selected_at"}, {"idempotency_key"})
ContinuationPayload ==
    Fields({"handoff_token", "effective_execution_contract"}, {"created_at"})
AppendFindingPayload ==
    Fields({"expected_version", "finding", "updated_at"}, {"idempotency_key"})
TransitionFindingsPayload ==
    Fields({"expected_version", "to_route_id", "upgraded_at",
            "to_equivalence_level"}, {})
AnswerQuestionPayload ==
    Fields({"expected_version", "answer"},
           {"idempotency_key", "answered_at", "answered_by_route"})
DismissQuestionPayload ==
    Fields({"expected_version"},
           {"idempotency_key", "dismissed_at", "dismissed_by_route", "reason"})

PayloadOf ==
    [handleTaskCreate             |-> TaskCreatePayload,
     handleTaskTransitionState    |-> TaskStatePayload,
     handleTaskRouteSelection     |-> RouteSelectionPayload,
     handleTaskContinuation       |-> ContinuationPayload,
     handleTaskAppendFinding      |-> AppendFindingPayload,
     handleTaskTransitionFindings |-> TransitionFindingsPayload,
     handleTaskAnswerQuestion     |-> AnswerQuestionPayload,
     handleTaskDismissQuestion    |-> DismissQuestionPayload]

IsValid(payload, fault) ==
    /\ fault.field \in payload.required => fault.how = "none"
    /\ fault.field \in payload.optional => fault.how # "bad"

----------------------------------------------------------------------------
(* The mutation context of a command.  The principal is always the owner   *)
(* in the default workspace, and names no repository.                      *)

Principal == [owner |-> "owner", workspace |-> "default"]

ResolveMutationContext ==
    IF task = NoTask THEN "task_not_found"
    ELSE IF boundary.workspace # Principal.workspace THEN "workspace_mismatch"
    ELSE IF boundary.owner # Principal.owner THEN "unauthorized"
    ELSE "ok"

(* taskErrorResponse, and validationError for what it does not know.       *)
ErrorStatus(error) ==
    CASE error = "none"      -> 200
      [] error = "not_found" -> 404
      [] error = "conflict"  -> 409
      [] error \in {"expired", "already_consumed"} -> 403
      [] error \in {"task_id_mismatch", "invalid_lifetime_window",
                    "not_active_yet", "invalid_signature",
                    "another_task"} -> 401
      [] OTHER -> 400

----------------------------------------------------------------------------
(* Handlers *)

(* The finding a question is closed with. *)
AnswerFinding(request) ==
    [id |-> request.finding.id, status |-> "verified", route |-> request.route]
DismissFinding(request) ==
    [id |-> request.finding.id, status |-> "invalidated", route |-> request.route]

(* createTaskControlPlaneServiceCore: which operation of the store a       *)
(* handler comes down to.                                                  *)
Service(handler, request) ==
    CASE handler = "handleTaskCreate"          -> Create(request)
      [] handler = "handleTaskTransitionState" -> TransitionState(request)
      [] handler = "handleTaskRouteSelection"  -> SelectRoute(request)
      [] handler = "handleTaskAppendFinding"   -> AppendFinding(request)
      [] handler = "handleTaskTransitionFindings" ->
             TransitionFindingsForRouteUpgrade(request)
      [] handler = "handleTaskAnswerQuestion" ->
             AppendFinding([request EXCEPT !.finding = AnswerFinding(request)])
      [] handler = "handleTaskDismissQuestion" ->
             AppendFinding([request EXCEPT !.finding = DismissFinding(request)])

Success(handler) ==
    IF handler \in {"handleTaskCreate", "handleTaskAppendFinding",
                    "handleTaskAnswerQuestion", "handleTaskDismissQuestion"}
    THEN 201 ELSE 200

(* Handlers that only read.  The store in memory has no list and looks     *)
(* nothing up by code or name, and only DualWriteTaskStore can repair.     *)
TaskGet == IF task = NoTask THEN 404 ELSE 200
ProgressEvents == IF task = NoTask THEN 404 ELSE 200
Readiness == IF task = NoTask THEN 404 ELSE 200
AvailableRoutes == IF task = NoTask THEN 404 ELSE 200

Snapshots(request) ==
    IF Len(request.path) = 3 THEN (IF task = NoTask THEN 404 ELSE 200)
    ELSE IF request.number <= 0 THEN 400
    ELSE IF \E i \in DOMAIN snapshots : snapshots[i].version = request.number
    THEN 200 ELSE 404

TaskList(request) == IF request.number <= 0 THEN 400 ELSE 200
HubLatest == 200
ByCodeOrName == 500
ProjectionRepair == 400

ReadStatus(handler, request) ==
    CASE handler = "handleTaskGet"              -> TaskGet
      [] handler = "handleTaskProgressEvents"   -> ProgressEvents
      [] handler = "handleTaskReadiness"        -> Readiness
      [] handler = "handleTaskAvailableRoutes"  -> AvailableRoutes
      [] handler = "handleTaskSnapshots"        -> Snapshots(request)
      [] handler = "handleTaskList"             -> TaskList(request)
      [] handler = "handleHubLatest"            -> HubLatest
      [] handler \in {"handleTaskByCode", "handleTaskByName"} -> ByCodeOrName
      [] handler = "handleTaskProjectionRepair" -> ProjectionRepair

Answers(request, handler, status) ==
    answer' = [handler |-> handler, wanted |-> request.wanted, status |-> status]

Answered(request, handler, status) ==
    /\ Answers(request, handler, status)
    /\ UNCHANGED <<store, apiVars>>

Stored(outcome) ==
    /\ task' = outcome.task
    /\ snapshots' = outcome.snapshots
    /\ events' = outcome.events
    /\ consumed' = outcome.consumed

Apply(request, handler) ==
    LET outcome == Service(handler, request) IN
    /\ Stored(outcome)
    /\ boundary' = IF handler = "handleTaskCreate" /\ outcome.error = "none"
                   THEN request.boundary ELSE boundary
    /\ Answers(request, handler, IF outcome.error = "none" THEN Success(handler)
                                 ELSE ErrorStatus(outcome.error))
    /\ UNCHANGED <<fingerprints, packages, loosened>>

(* A mistake: the contract is no part of the fingerprint. *)
FingerprintOfTokenOnly(request) == [token |-> request.token, contract |-> "any"]

Fingerprint(request) == [token |-> request.token, contract |-> request.contract]

FingerprintOf(token) ==
    {f \in {fingerprints[i] : i \in DOMAIN fingerprints} : f.token = token}

(* setContinuationFingerprint, of a token that has none. *)
WithFingerprint(fingerprint) ==
    LET longer == Append(fingerprints, fingerprint)
    IN IF Len(longer) > MaxFingerprints THEN Tail(longer) ELSE longer

UnderWay(token) ==
    \E s \in Slots : calls[s].stage = "remember" /\ calls[s].fingerprint.token = token

(* handleTaskContinuation up to the answer of the service. *)
Continue(s, request) ==
    LET handler  == "handleTaskContinuation"
        known    == FingerprintOf(request.token)
        outcome  == CreateContinuationPackage(request)
    IN IF ~SigningKey THEN Answered(request, handler, 500)
       ELSE IF known # {} /\ known # {Fingerprint(request)}
       THEN Answered(request, handler, 403)
       ELSE /\ Stored(outcome)
            /\ UNCHANGED <<boundary, fingerprints>>
            /\ IF outcome.error = "none"
               THEN /\ calls' = [calls EXCEPT ![s] =
                         [stage |-> "remember", replayed |-> known # {},
                          fingerprint |-> Fingerprint(request)]]
                    /\ packages' = packages \cup
                         {[token |-> request.token, contract |-> request.contract,
                           created |-> outcome.created]}
                    /\ loosened' = IF UnderWay(request.token)
                                   THEN loosened \cup {request.token} ELSE loosened
                    /\ answer' = NoAnswer
               ELSE /\ Answers(request, handler, ErrorStatus(outcome.error))
                    /\ UNCHANGED <<calls, packages, loosened>>

(* ... and after it. *)
Remember(s) ==
    /\ calls[s].stage = "remember"
    /\ LET fingerprint == calls[s].fingerprint IN
       fingerprints' = IF FingerprintOf(fingerprint.token) = {}
                       THEN WithFingerprint(fingerprint) ELSE fingerprints
    /\ loosened' = loosened \cup
          {f.token : f \in {fingerprints[i] : i \in DOMAIN fingerprints}
                           \ {fingerprints'[i] : i \in DOMAIN fingerprints'}}
    /\ answer' = [handler |-> "handleTaskContinuation",
                  wanted |-> "handleTaskContinuation",
                  status |-> IF calls[s].replayed THEN 200 ELSE 201]
    /\ calls' = [calls EXCEPT ![s] = IdleCall]
    /\ UNCHANGED <<store, boundary, packages>>

(* A command: its context, and after the await its execution. *)
Resolve(s, request, handler) ==
    IF ResolveMutationContext = "ok"
    THEN /\ calls' = [calls EXCEPT ![s] = [stage |-> "execute", request |-> request,
                                           handler |-> handler]]
         /\ answer' = NoAnswer
         /\ UNCHANGED <<store, boundary, fingerprints, packages, loosened>>
    ELSE Answered(request, handler, 400)

HandleTaskTransitionState(s, request) == Resolve(s, request, "handleTaskTransitionState")
HandleTaskRouteSelection(s, request) == Resolve(s, request, "handleTaskRouteSelection")
HandleTaskAppendFinding(s, request) == Resolve(s, request, "handleTaskAppendFinding")

Execute(s) ==
    /\ calls[s].stage = "execute"
    /\ Apply(calls[s].request, calls[s].handler)
    /\ calls' = [calls EXCEPT ![s] = IdleCall]

----------------------------------------------------------------------------
(* fetch *)

RefusedBy == [corsPreflightResponse |-> 204, unauthorizedResponse |-> 401,
              methodNotAllowed |-> 405, notFound |-> 404]

TaskReaders == {"handleTaskGet", "handleTaskAvailableRoutes",
                "handleTaskProgressEvents", "handleTaskReadiness",
                "handleTaskSnapshots", "handleTaskList", "handleHubLatest",
                "handleTaskByCode", "handleTaskByName",
                "handleTaskProjectionRepair"}

HasBody(handler, request) ==
    request.fault.field # "json" /\ IsValid(PayloadOf[handler], request.fault)

(* What answers a request. *)
Dispatched ==
    [r \in Requests |-> Dispatch(r.method, r.path, r.authorized)]

(* The handlers that are not about tasks are other modules' business.      *)
Fetch(s, request) ==
    LET handler == Dispatched[request]
    IN /\ calls[s] = IdleCall
       /\ CASE handler \in DOMAIN RefusedBy ->
                  Answered(request, handler, RefusedBy[handler])
            [] handler \in TaskReaders ->
                  Answered(request, handler, ReadStatus(handler, request))
            [] handler \in DOMAIN PayloadOf /\ ~HasBody(handler, request) ->
                  Answered(request, handler, 400)
            [] handler = "handleTaskTransitionState" /\ HasBody(handler, request) ->
                  HandleTaskTransitionState(s, request)
            [] handler = "handleTaskRouteSelection" /\ HasBody(handler, request) ->
                  HandleTaskRouteSelection(s, request)
            [] handler = "handleTaskAppendFinding" /\ HasBody(handler, request) ->
                  HandleTaskAppendFinding(s, request)
            [] handler = "handleTaskContinuation" /\ HasBody(handler, request) ->
                  Continue(s, request)
            [] handler \in {"handleTaskCreate", "handleTaskTransitionFindings",
                            "handleTaskAnswerQuestion", "handleTaskDismissQuestion"}
                  /\ HasBody(handler, request) ->
                  Apply(request, handler) /\ UNCHANGED calls
            [] OTHER -> Answered(request, handler, 200)

Next ==
    \E s \in Slots :
        \/ \E request \in Requests : Fetch(s, request)
        \/ Execute(s)
        \/ Remember(s)

Spec == Init /\ [][Next]_vars

----------------------------------------------------------------------------
(* Properties *)

(* Whatever route a client means, the handler of that route answers it: no *)
(* pattern of router.ts catches what a later literal path spells out.      *)
RequestsReachTheirHandler ==
    [][answer'.wanted # "none" => answer'.handler = answer'.wanted]_vars

(* All of an upgrade but its event, which leaves the findings as they were. *)
Touched(record) == [record EXCEPT !.version = @ + 1, !.updated_at = "request"]

UpgradeWithoutEvent ==
    /\ task # NoTask /\ HasRawFinding(task)
    /\ task' = Touched(task)
    /\ snapshots' = Append(snapshots, task')

(* A client that is told an error finds the task, its snapshots and its    *)
(* events as they were, with one exception.  The store writes the record   *)
(* before the event that may throw (task-store-core.mjs, 175-191), and of  *)
(* all that can go wrong between the two one thing can be met: a degraded  *)
(* upgrade of a task that was created with a finding without provenance    *)
(* (259-278).  It raises the version and changes nothing else.             *)
OnlyAnUpgradeIsHalfDone ==
    [][answer'.status >= 400 =>
          /\ UNCHANGED <<events, boundary>>
          /\ UNCHANGED <<task, snapshots>> \/ UpgradeWithoutEvent]_vars

(* Whatever times the clients send and however requests overlap, all the   *)
(* packages for one token carry the same created_at (task-store-core.mjs,  *)
(* 412-423).                                                               *)
OnePackagePerToken ==
    \A p, q \in packages : p.token = q.token => p.created = q.created

(* A token is bound to one contract (handlers/tasks.ts, 420-448), unless   *)
(* its fingerprint has been pushed out of the full map or two requests     *)
(* presented it at the same time.                                          *)
OneContractPerToken ==
    \A p, q \in packages :
        p.token = q.token /\ p.token \notin loosened => p.contract = q.contract

(* A handoff token stands for one continuation.                            *)
TokensStandForOneContinuation == OnePackagePerToken /\ OneContractPerToken
=============================================================================
