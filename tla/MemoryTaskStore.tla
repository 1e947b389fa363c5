--------------------------- MODULE MemoryTaskStore ---------------------------
(***************************************************************************)
(* runtime/lib/task-store-core.mjs: the store of one process, which the    *)
(* worker uses where no KV is bound, local surfaces always.  It is         *)
(* synchronous: an operation is one expression that looks at the variables *)
(* and says what becomes of them.  The order of the code is kept: a record *)
(* and its snapshot are stored before the event is, which may throw.       *)
(***************************************************************************)
EXTENDS TaskLifecycle, HandoffTokens

CONSTANT NoToken

VARIABLES
    task,       \* tasks.get(taskId)
    snapshots,  \* snapshots.get(taskId)
    events,     \* progressEvents.listByTaskId(taskId)
    consumed    \* the replay memory of handoffTokenService

store == <<task, snapshots, events, consumed>>

(* What the store can hold.  A question that is dismissed leaves a finding *)
(* that is "invalidated", a status nothing else has.  The worker checks no *)
(* field of a task it is given: its state, version and findings are the    *)
(* client's, and a finding may lack the provenance ("raw").  Left out are  *)
(* the shapes with which an operation throws before it stores anything.    *)
MemoryFindings(routes) ==
    [id : FindingIds, status : ProvenanceStatuses \cup {"invalidated"},
     route : routes, shape : {"ledger", "raw"}]

MemoryTasks(routes, actions) ==
    [version : Nat, state : TaskStates, action : actions, progress : Progress,
     route : routes, routes : Seq(routes), findings : Seq(MemoryFindings(routes)),
     updated_at : Clocks]

HasRawFinding(record) == \E i \in DOMAIN record.findings : record.findings[i].shape = "raw"

StoreInit ==
    /\ task = NoTask
    /\ snapshots = << >>
    /\ events = << >>
    /\ consumed = {}

(* What identifies an event, and the time a continuation's event keeps. *)
Event(type, version, token, at) ==
    [type |-> type, version |-> version, token |-> token, at |-> at]

EventId(event) == <<event.type, event.version, event.token>>

IsRecorded(event) == \E i \in DOMAIN events : EventId(events[i]) = EventId(event)

(* ProgressEventStore.append *)
AppendEvent(event) == IF IsRecorded(event) THEN events ELSE Append(events, event)

(* An outcome: the error thrown or "none", the store afterwards, and the   *)
(* created_at of a package.                                                *)
Refused(error) ==
    [error |-> error, task |-> task, snapshots |-> snapshots, events |-> events,
     consumed |-> consumed, created |-> 0]

Committed(next, event) ==
    [Refused(IF IsRecorded(event) THEN "duplicate_event" ELSE "none") EXCEPT
        !.task = next, !.snapshots = Append(@, next), !.events = AppendEvent(event)]

(* The record and its snapshot are stored, and then the event throws.      *)
HalfDone(next, error) ==
    [Refused(error) EXCEPT !.task = next, !.snapshots = Append(@, next)]

Create(request) ==
    IF task # NoTask THEN Refused("conflict")
    ELSE [Refused("none") EXCEPT !.task = request.born, !.snapshots = <<request.born>>]

(* What every mutation checks first. *)
AtVersion(request, outcome) ==
    IF task = NoTask THEN Refused("not_found")
    ELSE IF task.version # request.expected THEN Refused("conflict")
    ELSE outcome

(* A mistake: the task is stored before the transition is checked. *)
TransitionStateUnchecked(request) ==
    AtVersion(request,
        LET next == TransitionPortableTaskState(task, request.state, request.action,
                                                request.progress)
        IN [Committed(next, Event("state_change", next.version, NoToken, 0)) EXCEPT
              !.error = IF TransitionAllowed(task, request.state) THEN @ ELSE "invalid"])

TransitionState(request) ==
    AtVersion(request,
        IF /\ TransitionAllowed(task, request.state)
           /\ MonotonicProgress(task, request.progress)
        THEN LET next == TransitionPortableTaskState(task, request.state,
                                 request.action, request.progress)
             IN Committed(next, Event("state_change", next.version, NoToken, 0))
        ELSE Refused("invalid"))

AppendFinding(request) ==
    AtVersion(request,
        LET next == AppendFindingToTask(task, request.finding)
        IN Committed(next, Event("finding_recorded", next.version, NoToken, 0)))

Upgraded(record, route, level) ==
    [record EXCEPT !.findings   = TransitionFindings(@, route, level),
                   !.version    = @ + 1,
                   !.updated_at = "request"]

(* The event counts the findings that were reclassified, and reads the     *)
(* provenance of each to do so.                                            *)
TransitionFindingsForRouteUpgrade(request) ==
    AtVersion(request,
        LET next == Upgraded(task, request.route, request.level)
        IN IF \/ request.level \notin {"equal", "degraded"}
              \/ ~CanTransitionFindings(task.findings, request.level)
           THEN Refused("invalid")
           ELSE IF HasRawFinding(task) THEN HalfDone(next, "invalid")
           ELSE Committed(next, Event("finding_transitioned", next.version, NoToken, 0)))

SelectRoute(request) ==
    AtVersion(request,
        LET next == AppendRouteSelection(task, request.route)
        IN Committed(next, Event("route_selected", next.version, NoToken, 0)))

ContinuationEvent(token, at) == Event("continuation_created", 0, token, at)

(* The created_at of the package made for a token, if there is one. *)
CanonicalCreatedAt(token, createdAt) ==
    LET made == {e \in {events[i] : i \in DOMAIN events} :
                    e.type = "continuation_created" /\ e.token = token}
    IN IF made = {} THEN createdAt ELSE (CHOOSE e \in made : TRUE).at

(* A package that exists is made again without looking at the token.       *)
CreateContinuationPackage(request) ==
    LET token    == request.token
        now      == request.at
        made     == IsRecorded(ContinuationEvent(token, now))
        verified == VerifyToken(token, request.flaw, now, consumed)
        answer   == [Refused("none") EXCEPT
                        !.created = CanonicalCreatedAt(token, now)]
    IN IF task = NoTask THEN Refused("not_found")
       ELSE IF request.flaw = "task" THEN Refused("another_task")
       ELSE IF request.misfit THEN Refused("invalid")
       ELSE IF made THEN answer
       ELSE IF verified # "none"
            THEN [Refused(verified) EXCEPT
                    !.consumed = IF verified = "already_consumed"
                                 THEN Remembered(@, now) ELSE @]
       ELSE [answer EXCEPT !.consumed = ConsumeToken(token, now, @),
                           !.events = AppendEvent(ContinuationEvent(token, now))]
=============================================================================
