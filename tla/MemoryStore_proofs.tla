-------------------------- MODULE MemoryStore_proofs --------------------------
(***************************************************************************)
(* The safety of the in-memory store under its two users, for every set of *)
(* requests, tokens, slots and hosts: the worker's handlers (TaskApi) and  *)
(* the journey of a review (TaskJourney).                                  *)
(***************************************************************************)
EXTENDS TaskApi, TaskJourney, Operators_proofs, FiniteSetTheorems

----------------------------------------------------------------------------
(* The store *)

EventTypes ==
    {"state_change", "finding_recorded", "finding_transitioned", "route_selected",
     "continuation_created", "state_change_start", "route_selected_resume"}

Events ==
    [type : EventTypes, version : Nat, token : Tokens \cup {NoToken}, at : Nat]

(* An update with EXCEPT keeps the fields of the record; it is a task when *)
(* every field has its type.                                               *)
LEMMA MemoryTaskFields ==
    ASSUME NEW routes, NEW actions, NEW t \in MemoryTasks(routes, actions), NEW next,
           DOMAIN next = DOMAIN t, next = [f \in DOMAIN next |-> next[f]],
           next.version \in Nat, next.state \in TaskStates,
           next.action \in actions, next.progress \in Progress,
           next.route \in routes, next.routes \in Seq(routes),
           next.findings \in Seq(MemoryFindings(routes)), next.updated_at \in Clocks
    PROVE  next \in MemoryTasks(routes, actions)
BY DEF MemoryTasks

LEMMA MemoryTaskTypes ==
    ASSUME NEW routes, NEW actions, NEW t \in MemoryTasks(routes, actions)
    PROVE  /\ t.version \in Nat /\ t.state \in TaskStates
           /\ t.action \in actions /\ t.progress \in Progress
           /\ t.route \in routes /\ t.routes \in Seq(routes)
           /\ t.findings \in Seq(MemoryFindings(routes)) /\ t.updated_at \in Clocks
BY DEF MemoryTasks

(* Every operation makes a record of the store of one, and raises its      *)
(* version by one.                                                         *)
LEMMA CreateType ==
    ASSUME NEW routes, NEW actions, NEW route \in routes, NEW action \in actions,
           NEW total \in Nat
    PROVE  LET born == CreatePortableTask(route, action, total) IN
           /\ born \in MemoryTasks(routes, actions)
           /\ born.version = 1 /\ born.state = "pending"
           /\ born.progress = [done |-> 0, total |-> total]
           /\ born.route = route /\ born.routes = <<route>> /\ born.findings = << >>
BY DEF CreatePortableTask, MemoryTasks, TaskStates, Progress, MemoryFindings, Clocks

LEMMA SelectRouteType ==
    ASSUME NEW routes, NEW actions, NEW t \in MemoryTasks(routes, actions),
           NEW route \in routes
    PROVE  LET next == AppendRouteSelection(t, route) IN
           /\ next \in MemoryTasks(routes, actions)
           /\ next.version = t.version + 1 /\ next.state = t.state
           /\ next.action = t.action /\ next.progress = t.progress
           /\ next.route = route /\ next.routes = Append(t.routes, route)
           /\ next.findings = t.findings
<1>. DEFINE next == AppendRouteSelection(t, route)
<1>1. DOMAIN next = DOMAIN t /\ next = [f \in DOMAIN next |-> next[f]]
    BY DEF AppendRouteSelection
<1>2. /\ next.version = t.version + 1 /\ next.state = t.state
      /\ next.action = t.action /\ next.progress = t.progress
      /\ next.route = route /\ next.routes = Append(t.routes, route)
      /\ next.findings = t.findings
      /\ next.updated_at = "request"
    BY DEF AppendRouteSelection, MemoryTasks
<1>. HIDE DEF next
<1>3. next.version \in Nat /\ next.routes \in Seq(routes)
    BY <1>2, MemoryTaskTypes
<1>5. next.updated_at \in Clocks
    BY <1>2 DEF Clocks
<1>4. next \in MemoryTasks(routes, actions)
    BY <1>1, <1>2, <1>3, <1>5, MemoryTaskTypes, MemoryTaskFields
<1>. QED
    BY <1>2, <1>4 DEF next

LEMMA TransitionStateType ==
    ASSUME NEW routes, NEW actions, NEW t \in MemoryTasks(routes, actions),
           NEW state \in TaskStates, NEW action \in actions, NEW progress \in Progress
    PROVE  LET next == TransitionPortableTaskState(t, state, action, progress) IN
           /\ next \in MemoryTasks(routes, actions)
           /\ next.version = t.version + 1 /\ next.state = state
           /\ next.action = action /\ next.progress = progress
           /\ next.route = t.route /\ next.routes = t.routes
           /\ next.findings = t.findings
<1>. DEFINE next == TransitionPortableTaskState(t, state, action, progress)
<1>1. DOMAIN next = DOMAIN t /\ next = [f \in DOMAIN next |-> next[f]]
    BY DEF TransitionPortableTaskState
<1>2. /\ next.version = t.version + 1 /\ next.state = state
      /\ next.action = action /\ next.progress = progress
      /\ next.route = t.route /\ next.routes = t.routes
      /\ next.findings = t.findings
      /\ next.updated_at = "request"
    BY DEF TransitionPortableTaskState, MemoryTasks
<1>. HIDE DEF next
<1>3. next.version \in Nat
    BY <1>2, MemoryTaskTypes
<1>5. next.updated_at \in Clocks
    BY <1>2 DEF Clocks
<1>4. next \in MemoryTasks(routes, actions)
    BY <1>1, <1>2, <1>3, <1>5, MemoryTaskTypes, MemoryTaskFields
<1>. QED
    BY <1>2, <1>4 DEF next

LEMMA AppendFindingType ==
    ASSUME NEW routes, NEW actions, NEW t \in MemoryTasks(routes, actions),
           NEW finding, LedgerEntry(finding) \in MemoryFindings(routes)
    PROVE  LET next == AppendFindingToTask(t, finding) IN
           /\ next \in MemoryTasks(routes, actions)
           /\ next.version = t.version + 1 /\ next.state = t.state
           /\ next.action = t.action /\ next.progress = t.progress
           /\ next.route = t.route /\ next.routes = t.routes
           /\ next.findings = Append(t.findings, LedgerEntry(finding))
<1>. DEFINE next == AppendFindingToTask(t, finding)
<1>1. DOMAIN next = DOMAIN t /\ next = [f \in DOMAIN next |-> next[f]]
    BY DEF AppendFindingToTask
<1>2. /\ next.version = t.version + 1 /\ next.state = t.state
      /\ next.action = t.action /\ next.progress = t.progress
      /\ next.route = t.route /\ next.routes = t.routes
      /\ next.findings = Append(t.findings, LedgerEntry(finding))
      /\ next.updated_at = "request"
    BY DEF AppendFindingToTask, MemoryTasks
<1>. HIDE DEF next
<1>3. next.version \in Nat /\ next.findings \in Seq(MemoryFindings(routes))
    BY <1>2, MemoryTaskTypes
<1>5. next.updated_at \in Clocks
    BY <1>2 DEF Clocks
<1>4. next \in MemoryTasks(routes, actions)
    BY <1>1, <1>2, <1>3, <1>5, MemoryTaskTypes, MemoryTaskFields
<1>. QED
    BY <1>2, <1>4 DEF next

(* A route upgrade looks at each finding by itself.                        *)
LEMMA UpgradeType ==
    ASSUME NEW routes, NEW findings \in Seq(MemoryFindings(routes)),
           NEW route \in routes, NEW level
    PROVE  LET after == TransitionFindings(findings, route, level) IN
           /\ after \in Seq(MemoryFindings(routes))
           /\ Len(after) = Len(findings)
           /\ \A i \in 1..Len(findings) :
                 after[i] = IF level = "equal" THEN TransitionEntry(findings[i], route)
                            ELSE findings[i]
<1>. DEFINE after == TransitionFindings(findings, route, level)
<1>1. ASSUME NEW i \in 1..Len(findings)
      PROVE  TransitionEntry(findings[i], route) \in MemoryFindings(routes)
    <2>1. findings[i] \in MemoryFindings(routes)
        OBVIOUS
    <2>. QED
        BY <2>1 DEF TransitionEntry, MemoryFindings, ProvenanceStatuses
<1>2. CASE level = "equal"
    <2>1. after = [i \in 1..Len(findings) |-> TransitionEntry(findings[i], route)]
        BY <1>2 DEF TransitionFindings
    <2>2. \A i \in 1..Len(findings) : after[i] = TransitionEntry(findings[i], route)
        BY <2>1
    <2>3. after \in Seq(MemoryFindings(routes)) /\ Len(after) = Len(findings)
        BY <1>1, <2>1
    <2>. QED
        BY <1>2, <2>2, <2>3
<1>3. CASE level # "equal"
    BY <1>3 DEF TransitionFindings
<1>. QED
    BY <1>2, <1>3

LEMMA UpgradedTaskType ==
    ASSUME NEW routes, NEW actions, NEW t \in MemoryTasks(routes, actions),
           NEW route \in routes, NEW level
    PROVE  LET next == Upgraded(t, route, level) IN
           /\ next \in MemoryTasks(routes, actions)
           /\ next.version = t.version + 1 /\ next.state = t.state
           /\ next.action = t.action /\ next.progress = t.progress
           /\ next.route = t.route /\ next.routes = t.routes
           /\ next.findings = TransitionFindings(t.findings, route, level)
<1>. DEFINE next == Upgraded(t, route, level)
<1>1. DOMAIN next = DOMAIN t /\ next = [f \in DOMAIN next |-> next[f]]
    BY DEF Upgraded
<1>2. /\ next.version = t.version + 1 /\ next.state = t.state
      /\ next.action = t.action /\ next.progress = t.progress
      /\ next.route = t.route /\ next.routes = t.routes
      /\ next.findings = TransitionFindings(t.findings, route, level)
      /\ next.updated_at = "request"
    BY DEF Upgraded, MemoryTasks
<1>. HIDE DEF next
<1>3. next.version \in Nat /\ next.findings \in Seq(MemoryFindings(routes))
    BY <1>2, MemoryTaskTypes, UpgradeType
<1>5. next.updated_at \in Clocks
    BY <1>2 DEF Clocks
<1>4. next \in MemoryTasks(routes, actions)
    BY <1>1, <1>2, <1>3, <1>5, MemoryTaskTypes, MemoryTaskFields
<1>. QED
    BY <1>2, <1>4 DEF next

(* What the store holds, and the fact on which its atomicity rests: the    *)
(* event of a change bears a version no event can have yet.                *)
StoreOK(routes, actions) ==
    /\ task \in MemoryTasks(routes, actions) \cup {NoTask}
    /\ events \in Seq(Events)
    /\ \A i \in 1..Len(events) :
          events[i].type # "continuation_created" =>
             task # NoTask /\ events[i].version <= task.version

(* The outcome of an operation that refuses ...                            *)
Refuses(outcome) ==
    /\ outcome.error \in {"not_found", "conflict", "invalid"}
    /\ outcome.task = task /\ outcome.snapshots = snapshots
    /\ outcome.events = events /\ outcome.consumed = consumed

(* ... and of one that changes the record, and says so in an event.        *)
Changes(outcome, next, type) ==
    /\ outcome.error = "none"
    /\ outcome.task = next
    /\ outcome.snapshots = Append(snapshots, next)
    /\ outcome.events = Append(events, Event(type, next.version, NoToken, 0))
    /\ outcome.consumed = consumed

(* ... and of the one that stores a record and then throws.                *)
Halves(outcome, next) ==
    /\ outcome.error = "invalid"
    /\ outcome.task = next
    /\ outcome.snapshots = Append(snapshots, next)
    /\ outcome.events = events
    /\ outcome.consumed = consumed

ChangeTypes == {"state_change", "finding_recorded", "finding_transitioned", "route_selected"}

LEMMA RefusedFields ==
    ASSUME NEW error
    PROVE  /\ Refused(error).error = error /\ Refused(error).task = task
           /\ Refused(error).snapshots = snapshots /\ Refused(error).events = events
           /\ Refused(error).consumed = consumed /\ Refused(error).created = 0
BY DEF Refused

LEMMA RefusedRefuses ==
    ASSUME NEW error \in {"not_found", "conflict", "invalid"}
    PROVE  Refuses(Refused(error))
BY RefusedFields DEF Refuses

(* The event of a change is new, so that storing it cannot throw after the *)
(* record was stored.                                                      *)
LEMMA ChangeIsNew ==
    ASSUME NEW routes, NEW actions, StoreOK(routes, actions), task # NoTask,
           NEW type \in ChangeTypes
    PROVE  ~IsRecorded(Event(type, task.version + 1, NoToken, 0))
<1>. SUFFICES ASSUME NEW i \in 1..Len(events),
                     EventId(events[i]) = EventId(Event(type, task.version + 1, NoToken, 0))
              PROVE  FALSE
    BY DEF IsRecorded, StoreOK
<1>1. events[i].type = type /\ events[i].version = task.version + 1
    BY DEF EventId, Event
<1>2. events[i] \in Events /\ task.version \in Nat
    BY MemoryTaskTypes DEF StoreOK
<1>3. events[i].version <= task.version
    BY <1>1 DEF StoreOK, ChangeTypes
<1>. QED
    BY <1>1, <1>2, <1>3 DEF Events

LEMMA CommittedChanges ==
    ASSUME NEW routes, NEW actions, StoreOK(routes, actions), task # NoTask,
           NEW type \in ChangeTypes, NEW next, next.version = task.version + 1
    PROVE  Changes(Committed(next, Event(type, next.version, NoToken, 0)), next, type)
<1>. DEFINE event == Event(type, next.version, NoToken, 0)
<1>1. ~IsRecorded(event)
    BY ChangeIsNew
<1>. HIDE DEF event
<1>2. AppendEvent(event) = Append(events, event)
    BY <1>1 DEF AppendEvent
<1>3. Committed(next, event) =
         [Refused("none") EXCEPT !.task = next, !.snapshots = Append(@, next),
                                 !.events = Append(events, event)]
    BY <1>1, <1>2 DEF Committed
<1>4. Changes(Committed(next, event), next, type)
    BY <1>3 DEF Refused, Changes, event
<1>. QED
    BY <1>4 DEF event

LEMMA AtVersionChecks ==
    ASSUME NEW request, NEW outcome
    PROVE  IF task # NoTask /\ task.version = request.expected
           THEN AtVersion(request, outcome) = outcome
           ELSE Refuses(AtVersion(request, outcome))
BY RefusedRefuses DEF AtVersion

(* createTask, transitionState, appendFinding, selectRoute and             *)
(* transitionFindingsForRouteUpgrade: when they refuse, and what they      *)
(* change when they do not.                                                *)
LEMMA CreateOutcome ==
    ASSUME NEW request
    PROVE  LET outcome == Create(request)
           IN IF task # NoTask THEN Refuses(outcome)
              ELSE /\ outcome.error = "none" /\ outcome.task = request.born
                   /\ outcome.snapshots = <<request.born>> /\ outcome.events = events
                   /\ outcome.consumed = consumed
<1>1. CASE task # NoTask
    BY <1>1, RefusedRefuses DEF Create
<1>2. CASE task = NoTask
    BY <1>2 DEF Create, Refused
<1>. QED
    BY <1>1, <1>2

LEMMA TransitionStateOutcome ==
    ASSUME NEW routes, NEW actions, StoreOK(routes, actions), NEW request,
           request.state \in TaskStates, request.action \in actions,
           request.progress \in Progress
    PROVE  LET outcome == TransitionState(request)
               next == TransitionPortableTaskState(task, request.state, request.action,
                                                   request.progress)
           IN IF /\ task # NoTask /\ task.version = request.expected
                 /\ TransitionAllowed(task, request.state)
                 /\ MonotonicProgress(task, request.progress)
              THEN Changes(outcome, next, "state_change")
              ELSE Refuses(outcome)
<1>. DEFINE next == TransitionPortableTaskState(task, request.state, request.action,
                                                request.progress)
            fits == /\ TransitionAllowed(task, request.state)
                    /\ MonotonicProgress(task, request.progress)
            inner == IF fits THEN Committed(next, Event("state_change", next.version, NoToken, 0))
                     ELSE Refused("invalid")
<1>1. TransitionState(request) = AtVersion(request, inner)
    BY DEF TransitionState
<1>2. CASE task # NoTask /\ task.version = request.expected
    <2>1. TransitionState(request) = inner
        BY <1>1, <1>2, AtVersionChecks
    <2>2. next.version = task.version + 1
        BY <1>2, TransitionStateType DEF StoreOK
    <2>. HIDE DEF next, fits
    <2>3. CASE fits
        BY <1>2, <2>1, <2>2, <2>3, CommittedChanges DEF ChangeTypes, fits, next
    <2>4. CASE ~fits
        BY <1>2, <2>1, <2>4, RefusedRefuses DEF fits
    <2>. QED
        BY <2>3, <2>4
<1>3. CASE ~(task # NoTask /\ task.version = request.expected)
    BY <1>1, <1>3, AtVersionChecks
<1>. QED
    BY <1>2, <1>3

LEMMA AppendFindingOutcome ==
    ASSUME NEW routes, NEW actions, StoreOK(routes, actions), NEW request,
           LedgerEntry(request.finding) \in MemoryFindings(routes)
    PROVE  LET outcome == AppendFinding(request) IN
           IF task # NoTask /\ task.version = request.expected
           THEN Changes(outcome, AppendFindingToTask(task, request.finding),
                        "finding_recorded")
           ELSE Refuses(outcome)
<1>. DEFINE next  == AppendFindingToTask(task, request.finding)
            inner == Committed(next, Event("finding_recorded", next.version, NoToken, 0))
<1>1. AppendFinding(request) = AtVersion(request, inner)
    BY DEF AppendFinding
<1>2. CASE task # NoTask /\ task.version = request.expected
    <2>1. next.version = task.version + 1
        BY <1>2, AppendFindingType DEF StoreOK
    <2>. HIDE DEF next
    <2>. QED
        BY <1>1, <1>2, <2>1, AtVersionChecks, CommittedChanges DEF ChangeTypes, next
<1>3. CASE ~(task # NoTask /\ task.version = request.expected)
    BY <1>1, <1>3, AtVersionChecks
<1>. QED
    BY <1>2, <1>3

LEMMA SelectRouteOutcome ==
    ASSUME NEW routes, NEW actions, StoreOK(routes, actions), NEW request,
           request.route \in routes
    PROVE  LET outcome == SelectRoute(request) IN
           IF task # NoTask /\ task.version = request.expected
           THEN Changes(outcome, AppendRouteSelection(task, request.route), "route_selected")
           ELSE Refuses(outcome)
<1>. DEFINE next  == AppendRouteSelection(task, request.route)
            inner == Committed(next, Event("route_selected", next.version, NoToken, 0))
<1>1. SelectRoute(request) = AtVersion(request, inner)
    BY DEF SelectRoute
<1>2. CASE task # NoTask /\ task.version = request.expected
    <2>1. next.version = task.version + 1
        BY <1>2, SelectRouteType DEF StoreOK
    <2>. HIDE DEF next
    <2>. QED
        BY <1>1, <1>2, <2>1, AtVersionChecks, CommittedChanges DEF ChangeTypes, next
<1>3. CASE ~(task # NoTask /\ task.version = request.expected)
    BY <1>1, <1>3, AtVersionChecks
<1>. QED
    BY <1>2, <1>3

(* An upgrade is refused, or half done, or done.                           *)
UpgradeFits(request) ==
    /\ task # NoTask /\ task.version = request.expected
    /\ request.level \in {"equal", "degraded"}
    /\ CanTransitionFindings(task.findings, request.level)

LEMMA UpgradeOutcome ==
    ASSUME NEW routes, NEW actions, StoreOK(routes, actions), NEW request,
           request.route \in routes
    PROVE  LET outcome == TransitionFindingsForRouteUpgrade(request)
               next    == Upgraded(task, request.route, request.level)
           IN /\ ~UpgradeFits(request) => Refuses(outcome)
              /\ UpgradeFits(request) /\ HasRawFinding(task) => Halves(outcome, next)
              /\ UpgradeFits(request) /\ ~HasRawFinding(task) =>
                    Changes(outcome, next, "finding_transitioned")
<1>. DEFINE next  == Upgraded(task, request.route, request.level)
            event == Event("finding_transitioned", next.version, NoToken, 0)
            fits  == /\ request.level \in {"equal", "degraded"}
                     /\ CanTransitionFindings(task.findings, request.level)
            inner == IF ~fits THEN Refused("invalid")
                     ELSE IF HasRawFinding(task) THEN HalfDone(next, "invalid")
                     ELSE Committed(next, event)
<1>1. TransitionFindingsForRouteUpgrade(request) = AtVersion(request, inner)
    BY DEF TransitionFindingsForRouteUpgrade
<1>2. CASE task # NoTask /\ task.version = request.expected
    <2>1. TransitionFindingsForRouteUpgrade(request) = inner
        BY <1>1, <1>2, AtVersionChecks
    <2>2. next.version = task.version + 1
        BY <1>2, UpgradedTaskType DEF StoreOK
    <2>3. UpgradeFits(request) <=> fits
        BY <1>2 DEF UpgradeFits
    <2>. HIDE DEF next, fits
    <2>4. CASE ~fits
        BY <2>1, <2>3, <2>4, RefusedRefuses
    <2>5. CASE fits /\ HasRawFinding(task)
        <3>1. TransitionFindingsForRouteUpgrade(request) = HalfDone(next, "invalid")
            BY <2>1, <2>5
        <3>2. Halves(HalfDone(next, "invalid"), next)
            BY DEF HalfDone, Refused, Halves
        <3>. QED
            BY <2>3, <2>5, <3>1, <3>2 DEF next
    <2>6. CASE fits /\ ~HasRawFinding(task)
        <3>1. Changes(Committed(next, event), next, "finding_transitioned")
            BY <1>2, <2>2, CommittedChanges DEF ChangeTypes
        <3>. QED
            BY <2>1, <2>3, <2>6, <3>1 DEF next
    <2>. QED
        BY <2>4, <2>5, <2>6
<1>3. CASE ~(task # NoTask /\ task.version = request.expected)
    BY <1>1, <1>3, AtVersionChecks DEF UpgradeFits
<1>. QED
    BY <1>2, <1>3

(* What a half done upgrade leaves of the record: only a degraded one gets *)
(* past a finding without provenance, and it moves no finding.             *)
LEMMA HalfAnUpgrade ==
    ASSUME NEW routes, NEW actions, NEW t \in MemoryTasks(routes, actions),
           HasRawFinding(t), NEW route, NEW level \in {"equal", "degraded"},
           CanTransitionFindings(t.findings, level)
    PROVE  Upgraded(t, route, level) = Touched(t)
<1>1. level # "equal"
    BY DEF HasRawFinding, CanTransitionFindings
<1>2. TransitionFindings(t.findings, route, level) = t.findings
    BY <1>1 DEF TransitionFindings
<1>3. t = [version |-> t.version, state |-> t.state, action |-> t.action,
           progress |-> t.progress, route |-> t.route, routes |-> t.routes,
           findings |-> t.findings, updated_at |-> t.updated_at]
    BY DEF MemoryTasks
<1>4. [t EXCEPT !.findings = t.findings, !.version = @ + 1, !.updated_at = "request"]
        = [t EXCEPT !.version = @ + 1, !.updated_at = "request"]
    BY <1>3
<1>. QED
    BY <1>2, <1>4 DEF Upgraded, Touched

(* A change leaves the store in order, at the next version.                *)
LEMMA ChangeKeepsTheStore ==
    ASSUME NEW routes, NEW actions, StoreOK(routes, actions), task # NoTask,
           NEW next \in MemoryTasks(routes, actions), next # NoTask,
           next.version = task.version + 1, NEW type \in ChangeTypes,
           task' = next, events' = Append(events, Event(type, next.version, NoToken, 0))
    PROVE  StoreOK(routes, actions)'
<1>1. Event(type, next.version, NoToken, 0) \in Events
    BY MemoryTaskTypes DEF Event, Events, ChangeTypes, EventTypes
<1>2. /\ events' \in Seq(Events) /\ Len(events') = Len(events) + 1
      /\ \A i \in 1..Len(events) : events'[i] = events[i]
      /\ events'[Len(events) + 1] = Event(type, next.version, NoToken, 0)
    BY <1>1 DEF StoreOK
<1>3. task.version \in Nat
    BY MemoryTaskTypes DEF StoreOK
<1>4. ASSUME NEW i \in 1..Len(events'), events'[i].type # "continuation_created"
      PROVE  events'[i].version <= task'.version
    <2>1. CASE i \in 1..Len(events)
        <3>1. events[i] \in Events /\ events[i].version <= task.version
            BY <1>2, <1>4, <2>1 DEF StoreOK
        <3>. QED
            BY <1>2, <1>3, <2>1, <3>1 DEF Events
    <2>2. CASE i = Len(events) + 1
        BY <1>2, <1>3, <2>2 DEF Event
    <2>. QED
        BY <1>2, <2>1, <2>2 DEF StoreOK
<1>. QED
    BY <1>2, <1>4 DEF StoreOK

----------------------------------------------------------------------------
(* TaskApi *)

CommandHandlers ==
    {"handleTaskTransitionState", "handleTaskRouteSelection", "handleTaskAppendFinding"}

DirectHandlers ==
    {"handleTaskCreate", "handleTaskTransitionFindings", "handleTaskAnswerQuestion",
     "handleTaskDismissQuestion"}

Fingerprints == {Fingerprint(r) : r \in Requests}

(* A request under way is one that a client sent, with its handler, or one *)
(* whose fingerprint is about to be remembered.                            *)
CallFits(x) ==
    /\ x.stage \in {"idle", "execute", "remember"}
    /\ x.stage = "execute" => x.request \in Requests /\ x.handler \in CommandHandlers
    /\ x.stage = "remember" => x.fingerprint \in Fingerprints

CallsOK ==
    /\ DOMAIN calls = Slots
    /\ \A s \in Slots : CallFits(calls[s])
    /\ fingerprints \in Seq(Fingerprints)

(* A token has one continuation event, and every package made for it bears *)
(* the time of that event.                                                 *)
ContinuationsOK ==
    /\ \A i \in 1..Len(events) :
          events[i].type = "continuation_created" => events[i].version = 0
    /\ \A i, j \in 1..Len(events) :
          /\ events[i].type = "continuation_created"
          /\ events[j].type = "continuation_created"
          /\ events[i].token = events[j].token
          => i = j
    /\ \A p \in packages : \E i \in 1..Len(events) :
          /\ events[i].type = "continuation_created"
          /\ events[i].token = p.token /\ events[i].at = p.created

(* A fingerprint in the map, or one about to be remembered.                *)
Marked(f) ==
    \/ \E i \in 1..Len(fingerprints) : fingerprints[i] = f
    \/ \E s \in Slots : calls[s].stage = "remember" /\ calls[s].fingerprint = f

(* Unless a token was loosened, a package made for it has left its mark,   *)
(* and every mark of the token bears the contract of its packages.         *)
ContractsOK ==
    \A p \in packages : p.token \notin loosened =>
        /\ \E f \in Fingerprints : Marked(f) /\ f.token = p.token
        /\ \A f \in Fingerprints :
              Marked(f) /\ f.token = p.token => f.contract = p.contract

ApiStoreOK == StoreOK(Routes, NextActions)

ApiInv == ApiStoreOK /\ CallsOK /\ ContinuationsOK /\ ContractsOK

(* What a request carries.                                                 *)
LEMMA RequestFields ==
    ASSUME NEW r \in Requests
    PROVE  /\ r.route \in Routes /\ r.state \in TaskStates /\ r.action \in NextActions
           /\ r.progress \in Progress /\ r.finding \in Findings
           /\ r.token \in Tokens /\ r.at \in Nat
           /\ r.born \in MemoryTasks(Routes, NextActions)
           /\ "finding" \in DOMAIN r
BY RequestsAssumption

(* The finding a request asks to append, whichever handler it is for.      *)
LEMMA AppendedEntry ==
    ASSUME NEW r \in Requests
    PROVE  /\ LedgerEntry(r.finding) \in MemoryFindings(Routes)
           /\ LedgerEntry(AnswerFinding(r)) \in MemoryFindings(Routes)
           /\ LedgerEntry(DismissFinding(r)) \in MemoryFindings(Routes)
<1>1. r.route \in Routes /\ r.finding \in Findings
    BY RequestFields
<1>2. r.finding.id \in FindingIds /\ r.finding.status \in ProvenanceStatuses
      /\ r.finding.route \in Routes
    BY <1>1 DEF Findings
<1>. QED
    BY <1>1, <1>2 DEF LedgerEntry, AnswerFinding, DismissFinding, MemoryFindings,
                      ProvenanceStatuses

(* What a handler makes of the store: it refuses, or changes the record    *)
(* and says so, or creates the record, or leaves half an upgrade.          *)
Serves(outcome) ==
    \/ Refuses(outcome)
    \/ \E next \in MemoryTasks(Routes, NextActions), type \in ChangeTypes :
          /\ task # NoTask /\ next.version = task.version + 1
          /\ Changes(outcome, next, type)
    \/ /\ task = NoTask /\ outcome.error = "none"
       /\ outcome.task \in MemoryTasks(Routes, NextActions)
       /\ outcome.events = events
    \/ \E next \in MemoryTasks(Routes, NextActions) :
          /\ task # NoTask /\ next.version = task.version + 1 /\ HasRawFinding(task)
          /\ next = Touched(task)
          /\ Halves(outcome, next)

LEMMA AppendFindingServes ==
    ASSUME ApiStoreOK, NEW request,
           LedgerEntry(request.finding) \in MemoryFindings(Routes)
    PROVE  Serves(AppendFinding(request))
<1>. DEFINE next == AppendFindingToTask(task, request.finding)
<1>1. CASE task # NoTask /\ task.version = request.expected
    <2>1. next \in MemoryTasks(Routes, NextActions) /\ next.version = task.version + 1
        BY <1>1, AppendFindingType DEF ApiStoreOK, StoreOK
    <2>2. Changes(AppendFinding(request), next, "finding_recorded")
        BY <1>1, AppendFindingOutcome DEF ApiStoreOK
    <2>. QED
        BY <1>1, <2>1, <2>2 DEF Serves, ChangeTypes
<1>2. CASE ~(task # NoTask /\ task.version = request.expected)
    BY <1>2, AppendFindingOutcome DEF ApiStoreOK, Serves
<1>. QED
    BY <1>1, <1>2

LEMMA CreateServes ==
    ASSUME ApiStoreOK, NEW request \in Requests
    PROVE  Serves(Create(request))
<1>1. request.born \in MemoryTasks(Routes, NextActions)
    BY RequestFields
<1>. QED
    BY <1>1, CreateOutcome DEF Serves

LEMMA TransitionStateServes ==
    ASSUME ApiStoreOK, NEW request \in Requests
    PROVE  Serves(TransitionState(request))
<1>. DEFINE next == TransitionPortableTaskState(task, request.state, request.action,
                                                request.progress)
            fits == /\ task # NoTask /\ task.version = request.expected
                    /\ TransitionAllowed(task, request.state)
                    /\ MonotonicProgress(task, request.progress)
<1>1. request.state \in TaskStates /\ request.action \in NextActions
      /\ request.progress \in Progress
    BY RequestFields
<1>2. IF fits THEN Changes(TransitionState(request), next, "state_change")
      ELSE Refuses(TransitionState(request))
    BY <1>1, TransitionStateOutcome DEF ApiStoreOK
<1>3. CASE fits
    <2>1. next \in MemoryTasks(Routes, NextActions) /\ next.version = task.version + 1
        BY <1>1, <1>3, TransitionStateType DEF ApiStoreOK, StoreOK
    <2>. HIDE DEF next
    <2>. QED
        BY <1>2, <1>3, <2>1 DEF Serves, ChangeTypes
<1>4. CASE ~fits
    BY <1>2, <1>4 DEF Serves
<1>. QED
    BY <1>3, <1>4

LEMMA SelectRouteServes ==
    ASSUME ApiStoreOK, NEW request \in Requests
    PROVE  Serves(SelectRoute(request))
<1>. DEFINE next == AppendRouteSelection(task, request.route)
<1>1. request.route \in Routes
    BY RequestFields
<1>2. CASE task # NoTask /\ task.version = request.expected
    <2>1. next \in MemoryTasks(Routes, NextActions) /\ next.version = task.version + 1
        BY <1>1, <1>2, SelectRouteType DEF ApiStoreOK, StoreOK
    <2>2. Changes(SelectRoute(request), next, "route_selected")
        BY <1>1, <1>2, SelectRouteOutcome DEF ApiStoreOK
    <2>. QED
        BY <1>2, <2>1, <2>2 DEF Serves, ChangeTypes
<1>3. CASE ~(task # NoTask /\ task.version = request.expected)
    BY <1>1, <1>3, SelectRouteOutcome DEF ApiStoreOK, Serves
<1>. QED
    BY <1>2, <1>3

LEMMA UpgradeServes ==
    ASSUME ApiStoreOK, NEW request \in Requests
    PROVE  Serves(TransitionFindingsForRouteUpgrade(request))
<1>. DEFINE outcome == TransitionFindingsForRouteUpgrade(request)
            next == Upgraded(task, request.route, request.level)
<1>1. request.route \in Routes
    BY RequestFields
<1>2. /\ ~UpgradeFits(request) => Refuses(outcome)
      /\ UpgradeFits(request) /\ HasRawFinding(task) => Halves(outcome, next)
      /\ UpgradeFits(request) /\ ~HasRawFinding(task) =>
            Changes(outcome, next, "finding_transitioned")
    BY <1>1, UpgradeOutcome DEF ApiStoreOK
<1>. HIDE DEF outcome
<1>3. ASSUME UpgradeFits(request)
      PROVE  Serves(outcome)
    <2>1. task \in MemoryTasks(Routes, NextActions) /\ task # NoTask
        BY <1>3 DEF UpgradeFits, ApiStoreOK, StoreOK
    <2>2. next \in MemoryTasks(Routes, NextActions) /\ next.version = task.version + 1
        BY <1>1, <2>1, UpgradedTaskType
    <2>3. HasRawFinding(task) => next = Touched(task)
        BY <1>3, <2>1, HalfAnUpgrade DEF UpgradeFits
    <2>. HIDE DEF next
    <2>. QED
        BY <1>2, <1>3, <2>1, <2>2, <2>3 DEF Serves, ChangeTypes
<1>4. ASSUME ~UpgradeFits(request)
      PROVE  Serves(outcome)
    BY <1>2, <1>4 DEF Serves
<1>. QED
    BY <1>3, <1>4 DEF outcome

(* createTaskControlPlaneServiceCore, whichever handler calls it.          *)
LEMMA ServiceServes ==
    ASSUME ApiStoreOK, NEW request \in Requests,
           NEW handler \in CommandHandlers \cup DirectHandlers
    PROVE  Serves(Service(handler, request))
<1>. DEFINE answered  == [request EXCEPT !.finding = AnswerFinding(request)]
            dismissed == [request EXCEPT !.finding = DismissFinding(request)]
<1>1. answered.finding = AnswerFinding(request) /\ dismissed.finding = DismissFinding(request)
    BY RequestFields
<1>2. /\ Serves(AppendFinding(request)) /\ Serves(AppendFinding(answered))
      /\ Serves(AppendFinding(dismissed))
    <2>. HIDE DEF answered, dismissed
    <2>. QED
        BY <1>1, AppendedEntry, AppendFindingServes
<1>3. /\ Serves(Create(request)) /\ Serves(TransitionState(request))
      /\ Serves(SelectRoute(request)) /\ Serves(TransitionFindingsForRouteUpgrade(request))
    BY CreateServes, TransitionStateServes, SelectRouteServes, UpgradeServes
<1>. HIDE DEF answered, dismissed
<1>. QED
    BY <1>2, <1>3 DEF Service, CommandHandlers, DirectHandlers, answered, dismissed

LEMMA NoTaskIsNoRecord == NoTask \notin MemoryTasks(Routes, NextActions)
BY TaskApiAssumption

(* What a refusal leaves behind.                                           *)
Spared ==
    /\ UNCHANGED <<events, boundary>>
    /\ UNCHANGED <<task, snapshots>> \/ UpgradeWithoutEvent

(* A handler that answers at once: the store stays in order, gains at most *)
(* one event, which no continuation left, and is spared by a refusal.      *)
NewEvents ==
    \/ events' = events
    \/ \E type \in ChangeTypes, version \in Nat :
          events' = Append(events, Event(type, version, NoToken, 0))

LEMMA ApplyStep ==
    ASSUME ApiStoreOK, NEW request \in Requests,
           NEW handler \in CommandHandlers \cup DirectHandlers, Apply(request, handler)
    PROVE  /\ ApiStoreOK' /\ NewEvents
           /\ answer'.status >= 400 => Spared
           /\ UNCHANGED <<fingerprints, packages, loosened>>
<1>. DEFINE outcome == Service(handler, request)
<1>1. Serves(outcome)
    BY ServiceServes
<1>. HIDE DEF outcome
<1>2. /\ task' = outcome.task /\ snapshots' = outcome.snapshots
      /\ events' = outcome.events /\ consumed' = outcome.consumed
      /\ boundary' = IF handler = "handleTaskCreate" /\ outcome.error = "none"
                     THEN request.boundary ELSE boundary
      /\ answer'.status = IF outcome.error = "none" THEN Success(handler)
                          ELSE ErrorStatus(outcome.error)
      /\ UNCHANGED <<fingerprints, packages, loosened>>
    BY DEF Apply, Stored, Answers, outcome
<1>3. Success(handler) \in Nat /\ ~(Success(handler) >= 400)
    BY DEF Success
<1>4. CASE Refuses(outcome)
    <2>1. task' = task /\ snapshots' = snapshots /\ events' = events /\ boundary' = boundary
        BY <1>2, <1>4 DEF Refuses
    <2>2. ApiStoreOK'
        BY <2>1 DEF ApiStoreOK, StoreOK
    <2>. QED
        BY <1>2, <2>1, <2>2 DEF NewEvents, Spared
<1>5. ASSUME NEW next \in MemoryTasks(Routes, NextActions), NEW type \in ChangeTypes,
             task # NoTask, next.version = task.version + 1, Changes(outcome, next, type)
      PROVE  /\ ApiStoreOK' /\ NewEvents
             /\ answer'.status >= 400 => Spared
    <2>1. /\ outcome.error = "none" /\ task' = next
          /\ events' = Append(events, Event(type, next.version, NoToken, 0))
        BY <1>2, <1>5 DEF Changes
    <2>2. ApiStoreOK'
        BY <1>5, <2>1, NoTaskIsNoRecord, ChangeKeepsTheStore DEF ApiStoreOK
    <2>3. NewEvents
        BY <2>1, MemoryTaskTypes DEF NewEvents
    <2>. QED
        BY <1>2, <1>3, <2>1, <2>2, <2>3
<1>6. CASE /\ task = NoTask /\ outcome.error = "none"
           /\ outcome.task \in MemoryTasks(Routes, NextActions)
           /\ outcome.events = events
    <2>1. ApiStoreOK'
        BY <1>2, <1>6 DEF ApiStoreOK, StoreOK
    <2>. QED
        BY <1>2, <1>3, <1>6, <2>1 DEF NewEvents
<1>7. ASSUME NEW next \in MemoryTasks(Routes, NextActions), task # NoTask,
             next.version = task.version + 1, HasRawFinding(task),
             next = Touched(task),
             Halves(outcome, next)
      PROVE  ApiStoreOK' /\ NewEvents /\ Spared
    <2>1. /\ task' = next /\ snapshots' = Append(snapshots, next)
          /\ events' = events /\ boundary' = boundary
        BY <1>2, <1>7 DEF Halves
    <2>2. task.version \in Nat
        BY <1>7, MemoryTaskTypes DEF ApiStoreOK, StoreOK
    <2>3. ASSUME NEW i \in 1..Len(events'), events'[i].type # "continuation_created"
          PROVE  events'[i].version <= task'.version
        <3>1. events[i] \in Events /\ events[i].version <= task.version
            BY <2>1, <2>3 DEF ApiStoreOK, StoreOK
        <3>. QED
            BY <1>7, <2>1, <2>2, <3>1 DEF Events
    <2>4. ApiStoreOK'
        BY <1>7, <2>1, <2>3, NoTaskIsNoRecord DEF ApiStoreOK, StoreOK
    <2>5. UpgradeWithoutEvent
        BY <1>7, <2>1 DEF UpgradeWithoutEvent
    <2>. QED
        BY <2>1, <2>4, <2>5 DEF NewEvents, Spared
<1>. QED
    BY <1>1, <1>2, <1>4, <1>5, <1>6, <1>7 DEF Serves

(* createContinuationPackage: refused, given again, or given for the first *)
(* time; the record and its snapshots are never touched.                   *)
LEMMA ContinuationOutcome ==
    ASSUME ApiStoreOK, ContinuationsOK, NEW request \in Requests
    PROVE  LET outcome == CreateContinuationPackage(request) IN
           /\ outcome.task = task /\ outcome.snapshots = snapshots
           /\ outcome.error # "none" => outcome.events = events
           /\ outcome.error = "none" =>
                \/ /\ outcome.events = events
                   /\ \E i \in 1..Len(events) :
                         /\ events[i].type = "continuation_created"
                         /\ events[i].token = request.token
                         /\ events[i].at = outcome.created
                \/ /\ outcome.events = Append(events, ContinuationEvent(request.token, request.at))
                   /\ outcome.created = request.at
                   /\ \A i \in 1..Len(events) :
                         ~ /\ events[i].type = "continuation_created"
                           /\ events[i].token = request.token
<1>. DEFINE event == ContinuationEvent(request.token, request.at)
            isMade(e) == e.type = "continuation_created" /\ e.token = request.token
            made == {e \in {events[i] : i \in DOMAIN events} : isMade(e)}
            verified == VerifyToken(request.token, request.flaw, request.at, consumed)
            created == CanonicalCreatedAt(request.token, request.at)
            outcome == CreateContinuationPackage(request)
<1>0. DOMAIN events = 1..Len(events)
    BY DEF ApiStoreOK, StoreOK
<1>1. IsRecorded(event) <=> \E i \in 1..Len(events) : isMade(events[i])
    <2>1. EventId(event) = <<"continuation_created", 0, request.token>>
        BY DEF ContinuationEvent, Event, EventId
    <2>2. ASSUME NEW i \in 1..Len(events), isMade(events[i])
          PROVE  EventId(events[i]) = EventId(event)
        BY <2>1, <2>2 DEF ContinuationsOK, EventId
    <2>3. ASSUME NEW i \in 1..Len(events), EventId(events[i]) = EventId(event)
          PROVE  isMade(events[i])
        BY <2>1, <2>3 DEF EventId
    <2>. HIDE DEF event, isMade
    <2>. QED
        BY <1>0, <2>2, <2>3 DEF IsRecorded
<1>2. created = IF made = {} THEN request.at ELSE (CHOOSE e \in made : TRUE).at
    BY DEF CanonicalCreatedAt
<1>3. CASE IsRecorded(event)
    <2>1. made # {}
        BY <1>0, <1>1, <1>3
    <2>2. PICK e \in made : created = e.at
        <3>. HIDE DEF made, created
        <3>. QED
            BY <1>2, <2>1
    <2>3. \E i \in 1..Len(events) : isMade(events[i]) /\ events[i].at = created
        BY <1>0, <2>2
    <2>. HIDE DEF made, created, isMade
    <2>4. /\ outcome.task = task /\ outcome.snapshots = snapshots /\ outcome.events = events
          /\ outcome.error = "none" => outcome.created = created
        BY <1>3 DEF CreateContinuationPackage, Refused, created
    <2>. QED
        BY <2>3, <2>4 DEF isMade
<1>4. CASE ~IsRecorded(event)
    <2>1. created = request.at /\ \A i \in 1..Len(events) : ~isMade(events[i])
        BY <1>0, <1>1, <1>2, <1>4
    <2>2. AppendEvent(event) = Append(events, event)
        BY <1>4 DEF AppendEvent
    <2>. HIDE DEF made, created, isMade, verified, event
    <2>3. /\ outcome.task = task /\ outcome.snapshots = snapshots
          /\ outcome.error # "none" => outcome.events = events
          /\ outcome.error = "none" =>
                outcome.events = Append(events, event) /\ outcome.created = created
        <3>1. CASE \/ task = NoTask \/ request.flaw = "task" \/ request.misfit
            BY <3>1 DEF CreateContinuationPackage, Refused
        <3>2. CASE ~(task = NoTask \/ request.flaw = "task" \/ request.misfit)
            BY <1>4, <2>2, <3>2 DEF CreateContinuationPackage, Refused, created, verified, event
        <3>. QED
            BY <3>1, <3>2
    <2>. QED
        BY <2>1, <2>3 DEF event, isMade
<1>. QED
    BY <1>3, <1>4

----------------------------------------------------------------------------
(* The steps of TaskApi *)

(* What a request can come to when it arrives.                             *)
LEMMA FetchSteps ==
    ASSUME NEW s \in Slots, NEW request \in Requests, Fetch(s, request)
    PROVE  /\ calls[s] = IdleCall
           /\ \/ UNCHANGED <<store, apiVars>>
              \/ \E handler \in CommandHandlers : Resolve(s, request, handler)
              \/ Continue(s, request)
              \/ \E handler \in DirectHandlers : Apply(request, handler) /\ UNCHANGED calls
<1>. DEFINE handler == Dispatched[request]
            body    == HasBody(handler, request)
<1>1. ASSUME NEW h, NEW status, Answered(request, h, status)
      PROVE  UNCHANGED <<store, apiVars>>
    BY <1>1 DEF Answered
<1>. HIDE DEF handler, body
<1>2. /\ calls[s] = IdleCall
      /\ \/ Answered(request, handler, RefusedBy[handler])
         \/ Answered(request, handler, ReadStatus(handler, request))
         \/ Answered(request, handler, 400)
         \/ Answered(request, handler, 200)
         \/ Resolve(s, request, "handleTaskTransitionState")
         \/ Resolve(s, request, "handleTaskRouteSelection")
         \/ Resolve(s, request, "handleTaskAppendFinding")
         \/ Continue(s, request)
         \/ /\ handler \in DirectHandlers
            /\ Apply(request, handler) /\ UNCHANGED calls
    BY DEF Fetch, handler, body, DirectHandlers, HandleTaskTransitionState,
           HandleTaskRouteSelection, HandleTaskAppendFinding
<1>. QED
    BY <1>1, <1>2 DEF CommandHandlers

LEMMA NewEventsKeepContinuations ==
    ASSUME ApiStoreOK, ContinuationsOK, NewEvents, packages' = packages
    PROVE  ContinuationsOK'
<1>1. CASE events' = events
    BY <1>1 DEF ContinuationsOK
<1>2. ASSUME NEW type \in ChangeTypes, NEW version \in Nat,
             events' = Append(events, Event(type, version, NoToken, 0))
      PROVE  ContinuationsOK'
    <2>1. /\ Len(events) \in Nat /\ Len(events') = Len(events) + 1
          /\ \A i \in 1..Len(events) : events'[i] = events[i]
          /\ events'[Len(events) + 1].type # "continuation_created"
        BY <1>2 DEF ApiStoreOK, StoreOK, Event, ChangeTypes
    <2>2. \A i \in 1..Len(events') :
             events'[i].type = "continuation_created" =>
                i \in 1..Len(events) /\ events'[i] = events[i]
        BY <2>1
    <2>3. 1..Len(events) \subseteq 1..Len(events')
        BY <2>1
    <2>. QED
        BY <1>2, <2>1, <2>2, <2>3 DEF ContinuationsOK
<1>. QED
    BY <1>1, <1>2 DEF NewEvents

(* Requests that come and go leave the marks alone.                        *)
LEMMA QuietStepsKeepContracts ==
    ASSUME ContractsOK, UNCHANGED <<fingerprints, packages, loosened>>,
           \A s \in Slots : \/ calls'[s] = calls[s]
                            \/ calls[s].stage # "remember" /\ calls'[s].stage # "remember"
    PROVE  ContractsOK'
<1>1. ASSUME NEW f
      PROVE  Marked(f)' <=> Marked(f)
    BY DEF Marked
<1>. QED
    BY <1>1 DEF ContractsOK

LEMMA ResolveKeepsOrder ==
    ASSUME ApiInv, NEW s \in Slots, NEW request \in Requests,
           NEW handler \in CommandHandlers, calls[s] = IdleCall,
           Resolve(s, request, handler)
    PROVE  ApiInv'
<1>1. CASE UNCHANGED <<store, apiVars>>
    BY <1>1 DEF store, apiVars, ApiInv, ApiStoreOK, StoreOK, CallsOK, ContinuationsOK,
                ContractsOK, Marked
<1>2. CASE /\ calls' = [calls EXCEPT ![s] = [stage |-> "execute", request |-> request,
                                             handler |-> handler]]
           /\ UNCHANGED <<store, boundary, fingerprints, packages, loosened>>
    <2>1. /\ UNCHANGED <<task, events, fingerprints, packages, loosened>>
          /\ DOMAIN calls' = Slots /\ calls[s].stage = "idle"
          /\ calls'[s] = [stage |-> "execute", request |-> request, handler |-> handler]
          /\ \A u \in Slots \ {s} : calls'[u] = calls[u]
        BY <1>2 DEF store, ApiInv, CallsOK, IdleCall
    <2>2. ApiStoreOK' /\ ContinuationsOK'
        BY <2>1 DEF ApiInv, ApiStoreOK, StoreOK, ContinuationsOK
    <2>3. CallsOK'
        BY <2>1 DEF ApiInv, CallsOK, CallFits
    <2>4. ContractsOK'
        BY <2>1, QuietStepsKeepContracts DEF ApiInv
    <2>. QED
        BY <2>2, <2>3, <2>4 DEF ApiInv
<1>3. \/ UNCHANGED <<store, apiVars>>
      \/ /\ calls' = [calls EXCEPT ![s] = [stage |-> "execute", request |-> request,
                                           handler |-> handler]]
         /\ UNCHANGED <<store, boundary, fingerprints, packages, loosened>>
    BY DEF Resolve, Answered
<1>. QED
    BY <1>1, <1>2, <1>3

LEMMA ApplyKeepsOrder ==
    ASSUME ApiInv, NEW request \in Requests,
           NEW handler \in CommandHandlers \cup DirectHandlers, Apply(request, handler),
           \/ calls' = calls
           \/ \E s \in Slots : /\ calls[s].stage = "execute"
                               /\ calls' = [calls EXCEPT ![s] = IdleCall]
    PROVE  ApiInv'
<1>1. ApiStoreOK' /\ NewEvents /\ UNCHANGED <<fingerprints, packages, loosened>>
    BY ApplyStep DEF ApiInv
<1>2. ContinuationsOK'
    BY <1>1, NewEventsKeepContinuations DEF ApiInv
<1>3. /\ DOMAIN calls' = Slots
      /\ \A u \in Slots : \/ calls'[u] = calls[u]
                          \/ /\ calls'[u] = IdleCall
                             /\ calls[u].stage = "execute"
    BY DEF ApiInv, CallsOK
<1>4. CallsOK'
    BY <1>1, <1>3 DEF ApiInv, CallsOK, CallFits, IdleCall
<1>5. ContractsOK'
    BY <1>1, <1>3, QuietStepsKeepContracts DEF ApiInv, IdleCall
<1>. QED
    BY <1>1, <1>2, <1>4, <1>5 DEF ApiInv

(* The token of a mark.                                                    *)
LEMMA FingerprintTokens ==
    ASSUME NEW r \in Requests
    PROVE  /\ Fingerprint(r) \in Fingerprints
           /\ Fingerprint(r).token = r.token /\ Fingerprint(r).contract = r.contract
BY DEF Fingerprints, Fingerprint

LEMMA FingerprintOfIsMapped ==
    ASSUME CallsOK, NEW token, NEW f
    PROVE  f \in FingerprintOf(token)
             <=> f.token = token /\ \E i \in 1..Len(fingerprints) : fingerprints[i] = f
<1>1. DOMAIN fingerprints = 1..Len(fingerprints)
    BY DEF CallsOK
<1>. QED
    BY <1>1 DEF FingerprintOf

(* A continuation that is given: its event is the only one of its token.   *)
LEMMA GivenContinuation ==
    ASSUME ApiStoreOK, ContinuationsOK, NEW request \in Requests,
           CreateContinuationPackage(request).error = "none",
           task' = CreateContinuationPackage(request).task,
           events' = CreateContinuationPackage(request).events,
           packages' = packages \cup
               {[token |-> request.token, contract |-> request.contract,
                 created |-> CreateContinuationPackage(request).created]}
    PROVE  ApiStoreOK' /\ ContinuationsOK'
<1>. DEFINE outcome == CreateContinuationPackage(request)
            package == [token |-> request.token, contract |-> request.contract,
                        created |-> outcome.created]
            event   == ContinuationEvent(request.token, request.at)
<1>1. /\ task' = task
      /\ \/ /\ events' = events
            /\ \E i \in 1..Len(events) :
                  /\ events[i].type = "continuation_created"
                  /\ events[i].token = request.token
                  /\ events[i].at = outcome.created
         \/ /\ events' = Append(events, event)
            /\ outcome.created = request.at
            /\ \A i \in 1..Len(events) :
                  ~ /\ events[i].type = "continuation_created"
                    /\ events[i].token = request.token
    BY ContinuationOutcome
<1>2. packages' = packages \cup {package} /\ package.token = request.token
      /\ package.created = outcome.created
    OBVIOUS
<1>. HIDE DEF outcome, package
<1>3. CASE events' = events
    <2>1. ApiStoreOK'
        BY <1>1, <1>3 DEF ApiStoreOK, StoreOK
    <2>2. \E i \in 1..Len(events) :
             /\ events[i].type = "continuation_created"
             /\ events[i].token = package.token /\ events[i].at = package.created
        <3>1. CASE events' = Append(events, event)
            BY <1>3, <3>1 DEF ApiStoreOK, StoreOK
        <3>. QED
            BY <1>1, <1>2, <3>1
    <2>3. ContinuationsOK'
        BY <1>2, <1>3, <2>2 DEF ContinuationsOK
    <2>. QED
        BY <2>1, <2>3
<1>4. CASE /\ events' = Append(events, event)
           /\ outcome.created = request.at
           /\ \A i \in 1..Len(events) :
                  ~ /\ events[i].type = "continuation_created"
                    /\ events[i].token = request.token
    <2>1. /\ event \in Events /\ event.type = "continuation_created"
          /\ event.version = 0 /\ event.token = request.token /\ event.at = request.at
        BY RequestFields DEF event, ContinuationEvent, Event, Events, EventTypes
    <2>. HIDE DEF event
    <2>2. /\ events' \in Seq(Events) /\ Len(events') = Len(events) + 1
          /\ Len(events) \in Nat
          /\ \A i \in 1..Len(events) : events'[i] = events[i]
          /\ events'[Len(events) + 1] = event
        BY <1>4, <2>1 DEF ApiStoreOK, StoreOK
    <2>3. /\ \A i \in 1..Len(events') :
                \/ i \in 1..Len(events) /\ events'[i] = events[i]
                \/ i = Len(events) + 1 /\ events'[i] = event
          /\ 1..Len(events) \subseteq 1..Len(events')
          /\ Len(events) + 1 \in 1..Len(events')
        BY <2>2
    <2>4. ApiStoreOK'
        BY <1>1, <2>1, <2>2, <2>3 DEF ApiStoreOK, StoreOK
    <2>5. \A i \in 1..Len(events') :
             events'[i].type = "continuation_created" => events'[i].version = 0
        BY <2>1, <2>3 DEF ContinuationsOK
    <2>6. \A i, j \in 1..Len(events') :
             /\ events'[i].type = "continuation_created"
             /\ events'[j].type = "continuation_created"
             /\ events'[i].token = events'[j].token
             => i = j
        BY <1>4, <2>1, <2>3 DEF ContinuationsOK
    <2>7. \A p \in packages' : \E i \in 1..Len(events') :
             /\ events'[i].type = "continuation_created"
             /\ events'[i].token = p.token /\ events'[i].at = p.created
        <3>1. SUFFICES ASSUME NEW p \in packages'
                       PROVE  \E i \in 1..Len(events') :
                                 /\ events'[i].type = "continuation_created"
                                 /\ events'[i].token = p.token
                                 /\ events'[i].at = p.created
            OBVIOUS
        <3>2. CASE p \in packages
            BY <2>2, <2>3, <3>2 DEF ContinuationsOK
        <3>3. CASE p = package
            BY <1>2, <1>4, <2>1, <2>2, <2>3, <3>3
        <3>. QED
            BY <1>2, <3>2, <3>3
    <2>8. ContinuationsOK'
        BY <2>5, <2>6, <2>7 DEF ContinuationsOK
    <2>. QED
        BY <2>4, <2>8
<1>. QED
    BY <1>1, <1>3, <1>4

(* ... and its contract the only one its token bears.                      *)
LEMMA GivenContract ==
    ASSUME CallsOK, ContractsOK, NEW s \in Slots, NEW request \in Requests, NEW package,
           calls[s] = IdleCall,
           FingerprintOf(request.token) \in {{}, {Fingerprint(request)}},
           package.token = request.token, package.contract = request.contract,
           fingerprints' = fingerprints, packages' = packages \cup {package},
           DOMAIN calls' = Slots, calls'[s].stage = "remember",
           calls'[s].fingerprint = Fingerprint(request),
           \A u \in Slots \ {s} : calls'[u] = calls[u],
           loosened' = IF UnderWay(request.token)
                       THEN loosened \cup {request.token} ELSE loosened
    PROVE  CallsOK' /\ ContractsOK'
<1>. DEFINE mark == Fingerprint(request)
<1>1. mark \in Fingerprints /\ mark.token = request.token /\ mark.contract = request.contract
    BY FingerprintTokens
<1>. HIDE DEF mark
<1>2. CallsOK'
    BY <1>1 DEF CallsOK, CallFits, mark
<1>3. \A f : Marked(f)' <=> (Marked(f) \/ f = mark)
    BY DEF Marked, mark, IdleCall
<1>4. ASSUME NEW p \in packages', p.token \notin loosened'
      PROVE  /\ \E f \in Fingerprints : Marked(f)' /\ f.token = p.token
             /\ \A f \in Fingerprints :
                   Marked(f)' /\ f.token = p.token => f.contract = p.contract
    <2>1. CASE p.token # request.token
        <3>1. p \in packages /\ p.token \notin loosened
            BY <1>4, <2>1
        <3>. QED
            BY <1>1, <1>3, <2>1, <3>1 DEF ContractsOK
    <2>2. CASE p.token = request.token
        <3>1. ~UnderWay(request.token) /\ p.token \notin loosened
            BY <1>4, <2>2
        <3>2. ASSUME NEW f \in Fingerprints, Marked(f), f.token = request.token
              PROVE  f = mark
            <4>1. \E i \in 1..Len(fingerprints) : fingerprints[i] = f
                BY <3>1, <3>2 DEF Marked, UnderWay
            <4>2. f \in FingerprintOf(request.token)
                BY <3>2, <4>1, FingerprintOfIsMapped
            <4>. QED
                BY <4>2 DEF mark
        <3>3. p.contract = mark.contract
            <4>1. CASE p \in packages
                BY <1>1, <2>2, <3>1, <3>2, <4>1 DEF ContractsOK
            <4>2. CASE p = package
                BY <1>1, <4>2
            <4>. QED
                BY <4>1, <4>2
        <3>. QED
            BY <1>1, <1>3, <2>2, <3>2, <3>3
    <2>. QED
        BY <2>1, <2>2
<1>5. ContractsOK'
    BY <1>4 DEF ContractsOK, Fingerprints, Fingerprint
<1>. QED
    BY <1>2, <1>5

LEMMA ContinueKeepsOrder ==
    ASSUME ApiInv, NEW s \in Slots, NEW request \in Requests, calls[s] = IdleCall,
           Continue(s, request)
    PROVE  ApiInv'
<1>. DEFINE outcome == CreateContinuationPackage(request)
            known   == FingerprintOf(request.token)
            given   == outcome.error = "none"
            remembering == [stage |-> "remember", replayed |-> known # {},
                            fingerprint |-> Fingerprint(request)]
            package == [token |-> request.token, contract |-> request.contract,
                        created |-> outcome.created]
<1>1. CASE UNCHANGED <<store, apiVars>>
    BY <1>1 DEF store, apiVars, ApiInv, ApiStoreOK, StoreOK, CallsOK, ContinuationsOK,
                ContractsOK, Marked
<1>2. CASE /\ ~(known # {} /\ known # {Fingerprint(request)})
           /\ given /\ Stored(outcome) /\ UNCHANGED <<boundary, fingerprints>>
           /\ calls' = [calls EXCEPT ![s] = remembering]
           /\ packages' = packages \cup {package}
           /\ loosened' = IF UnderWay(request.token)
                          THEN loosened \cup {request.token} ELSE loosened
    <2>1. ApiStoreOK' /\ ContinuationsOK'
        BY <1>2, GivenContinuation DEF ApiInv, Stored
    <2>2. /\ DOMAIN calls' = Slots /\ calls'[s] = remembering
          /\ \A u \in Slots \ {s} : calls'[u] = calls[u]
        BY <1>2 DEF ApiInv, CallsOK
    <2>3. remembering.stage = "remember" /\ remembering.fingerprint = Fingerprint(request)
        OBVIOUS
    <2>4. package.token = request.token /\ package.contract = request.contract
        OBVIOUS
    <2>5. FingerprintOf(request.token) \in {{}, {Fingerprint(request)}}
        BY <1>2
    <2>. HIDE DEF remembering, package, known
    <2>6. CallsOK' /\ ContractsOK'
        BY <1>2, <2>2, <2>3, <2>4, <2>5, GivenContract DEF ApiInv
    <2>. QED
        BY <2>1, <2>6 DEF ApiInv
<1>3. CASE ~given /\ Stored(outcome) /\ UNCHANGED <<fingerprints, calls, packages, loosened>>
    <2>1. task' = task /\ events' = events
        BY <1>3, ContinuationOutcome DEF Stored, ApiInv
    <2>. QED
        BY <1>3, <2>1 DEF ApiInv, ApiStoreOK, StoreOK, CallsOK, ContinuationsOK,
                          ContractsOK, Marked
<1>. QED
    <2>. HIDE DEF outcome, known, remembering, package
    <2>1. \/ \E status \in {500, 403} : Answered(request, "handleTaskContinuation", status)
          \/ /\ ~(known # {} /\ known # {Fingerprint(request)})
             /\ given /\ Stored(outcome) /\ UNCHANGED <<boundary, fingerprints>>
             /\ calls' = [calls EXCEPT ![s] = remembering]
             /\ packages' = packages \cup {package}
             /\ loosened' = IF UnderWay(request.token)
                            THEN loosened \cup {request.token} ELSE loosened
          \/ ~given /\ Stored(outcome) /\ UNCHANGED <<fingerprints, calls, packages, loosened>>
        BY DEF Continue, outcome, known, remembering, package
    <2>. QED
        BY <1>1, <1>2, <1>3, <2>1 DEF Answered

LEMMA RememberKeepsOrder ==
    ASSUME ApiInv, NEW s \in Slots, Remember(s)
    PROVE  ApiInv'
<1>. DEFINE mark  == calls[s].fingerprint
            known == FingerprintOf(mark.token)
            longer == Append(fingerprints, mark)
<1>1. /\ calls[s].stage = "remember" /\ mark \in Fingerprints
      /\ fingerprints' = IF known = {} THEN WithFingerprint(mark) ELSE fingerprints
      /\ loosened' = loosened \cup
            {f.token : f \in {fingerprints[i] : i \in DOMAIN fingerprints}
                             \ {fingerprints'[i] : i \in DOMAIN fingerprints'}}
      /\ calls' = [calls EXCEPT ![s] = IdleCall]
      /\ UNCHANGED <<task, events, packages>>
    BY DEF Remember, store, ApiInv, CallsOK, CallFits
<1>2. /\ DOMAIN calls' = Slots /\ calls'[s] = IdleCall
      /\ \A u \in Slots \ {s} : calls'[u] = calls[u]
    BY <1>1 DEF ApiInv, CallsOK
<1>3. ApiStoreOK' /\ ContinuationsOK'
    BY <1>1 DEF ApiInv, ApiStoreOK, StoreOK, ContinuationsOK
<1>. HIDE DEF mark, known
<1>4. /\ fingerprints' \in Seq(Fingerprints)
      /\ \A i \in 1..Len(fingerprints') :
            \/ fingerprints'[i] = mark
            \/ \E j \in 1..Len(fingerprints) : fingerprints[j] = fingerprints'[i]
      /\ known = {} => \E i \in 1..Len(fingerprints') : fingerprints'[i] = mark
    <2>1. CASE known # {}
        BY <1>1, <2>1 DEF ApiInv, CallsOK
    <2>2. CASE known = {}
        <3>1. /\ longer \in Seq(Fingerprints) /\ Len(longer) = Len(fingerprints) + 1
              /\ longer[Len(fingerprints) + 1] = mark
              /\ \A i \in 1..Len(fingerprints) : longer[i] = fingerprints[i]
              /\ Len(fingerprints) \in Nat
            BY <1>1 DEF ApiInv, CallsOK
        <3>. HIDE DEF longer
        <3>2. fingerprints' = IF Len(longer) > MaxFingerprints THEN Tail(longer) ELSE longer
            BY <1>1, <2>2 DEF WithFingerprint, longer
        <3>3. CASE Len(longer) > MaxFingerprints
            <4>1. /\ fingerprints' \in Seq(Fingerprints)
                  /\ Len(fingerprints') = Len(fingerprints)
                  /\ \A i \in 1..Len(fingerprints) : fingerprints'[i] = longer[i + 1]
                BY <3>1, <3>2, <3>3
            <4>2. Len(fingerprints) \in 1..Len(fingerprints')
                BY <3>1, <3>3, <4>1, TaskApiAssumption
            <4>. QED
                BY <3>1, <4>1, <4>2
        <3>4. CASE ~(Len(longer) > MaxFingerprints)
            BY <3>1, <3>2, <3>4
        <3>. QED
            BY <3>3, <3>4
    <2>. QED
        BY <2>1, <2>2
<1>5. CallsOK'
    BY <1>2, <1>4 DEF ApiInv, CallsOK, CallFits, IdleCall
<1>6. ASSUME NEW f \in Fingerprints, Marked(f)'
      PROVE  Marked(f)
    BY <1>1, <1>2, <1>4, <1>6 DEF Marked, IdleCall, mark
<1>7. ASSUME NEW f \in Fingerprints, Marked(f), f.token \notin loosened'
      PROVE  \E g \in Fingerprints : Marked(g)' /\ g.token = f.token
    <2>1. CASE \E i \in 1..Len(fingerprints) : fingerprints[i] = f
        <3>1. DOMAIN fingerprints = 1..Len(fingerprints)
              /\ DOMAIN fingerprints' = 1..Len(fingerprints')
            BY <1>4 DEF ApiInv, CallsOK
        <3>2. f \in {fingerprints'[i] : i \in DOMAIN fingerprints'}
            BY <1>1, <1>7, <2>1, <3>1
        <3>3. Marked(f)'
            BY <3>1, <3>2 DEF Marked
        <3>. QED
            BY <3>3
    <2>2. CASE f = mark
        <3>1. CASE known = {}
            <4>1. \E i \in 1..Len(fingerprints') : fingerprints'[i] = f
                BY <1>4, <2>2, <3>1
            <4>. QED
                BY <4>1 DEF Marked
        <3>2. CASE known # {}
            <4>1. PICK g \in known : TRUE
                BY <3>2
            <4>2. g.token = mark.token /\ \E i \in 1..Len(fingerprints) : fingerprints[i] = g
                BY <4>1, FingerprintOfIsMapped DEF known, ApiInv
            <4>3. g \in Fingerprints /\ fingerprints' = fingerprints
                BY <1>1, <3>2, <4>2 DEF ApiInv, CallsOK
            <4>4. Marked(g)'
                BY <4>2, <4>3 DEF Marked
            <4>. QED
                BY <2>2, <4>2, <4>3, <4>4
        <3>. QED
            BY <3>1, <3>2
    <2>3. CASE \E u \in Slots \ {s} : calls[u].stage = "remember" /\ calls[u].fingerprint = f
        <3>1. Marked(f)'
            BY <1>2, <2>3 DEF Marked
        <3>. QED
            BY <3>1
    <2>. QED
        BY <1>7, <2>1, <2>2, <2>3 DEF Marked, mark
<1>8. ContractsOK'
    <2>1. SUFFICES ASSUME NEW p \in packages, p.token \notin loosened'
                   PROVE  /\ \E f \in Fingerprints : Marked(f)' /\ f.token = p.token
                          /\ \A f \in Fingerprints :
                                Marked(f)' /\ f.token = p.token => f.contract = p.contract
        BY <1>1 DEF ContractsOK, Fingerprints, Fingerprint
    <2>2. p.token \notin loosened
        BY <1>1, <2>1
    <2>. QED
        BY <1>6, <1>7, <2>1, <2>2 DEF ApiInv, ContractsOK
<1>. QED
    BY <1>3, <1>5, <1>8 DEF ApiInv

THEOREM ApiInvInitially == Init => ApiInv
BY DEF Init, StoreInit, ApiInv, ApiStoreOK, StoreOK, Events, CallsOK, CallFits, IdleCall,
       ContinuationsOK, ContractsOK

(* Every request and every await leaves ApiInv in place.                   *)
THEOREM ApiInvStep == ApiInv /\ [Next]_vars => ApiInv'
<1>. SUFFICES ASSUME ApiInv, [Next]_vars
              PROVE  ApiInv'
    OBVIOUS
<1>1. ASSUME UNCHANGED <<store, apiVars>>
      PROVE  ApiInv'
    BY <1>1 DEF store, apiVars, ApiInv, ApiStoreOK, StoreOK, CallsOK, ContinuationsOK,
                ContractsOK, Marked
<1>2. ASSUME NEW s \in Slots, NEW request \in Requests, Fetch(s, request)
      PROVE  ApiInv'
    <2>1. /\ calls[s] = IdleCall
          /\ \/ UNCHANGED <<store, apiVars>>
             \/ \E handler \in CommandHandlers : Resolve(s, request, handler)
             \/ Continue(s, request)
             \/ \E handler \in DirectHandlers : Apply(request, handler) /\ UNCHANGED calls
        BY <1>2, FetchSteps
    <2>. QED
        BY <1>1, <2>1, ResolveKeepsOrder, ContinueKeepsOrder, ApplyKeepsOrder
<1>3. ASSUME NEW s \in Slots, Execute(s)
      PROVE  ApiInv'
    <2>1. /\ calls[s].stage = "execute" /\ calls[s].request \in Requests
          /\ calls[s].handler \in CommandHandlers
          /\ Apply(calls[s].request, calls[s].handler)
          /\ calls' = [calls EXCEPT ![s] = IdleCall]
        BY <1>3 DEF Execute, ApiInv, CallsOK, CallFits
    <2>. QED
        BY <2>1, ApplyKeepsOrder
<1>4. ASSUME NEW s \in Slots, Remember(s)
      PROVE  ApiInv'
    BY <1>4, RememberKeepsOrder
<1>5. CASE UNCHANGED vars
    BY <1>1, <1>5 DEF vars
<1>. QED
    BY <1>2, <1>3, <1>4, <1>5 DEF Next

LEMMA ApiInvMeansOneContinuation == ApiInv => TokensStandForOneContinuation
<1>. SUFFICES ASSUME ApiInv
              PROVE  TokensStandForOneContinuation
    OBVIOUS
<1>1. OnePackagePerToken
    <2>1. SUFFICES ASSUME NEW p \in packages, NEW q \in packages, p.token = q.token
                   PROVE  p.created = q.created
        BY DEF OnePackagePerToken
    <2>. QED
        BY <2>1 DEF ApiInv, ContinuationsOK
<1>2. OneContractPerToken
    BY DEF OneContractPerToken, ApiInv, ContractsOK
<1>. QED
    BY <1>1, <1>2 DEF TokensStandForOneContinuation

(* A handoff token stands for one continuation: whatever times clients     *)
(* send and however requests overlap, all packages for a token carry the   *)
(* same created_at, and one contract unless its fingerprint was lost.      *)
THEOREM HandoffTokensStandForOneContinuation == Spec => []TokensStandForOneContinuation
<1>1. Init => ApiInv
    BY ApiInvInitially
<1>2. ApiInv /\ [Next]_vars => ApiInv'
    BY ApiInvStep
<1>3. ApiInv => TokensStandForOneContinuation
    BY ApiInvMeansOneContinuation
<1>. QED
    BY <1>1, <1>2, <1>3, PTL DEF Spec

(* A client that is told an error finds the task, its snapshots, its       *)
(* events and its boundary as they were, whatever clients have stored and  *)
(* in whatever order their requests run, unless it asked for a degraded    *)
(* upgrade of a task that was born with a finding without provenance.      *)
LEMMA RefusalStep ==
    ASSUME ApiInv, [Next]_vars
    PROVE  [answer'.status >= 400 => Spared]_vars
<1>. SUFFICES ASSUME Next, answer'.status >= 400
              PROVE  Spared
    OBVIOUS
<1>1. ASSUME NEW request \in Requests, NEW handler \in CommandHandlers \cup DirectHandlers,
             Apply(request, handler)
      PROVE  Spared
    BY <1>1, ApplyStep DEF ApiInv
<1>2. ASSUME NEW s \in Slots, NEW request \in Requests, Continue(s, request)
      PROVE  Spared
    <2>. DEFINE outcome == CreateContinuationPackage(request)
    <2>1. /\ outcome.task = task /\ outcome.snapshots = snapshots
          /\ outcome.error # "none" => outcome.events = events
        BY ContinuationOutcome DEF ApiInv
    <2>. HIDE DEF outcome
    <2>2. \/ UNCHANGED <<store, apiVars>>
          \/ /\ Stored(outcome) /\ UNCHANGED boundary
             /\ outcome.error # "none" \/ answer' = NoAnswer
        BY <1>2 DEF Continue, Answered, outcome
    <2>. QED
        BY <2>1, <2>2 DEF Stored, NoAnswer, Spared, store, apiVars
<1>3. ASSUME NEW s \in Slots, NEW request \in Requests, Fetch(s, request)
      PROVE  Spared
    <2>1. \/ UNCHANGED <<store, apiVars>>
          \/ \E handler \in CommandHandlers : Resolve(s, request, handler)
          \/ Continue(s, request)
          \/ \E handler \in DirectHandlers : Apply(request, handler)
        BY <1>3, FetchSteps
    <2>. QED
        BY <1>1, <1>2, <2>1 DEF Resolve, Answered, Spared, store, apiVars
<1>4. ASSUME NEW s \in Slots, Execute(s)
      PROVE  Spared
    BY <1>1, <1>4 DEF Execute, ApiInv, CallsOK, CallFits
<1>5. ASSUME NEW s \in Slots, Remember(s)
      PROVE  Spared
    BY <1>5 DEF Remember, Spared, store
<1>. QED
    BY <1>3, <1>4, <1>5 DEF Next

THEOREM NothingElseIsHalfDone == Spec => OnlyAnUpgradeIsHalfDone
<1>1. Init => ApiInv
    BY ApiInvInitially
<1>2. ApiInv /\ [Next]_vars => ApiInv'
    BY ApiInvStep
<1>3. ApiInv /\ [Next]_vars =>
         [answer'.status >= 400 => Spared]_vars
    BY RefusalStep
<1>. QED
    BY <1>1, <1>2, <1>3, PTL DEF Spec, OnlyAnUpgradeIsHalfDone, Spared

----------------------------------------------------------------------------
(* The routes of TaskJourney *)

(* The first route that a host can do completely.                          *)
Best(profile) ==
    IF {"local_fs", "local_shell", "local_repo"} \subseteq profile THEN 1
    ELSE IF "network_http" \in profile THEN 2
    ELSE IF "local_fs" \in profile THEN 3
    ELSE 4

LEMMA TheRouteDefinitions ==
    /\ DOMAIN RouteDefinitions = 1..4
    /\ RouteDefinitions[1].id = "local_repo" /\ RouteDefinitions[1].level = "equal"
    /\ RouteDefinitions[1].required = {"local_fs", "local_shell", "local_repo"}
    /\ RouteDefinitions[2].id = "github_pr" /\ RouteDefinitions[2].level = "degraded"
    /\ RouteDefinitions[2].required = {"network_http"}
    /\ RouteDefinitions[3].id = "uploaded_bundle" /\ RouteDefinitions[3].level = "degraded"
    /\ RouteDefinitions[3].required = {"local_fs"}
    /\ RouteDefinitions[4].id = "pasted_diff" /\ RouteDefinitions[4].level = "degraded"
    /\ RouteDefinitions[4].required = {}
BY DEF RouteDefinitions, RouteDefinition

(* A route that is covered completely scores 600 or 537, and no other more *)
(* than 460: what is missing always outweighs the level.                   *)
LEMMA Scores ==
    ASSUME NEW profile
    PROVE  /\ IF {"local_fs", "local_shell", "local_repo"} \subseteq profile
              THEN Score(RouteDefinitions[1], profile) = 600
              ELSE Score(RouteDefinitions[1], profile) \in 0..460
           /\ Score(RouteDefinitions[2], profile)
                = IF "network_http" \in profile THEN 537 ELSE 117
           /\ Score(RouteDefinitions[3], profile)
                = IF "local_fs" \in profile THEN 537 ELSE 117
           /\ Score(RouteDefinitions[4], profile) = 537
<1>. DEFINE local == {"local_fs", "local_shell", "local_repo"}
<1>1. EquivalenceWeight["equal"] = 180 /\ EquivalenceWeight["degraded"] = 117
    BY DEF EquivalenceWeight
<1>2. IsFiniteSet(local) /\ Cardinality(local) = 3
    <2>1. IsFiniteSet({"local_fs"}) /\ Cardinality({"local_fs"}) = 1
        BY FS_Singleton
    <2>2. /\ IsFiniteSet({"local_fs"} \cup {"local_shell"})
          /\ Cardinality({"local_fs"} \cup {"local_shell"}) = 2
        BY <2>1, FS_AddElement
    <2>3. local = ({"local_fs"} \cup {"local_shell"}) \cup {"local_repo"}
        OBVIOUS
    <2>4. /\ IsFiniteSet(({"local_fs"} \cup {"local_shell"}) \cup {"local_repo"})
          /\ Cardinality(({"local_fs"} \cup {"local_shell"}) \cup {"local_repo"}) = 2 + 1
        BY <2>2, FS_AddElement
    <2>. QED
        BY <2>3, <2>4
<1>3. /\ local \subseteq profile => Cardinality(local \cap profile) = 3
      /\ ~(local \subseteq profile) => Cardinality(local \cap profile) \in 0..2
    <2>1. local \cap profile \in SUBSET local
        OBVIOUS
    <2>2. IsFiniteSet(local \cap profile) /\ Cardinality(local \cap profile) <= 3
          /\ (3 = Cardinality(local \cap profile) => local = local \cap profile)
        BY <1>2, <2>1, FS_Subset
    <2>3. Cardinality(local \cap profile) \in Nat
        BY <2>2, FS_CardinalityType
    <2>4. local \subseteq profile => local \cap profile = local
        OBVIOUS
    <2>. HIDE DEF local
    <2>. QED
        BY <1>2, <2>2, <2>3, <2>4
<1>4. ASSUME NEW c
      PROVE  /\ Cardinality({c}) = 1
             /\ Cardinality({c} \cap profile) = IF c \in profile THEN 1 ELSE 0
    <2>1. {c} \cap profile = IF c \in profile THEN {c} ELSE {}
        OBVIOUS
    <2>. QED
        BY <2>1, FS_Singleton, FS_EmptySet
<1>5. Score(RouteDefinitions[1], profile)
         = (420 * Cardinality(local \cap profile)) \div 3 + 180
    BY <1>1, <1>2, TheRouteDefinitions DEF Score
<1>6. /\ Score(RouteDefinitions[2], profile)
           = (420 * Cardinality({"network_http"} \cap profile)) \div 1 + 117
      /\ Score(RouteDefinitions[3], profile)
           = (420 * Cardinality({"local_fs"} \cap profile)) \div 1 + 117
    BY <1>1, <1>4, TheRouteDefinitions DEF Score
<1>7. Score(RouteDefinitions[4], profile) = 537
    BY <1>1, FS_EmptySet, TheRouteDefinitions DEF Score
<1>8. ASSUME NEW n \in 0..3
      PROVE  (420 * n) \div 3 = 140 * n /\ (420 * n) \div 1 = 420 * n
    OBVIOUS
<1>9. /\ local \subseteq profile => Score(RouteDefinitions[1], profile) = 600
      /\ ~(local \subseteq profile) => Score(RouteDefinitions[1], profile) \in 0..460
    <2>. DEFINE n == Cardinality(local \cap profile)
    <2>. HIDE DEF n, local
    <2>1. n \in 0..3 /\ Score(RouteDefinitions[1], profile) = 140 * n + 180
        BY <1>3, <1>5, <1>8 DEF n
    <2>. QED
        BY <1>3, <2>1 DEF n
<1>10. /\ Score(RouteDefinitions[2], profile)
            = IF "network_http" \in profile THEN 537 ELSE 117
       /\ Score(RouteDefinitions[3], profile)
            = IF "local_fs" \in profile THEN 537 ELSE 117
    <2>1. (420 * 1) \div 1 = 420 /\ (420 * 0) \div 1 = 0
        OBVIOUS
    <2>2. /\ Cardinality({"network_http"} \cap profile)
               = IF "network_http" \in profile THEN 1 ELSE 0
          /\ Cardinality({"local_fs"} \cap profile)
               = IF "local_fs" \in profile THEN 1 ELSE 0
        BY <1>4
    <2>. QED
        BY <1>6, <2>1, <2>2
<1>. QED
    BY <1>7, <1>9, <1>10

LEMMA BestRouteIsResolved ==
    ASSUME NEW profile
    PROVE  Best(profile) \in 1..4 /\ ResolveTaskRoute(profile) = RouteDefinitions[Best(profile)]
<1>. DEFINE score(i) == Score(RouteDefinitions[i], profile)
            wins(i)  == \A j \in DOMAIN RouteDefinitions :
                           score(j) < score(i) \/ (score(j) = score(i) /\ i <= j)
            best     == CHOOSE i \in DOMAIN RouteDefinitions : wins(i)
<1>1. Best(profile) \in 1..4
    BY DEF Best
<1>2. ASSUME NEW i \in 1..4
      PROVE  score(i) \in Nat
    BY Scores
<1>3. wins(Best(profile))
    BY Scores, TheRouteDefinitions DEF Best
<1>. HIDE DEF score
<1>4. ASSUME NEW i \in 1..4, wins(i)
      PROVE  i = Best(profile)
    BY <1>1, <1>2, <1>3, <1>4, TheRouteDefinitions
<1>. HIDE DEF wins
<1>5. best = Best(profile)
    BY <1>1, <1>3, <1>4, TheRouteDefinitions
<1>6. ResolveTaskRoute(profile) = RouteDefinitions[best]
    BY DEF ResolveTaskRoute, best, wins, score
<1>. QED
    BY <1>1, <1>5, <1>6

LEMMA SupportedRoutes ==
    ASSUME NEW profile
    PROVE  /\ Supports(profile, "local_repo")
                <=> {"local_fs", "local_shell", "local_repo"} \subseteq profile
           /\ Supports(profile, "github_pr") <=> "network_http" \in profile
           /\ Supports(profile, "uploaded_bundle") <=> "local_fs" \in profile
           /\ Supports(profile, "pasted_diff")
<1>1. ASSUME NEW id
      PROVE  Supports(profile, id)
               <=> \/ "local_repo" = id /\ {"local_fs", "local_shell", "local_repo"} \subseteq profile
                   \/ "github_pr" = id /\ {"network_http"} \subseteq profile
                   \/ "uploaded_bundle" = id /\ {"local_fs"} \subseteq profile
                   \/ "pasted_diff" = id /\ {} \subseteq profile
    <2>1. \A i : i \in 1..4 <=> i = 1 \/ i = 2 \/ i = 3 \/ i = 4
        OBVIOUS
    <2>. QED
        BY <2>1, TheRouteDefinitions DEF Supports
<1>. QED
    BY <1>1

(* The route of a contract is the first one the host supports, it lacks    *)
(* nothing, and it verifies fully on hosts with a repository alone.        *)
LEMMA ContractFits ==
    ASSUME NEW profile
    PROVE  /\ Contract(profile).route = Preference[Best(profile)]
           /\ Contract(profile).route \in RouteIds
           /\ Contract(profile).missing = {}
           /\ Contract(profile).level \in {"equal", "degraded"}
           /\ Contract(profile).level = "equal" <=> Contract(profile).route = "local_repo"
           /\ Contract(profile).route = "local_repo" <=> Supports(profile, "local_repo")
<1>. DEFINE selected == ResolveTaskRoute(profile)
<1>1. /\ Contract(profile).route = selected.id
      /\ Contract(profile).level = selected.level
      /\ Contract(profile).missing = selected.required \ profile
    BY DEF Contract
<1>2. selected = RouteDefinitions[Best(profile)] /\ Best(profile) \in 1..4
    BY BestRouteIsResolved
<1>. HIDE DEF selected
<1>3. \A i \in 1..4 : RouteDefinitions[i].id = Preference[i]
    BY TheRouteDefinitions DEF Preference
<1>. QED
    BY <1>1, <1>2, <1>3, TheRouteDefinitions, SupportedRoutes DEF Best, RouteIds

LEMMA PreferredRoute ==
    ASSUME NEW profile
    PROVE  Preference[CHOOSE i \in DOMAIN Preference :
               /\ Supports(profile, Preference[i])
               /\ \A j \in 1..(i - 1) : ~Supports(profile, Preference[j])]
             = Preference[Best(profile)]
<1>. DEFINE first(i) == /\ Supports(profile, Preference[i])
                        /\ \A j \in 1..(i - 1) : ~Supports(profile, Preference[j])
<1>1. /\ DOMAIN Preference = 1..4
      /\ Preference[1] = "local_repo" /\ Preference[2] = "github_pr"
      /\ Preference[3] = "uploaded_bundle" /\ Preference[4] = "pasted_diff"
    BY DEF Preference
<1>2. first(Best(profile)) /\ Best(profile) \in 1..4
    BY <1>1, SupportedRoutes DEF Best
<1>3. ASSUME NEW i \in 1..4, first(i)
      PROVE  i = Best(profile)
    <2>1. ~(i < Best(profile)) /\ ~(Best(profile) < i)
        BY <1>2, <1>3
    <2>. QED
        BY <1>2, <2>1
<1>. HIDE DEF first
<1>4. (CHOOSE i \in DOMAIN Preference : first(i)) = Best(profile)
    BY <1>1, <1>2, <1>3
<1>. QED
    BY <1>4 DEF first

----------------------------------------------------------------------------
(* The steps of TaskJourney *)

JourneyStoreOK == StoreOK(RouteIds, {AnAction})

Journeys ==
    [stage : {"none", "create", "activate", "announce", "select", "transition"},
     route : RouteIds \cup {"none"}, level : {"equal", "degraded", "none"},
     from : RouteIds \cup {"none"}]

(* The contract a journey goes by.                                         *)
LevelOK ==
    journey # NoJourney =>
        /\ journey.stage # "none" /\ journey.route \in RouteIds
        /\ journey.level \in {"equal", "degraded"}
        /\ journey.level = "equal" <=> journey.route = "local_repo"

(* The history of the routes of the task.                                  *)
RoutesOK ==
    task # NoTask =>
        /\ Len(task.routes) >= 1 /\ task.routes[Len(task.routes)] = task.route
        /\ \A i \in 1..(Len(task.routes) - 1) : task.routes[i] # task.routes[i + 1]

(* Between the selection of a stronger route and the transition of the     *)
(* findings, a finding may still be verified on the route left behind.     *)
FindingFits(finding, route, stage, verified) ==
    /\ finding.shape = "ledger"
    /\ finding.status = "verified" => finding.route \in verified[finding.id]
    /\ finding.status = "reused" => verified[finding.id] # {}
    /\ stage # "transition" /\ route = "local_repo"
          /\ finding.status = "verified" => finding.route = "local_repo"

FindingsOK ==
    task # NoTask =>
        \A i \in 1..Len(task.findings) :
            FindingFits(task.findings[i], task.route, journey.stage, verifiedOn)

(* The resumes announced, and the fact that the next announcement is new.  *)
ResumedAt(stored) == {i \in 1..Len(stored) : stored[i].type = "route_selected_resume"}
Resumes(stored) == Cardinality(ResumedAt(stored))

ResumesBelow ==
    \A i \in 1..Len(events) :
        events[i].type = "route_selected_resume" => events[i].version < task.version

HostFits(route) == \A host \in hostOf : route = Preference[Best(host)]

Fresh == task = NoTask /\ hostOf = {} /\ events = << >>

Settled ==
    /\ task # NoTask /\ task.state = "active" /\ HostFits(task.route)
    /\ Len(task.routes) - 1 = Resumes(events)

(* Half way through a start or a resume: what the calls so far have done.  *)
JourneyFits ==
    \/ journey = NoJourney /\ (Fresh \/ Settled)
    \/ /\ journey.stage = "create" /\ journey.from = "none"
       /\ \/ task = NoTask /\ events = << >> /\ HostFits(journey.route)
          \/ Settled
    \/ /\ journey.stage = "activate" /\ journey.from = "none" /\ task # NoTask
       /\ task.state = "pending" /\ task.progress = [done |-> 0, total |-> 6]
       /\ HostFits(task.route) /\ Len(task.routes) = 1 /\ events = << >>
    \/ /\ journey.stage = "announce" /\ journey.from = "none" /\ Settled
    \/ /\ journey.stage = "select" /\ journey.from # "none"
       /\ task # NoTask /\ task.state = "active" /\ HostFits(journey.route)
       /\ journey.route # task.route /\ Len(task.routes) - 1 = Resumes(events)
    \/ /\ journey.stage \in {"transition", "announce"} /\ journey.from # "none"
       /\ task # NoTask /\ task.state = "active" /\ HostFits(journey.route)
       /\ task.route = journey.route /\ Len(task.routes) - 1 = Resumes(events) + 1
       /\ ResumesBelow

JourneyInv ==
    /\ JourneyStoreOK
    /\ journey \in Journeys
    /\ verifiedOn \in [FindingIds -> SUBSET RouteIds]
    /\ LevelOK
    /\ RoutesOK
    /\ FindingsOK
    /\ JourneyFits

LEMMA ResumesCount ==
    ASSUME NEW stored \in Seq(Events)
    PROVE  /\ Resumes(stored) \in Nat
           /\ \A event \in Events :
                 Resumes(Append(stored, event))
                   = IF event.type = "route_selected_resume" THEN Resumes(stored) + 1
                     ELSE Resumes(stored)
<1>1. IsFiniteSet(ResumedAt(stored)) /\ Resumes(stored) \in Nat
    <2>1. IsFiniteSet(1..Len(stored)) /\ ResumedAt(stored) \in SUBSET (1..Len(stored))
        BY FS_Interval DEF ResumedAt
    <2>. QED
        BY <2>1, FS_Subset, FS_CardinalityType DEF Resumes
<1>3. ASSUME NEW event \in Events
      PROVE  Resumes(Append(stored, event))
               = IF event.type = "route_selected_resume" THEN Resumes(stored) + 1
                 ELSE Resumes(stored)
    <2>1. /\ Len(stored) \in Nat /\ Len(Append(stored, event)) = Len(stored) + 1
          /\ \A i \in 1..Len(stored) : Append(stored, event)[i] = stored[i]
          /\ Append(stored, event)[Len(stored) + 1] = event
        OBVIOUS
    <2>2. Len(stored) + 1 \notin ResumedAt(stored)
        BY <2>1 DEF ResumedAt
    <2>3. ResumedAt(Append(stored, event))
            = IF event.type = "route_selected_resume"
              THEN ResumedAt(stored) \cup {Len(stored) + 1} ELSE ResumedAt(stored)
        BY <2>1 DEF ResumedAt
    <2>. QED
        BY <1>1, <2>2, <2>3, FS_AddElement DEF Resumes
<1>. QED
    BY <1>1, <1>3

LEMMA NoResumes == Resumes(<< >>) = 0
<1>1. ResumedAt(<< >>) = {}
    BY DEF ResumedAt
<1>. QED
    BY <1>1, FS_EmptySet DEF Resumes

LEMMA NoTaskIsNoJourneyRecord == NoTask \notin MemoryTasks(RouteIds, {AnAction})
BY TaskJourneyAssumption

(* A call that changes the record keeps the store in order, adds no        *)
(* announcement, and leaves those there are behind.                        *)
LEMMA ChangeInAJourney ==
    ASSUME JourneyInv, task # NoTask, NEW next \in MemoryTasks(RouteIds, {AnAction}),
           next.version = task.version + 1, NEW type \in ChangeTypes, NEW outcome,
           Changes(outcome, next, type), Stores(outcome)
    PROVE  /\ JourneyStoreOK' /\ task' = next /\ task' # NoTask
           /\ Resumes(events') = Resumes(events) /\ ResumesBelow'
<1>. DEFINE event == Event(type, next.version, NoToken, 0)
<1>1. task' = next /\ events' = Append(events, event) /\ next # NoTask
    BY NoTaskIsNoJourneyRecord DEF Changes, Stores
<1>2. JourneyStoreOK'
    BY <1>1, ChangeKeepsTheStore DEF JourneyInv, JourneyStoreOK
<1>3. event \in Events /\ event.type # "route_selected_resume" /\ events \in Seq(Events)
    BY MemoryTaskTypes DEF Event, Events, EventTypes, ChangeTypes, JourneyInv,
                           JourneyStoreOK, StoreOK
<1>. HIDE DEF event
<1>4. Resumes(events') = Resumes(events)
    BY <1>1, <1>3, ResumesCount
<1>5. ASSUME NEW i \in 1..Len(events'), events'[i].type = "route_selected_resume"
      PROVE  events'[i].version < task'.version
    <2>1. i \in 1..Len(events) /\ events'[i] = events[i]
        BY <1>1, <1>3, <1>5
    <2>2. events[i] \in Events /\ events[i].version <= task.version
          /\ task.version \in Nat
        BY <1>5, <2>1, MemoryTaskTypes DEF JourneyInv, JourneyStoreOK, StoreOK
    <2>. QED
        BY <1>1, <2>1, <2>2 DEF Events
<1>. QED
    BY <1>1, <1>2, <1>4, <1>5 DEF ResumesBelow

LEMMA BeginStartKeepsOrder ==
    ASSUME JourneyInv, NEW profile, NEW fit \in BOOLEAN, BeginStart(profile, fit)
    PROVE  JourneyInv'
<1>. DEFINE begun == [stage |-> "create", route |-> Contract(profile).route,
                      level |-> Contract(profile).level, from |-> "none"]
<1>1. /\ journey = NoJourney /\ UNCHANGED <<store, verifiedOn>>
      /\ \/ journey' = begun /\ hostOf' = IF task = NoTask THEN {profile} ELSE hostOf
         \/ journey' = journey /\ hostOf' = hostOf
    BY DEF BeginStart
<1>2. UNCHANGED <<task, events, verifiedOn>>
    BY <1>1 DEF store
<1>3. CASE journey' = journey /\ hostOf' = hostOf
    BY <1>2, <1>3 DEF JourneyInv, JourneyStoreOK, StoreOK, LevelOK, RoutesOK, FindingsOK,
                      FindingFits, JourneyFits, Fresh, Settled, HostFits, ResumesBelow
<1>4. CASE journey' = begun /\ hostOf' = IF task = NoTask THEN {profile} ELSE hostOf
    <2>1. /\ Contract(profile).route = Preference[Best(profile)]
          /\ Contract(profile).route \in RouteIds
          /\ Contract(profile).level \in {"equal", "degraded"}
          /\ Contract(profile).level = "equal" <=> Contract(profile).route = "local_repo"
        BY ContractFits
    <2>2. /\ journey'.stage = "create" /\ journey'.from = "none"
          /\ journey'.route = Contract(profile).route
          /\ journey'.level = Contract(profile).level /\ journey' \in Journeys
        BY <1>4, <2>1 DEF Journeys
    <2>3. journey.stage = "none"
        BY <1>1 DEF NoJourney
    <2>4. JourneyStoreOK' /\ RoutesOK' /\ FindingsOK'
        BY <1>2, <2>2, <2>3 DEF JourneyInv, JourneyStoreOK, StoreOK, RoutesOK, FindingsOK,
                                FindingFits
    <2>5. LevelOK'
        BY <2>1, <2>2 DEF LevelOK
    <2>6. Fresh \/ Settled
        BY <1>1 DEF JourneyInv, JourneyFits, NoJourney
    <2>7. JourneyFits'
        <3>1. CASE task = NoTask
            BY <1>2, <1>4, <2>1, <2>2, <2>6, <3>1 DEF JourneyFits, Fresh, Settled, HostFits
        <3>2. CASE task # NoTask
            <4>1. Settled'
                BY <1>2, <1>4, <2>6, <3>2 DEF Fresh, Settled, HostFits
            <4>. QED
                BY <2>2, <4>1 DEF JourneyFits
        <3>. QED
            BY <3>1, <3>2
    <2>. QED
        BY <1>2, <2>2, <2>4, <2>5, <2>7 DEF JourneyInv
<1>. QED
    BY <1>1, <1>3, <1>4

LEMMA BeginResumeKeepsOrder ==
    ASSUME JourneyInv, NEW profile, BeginResume(profile)
    PROVE  JourneyInv'
<1>. DEFINE begun == [stage |-> "select", route |-> Contract(profile).route,
                      level |-> Contract(profile).level, from |-> task.route]
<1>1. /\ journey = NoJourney /\ task # NoTask /\ UNCHANGED <<store, verifiedOn>>
      /\ hostOf' = {profile}
      /\ journey' = IF task.route = Contract(profile).route THEN NoJourney ELSE begun
    BY DEF BeginResume
<1>2. UNCHANGED <<task, events, verifiedOn>>
    BY <1>1 DEF store
<1>3. /\ Contract(profile).route = Preference[Best(profile)]
      /\ Contract(profile).route \in RouteIds
      /\ Contract(profile).level \in {"equal", "degraded"}
      /\ Contract(profile).level = "equal" <=> Contract(profile).route = "local_repo"
    BY ContractFits
<1>4. /\ Settled /\ task.route \in RouteIds /\ journey.stage = "none"
    BY <1>1, MemoryTaskTypes DEF JourneyInv, JourneyStoreOK, StoreOK, JourneyFits, Fresh,
                                 NoJourney
<1>5. HostFits(Contract(profile).route)'
    BY <1>1, <1>3 DEF HostFits
<1>6. CASE task.route = Contract(profile).route
    <2>1. journey' = journey
        BY <1>1, <1>6
    <2>2. Settled'
        BY <1>2, <1>4, <1>5, <1>6 DEF Settled, HostFits
    <2>. QED
        BY <1>1, <1>2, <2>1, <2>2 DEF JourneyInv, JourneyStoreOK, StoreOK, LevelOK, RoutesOK,
                                      FindingsOK, FindingFits, JourneyFits
<1>7. CASE task.route # Contract(profile).route
    <2>1. journey' = begun
        BY <1>1, <1>7
    <2>2. /\ journey'.stage = "select" /\ journey'.from = task.route
          /\ journey'.route = Contract(profile).route
          /\ journey'.level = Contract(profile).level /\ journey' \in Journeys
        BY <1>3, <1>4, <2>1 DEF Journeys
    <2>. HIDE DEF begun
    <2>3. JourneyStoreOK' /\ RoutesOK' /\ FindingsOK'
        BY <1>2, <1>4, <2>2 DEF JourneyInv, JourneyStoreOK, StoreOK, RoutesOK, FindingsOK,
                                FindingFits
    <2>4. LevelOK'
        BY <1>3, <2>2 DEF LevelOK
    <2>5. task.route # "none"
        BY <1>4 DEF RouteIds
    <2>6. JourneyFits'
        BY <1>1, <1>2, <1>4, <1>5, <1>7, <2>2, <2>5 DEF JourneyFits, Settled, HostFits
    <2>. QED
        BY <1>2, <2>2, <2>3, <2>4, <2>6 DEF JourneyInv
<1>. QED
    BY <1>6, <1>7

(* A call that succeeds takes the journey to its next stage.               *)
LEMMA JourneyMovesOn ==
    ASSUME JourneyInv, journey.stage # "none", NEW outcome,
           NEW stage \in {"activate", "announce", "transition"},
           outcome.error = "none", Calls(outcome, stage)
    PROVE  /\ journey' \in Journeys /\ LevelOK' /\ journey'.stage = stage
           /\ journey'.route = journey.route /\ journey'.level = journey.level
           /\ journey'.from = journey.from
           /\ Stores(outcome) /\ UNCHANGED <<hostOf, verifiedOn>>
<1>1. /\ journey' = [journey EXCEPT !.stage = stage] /\ Stores(outcome)
      /\ UNCHANGED <<hostOf, verifiedOn>>
    BY DEF Calls
<1>2. journey \in Journeys /\ journey # NoJourney
    BY DEF JourneyInv, NoJourney
<1>3. /\ journey' \in Journeys /\ journey'.stage = stage
      /\ journey'.route = journey.route /\ journey'.level = journey.level
      /\ journey'.from = journey.from
    BY <1>1, <1>2 DEF Journeys
<1>4. LevelOK'
    BY <1>2, <1>3 DEF JourneyInv, LevelOK
<1>. QED
    BY <1>1, <1>3, <1>4

LEMMA StartCreateKeepsOrder ==
    ASSUME JourneyInv, StartCreate
    PROVE  JourneyInv'
<1>. DEFINE progress == [done |-> 0, total |-> 6]
            born     == CreatePortableTask(journey.route, AnAction, 6)
            request  == [born |-> born]
            outcome  == Create(request)
<1>1. journey.stage = "create" /\ Calls(outcome, "activate")
    BY DEF StartCreate
<1>2. IF task # NoTask THEN Refuses(outcome)
      ELSE /\ outcome.error = "none" /\ outcome.task = born
           /\ outcome.snapshots = <<born>> /\ outcome.events = events
           /\ outcome.consumed = consumed
    <2>1. request.born = born
        OBVIOUS
    <2>. HIDE DEF request, born
    <2>. QED
        BY <2>1, CreateOutcome
<1>. HIDE DEF outcome
<1>3. CASE task # NoTask
    <2>1. /\ journey' = NoJourney
          /\ UNCHANGED <<task, events, hostOf, verifiedOn>>
        BY <1>1, <1>2, <1>3 DEF Refuses, Calls, Stores
    <2>2. journey'.stage = "none" /\ journey' \in Journeys /\ LevelOK'
        BY <2>1 DEF NoJourney, Journeys, LevelOK
    <2>3. Settled /\ Settled'
        BY <1>1, <1>3, <2>1 DEF JourneyInv, JourneyFits, Settled, HostFits, NoJourney
    <2>. QED
        BY <1>1, <2>1, <2>2, <2>3 DEF JourneyInv, JourneyStoreOK, StoreOK, RoutesOK, FindingsOK,
                                FindingFits, JourneyFits
<1>4. CASE task = NoTask
    <2>1. /\ journey' \in Journeys /\ LevelOK' /\ journey'.stage = "activate"
          /\ journey'.from = journey.from
          /\ Stores(outcome) /\ UNCHANGED <<hostOf, verifiedOn>>
        BY <1>1, <1>2, <1>4, JourneyMovesOn
    <2>2. journey.from = "none" /\ events = << >> /\ HostFits(journey.route)
          /\ journey.route \in RouteIds
        BY <1>1, <1>4 DEF JourneyInv, JourneyFits, LevelOK, Settled, NoJourney
    <2>3. /\ born \in MemoryTasks(RouteIds, {AnAction})
          /\ born.version = 1 /\ born.state = "pending"
          /\ born.progress = progress
          /\ born.route = journey.route /\ born.routes = <<journey.route>>
          /\ born.findings = << >>
        BY <2>2, CreateType
    <2>4. task' = born /\ events' = << >> /\ born # NoTask
        BY <1>2, <1>4, <2>1, <2>2, <2>3, NoTaskIsNoJourneyRecord DEF Stores
    <2>. HIDE DEF born
    <2>5. JourneyStoreOK'
        BY <2>3, <2>4 DEF JourneyStoreOK, StoreOK, Events
    <2>6. RoutesOK' /\ FindingsOK'
        <3>1. /\ task'.routes = <<journey.route>> /\ task'.route = journey.route
              /\ task'.findings = << >>
            BY <2>3, <2>4
        <3>2. /\ Len(<<journey.route>>) = 1 /\ <<journey.route>>[1] = journey.route
              /\ Len(<< >>) = 0
            OBVIOUS
        <3>. QED
            BY <3>1, <3>2 DEF RoutesOK, FindingsOK
    <2>7. JourneyFits'
        BY <2>1, <2>2, <2>3, <2>4 DEF JourneyFits, HostFits
    <2>. QED
        BY <2>1, <2>5, <2>6, <2>7 DEF JourneyInv
<1>. QED
    BY <1>3, <1>4

LEMMA StartActivateKeepsOrder ==
    ASSUME JourneyInv, StartActivate
    PROVE  JourneyInv'
<1>. DEFINE progress == [done |-> 1, total |-> 6]
            request  == [expected |-> task.version, state |-> "active",
                         action |-> AnAction, progress |-> progress]
            outcome  == TransitionState(request)
            next     == TransitionPortableTaskState(task, "active", AnAction, progress)
<1>1. journey.stage = "activate" /\ Calls(outcome, "announce")
    BY DEF StartActivate
<1>2. /\ task # NoTask /\ journey.from = "none" /\ task.state = "pending"
      /\ task.progress = [done |-> 0, total |-> 6]
      /\ HostFits(task.route) /\ Len(task.routes) = 1 /\ events = << >>
      /\ task \in MemoryTasks(RouteIds, {AnAction})
    BY <1>1 DEF JourneyInv, JourneyFits, NoJourney, JourneyStoreOK, StoreOK
<1>3. progress \in Progress /\ "active" \in TaskStates /\ AnAction \in {AnAction}
    BY DEF Progress, TaskStates
<1>4. TransitionAllowed(task, "active") /\ MonotonicProgress(task, progress)
    BY <1>2 DEF TransitionAllowed, TRANSITIONS, MonotonicProgress
<1>5. Changes(outcome, next, "state_change")
    <2>1. request.expected = task.version /\ request.state = "active"
          /\ request.action = AnAction /\ request.progress = progress
        OBVIOUS
    <2>. HIDE DEF request, progress
    <2>. QED
        BY <1>2, <1>3, <1>4, <2>1, TransitionStateOutcome DEF JourneyInv, JourneyStoreOK
<1>6. /\ next \in MemoryTasks(RouteIds, {AnAction})
      /\ next.version = task.version + 1 /\ next.state = "active"
      /\ next.route = task.route /\ next.routes = task.routes
      /\ next.findings = task.findings
    <2>. HIDE DEF progress
    <2>. QED
        BY <1>2, <1>3, TransitionStateType
<1>. HIDE DEF outcome, next
<1>7. outcome.error = "none"
    BY <1>5 DEF Changes
<1>8. /\ journey' \in Journeys /\ LevelOK' /\ journey'.stage = "announce"
      /\ journey'.from = journey.from
      /\ Stores(outcome) /\ UNCHANGED <<hostOf, verifiedOn>>
    BY <1>1, <1>7, JourneyMovesOn
<1>9. JourneyStoreOK' /\ task' = next /\ task' # NoTask /\ Resumes(events') = Resumes(events)
    BY <1>2, <1>5, <1>6, <1>8, ChangeInAJourney DEF ChangeTypes
<1>10. RoutesOK' /\ FindingsOK'
    BY <1>1, <1>2, <1>6, <1>8, <1>9 DEF JourneyInv, RoutesOK, FindingsOK, FindingFits
<1>11. Resumes(events) = 0
    BY <1>2, NoResumes
<1>12. Settled'
    <2>1. Len(task'.routes) - 1 = Resumes(events')
        <3>1. Len(task'.routes) = 1
            BY <1>2, <1>6, <1>9
        <3>2. Resumes(events') = 0
            BY <1>9, <1>11
        <3>. QED
            BY <3>1, <3>2
    <2>2. task'.state = "active" /\ HostFits(task.route)' /\ task' # NoTask
        BY <1>2, <1>6, <1>8, <1>9 DEF HostFits
    <2>. QED
        BY <2>1, <2>2 DEF Settled
<1>13. JourneyFits'
    BY <1>2, <1>8, <1>12 DEF JourneyFits
<1>. QED
    BY <1>8, <1>9, <1>10, <1>13 DEF JourneyInv

LEMMA ResumeSelectKeepsOrder ==
    ASSUME JourneyInv, ResumeSelect
    PROVE  JourneyInv'
<1>. DEFINE request == [expected |-> task.version, route |-> journey.route]
            outcome == SelectRoute(request)
            next    == AppendRouteSelection(task, journey.route)
<1>1. journey.stage = "select" /\ Calls(outcome, "transition")
    BY DEF ResumeSelect
<1>2. /\ task # NoTask /\ journey.from # "none" /\ task.state = "active"
      /\ HostFits(journey.route) /\ journey.route # task.route
      /\ Len(task.routes) - 1 = Resumes(events)
      /\ task \in MemoryTasks(RouteIds, {AnAction})
      /\ journey.route \in RouteIds
    BY <1>1 DEF JourneyInv, JourneyFits, NoJourney, JourneyStoreOK, StoreOK, LevelOK
<1>3. Changes(outcome, next, "route_selected")
    <2>1. request.expected = task.version /\ request.route = journey.route
        OBVIOUS
    <2>. HIDE DEF request
    <2>. QED
        BY <1>2, <2>1, SelectRouteOutcome DEF JourneyInv, JourneyStoreOK
<1>4. /\ next \in MemoryTasks(RouteIds, {AnAction})
      /\ next.version = task.version + 1 /\ next.state = task.state
      /\ next.route = journey.route /\ next.routes = Append(task.routes, journey.route)
      /\ next.findings = task.findings
    BY <1>2, SelectRouteType
<1>. HIDE DEF outcome, next
<1>5. outcome.error = "none"
    BY <1>3 DEF Changes
<1>6. /\ journey' \in Journeys /\ LevelOK' /\ journey'.stage = "transition"
      /\ journey'.route = journey.route /\ journey'.from = journey.from
      /\ Stores(outcome) /\ UNCHANGED <<hostOf, verifiedOn>>
    BY <1>1, <1>5, JourneyMovesOn
<1>7. /\ JourneyStoreOK' /\ task' = next /\ task' # NoTask
      /\ Resumes(events') = Resumes(events) /\ ResumesBelow'
    BY <1>2, <1>3, <1>4, <1>6, ChangeInAJourney DEF ChangeTypes
<1>8. /\ Len(task.routes) \in Nat /\ Len(next.routes) = Len(task.routes) + 1
      /\ \A i \in 1..Len(task.routes) : next.routes[i] = task.routes[i]
      /\ next.routes[Len(task.routes) + 1] = journey.route
    BY <1>2, <1>4, MemoryTaskTypes
<1>9. RoutesOK'
    <2>1. /\ Len(task.routes) >= 1 /\ task.routes[Len(task.routes)] = task.route
          /\ \A i \in 1..(Len(task.routes) - 1) : task.routes[i] # task.routes[i + 1]
        BY <1>2 DEF JourneyInv, RoutesOK
    <2>2. /\ Len(next.routes) >= 1
          /\ next.routes[Len(next.routes)] = next.route
          /\ \A i \in 1..(Len(next.routes) - 1) : next.routes[i] # next.routes[i + 1]
        <3>. DEFINE n == Len(task.routes)
        <3>1. ASSUME NEW i \in 1..(Len(next.routes) - 1)
              PROVE  next.routes[i] # next.routes[i + 1]
            <4>1. CASE i = n
                BY <1>2, <1>8, <2>1, <4>1
            <4>2. CASE i # n
                <5>1. i \in 1..(n - 1) /\ i \in 1..n /\ i + 1 \in 1..n
                    BY <1>8, <4>2
                <5>. QED
                    BY <1>8, <2>1, <5>1
            <4>. QED
                BY <4>1, <4>2
        <3>. QED
            BY <1>4, <1>8, <3>1
    <2>. QED
        BY <1>7, <2>2 DEF RoutesOK
<1>10. FindingsOK'
    BY <1>1, <1>2, <1>4, <1>6, <1>7 DEF JourneyInv, FindingsOK, FindingFits
<1>11. JourneyFits'
    <2>1. Len(task'.routes) - 1 = Resumes(events') + 1
        BY <1>2, <1>7, <1>8
    <2>. QED
        BY <1>2, <1>4, <1>6, <1>7, <2>1 DEF JourneyFits, HostFits
<1>. QED
    BY <1>6, <1>7, <1>9, <1>10, <1>11 DEF JourneyInv

LEMMA ResumeTransitionKeepsOrder ==
    ASSUME JourneyInv, ResumeTransition
    PROVE  JourneyInv'
<1>. DEFINE request == [expected |-> task.version, route |-> journey.route,
                        level |-> journey.level]
            outcome == TransitionFindingsForRouteUpgrade(request)
            next    == Upgraded(task, journey.route, journey.level)
            after   == TransitionFindings(task.findings, journey.route, journey.level)
<1>1. journey.stage = "transition" /\ Calls(outcome, "announce")
    BY DEF ResumeTransition
<1>2. /\ task # NoTask /\ journey.from # "none" /\ task.state = "active"
      /\ HostFits(journey.route) /\ task.route = journey.route
      /\ Len(task.routes) - 1 = Resumes(events) + 1
      /\ task \in MemoryTasks(RouteIds, {AnAction})
      /\ journey.route \in RouteIds /\ journey.level \in {"equal", "degraded"}
      /\ journey.level = "equal" <=> journey.route = "local_repo"
    BY <1>1 DEF JourneyInv, JourneyFits, NoJourney, JourneyStoreOK, StoreOK, LevelOK
<1>3. Changes(outcome, next, "finding_transitioned")
    <2>1. /\ request.expected = task.version /\ request.route = journey.route
          /\ request.level = journey.level
        OBVIOUS
    <2>2. DOMAIN task.findings = 1..Len(task.findings)
        BY <1>2, MemoryTaskTypes
    <2>3. ~HasRawFinding(task) /\ CanTransitionFindings(task.findings, journey.level)
        BY <1>2, <2>2 DEF JourneyInv, FindingsOK, FindingFits, HasRawFinding,
                          CanTransitionFindings
    <2>. HIDE DEF request
    <2>4. UpgradeFits(request)
        BY <1>2, <2>1, <2>3 DEF UpgradeFits
    <2>. QED
        BY <1>2, <2>1, <2>3, <2>4, UpgradeOutcome DEF JourneyInv, JourneyStoreOK
<1>4. /\ next \in MemoryTasks(RouteIds, {AnAction})
      /\ next.version = task.version + 1 /\ next.state = task.state
      /\ next.route = task.route /\ next.routes = task.routes
      /\ next.findings = after
    BY <1>2, UpgradedTaskType
<1>5. /\ Len(after) = Len(task.findings) /\ task.findings \in Seq(MemoryFindings(RouteIds))
      /\ \A i \in 1..Len(task.findings) :
            after[i] = IF journey.level = "equal"
                       THEN TransitionEntry(task.findings[i], journey.route)
                       ELSE task.findings[i]
    BY <1>2, MemoryTaskTypes, UpgradeType
<1>. HIDE DEF outcome, next, after
<1>6. outcome.error = "none"
    BY <1>3 DEF Changes
<1>7. /\ journey' \in Journeys /\ LevelOK' /\ journey'.stage = "announce"
      /\ journey'.route = journey.route /\ journey'.from = journey.from
      /\ Stores(outcome) /\ UNCHANGED <<hostOf, verifiedOn>>
    BY <1>1, <1>6, JourneyMovesOn
<1>8. /\ JourneyStoreOK' /\ task' = next /\ task' # NoTask
      /\ Resumes(events') = Resumes(events) /\ ResumesBelow'
    BY <1>2, <1>3, <1>4, <1>7, ChangeInAJourney DEF ChangeTypes
<1>9. RoutesOK'
    BY <1>2, <1>4, <1>8 DEF JourneyInv, RoutesOK
<1>10. ASSUME NEW i \in 1..Len(task.findings)
       PROVE  FindingFits(after[i], task'.route, journey'.stage, verifiedOn')
    <2>. DEFINE finding == task.findings[i]
    <2>1. /\ finding.status = "verified" => finding.route \in verifiedOn[finding.id]
          /\ finding.status = "reused" => verifiedOn[finding.id] # {}
          /\ finding.shape = "ledger"
        BY <1>2 DEF JourneyInv, FindingsOK, FindingFits
    <2>2. finding \in MemoryFindings(RouteIds)
        BY <1>5
    <2>. HIDE DEF finding
    <2>3. CASE journey.level = "equal"
        <3>1. after[i] = TransitionEntry(finding, journey.route)
            BY <1>5, <2>3 DEF finding
        <3>2. CASE finding.route # journey.route /\ finding.status = "verified"
            <4>1. /\ after[i].status = "reused" /\ after[i].id = finding.id
                  /\ after[i].shape = finding.shape
                BY <2>2, <3>1, <3>2 DEF TransitionEntry, MemoryFindings
            <4>2. verifiedOn[after[i].id] # {}
                BY <2>1, <3>2, <4>1
            <4>. QED
                BY <1>7, <1>8, <2>1, <4>1, <4>2 DEF FindingFits
        <3>3. CASE ~(finding.route # journey.route /\ finding.status = "verified")
            <4>1. after[i] = finding
                BY <3>1, <3>3 DEF TransitionEntry
            <4>2. finding.status = "verified" => finding.route = "local_repo"
                BY <1>2, <2>3, <3>3
            <4>. QED
                BY <1>7, <1>8, <2>1, <4>1, <4>2 DEF FindingFits
        <3>. QED
            BY <3>2, <3>3
    <2>4. CASE journey.level # "equal"
        <3>1. after[i] = finding /\ task'.route # "local_repo"
            BY <1>2, <1>4, <1>5, <1>8, <2>4 DEF finding
        <3>. QED
            BY <1>7, <2>1, <3>1 DEF FindingFits
    <2>. QED
        BY <2>3, <2>4
<1>11. FindingsOK'
    BY <1>4, <1>5, <1>8, <1>10 DEF FindingsOK
<1>12. JourneyFits'
    BY <1>2, <1>4, <1>7, <1>8 DEF JourneyFits, HostFits
<1>. QED
    BY <1>7, <1>8, <1>9, <1>11, <1>12 DEF JourneyInv

LEMMA AnnounceKeepsOrder ==
    ASSUME JourneyInv, Announce
    PROVE  JourneyInv'
<1>. DEFINE type  == IF journey.from = "none" THEN "state_change_start"
                     ELSE "route_selected_resume"
            event == Event(type, task.version, NoToken, 0)
            outcome == [Refused("none") EXCEPT !.events = AppendEvent(event)]
<1>1. journey.stage = "announce" /\ Calls(outcome, "none")
    BY DEF Announce
<1>2. /\ outcome.task = task /\ outcome.events = AppendEvent(event)
    BY DEF Refused
<1>3. /\ journey' = NoJourney /\ task' = task /\ events' = AppendEvent(event)
      /\ UNCHANGED <<hostOf, verifiedOn>>
    BY <1>1, <1>2 DEF Calls, Stores
<1>. HIDE DEF outcome
<1>4. /\ task # NoTask /\ task.state = "active" /\ HostFits(task.route)
      /\ IF journey.from = "none" THEN Len(task.routes) - 1 = Resumes(events)
         ELSE Len(task.routes) - 1 = Resumes(events) + 1 /\ ResumesBelow
      /\ task \in MemoryTasks(RouteIds, {AnAction}) /\ task.version \in Nat
      /\ events \in Seq(Events)
    BY <1>1, MemoryTaskTypes DEF JourneyInv, JourneyFits, Settled, NoJourney, JourneyStoreOK,
                                 StoreOK, HostFits
<1>5. event \in Events /\ event.type = type /\ event.version = task.version
    BY <1>4 DEF Event, Events, EventTypes
<1>6. /\ journey.from = "none" => event.type # "route_selected_resume"
      /\ journey.from # "none" => event.type = "route_selected_resume"
    BY <1>5
<1>7. journey.from # "none" => ~IsRecorded(event)
    <2>1. SUFFICES ASSUME journey.from # "none", NEW i \in 1..Len(events),
                          EventId(events[i]) = EventId(event)
                   PROVE  FALSE
        BY <1>4 DEF IsRecorded
    <2>2. events[i].type = event.type /\ events[i].version = event.version
        BY <2>1 DEF EventId
    <2>. QED
        BY <1>4, <1>5, <1>6, <2>1, <2>2 DEF ResumesBelow
<1>. HIDE DEF event, type
<1>8. \/ events' = events /\ journey.from = "none"
      \/ events' = Append(events, event)
    BY <1>3, <1>7 DEF AppendEvent
<1>9. JourneyStoreOK'
    <2>1. CASE events' = events
        BY <1>3, <2>1 DEF JourneyInv, JourneyStoreOK, StoreOK
    <2>2. CASE events' = Append(events, event)
        <3>1. /\ events' \in Seq(Events)
              /\ \A i \in 1..Len(events') :
                    events'[i] = event \/ (i \in 1..Len(events) /\ events'[i] = events[i])
            BY <1>4, <1>5, <2>2
        <3>. QED
            BY <1>3, <1>4, <1>5, <3>1 DEF JourneyInv, JourneyStoreOK, StoreOK
    <2>. QED
        BY <1>8, <2>1, <2>2
<1>10. Len(task.routes) - 1 = Resumes(events')
    BY <1>4, <1>5, <1>6, <1>8, ResumesCount
<1>11. Settled'
    BY <1>3, <1>4, <1>10 DEF Settled, HostFits
<1>12. journey'.stage = "none" /\ journey' \in Journeys
    BY <1>3 DEF NoJourney, Journeys
<1>13. LevelOK' /\ RoutesOK' /\ FindingsOK' /\ JourneyFits'
    BY <1>1, <1>3, <1>11, <1>12 DEF JourneyInv, LevelOK, RoutesOK, FindingsOK, FindingFits,
                                    JourneyFits
<1>. QED
    BY <1>3, <1>9, <1>12, <1>13 DEF JourneyInv

LEMMA RecordFindingKeepsOrder ==
    ASSUME JourneyInv, NEW f \in FindingIds, NEW status \in {"verified", "hypothesis"},
           RecordFinding(f, status)
    PROVE  JourneyInv'
<1>. DEFINE finding == [id |-> f, status |-> status, route |-> task.route]
            request == [expected |-> task.version, finding |-> finding]
            outcome == AppendFinding(request)
            entry   == LedgerEntry(finding)
            next    == AppendFindingToTask(task, finding)
<1>1. /\ journey = NoJourney /\ task # NoTask /\ Stores(outcome)
      /\ verifiedOn' = IF status = "verified"
                       THEN [verifiedOn EXCEPT ![f] = @ \cup {task.route}] ELSE verifiedOn
      /\ UNCHANGED <<journey, hostOf>>
    BY DEF RecordFinding
<1>2. /\ task \in MemoryTasks(RouteIds, {AnAction}) /\ Settled /\ task.route \in RouteIds
      /\ task.findings \in Seq(MemoryFindings(RouteIds))
    BY <1>1, MemoryTaskTypes DEF JourneyInv, JourneyStoreOK, StoreOK, JourneyFits, Fresh,
                                 NoJourney
<1>3. /\ entry \in MemoryFindings(RouteIds) /\ entry.id = f /\ entry.status = status
      /\ entry.route = task.route /\ entry.shape = "ledger"
    BY <1>2 DEF LedgerEntry, MemoryFindings, ProvenanceStatuses
<1>4. Changes(outcome, next, "finding_recorded")
    <2>1. request.expected = task.version /\ request.finding = finding
        OBVIOUS
    <2>. HIDE DEF request, finding
    <2>. QED
        BY <1>1, <1>3, <2>1, AppendFindingOutcome DEF JourneyInv, JourneyStoreOK
<1>5. /\ next \in MemoryTasks(RouteIds, {AnAction})
      /\ next.version = task.version + 1 /\ next.state = task.state
      /\ next.route = task.route /\ next.routes = task.routes
      /\ next.findings = Append(task.findings, entry)
    <2>. HIDE DEF finding
    <2>. QED
        BY <1>2, <1>3, AppendFindingType
<1>. HIDE DEF outcome, next, entry
<1>6. JourneyStoreOK' /\ task' = next /\ task' # NoTask /\ Resumes(events') = Resumes(events)
    BY <1>1, <1>4, <1>5, ChangeInAJourney DEF ChangeTypes
<1>7. /\ verifiedOn' \in [FindingIds -> SUBSET RouteIds]
      /\ \A id \in FindingIds : verifiedOn[id] \subseteq verifiedOn'[id]
      /\ status = "verified" => task.route \in verifiedOn'[f]
    BY <1>1, <1>2 DEF JourneyInv
<1>8. RoutesOK'
    BY <1>1, <1>5, <1>6 DEF JourneyInv, RoutesOK
<1>9. journey'.stage = "none" /\ journey.stage = "none"
    BY <1>1 DEF NoJourney
<1>10. ASSUME NEW i \in 1..Len(task.findings)
       PROVE  FindingFits(task.findings[i], task'.route, journey'.stage, verifiedOn')
    <2>1. /\ FindingFits(task.findings[i], task.route, journey.stage, verifiedOn)
          /\ task.findings[i] \in MemoryFindings(RouteIds)
        BY <1>1, <1>2 DEF JourneyInv, FindingsOK
    <2>2. task.findings[i].id \in FindingIds
        BY <2>1 DEF MemoryFindings
    <2>. QED
        BY <1>5, <1>6, <1>7, <1>9, <2>1, <2>2 DEF FindingFits
<1>11. FindingFits(entry, task'.route, journey'.stage, verifiedOn')
    BY <1>3, <1>5, <1>6, <1>7 DEF FindingFits
<1>12. FindingsOK'
    <2>1. SUFFICES ASSUME NEW i \in 1..Len(task'.findings)
                   PROVE  FindingFits(task'.findings[i], task'.route, journey'.stage,
                                      verifiedOn')
        BY DEF FindingsOK
    <2>2. \/ i \in 1..Len(task.findings) /\ task'.findings[i] = task.findings[i]
          \/ task'.findings[i] = entry
        BY <1>2, <1>3, <1>5, <1>6, <2>1
    <2>. QED
        BY <1>10, <1>11, <2>2
<1>13. Settled'
    BY <1>1, <1>2, <1>5, <1>6 DEF Settled, HostFits
<1>14. LevelOK' /\ JourneyFits'
    BY <1>1, <1>13 DEF LevelOK, JourneyFits
<1>. QED
    BY <1>1, <1>6, <1>7, <1>8, <1>12, <1>14 DEF JourneyInv

THEOREM JourneyInvInitially == JourneyInit => JourneyInv
BY DEF JourneyInit, StoreInit, JourneyInv, JourneyStoreOK, StoreOK, Events, NoJourney, Journeys,
       LevelOK, RoutesOK, FindingsOK, JourneyFits, Fresh

(* Every call of a start or a resume leaves JourneyInv in place.           *)
THEOREM JourneyInvStep == JourneyInv /\ [JourneyNext]_journeyVars => JourneyInv'
<1>. SUFFICES ASSUME JourneyInv, [JourneyNext]_journeyVars
              PROVE  JourneyInv'
    OBVIOUS
<1>1. CASE UNCHANGED journeyVars
    BY <1>1 DEF journeyVars, store, JourneyInv, JourneyStoreOK, StoreOK, LevelOK, RoutesOK,
                FindingsOK, JourneyFits, Fresh, Settled, HostFits, ResumesBelow
<1>2. CASE JourneyNext
    BY <1>2, BeginResumeKeepsOrder, BeginStartKeepsOrder, StartCreateKeepsOrder,
       StartActivateKeepsOrder, AnnounceKeepsOrder, ResumeSelectKeepsOrder,
       ResumeTransitionKeepsOrder, RecordFindingKeepsOrder DEF JourneyNext
<1>. QED
    BY <1>1, <1>2

LEMMA JourneyInvMeansVerificationIsEarned == JourneyInv => VerificationIsNeverBorrowed
<1>. SUFFICES ASSUME JourneyInv, task # NoTask
              PROVE  \A i \in DOMAIN task.findings :
                        LET finding == task.findings[i] IN
                        /\ finding.status = "verified" =>
                              finding.route \in verifiedOn[finding.id]
                        /\ finding.status = "reused" => verifiedOn[finding.id] # {}
                        /\ journey = NoJourney /\ task.route = "local_repo"
                              /\ finding.status = "verified" => finding.route = "local_repo"
    BY DEF VerificationIsNeverBorrowed
<1>1. DOMAIN task.findings = 1..Len(task.findings)
    BY MemoryTaskTypes DEF JourneyInv, JourneyStoreOK, StoreOK
<1>2. journey = NoJourney => journey.stage # "transition"
    BY DEF NoJourney
<1>. QED
    BY <1>1, <1>2 DEF JourneyInv, FindingsOK, FindingFits

(* Whatever hosts a review moves between, a finding counts as verified on  *)
(* a route only if it was verified there.                                  *)
THEOREM VerificationIsEarned == JourneySpec => []VerificationIsNeverBorrowed
<1>1. JourneyInit => JourneyInv
    BY JourneyInvInitially
<1>2. JourneyInv /\ [JourneyNext]_journeyVars => JourneyInv'
    BY JourneyInvStep
<1>3. JourneyInv => VerificationIsNeverBorrowed
    BY JourneyInvMeansVerificationIsEarned
<1>. QED
    BY <1>1, <1>2, <1>3, PTL DEF JourneySpec

(* A readiness view promises a stronger route to the hosts that support    *)
(* the one that verifies fully, unless the task is on it.                  *)
LEMMA StrongerRouteIsPromised ==
    ASSUME NEW profile
    PROVE  ReadinessView(Contract(profile)).stronger
             = (task.route # "local_repo" /\ Supports(profile, "local_repo"))
<1>1. StrongerRouteAvailable(Contract(profile))
        <=> task.route # "local_repo" /\ Supports(profile, "local_repo")
    <2>. DEFINE contract == Contract(profile)
    <2>1. /\ contract.missing = {}
          /\ contract.level = "equal" <=> contract.route = "local_repo"
          /\ contract.route = "local_repo" <=> Supports(profile, "local_repo")
        BY ContractFits
    <2>. HIDE DEF contract
    <2>2. StrongerRouteAvailable(contract)
            <=> task.route # "local_repo" /\ Supports(profile, "local_repo")
        BY <2>1 DEF StrongerRouteAvailable
    <2>. QED
        BY <2>2 DEF contract
<1>2. ReadinessView(Contract(profile)).stronger
        = StrongerRouteAvailable(Contract(profile))
    BY DEF ReadinessView
<1>3. StrongerRouteAvailable(Contract(profile)) \in BOOLEAN
    BY DEF StrongerRouteAvailable
<1>. QED
    BY <1>1, <1>2, <1>3

LEMMA JourneyInvMeansTheRouteFits == JourneyInv => RouteFitsTheHost
<1>. SUFFICES ASSUME JourneyInv, NEW host \in hostOf, journey = NoJourney
              PROVE  /\ task.route = Preference[CHOOSE i \in DOMAIN Preference :
                           /\ Supports(host, Preference[i])
                           /\ \A j \in 1..(i - 1) : ~Supports(host, Preference[j])]
                     /\ task.state = "active"
                     /\ Last(task.routes) = task.route
                     /\ \A i \in 1..(Len(task.routes) - 1) :
                           task.routes[i] # task.routes[i + 1]
                     /\ Len(task.routes) - 1
                          = Cardinality({i \in DOMAIN events :
                                            events[i].type = "route_selected_resume"})
                     /\ \A p \in Profiles :
                           ReadinessView(Contract(p)).stronger
                             = (task.route # "local_repo" /\ Supports(p, "local_repo"))
    BY DEF RouteFitsTheHost
<1>1. Settled
    BY DEF JourneyInv, JourneyFits, Fresh, NoJourney
<1>2. task.route = Preference[Best(host)]
    BY <1>1 DEF Settled, HostFits
<1>3. Last(task.routes) = task.route
    BY <1>1 DEF Last, Settled, JourneyInv, RoutesOK
<1>4. \A i \in 1..(Len(task.routes) - 1) : task.routes[i] # task.routes[i + 1]
    BY <1>1 DEF Settled, JourneyInv, RoutesOK
<1>5. DOMAIN events = 1..Len(events)
    BY DEF JourneyInv, JourneyStoreOK, StoreOK
<1>6. Len(task.routes) - 1 = Cardinality({i \in DOMAIN events :
                                             events[i].type = "route_selected_resume"})
    BY <1>1, <1>5 DEF Settled, Resumes, ResumedAt
<1>7. task.state = "active"
    BY <1>1 DEF Settled
<1>. QED
    BY <1>2, <1>3, <1>4, <1>6, <1>7, PreferredRoute, StrongerRouteIsPromised

(* Whatever hosts a review has been through, between two calls its route   *)
(* is the first one its last host supports, no resume has stopped half     *)
(* way, and each change of route has been announced once.                  *)
THEOREM TheRouteFitsTheHost == JourneySpec => []RouteFitsTheHost
<1>1. JourneyInit => JourneyInv
    BY JourneyInvInitially
<1>2. JourneyInv /\ [JourneyNext]_journeyVars => JourneyInv'
    BY JourneyInvStep
<1>3. JourneyInv => RouteFitsTheHost
    BY JourneyInvMeansTheRouteFits
<1>. QED
    BY <1>1, <1>2, <1>3, PTL DEF JourneySpec
=============================================================================
