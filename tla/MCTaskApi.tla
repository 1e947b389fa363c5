----------------------------- MODULE MCTaskApi -----------------------------
(* Requests for TLC: one to every route of the worker, the refusals of     *)
(* fetch, and the task requests that can change something.  The in-memory  *)
(* store serves a worker or a local surface, and with MCExecution there is *)
(* the choice and the policy of an execution, so that a behaviour is of    *)
(* one of these.                                                           *)
EXTENDS TaskApi, TaskJourney, MCExecution

CONSTANTS s1, s2, c1, c2, t1, t2, r1, r2, f1, a1

MCIssuedAt == [t \in {t1, t2} |-> IF t = t1 THEN 1 ELSE 2]
MCExpiresAt == [t \in {t1, t2} |-> 3]

Mine == [owner |-> "owner", workspace |-> "default"]
NoFault == [field |-> "none", how |-> "none"]

Base ==
    [method |-> "GET", path |-> << >>, wanted |-> "none", authorized |-> TRUE,
     fault |-> NoFault, boundary |-> Mine, expected |-> 1, number |-> 1,
     route |-> r2, state |-> "active", action |-> a1,
     born |-> CreatePortableTask(r1, a1, 1),
     progress |-> [done |-> 0, total |-> 1],
     finding |-> [id |-> f1, status |-> "verified", route |-> r1],
     level |-> "equal", token |-> t1, flaw |-> "none", misfit |-> FALSE,
     contract |-> c1, at |-> 1]

Filled(pattern) == [k \in DOMAIN pattern |-> IF pattern[k] = AnySegment THEN "x" ELSE pattern[k]]

To(handler) ==
    LET route == CHOOSE r \in {ROUTES[i] : i \in DOMAIN ROUTES} : r.handler = handler
    IN [Base EXCEPT !.method = route.method, !.path = Filled(route.pattern),
                    !.wanted = handler]

(* To every route; a body, where one is read, is not JSON. *)
Probes ==
    {[Base EXCEPT !.method = ROUTES[i].method, !.path = Filled(ROUTES[i].pattern),
                  !.wanted = ROUTES[i].handler, !.fault = [field |-> "json", how |-> "bad"]]
        : i \in DOMAIN ROUTES}

Refusals ==
    {[Base EXCEPT !.method = "OPTIONS", !.wanted = "corsPreflightResponse"],
     [Base EXCEPT !.authorized = FALSE, !.wanted = "unauthorizedResponse"],
     [Base EXCEPT !.method = "DELETE", !.wanted = "methodNotAllowed"],
     [Base EXCEPT !.path = <<"nowhere">>, !.wanted = "notFound"],
     [To("handleTaskList") EXCEPT !.number = 0],
     [Base EXCEPT !.path = <<"tasks", "x", "snapshots", "2">>, !.number = 2,
                  !.wanted = "handleTaskSnapshots"]}

Faults ==
    {[To("handleTaskTransitionState") EXCEPT !.fault = [field |-> f, how |-> h]]
        : f \in {"next_state", "progress"}, h \in {"absent", "bad"}}

(* A task of another owner, and one that is born active and with a finding *)
(* without provenance.                                                     *)
RawFinding == [id |-> f1, status |-> "verified", route |-> r1, shape |-> "raw"]

Creations ==
    {[To("handleTaskCreate") EXCEPT !.boundary = b]
        : b \in {Mine, [Mine EXCEPT !.owner = "another"]}}
    \cup {[To("handleTaskCreate") EXCEPT !.born.state = "active",
                                         !.born.findings = <<RawFinding>>]}

Changes ==
    {[To("handleTaskTransitionState") EXCEPT !.state = n] : n \in {"active", "completed"}}
    \cup {[To("handleTaskTransitionFindings") EXCEPT !.level = l]
           : l \in {"equal", "degraded", "better"}}
    \cup {To(h) : h \in {"handleTaskRouteSelection", "handleTaskAppendFinding",
                          "handleTaskAnswerQuestion", "handleTaskDismissQuestion"}}

(* The first token is valid at 1 and 2, the second at 2 only. *)
Continuations ==
    {[To("handleTaskContinuation") EXCEPT !.at = n] : n \in {1, 2, 3}}
    \cup {[To("handleTaskContinuation") EXCEPT !.contract = c2, !.at = 2]}
    \cup {[To("handleTaskContinuation") EXCEPT !.token = t2, !.at = n] : n \in {1, 2}}
    \cup {[To("handleTaskContinuation") EXCEPT !.at = 2, !.flaw = f]
        : f \in {"signature", "task"}}
    \cup {[To("handleTaskContinuation") EXCEPT !.misfit = TRUE]}

MCSlots == Permutations(Slots)

MCRequests == Probes \cup Refusals \cup Faults \cup Creations \cup Changes \cup Continuations

MCProfiles == SUBSET {"local_fs", "local_shell", "local_repo", "network_http"}

VARIABLE surface
allVars == <<vars, journeyVars, policyVars, selectionVars, surface>>

MCInit ==
    /\ surface \in {"worker", "local", "policy", "selection"}
    /\ Init
    /\ JourneyInit
    /\ IF surface = "policy" THEN PolicyInit ELSE PolicyIdle
    /\ IF surface = "selection" THEN SelectionInit ELSE SelectionIdle

journeyOnly == <<journey, hostOf, verifiedOn>>
taskVars == <<vars, journeyVars>>

TaskStep ==
    \/ surface = "worker" /\ Next /\ UNCHANGED journeyOnly
    \/ surface = "local" /\ JourneyNext /\ UNCHANGED <<apiVars, answer>>

MCNext ==
    /\ \/ TaskStep /\ UNCHANGED <<policyVars, selectionVars>>
       \/ surface = "policy" /\ PolicyNext /\ UNCHANGED <<taskVars, selectionVars>>
       \/ surface = "selection" /\ SelectionNext /\ UNCHANGED <<taskVars, policyVars>>
    /\ UNCHANGED surface

(* An execution ends and its selections are bounded; a task may not stop.  *)
ExecutionEnds == surface \in {"policy", "selection"} /\ UNCHANGED allVars

MCSpec == MCInit /\ [][MCNext \/ ExecutionEnds]_allVars
MCView == <<View, journeyVars, policyVars, selectionVars, surface>>
=============================================================================
