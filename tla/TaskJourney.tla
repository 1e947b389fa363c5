----------------------------- MODULE TaskJourney -----------------------------
(***************************************************************************)
(* runtime/lib/review-repository-journey.mjs: a review that is started on  *)
(* one host and resumed on others, over the in-memory store of the local   *)
(* surfaces.  The host's capabilities choose the route.                    *)
(*                                                                         *)
(* A start or a resume calls the store several times in one turn of the    *)
(* event loop; each call is a step, and nothing else begins in between.    *)
(* The tasks review_repository is the only type there is.                  *)
(***************************************************************************)
EXTENDS MemoryTaskStore, FiniteSets, SequencesExt

CONSTANTS
    Profiles,      \* sets of supported capabilities
    MaxEvents      \* bound on the events of the task

(* The next action the journey gives every task. *)
AnAction == CHOOSE a \in NextActions : TRUE

VARIABLES
    journey,    \* the start or resume under way
    hostOf,     \* history: the profile of the last start or resume, if any
    verifiedOn  \* history: verifiedOn[f]: the routes f was verified on

journeyVars == <<store, journey, hostOf, verifiedOn>>

NoJourney == [stage |-> "none", route |-> "none", level |-> "none", from |-> "none"]

(* task-route-definitions.yaml *)
RouteDefinition(id, level, required) ==
    [id |-> id, level |-> level, required |-> required]

RouteDefinitions ==
    <<RouteDefinition("local_repo", "equal", {"local_fs", "local_shell", "local_repo"}),
      RouteDefinition("github_pr", "degraded", {"network_http"}),
      RouteDefinition("uploaded_bundle", "degraded", {"local_fs"}),
      RouteDefinition("pasted_diff", "degraded", {})>>

RouteIds == {"local_repo", "github_pr", "uploaded_bundle", "pasted_diff"}

ASSUME TaskJourneyAssumption == NoTask \notin MemoryTasks(RouteIds, {AnAction})

(* Scores are in units of 1/600, in which those of the code are whole.     *)
EquivalenceWeight == [equal |-> 180, upgrade |-> 153, degraded |-> 117]

(* A mistake: what a route lacks does not count. *)
ScoreUncovered(route, profile) == 420 + EquivalenceWeight[route.level]

(* scoreRoute *)
Score(route, profile) ==
    LET required == Cardinality(route.required)
        covered  == Cardinality(route.required \cap profile)
    IN (IF required = 0 THEN 420 ELSE (420 * covered) \div required)
         + EquivalenceWeight[route.level]

(* resolveTaskRoute: the best score, the first of several.  *)
ResolveTaskRoute(profile) ==
    LET score(i) == Score(RouteDefinitions[i], profile)
        best == CHOOSE i \in DOMAIN RouteDefinitions :
                  \A j \in DOMAIN RouteDefinitions :
                      score(j) < score(i) \/ (score(j) = score(i) /\ i <= j)
    IN RouteDefinitions[best]

(* buildEffectiveExecutionContract, as far as anyone reads it. *)
Contract(profile) ==
    LET selected == ResolveTaskRoute(profile)
        equal    == SelectSeq(RouteDefinitions, LAMBDA r : r.level = "equal")
    IN [route    |-> selected.id,
        level    |-> selected.level,
        missing  |-> selected.required \ profile,
        guidance |-> IF selected.level = "equal" THEN {}
                     ELSE equal[1].required \ profile]

----------------------------------------------------------------------------

JourneyInit ==
    /\ StoreInit
    /\ journey = NoJourney
    /\ hostOf = {}
    /\ verifiedOn = [f \in FindingIds |-> {}]

Stores(outcome) ==
    /\ task' = outcome.task
    /\ snapshots' = outcome.snapshots
    /\ events' = outcome.events
    /\ consumed' = outcome.consumed

(* A call of the store and what follows it; an error ends the journey, and *)
(* what the calls before it have stored stays.                             *)
Calls(outcome, stage) ==
    /\ Stores(outcome)
    /\ journey' = IF outcome.error = "none" /\ stage # "none"
                  THEN [journey EXCEPT !.stage = stage] ELSE NoJourney
    /\ UNCHANGED <<hostOf, verifiedOn>>

(* The inputs of the route are checked before anything is stored.          *)
BeginStart(profile, inputsFit) ==
    LET contract == Contract(profile) IN
    /\ journey = NoJourney
    /\ IF inputsFit
       THEN /\ hostOf' = IF task = NoTask THEN {profile} ELSE hostOf
            /\ journey' = [stage |-> "create", route |-> contract.route,
                           level |-> contract.level, from |-> "none"]
       ELSE UNCHANGED <<hostOf, journey>>
    /\ UNCHANGED <<store, verifiedOn>>

StartCreate ==
    /\ journey.stage = "create"
    /\ Calls(Create([born |-> CreatePortableTask(journey.route, AnAction, 6)]), "activate")

StartActivate ==
    /\ journey.stage = "activate"
    /\ Calls(TransitionState([expected |-> task.version, state |-> "active",
                              action |-> AnAction,
                              progress |-> [done |-> 1, total |-> 6]]), "announce")

(* evt_<version>_state_change_start, evt_<version>_route_selected_resume   *)
Announce ==
    LET event == Event(IF journey.from = "none" THEN "state_change_start"
                       ELSE "route_selected_resume", task.version, NoToken, 0)
    IN /\ journey.stage = "announce"
       /\ Calls([Refused("none") EXCEPT !.events = AppendEvent(event)], "none")

(* The route of the host replaces the task's, stronger or not. *)
BeginResume(profile) ==
    LET contract == Contract(profile) IN
    /\ journey = NoJourney
    /\ task # NoTask
    /\ Len(events) < MaxEvents
    /\ hostOf' = {profile}
    /\ journey' = IF task.route = contract.route THEN NoJourney
                  ELSE [stage |-> "select", route |-> contract.route,
                        level |-> contract.level, from |-> task.route]
    /\ UNCHANGED <<store, verifiedOn>>

ResumeSelect ==
    /\ journey.stage = "select"
    /\ Calls(SelectRoute([expected |-> task.version, route |-> journey.route]),
             "transition")

(* A mistake: findings are carried over as they are. *)
ResumeCarryOver ==
    /\ journey.stage = "transition"
    /\ Calls(TransitionFindingsForRouteUpgrade(
                 [expected |-> task.version, route |-> journey.route,
                  level |-> "degraded"]), "announce")

ResumeTransition ==
    /\ journey.stage = "transition"
    /\ Calls(TransitionFindingsForRouteUpgrade(
                 [expected |-> task.version, route |-> journey.route,
                  level |-> journey.level]), "announce")

(* The reviewer records a finding it made on the route of the task.        *)
RecordFinding(finding, status) ==
    LET outcome == AppendFinding([expected |-> task.version,
                       finding |-> [id |-> finding, status |-> status,
                                    route |-> task.route]])
    IN /\ journey = NoJourney
       /\ task # NoTask
       /\ Len(events) < MaxEvents
       /\ Stores(outcome)
       /\ verifiedOn' = IF status = "verified"
                        THEN [verifiedOn EXCEPT ![finding] = @ \cup {task.route}]
                        ELSE verifiedOn
       /\ UNCHANGED <<journey, hostOf>>

(* getReadinessUpgradeState *)
StrongerRouteAvailable(contract) ==
    /\ contract.route # task.route
    /\ contract.level = "equal"
    /\ contract.missing = {}

StatusCount(status) ==
    Len(SelectSeq(task.findings, LAMBDA f : f.status = status))

(* buildTaskReadinessView *)
ReadinessView(contract) ==
    [route    |-> task.route,
     routes   |-> task.routes,
     ready    |-> task.state = "active" /\ task.progress.done < task.progress.total,
     stronger |-> StrongerRouteAvailable(contract),
     blocked  |-> ~StrongerRouteAvailable(contract) /\ contract.guidance # {},
     findings |-> [s \in ProvenanceStatuses |-> StatusCount(s)],
     events   |-> Len(events)]

JourneyNext ==
    \/ \E p \in Profiles : BeginResume(p) \/ \E fit \in BOOLEAN : BeginStart(p, fit)
    \/ StartCreate \/ StartActivate \/ Announce
    \/ ResumeSelect \/ ResumeTransition
    \/ \E f \in FindingIds, s \in {"verified", "hypothesis"} : RecordFinding(f, s)

JourneySpec == JourneyInit /\ [][JourneyNext]_journeyVars

----------------------------------------------------------------------------

Preference == <<"local_repo", "github_pr", "uploaded_bundle", "pasted_diff">>

Supports(profile, id) ==
    \E i \in DOMAIN RouteDefinitions :
        RouteDefinitions[i].id = id /\ RouteDefinitions[i].required \subseteq profile

(* Whatever hosts a review has been through, between two calls its route   *)
(* is the first that the host of the last one can do completely: the       *)
(* weights never favour a route with something missing (57-83), and no     *)
(* resume stops half way.  The history of routes has each change once, and *)
(* a readiness view promises a stronger route to just those hosts that a   *)
(* resume would give the route that verifies fully.                        *)
RouteFitsTheHost ==
    \A host \in hostOf : journey = NoJourney =>
        /\ task.route = Preference[CHOOSE i \in DOMAIN Preference :
               /\ Supports(host, Preference[i])
               /\ \A j \in 1..(i - 1) : ~Supports(host, Preference[j])]
        /\ task.state = "active"
        /\ Last(task.routes) = task.route
        /\ \A i \in 1..(Len(task.routes) - 1) : task.routes[i] # task.routes[i + 1]
        /\ Len(task.routes) - 1
             = Cardinality({i \in DOMAIN events :
                               events[i].type = "route_selected_resume"})
        /\ \A p \in Profiles :
              ReadinessView(Contract(p)).stronger
                  = (task.route # "local_repo" /\ Supports(p, "local_repo"))

(* A finding counts as verified for a route only if it was verified there, *)
(* through any sequence of stronger and weaker hosts; on the one route     *)
(* that verifies fully, everything verified elsewhere is only reused.      *)
VerificationIsNeverBorrowed ==
    hostOf # {} /\ task # NoTask =>
        \A i \in DOMAIN task.findings :
            LET finding == task.findings[i] IN
            /\ finding.status = "verified" => finding.route \in verifiedOn[finding.id]
            /\ finding.status = "reused" => verifiedOn[finding.id] # {}
            /\ journey = NoJourney /\ task.route = "local_repo"
                  /\ finding.status = "verified" => finding.route = "local_repo"
=============================================================================
