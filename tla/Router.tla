------------------------------- MODULE Router -------------------------------
(***************************************************************************)
(* worker/src/router.ts: the routes of the worker in the order in which    *)
(* fetch tries them.  The first route that fits a request handles it, and  *)
(* a pattern may fit what a literal path further down spells out.  Paths   *)
(* are sequences of segments without the leading /v1.  Patterns that share *)
(* a handler function keep the name of that function.                      *)
(***************************************************************************)
EXTENDS Sequences, Naturals

AnySegment == "*"    \* ([^/]+)

Route(method, pattern, handler) ==
    [method |-> method, pattern |-> pattern, handler |-> handler]

Gets(rows) ==
    [i \in DOMAIN rows |-> Route("GET", rows[i][1], rows[i][2])]

Posts(rows) ==
    [i \in DOMAIN rows |-> Route("POST", rows[i][1], rows[i][2])]

LatestArtifacts == Gets(<<
    << <<"health">>,             "handleHealth">>,
    << <<"manifest", "latest">>, "handleManifestLatest">>,
    << <<"outcomes", "latest">>, "handleLatestArtifact">>,
    << <<"routes", "latest">>,   "handleLatestArtifact">>,
    << <<"tools", "latest">>,    "handleLatestArtifact">> >>)

VersionedArtifacts == Gets(<<
    << <<"outcomes", AnySegment>>, "handleVersionedArtifact">>,
    << <<"routes", AnySegment>>,   "handleVersionedArtifact">>,
    << <<"tools", AnySegment>>,    "handleVersionedArtifact">> >>)

ClientRoutes == Gets(<<
    << <<"effective-contract", "preview">>,    "handleEffectiveContractPreview">>,
    << <<"client", AnySegment, "latest">>,            "handleClientLatest">>,
    << <<"client", AnySegment, "package">>,           "handleClientPackage">>,
    << <<"skill", AnySegment>>,                       "handleSkill">>,
    << <<"capabilities", "platform", AnySegment>>,    "handleCapabilitiesForPlatform">>,
    << <<"skills", "compatible">>,             "handleSkillsCompatible">>,
    << <<"runtime", "capabilities">>,          "handleRuntimeCapabilities">> >>)

DashboardPaths ==
    << <<"skills">>, <<"tooling", "status">>, <<"config", "summary">>,
       <<"runtime", "context-cost">>, <<"audit", "validate-all">>,
       <<"analytics", "tool-usage">>, <<"analytics", "skill-effectiveness">>,
       <<"analytics", "autoresearch-runs">>, <<"analytics", "friction-signals">>,
       <<"analytics", "resource-use">> >>

DashboardReads ==
    [i \in DOMAIN DashboardPaths |-> Route("GET", DashboardPaths[i], "handleRead")]

DashboardPublishes ==
    [i \in DOMAIN DashboardPaths |->
        Route("POST", Append(DashboardPaths[i], "publish"), "handlePublish")]

DashboardActions == Posts(<<
    << <<"tooling", "sync-request">>,            "handleToolingSyncRequest">>,
    << <<"audit", "validate-all", "request">>,   "handleAuditRequest">>,
    << <<"runtime", "context-cost", "request">>, "handleContextCostRequest">> >>)

ObservabilityRoutes ==
    Gets(<< << <<"observability", "runs">>,      "handleObservabilityRunList">>,
            << <<"observability", "runs", AnySegment>>, "handleObservabilityRunGet">>,
            << <<"observability", "settings">>,  "handleObservabilitySettingsGet">> >>)
    \o << Route("POST", <<"observability", "runs">>, "handleObservabilityRunCreate"),
          Route("PUT", <<"observability", "settings">>, "handleObservabilitySettingsPut") >>

RetrospectiveRoutes ==
    Gets(<< << <<"retrospectives">>,              "handleRetrospectiveList">>,
            << <<"retrospectives", "aggregate">>, "handleRetrospectiveAggregate">>,
            << <<"retrospectives", AnySegment>>,         "handleRetrospectiveGet">> >>)
    \o Posts(<< << <<"retrospectives">>, "handleRetrospectiveCreate">>,
                << <<"execute">>,        "handleExecute">> >>)

TaskReads == Gets(<<
    << <<"tasks">>,                        "handleTaskList">>,
    << <<"hub", "latest">>,                "handleHubLatest">>,
    << <<"t", AnySegment>>,                       "handleTaskByCode">>,
    << <<"tasks", "by-name", AnySegment>>,        "handleTaskByName">>,
    << <<"tasks", AnySegment, "progress-events">>, "handleTaskProgressEvents">>,
    << <<"tasks", AnySegment, "available-routes">>, "handleTaskAvailableRoutes">>,
    << <<"tasks", AnySegment, "readiness">>,      "handleTaskReadiness">>,
    << <<"tasks", AnySegment, "snapshots", AnySegment>>, "handleTaskSnapshots">>,
    << <<"tasks", AnySegment, "snapshots">>,      "handleTaskSnapshots">>,
    << <<"tasks", AnySegment>>,                   "handleTaskGet">> >>)

TaskMutations ==
    Posts(<< << <<"tasks">>,                         "handleTaskCreate">>,
             << <<"tasks", AnySegment, "route-selection">>, "handleTaskRouteSelection">>,
             << <<"tasks", AnySegment, "continuation">>,    "handleTaskContinuation">>,
             << <<"tasks", AnySegment, "questions", AnySegment, "answer">>,
                "handleTaskAnswerQuestion">>,
             << <<"tasks", AnySegment, "questions", AnySegment, "dismiss">>,
                "handleTaskDismissQuestion">> >>)
    \o << Route("PATCH", <<"tasks", AnySegment, "state">>, "handleTaskTransitionState") >>
    \o Posts(<< << <<"tasks", AnySegment, "findings", "transition">>,
                   "handleTaskTransitionFindings">>,
                << <<"tasks", AnySegment, "findings">>, "handleTaskAppendFinding">>,
                << <<"tasks", AnySegment, "projection-repair">>,
                   "handleTaskProjectionRepair">> >>)

(* A mistake: the versioned artifacts are tried first. *)
ROUTESVersionedFirst ==
    VersionedArtifacts \o LatestArtifacts \o ClientRoutes \o DashboardReads
    \o DashboardPublishes \o DashboardActions \o ObservabilityRoutes
    \o RetrospectiveRoutes \o TaskReads \o TaskMutations

ROUTES ==
    LatestArtifacts \o VersionedArtifacts \o ClientRoutes \o DashboardReads
    \o DashboardPublishes \o DashboardActions \o ObservabilityRoutes
    \o RetrospectiveRoutes \o TaskReads \o TaskMutations

Fits(route, method, path) ==
    /\ route.method = method
    /\ Len(route.pattern) = Len(path)
    /\ \A k \in DOMAIN path : route.pattern[k] \in {AnySegment, path[k]}

(* fetch, before a handler is called: the name of what answers. *)
Dispatch(method, path, authorized) ==
    LET fitting == {i \in DOMAIN ROUTES : Fits(ROUTES[i], method, path)} IN
    IF method = "OPTIONS" THEN "corsPreflightResponse"
    ELSE IF ~authorized THEN "unauthorizedResponse"
    ELSE IF fitting # {}
         THEN ROUTES[CHOOSE i \in fitting : \A j \in fitting : i <= j].handler
    ELSE IF method \notin {"GET", "POST", "PATCH", "PUT"} THEN "methodNotAllowed"
    ELSE "notFound"
=============================================================================
