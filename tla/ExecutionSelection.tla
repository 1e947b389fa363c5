-------------------------- MODULE ExecutionSelection --------------------------
(* Which route and which model an execution gets: the capabilities a route     *)
(* keeps in view of the facts, the models worth considering, the cheapest      *)
(* valid pair with its fallbacks, and the selection recorded on a task.        *)
(*                                                                             *)
(* Every graded dimension is its position in the code's order table, so 0 is   *)
(* the most complete, the cheapest and the quickest, but the lowest tier and   *)
(* the lowest reliability.                                                     *)
EXTENDS Selections

CONSTANTS
  Registries,     \* the model registries an execution may be resolved with
  RouteChoices,   \* the sequences of [profile, facts] it may choose from
  AllowedModes,   \* the execution modes the routes allow
  Floors,         \* [tier, reliability]: what evaluator or resolver insist on
  MaxTaskVersion  \* versions the task reaches

ASSUME MaxVersionAssumption == MaxTaskVersion \in Nat

VARIABLES
  asked,      \* what is resolved: registry, routes, floors, fallback policy
  resolution, \* what the resolver answered
  taskVersion, \* of the task it is recorded on
  entries,    \* the task's execution_selections
  listed,     \* listed[v]: how many entries the snapshot of version v has
  recorded    \* the execution_selection_recorded events

selectionVars == <<asked, resolution, taskVersion, entries, listed, recorded>>

Grades == 0 .. 2
VALID_EXECUTION_MODES == {"sync", "streaming", "batch"}
ModelPaths == [id : STRING, tier : Grades, cost : Grades, reliability : Grades,
               latency : Grades, modes : Seq(VALID_EXECUTION_MODES)]

(* validateModelPathRegistry and validateModelPathUniqueness.                  *)
ValidRegistry(models) ==
  /\ models \in Seq(ModelPaths)
  /\ \A i \in DOMAIN models : models[i].modes # <<>>
  /\ \A i, j \in DOMAIN models : models[i].id = models[j].id => i = j

----------------------------------------------------------------------------
(* Routes.                                                                     *)

Profile(kind, history, locality, ceiling, classes) ==
  [kind |-> kind, history |-> history, locality |-> locality, ceiling |-> ceiling,
   classes |-> classes]

(* The completeness of a route is its rank: repository, part of it, bundle,    *)
(* diff.  Its verification ceiling is 0 full, 1 partial, 2 of the diff only.   *)
RouteProfiles ==
  [local_repo |-> Profile(0, 0, 0, 0, {"repository_review", "patch_review", "artifact_review"}),
   github_pr |-> Profile(1, 1, 1, 1, {"patch_review", "artifact_review"}),
   uploaded_bundle |-> Profile(2, 2, 2, 1, {"artifact_review"}),
   pasted_diff |-> Profile(3, 3, 3, 2, {"patch_review"})]

DiffOnly == 3

(* What can be observed of a route, in the same order.                         *)
Facts == [surface : 0 .. DiffOnly, history : 0 .. 3, binding : 0 .. 3]

(* A route is offered once: validateRouteProfileUniqueness.                    *)
ASSUME RouteChoicesAssumption ==
  \A choices \in RouteChoices :
    /\ choices \in Seq([id : DOMAIN RouteProfiles, facts : Facts])
    /\ \A i, j \in DOMAIN choices : choices[i].id = choices[j].id => i = j

ASSUME FloorsAssumption == Floors \subseteq [tier : Grades, reliability : Grades]

(* What was observed can only take away from what the route offers.            *)
NarrowTo(default, observed) == IF observed > default THEN observed ELSE default

(* Facts that promise more than the profile contradict it.                     *)
Contradicts(profile, facts) ==
  \/ facts.surface < profile.kind
  \/ facts.history < profile.history
  \/ facts.binding < profile.locality

NarrowVerificationCeiling(ceiling, surface) ==
  CASE surface = DiffOnly -> 2
    [] surface \in {1, 2} -> IF ceiling = 0 THEN 1 ELSE ceiling
    [] OTHER -> ceiling

NarrowAllowedTaskClasses(classes, surface) ==
  IF surface # 0 THEN classes \ {"repository_review"} ELSE classes

(* Effective capabilities, for a profile and facts that do not contradict it.  *)
DeriveEffectiveRouteCapabilities(id, facts) ==
  LET p == RouteProfiles[id]
  IN [route_id |-> id,
      completeness |-> NarrowTo(p.kind, facts.surface),
      history |-> NarrowTo(p.history, facts.history),
      locality |-> NarrowTo(p.locality, facts.binding),
      ceiling |-> NarrowVerificationCeiling(p.ceiling, facts.surface),
      classes |-> NarrowAllowedTaskClasses(p.classes, facts.surface)]

----------------------------------------------------------------------------
(* Models.                                                                     *)

FitsMode(model, allowed) == \E i \in DOMAIN model.modes : model.modes[i] \in allowed

(* The mode of a candidate is the first of its own that is allowed.            *)
FromRegistryEntry(model, allowed) ==
  model.modes[CHOOSE i \in DOMAIN model.modes :
                /\ model.modes[i] \in allowed
                /\ \A j \in 1 .. i - 1 : model.modes[j] \notin allowed]

Meets(model, floor) == model.tier >= floor.tier /\ model.reliability >= floor.reliability

Admissible(registry, allowed, floor, available) ==
  SelectAt(registry, {i \in DOMAIN registry : /\ FitsMode(registry[i], allowed)
                                              /\ Meets(registry[i], floor)
                                              /\ registry[i].id \in available})

DominatesWhateverTheCost(a, b) ==
  /\ a.reliability >= b.reliability /\ a.latency <= b.latency
  /\ a.reliability > b.reliability \/ a.latency < b.latency

Dominates(a, b) ==
  /\ a.cost <= b.cost /\ a.reliability >= b.reliability /\ a.latency <= b.latency
  /\ a.cost < b.cost \/ a.reliability > b.reliability \/ a.latency < b.latency

WithCandidate(front, c) ==
  IF \E i \in DOMAIN front : Dominates(front[i], c) THEN front
  ELSE Append(SelectAt(front, {i \in DOMAIN front : ~Dominates(c, front[i])}), c)

ComputeNonDominatedFrontier(candidates) ==
  LET front[i \in 0 .. Len(candidates)] ==
        IF i = 0 THEN <<>> ELSE WithCandidate(front[i - 1], candidates[i])
  IN front[Len(candidates)]

(* The position of the lowest grade, the first of equals.                      *)
Lowest(among, grade) ==
  CHOOSE i \in among : \A j \in among \ {i} :
    grade[i] < grade[j] \/ (grade[i] = grade[j] /\ i < j)

(* At most three: the cheapest, the most reliable of the rest, and the         *)
(* quickest of what then is left.  The tier plays no part.                     *)
SelectRepresentatives(front) ==
  LET all == DOMAIN front
      cheapest == Lowest(all, [i \in all |-> front[i].cost])
      rest == all \ {cheapest}
      strongest == Lowest(rest, [i \in rest |-> -front[i].reliability])
      left == rest \ {strongest}
      quickest == Lowest(left, [i \in left |-> front[i].latency])
  IN CASE Len(front) = 0 -> <<>>
       [] Len(front) = 1 -> <<front[cheapest]>>
       [] Len(front) = 2 -> <<front[cheapest], front[strongest]>>
       [] OTHER -> <<front[cheapest], front[strongest], front[quickest]>>

EvaluateModelPaths(registry, allowed, floor, available) ==
  SelectRepresentatives(ComputeNonDominatedFrontier(
    Admissible(registry, allowed, floor, available)))

----------------------------------------------------------------------------
(* Pairs.                                                                      *)

DerivePairCost(pair) ==
  LET r == pair.route
  IN pair.model.cost * 1000 + r.completeness * 100 + r.history * 10
       + (IF r.completeness = DiffOnly THEN 0 ELSE 1)

(* The routes in order, and for each the models in order.                      *)
Pairs(routes, models) ==
  [k \in 1 .. Len(routes) * Len(models) |->
     [route |-> routes[((k - 1) \div Len(models)) + 1],
      model |-> models[((k - 1) % Len(models)) + 1]]]

ValidPairs(pairs, floor) ==
  SelectAt(pairs, {k \in DOMAIN pairs : Meets(pairs[k].model, floor)})

(* Cheaper; then more evidence, more reliable, quicker.                        *)
Beats(p, q) ==
  LET cost(x) == DerivePairCost(x)
      poor(x) == x.route.completeness
      reliable(x) == x.model.reliability
  IN \/ cost(p) < cost(q)
     \/ /\ cost(p) = cost(q)
        /\ \/ poor(p) < poor(q)
           \/ poor(p) = poor(q) /\ reliable(p) > reliable(q)
           \/ /\ poor(p) = poor(q) /\ reliable(p) = reliable(q)
              /\ p.model.latency < q.model.latency

Better(best, p) == IF Beats(p, best) THEN p ELSE best

SelectCheapestPair(pairs) ==
  LET best[k \in 0 .. Len(pairs)] ==
        IF k = 0 THEN pairs[1] ELSE Better(best[k - 1], pairs[k])
  IN best[Len(pairs)]

(* Other models on the same route, then, where allowed, the other routes.      *)
GenerateFallbackChain(selected, pairs, crossRoute) ==
  LET onRoute == {k \in DOMAIN pairs : pairs[k].route.route_id = selected.route.route_id}
      same == SelectAt(pairs, {k \in onRoute : pairs[k] # selected})
      other == SelectAt(pairs, DOMAIN pairs \ onRoute)
  IN same \o (IF crossRoute THEN other ELSE <<>>)

Failure == [error |-> "no_valid_pairs"]

ResolveExecutionSelection(routes, models, floor, crossRoute) ==
  LET valid == ValidPairs(Pairs(routes, models), floor)
      selected == SelectCheapestPair(valid)
  IN IF routes = <<>> \/ models = <<>> \/ valid = <<>> THEN Failure
     ELSE [selected |-> selected,
           fallbacks |-> GenerateFallbackChain(selected, valid, crossRoute)]

(* What a selection's digest covers: the pair and the chain, not the basis     *)
(* and the reason.                                                             *)
CanonicalIdentityProjection(selection) ==
  LET path(model) == <<model.id, FromRegistryEntry(model, AllowedModes)>>
      chain == selection.fallbacks
  IN [route |-> selection.selected.route, model |-> path(selection.selected.model),
      chain |-> [i \in DOMAIN chain |-> <<chain[i].route.route_id, path(chain[i].model)>>]]

----------------------------------------------------------------------------
(* The selection of a request, and its record on a task of the in-memory store *)
(* (execution-selection-task-integration.mjs, TaskStore.selectRoute).          *)

Unresolved == <<>>

(* The routes a caller can offer: their facts do not contradict their profile. *)
OfferedRoutes(choices) ==
  [i \in DOMAIN choices |-> DeriveEffectiveRouteCapabilities(choices[i].id, choices[i].facts)]

Offerable(choices) ==
  \A i \in DOMAIN choices : ~Contradicts(RouteProfiles[choices[i].id], choices[i].facts)

Ids(registry) == {registry[i].id : i \in DOMAIN registry}

SelectionInit ==
  /\ asked \in {q \in [registry : Registries, routes : RouteChoices, evaluated : Floors,
                        required : Floors, crossRoute : BOOLEAN] :
                  ValidRegistry(q.registry) /\ Offerable(q.routes)}
  /\ resolution = Unresolved
  /\ taskVersion = 1 /\ entries = <<>> /\ listed = <<0>> /\ recorded = <<>>

Resolution(available) ==
  ResolveExecutionSelection(
    OfferedRoutes(asked.routes),
    EvaluateModelPaths(asked.registry, AllowedModes, asked.evaluated, available),
    asked.required, asked.crossRoute)

(* A request is resolved against the models available now, and again later     *)
(* when one of them may be gone.                                               *)
ResolveSelection ==
  /\ resolution = Unresolved \/ (resolution # Failure /\ taskVersion \in 2 .. MaxTaskVersion - 1)
  /\ \E gone \in IF taskVersion = 1 THEN {{}} ELSE {{}, {asked.registry[1].id}} :
       resolution' = Resolution(Ids(asked.registry) \ gone)
  /\ UNCHANGED <<asked, taskVersion, entries, listed, recorded>>

IntegratedAtExpected(v, selection) ==
  /\ recorded' = Append(recorded, [version |-> v - 1, selection |-> selection])
  /\ entries' = Append(entries, CanonicalIdentityProjection(selection))

(* The event is appended under the version the update is about to make.        *)
IntegratedAt(v, selection) ==
  /\ recorded' = Append(recorded, [version |-> v, selection |-> selection])
  /\ entries' = Append(entries, CanonicalIdentityProjection(selection))

Resolved == resolution \notin {Unresolved, Failure}

(* integrateExecutionSelectionWithTask, at the version its caller read.        *)
Integrate ==
  /\ Resolved /\ taskVersion < MaxTaskVersion
  /\ IntegratedAt(taskVersion + 1, resolution)
  /\ taskVersion' = taskVersion + 1
  /\ listed' = Append(listed, Len(entries) + 1)
  /\ UNCHANGED <<asked, resolution>>

(* A change that leaves the selections alone.                                  *)
OtherMutation ==
  /\ Resolved /\ taskVersion < MaxTaskVersion
  /\ taskVersion' = taskVersion + 1
  /\ listed' = Append(listed, Len(entries))
  /\ UNCHANGED <<asked, resolution, entries, recorded>>

(* The route is committed first and the selection with a version of its own.   *)
RouteWithSelection ==
  /\ Resolved /\ taskVersion + 1 < MaxTaskVersion
  /\ IntegratedAt(taskVersion + 2, resolution)
  /\ taskVersion' = taskVersion + 2
  /\ listed' = listed \o <<Len(entries), Len(entries) + 1>>
  /\ UNCHANGED <<asked, resolution>>

(* selectRoute with a selection.  A store made by createTaskStoreClass without *)
(* integrateExecutionSelectionWithTaskFn commits the route alone: both         *)
(* configured stores are (task-store.mjs, task-store-worker.mjs), and a        *)
(* selection is recorded there only by Integrate.                              *)
SelectTaskRoute == OtherMutation \/ RouteWithSelection

SelectionNext == ResolveSelection \/ Integrate \/ SelectTaskRoute \/ OtherMutation

SelectionSpec == SelectionInit /\ [][SelectionNext]_selectionVars

(* extractExecutionSelectionFromTaskSnapshot: the latest one up to a version.  *)
Extract(v) ==
  LET upTo == SelectAt(recorded, {i \in DOMAIN recorded : recorded[i].version <= v})
  IN IF upTo = <<>> THEN Unresolved ELSE upTo[Len(upTo)].selection

----------------------------------------------------------------------------
(* Properties.                                                                 *)

(* Dropping dominated models and keeping three representatives loses no        *)
(* cheaper choice: where the evaluator insisted on what the resolver requires, *)
(* a request with an admissible model is resolved, and to a pair no pair of    *)
(* any admissible model undercuts.                                             *)
SelectionIsTheCheapest ==
  LET admissible == Admissible(asked.registry, AllowedModes, asked.evaluated,
                               Ids(asked.registry))
      pairs == Pairs(OfferedRoutes(asked.routes), admissible)
  IN (/\ resolution # Unresolved /\ taskVersion = 1
      /\ asked.evaluated.tier >= asked.required.tier
      /\ asked.evaluated.reliability >= asked.required.reliability)
       => IF pairs = <<>> THEN resolution = Failure
          ELSE /\ resolution # Failure
               /\ \A i \in DOMAIN pairs :
                    DerivePairCost(resolution.selected) <= DerivePairCost(pairs[i])

(* Every fallback could have been selected: it meets both floors, is another   *)
(* pair than the selected one and every other fallback, and leaves the route   *)
(* only where the policy allows it, after what the route itself still has.     *)
FallbacksCanServe ==
  Resolved =>
    LET chain == resolution.fallbacks
        selected == resolution.selected
        away(i) == chain[i].route.route_id # selected.route.route_id
    IN \A i \in DOMAIN chain :
         /\ Meets(chain[i].model, asked.required)
         /\ chain[i] # selected
         /\ away(i) => asked.crossRoute
         /\ \A j \in DOMAIN chain : i < j => (chain[i] # chain[j] /\ (away(i) => away(j)))

(* No offered route claims more than its profile offers or than was observed,  *)
(* in any dimension, and only a whole repository is reviewed as one.           *)
NoCapabilityBeyondTheEvidence ==
  \A i \in DOMAIN asked.routes :
    LET p == RouteProfiles[asked.routes[i].id]
        facts == asked.routes[i].facts
        r == OfferedRoutes(asked.routes)[i]
        warranted == CASE facts.surface = 0 -> 0
                       [] facts.surface = DiffOnly -> 2
                       [] OTHER -> 1
    IN /\ r.completeness >= facts.surface /\ r.completeness >= p.kind
       /\ r.history >= facts.history /\ r.locality >= facts.binding
       /\ r.ceiling >= p.ceiling /\ r.ceiling >= warranted
       /\ "repository_review" \in r.classes => r.completeness = 0

(* What is selected, what may be fallen back on and what it is selected from.  *)
SelectionIsSound ==
  SelectionIsTheCheapest /\ FallbacksCanServe /\ NoCapabilityBeyondTheEvidence

(* What is read back for a version of the task is the selection its snapshot   *)
(* refers to, however selections and other changes follow one another.         *)
RecordTellsTheTruth ==
  \A v \in 1 .. taskVersion :
    IF listed[v] = 0 THEN Extract(v) = Unresolved
    ELSE /\ Extract(v) # Unresolved
         /\ CanonicalIdentityProjection(Extract(v)) = entries[listed[v]]
=============================================================================
