----------------------------- MODULE MCExecution -----------------------------
(* The instances of ExecutionPolicy and ExecutionSelection, which              *)
(* MCTaskApi runs.                                                             *)
(*                                                                             *)
(* Policies: the three pilot budgets of the code and one without premium, with *)
(* tokens in thousands; machine, project and route layers that override or     *)
(* narrow them; tasks around the ceilings those give.                          *)
(* Selections: the shipped registry and registries of four out of six models   *)
(* in two orders; every profile with all facts that do not contradict it, and  *)
(* four pairs of routes.                                                       *)
EXTENDS ExecutionPolicy, ExecutionSelection, SequencesExt

MCMachines == {<<>>, [preferred_model_tier |-> 2, pressure_threshold |-> 30,
                      max_estimated_cost_minor |-> 40000]}

MCSkills ==
  {[mode |-> "hybrid", max_input_tokens |-> 128, max_output_tokens |-> 8,
    preferred_model_tier |-> 1, minimum_model_tier |-> 0],
   [mode |-> "subscription", max_input_tokens |-> 100, max_output_tokens |-> 16,
    preferred_model_tier |-> 1, minimum_model_tier |-> 0, pressure_threshold |-> 30],
   [mode |-> "subscription", max_input_tokens |-> 100, premium_tier_allowed |-> FALSE,
    minimum_model_tier |-> 1],
   [mode |-> "api_key", max_input_tokens |-> 200, max_output_tokens |-> 16,
    preferred_model_tier |-> 2, minimum_model_tier |-> 0,
    max_estimated_cost_minor |-> 50000]}

MCProjects == {<<>>, [preferred_model_tier |-> 2, fallback_ladder |-> "strict"],
               [defer_nonessential_passes |-> FALSE, reserve_headroom |-> 50,
                planner_rules |-> [deep_research |-> [ceiling_ratio |-> 50]]]}

MCRoutes == {<<>>, [max_input_tokens |-> 60, preferred_model_tier |-> 0],
             [mode |-> "api_key", max_estimated_cost_minor |-> 30000, minimum_model_tier |-> 1]}

MCSignals == {[pressure |-> 0, cost |-> 0, throttle |-> FALSE],
              [pressure |-> 90, cost |-> 60000, throttle |-> FALSE],
              [pressure |-> 0, cost |-> 0, throttle |-> TRUE]}

MCTaskStates ==
  {[system |-> 10, retrieval |-> 20, messages |-> <<30, 5>>, artifacts |-> <<40>>],
   [system |-> 90, retrieval |-> 0, messages |-> <<120>>, artifacts |-> <<>>],
   [system |-> 5, retrieval |-> 5, messages |-> <<20, 20, 20>>, artifacts |-> <<30, 30>>]}

Model(id, tier, cost, reliability, latency, modes) ==
  [id |-> id, tier |-> tier, cost |-> cost, reliability |-> reliability,
   latency |-> latency, modes |-> modes]

(* model-path-registry.mjs *)
Shipped == <<Model("haiku", 0, 0, 1, 0, <<"sync", "streaming">>),
             Model("sonnet", 1, 1, 2, 0, <<"sync", "streaming">>),
             Model("opus", 2, 2, 2, 1, <<"sync", "streaming">>),
             Model("batch", 0, 0, 0, 2, <<"batch">>)>>

OtherModels == <<Model("a", 1, 1, 1, 1, <<"sync">>), Model("b", 1, 1, 1, 1, <<"batch", "sync">>),
            Model("c", 2, 2, 2, 2, <<"sync">>), Model("d", 0, 2, 1, 0, <<"streaming", "sync">>),
            Model("e", 1, 0, 1, 2, <<"batch">>), Model("f", 1, 1, 2, 2, <<"sync">>)>>

MCRegistries ==
  LET forward(S) == SetToSortSeq(S, LAMBDA i, j : i < j)
      models(ps) == [k \in DOMAIN ps |-> OtherModels[ps[k]]]
      fours == {S \in SUBSET (1 .. 6) : Cardinality(S) = 4}
  IN {Shipped} \cup {models(forward(S)) : S \in fours}
       \cup {models(Reverse(forward(S))) : S \in fours}

Choice(id, facts) == [id |-> id, facts |-> facts]
AsBuilt(id) == Choice(id, [surface |-> RouteProfiles[id].kind,
                           history |-> RouteProfiles[id].history,
                           binding |-> RouteProfiles[id].locality])

MCRouteChoices ==
  {<<c>> : c \in {Choice(id, f) : id \in DOMAIN RouteProfiles, f \in Facts}}
    \cup {<<AsBuilt(p[1]), AsBuilt(p[2])>> :
            p \in {<<"local_repo", "pasted_diff">>, <<"pasted_diff", "github_pr">>,
                   <<"uploaded_bundle", "local_repo">>, <<"github_pr", "uploaded_bundle">>}}

MCFloors == {[tier |-> 0, reliability |-> 1], [tier |-> 1, reliability |-> 1]}

PolicyIdle ==
  /\ opts = <<>> /\ policy = <<>> /\ attempt = 0 /\ ladderStepIndex = 0
  /\ plannerOverrides = Unset /\ planner = Unset /\ pack = Unset /\ meter = Unset
  /\ status = "idle"

SelectionIdle ==
  /\ asked = [routes |-> <<>>] /\ resolution = Failure
  /\ taskVersion = 0 /\ entries = <<>> /\ listed = <<>> /\ recorded = <<>>
=============================================================================
