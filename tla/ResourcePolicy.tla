--------------------------- MODULE ResourcePolicy ---------------------------
(* The resource policy of one execution: how the machine, skill and project    *)
(* layers are merged and the route narrows them, what the planner plans, what  *)
(* the meters say of a run, and what the enforcer makes of it                  *)
(* (resource-policy-types, execution-planner, resource-meter/ and              *)
(* execution-budget-enforcer).                                                 *)
(*                                                                             *)
(* Model tiers are their rank: 0 haiku, 1 sonnet, 2 opus.  Ratios and pressure *)
(* are whole percentages, and tokens come in thousands.  A layer is a function *)
(* from the keys it sets.                                                      *)
EXTENDS Integers, Sequences

Modes == {"subscription", "api_key", "hybrid"}
Tiers == 0 .. 2
Sonnet == 1
CAP_KEYS == {"max_input_tokens", "max_output_tokens", "max_estimated_cost_minor"}

Lesser(a, b) == IF b < a THEN b ELSE a
Greater(a, b) == IF b > a THEN b ELSE a
Over(upper, lower) == [k \in DOMAIN upper \cup DOMAIN lower |->
                         IF k \in DOMAIN upper THEN upper[k] ELSE lower[k]]
Get(layer, key, default) == IF key \in DOMAIN layer THEN layer[key] ELSE default
Percent(n, p) == (n * p) \div 100
AtLeastOne(n) == Greater(1, n)

(* What the schema of a budget allows in a layer, which need not set any key.  *)
IsLayer(layer) ==
  /\ \A k \in DOMAIN layer \cap CAP_KEYS : layer[k] \in Nat
  /\ \A k \in DOMAIN layer \cap {"preferred_model_tier", "minimum_model_tier"} :
       layer[k] \in Tiers
  /\ "mode" \in DOMAIN layer => layer.mode \in Modes
  /\ "planner_rules" \in DOMAIN layer =>
       \A class \in DOMAIN layer.planner_rules :
         LET rule == layer.planner_rules[class]
         IN /\ "ceiling_ratio" \in DOMAIN rule => rule.ceiling_ratio \in 1 .. 100
            /\ "rule_tier" \in DOMAIN rule => rule.rule_tier \in Tiers

----------------------------------------------------------------------------
(* The merged policy.  The last layer wins.                                    *)

Merged(machine, skill, project) == Over(project, Over(skill, machine))

NarrowToTheGreater(key, current, said) ==
  IF key \in CAP_KEYS THEN Greater(current, said) ELSE current

(* The route tightens a limit the merged layers state, and adds none.          *)
Narrow(key, current, said) ==
  CASE key \in CAP_KEYS -> IF said < 0 THEN current ELSE Lesser(current, said)
    [] key = "preferred_model_tier" -> Lesser(current, said)
    [] key = "minimum_model_tier" -> Greater(current, said)
    [] OTHER -> current

ResolveExecutionPolicy(machine, skill, project, route) ==
  LET base == Merged(machine, skill, project)
      own == DOMAIN base \ {"planner_rules", "fallback_ladder"}
      all == Over(route, base)
  IN [mode |-> Get(route, "mode", Get(base, "mode", "subscription")),
      budget |-> [k \in own |-> IF k \in DOMAIN route
                                THEN Narrow(k, base[k], route[k]) ELSE base[k]],
      planner_rules |-> Get(all, "planner_rules", <<>>),
      fallback_ladder |-> Get(all, "fallback_ladder", "default")]

----------------------------------------------------------------------------
(* The planner (planner-rules.yaml holds the defaults).                        *)

PlannerRules ==
  [balanced |-> [ceiling_ratio |-> 55, rule_tier |-> Sonnet],
   deep_research |-> [ceiling_ratio |-> 92, rule_tier |-> 2]]

(* The rule of a task class: the policy's entries patch the default ones, and  *)
(* an unknown class is planned as a balanced one.                              *)
RuleOf(policy, class) ==
  LET rules == [c \in DOMAIN PlannerRules \cup DOMAIN policy.planner_rules |->
                  Over(Get(policy.planner_rules, c, <<>>),
                       Get(PlannerRules, c, [ceiling_ratio |-> 55, rule_tier |-> Sonnet]))]
  IN rules[IF class \in DOMAIN rules THEN class ELSE "balanced"]

ClampTierToBudget(tier, lo, hi) == Greater(lo, Lesser(hi, tier))

MinTier(budget) == Get(budget, "minimum_model_tier", 0)
MaxTier(budget) == Get(budget, "preferred_model_tier", 2)
Threshold(budget) == Get(budget, "pressure_threshold", 85)

(* A subscription keeps a reserve of its input limit.  A limit of nothing      *)
(* counts as none, and so does a reserve of everything.                        *)
EffectiveMax(policy) ==
  LET said == Get(policy.budget, "max_input_tokens", 100)
      limit == IF said > 0 THEN said ELSE 100
      kept == Get(policy.budget, "reserve_headroom", 20)
      reserve == IF kept \in 0 .. 99 THEN kept ELSE 0
  IN IF policy.mode = "subscription" THEN AtLeastOne(Percent(limit, 100 - reserve))
     ELSE limit

(* The dearest tier a subscription without premium may use is sonnet.          *)
TierCeiling(policy) ==
  IF policy.mode = "subscription" /\ ~Get(policy.budget, "premium_tier_allowed", TRUE)
  THEN Lesser(MaxTier(policy.budget), Sonnet) ELSE MaxTier(policy.budget)

SpendCapped(budget) == Get(budget, "max_estimated_cost_minor", -1) >= 0

(* Optional passes are left out under pressure, near the spend cap and, in a   *)
(* subscription, beside an opus model.                                         *)
OptionalPasses(policy, tier, signals) ==
  LET b == policy.budget
      pressed == \/ ~Get(b, "defer_nonessential_passes", TRUE)
                 \/ signals.pressure >= Threshold(b)
                 \/ policy.mode = "subscription" /\ tier > Sonnet
      dear == SpendCapped(b) /\ 100 * signals.cost > 85 * b.max_estimated_cost_minor
  IN ~ \/ policy.mode # "api_key" /\ pressed
       \/ policy.mode # "subscription" /\ dear
       \/ signals.throttle

(* What a retry carries over from the enforcer is applied last.                *)
Overridden(plan, overrides, lo, hi) ==
  LET o == Over(overrides, plan)
  IN [context_ceiling_tokens |-> AtLeastOne(o.context_ceiling_tokens),
      optional_passes_included |-> o.optional_passes_included,
      model_tier |-> IF "model_tier" \in DOMAIN overrides
                     THEN ClampTierToBudget(o.model_tier, lo, hi) ELSE plan.model_tier]

PlanExecution(policy, class, signals, overrides) ==
  LET b == policy.budget
      lo == MinTier(b)
      hi == TierCeiling(policy)
      rule == RuleOf(policy, class)
      tier == ClampTierToBudget(rule.rule_tier, lo, hi)
      lowest == ClampTierToBudget(0, lo, hi)
      ceiling == AtLeastOne(Percent(EffectiveMax(policy), rule.ceiling_ratio))
      premium == policy.mode = "subscription" /\ tier > Sonnet
      overspent == /\ policy.mode = "api_key"
                   /\ "max_estimated_cost_minor" \in DOMAIN b
                   /\ signals.cost > b.max_estimated_cost_minor
  IN Overridden(
       [context_ceiling_tokens |->
          CASE premium -> AtLeastOne(Percent(ceiling, 88))
            [] overspent -> AtLeastOne(Percent(ceiling, 75))
            [] OTHER -> ceiling,
        optional_passes_included |-> OptionalPasses(policy, tier, signals),
        model_tier |-> IF overspent \/ signals.throttle THEN lowest ELSE tier],
       overrides, lo, hi)

----------------------------------------------------------------------------
(* The meters: what a run that read and wrote so many tokens cost and pressed. *)
(* pricing-profile.yaml prices a thousand tokens.                              *)

InputRate == [t \in Tiers |-> <<25, 300, 1500>>[t + 1]]
OutputRate == [t \in Tiers |-> <<75, 1500, 7500>>[t + 1]]
ComputeCostMinorFromTokens(tier, in, out) == in * InputRate[tier] + out * OutputRate[tier]

TierPressureBump(tier) == <<0, 12, 28>>[tier + 1]
BASE_TOKEN_SCALE == 400

(* The volume of tokens, the tier and the provider's throttling, up to 100.    *)
ComputeSubscriptionPressure(tokens, tier, throttle) ==
  Lesser(100, Lesser(100, (100 * tokens) \div BASE_TOKEN_SCALE)
              + TierPressureBump(tier) + (IF throttle THEN 22 ELSE 0))

(* A 429 or 503, a Retry-After or the words of one count as throttling.        *)
ExtractProviderSignals(answer) == answer \in {"busy", "retry_after"}

(* The reading a meter of the policy's mode takes: money for an API key,       *)
(* pressure for a subscription, both for a hybrid.                             *)
Observe(mode, tier, in, out, answer) ==
  LET throttle == ExtractProviderSignals(answer)
      pressed == [pressure_score |-> ComputeSubscriptionPressure(in + out, tier, throttle),
                  throttle_detected |-> throttle]
      spent == [actual_cost_minor |-> ComputeCostMinorFromTokens(tier, in, out)]
  IN CASE mode = "subscription" -> pressed
       [] mode = "api_key" -> spent
       [] mode = "hybrid" -> Over(pressed, spent)

----------------------------------------------------------------------------
(* The enforcer.                                                               *)

DetectPolicyViolation(policy, meter) ==
  \/ /\ policy.mode # "api_key"
     /\ meter.pressure_score >= Threshold(policy.budget) \/ meter.throttle_detected
  \/ /\ policy.mode # "subscription"
     /\ SpendCapped(policy.budget)
     /\ meter.actual_cost_minor > policy.budget.max_estimated_cost_minor

(* degradation-ladders.yaml: the steps of the default ladder in each mode, the *)
(* last of which gives up.  A step is what it multiplies (per cent) or sets.   *)
Ladder ==
  LET compact(p) == [kind |-> "compact", by |-> p]
      downshift == [kind |-> "downshift", by |-> 1]
      passesOff == [kind |-> "passes_off", by |-> 0]
      lessOutput == [kind |-> "output", by |-> 75]
      giveUp == [kind |-> "terminal", by |-> 0]
  IN [subscription |-> <<compact(85), passesOff, downshift, compact(85), giveUp>>,
      api_key |-> <<compact(88), downshift, lessOutput, passesOff, giveUp>>,
      hybrid |-> <<compact(87), downshift, passesOff, giveUp>>]

ApplyConstraintDeltaUpwards(c, step, budget) ==
  IF step.kind = "downshift"
  THEN [c EXCEPT !.model_tier = Lesser(MaxTier(budget), c.model_tier + step.by)] ELSE c

(* The constraints of the next attempt; a tier never goes below the minimum.   *)
ApplyConstraintDelta(c, step, budget) ==
  CASE step.kind = "compact" ->
         [c EXCEPT !.context_ceiling_tokens = AtLeastOne(Percent(@, step.by))]
    [] step.kind = "passes_off" -> [c EXCEPT !.optional_passes_included = FALSE]
    [] step.kind = "downshift" ->
         [c EXCEPT !.model_tier = Lesser(Greater(MinTier(budget), @ - step.by), MaxTier(budget))]
    [] step.kind = "output" ->
         [k \in DOMAIN c |-> IF k = "max_output_tokens"
                             THEN AtLeastOne(Percent(c[k], step.by)) ELSE c[k]]

(* The verdict on a reading at a step of the ladder.                           *)
EvaluateBudgetEnforcement(policy, meter, constraints, index) ==
  LET steps == IF policy.fallback_ladder = "default" THEN Ladder[policy.mode] ELSE <<>>
      stop(why) == [outcome |-> "terminal", reason_code |-> why]
  IN CASE ~DetectPolicyViolation(policy, meter) -> [outcome |-> "ok"]
       [] DetectPolicyViolation(policy, meter) /\ steps = <<>> -> stop("missing_ladder")
       [] OTHER ->
            IF index >= Len(steps) THEN stop("policy_exhausted")
            ELSE IF steps[index + 1].kind = "terminal" THEN stop("ladder_end")
            ELSE [outcome |-> "retry",
                  applied |-> ApplyConstraintDelta(constraints, steps[index + 1], policy.budget)]
=============================================================================
