--------------------------- MODULE ExecutionPolicy ---------------------------
(* The bounded replan of one execution (execution-policy-compose.mjs): plan,   *)
(* pack, execute, measure, and on a violated policy take the next step of the  *)
(* degradation ladder and try again, up to a number of attempts.               *)
EXTENDS ResourcePolicy, ContextPack

CONSTANTS
  Machines, SkillPolicies, Projects, RouteLayers, \* the layers an execution may be given
  TaskClasses,                        \* the task classes it may name
  Signals,                            \* what the caller may know of pressure and cost
  TaskInputs,                         \* the task states it may pack
  Outputs,                            \* tokens a run may write
  ProviderAnswers,                    \* what the provider may answer
  Attempts                            \* attempts an execution may be allowed (3 by default)

ASSUME AttemptsAssumption == Attempts \subseteq Nat \ {0}

ASSUME LayersAssumption ==
  \A layer \in Machines \cup SkillPolicies \cup Projects \cup RouteLayers : IsLayer(layer)

ASSUME TaskInputsAssumption == TaskInputs \subseteq PackableStates

ASSUME OutputsAssumption == Outputs \subseteq Nat

VARIABLES
  opts,             \* the execution asked for
  policy,           \* the policy it was resolved to
  attempt,          \* attempts made before this one
  ladderStepIndex,
  plannerOverrides, \* what the last retry carries over
  planner, pack,    \* the plan and the pack of the latest attempt
  meter,            \* what the meter read of it
  status            \* "planning", "executing", "measured" or how the pipeline ended

policyVars == <<opts, policy, attempt, ladderStepIndex, plannerOverrides, planner,
                pack, meter, status>>

Unset == <<>>

PolicyInit ==
  /\ opts \in [machine : Machines, skill : SkillPolicies, project : Projects,
               route : RouteLayers, class : TaskClasses, signals : Signals, task : TaskInputs,
               maxAttempts : Attempts]
  /\ policy = ResolveExecutionPolicy(opts.machine, opts.skill, opts.project, opts.route)
  /\ attempt = 0
  /\ ladderStepIndex = 0
  /\ plannerOverrides = Unset
  /\ planner = Unset /\ pack = Unset /\ meter = Unset
  /\ status = "planning"

(* The constraints an attempt ran under.  The output limit is the budget's.    *)
PlannerOutputToEnforcementConstraints ==
  IF "max_output_tokens" \in DOMAIN policy.budget
  THEN Over(planner, [max_output_tokens |-> policy.budget.max_output_tokens])
  ELSE planner

(* What a retry keeps of the tightened constraints: not the output limit.      *)
EnforcementConstraintsToPlannerOverrides(c) ==
  [k \in DOMAIN c \ {"max_output_tokens"} |-> c[k]]

Plan ==
  /\ status = "planning" /\ attempt < opts.maxAttempts
  /\ planner' = PlanExecution(policy, opts.class, opts.signals, plannerOverrides)
  /\ pack' = BuildContextPack(policy.mode, planner', opts.task)
  /\ plannerOverrides' = Unset
  /\ status' = "executing"
  /\ UNCHANGED <<opts, policy, attempt, ladderStepIndex, meter>>

(* The caller's callback runs the model on the pack, and measures the run with *)
(* the meter of the policy's mode.                                             *)
RunAttempt ==
  /\ status = "executing"
  /\ \E output \in Outputs, answer \in ProviderAnswers :
       meter' = Observe(policy.mode, planner.model_tier, pack.after, output, answer)
  /\ status' = "measured"
  /\ UNCHANGED <<opts, policy, attempt, ladderStepIndex, plannerOverrides, planner, pack>>

Enforcement == EvaluateBudgetEnforcement(policy, meter,
                 PlannerOutputToEnforcementConstraints, ladderStepIndex)

Succeed ==
  /\ status = "measured" /\ Enforcement.outcome = "ok"
  /\ status' = "success"
  /\ UNCHANGED <<opts, policy, attempt, ladderStepIndex, plannerOverrides, planner, pack,
                 meter>>

GiveUp ==
  /\ status = "measured" /\ Enforcement.outcome = "terminal"
  /\ status' = "terminal"
  /\ UNCHANGED <<opts, policy, attempt, ladderStepIndex, plannerOverrides, planner, pack,
                 meter>>

Retry ==
  /\ status = "measured" /\ Enforcement.outcome = "retry"
  /\ ladderStepIndex' = ladderStepIndex + 1
  /\ plannerOverrides' = EnforcementConstraintsToPlannerOverrides(Enforcement.applied)
  /\ attempt' = attempt + 1
  /\ status' = "planning"
  /\ UNCHANGED <<opts, policy, planner, pack, meter>>

(* The attempts are used up: the tightening the last one asked for is lost.    *)
Exhausted ==
  /\ status = "planning" /\ attempt = opts.maxAttempts
  /\ status' = "replan_exhausted"
  /\ UNCHANGED <<opts, policy, attempt, ladderStepIndex, plannerOverrides, planner, pack,
                 meter>>

PolicyNext == Plan \/ RunAttempt \/ Succeed \/ GiveUp \/ Retry \/ Exhausted

PolicySpec == PolicyInit /\ [][PolicyNext]_policyVars

----------------------------------------------------------------------------
(* Properties.                                                                 *)

(* Every attempt after the first is planned at most as generously as the one   *)
(* before: no larger context, no optional passes it did without, no dearer     *)
(* tier.  The planner starts every attempt from the policy again, and only     *)
(* what the enforcer carries over keeps a degradation in force.                *)
RetriesOnlyTighten ==
  [][planner # Unset =>
       /\ planner'.context_ceiling_tokens <= planner.context_ceiling_tokens
       /\ planner'.optional_passes_included => planner.optional_passes_included
       /\ planner'.model_tier <= planner.model_tier]_planner

(* A pack fits the ceiling it was built for and keeps the newest message,      *)
(* whatever is dropped or cut; only a task with more sections than the         *)
(* compaction has rounds goes out too large.                                   *)
PackFits ==
  pack # Unset =>
    /\ \/ pack.after <= planner.context_ceiling_tokens
       \/ Len(ApiKeyOrder(opts.task)) + 2 > CompactionGuard
    /\ (opts.task.messages # <<>>) => (pack.packed.messages # <<>>)
    /\ pack.after <= pack.before

(* An execution reported as a success cost no more than the merged layers and  *)
(* the route allow, whichever of them named the lower cap.  (A route's cap     *)
(* where the merged layers name none is not enforced.)                         *)
SuccessIsWithinEveryCap ==
  LET base == Merged(opts.machine, opts.skill, opts.project)
      key == "max_estimated_cost_minor"
  IN (/\ status = "success"
      /\ policy.mode # "subscription"
      /\ key \in DOMAIN base)
       => /\ meter.actual_cost_minor <= base[key]
          /\ meter.actual_cost_minor <= Get(opts.route, key, base[key])

(* What a policy limits stays within it, before the call and after it.         *)
PolicyIsKept == PackFits /\ SuccessIsWithinEveryCap
=============================================================================
