------------------------- MODULE ProjectionReconcile -------------------------
(***************************************************************************)
(* worker/src/task-projection-reconcile.ts: how the copy of a task in KV   *)
(* (the projection) is compared with the log of the task's Durable Object, *)
(* and which commits bring it up to date.  Pure operators on a log; a      *)
(* commit has the fields before, after and stateAfter.                     *)
(***************************************************************************)
EXTENDS Integers, Sequences, SequencesExt, Selections

(* computeProjectionLag *)
IsLagging(authoritative, projected) == authoritative > projected

(* reconstructAuthoritativeState: the commit with the highest version; the *)
(* sort is stable, so the last of several.                                 *)
LatestCommit(log) ==
    log[CHOOSE i \in DOMAIN log :
            \A j \in DOMAIN log :
                \/ log[j].after < log[i].after
                \/ log[j].after = log[i].after /\ j <= i]

(* detectProjectionDivergence, as a yes or no. *)
Diverged(log, projectedTask, projectedVersion) ==
    /\ log # << >>
    /\ \/ LatestCommit(log).after # projectedVersion
       \/ LatestCommit(log).stateAfter # projectedTask

(* A mistake: the first commit is taken for the last. *)
AuthoritativeVersionFirst(log, projected) ==
    IF log = << >> THEN projected ELSE Head(log).after

(* repairProjection, 389-391: without commits the projection is taken to   *)
(* be up to date.                                                          *)
AuthoritativeVersion(log, projected) ==
    IF log = << >> THEN projected ELSE Last(log).after

(* planProjectionRepair *)
CommitsToApply(log, authoritative, projected) ==
    SelectAt(log, {i \in DOMAIN log : /\ log[i].before >= projected
                                      /\ log[i].after <= authoritative})

(* validateRepairPlan: the commits lead from the projected version to the  *)
(* authoritative one without a gap.                                        *)
ValidRepairPlan(plan, authoritative, projected) ==
    IF plan = << >> THEN authoritative = projected
    ELSE /\ plan[1].before = projected
         /\ \A i \in 2..Len(plan) : plan[i].before = plan[i - 1].after
         /\ Last(plan).after = authoritative
=============================================================================
