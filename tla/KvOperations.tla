---------------------------- MODULE KvOperations ----------------------------
(***************************************************************************)
(* What runtime/lib/task-store-kv.mjs does to the record of a task: when   *)
(* an operation throws before it writes, and which record it writes.       *)
(* DualWrite and KvTaskStore differ in what happens around it.             *)
(*                                                                         *)
(* "answer" stands for the two question handlers, which append a finding   *)
(* without a command; "upgrade" for the route upgrade of the findings, at  *)
(* level "equal", the one that looks at them; "update" for the repair,     *)
(* which copies the fields of a commit unchecked, here those of a          *)
(* transition, whose updated_at is the object's.                           *)
(***************************************************************************)
EXTENDS TaskLifecycle

Operations == {"create", "update", "task.select_route", "task.transition_state",
               "task.append_finding", "answer", "upgrade", "continue"}

(* A mistake: expectedVersion is not compared. *)
KvAcceptsAnyVersion(request, record) ==
    CASE request.op = "create" -> record = NoTask
      [] OTHER                 -> record # NoTask

KvAccepts(request, record) ==
    CASE request.op = "create"   -> record = NoTask
      [] request.op = "continue" -> record # NoTask
      [] OTHER ->
           /\ record # NoTask
           /\ record.version = request.expected
           /\ request.op = "task.transition_state" =>
                 /\ TransitionAllowed(record, request.payload.state)
                 /\ MonotonicProgress(record, request.progress)
           /\ request.op = "upgrade" =>
                 CanTransitionFindings(record.findings, "equal")

KvResult(request, record) ==
    CASE request.op = "create" ->
             CreatePortableTask(request.payload.route, request.payload.action,
                                request.progress.total)
      [] request.op = "continue" -> record
      [] request.op = "update" ->
             [record EXCEPT !.state   = request.payload.state,
                            !.route   = request.payload.route,
                            !.version = @ + 1,
                            !.updated_at = "object"]
      [] request.op = "task.select_route" ->
             AppendRouteSelection(record, request.payload.route)
      [] request.op = "task.transition_state" ->
             TransitionPortableTaskState(record, request.payload.state,
                 request.payload.action, request.progress)
      [] request.op = "upgrade" ->
             [record EXCEPT
                !.findings = TransitionFindings(@, request.payload.route, "equal"),
                !.version  = @ + 1,
                !.updated_at = "request"]
      [] OTHER -> AppendFindingToTask(record, request.payload.finding)
=============================================================================
