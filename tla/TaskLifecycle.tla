---------------------------- MODULE TaskLifecycle ----------------------------
(***************************************************************************)
(* The portable task: the record every store of the system keeps, and the  *)
(* pure operations on it.  runtime/lib/portable-task-lifecycle-worker.mjs  *)
(* and findings-ledger-worker.mjs hold the operations the stores use;      *)
(* worker/src/task-command-mutations.ts holds the operations the task's    *)
(* Durable Object uses instead.  The two families are modelled side by     *)
(* side because they differ: the Durable Object consults neither the       *)
(* transition table nor the progress of the request, and it appends the    *)
(* finding of the request as it came.                                      *)
(*                                                                         *)
(* Goals and texts are left out, and timestamps but for one thing: whose   *)
(* clock the record's updated_at was read from.  The stores take the time  *)
(* the request brings; the object takes it for a route and reads its own   *)
(* clock for the other commands, whose request_context has no updated_at.  *)
(* Two stamps of one version are taken to differ when their clocks do.     *)
(*                                                                         *)
(* An operation is defined for the inputs its guard accepts; the guard is  *)
(* the conjunction of the conditions under which the code does not throw.  *)
(***************************************************************************)
EXTENDS Integers, Sequences

CONSTANTS
    Routes,      \* identifiers of execution routes
    NextActions, \* values of the next_action text
    FindingIds,  \* identifiers of findings
    NoVersion,   \* stands for an undefined or null version
    NoTask       \* stands for an absent record

ASSUME NoVersionAssumption == NoVersion \notin Int

----------------------------------------------------------------------------
(* The record. *)

TaskStates == {"pending", "active", "blocked", "completed", "failed"}

TRANSITIONS ==
    [pending   |-> {"active", "failed"},
     active    |-> {"blocked", "completed", "failed"},
     blocked   |-> {"active", "failed"},
     completed |-> {},
     failed    |-> {}]

ProvenanceStatuses == {"verified", "reused", "hypothesis"}

Progress == [done : Nat, total : Nat]

(* Who made an updated_at: the request, or the Durable Object. *)
Clocks == {"request", "object"}

(* A finding as a request carries it. *)
Findings == [id : FindingIds, status : ProvenanceStatuses, route : Routes]

(* A finding as a task holds it.  "ledger" is the normalised entry with a  *)
(* provenance record, "raw" is the body of the request stored untouched.   *)
FindingEntries ==
    [id : FindingIds, status : ProvenanceStatuses, route : Routes,
     shape : {"ledger", "raw"}]

(* What a request to change a task carries. *)
Payloads == [route : Routes, state : TaskStates, action : NextActions,
             finding : Findings]

Tasks ==
    [version  : Nat \cup {NoVersion},
     state    : TaskStates,
     action   : NextActions,
     progress : Progress,
     route    : Routes,
     routes   : Seq(Routes),
     findings : Seq(FindingEntries),
     updated_at : Clocks]

----------------------------------------------------------------------------
(* Operations of the stores. *)

(* createPortableTask: a task is born pending, at version 1. *)
CreatePortableTask(route, action, total) ==
    [version  |-> 1,
     state    |-> "pending",
     action   |-> action,
     progress |-> [done |-> 0, total |-> total],
     route    |-> route,
     routes   |-> <<route>>,
     findings |-> << >>,
     updated_at |-> "request"]

AppendRouteSelection(task, route) ==
    [task EXCEPT !.route      = route,
                 !.routes     = Append(@, route),
                 !.version    = @ + 1,
                 !.updated_at = "request"]

TransitionAllowed(task, nextState) == nextState \in TRANSITIONS[task.state]

MonotonicProgress(task, progress) ==
    /\ progress.done >= task.progress.done
    /\ progress.total >= progress.done

TransitionPortableTaskState(task, nextState, action, progress) ==
    [task EXCEPT !.state      = nextState,
                 !.action     = action,
                 !.progress   = progress,
                 !.version    = @ + 1,
                 !.updated_at = "request"]

LedgerEntry(finding) ==
    [id |-> finding.id, status |-> finding.status, route |-> finding.route,
     shape |-> "ledger"]

AppendFindingToTask(task, finding) ==
    [task EXCEPT !.findings   = Append(@, LedgerEntry(finding)),
                 !.version    = @ + 1,
                 !.updated_at = "request"]

(* An entry without provenance makes the upgrade throw, unless the level   *)
(* is "degraded" and the entries are not looked at.                        *)
CanTransitionFindings(findings, level) ==
    level = "equal" => \A i \in DOMAIN findings : findings[i].shape = "ledger"

(* A verification done on another route is only "reused" on the new one.   *)
TransitionEntry(entry, toRoute) ==
    IF entry.route # toRoute /\ entry.status = "verified"
    THEN [entry EXCEPT !.status = "reused", !.route = toRoute]
    ELSE entry

TransitionFindings(findings, toRoute, level) ==
    IF level = "equal"
    THEN [i \in DOMAIN findings |-> TransitionEntry(findings[i], toRoute)]
    ELSE findings

----------------------------------------------------------------------------
(* Operations of the Durable Object (task-command-mutations.ts). *)

(* appendRouteSelectionLocal: selected_at is in the request's context. *)
AppendRouteSelectionLocal(task, route, expected) ==
    [task EXCEPT !.route      = route,
                 !.routes     = Append(@, route),
                 !.version    = expected + 1,
                 !.updated_at = "request"]

(* transitionStateLocal: no transition table, the progress is kept. *)
TransitionStateLocal(task, nextState, action, expected) ==
    [task EXCEPT !.state      = nextState,
                 !.action     = action,
                 !.version    = expected + 1,
                 !.updated_at = "object"]

RawEntry(finding) ==
    [id |-> finding.id, status |-> finding.status, route |-> finding.route,
     shape |-> "raw"]

(* appendFindingLocal *)
AppendFindingLocal(task, finding, expected) ==
    [task EXCEPT !.findings   = Append(@, RawEntry(finding)),
                 !.version    = expected + 1,
                 !.updated_at = "object"]
=============================================================================
