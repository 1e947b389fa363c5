------------------------------ MODULE DualWrite ------------------------------
(***************************************************************************)
(* worker/src/dual-write-task-store.ts with the handlers that call it:     *)
(* one task kept twice, as a record in the KV namespace and in its Durable *)
(* Object (TaskObject, whose actions are taken from there).                *)
(*                                                                         *)
(* In "shadow" mode a mutation is done in KV; afterwards the record, and   *)
(* the command if the handler built one, are sent to the object by calls   *)
(* nobody awaits.  In "authoritative" mode the three migrated commands go  *)
(* to the object first and to KV second; every other mutation still goes   *)
(* the shadow way.                                                         *)
(*                                                                         *)
(* A request is a small machine that keeps what it read across its awaits. *)
(* Each step of it ends where the code awaits KV or the object, any number *)
(* of requests may be under way, and a request may stop after any step: a  *)
(* failed call, a thrown error or a dead isolate.  KV itself is taken to   *)
(* be linearizable, the most the code could hope for.                      *)
(***************************************************************************)
EXTENDS TaskObject, KvOperations, ProjectionReconcile

CONSTANTS
    Modes,     \* the values TASK_COMMAND_STORE_MODE may have
    Clients,   \* slots for requests under way at the same time
    Requests,  \* Requests[m]: the requests clients make in mode m
    Together,  \* bound: the modes in which requests overlap
    NoKey      \* no idempotency_key in the body

Enveloped == {"task.select_route", "task.transition_state",
              "task.append_finding"}

RequestRecords ==
    [op : Operations, expected : Nat, key : Keys \cup {NoKey},
     payload : Payloads, progress : Progress]

(* deriveDeterministicIdempotencyKey *)
DerivedKey(request) ==
    IF request.key # NoKey THEN request.key
    ELSE <<request.expected, SemanticDigest(request.op, request.payload)>>

Command(request) ==
    BuildTaskCommand(DerivedKey(request), request.expected, request.op,
                     request.payload)

ASSUME DualWriteAssumption ==
    /\ Modes \subseteq {"shadow", "authoritative"}
    /\ Requests \in [Modes -> SUBSET RequestRecords]
    /\ \A m \in Modes : \A r \in Requests[m] :
          r.op \in Enveloped => DerivedKey(r) \in Keys
    /\ Together \subseteq Modes

VARIABLES
    mode,    \* TASK_COMMAND_STORE_MODE, which no request changes
    kv,      \* the record under "task:<id>"
    flight,  \* flight[c]: where the request of client c is
    calls,   \* calls to the object nobody awaits
    written, \* history: every record ever put under "task:<id>"
    answers  \* history: every success a client was told

storeVars == <<kv, written>>
objectVars == vars
dwVars == <<vars, mode, kv, flight, calls, written, answers>>

Idle == [stage |-> "idle", request |-> NoKey, next |-> NoTask, version |-> 0,
         plan |-> << >>, fetched |-> FALSE, truth |-> 0, replayed |-> 0]

(* isAuthoritativeCommand *)
IsAuthoritative(request) == mode = "authoritative" /\ request.op \in Enveloped

Reset(c) == flight' = [flight EXCEPT ![c] = Idle]

MayStart(c) ==
    /\ flight[c] = Idle
    /\ mode \notin Together => \A x \in Clients : flight[x] = Idle

Tell(request, v) == answers' = answers \cup {[request |-> request, version |-> v]}

----------------------------------------------------------------------------
Put(record) ==
    /\ kv' = record
    /\ written' = written \cup {record}

----------------------------------------------------------------------------
(* A mutation. *)

(* The handler resolves the task first (task-mutation-context.ts), then    *)
(* the store sends the command to the object.                              *)
SendCommand(c, request) ==
    /\ MayStart(c)
    /\ IsAuthoritative(request)
    /\ kv # NoTask
    /\ flight' = [flight EXCEPT ![c] = [Idle EXCEPT !.stage = "sent",
                                                    !.request = request]]
    /\ UNCHANGED <<objectVars, storeVars, calls, answers>>

CommandApplied(c) ==
    /\ flight[c].stage = "sent"
    /\ ApplyCommand(Command(flight[c].request))
    /\ flight' = [flight EXCEPT ![c].stage = "project",
                                ![c].version = CurrentVersion + 1]
    /\ UNCHANGED <<storeVars, calls, answers>>

(* Committed, but the store sees an error: nothing is projected. *)
CommandUnanswered(c) ==
    /\ flight[c].stage = "sent"
    /\ ApplyCommandUnanswered(Command(flight[c].request))
    /\ Reset(c)
    /\ UNCHANGED <<storeVars, calls, answers>>

(* A replayed command returns before the projection is written. *)
CommandReplayed(c) ==
    /\ flight[c].stage = "sent"
    /\ ReplayCommand(Command(flight[c].request))
    /\ Tell(flight[c].request,
            index[DerivedKey(flight[c].request)].version)
    /\ Reset(c)
    /\ UNCHANGED <<storeVars, calls>>

(* Read the record, check it and compute the next one: no await between.   *)
ReadRecord(c, request, v) ==
    /\ KvAccepts(request, kv)
    /\ kv # NoTask => kv.version < MaxVersion
    /\ flight' = [flight EXCEPT
          ![c] = [Idle EXCEPT
                    !.stage = IF request.op = "continue" THEN "trail" ELSE "write",
                    !.request = request,
                    !.next = KvResult(request, kv),
                    !.version = v]]
    /\ UNCHANGED <<objectVars, storeVars, calls, answers>>

StartInKv(c, request) ==
    /\ MayStart(c)
    /\ ~IsAuthoritative(request)
    /\ ReadRecord(c, request, KvResult(request, kv).version)

Project(c) ==
    /\ flight[c].stage = "project"
    /\ ReadRecord(c, flight[c].request, flight[c].version)

PutRecord(c) ==
    /\ flight[c].stage = "write"
    /\ Put(flight[c].next)
    /\ flight' = [flight EXCEPT ![c].stage = "trail"]
    /\ UNCHANGED <<objectVars, calls, answers>>

(* The projection failed: the receipt says pending, and nothing is kept    *)
(* that would make anyone try again.                                       *)
ProjectionFails(c) ==
    /\ flight[c].stage \in {"project", "write", "trail"}
    /\ IsAuthoritative(flight[c].request)
    /\ Tell(flight[c].request, flight[c].version)
    /\ Reset(c)
    /\ UNCHANGED <<objectVars, storeVars, calls>>

(* _replicateToDo, then _applyCommandToDo *)
Replication(request, record) ==
    {[kind |-> "put-state", body |-> record]}
    \cup IF request.op \in Enveloped
         THEN {[kind |-> "apply-command", body |-> Command(request)]} ELSE {}

(* Snapshots, events, log and index are written; the client is answered.   *)
Finish(c) ==
    /\ flight[c].stage = "trail"
    /\ Tell(flight[c].request, flight[c].version)
    /\ calls' = IF IsAuthoritative(flight[c].request) THEN calls
                ELSE calls \cup Replication(flight[c].request, flight[c].next)
    /\ Reset(c)
    /\ UNCHANGED <<objectVars, storeVars>>

(* A rejected command, an error or a crash. *)
Abandon(c) ==
    /\ flight[c] # Idle
    /\ Reset(c)
    /\ UNCHANGED <<objectVars, storeVars, calls, answers>>

----------------------------------------------------------------------------
(* A call nobody awaits reaches the object, in any order, or never.        *)

Deliver(call) ==
    /\ \/ /\ call.kind = "put-state"
          /\ PutState(call.body, NoExtra, 0)
       \/ /\ call.kind = "apply-command"
          /\ \/ ApplyCommand(call.body)
             \/ ReplayCommand(call.body)
    /\ calls' = calls \ {call}
    /\ UNCHANGED <<storeVars, flight, answers>>

(* The object answers with a conflict, which nobody reads. *)
Refuse(call) ==
    /\ IF call.kind = "put-state" THEN ~PutStateAccepted(call.body)
       ELSE ApplyOutcome(call.body) \notin {"applied", "replayed"}
    /\ calls' = calls \ {call}
    /\ UNCHANGED <<objectVars, storeVars, flight, answers>>

(* A call nobody awaits may be dropped. *)
Lose(call) ==
    /\ calls' = calls \ {call}
    /\ UNCHANGED <<objectVars, storeVars, flight, answers>>

----------------------------------------------------------------------------
(* repairProjection *)

(* fetchAuthoritativeCommits turns every failure into an empty log.        *)
FetchedLogs == {commits, << >>}

(* The two reads are started together; either may be done first.           *)
RepairFetch(c) ==
    /\ MayStart(c)
    /\ kv # NoTask
    /\ \E log \in FetchedLogs :
          flight' = [flight EXCEPT ![c] = [Idle EXCEPT
              !.stage = "repair", !.fetched = TRUE, !.plan = log,
              !.truth = CurrentVersion]]
    /\ UNCHANGED <<objectVars, storeVars, calls, answers>>

RepairLoad(c) ==
    /\ MayStart(c)
    /\ kv # NoTask
    /\ flight' = [flight EXCEPT ![c] = [Idle EXCEPT !.stage = "repair",
                                                    !.next = kv]]
    /\ UNCHANGED <<objectVars, storeVars, calls, answers>>

(* The plan is made as soon as the second read is there.  An invalid plan  *)
(* is an error, which is Abandon.                                          *)
Plan(c, log, record, truth) ==
    LET target == AuthoritativeVersion(log, record.version)
        plan   == CommitsToApply(log, target, record.version)
    IN /\ ValidRepairPlan(plan, target, record.version)
       /\ flight' = [flight EXCEPT ![c] = [Idle EXCEPT
              !.stage = "replay", !.plan = plan, !.version = target,
              !.truth = truth, !.replayed = Len(plan)]]
       /\ UNCHANGED <<objectVars, storeVars, calls, answers>>

RepairPlan(c) ==
    /\ flight[c].stage = "repair"
    /\ IF flight[c].fetched
       THEN Plan(c, flight[c].plan, kv, flight[c].truth)
       ELSE \E log \in FetchedLogs : Plan(c, log, flight[c].next, CurrentVersion)

(* kvStore.update: the commit's record under a version of its own making. *)
ReplayRead(c) ==
    /\ flight[c].stage = "replay"
    /\ flight[c].plan # << >>
    /\ kv.version = Head(flight[c].plan).before
    /\ flight' = [flight EXCEPT
          ![c].stage = "replayPut",
          ![c].next = [Head(flight[c].plan).stateAfter EXCEPT
                          !.version = kv.version + 1]]
    /\ UNCHANGED <<objectVars, storeVars, calls, answers>>

ReplayPut(c) ==
    /\ flight[c].stage = "replayPut"
    /\ Put(flight[c].next)
    /\ flight' = [flight EXCEPT ![c].stage = "replay", ![c].next = NoTask,
                                ![c].plan = Tail(@)]
    /\ UNCHANGED <<objectVars, calls, answers>>

(* The record is loaded once more, and lag is computed from it. *)
ReportsRepaired(c) ==
    /\ flight[c].stage = "replay"
    /\ flight[c].plan = << >>
    /\ ~IsLagging(flight[c].version, kv.version)

RepairDone(c) ==
    /\ flight[c].stage = "replay"
    /\ flight[c].plan = << >>
    /\ Reset(c)
    /\ UNCHANGED <<objectVars, storeVars, calls, answers>>

----------------------------------------------------------------------------

DwInit ==
    /\ Init
    /\ mode \in Modes
    /\ kv = NoTask
    /\ flight = [c \in Clients |-> Idle]
    /\ calls = {}
    /\ written = {}
    /\ answers = {}

DwNext ==
    /\ \/ \E c \in Clients :
             \/ \E r \in Requests[mode] : SendCommand(c, r) \/ StartInKv(c, r)
             \/ CommandApplied(c) \/ CommandUnanswered(c) \/ CommandReplayed(c)
             \/ Project(c) \/ PutRecord(c) \/ ProjectionFails(c) \/ Finish(c)
             \/ Abandon(c)
             \/ RepairFetch(c) \/ RepairLoad(c) \/ RepairPlan(c)
             \/ ReplayRead(c) \/ ReplayPut(c) \/ RepairDone(c)
       \/ \E call \in calls : Deliver(call) \/ Refuse(call) \/ Lose(call)
    /\ UNCHANGED mode

DwSpec == DwInit /\ [][DwNext]_dwVars

----------------------------------------------------------------------------
(* Safety. *)

(* What both sides compute the same way: the object ignores the progress   *)
(* of a request, does not normalise its finding and may stamp the record   *)
(* with a time of its own.                                                 *)
View(record) ==
    [version |-> record.version, state |-> record.state,
     action |-> record.action, route |-> record.route,
     routes |-> record.routes,
     findings |-> [i \in DOMAIN record.findings |->
                      <<record.findings[i].id, record.findings[i].status,
                        record.findings[i].route>>]]

Acknowledged == {a \in answers : a.request.op \in Enveloped}

Carries(commit, request) ==
    CASE request.op = "task.select_route" ->
             commit.stateAfter.route = request.payload.route
      [] request.op = "task.transition_state" ->
             /\ commit.stateAfter.state = request.payload.state
             /\ commit.stateAfter.action = request.payload.action
      [] OTHER -> TRUE

(* Authoritative mode, migrated commands and the creation only.  Whatever  *)
(* order projections, repairs and replications land in (130-183, 377-426), *)
(* the record readers get from KV is the newborn task or the state the log *)
(* names for its version: never a mixture, never a state that was not, and *)
(* never one the object has yet to reach.                                  *)
ProjectionIsAHistoricState ==
    mode = "authoritative" /\ kv # NoTask /\ kv.version # 1 =>
        /\ version # NoVersion => kv.version <= version
        /\ \E i \in DOMAIN commits :
              /\ commits[i].after = kv.version
              /\ View(commits[i].stateAfter) = View(kv)

(* How far "Rebuild from authoritative history matches served task state"  *)
(* (design 554) goes.  While requests leave the progress alone and there   *)
(* is no finding, which only KV normalises, the record and the state       *)
(* rebuilt at its version differ at most in updated_at; the comparison of  *)
(* the reconciliation, which looks at every field, tells them apart        *)
(* exactly when the object stamped that version itself (138-141) and no    *)
(* repair has copied its stamp.                                            *)
RebuiltIsServed ==
    LET rebuilt == LatestCommit(commits) IN
    /\ mode = "authoritative"
    /\ commits # << >> /\ rebuilt.after = kv.version
    /\ kv.findings = << >>
    => /\ [rebuilt.stateAfter EXCEPT !.updated_at = kv.updated_at] = kv
       /\ Diverged(commits, kv, kv.version) <=>
              /\ rebuilt.stateAfter.updated_at = "object"
              /\ kv.updated_at = "request"

(* Authoritative mode: KV shows what the log says.                         *)
ProjectionIsTrue == ProjectionIsAHistoricState /\ RebuiltIsServed

(* A receipt, replayed ones included (145-154), names the version of a     *)
(* commit under the request's key that did what the request asked.         *)
ReceiptsNameTheirCommit ==
    mode = "authoritative" =>
        \A a \in Acknowledged :
            \E i \in DOMAIN commits :
                /\ commits[i].key = DerivedKey(a.request)
                /\ commits[i].after = a.version
                /\ Carries(commits[i], a.request)

(* "one succeeds, one gets a true version_conflict, no duplicate resulting *)
(* versions" (the design, 14.4): different commands never get receipts for *)
(* the same version.                                                       *)
NoDuplicateResultingVersions ==
    mode = "authoritative" =>
        \A a, b \in Acknowledged :
            a.version = b.version => DerivedKey(a.request) = DerivedKey(b.request)

(* Authoritative mode: what a client was told is what the object did.      *)
ReceiptsAreTrue == ReceiptsNameTheirCommit /\ NoDuplicateResultingVersions

(* Authoritative mode: a repair that replayed commits and reports success  *)
(* has brought KV at least to where the object was when its log was read.  *)
RepairCatchesUp ==
    \A c \in Clients :
        mode = "authoritative" /\ ReportsRepaired(c) /\ flight[c].replayed > 0
            => kv.version >= flight[c].truth

(* Shadow mode, one request at a time: although the calls arrive in any    *)
(* order or not at all, and a command may be applied by the object itself  *)
(* before the record it leads to arrives, the object only ever holds a     *)
(* state KV has held, and is never ahead of it.                            *)
ObjectIsAHistoricState ==
    mode = "shadow" /\ task # NoTask =>
        /\ task.version <= kv.version
        /\ \E w \in written : View(w) = View(task)

(* Every commit of a shadow log stands for a mutation a client was told    *)
(* had been done, at the version the client was told.                      *)
CommitsWereAcknowledged ==
    mode = "shadow" =>
        \A i \in DOMAIN commits :
            \E a \in Acknowledged :
                /\ DerivedKey(a.request) = commits[i].key
                /\ a.version = commits[i].after

----------------------------------------------------------------------------
(* What the documents promise and the code does not do.                    *)

(* "Rebuild from authoritative history matches served task state for       *)
(* sampled tasks" (design 554): where nothing lags, the comparison of the  *)
(* reconciliation finds the record and the rebuilt state equal.  It is not *)
(* so after a transition, which each side stamps with a time of its own.   *)
RebuildMatchesServed ==
    /\ mode = "authoritative"
    /\ commits # << >> /\ LatestCommit(commits).after = kv.version
    => ~Diverged(commits, kv, kv.version)

(* A client told that its finding was recorded finds it in the log.        *)
AcknowledgedFindingIsStored ==
    \A a \in Acknowledged :
        a.request.op = "task.append_finding" =>
            \E i \in DOMAIN commits :
                \E j \in DOMAIN commits[i].stateAfter.findings :
                    commits[i].stateAfter.findings[j].id
                        = a.request.payload.finding.id
=============================================================================
