----------------------------- MODULE KvTaskStore -----------------------------
(***************************************************************************)
(* runtime/lib/task-store-kv.mjs for one task: the record and the three    *)
(* lists kept beside it, each under a key of its own in a KV namespace     *)
(* that can only get and put.  A mutation gets the record, checks it, puts *)
(* its successor and then gets and puts each list in turn; every step      *)
(* below ends at one of those awaits.  The task index is TaskIndex.        *)
(*                                                                         *)
(* A worker is an isolate that handles one request at a time here; it may  *)
(* stop after any step, and the service of handoff tokens remembers what   *)
(* it has consumed in the memory of the isolate only.  KV is taken to be   *)
(* linearizable.                                                           *)
(***************************************************************************)
EXTENDS KvOperations, FiniteSets

CONSTANTS
    Workers,
    Requests,
    Tokens,      \* handoff tokens
    NoRequest,
    Overlapping, \* bound: the requests that may run at the same time
    MaxRecordVersion, \* bound on the version
    MaxListed,   \* bound on the length of a list when a request starts
    MaxOverlapped \* the same, once requests have overlapped

(* expectedVersion and the token are fields of the body. *)
RequestRecords ==
    [op : Operations, expected : Nat, payload : Payloads, progress : Progress,
     token : Tokens]

ASSUME KvTaskStoreAssumption ==
    /\ Requests \subseteq RequestRecords
    /\ Overlapping \subseteq Requests
    /\ NoRequest \notin RequestRecords
    /\ NoTask \notin Tasks
    /\ MaxRecordVersion \in Nat
    /\ MaxListed \in Nat
    /\ MaxOverlapped \in Nat

VARIABLES
    record,    \* "task:<id>"
    lists,     \* "task:<id>:snapshots", ":events" and ":log"
    jobs,      \* jobs[w]: where the request of worker w is
    consumed,  \* consumed[w]: tokens the isolate remembers
    written,   \* history: every record ever put
    answers,   \* history: every success a client was told
    overlapped \* history: two requests have been under way at once

kvVars == <<record, lists, jobs, consumed, written, answers, overlapped>>

KvLists == {"snapshots", "events", "log"}

Idle == [stage |-> "idle", request |-> NoRequest, next |-> NoTask,
         todo |-> << >>, read |-> << >>]

(* A mistake: the log is written before the event it repeats. *)
TrailLogFirst(op) ==
    CASE op = "create"   -> <<"snapshots", "log">>
      [] op = "update"   -> <<"snapshots">>
      [] op = "continue" -> <<"events", "log">>
      [] OTHER           -> <<"snapshots", "log", "events">>

(* The lists an operation appends to, in its order. *)
Trail(op) ==
    CASE op = "create"   -> <<"snapshots", "log">>
      [] op = "update"   -> <<"snapshots">>
      [] op = "continue" -> <<"events", "log">>
      [] OTHER           -> <<"snapshots", "events", "log">>

(* A mistake: an entry is labelled with the version it started from. *)
EntryStale(request, next) ==
    [op |-> request.op, version |-> next.version - 1, token |-> request.token,
     record |-> next]

(* An entry; a snapshot carries the record, an event the version in its id *)
(* ("evt_<version>_<type>") and a continuation its token.  The version of  *)
(* a log entry is not in the code and only serves the properties.          *)
Entry(request, next) ==
    [op |-> request.op, version |-> next.version, token |-> request.token,
     record |-> next]

HasContinuation(token) ==
    \E i \in DOMAIN lists["events"] :
        lists["events"][i].op = "continue" /\ lists["events"][i].token = token

----------------------------------------------------------------------------

KvInit ==
    /\ record = NoTask
    /\ lists = [l \in KvLists |-> << >>]
    /\ jobs = [w \in Workers |-> Idle]
    /\ consumed = [w \in Workers |-> {}]
    /\ written = {}
    /\ answers = {}
    /\ overlapped = FALSE

Tell(request, v) == answers' = answers \cup {[request |-> request, version |-> v]}

Others(w) == {jobs[v].request : v \in {u \in Workers \ {w} : jobs[u] # Idle}}

Arrives(w, request) ==
    /\ jobs[w] = Idle
    /\ Others(w) # {} => Others(w) \cup {request} \subseteq Overlapping
    /\ overlapped' = (overlapped \/ Others(w) # {})
    /\ \A l \in KvLists :
          Len(lists[l]) < IF overlapped' THEN MaxOverlapped ELSE MaxListed

(* Get the record and check it. *)
Begin(w, request) ==
    /\ Arrives(w, request)
    /\ request.op # "continue"
    /\ KvAccepts(request, record)
    /\ record # NoTask => record.version < MaxRecordVersion
    /\ jobs' = [jobs EXCEPT ![w] = [Idle EXCEPT
                    !.stage = "put", !.request = request,
                    !.next = KvResult(request, record),
                    !.todo = Trail(request.op)]]
    /\ UNCHANGED <<record, lists, consumed, written, answers>>

(* A mistake: a failed put is swallowed and the lists are written. *)
PutRecordSwallowed(w) ==
    /\ jobs[w].stage = "put"
    /\ jobs' = [jobs EXCEPT ![w].stage = "get"]
    /\ UNCHANGED <<record, lists, consumed, written, answers, overlapped>>

PutRecord(w) ==
    /\ jobs[w].stage = "put"
    /\ record' = jobs[w].next
    /\ written' = written \cup {jobs[w].next}
    /\ jobs' = [jobs EXCEPT ![w].stage = "get"]
    /\ UNCHANGED <<lists, consumed, answers, overlapped>>

(* createContinuationPackage: get the record, then the events.             *)
ContinueLoad(w, request) ==
    /\ Arrives(w, request)
    /\ request.op = "continue"
    /\ KvAccepts(request, record)
    /\ jobs' = [jobs EXCEPT ![w] = [Idle EXCEPT
                    !.stage = "token", !.request = request,
                    !.next = KvResult(request, record),
                    !.todo = Trail("continue")]]
    /\ UNCHANGED <<record, lists, consumed, written, answers>>

(* A token whose continuation is in the events is answered once more,      *)
(* without being verified.                                                 *)
ContinueReplay(w) ==
    /\ jobs[w].stage = "token"
    /\ HasContinuation(jobs[w].request.token)
    /\ Tell(jobs[w].request, jobs[w].next.version)
    /\ jobs' = [jobs EXCEPT ![w] = Idle]
    /\ UNCHANGED <<record, lists, consumed, written, overlapped>>

(* A mistake: the token is not remembered, nor looked for. *)
TokenUnchecked(w, token) == TRUE

TokenFresh(w, token) == token \notin consumed[w] /\ ~HasContinuation(token)

ContinueConsume(w) ==
    /\ jobs[w].stage = "token"
    /\ TokenFresh(w, jobs[w].request.token)
    /\ consumed' = [consumed EXCEPT ![w] = @ \cup {jobs[w].request.token}]
    /\ jobs' = [jobs EXCEPT ![w].stage = "get"]
    /\ UNCHANGED <<record, lists, written, answers, overlapped>>

(* _append: get the list ... *)
GetList(w) ==
    /\ jobs[w].stage = "get"
    /\ jobs' = [jobs EXCEPT ![w].stage = "append",
                            ![w].read = lists[Head(jobs[w].todo)]]
    /\ UNCHANGED <<record, lists, consumed, written, answers, overlapped>>

(* ... and put it back, longer.  The client is answered after the last.    *)
PutList(w) ==
    LET job == jobs[w]
        l   == Head(job.todo)
    IN /\ job.stage = "append"
       /\ lists' = [lists EXCEPT ![l] = Append(job.read, Entry(job.request, job.next))]
       /\ IF Len(job.todo) > 1
          THEN /\ jobs' = [jobs EXCEPT ![w].stage = "get", ![w].read = << >>,
                                       ![w].todo = Tail(@)]
               /\ UNCHANGED answers
          ELSE /\ jobs' = [jobs EXCEPT ![w] = Idle]
               /\ Tell(job.request, job.next.version)
       /\ UNCHANGED <<record, consumed, written, overlapped>>

(* A get or put fails and the request with it. *)
Fail(w) ==
    /\ jobs[w] # Idle
    /\ jobs' = [jobs EXCEPT ![w] = Idle]
    /\ UNCHANGED <<record, lists, consumed, written, answers, overlapped>>

(* The isolate is gone; another one takes its place. *)
Restart(w) ==
    /\ jobs' = [jobs EXCEPT ![w] = Idle]
    /\ consumed' = [consumed EXCEPT ![w] = {}]
    /\ UNCHANGED <<record, lists, written, answers, overlapped>>

KvNext ==
    \E w \in Workers :
        \/ \E r \in Requests : Begin(w, r) \/ ContinueLoad(w, r)
        \/ PutRecord(w) \/ ContinueReplay(w) \/ ContinueConsume(w)
        \/ GetList(w) \/ PutList(w) \/ Fail(w) \/ Restart(w)

KvSpec == KvInit /\ [][KvNext]_kvVars

----------------------------------------------------------------------------

Versions(l) == {lists[l][i].version : i \in DOMAIN lists[l]}

(* One request at a time, failures anywhere: the snapshots are the history *)
(* of the record with the ones lost to failures missing.  Their versions   *)
(* rise strictly and each holds the only record there ever was under its   *)
(* version (createSnapshot, 31-39; getSnapshot, 525-533, finds one).       *)
SnapshotsAreTheHistory == ~overlapped =>
    LET snapshots == lists["snapshots"] IN
    /\ \A i, j \in DOMAIN snapshots :
          i < j => snapshots[i].version < snapshots[j].version
    /\ \A i \in DOMAIN snapshots :
          \A w \in written :
              w.version = snapshots[i].version => w = snapshots[i].record

(* One request at a time: the lists are cut off in the order they are      *)
(* written.  A mutation in the log is in the events, one in the events has *)
(* its snapshot, and an event id names one event.                          *)
TrailIsCutInOrder == ~overlapped =>
    LET Mutations(l) == {e \in {lists[l][i] : i \in DOMAIN lists[l]} :
                            e.op \notin {"create", "continue"}}
    IN /\ Mutations("log") \subseteq Mutations("events")
       /\ Mutations("events") \subseteq Mutations("snapshots")
       /\ \A i, j \in DOMAIN lists["events"] :
             lists["events"][i] = lists["events"][j] => i = j

(* One request at a time: whatever failed in between, the three lists tell *)
(* the one history of the record, and each no more than the one before it. *)
TrailIsTheHistory == SnapshotsAreTheHistory /\ TrailIsCutInOrder

(* One request at a time: what a client was told had been done is in every *)
(* list of the operation, and no later failure takes it back.  Of a        *)
(* continuation only the event is certain: one that failed before its log  *)
(* entry is answered from the event when it is retried (462-470).          *)
Promised(request) ==
    IF request.op = "continue" THEN {"events"}
    ELSE {Trail(request.op)[n] : n \in DOMAIN Trail(request.op)}

AnsweredIsRecorded == ~overlapped =>
    \A a \in answers : \A l \in Promised(a.request) :
        \E i \in DOMAIN lists[l] :
            /\ lists[l][i].op = a.request.op
            /\ IF a.request.op = "continue"
               THEN lists[l][i].token = a.request.token
               ELSE lists[l][i].version = a.version

(* One request at a time: a token makes one continuation, whatever was     *)
(* retried and whatever the isolate forgot (450-487).                      *)
OneContinuationPerToken == ~overlapped =>
    \A i, j \in DOMAIN lists["events"] :
        /\ lists["events"][i].op = "continue"
        /\ lists["events"][j].op = "continue"
        /\ lists["events"][i].token = lists["events"][j].token
        => i = j

(* However requests interleave, no snapshot or event is made up: each is   *)
(* of a record that was stored, and every stored record follows another    *)
(* one that was stored.                                                    *)
TrailTellsTheTruth ==
    /\ \A l \in KvLists : \A i \in DOMAIN lists[l] : lists[l][i].record \in written
    /\ \A w \in written :
          w.version > 1 => \E b \in written : b.version = w.version - 1
=============================================================================
