---------------------------- MODULE MCTaskStores ----------------------------
(* Small instances of the two stores of a task: the object, and the keys of  *)
(* KvTaskStore.  They share nothing here, so that a behaviour is of one of   *)
(* them and the other idles; DualWrite composes the object with the KV       *)
(* operations.                                                               *)
EXTENDS TaskObjectRefinement, KvTaskStore, TLC

CONSTANTS k1, k2, r1, r2, a1, f1, f2, t1, p1

mcKeys == {k1, k2}
mcSafeKey == [k \in mcKeys |-> "k"]
mcRoutes == {r1, r2}

Finding(f) == [id |-> f, status |-> "verified", route |-> r1]
Payload(r, s, f) == [route |-> r, state |-> s, action |-> a1, finding |-> Finding(f)]

(* Two keys that are sanitised to the same text, one valid command of each *)
(* kind, an unsupported one, and one key reused for another route; for the *)
(* versions 1 to 3, and for whatever version.                              *)
mcCommands ==
    LET p == Payload(r1, "active", f1) IN
    {BuildTaskCommand(k, e, "task.select_route", p) :
        k \in mcKeys, e \in {1, NoVersion}}
    \cup {BuildTaskCommand(k1, NoVersion, "task.select_route",
                           Payload(r2, "active", f1))}
    \cup {BuildTaskCommand(k1, 2, "task.append_finding", Payload(r1, "active", f)) :
        f \in FindingIds}
    \cup {BuildTaskCommand(k2, 3, "task.transition_state", p),
          BuildTaskCommand(k2, NoVersion, "unsupported", p)}

PutTask(v, s) ==
    [CreatePortableTask(r1, a1, 1) EXCEPT !.version = v, !.state = s]

mcPutTasks == {PutTask(v, "pending") : v \in {1, NoVersion}}
              \cup {PutTask(v, "active") : v \in {2, 3, 4}}

(* The body of the store's own call, {task}; one with two log entries, and *)
(* one with an event, a snapshot and a fingerprint.                        *)
Entries(events, snapshots, log) ==
    [events |-> events, snapshots |-> snapshots, log |-> log]

mcExtras ==
    {NoExtra, [NoExtra EXCEPT !.lists = Entries(0, 0, 2)],
     [lists |-> Entries(1, 1, 0), prints |-> [t \in {t1} |-> p1]]}

Request(op, e, r, s) ==
    [op |-> op, expected |-> e, payload |-> Payload(r, s, f1),
     progress |-> [done |-> 0, total |-> 1], token |-> t1]

Create   == Request("create", 0, r1, "pending")
Continue == Request("continue", 0, r1, "pending")

(* Two clients at the first version, and one at the second. *)
mcRace ==
    {Request("task.append_finding", 1, r1, "active"),
     Request("task.select_route", 1, r2, "active"),
     Request("task.select_route", 2, r1, "active")}

mcRequests == mcRace \cup
    {Create, Continue,
     Request("task.transition_state", 1, r1, "active"),
     Request("upgrade", 2, r2, "active"),
     Request("update", 2, r2, "active"),
     Request("answer", 3, r1, "active")}

VARIABLE part
allVars == <<vars, kvVars, part>>

MCInit ==
    /\ part \in {"object", "kv"}
    /\ Init
    /\ KvInit

MCNext ==
    /\ \/ part = "object" /\ Next /\ UNCHANGED kvVars
       \/ part = "kv" /\ KvNext /\ UNCHANGED vars
    /\ UNCHANGED part

MCSpec == MCInit /\ [][MCNext]_allVars

(* No guard and no property but the type reads the replication count, and *)
(* once requests have overlapped no property reads the answers.           *)
mcView == <<task, version, commits, index, trail, fingerprints, receipts,
            record, lists, jobs, consumed, written, overlapped,
            IF overlapped THEN {} ELSE answers, part>>
mcSymmetry == Permutations(Workers)
=============================================================================
