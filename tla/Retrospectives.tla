--------------------------- MODULE Retrospectives ---------------------------
(***************************************************************************)
(* worker/src/retrospectives/storage.ts and cleanup.ts: every artifact is  *)
(* stored three times, in full in R2, as a summary with a time to live in  *)
(* KV, and by its id in one index value in KV that every write, every      *)
(* pruning list and the weekly cleanup read, change and put back.          *)
(*                                                                         *)
(* A request or the scheduled cleanup is a job; every step of a job ends   *)
(* at one of its awaits.  Content is a revision number.  generated_at is   *)
(* taken not to lie in the future, so a summary whose time to live is over *)
(* belongs to an artifact that is old for the cleanup, too.                *)
(***************************************************************************)
EXTENDS SequencesExt, FiniteSets, Naturals, Selections

CONSTANTS
    Ids,          \* deriveRetrospectiveId: the day and the pull request
    Requesters,   \* slots for requests under way at the same time
    Cron,         \* the slot of the scheduled cleanup
    NoId,
    MaxIndex,     \* MAX_INDEX_SIZE
    MaxPosts,     \* bound on the posts
    MaxFailures   \* bound on failed deletes and jobs that die

ASSUME RetrospectivesAssumption ==
    /\ Cron \notin Requesters
    /\ NoId \notin Ids
    /\ MaxIndex \in Nat \ {0}
    /\ {MaxPosts, MaxFailures} \subseteq Nat

VARIABLES
    artifact,   \* R2: revision under "retrospectives/<id>/artifact.json", or 0
    meta,       \* KV: revision under "retrospective:<id>:meta", or 0
    index,      \* KV: "retrospective:index", newest first
    old,        \* old[id]: generated_at is longer ago than the retention
    jobs,       \* jobs[s]: where the job of slot s is
    posted,     \* history: how often anything was posted
    told,       \* history: the last revision a client was told was stored,
                \* 0 again once newer artifacts have displaced it
    overlapped, \* history: two jobs have been under way at once
    failures    \* how many failures there were

stores == <<artifact, meta, index>>
history == <<posted, told, overlapped>>
vars == <<stores, old, jobs, history, failures>>

Slots == Requesters \cup {Cron}

Idle == [stage |-> "idle", id |-> NoId, revision |-> 0, seen |-> << >>,
         todo |-> << >>, stale |-> {}, left |-> {}]

(* A mistake: the summary announces an artifact that is not there yet. *)
WriteMetaFirst == <<"meta", "artifact">>

(* The order of the two puts before the index is updated. *)
WriteOrder == <<"artifact", "meta">>

Others(list, id) == SelectAt(list, {n \in DOMAIN list : list[n] # id})

(* A mistake: the new id goes where the list is cut. *)
PrependedAtEnd(list, id) ==
    LET whole == Append(Others(list, id), id)
    IN SubSeq(whole, 1, IF Len(whole) < MaxIndex THEN Len(whole) ELSE MaxIndex)

Prepended(list, id) ==
    LET whole == <<id>> \o Others(list, id)
    IN SubSeq(whole, 1, IF Len(whole) < MaxIndex THEN Len(whole) ELSE MaxIndex)

Displaced(list, id) ==
    ToSet(Others(list, id)) \ ToSet(Prepended(list, id))

(* A mistake: the ids are reported but stay. *)
PrunedNothing(list, stale) == list

Pruned(list, stale) == SelectAt(list, {n \in DOMAIN list : list[n] \notin stale})

----------------------------------------------------------------------------

Init ==
    /\ artifact = [i \in Ids |-> 0]
    /\ meta = [i \in Ids |-> 0]
    /\ index = << >>
    /\ old = [i \in Ids |-> FALSE]
    /\ jobs = [s \in Slots |-> Idle]
    /\ posted = 0
    /\ told = [i \in Ids |-> 0]
    /\ overlapped = FALSE
    /\ failures = 0

Starts(s, job) ==
    /\ jobs[s] = Idle
    /\ jobs' = [jobs EXCEPT ![s] = job]
    /\ overlapped' = (overlapped \/ \E x \in Slots : jobs[x] # Idle)
    /\ UNCHANGED <<stores, old, told, failures>>

(* writeRetrospectiveArtifact *)

Post(s, id) ==
    /\ posted < MaxPosts
    /\ posted' = posted + 1
    /\ Starts(s, [Idle EXCEPT !.stage = "write", !.id = id,
                              !.revision = posted + 1, !.todo = WriteOrder])

Written(s) ==
    /\ jobs' = [jobs EXCEPT ![s].todo = Tail(@),
                   ![s].stage = IF Len(jobs[s].todo) = 1 THEN "getIndex" ELSE "write"]
    /\ UNCHANGED <<index, old, history, failures>>

PutArtifact(s) ==
    /\ jobs[s].stage = "write"
    /\ Head(jobs[s].todo) = "artifact"
    /\ artifact' = [artifact EXCEPT ![jobs[s].id] = jobs[s].revision]
    /\ Written(s)
    /\ UNCHANGED meta

PutMeta(s) ==
    /\ jobs[s].stage = "write"
    /\ Head(jobs[s].todo) = "meta"
    /\ meta' = [meta EXCEPT ![jobs[s].id] = jobs[s].revision]
    /\ Written(s)
    /\ UNCHANGED artifact

(* updateRetroIndex: the get ... *)
GetIndex(s) ==
    /\ jobs[s].stage = "getIndex"
    /\ jobs' = [jobs EXCEPT ![s].stage = "putIndex", ![s].seen = index]
    /\ UNCHANGED <<stores, old, history, failures>>

(* ... and the put, after which the client is answered. *)
PutIndex(s) ==
    LET id   == jobs[s].id
        seen == jobs[s].seen
    IN /\ jobs[s].stage = "putIndex"
       /\ index' = Prepended(seen, id)
       /\ told' = [i \in Ids |-> IF i = id THEN jobs[s].revision
                                 ELSE IF i \in Displaced(seen, id) THEN 0
                                 ELSE told[i]]
       /\ jobs' = [jobs EXCEPT ![s] = Idle]
       /\ UNCHANGED <<artifact, meta, old, posted, overlapped, failures>>

----------------------------------------------------------------------------
(* listRetrospectives, of which aggregateRetrospectives is a use, by a     *)
(* requester, and cleanupExpiredRetrospectives by Cron: both read the      *)
(* index once and walk through what they have read.                        *)

BeginWalk(s) ==
    /\ Starts(s, [Idle EXCEPT !.stage = "walk", !.seen = index, !.todo = index])
    /\ UNCHANGED posted

Walked(job, stale) ==
    [job EXCEPT !.stage = "walk", !.todo = Tail(@), !.stale = stale, !.left = {}]

(* The get of a summary decides what happens to its id. *)
GetMeta(s) ==
    LET job == jobs[s]
        id  == Head(job.todo)
    IN /\ job.stage = "walk"
       /\ job.todo # << >>
       /\ jobs' = [jobs EXCEPT ![s] =
             IF meta[id] = 0
             THEN [job EXCEPT !.stage = "delete", !.left = {"artifact"}]
             ELSE IF s = Cron /\ old[id]
             THEN [job EXCEPT !.stage = "delete", !.left = {"artifact", "meta"}]
             ELSE Walked(job, job.stale)]
       /\ UNCHANGED <<stores, old, history, failures>>

(* The deletes run together and may fail, which nobody is told: the id is  *)
(* stale in any case.                                                      *)
Delete(s, store) ==
    LET job == jobs[s]
        id  == Head(job.todo)
    IN /\ job.stage = "delete"
       /\ store \in job.left
       /\ jobs' = [jobs EXCEPT ![s] =
             IF job.left = {store} THEN Walked(job, job.stale \cup {id})
             ELSE [job EXCEPT !.left = @ \ {store}]]
       /\ \/ /\ artifact' = IF store = "artifact" THEN [artifact EXCEPT ![id] = 0]
                            ELSE artifact
             /\ meta' = IF store = "meta" THEN [meta EXCEPT ![id] = 0] ELSE meta
             /\ UNCHANGED failures
          \/ /\ failures < MaxFailures
             /\ failures' = failures + 1
             /\ UNCHANGED <<artifact, meta>>
       /\ UNCHANGED <<index, old, history>>

(* At the end the list as it was read, without the stale ids, replaces the *)
(* list as it is now.                                                      *)
EndWalk(s) ==
    LET job == jobs[s] IN
    /\ job.stage = "walk"
    /\ job.todo = << >>
    /\ index' = IF job.stale = {} THEN index ELSE Pruned(job.seen, job.stale)
    /\ jobs' = [jobs EXCEPT ![s] = Idle]
    /\ UNCHANGED <<artifact, meta, old, history, failures>>

(* A get or put fails, or the isolate is gone. *)
Fail(s) ==
    /\ jobs[s] # Idle
    /\ failures < MaxFailures
    /\ failures' = failures + 1
    /\ jobs' = [jobs EXCEPT ![s] = Idle]
    /\ UNCHANGED <<stores, old, history>>

----------------------------------------------------------------------------
(* Time *)

Age(id) ==
    /\ ~old[id]
    /\ old' = [old EXCEPT ![id] = TRUE]
    /\ UNCHANGED <<stores, jobs, history, failures>>

(* expirationTtl *)
TtlExpires(id) ==
    /\ old[id]
    /\ meta[id] # 0
    /\ meta' = [meta EXCEPT ![id] = 0]
    /\ UNCHANGED <<artifact, index, old, jobs, history, failures>>

Step(s) ==
    \/ PutArtifact(s) \/ PutMeta(s) \/ GetIndex(s) \/ PutIndex(s)
    \/ GetMeta(s) \/ EndWalk(s)
    \/ \E store \in {"artifact", "meta"} : Delete(s, store)

Next ==
    \/ \E s \in Requesters, id \in Ids : Post(s, id)
    \/ \E s \in Slots : BeginWalk(s) \/ Step(s) \/ Fail(s)
    \/ \E id \in Ids : Age(id) \/ TtlExpires(id)

Spec == Init /\ [][Next]_vars

(* The trigger fires every week (wrangler.toml:30), and the platform runs  *)
(* what the handler hands to waitUntil.  Nothing is assumed of requests,   *)
(* and failures are not unfair but finitely many.                          *)
FairSpec == Spec /\ WF_vars(BeginWalk(Cron)) /\ WF_vars(Step(Cron))

----------------------------------------------------------------------------

(* Whatever overlaps and whatever fails, nothing is deleted before its     *)
(* time: within the retention an id of the index has its summary, and a    *)
(* summary the artifact it announces (storage.ts, 174-183).                *)
YoungAreReadable ==
    \A i \in Ids : ~old[i] =>
        /\ i \in ToSet(index) => meta[i] # 0
        /\ meta[i] # 0 => artifact[i] # 0

(* While jobs do not overlap, what a client was told was stored stays in   *)
(* all three places until it is old or displaced by newer artifacts,       *)
(* whatever fails later on.                                                *)
StoredStaysStored ==
    ~overlapped =>
        \A i \in Ids : told[i] # 0 /\ ~old[i] =>
            /\ i \in ToSet(index)
            /\ meta[i] >= told[i]
            /\ artifact[i] >= told[i]

(* However often a stale list is put back over the cleaned one, in the end *)
(* the index is free of everything the retention has passed.               *)
OldAreForgotten ==
    <>[](\A i \in Ids : old[i] => i \notin ToSet(index))
=============================================================================
