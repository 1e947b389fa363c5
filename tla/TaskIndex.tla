------------------------------ MODULE TaskIndex ------------------------------
(***************************************************************************)
(* runtime/lib/kv-persistence.mjs: the index of all tasks, one KV value    *)
(* that every mutation of any task rewrites, the copy of it each isolate   *)
(* keeps from its first use to its end, and the short codes that           *)
(* task-store-kv.mjs derives from it.                                      *)
(*                                                                         *)
(* A request runs in a slot of an isolate and its steps end at its awaits. *)
(* A task is reduced to a version.  Sorting by updated_at puts the entry   *)
(* just updated first, the clocks of callers being taken to agree.  All    *)
(* tasks share the prefix their codes are made of, so a code is a number.  *)
(* The flag _indexDirty is left out: whenever _flushIndex is called it has *)
(* just been set, in the same turn of the event loop.                      *)
(***************************************************************************)
EXTENDS Integers, Sequences, FiniteSets, SequencesExt, Selections

CONSTANTS
    TaskIds,
    Isolates,
    RequestSlots, \* slots for requests
    IsolateOf,   \* IsolateOf[s]: the isolate a slot belongs to
    NoIndex,     \* no cached index
    NoTaskId,    \* no request
    MaxIndexed,  \* entries the index keeps (200 in the code)
    MaxVersion,  \* bound on the version of a task
    OneAtATime,  \* requests do not overlap
    MayFail      \* requests may stop half way

ASSUME TaskIndexAssumption ==
    /\ IsolateOf \in [RequestSlots -> Isolates]
    /\ NoTaskId \notin TaskIds
    /\ MaxIndexed \in Nat \ {0}
    /\ MaxVersion \in Nat
    /\ NoIndex \notin Seq([id : TaskIds, version : Nat])
    /\ {OneAtATime, MayFail} \subseteq BOOLEAN

VARIABLES
    tasks,    \* tasks[id]: version of the record, 0 when there is none
    codeOf,   \* codeOf[id]: the short code in the record, 0 when none
    codes,    \* codes[n]: the task under "task:short:<prefix><n>"
    stored,   \* "task:index": sequence of entries, newest first
    cache,    \* cache[i]: _indexCache
    requests, \* requests[s]: where the request of slot s is
    answered, \* history: answered[id]: last version a client was told of
    lastTold  \* history: the task of the last answer

ixVars == <<tasks, codeOf, codes, stored, cache, requests, answered,
          lastTold>>

CodeNumbers == 1..(MaxIndexed + 1)

NoRequest == [stage |-> "idle", id |-> NoTaskId, value |-> << >>, code |-> 0]

Entry(id, v) == [id |-> id, version |-> v]

(* A mistake: the entry is added to the one there was. *)
UpdatedTwice(index, entry) ==
    LET sorted == <<entry>> \o index
    IN SubSeq(sorted, 1, IF Len(sorted) > MaxIndexed THEN MaxIndexed ELSE Len(sorted))

(* _updateIndex: replace or add the entry, sort, keep the first MaxIndexed.  *)
Updated(index, entry) ==
    LET others == SelectAt(index, {n \in DOMAIN index : index[n].id # entry.id})
        sorted == <<entry>> \o others
    IN SubSeq(sorted, 1, IF Len(sorted) > MaxIndexed THEN MaxIndexed ELSE Len(sorted))

IndexCopy(i) == IF cache[i] = NoIndex THEN << >> ELSE cache[i]

----------------------------------------------------------------------------

IndexInit ==
    /\ tasks = [t \in TaskIds |-> 0]
    /\ codeOf = [t \in TaskIds |-> 0]
    /\ codes = [n \in CodeNumbers |-> NoTaskId]
    /\ stored = << >>
    /\ cache = [i \in Isolates |-> NoIndex]
    /\ requests = [s \in RequestSlots |-> NoRequest]
    /\ answered = [t \in TaskIds |-> 0]
    /\ lastTold = NoTaskId

MayStart(s) ==
    /\ requests[s] = NoRequest
    /\ OneAtATime => \A x \in RequestSlots : requests[x] = NoRequest

(* create: no record may exist. *)
BeginCreate(s, id) ==
    /\ MayStart(s)
    /\ tasks[id] = 0
    /\ requests' = [requests EXCEPT ![s] = [NoRequest EXCEPT
                   !.stage = IF cache[IsolateOf[s]] = NoIndex THEN "load" ELSE "code",
                   !.id = id]]
    /\ UNCHANGED <<tasks, codeOf, codes, stored, cache, answered, lastTold>>

(* _loadIndex in an isolate that has no copy: the get ... *)
LoadIndex(s) ==
    /\ requests[s].stage = "load"
    /\ requests' = [requests EXCEPT ![s].stage = "assign", ![s].value = stored]
    /\ UNCHANGED <<tasks, codeOf, codes, stored, cache, answered, lastTold>>

(* ... and the assignment, which replaces the copy another request of the  *)
(* isolate may have made, and changed, in the meantime.                    *)
AssignIndex(s) ==
    /\ requests[s].stage = "assign"
    /\ cache' = [cache EXCEPT ![IsolateOf[s]] = requests[s].value]
    /\ requests' = [requests EXCEPT ![s].value = << >>,
                   ![s].stage = IF tasks[requests[s].id] = 0 THEN "code" ELSE "update"]
    /\ UNCHANGED <<tasks, codeOf, codes, stored, answered, lastTold>>

(* A mistake: the record is put before its code is known. *)
PutNewTaskUncoded(s) ==
    /\ requests[s].stage = "code"
    /\ tasks' = [tasks EXCEPT ![requests[s].id] = 1]
    /\ requests' = [requests EXCEPT ![s].stage = "short",
                            ![s].code = Len(IndexCopy(IsolateOf[s])) + 1]
    /\ UNCHANGED <<codeOf, codes, stored, cache, answered, lastTold>>

(* The code is one more than the number of indexed tasks of the prefix;    *)
(* the record is put with it.                                              *)
PutNewTask(s) ==
    /\ requests[s].stage = "code"
    /\ LET code == Len(IndexCopy(IsolateOf[s])) + 1
       IN /\ tasks' = [tasks EXCEPT ![requests[s].id] = 1]
          /\ codeOf' = [codeOf EXCEPT ![requests[s].id] = code]
          /\ requests' = [requests EXCEPT ![s].stage = "short", ![s].code = code]
    /\ UNCHANGED <<codes, stored, cache, answered, lastTold>>

PutShortCode(s) ==
    /\ requests[s].stage = "short"
    /\ codes' = [codes EXCEPT ![requests[s].code] = requests[s].id]
    /\ requests' = [requests EXCEPT ![s].stage = "update"]
    /\ UNCHANGED <<tasks, codeOf, stored, cache, answered, lastTold>>

(* Any other mutation: the record is put, the index loaded if need be.     *)
PutTask(s, id) ==
    /\ MayStart(s)
    /\ tasks[id] \in 1..(MaxVersion - 1)
    /\ tasks' = [tasks EXCEPT ![id] = @ + 1]
    /\ requests' = [requests EXCEPT ![s] = [NoRequest EXCEPT
                   !.stage = IF cache[IsolateOf[s]] = NoIndex THEN "load" ELSE "update",
                   !.id = id]]
    /\ UNCHANGED <<codeOf, codes, stored, cache, answered, lastTold>>

(* The copy is changed and the put of its text begins in the same turn.    *)
UpdateIndex(s) ==
    LET i     == IsolateOf[s]
        index == Updated(IndexCopy(i), Entry(requests[s].id, tasks[requests[s].id]))
    IN /\ requests[s].stage = "update"
       /\ cache' = [cache EXCEPT ![i] = index]
       /\ requests' = [requests EXCEPT ![s].stage = "flush", ![s].value = index]
       /\ UNCHANGED <<tasks, codeOf, codes, stored, answered, lastTold>>

FlushIndex(s) ==
    LET id == requests[s].id IN
    /\ requests[s].stage = "flush"
    /\ stored' = requests[s].value
    /\ answered' = [answered EXCEPT ![id] = tasks[id]]
    /\ lastTold' = id
    /\ requests' = [requests EXCEPT ![s] = NoRequest]
    /\ UNCHANGED <<tasks, codeOf, codes, cache>>

RequestFails(s) ==
    /\ MayFail
    /\ requests[s] # NoRequest
    /\ requests' = [requests EXCEPT ![s] = NoRequest]
    /\ UNCHANGED <<tasks, codeOf, codes, stored, cache, answered, lastTold>>

IsolateRestarts(i) ==
    /\ MayFail
    /\ cache' = [cache EXCEPT ![i] = NoIndex]
    /\ requests' = [s \in RequestSlots |-> IF IsolateOf[s] = i THEN NoRequest ELSE requests[s]]
    /\ UNCHANGED <<tasks, codeOf, codes, stored, answered, lastTold>>

IndexNext ==
    \/ \E s \in RequestSlots :
          \/ \E t \in TaskIds : BeginCreate(s, t) \/ PutTask(s, t)
          \/ LoadIndex(s) \/ AssignIndex(s) \/ PutNewTask(s) \/ PutShortCode(s)
          \/ UpdateIndex(s) \/ FlushIndex(s) \/ RequestFails(s)
    \/ \E i \in Isolates : IsolateRestarts(i)

IndexSpec == IndexInit /\ [][IndexNext]_ixVars

----------------------------------------------------------------------------

Listed(id) == \E n \in DOMAIN stored : stored[n].id = id

(* One isolate, one request at a time, failures and restarts anywhere: the *)
(* index readers get (listRecentTasks, getLatestActiveTask) has each task  *)
(* once, with a state at least as new as the last one a client was told of *)
(* and no newer than the record, and never more tasks than it may.         *)
IndexIsCurrent ==
    /\ Len(stored) <= MaxIndexed
    /\ \A n \in DOMAIN stored :
          /\ answered[stored[n].id] <= stored[n].version
          /\ stored[n].version <= tasks[stored[n].id]
    /\ \A m, n \in DOMAIN stored : stored[m].id = stored[n].id => m = n

(* Same restriction: a task leaves the index only for lack of room, and    *)
(* the task that was answered last is the first one (slice(0, 200), 76).   *)
AnsweredIsListed ==
    /\ \A t \in TaskIds : answered[t] > 0 => Listed(t) \/ Len(stored) = MaxIndexed
    /\ lastTold # NoTaskId => stored[1].id = lastTold

(* Both together: recent-task lists and the latest active task are true to *)
(* what clients were told (kv-persistence.mjs, 66-94).                     *)
IndexIsTrue == IndexIsCurrent /\ AnsweredIsListed

(* Same restriction: a code that leads to a task is the code in its       *)
(* record, whatever failed between the puts of create (99-121).  Two tasks *)
(* may carry one code once the index has lost or evicted an entry, but the *)
(* code never opens a task that does not answer to it.                     *)
CodeNamesItsTask ==
    \A n \in CodeNumbers : codes[n] # NoTaskId => codeOf[codes[n]] = n

(* "Task should appear in listRecentTasks"                                 *)
(* (scripts/build/test/task-store-kv-index-batching.test.mjs:131): while   *)
(* there is room, every task is listed.  It does not hold with two         *)
(* isolates: each overwrites the index with its own copy.                  *)
EveryTaskIsListed ==
    (\A s \in RequestSlots : requests[s] = NoRequest) =>
        \A t \in TaskIds : answered[t] > 0 => Listed(t) \/ Len(stored) = MaxIndexed
=============================================================================
